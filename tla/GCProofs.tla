------------------------------ MODULE GCProofs ------------------------------
(***************************************************************************)
(* What the collector and the handlers around it keep, for a heap, a queue *)
(* and a bit set of any size and programs with any kinds of object.  What  *)
(* concerns the heap alone comes from HeapProofs: HP is that module about  *)
(* the heap of GC.                                                         *)
(***************************************************************************)
EXTENDS GC, TLAPS, WellFoundedInduction

HP == INSTANCE HeapProofs WITH
        Object <- Plain \cup Dict \cup Closure,
        Deletable <- Plain \cup Dict,
        result <- -1

Object == Plain \cup Dict \cup Closure

(* A ring of some capacity whose slots hold members of S.                  *)
Ring(capacity, S) ==
    [items : [0 .. capacity - 1 -> S], head : 0 .. capacity - 1, tail : 0 .. capacity - 1]

Places ==
    [at : {"run", "mark"}] \cup [at : {"roots"}, slot : Nat]
      \cup [at : {"items"}, list : H!Ids, item : Nat \ {0}]
      \cup [at : {"nodes"}, dict : H!Ids, queue : Ring(CellCapacity, Nat)]
      \cup [at : {"sweep"}, slot : 0 .. BitCapacity]

(* The pointers of a dict's nodes lead to its nodes.                       *)
Linked(nodes) ==
    \A n \in DOMAIN nodes : nodes[n].l \in 0 .. Len(nodes) /\ nodes[n].r \in 0 .. Len(nodes)
DictsLinked ==
    \A id \in H!Live : cells[id].kind = "dict" => Linked(cells[id].nodes)

(* What the collector works on is still there, and of the right kind.      *)
AtWork ==
    /\ pc.at = "items" => pc.list \in H!Live /\ cells[pc.list].kind = "list"
    /\ pc.at = "nodes" =>
          /\ pc.dict \in H!Live /\ cells[pc.dict].kind = "dict"
          /\ pc.queue \in Ring(CellCapacity, 0 .. Len(cells[pc.dict].nodes))

(* Programs make objects of Kinds only.                                    *)
KindsKept == \A id \in H!Live : cells[id].kind \in Kinds

HeapInv == HP!CellsInv /\ tenure_count = 0 /\ DictsLinked /\ KindsKept

StackInv == stack \in Seq(Value) /\ stack # <<>> /\ error_oid \in Ref

MarksInv ==
    /\ reach_bits \subseteq Positions
    /\ next_ids \in Ring(HeapPopMax, Ref)

(* What a program may store.                                               *)
Fit(object) ==
    /\ object \in Object /\ object.kind \in Kinds
    /\ object.kind = "dict" => Linked(object.nodes)

PlaceInv ==
    /\ pc \in Places
    /\ IF pc = Run THEN pending = NoObject
                   ELSE Fit(pending)
    /\ AtWork

TypeInv == HeapInv /\ StackInv /\ MarksInv /\ PlaceInv

-----------------------------------------------------------------------------
(* The heap                                                                *)

(* What HeapProofs assumes of the heap's parameters.                       *)
LEMMA Params ==
    /\ HP!CapacityAssumption /\ HP!ObjectAssumption
    /\ CellCapacity \in Nat \ {0} /\ CellCapacity <= 32768
    /\ HeapPopMax \in Nat \ {0} /\ Prim \notin Int /\ NULL \notin Object
    /\ BitCapacity \in Nat
<1>1. BitCapacity \in Nat
  <2>1. HeapPopMax \in Nat /\ ByteBits \in Nat \ {0}
    BY GCAssumption
  <2>2. HeapPopMax \div ByteBits \in Nat
    BY <2>1
  <2>. DEFINE q == HeapPopMax \div ByteBits
  <2>. HIDE DEF q
  <2>3. (q + 1) * ByteBits \in Nat
    BY <2>1, <2>2 DEF q
  <2>. QED  BY <2>3 DEF BitCapacity, q
<1>. QED
  BY <1>1, GCAssumption, NullAssumption
  DEF HP!CapacityAssumption, HP!ObjectAssumption, Object

(* The heap of GC is the heap of HeapProofs.                               *)
LEMMA SameHeap ==
    /\ H!Ids = HP!Ids /\ H!Ids = 0 .. CellCapacity - 1
    /\ H!DUD_HEAP_ID = -1 /\ HP!DUD_HEAP_ID = -1
    /\ H!Live = HP!Live /\ H!GenId = HP!GenId
    /\ H!InitCells <=> HP!InitCells
    /\ H!FreeListExact <=> HP!FreeListExact
    /\ H!CostExact <=> HP!CostExact
<1>1. /\ H!Ids = HP!Ids /\ H!Ids = 0 .. CellCapacity - 1
      /\ H!DUD_HEAP_ID = -1 /\ HP!DUD_HEAP_ID = -1
      /\ H!OBJECT_COST = HP!OBJECT_COST
  BY DEF H!Ids, HP!Ids, H!DUD_HEAP_ID, HP!DUD_HEAP_ID, H!OBJECT_COST, HP!OBJECT_COST
<1>2. H!Live = HP!Live /\ H!FreeIds = HP!FreeIds
  BY <1>1 DEF H!Live, HP!Live, H!FreeIds, HP!FreeIds
<1>3. H!GenId = HP!GenId
  BY <1>1 DEF H!GenId, HP!GenId
<1>4. H!InitCells <=> HP!InitCells
  BY <1>1 DEF H!InitCells, HP!InitCells
<1>5. H!FreeListExact <=> HP!FreeListExact
  BY <1>2 DEF H!FreeListExact, HP!FreeListExact
<1>6. H!CostExact <=> HP!CostExact
  <2>1. H!Cardinality(H!Live) = HP!Cardinality(H!Live)
    BY DEF H!Cardinality, HP!Cardinality
  <2>. QED  BY <1>1, <1>2, <2>1 DEF H!CostExact, HP!CostExact
<1>. QED  BY <1>1, <1>2, <1>3, <1>4, <1>5, <1>6

(* The steps of Heap the collector takes are those the heap's theorems are *)
(* about.                                                                  *)
LEMMA SameStore ==
    ASSUME NEW object \in Object, H!heap_store(object)
    PROVE  HP!heap_store(object)
  BY SameHeap
  DEF H!heap_store, HP!heap_store, H!heap_gen_id, HP!heap_gen_id, H!OBJECT_COST,
      HP!OBJECT_COST

(* So is the erasure of a cell.                                            *)
LEMMA SameErase ==
    ASSUME NEW id \in Int, H!heap_erase(id)
    PROVE  HP!heap_erase(id)
  BY DEF H!heap_erase, HP!heap_erase, H!OBJECT_COST, HP!OBJECT_COST,
         H!heap_reserve_id, HP!heap_reserve_id, H!cell_vars, HP!cell_vars

(* The cells' types, with the names of this module.                        *)
LEMMA CellsType ==
    ASSUME HP!CellsInv
    PROVE  /\ cells \in [H!Ids -> Object \cup {NULL}]
           /\ next_cell_id \in 0 .. CellCapacity
           /\ crashed \in BOOLEAN
           /\ H!Live \subseteq H!Ids
           /\ \A id \in H!Live : cells[id] \in Object
  BY SameHeap, Params DEF HP!CellsInv, HP!CellsTypeOK, H!Live, Object

(* A store that finds a cell fills an empty one, and one that does not     *)
(* changes nothing a handler sees.                                         *)
LEMMA StoreFacts ==
    ASSUME HP!CellsInv, ~crashed, NEW object \in Object, H!heap_store(object)
    PROVE  /\ HP!CellsInv' /\ H!GenId \in Ref
           /\ tenure_count' = tenure_count /\ crashed' = crashed
           /\ \/ cells' = cells
              \/ /\ H!GenId \in H!Ids /\ cells[H!GenId] = NULL
                 /\ cells' = [cells EXCEPT ![H!GenId] = object]
<1>1. HP!CellsInv' /\ HP!heap_store(object)
  BY SameStore, Params, HP!StoreCellsInv DEF Object
<1>2. /\ HP!GenId \in HP!Ids \cup {HP!DUD_HEAP_ID}
      /\ HP!GenId # HP!DUD_HEAP_ID => cells[HP!GenId] = NULL
  BY Params, HP!GenIdIsEmpty
<1>. QED
  BY <1>1, <1>2, SameHeap, Params DEF HP!heap_store, Ref

(* What a reference that finds an object names.                            *)
LEMMA Found ==
    ASSUME HP!CellsInv, NEW v, ObjectAt(v) # NULL
    PROVE  /\ v \in H!Live /\ v \in 0 .. next_cell_id - 1
           /\ ObjectAt(v) = cells[v] /\ cells[v] \in Object
           /\ H!heap_get(v) = cells[v]
  BY CellsType, SameHeap, Params DEF ObjectAt, H!heap_get, H!Live

(* What heap_get finds is a live cell.                                     *)
LEMMA Got ==
    ASSUME HP!CellsInv, NEW v \in Int, H!heap_get(v) # NULL
    PROVE  v \in H!Live /\ H!heap_get(v) = cells[v] /\ cells[v] \in Object
  BY CellsType, SameHeap, Params DEF H!heap_get, H!Live

-----------------------------------------------------------------------------
(* Rings                                                                   *)

LEMMA IdRing ==
    ASSUME NEW S, NEW q \in Ring(HeapPopMax, S)
    PROVE  /\ \A x \in S : IdQueue!Pushed(q, x) \in Ring(HeapPopMax, S)
           /\ IdQueue!Popped(q) \in Ring(HeapPopMax, S)
           /\ IdQueue!PopValue(q) \in S \cup {-1}
           /\ ~IdQueue!Exhausted(q) => IdQueue!PopValue(q) \in S
<1>1. \A s \in Int : (s + 1) % HeapPopMax \in 0 .. HeapPopMax - 1
  BY Params
<1>2. (q.tail + 1) % HeapPopMax \in 0 .. HeapPopMax - 1
  BY <1>1 DEF Ring
<1>3. (q.head + 1) % HeapPopMax \in 0 .. HeapPopMax - 1
  BY <1>1 DEF Ring
<1>. QED
  BY <1>2, <1>3, SameHeap
  DEF Ring, IdQueue!Pushed, IdQueue!Popped, IdQueue!PopValue, IdQueue!Exhausted

(* A step on the pointer queue keeps its fields in range, and what is      *)
(* popped was pushed.                                                      *)
LEMMA PtrRing ==
    ASSUME NEW S, NEW q \in Ring(CellCapacity, S)
    PROVE  /\ \A x \in S : PtrQueue!Pushed(q, x) \in Ring(CellCapacity, S)
           /\ PtrQueue!Popped(q) \in Ring(CellCapacity, S)
           /\ ~PtrQueue!Exhausted(q) => PtrQueue!PopValue(q) \in S
<1>1. \A s \in Int : (s + 1) % CellCapacity \in 0 .. CellCapacity - 1
  BY Params
<1>2. (q.tail + 1) % CellCapacity \in 0 .. CellCapacity - 1
  BY <1>1 DEF Ring
<1>3. (q.head + 1) % CellCapacity \in 0 .. CellCapacity - 1
  BY <1>1 DEF Ring
<1>. QED
  BY <1>2, <1>3
  DEF Ring, PtrQueue!Pushed, PtrQueue!Popped, PtrQueue!PopValue, PtrQueue!Exhausted

(* New queues are well formed.                                             *)
LEMMA FreshRings ==
    /\ \A S : -1 \in S => IdQueue!New \in Ring(HeapPopMax, S)
    /\ \A S : 0 \in S => PtrQueue!New \in Ring(CellCapacity, S)
  BY Params, SameHeap DEF Ring, IdQueue!New, PtrQueue!New

-----------------------------------------------------------------------------
(* The invariant of the heap and the stack through the handlers            *)

LEMMA InitTypeInv == Init => TypeInv
<1>. SUFFICES ASSUME Init PROVE TypeInv
  OBVIOUS
<1>1. HP!CellsInv
  BY Params, SameHeap, HP!InitCellsInv DEF Init
<1>2. H!Live = {} /\ tenure_count = 0
  BY SameHeap DEF Init, H!InitCells, H!Live
<1>3. HeapInv
  BY <1>1, <1>2 DEF HeapInv, DictsLinked, KindsKept
<1>4. StackInv
  BY Params, SameHeap DEF Init, StackInv, Value, Ref
<1>5. MarksInv
  <2>1. -1 \in Ref /\ IdQueue!New \in Ring(HeapPopMax, Ref)
    BY FreshRings, Params DEF Ref
  <2>2. reach_bits \subseteq Positions
    BY DEF Init
  <2>. QED  BY <2>1, <2>2 DEF Init, MarksInv
<1>6. PlaceInv
  BY DEF Init, PlaceInv, Places, Run, AtWork
<1>. QED  BY <1>3, <1>4, <1>5, <1>6 DEF TypeInv

(* What does not touch the heap keeps what holds of it.                    *)
LEMMA SameHeapInv ==
    ASSUME HeapInv, UNCHANGED <<cells, free_ids, next_cell_id, tenure_count, cost>>,
           crashed' = crashed \/ crashed'
    PROVE  HeapInv' /\ H!Live' = H!Live
<1>1. HP!CellsInv'
  BY Params, HP!SameCellsInv DEF HeapInv
<1>2. H!Live' = H!Live
  BY SameHeap DEF H!Live
<1>. QED  BY <1>1, <1>2 DEF HeapInv, DictsLinked, KindsKept

(* A step that keeps the cells, the place and the pending object keeps     *)
(* what ties them.                                                         *)
LEMMA SamePlaceInv ==
    ASSUME PlaceInv, cells' = cells, pc' = pc, pending' = pending
    PROVE  PlaceInv'
<1>1. H!Live' = H!Live
  BY SameHeap DEF H!Live
<1>. QED  BY <1>1 DEF PlaceInv, AtWork, Fit

(* A step outside the collector keeps what is true of its marks.           *)
LEMMA SameMarksInv ==
    ASSUME MarksInv, UNCHANGED gc_vars
    PROVE  MarksInv'
<1>1. reach_bits' = reach_bits /\ next_ids' = next_ids
  BY DEF gc_vars
<1>. QED  BY <1>1 DEF MarksInv, Ring, Ref

(* Back in the program, nothing is pending.                                *)
LEMMA RunPlaceInv ==
    ASSUME pc' = Run, pending' = NoObject
    PROVE  PlaceInv'
  BY DEF PlaceInv, Places, Run, AtWork

(* Storing an object keeps it too.                                         *)
LEMMA StoreHeapInv ==
    ASSUME HeapInv, ~crashed, NEW object, Fit(object), H!heap_store(object)
    PROVE  HeapInv' /\ H!GenId \in Ref
<1>1. /\ HP!CellsInv /\ HP!CellsInv' /\ H!GenId \in Ref
      /\ tenure_count' = tenure_count
      /\ \/ cells' = cells
         \/ /\ H!GenId \in H!Ids
            /\ cells' = [cells EXCEPT ![H!GenId] = object]
  BY StoreFacts DEF HeapInv, Fit
<1>2. \A id \in H!Live' :
          /\ id \in H!Ids
          /\ cells'[id] = object \/ (id \in H!Live /\ cells'[id] = cells[id])
  BY <1>1, CellsType, SameHeap DEF H!Live
<1>. QED  BY <1>1, <1>2 DEF HeapInv, DictsLinked, KindsKept, Fit

(* A non-empty beginning of a sequence.                                    *)
LEMMA Beginning ==
    ASSUME NEW S, NEW s \in Seq(S), NEW k \in 1 .. Len(s)
    PROVE  SubSeq(s, 1, k) \in Seq(S) /\ SubSeq(s, 1, k) # <<>>
<1>1. SubSeq(s, 1, k) \in Seq(S) /\ Len(SubSeq(s, 1, k)) = k
  OBVIOUS
<1>. QED  BY <1>1

(* The last values of a stack go, a value comes.                           *)
LEMMA StackTypes ==
    ASSUME StackInv
    PROVE  /\ Len(stack) \in Nat \ {0} /\ Top \in Value
           /\ \A i \in 1 .. Len(stack) : stack[i] \in Value
           /\ \A k \in Int : k < Len(stack) + 1 => SubSeq(stack, 1, k) \in Seq(Value)
           /\ \A v \in Value, k \in Int : k < Len(stack) + 1 =>
                Append(SubSeq(stack, 1, k), v) \in Seq(Value) \ {<<>>}
           /\ \A k \in 1 .. Len(stack) : SubSeq(stack, 1, k) # <<>>
           /\ \A v \in Value : Append(stack, v) \in Seq(Value) \ {<<>>}
           /\ Front(stack) \in Seq(Value)
           /\ Len(stack) > 1 => Front(stack) # <<>>
           /\ \A v \in Value : Append(Front(stack), v) \in Seq(Value) \ {<<>>}
           /\ \A k \in 2 .. Len(stack) : SubSeq(stack, k, Len(stack)) \in Seq(Value)
<1>1. Len(stack) \in Nat \ {0} /\ Top \in Value
  BY DEF StackInv, Top, Last
<1>2. \A i \in 1 .. Len(stack) : stack[i] \in Value
  BY DEF StackInv
<1>3. ASSUME NEW k \in Int, k < Len(stack) + 1
      PROVE  SubSeq(stack, 1, k) \in Seq(Value) /\ (k >= 1 => SubSeq(stack, 1, k) # <<>>)
  BY <1>3, <1>1 DEF StackInv
<1>4. \A s \in Seq(Value), v \in Value : Append(s, v) \in Seq(Value) \ {<<>>}
  OBVIOUS
<1>5. Front(stack) = SubSeq(stack, 1, Len(stack) - 1)
  BY DEF Front
<1>6. \A k \in 2 .. Len(stack) : SubSeq(stack, k, Len(stack)) \in Seq(Value)
  BY DEF StackInv
<1>7. Front(stack) \in Seq(Value) /\ (Len(stack) > 1 => Front(stack) # <<>>)
  <2>1. Len(stack) - 1 \in Int /\ Len(stack) - 1 < Len(stack) + 1
    BY <1>1
  <2>2. /\ SubSeq(stack, 1, Len(stack) - 1) \in Seq(Value)
        /\ Len(stack) - 1 >= 1 => SubSeq(stack, 1, Len(stack) - 1) # <<>>
    BY <1>3, <2>1
  <2>. QED  BY <1>1, <1>5, <2>2
<1>8. \A v \in Value : Append(Front(stack), v) \in Seq(Value) \ {<<>>}
  BY <1>4, <1>7
<1>9. \A v \in Value, k \in Int : k < Len(stack) + 1 =>
            Append(SubSeq(stack, 1, k), v) \in Seq(Value) \ {<<>>}
  BY <1>3, <1>4
<1>10. \A v \in Value : Append(stack, v) \in Seq(Value) \ {<<>>}
  BY <1>4 DEF StackInv
<1>11. \A k \in 1 .. Len(stack) : SubSeq(stack, 1, k) # <<>>
  BY <1>1, <1>3
<1>. QED  BY <1>1, <1>2, <1>3, <1>6, <1>7, <1>8, <1>9, <1>10, <1>11

(* A handler that only moves values.                                       *)
LEMMA MoveTypeInv ==
    ASSUME TypeInv, UNCHANGED <<heap_vars, gc_vars, pc, pending>>,
           stack' \in Seq(Value) \ {<<>>}, error_oid' \in Ref
    PROVE  TypeInv'
<1>1. HeapInv'
  BY SameHeapInv DEF TypeInv, heap_vars
<1>2. PlaceInv'
  BY SamePlaceInv DEF TypeInv, heap_vars
<1>. QED  BY <1>1, <1>2, SameMarksInv DEF TypeInv, StackInv

(* A handler that stores an object and does not collect.                   *)
LEMMA MakeTypeInv ==
    ASSUME TypeInv, Running, NEW object, Fit(object), H!heap_store(object),
           UNCHANGED <<gc_vars, pc, pending>>,
           stack' \in Seq(Value) \ {<<>>}, error_oid' \in Ref
    PROVE  TypeInv'
<1>1. HeapInv'
  BY StoreHeapInv DEF TypeInv, Running
<1>2. PlaceInv'
  BY RunPlaceInv DEF TypeInv, Running, PlaceInv
<1>. QED  BY <1>1, <1>2, SameMarksInv DEF TypeInv, StackInv

-----------------------------------------------------------------------------
(* One lemma for each kind of handler                                      *)

LEMMA MovesTypeInv ==
    ASSUME TypeInv,
           \/ PushPrim \/ Pop \/ LoadErrRef
           \/ \E slot \in 2 .. Len(stack) : LoadLocal(slot) \/ StoreLocal(slot)
    PROVE  TypeInv'
<1>. USE StackTypes DEF TypeInv
<1>1. Prim \in Value /\ Ref \subseteq Value
  BY DEF Value
<1>2. CASE PushPrim
  BY <1>1, <1>2, MoveTypeInv DEF PushPrim, Stacked, StackInv
<1>3. CASE Pop
  BY <1>1, <1>3, MoveTypeInv DEF Pop, Stacked, StackInv
<1>4. CASE LoadErrRef
  BY <1>1, <1>4, MoveTypeInv DEF LoadErrRef, Stacked, StackInv
<1>5. ASSUME NEW slot \in 2 .. Len(stack), LoadLocal(slot) PROVE TypeInv'
  BY <1>1, <1>5, MoveTypeInv DEF LoadLocal, Stacked, StackInv
<1>6. ASSUME NEW slot \in 2 .. Len(stack), StoreLocal(slot) PROVE TypeInv'
  <2>. DEFINE changed == [stack EXCEPT ![slot] = Top]
  <2>1. changed \in Seq(Value) /\ Len(changed) = Len(stack)
    BY DEF StackInv
  <2>2. Len(stack) - 1 \in Nat /\ Len(stack) - 1 >= 1
    BY <1>6 DEF StoreLocal
  <2>3. Front(changed) = SubSeq(changed, 1, Len(stack) - 1)
    BY <2>1 DEF Front
  <2>. HIDE DEF changed
  <2>4. Len(stack) - 1 \in 1 .. Len(changed)
    BY <2>1, <2>2
  <2>5. Front(changed) \in Seq(Value) \ {<<>>}
    BY <2>1, <2>3, <2>4, Beginning
  <2>. QED
    BY <1>6, <2>5, MoveTypeInv DEF StoreLocal, Stacked, StackInv, changed
<1>. QED  BY <1>2, <1>3, <1>4, <1>5, <1>6

(* What an object holds are values.                                        *)
LEMMA HoldsValues ==
    ASSUME NEW object \in Object
    PROVE  Holds(object) \subseteq Value
<1>1. CASE object.kind = "dict"
  <2>1. object.nodes \in Seq(Node)
    BY <1>1 DEF Object, Plain, Dict, Closure
  <2>2. \A n \in DOMAIN object.nodes : object.nodes[n] \in Node
    BY <2>1
  <2>. QED  BY <1>1, <2>2 DEF Holds, Node
<1>2. CASE object.kind # "dict"
  <2>1. object.items \in Seq(Value)
    BY <1>2 DEF Object, Plain, Dict, Closure
  <2>. QED  BY <1>2, <2>1 DEF Holds, ToSet
<1>. QED  BY <1>1, <1>2

(* What a key selects is a value.                                          *)
LEMMA AnswersValues ==
    ASSUME HeapInv, NEW object \in Object
    PROVE  Answers(object) \subseteq Value
<1>1. Prim \in Value /\ Holds(object) \subseteq Value
  BY HoldsValues DEF Value
<1>2. CASE object.kind = "iter"
  <2>. DEFINE walked == ObjectAt(object.items[1])
  <2>1. walked # NULL => walked \in Object
    BY Found DEF HeapInv
  <2>2. walked # NULL => Holds(walked) \subseteq Value
    BY <2>1, HoldsValues
  <2>. HIDE DEF walked
  <2>. QED  BY <1>1, <1>2, <2>2 DEF Answers, walked
<1>3. CASE object.kind # "iter"
  BY <1>1, <1>3 DEF Answers
<1>. QED  BY <1>2, <1>3

(* Reading an item.                                                        *)
LEMMA GetIdxTypeInv ==
    ASSUME TypeInv, GetIdx
    PROVE  TypeInv'
<1>. DEFINE object == ObjectAt(stack[Len(stack) - 1])
<1>1. object \in Object
  BY Found DEF GetIdx, TypeInv, HeapInv
<1>2. PICK item \in Answers(object) :
          stack' = Append(SubSeq(stack, 1, Len(stack) - 2), item)
  BY DEF GetIdx, Stacked
<1>3. item \in Value
  BY <1>1, <1>2, AnswersValues DEF TypeInv
<1>4. Len(stack) - 2 \in Int /\ Len(stack) - 2 < Len(stack) + 1
  BY StackTypes DEF TypeInv
<1>5. stack' \in Seq(Value) \ {<<>>}
  BY <1>2, <1>3, <1>4, StackTypes DEF TypeInv
<1>. QED
  BY <1>5, MoveTypeInv DEF GetIdx, Stacked, TypeInv, StackInv

(* What an object becomes is fit to be stored, and of the same kind.       *)
LEMMA ListAssignedFit ==
    ASSUME NEW list, Fit(list), list.kind = "list", NEW v \in Value,
           NEW object \in ListAssigned(list, v)
    PROVE  Fit(object)
<1>1. list = [kind |-> "list", items |-> list.items] /\ list.items \in Seq(Value)
  BY DEF Fit, Object, Plain, Dict, Closure
<1>2. object.kind = "list" /\ object = [kind |-> "list", items |-> object.items]
  BY <1>1 DEF ListAssigned
<1>3. object.items \in Seq(Value)
  <2>1. CASE object = list
    BY <1>1, <2>1
  <2>2. CASE object = [list EXCEPT !.items = Append(@, v)]
    BY <1>1, <2>2
  <2>3. ASSUME NEW i \in DOMAIN list.items, object = [list EXCEPT !.items[i] = v]
        PROVE  object.items \in Seq(Value)
    <3>1. object.items = [list.items EXCEPT ![i] = v]
      BY <1>1, <2>3
    <3>. DEFINE items == list.items
    <3>. HIDE DEF items
    <3>2. /\ items \in Seq(Value) /\ i \in 1 .. Len(items)
          /\ object.items = [items EXCEPT ![i] = v]
      BY <1>1, <3>1 DEF items
    <3>. QED  BY <3>2
  <2>. QED  BY <2>1, <2>2, <2>3 DEF ListAssigned
<1>. QED  BY <1>2, <1>3 DEF Fit, Object, Plain

(* A change of a stored object keeps the heap's accounts.                  *)
LEMMA ChangeFacts ==
    ASSUME HP!CellsInv, NEW id \in HP!Ids, cells[id] # NULL, NEW object \in Object,
           cells' = [cells EXCEPT ![id] = object],
           UNCHANGED <<free_ids, next_cell_id, tenure_count, cost, crashed>>
    PROVE  HP!CellsInv'
<1>1. HP!Change(id, object)
  BY DEF HP!Change
<1>. QED
  BY <1>1, Params, HP!ChangeCellsInv DEF Object

(* An assignment to a dict keeps it well formed.                           *)
LEMMA DictAssignedFit ==
    ASSUME NEW dict, Fit(dict), dict.kind = "dict", NEW v \in Value,
           NEW object \in DictAssigned(dict, v)
    PROVE  Fit(object)
<1>. DEFINE nodes == dict.nodes
            k == Len(nodes)
            grown == Append(nodes, [data |-> v, l |-> 0, r |-> 0])
<1>1. dict = [kind |-> "dict", nodes |-> nodes] /\ nodes \in Seq(Node)
  BY DEF Fit, Object, Plain, Dict, Closure
<1>2. \A n \in 1 .. k : nodes[n] \in Node /\ nodes[n].l \in 0 .. k /\ nodes[n].r \in 0 .. k
  BY <1>1 DEF Fit, Linked
<1>3. k \in Nat /\ DOMAIN nodes = 1 .. k
  BY <1>1
<1>4. object = [kind |-> "dict", nodes |-> object.nodes]
  BY <1>1 DEF DictAssigned
<1>5. /\ grown \in Seq(Node) /\ Len(grown) = k + 1 /\ DOMAIN grown = 1 .. k + 1
      /\ \A n \in 1 .. k : grown[n] = nodes[n]
      /\ grown[k + 1] = [data |-> v, l |-> 0, r |-> 0]
  <2>1. [data |-> v, l |-> 0, r |-> 0] \in Node
    BY DEF Node
  <2>. QED  BY <1>1, <2>1
<1>6. \/ \E n \in 1 .. k : object.nodes = [nodes EXCEPT ![n].data = v]
      \/ \E n \in 1 .. k : object.nodes = [grown EXCEPT ![n].l = k + 1]
      \/ \E n \in 1 .. k : object.nodes = [grown EXCEPT ![n].r = k + 1]
      \/ object.nodes = grown
  BY <1>1, <1>3 DEF DictAssigned
<1>. HIDE DEF nodes, k, grown
<1>7. object.nodes \in Seq(Node) /\ Linked(object.nodes)
  <2>1. ASSUME NEW n \in 1 .. k, object.nodes = [nodes EXCEPT ![n].data = v]
        PROVE  object.nodes \in Seq(Node) /\ Linked(object.nodes)
    <3>1. [nodes[n] EXCEPT !.data = v] \in Node
      BY <1>2 DEF Node
    <3>2. object.nodes \in Seq(Node) /\ Len(object.nodes) = k /\ DOMAIN object.nodes = 1 .. k
      BY <1>1, <1>3, <2>1, <3>1 DEF k
    <3>3. \A m \in 1 .. k : /\ object.nodes[m].l = nodes[m].l
                            /\ object.nodes[m].r = nodes[m].r
      BY <1>1, <1>2, <1>3, <2>1 DEF Node
    <3>. QED  BY <1>2, <3>2, <3>3 DEF Linked
  <2>2. ASSUME NEW n \in 1 .. k, object.nodes = [grown EXCEPT ![n].l = k + 1]
        PROVE  object.nodes \in Seq(Node) /\ Linked(object.nodes)
    <3>1. [grown[n] EXCEPT !.l = k + 1] \in Node
      BY <1>2, <1>3, <1>5 DEF Node
    <3>2. /\ object.nodes \in Seq(Node) /\ Len(object.nodes) = k + 1
          /\ DOMAIN object.nodes = 1 .. k + 1
      BY <1>3, <1>5, <2>2, <3>1
    <3>3. \A m \in 1 .. k + 1 : /\ object.nodes[m].l \in {grown[m].l, k + 1}
                                /\ object.nodes[m].r = grown[m].r
      BY <1>2, <1>3, <1>5, <2>2, SMTT(30) DEF Node
    <3>. QED  BY <1>2, <1>3, <1>5, <3>2, <3>3, SMTT(30) DEF Linked
  <2>3. ASSUME NEW n \in 1 .. k, object.nodes = [grown EXCEPT ![n].r = k + 1]
        PROVE  object.nodes \in Seq(Node) /\ Linked(object.nodes)
    <3>1. [grown[n] EXCEPT !.r = k + 1] \in Node
      BY <1>2, <1>3, <1>5 DEF Node
    <3>2. /\ object.nodes \in Seq(Node) /\ Len(object.nodes) = k + 1
          /\ DOMAIN object.nodes = 1 .. k + 1
      BY <1>3, <1>5, <2>3, <3>1
    <3>3. \A m \in 1 .. k + 1 : /\ object.nodes[m].r \in {grown[m].r, k + 1}
                                /\ object.nodes[m].l = grown[m].l
      BY <1>2, <1>3, <1>5, <2>3, SMTT(30) DEF Node
    <3>. QED  BY <1>2, <1>3, <1>5, <3>2, <3>3, SMTT(30) DEF Linked
  <2>4. CASE object.nodes = grown
    BY <1>2, <1>3, <1>5, <2>4 DEF Linked
  <2>. QED  BY <1>6, <2>1, <2>2, <2>3, <2>4
<1>. QED  BY <1>4, <1>7 DEF Fit, Object, Dict

(* Writing an item.                                                        *)
LEMMA SetIdxTypeInv ==
    ASSUME TypeInv, SetIdx
    PROVE  TypeInv'
<1>0. ObjectAt(stack[Len(stack) - 2]) # NULL
  BY DEF SetIdx
<1>1. PICK oid \in H!Ids :
          /\ oid = stack[Len(stack) - 2]
          /\ oid \in H!Live /\ cells[oid] \in Object /\ H!heap_get(oid) = cells[oid]
  BY <1>0, Found, CellsType DEF TypeInv, HeapInv
<1>2. PICK object \in Assigned(cells[oid], Top) : cells' = [cells EXCEPT ![oid] = object]
  BY <1>1 DEF SetIdx
<1>3. Fit(cells[oid])
  BY <1>1 DEF TypeInv, HeapInv, DictsLinked, KindsKept, Fit
<1>4. Fit(object) /\ object \in Object
  <2>1. Top \in Value
    BY StackTypes DEF TypeInv
  <2>2. CASE cells[oid].kind = "list"
    BY <1>2, <1>3, <2>1, <2>2, ListAssignedFit DEF Assigned, Fit
  <2>3. CASE cells[oid].kind = "dict"
    BY <1>2, <1>3, <2>1, <2>3, DictAssignedFit DEF Assigned, Fit
  <2>4. CASE cells[oid].kind \notin {"list", "dict"}
    BY <1>2, <1>3, <2>4 DEF Assigned, Fit
  <2>. QED  BY <2>2, <2>3, <2>4
<1>5. UNCHANGED <<free_ids, next_cell_id, tenure_count, cost, crashed>>
  BY DEF SetIdx
<1>6. HP!CellsInv'
  <2>1. /\ cells[oid] # NULL /\ oid \in HP!Ids
    BY <1>1, SameHeap DEF H!Live
  <2>2. HP!CellsInv /\ object \in Object
    BY <1>4 DEF TypeInv, HeapInv
  <2>. QED
    BY <1>2, <1>5, <2>1, <2>2, ChangeFacts
<1>7. \A id \in H!Live' : id \in H!Live /\ (cells'[id] = object \/ cells'[id] = cells[id])
  BY <1>1, <1>2, CellsType, SameHeap DEF H!Live, TypeInv, HeapInv
<1>8. HeapInv'
  BY <1>4, <1>5, <1>6, <1>7 DEF TypeInv, HeapInv, DictsLinked, KindsKept, Fit
<1>9. stack' \in Seq(Value) \ {<<>>} /\ error_oid' = error_oid
  <2>1. Len(stack) - 2 \in 1 .. Len(stack) /\ Len(stack) - 2 \in Int /\ Len(stack) - 2 < Len(stack) + 1
    BY StackTypes DEF SetIdx, TypeInv
  <2>. QED  BY <2>1, StackTypes DEF SetIdx, Stacked, TypeInv
<1>10. PlaceInv' /\ MarksInv'
  BY RunPlaceInv, SameMarksInv DEF SetIdx, Stacked, Running, TypeInv, PlaceInv
<1>. QED  BY <1>8, <1>9, <1>10 DEF TypeInv, StackInv

(* The kinds of object that handlers store without collecting.             *)
LEMMA MadeFit ==
    ASSUME NEW kind \in {"list", "string", "err", "iter", "closure"}, kind \in Kinds,
           NEW items \in Seq(Value)
    PROVE  Fit(Made(kind, items)) /\ Made(kind, items) \in Object
  BY DEF Made, Fit, Object, Plain, Closure

(* The operations that store an object without collecting first.           *)
LEMMA StoresTypeInv ==
    ASSUME TypeInv,
           \/ MkString \/ MkIter \/ CutList \/ RaiseErr
           \/ \E n \in 0 .. MaxItems : MkClosure(n)
    PROVE  TypeInv'
<1>1. Prim \in Value /\ Ref \subseteq Value /\ <<>> \in Seq(Value)
  BY DEF Value
<1>2. ASSUME NEW object, Fit(object), Running, H!heap_store(object) PROVE H!GenId \in Ref
  BY <1>2, StoreHeapInv DEF TypeInv, Running
<1>3. CASE MkString
  <2>1. Fit(Made("string", <<>>)) /\ H!heap_store(Made("string", <<>>)) /\ Running
    BY <1>1, <1>3, MadeFit DEF MkString
  <2>2. H!GenId \in Value
    BY <1>1, <1>2, <2>1
  <2>3. stack' \in Seq(Value) \ {<<>>} /\ error_oid' \in Ref
    BY <1>3, <2>2, StackTypes DEF MkString, Stacked, TypeInv, StackInv
  <2>. QED  BY <1>3, <2>1, <2>3, MakeTypeInv DEF MkString, Stacked
<1>4. CASE MkIter
  <2>. DEFINE iterable == /\ ObjectAt(Top) # NULL
                          /\ ObjectAt(Top).kind \in {"list", "string"}
  <2>1. stack' = Append(Front(stack), IF iterable THEN H!GenId ELSE Prim)
    BY <1>4 DEF MkIter, Stacked
  <2>2. error_oid' \in Ref
    BY <1>4 DEF MkIter, TypeInv, StackInv
  <2>3. CASE iterable
    <3>1. <<Top>> \in Seq(Value)
      BY StackTypes DEF TypeInv
    <3>2. Fit(Made("iter", <<Top>>)) /\ H!heap_store(Made("iter", <<Top>>)) /\ Running
      BY <1>4, <2>3, <3>1, MadeFit DEF MkIter
    <3>3. stack' \in Seq(Value) \ {<<>>}
      BY <1>1, <1>2, <2>1, <2>3, <3>2, StackTypes DEF TypeInv
    <3>. QED  BY <1>4, <2>2, <3>2, <3>3, MakeTypeInv DEF MkIter, Stacked
  <2>4. CASE ~iterable
    <3>1. stack' \in Seq(Value) \ {<<>>} /\ UNCHANGED heap_vars
      BY <1>1, <1>4, <2>1, <2>4, StackTypes DEF TypeInv, MkIter
    <3>. QED  BY <1>4, <2>2, <3>1, MoveTypeInv DEF MkIter, Stacked
  <2>. QED  BY <2>3, <2>4
<1>5. CASE CutList
  <2>. DEFINE items == ObjectAt(Top).items
  <2>1. ObjectAt(Top) \in Object /\ ObjectAt(Top).kind = "list" /\ "list" \in Kinds
    BY <1>5, Found DEF CutList, TypeInv, HeapInv, KindsKept
  <2>2. items \in Seq(Value)
    BY <2>1 DEF Object, Plain, Dict, Closure
  <2>3. PICK begin \in 1 .. Len(items) + 1 : \E end \in begin - 1 .. Len(items) :
            H!heap_store(Made("list", SubSeq(items, begin, end)))
    BY <1>5 DEF CutList
  <2>7. PICK end \in begin - 1 .. Len(items) :
            H!heap_store(Made("list", SubSeq(items, begin, end)))
    BY <2>3
  <2>. HIDE DEF items
  <2>4. SubSeq(items, begin, end) \in Seq(Value)
    BY <2>2
  <2>5. Fit(Made("list", SubSeq(items, begin, end))) /\ Running
    BY <1>5, <2>1, <2>4, MadeFit DEF CutList
  <2>6. stack' \in Seq(Value) \ {<<>>} /\ error_oid' \in Ref
    BY <1>1, <1>2, <1>5, <2>7, <2>5, StackTypes
    DEF CutList, Stacked, TypeInv, StackInv
  <2>. QED  BY <1>5, <2>7, <2>5, <2>6, MakeTypeInv DEF CutList, Stacked
<1>6. CASE RaiseErr
  <2>1. <<Top>> \in Seq(Value)
    BY StackTypes DEF TypeInv
  <2>2. Fit(Made("err", <<Top>>)) /\ H!heap_store(Made("err", <<Top>>)) /\ Running
    BY <1>6, <2>1, MadeFit DEF RaiseErr
  <2>3. stack' \in Seq(Value) \ {<<>>} /\ error_oid' \in Ref
    BY <1>2, <1>6, <2>2, StackTypes DEF RaiseErr, Stacked, TypeInv
  <2>. QED  BY <1>6, <2>2, <2>3, MakeTypeInv DEF RaiseErr, Stacked
<1>7. ASSUME NEW n \in 0 .. MaxItems, MkClosure(n) PROVE TypeInv'
  <2>. DEFINE base == Len(stack) - n
              items == SubSeq(stack, base + 1, Len(stack))
  <2>1. base \in Int /\ base > 1 /\ base < Len(stack) + 1 /\ Len(stack) \in Nat
    BY <1>7, StackTypes, GCAssumption, SMTT(40) DEF MkClosure, TypeInv
  <2>2. items \in Seq(Value)
    BY <2>1 DEF TypeInv, StackInv
  <2>3. Fit(Made("closure", items)) /\ H!heap_store(Made("closure", items)) /\ Running
    BY <1>7, <2>2, MadeFit DEF MkClosure
  <2>4. base - 1 \in Int /\ base - 1 < Len(stack) + 1
    BY <2>1
  <2>5. stack' \in Seq(Value) \ {<<>>} /\ error_oid' \in Ref
    BY <1>1, <1>2, <1>7, <2>3, <2>4, StackTypes
    DEF MkClosure, Stacked, TypeInv, StackInv
  <2>. QED  BY <1>7, <2>3, <2>5, MakeTypeInv DEF MkClosure, Stacked
<1>. QED  BY <1>3, <1>4, <1>5, <1>6, <1>7

-----------------------------------------------------------------------------
(* The handlers that collect first, and the steps of the collector         *)

(* Making an object: its items leave the stack, its reference comes.       *)
LEMMA MakeFacts ==
    ASSUME HeapInv, StackInv, ~crashed, NEW object, Fit(object), Make(object)
    PROVE  HeapInv' /\ StackInv'
<1>1. HeapInv' /\ H!GenId \in Value
  BY StoreHeapInv DEF Make, Value
<1>2. Size(object) \in Nat
  BY DEF Fit, Object, Plain, Dict, Closure, Size
<1>3. Len(stack) - Size(object) \in Int /\ Len(stack) - Size(object) < Len(stack) + 1
  BY <1>2, StackTypes
<1>4. stack' \in Seq(Value) \ {<<>>}
  BY <1>1, <1>3, StackTypes DEF Make
<1>. QED  BY <1>1, <1>4 DEF Make, StackInv

(* The operations that collect, then make their object: the object waits.  *)
LEMMA CollectTypeInv ==
    ASSUME TypeInv, NEW object, Fit(object), CollectThenMake(object)
    PROVE  TypeInv'
<1>1. CASE H!heap_is_ripe
  <2>1. /\ pc' = [at |-> "roots", slot |-> 0] /\ pending' = object
        /\ UNCHANGED <<heap_vars, vm_vars, gc_vars>>
    BY <1>1 DEF CollectThenMake
  <2>2. HeapInv'
    BY <2>1, SameHeapInv DEF TypeInv, heap_vars
  <2>3. PlaceInv'
    <3>1. pc' \in Places /\ pc' # Run /\ pc'.at = "roots"
      BY <2>1 DEF Places, Run
    <3>2. Fit(pending)'
      BY <2>1 DEF Fit, Object, Plain, Dict, Closure, Linked
    <3>. QED  BY <3>1, <3>2 DEF PlaceInv, AtWork
  <2>4. StackInv' /\ MarksInv'
    BY <2>1, SameMarksInv DEF TypeInv, StackInv, vm_vars
  <2>. QED  BY <2>2, <2>3, <2>4 DEF TypeInv
<1>2. CASE ~H!heap_is_ripe
  <2>1. Make(object) /\ Running /\ UNCHANGED <<gc_vars, pc, pending>>
    BY <1>2 DEF CollectThenMake
  <2>2. HeapInv' /\ StackInv'
    BY <2>1, MakeFacts DEF TypeInv, Running
  <2>3. PlaceInv' /\ MarksInv'
    BY <2>1, RunPlaceInv, SameMarksInv DEF TypeInv, PlaceInv, Running
  <2>. QED  BY <2>2, <2>3 DEF TypeInv
<1>. QED  BY <1>1, <1>2

(* MK_LIST and MK_DICT.                                                    *)
LEMMA MakersTypeInv ==
    ASSUME TypeInv, MkDict \/ \E n \in 0 .. MaxItems : MkList(n)
    PROVE  TypeInv'
<1>1. CASE MkDict
  <2>1. Fit([kind |-> "dict", nodes |-> <<>>])
    BY <1>1 DEF MkDict, Fit, Object, Dict, Linked
  <2>. QED  BY <1>1, <2>1, CollectTypeInv DEF MkDict
<1>2. ASSUME NEW n \in 0 .. MaxItems, MkList(n) PROVE TypeInv'
  <2>. DEFINE items == SubSeq(stack, Len(stack) - n + 1, Len(stack))
  <2>1. Len(stack) - n + 1 \in 2 .. Len(stack) + 1 /\ n \in Int
    BY <1>2, StackTypes, GCAssumption, SMTT(40) DEF MkList, TypeInv
  <2>2. items \in Seq(Value)
    BY <2>1 DEF TypeInv, StackInv
  <2>3. Fit(Made("list", items))
    BY <1>2, <2>2, MadeFit DEF MkList
  <2>. QED  BY <1>2, <2>3, CollectTypeInv DEF MkList
<1>. QED  BY <1>1, <1>2

(* A step of the collector that marks: the heap's cells, the stack and the *)
(* pending object stay.                                                    *)
LEMMA MarkStepTypeInv ==
    ASSUME TypeInv, UNCHANGED <<cells, free_ids, next_cell_id, tenure_count, cost>>,
           crashed' = crashed \/ crashed', UNCHANGED <<vm_vars, pending>>,
           reach_bits' \subseteq Positions, next_ids' \in Ring(HeapPopMax, Ref),
           pc # Run, pc' \in Places, pc' # Run, AtWork'
    PROVE  TypeInv'
<1>1. HeapInv'
  BY SameHeapInv DEF TypeInv
<1>2. StackInv'
  BY DEF TypeInv, StackInv, vm_vars
<1>3. MarksInv'
  BY DEF MarksInv, Ring, Ref
<1>4. PlaceInv'
  <2>1. Fit(pending)'
    BY DEF TypeInv, PlaceInv, Fit, Object, Plain, Dict, Closure, Linked
  <2>. QED  BY <2>1 DEF PlaceInv
<1>. QED  BY <1>1, <1>2, <1>3, <1>4 DEF TypeInv

(* A bit is set at a position.                                             *)
LEMMA SetBitsFacts ==
    ASSUME TypeInv, ~crashed, NEW ids, ids \subseteq Int, SetBits(ids)
    PROVE  /\ reach_bits' \subseteq Positions
           /\ reach_bits' = reach_bits \cup {id % 65536 : id \in ids}
           /\ crashed' = crashed \/ crashed'
<1>1. ASSUME NEW id \in Int PROVE id % 65536 \in Positions
  <2>. DEFINE width == 65536
  <2>1. width \in Nat \ {0} /\ Positions = 0 .. width - 1
    BY DEF Positions
  <2>2. id % 65536 = id % width
    OBVIOUS
  <2>. HIDE DEF width
  <2>3. id % width \in 0 .. width - 1
    BY <2>1
  <2>. QED  BY <2>1, <2>2, <2>3
<1>2. reach_bits' = reach_bits \cup {id % 65536 : id \in ids}
  BY DEF SetBits
<1>3. crashed' = crashed \/ crashed'
  <2>1. crashed \in BOOLEAN
    BY CellsType DEF TypeInv, HeapInv
  <2>2. crashed' \in {crashed} \/ crashed' \in BOOLEAN
    BY DEF SetBits
  <2>. QED  BY <2>1, <2>2, Zenon
<1>. QED  BY <1>1, <1>2, <1>3 DEF TypeInv, MarksInv

(* A collection begins with no mark.                                       *)
LEMMA NoBitsFacts ==
    ASSUME MarksInv, NoBits
    PROVE  reach_bits' \subseteq Positions /\ crashed' = crashed
  BY DEF MarksInv, NoBits

(* The loop over the stack.                                                *)
LEMMA RootsTypeInv ==
    ASSUME TypeInv, RootNext \/ RootsDone
    PROVE  TypeInv'
<1>1. pc \in [at : {"roots"}, slot : Nat] /\ pc # Run
  BY DEF RootNext, RootsDone, TypeInv, PlaceInv, Places, Run
<1>2. Mark \in Places /\ Mark # Run /\ Mark.at = "mark"
  BY DEF Mark, Places, Run
<1>3. CASE RootNext
  <2>1. next_ids' \in Ring(HeapPopMax, Ref)
    <3>1. IsRef(Top) => Top \in Ref
      BY StackTypes DEF TypeInv, IsRef, Value
    <3>2. next_ids \in Ring(HeapPopMax, Ref)
      BY DEF TypeInv, MarksInv
    <3>. QED  BY <1>3, <3>1, <3>2, IdRing DEF RootNext
  <2>2. pc' \in Places /\ pc' # Run /\ pc'.at \in {"mark", "roots"}
    <3>1. pc' = Mark \/ pc' = [pc EXCEPT !.slot = @ + 1]
      BY <1>3 DEF RootNext
    <3>2. [pc EXCEPT !.slot = @ + 1] \in [at : {"roots"}, slot : Nat]
      BY <1>1
    <3>. QED  BY <1>2, <3>1, <3>2 DEF Places, Run
  <2>3. reach_bits' \subseteq Positions
    BY <1>3 DEF RootNext, TypeInv, MarksInv
  <2>. QED
    BY <1>1, <1>3, <2>1, <2>2, <2>3, MarkStepTypeInv DEF RootNext, AtWork, heap_vars
<1>4. CASE RootsDone
  <2>1. reach_bits' \subseteq Positions /\ next_ids' \in Ring(HeapPopMax, Ref)
    BY <1>4 DEF RootsDone, TypeInv, MarksInv, gc_vars
  <2>. QED
    BY <1>1, <1>2, <1>4, <2>1, MarkStepTypeInv DEF RootsDone, AtWork, heap_vars
<1>. QED  BY <1>3, <1>4

(* A turn of the marking loop.                                             *)
LEMMA MarkNextTypeInv ==
    ASSUME TypeInv, MarkNext
    PROVE  TypeInv'
<1>. DEFINE oid == IdQueue!PopValue(next_ids)
            object == H!heap_get(oid)
            kind == IF object = NULL THEN "none" ELSE object.kind
<1>1. oid \in Ref /\ next_ids' \in Ring(HeapPopMax, Ref)
  BY IdRing DEF MarkNext, TypeInv, MarksInv
<1>2. object # NULL => oid \in H!Live /\ oid \in H!Ids /\ object = cells[oid] /\ object \in Object
  <2>1. oid \in Int
    BY <1>1, Params DEF Ref
  <2>. QED  BY <2>1, Got, CellsType DEF TypeInv, HeapInv
<1>3. pc = [at |-> "mark"] /\ pc # Run
  BY DEF MarkNext, TypeInv, PlaceInv, Places, Run
<1>4. reach_bits' \subseteq Positions /\ (crashed' = crashed \/ crashed')
  <2>1. CASE kind \in {"list", "string"}
    <3>1. SetBits({oid}) /\ {oid} \subseteq Int /\ ~crashed
      BY <1>1, <2>1, Params DEF MarkNext, Ref
    <3>. QED  BY <3>1, SetBitsFacts
  <2>2. CASE kind = "closure"
    <3>1. SetBits({v \in Holds(object) : IsRef(v)}) /\ ~crashed
      BY <2>2 DEF MarkNext
    <3>2. Holds(object) \subseteq Value
      BY <1>2, <2>2, HoldsValues
    <3>3. {v \in Holds(object) : IsRef(v)} \subseteq Int
      BY <3>2, Params DEF Value, Ref, IsRef
    <3>. QED  BY <3>1, <3>3, SetBitsFacts
  <2>3. CASE kind \notin {"list", "string", "closure"}
    BY <2>3, NoBitsFacts DEF MarkNext, TypeInv
  <2>. QED  BY <2>1, <2>2, <2>3
<1>. HIDE DEF oid
<1>5. UNCHANGED <<cells, free_ids, next_cell_id, tenure_count, cost>>
  BY DEF MarkNext
<1>6. H!Live' = H!Live
  BY <1>5 DEF H!Live
<1>7. pc' \in Places /\ pc' # Run /\ AtWork'
  <2>1. CASE kind = "list"
    <3>1. pc' = [at |-> "items", list |-> oid, item |-> 1]
      BY <2>1 DEF MarkNext, oid
    <3>2. oid \in H!Live /\ cells[oid].kind = "list" /\ oid \in H!Ids
      BY <1>2, <2>1
    <3>. QED  BY <1>5, <1>6, <3>1, <3>2 DEF Places, Run, AtWork
  <2>2. CASE kind = "dict"
    <3>. DEFINE queue == PtrQueue!Pushed(PtrQueue!New,
                                         IF object.nodes = <<>> THEN 0 ELSE 1)
    <3>1. pc' = [at |-> "nodes", dict |-> oid, queue |-> queue]
      BY <2>2 DEF MarkNext, oid
    <3>2. oid \in H!Live /\ cells[oid].kind = "dict" /\ oid \in H!Ids /\ object = cells[oid]
      BY <1>2, <2>2
    <3>3. object.nodes \in Seq(Node)
      BY <1>2, <2>2 DEF Object, Plain, Dict, Closure
    <3>4. /\ (IF object.nodes = <<>> THEN 0 ELSE 1) \in 0 .. Len(object.nodes)
          /\ 0 \in 0 .. Len(object.nodes)
          /\ 0 .. Len(object.nodes) \subseteq Nat
      BY <3>3
    <3>5. queue \in Ring(CellCapacity, 0 .. Len(object.nodes))
      BY <3>4, FreshRings, PtrRing
    <3>6. queue \in Ring(CellCapacity, Nat)
      BY <3>4, <3>5 DEF Ring
    <3>. HIDE DEF queue, object
    <3>7. pc' \in Places /\ pc' # Run
      BY <3>1, <3>2, <3>6 DEF Places, Run
    <3>8. cells'[pc'.dict] = cells[oid]
      BY <1>5, <3>1
    <3>9. Ring(CellCapacity, 0 .. Len(cells[pc.dict].nodes))'
            = Ring(CellCapacity, 0 .. Len(object.nodes))
      BY <3>2, <3>8 DEF Ring
    <3>. QED  BY <1>6, <3>1, <3>2, <3>5, <3>7, <3>8, <3>9 DEF AtWork
  <2>3. CASE kind \notin {"list", "dict"}
    <3>1. pc' = pc
      BY <2>3 DEF MarkNext, oid
    <3>. QED  BY <1>3, <3>1 DEF AtWork, TypeInv, PlaceInv
  <2>. QED  BY <2>1, <2>2, <2>3
<1>. QED
  BY <1>1, <1>3, <1>4, <1>5, <1>7, MarkStepTypeInv DEF MarkNext

(* The loop over the items of a list.                                      *)
LEMMA ItemsTypeInv ==
    ASSUME TypeInv, QueueItem \/ ItemsDone
    PROVE  TypeInv'
<1>1. /\ pc \in [at : {"items"}, list : H!Ids, item : Nat \ {0}] /\ pc # Run
      /\ pc.list \in H!Live /\ cells[pc.list].kind = "list"
  BY DEF QueueItem, ItemsDone, TypeInv, PlaceInv, AtWork, Places, Run
<1>2. Mark \in Places /\ Mark # Run /\ Mark.at = "mark"
  BY DEF Mark, Places, Run
<1>3. CASE QueueItem
  <2>. DEFINE item == cells[pc.list].items[pc.item]
  <2>1. cells[pc.list].items \in Seq(Value)
    BY <1>1, CellsType DEF TypeInv, HeapInv, Object, Plain, Dict, Closure
  <2>2. item \in Value
    BY <1>1, <1>3, <2>1 DEF QueueItem, LastItem
  <2>3. next_ids' \in Ring(HeapPopMax, Ref)
    <3>1. IsRef(item) => item \in Ref
      BY <2>2 DEF IsRef, Value
    <3>2. next_ids \in Ring(HeapPopMax, Ref)
      BY DEF TypeInv, MarksInv
    <3>. QED  BY <1>3, <3>1, <3>2, IdRing DEF QueueItem
  <2>4. /\ pc' \in [at : {"items"}, list : H!Ids, item : Nat \ {0}]
        /\ pc'.list = pc.list
    BY <1>1, <1>3 DEF QueueItem
  <2>5. cells' = cells /\ H!Live' = H!Live
    BY <1>3 DEF QueueItem, heap_vars, H!Live
  <2>6. AtWork' /\ pc' \in Places /\ pc' # Run
    BY <1>1, <2>4, <2>5 DEF AtWork, Places, Run
  <2>7. reach_bits' \subseteq Positions
    BY <1>3 DEF QueueItem, TypeInv, MarksInv
  <2>. QED
    BY <1>1, <1>3, <2>3, <2>6, <2>7, MarkStepTypeInv DEF QueueItem, heap_vars
<1>4. CASE ItemsDone
  <2>1. reach_bits' \subseteq Positions /\ next_ids' \in Ring(HeapPopMax, Ref)
    BY <1>4 DEF ItemsDone, TypeInv, MarksInv, gc_vars
  <2>. QED
    BY <1>1, <1>2, <1>4, <2>1, MarkStepTypeInv DEF ItemsDone, AtWork, heap_vars
<1>. QED  BY <1>3, <1>4

(* The walk over the nodes of a dict.                                      *)
LEMMA NodesTypeInv ==
    ASSUME TypeInv, MarkNode \/ NodesDone
    PROVE  TypeInv'
<1>. DEFINE nodes == cells[pc.dict].nodes
            Pointer == 0 .. Len(nodes)
<1>1. /\ pc \in [at : {"nodes"}, dict : H!Ids, queue : Ring(CellCapacity, Nat)] /\ pc # Run
      /\ pc.dict \in H!Live /\ cells[pc.dict].kind = "dict"
      /\ pc.queue \in Ring(CellCapacity, Pointer)
  BY SMTT(40) DEF MarkNode, NodesDone, TypeInv, PlaceInv, AtWork, Places, Run
<1>2. Mark \in Places /\ Mark # Run /\ Mark.at = "mark"
  BY DEF Mark, Places, Run
<1>3. CASE MarkNode
  <2>. DEFINE n == PtrQueue!PopValue(pc.queue)
              rest == PtrQueue!Popped(pc.queue)
              child(queue, c) == IF c = 0 THEN queue ELSE PtrQueue!Pushed(queue, c)
              after_l == child(rest, nodes[n].l)
  <2>1. nodes \in Seq(Node) /\ Linked(nodes)
    BY <1>1, CellsType DEF TypeInv, HeapInv, DictsLinked, Object, Plain, Dict, Closure
  <2>2. n \in Pointer /\ rest \in Ring(CellCapacity, Pointer)
    BY <1>1, <1>3, PtrRing, SMTT(30) DEF MarkNode
  <2>3. n # 0 => nodes[n] \in Node /\ nodes[n].l \in Pointer /\ nodes[n].r \in Pointer
    BY <2>1, <2>2 DEF Linked
  <2>4. ASSUME NEW q \in Ring(CellCapacity, Pointer), NEW c \in Pointer
        PROVE  child(q, c) \in Ring(CellCapacity, Pointer)
    BY PtrRing
  <2>5. n # 0 => /\ after_l \in Ring(CellCapacity, Pointer)
                 /\ child(after_l, nodes[n].r) \in Ring(CellCapacity, Pointer)
    BY <2>2, <2>3, <2>4
  <2>6. pc' = [pc EXCEPT !.queue = pc'.queue] /\ pc'.queue \in Ring(CellCapacity, Pointer)
    <3>1. \E q \in {rest, after_l, child(after_l, nodes[n].r)} :
              pc' = [pc EXCEPT !.queue = q] /\ (n = 0 => q = rest)
      BY <1>3, Zenon DEF MarkNode
    <3>. HIDE DEF rest, after_l, child, n, nodes
    <3>2. PICK q \in {rest, after_l, child(after_l, nodes[n].r)} :
              pc' = [pc EXCEPT !.queue = q] /\ (n = 0 => q = rest)
      BY <3>1
    <3>3. pc'.queue = q
      BY <1>1, <3>2
    <3>. QED  BY <2>2, <2>5, <3>2, <3>3
  <2>7. /\ UNCHANGED <<cells, free_ids, next_cell_id, tenure_count, cost>>
        /\ UNCHANGED <<vm_vars, next_ids, dropped, pending>>
    BY <1>3 DEF MarkNode
  <2>8. reach_bits' \subseteq Positions /\ (crashed' = crashed \/ crashed')
    <3>1. CASE n # 0 /\ IsRef(nodes[n].data)
      <4>1. SetBits({nodes[n].data}) /\ ~crashed
        BY <1>3, <3>1 DEF MarkNode
      <4>2. {nodes[n].data} \subseteq Int
        BY <2>3, <3>1, Params DEF Node, Value, Ref, IsRef
      <4>. QED  BY <4>1, <4>2, SetBitsFacts
    <3>2. CASE ~(n # 0 /\ IsRef(nodes[n].data))
      BY <1>3, <3>2, NoBitsFacts DEF MarkNode, TypeInv
    <3>. QED  BY <3>1, <3>2
  <2>. HIDE DEF n, rest, child, after_l
  <2>9. pc' \in Places /\ pc' # Run /\ pc'.at = "nodes" /\ pc'.dict = pc.dict
    <3>1. Pointer \subseteq Nat
      OBVIOUS
    <3>2. pc'.queue \in Ring(CellCapacity, Nat)
      BY <2>6, <3>1 DEF Ring
    <3>. QED  BY <1>1, <2>6, <3>2 DEF Places, Run
  <2>10. AtWork'
    <3>1. H!Live' = H!Live /\ nodes' = nodes
      BY <2>7, <2>9 DEF H!Live
    <3>2. Ring(CellCapacity, 0 .. Len(nodes))' = Ring(CellCapacity, Pointer)
      BY <3>1 DEF Ring
    <3>. QED  BY <1>1, <2>6, <2>7, <2>9, <3>1, <3>2 DEF AtWork
  <2>11. next_ids' \in Ring(HeapPopMax, Ref)
    BY <2>7 DEF TypeInv, MarksInv
  <2>. QED
    BY <1>1, <2>7, <2>8, <2>9, <2>10, <2>11, MarkStepTypeInv
<1>4. CASE NodesDone
  <2>1. reach_bits' \subseteq Positions /\ next_ids' \in Ring(HeapPopMax, Ref)
    BY <1>4 DEF NodesDone, TypeInv, MarksInv, gc_vars
  <2>. QED
    BY <1>1, <1>2, <1>4, <2>1, MarkStepTypeInv DEF NodesDone, AtWork, heap_vars
<1>. QED  BY <1>3, <1>4

(* The end of marking, the sweep, and the return to the program.           *)
LEMMA SweepTypeInv ==
    ASSUME TypeInv, MarkDone \/ SweepNext \/ Finish
    PROVE  TypeInv'
<1>1. CASE MarkDone
  <2>1. pc' = [at |-> "sweep", slot |-> 0] /\ pc # Run
    BY <1>1 DEF MarkDone, SweepStart, Run
  <2>2. pc' \in Places /\ pc' # Run /\ AtWork'
    BY <2>1, Params DEF Places, Run, AtWork
  <2>3. reach_bits' \subseteq Positions /\ next_ids' \in Ring(HeapPopMax, Ref)
    BY <1>1 DEF MarkDone, TypeInv, MarksInv, gc_vars
  <2>. QED
    BY <1>1, <2>1, <2>2, <2>3, MarkStepTypeInv DEF MarkDone, heap_vars
<1>2. CASE SweepNext
  <2>1. /\ pc \in [at : {"sweep"}, slot : 0 .. BitCapacity] /\ pc # Run /\ ~crashed
        /\ pc.slot < BitCapacity /\ pc' = [pc EXCEPT !.slot = @ + 1]
    BY <1>2 DEF SweepNext, TypeInv, PlaceInv, Places, Run
  <2>2. pc' \in Places /\ pc' # Run /\ pc'.at = "sweep"
    BY <2>1, Params DEF Places, Run
  <2>3. PlaceInv'
    <3>1. Fit(pending)'
      BY <1>2, <2>1
      DEF SweepNext, TypeInv, PlaceInv, Fit, Object, Plain, Dict, Closure, Linked
    <3>. QED  BY <2>2, <3>1 DEF PlaceInv, AtWork
  <2>4. StackInv' /\ MarksInv'
    BY <1>2, SameMarksInv DEF SweepNext, TypeInv, StackInv, vm_vars
  <2>5. HeapInv'
    <3>1. CASE UNCHANGED heap_vars
      BY <3>1, SameHeapInv DEF TypeInv, heap_vars
    <3>2. CASE H!heap_erase(pc.slot)
      <4>1. PICK id \in Int : id = pc.slot
        BY <2>1, Params
      <4>2. HP!heap_erase(id)
        BY <3>2, <4>1, SameErase
      <4>3. HP!CellsInv'
        BY <2>1, <4>2, Params, HP!EraseCellsInv DEF TypeInv, HeapInv
      <4>4. tenure_count' = tenure_count
        BY <4>2 DEF HP!heap_erase, HP!cell_vars
      <4>5. cells' = cells \/ cells' = [cells EXCEPT ![id] = NULL]
        BY <4>2 DEF HP!heap_erase, HP!cell_vars
      <4>6. \A other \in H!Live' : other \in H!Live /\ cells'[other] = cells[other]
        BY <4>5, CellsType DEF H!Live, TypeInv, HeapInv
      <4>. QED  BY <4>3, <4>4, <4>6 DEF TypeInv, HeapInv, DictsLinked, KindsKept
    <3>. QED  BY <1>2, <3>1, <3>2 DEF SweepNext, SweepErase
  <2>. QED  BY <2>3, <2>4, <2>5 DEF TypeInv
<1>3. CASE Finish
  <2>1. /\ Make(pending) /\ ~crashed /\ pc # Run /\ pc' = Run /\ pending' = NoObject
        /\ reach_bits' = {} /\ next_ids' = IdQueue!New
    BY <1>3 DEF Finish, Swept, Resume, ClearMarks, Run
  <2>2. Fit(pending)
    BY <2>1 DEF TypeInv, PlaceInv
  <2>3. PICK object : object = pending
    OBVIOUS
  <2>4. HeapInv' /\ StackInv'
    BY <2>1, <2>2, <2>3, MakeFacts DEF TypeInv
  <2>5. MarksInv'
    <3>1. -1 \in Ref
      BY Params DEF Ref
    <3>2. IdQueue!New \in Ring(HeapPopMax, Ref)
      BY <3>1, FreshRings
    <3>. QED  BY <2>1, <3>2 DEF MarksInv, Ring, Ref
  <2>. QED  BY <2>1, <2>4, <2>5, RunPlaceInv DEF TypeInv
<1>. QED  BY <1>1, <1>2, <1>3

(* Every step preserves it.                                                *)
LEMMA NextTypeInv == TypeInv /\ [Next]_vars => TypeInv'
<1>. SUFFICES ASSUME TypeInv, [Next]_vars PROVE TypeInv'
  OBVIOUS
<1>1. CASE Handler
  BY <1>1, MovesTypeInv, GetIdxTypeInv, SetIdxTypeInv, StoresTypeInv, MakersTypeInv
  DEF Handler
<1>2. CASE CollectorStep
  BY <1>2, RootsTypeInv, MarkNextTypeInv, ItemsTypeInv, NodesTypeInv, SweepTypeInv
  DEF CollectorStep
<1>3. CASE UNCHANGED vars
  <2>1. UNCHANGED <<heap_vars, gc_vars, pc, pending>> /\ stack' = stack /\ error_oid' = error_oid
    BY <1>3 DEF vars, vm_vars
  <2>. QED  BY <2>1, MoveTypeInv DEF TypeInv, StackInv
<1>. QED  BY <1>1, <1>2, <1>3 DEF Next

(* Every reachable state is well formed.                                   *)
LEMMA SpecTypeInv == Spec => []TypeInv
  BY InitTypeInv, NextTypeInv, PTL DEF Spec

(* The heap, the stack and the queue of the collector keep their types,    *)
(* for a heap and a queue of any size (gc.c and the handlers of vm.c).     *)
THEOREM GCTypeOK == Spec => []TypeOK
<1>1. TypeInv => TypeOK
  <2>. SUFFICES ASSUME TypeInv PROVE TypeOK
    OBVIOUS
  <2>1. cells \in [H!Ids -> Plain \cup Dict \cup Closure \cup {NULL}]
    BY CellsType DEF TypeInv, HeapInv, Object
  <2>2. free_ids \in Seq(H!Ids) /\ next_cell_id \in 0 .. CellCapacity
    BY SameHeap DEF TypeInv, HeapInv, HP!CellsInv, HP!CellsTypeOK
  <2>3. pc.at \in {"run", "roots", "mark", "items", "nodes", "sweep"}
    BY DEF TypeInv, PlaceInv, Places
  <2>4. pc = Run <=> pending = NoObject
    BY DEF TypeInv, PlaceInv, Fit, Object, Plain, Dict, Closure, NoObject
  <2>. QED
    BY <2>1, <2>2, <2>3, <2>4 DEF TypeOK, TypeInv, StackInv, MarksInv, Ring
<1>. QED  BY <1>1, SpecTypeInv, PTL

(* No collection and no handler upsets the accounts of the heap: the free  *)
(* list is exactly the empty cells handed out, and the cost that triggers  *)
(* the next collection is the cost of what is stored (gc.c, objects.c).    *)
THEOREM GCHeapKept == Spec => []HeapKept
<1>1. TypeInv => HeapKept
  BY SameHeap DEF TypeInv, HeapInv, HP!CellsInv, HeapKept
<1>. QED  BY <1>1, SpecTypeInv, PTL

-----------------------------------------------------------------------------
(* What a collection marks                                                 *)

(* What a set of values refers to is reached from it ...                   *)
LEMMA ReachHas ==
    ASSUME NEW kinds, NEW values, NEW v \in Ref, v \in values, IsRef(v)
    PROVE  v \in ReachBy(kinds, values)
  BY DEF ReachBy, References

(* ... and so is what a reached object of the right kind refers to.        *)
LEMMA ReachClosed ==
    ASSUME HeapInv, NEW kinds, NEW values, NEW id \in ReachBy(kinds, values),
           id \in H!Live, cells[id].kind \in kinds,
           NEW v \in Holds(cells[id]), IsRef(v)
    PROVE  v \in ReachBy(kinds, values) /\ v \in Ref
<1>1. v \in Ref
  BY CellsType, HoldsValues DEF HeapInv, Value, IsRef
<1>2. ASSUME NEW ids \in SUBSET Ref, References(values) \subseteq ids, Closed(ids, kinds)
      PROVE  v \in ids
  BY <1>2 DEF ReachBy, Closed, References
<1>. QED  BY <1>1, <1>2 DEF ReachBy

OfTop == ReachBy(AllKinds, {Top})
OfTopBits == {id % 65536 : id \in OfTop}

(* The queue and the bits hold only what the top of the stack reaches, and *)
(* nothing of an earlier collection.                                       *)
SoundInv ==
    /\ pc = Run => next_ids = IdQueue!New /\ reach_bits = {}
    /\ pc.at \in {"roots", "mark", "items", "nodes"} =>
          next_ids \in Ring(HeapPopMax, OfTop \cup {-1}) /\ reach_bits \subseteq OfTopBits
    /\ pc.at = "items" => pc.list \in OfTop
    /\ pc.at = "nodes" => pc.dict \in OfTop
    /\ Marked => reach_bits \subseteq OfTopBits

(* Nothing is queued, marked or swept at first.                            *)
LEMMA InitSoundInv == Init => SoundInv
  BY DEF Init, SoundInv, Run, Marked

(* While the cells and the stack stay, what the top reaches stays.         *)
LEMMA SameOfTop ==
    ASSUME cells' = cells, stack' = stack
    PROVE  OfTop' = OfTop /\ OfTopBits' = OfTopBits
<1>1. H!Live' = H!Live /\ Top' = Top
  BY DEF H!Live, Top, Last
<1>2. OfTop' = OfTop
  BY <1>1 DEF OfTop, ReachBy, Closed, References, Holds, ToSet, Ref, IsRef, AllKinds
<1>. QED  BY <1>2 DEF OfTopBits

(* An object that is reached passes it on to what it holds.                *)
LEMMA OfTopClosed ==
    ASSUME TypeInv, NEW id \in OfTop, id \in H!Live, NEW v \in Holds(cells[id]), IsRef(v)
    PROVE  v \in OfTop
<1>1. cells[id].kind \in AllKinds
  BY CellsType DEF TypeInv, HeapInv, Object, Plain, Dict, Closure, AllKinds
<1>. QED  BY <1>1, ReachClosed DEF OfTop, TypeInv

(* A step that marks.                                                      *)
LEMMA MarkStepSound ==
    ASSUME UNCHANGED <<cells, vm_vars>>,
           next_ids' \in Ring(HeapPopMax, OfTop \cup {-1}),
           reach_bits' \subseteq OfTopBits, pc' # Run,
           pc'.at = "items" => pc'.list \in OfTop,
           pc'.at = "nodes" => pc'.dict \in OfTop
    PROVE  SoundInv'
<1>1. OfTop' = OfTop /\ OfTopBits' = OfTopBits
  BY SameOfTop DEF vm_vars
<1>. QED  BY <1>1 DEF SoundInv, Ring

(* Bits for reached ids are bits of reached ids.                           *)
LEMMA SetReached ==
    ASSUME reach_bits \subseteq OfTopBits, NEW ids, ids \subseteq OfTop, SetBits(ids)
    PROVE  reach_bits' \subseteq OfTopBits
  BY DEF SetBits, OfTopBits

(* What is queued or marked is reached: no step queues an id from          *)
(* elsewhere.                                                              *)
LEMMA NextSoundInv == TypeInv /\ SoundInv /\ [Next]_vars => SoundInv'
<1>. SUFFICES ASSUME TypeInv, SoundInv, [Next]_vars PROVE SoundInv'
  OBVIOUS
<1>. DEFINE Reach == OfTop \cup {-1}
            marking == pc.at \in {"roots", "mark", "items", "nodes"}
<1>1. marking => next_ids \in Ring(HeapPopMax, Reach) /\ reach_bits \subseteq OfTopBits
  BY DEF SoundInv
<1>2. Mark # Run /\ Mark.at = "mark"
  BY DEF Mark, Run
<1>3. ASSUME Handler PROVE SoundInv'
  <2>1. pc = Run
    BY <1>3 DEF Handler, PushPrim, Pop, LoadErrRef, GetIdx, SetIdx, LoadLocal, StoreLocal,
                MkString, MkIter, CutList, RaiseErr, MkDict, MkList, MkClosure,
                CollectThenMake, Running
  <2>2. next_ids = IdQueue!New /\ reach_bits = {}
    BY <2>1 DEF SoundInv
  <2>3. UNCHANGED gc_vars
    BY <1>3 DEF Handler, PushPrim, Pop, LoadErrRef, GetIdx, SetIdx, LoadLocal, StoreLocal,
                MkString, MkIter, CutList, RaiseErr, MkDict, MkList, MkClosure,
                CollectThenMake, Stacked
  <2>4. pc' \in {pc, [at |-> "roots", slot |-> 0]}
    BY <1>3 DEF Handler, PushPrim, Pop, LoadErrRef, GetIdx, SetIdx, LoadLocal, StoreLocal,
                MkString, MkIter, CutList, RaiseErr, MkDict, MkList, MkClosure,
                CollectThenMake, Stacked
  <2>5. IdQueue!New \in Ring(HeapPopMax, OfTop' \cup {-1})
    BY FreshRings
  <2>6. IdQueue!New' = IdQueue!New
    BY SameHeap DEF IdQueue!New, H!DUD_HEAP_ID
  <2>7. next_ids' = IdQueue!New /\ reach_bits' = {}
    BY <2>2, <2>3 DEF gc_vars
  <2>. QED
    BY <2>1, <2>4, <2>5, <2>6, <2>7 DEF SoundInv, Run, Marked, Ring
<1>4. CASE RootNext
  <2>1. pc.at = "roots" /\ pc # Run
    BY <1>4 DEF RootNext, Run
  <2>2. IsRef(Top) => Top \in OfTop
    BY StackTypes, ReachHas DEF TypeInv, IsRef, Value, OfTop
  <2>3. next_ids' \in Ring(HeapPopMax, Reach)
    BY <1>1, <1>4, <2>1, <2>2, IdRing DEF RootNext
  <2>4. pc' # Run /\ pc'.at \in {"mark", "roots"}
    <3>1. pc \in [at : {"roots"}, slot : Nat]
      BY <2>1 DEF TypeInv, PlaceInv, Places
    <3>. QED  BY <1>2, <1>4, <3>1 DEF RootNext, Run
  <2>. QED
    BY <1>1, <1>4, <2>1, <2>3, <2>4, MarkStepSound DEF RootNext, heap_vars
<1>5. CASE RootsDone \/ ItemsDone \/ NodesDone
  <2>1. marking /\ pc' = Mark /\ UNCHANGED <<cells, vm_vars, gc_vars>>
    BY <1>5 DEF RootsDone, ItemsDone, NodesDone, heap_vars
  <2>. QED
    BY <1>1, <1>2, <2>1, MarkStepSound DEF gc_vars
<1>6. CASE MarkNext
  <2>. DEFINE oid == IdQueue!PopValue(next_ids)
              object == H!heap_get(oid)
              kind == IF object = NULL THEN "none" ELSE object.kind
  <2>0. pc = [at |-> "mark"] /\ pc # Run /\ ~crashed
    BY <1>6 DEF MarkNext, TypeInv, PlaceInv, Places, Run
  <2>1. oid \in Reach /\ next_ids' \in Ring(HeapPopMax, Reach)
    BY <1>1, <1>6, <2>0, IdRing DEF MarkNext
  <2>2. object # NULL => oid \in OfTop /\ oid \in H!Live /\ object = cells[oid]
    <3>1. oid \in Ref
      BY <1>6, IdRing DEF MarkNext, TypeInv, MarksInv
    <3>2. object # NULL => oid \in H!Live /\ oid \in H!Ids /\ object = cells[oid]
      BY <3>1, Got, CellsType, Params DEF TypeInv, HeapInv, Ref
    <3>3. -1 \notin H!Ids
      BY SameHeap
    <3>. QED  BY <2>1, <3>2, <3>3
  <2>3. reach_bits' \subseteq OfTopBits
    <3>1. CASE kind \in {"list", "string"}
      BY <1>1, <1>6, <2>0, <2>2, <3>1, SetReached DEF MarkNext
    <3>2. CASE kind = "closure"
      <4>1. {v \in Holds(object) : IsRef(v)} \subseteq OfTop
        BY <2>2, <3>2, OfTopClosed
      <4>. QED  BY <1>1, <1>6, <2>0, <3>2, <4>1, SetReached DEF MarkNext
    <3>3. CASE kind \notin {"list", "string", "closure"}
      BY <1>1, <1>6, <2>0, <3>3 DEF MarkNext, NoBits
    <3>. QED  BY <3>1, <3>2, <3>3
  <2>4. /\ pc' # Run
        /\ pc'.at = "items" => pc'.list \in OfTop
        /\ pc'.at = "nodes" => pc'.dict \in OfTop
    <3>1. CASE kind = "list"
      BY <1>6, <2>2, <3>1 DEF MarkNext, Run
    <3>2. CASE kind = "dict"
      BY <1>6, <2>2, <3>2 DEF MarkNext, Run
    <3>3. CASE kind \notin {"list", "dict"}
      BY <1>6, <2>0, <3>3 DEF MarkNext
    <3>. QED  BY <3>1, <3>2, <3>3
  <2>5. UNCHANGED <<cells, vm_vars>>
    BY <1>6 DEF MarkNext
  <2>. QED  BY <2>1, <2>3, <2>4, <2>5, MarkStepSound
<1>7. CASE QueueItem
  <2>. DEFINE item == cells[pc.list].items[pc.item]
  <2>1. /\ pc \in [at : {"items"}, list : H!Ids, item : Nat \ {0}] /\ pc # Run
        /\ pc.list \in H!Live /\ cells[pc.list].kind = "list" /\ pc.list \in OfTop
    BY <1>7 DEF QueueItem, TypeInv, PlaceInv, AtWork, Places, Run, SoundInv
  <2>2. IsRef(item) => item \in OfTop
    <3>1. cells[pc.list].items \in Seq(Value)
      BY <2>1, CellsType DEF TypeInv, HeapInv, Object, Plain, Dict, Closure
    <3>2. item \in Holds(cells[pc.list])
      BY <1>7, <2>1, <3>1 DEF QueueItem, LastItem, Holds, ToSet
    <3>. QED  BY <2>1, <3>2, OfTopClosed
  <2>3. next_ids' \in Ring(HeapPopMax, Reach)
    BY <1>1, <1>7, <2>1, <2>2, IdRing DEF QueueItem
  <2>4. pc' # Run /\ pc'.at = "items" /\ pc'.list = pc.list
    BY <1>7, <2>1 DEF QueueItem, Run
  <2>. QED
    BY <1>1, <1>7, <2>1, <2>3, <2>4, MarkStepSound DEF QueueItem, heap_vars
<1>8. CASE MarkNode
  <2>. DEFINE nodes == cells[pc.dict].nodes
              n == PtrQueue!PopValue(pc.queue)
  <2>1. /\ pc \in [at : {"nodes"}, dict : H!Ids, queue : Ring(CellCapacity, Nat)] /\ pc # Run
        /\ pc.dict \in H!Live /\ cells[pc.dict].kind = "dict" /\ pc.dict \in OfTop
        /\ pc.queue \in Ring(CellCapacity, 0 .. Len(nodes)) /\ ~crashed
    BY <1>8 DEF MarkNode, TypeInv, PlaceInv, AtWork, Places, Run, SoundInv
  <2>2. nodes \in Seq(Node)
    BY <2>1, CellsType DEF TypeInv, HeapInv, Object, Plain, Dict, Closure
  <2>3. n \in 0 .. Len(nodes)
    BY <1>8, <2>1, PtrRing DEF MarkNode
  <2>4. n # 0 /\ IsRef(nodes[n].data) => nodes[n].data \in OfTop
    <3>1. n # 0 => nodes[n].data \in Holds(cells[pc.dict])
      BY <2>1, <2>2, <2>3 DEF Holds
    <3>. QED  BY <2>1, <3>1, OfTopClosed
  <2>5. reach_bits' \subseteq OfTopBits
    <3>1. CASE n # 0 /\ IsRef(nodes[n].data)
      <4>1. SetBits({nodes[n].data})
        BY <1>8, <3>1, Zenon DEF MarkNode
      <4>. QED  BY <1>1, <2>1, <2>4, <3>1, <4>1, SetReached
    <3>2. CASE ~(n # 0 /\ IsRef(nodes[n].data))
      BY <1>1, <1>8, <2>1, <3>2 DEF MarkNode, NoBits
    <3>. QED  BY <3>1, <3>2
  <2>6. pc' # Run /\ pc'.at = "nodes" /\ pc'.dict = pc.dict
    <3>1. \E q : pc' = [pc EXCEPT !.queue = q]
      BY <1>8 DEF MarkNode
    <3>. QED  BY <2>1, <3>1 DEF Run
  <2>7. UNCHANGED <<cells, vm_vars>> /\ next_ids' = next_ids
    BY <1>8 DEF MarkNode
  <2>. QED  BY <1>1, <2>1, <2>5, <2>6, <2>7, MarkStepSound
<1>9. CASE MarkDone
  <2>1. /\ pc.at = "mark" /\ UNCHANGED <<cells, vm_vars, gc_vars>>
        /\ pc' # Run /\ pc'.at = "sweep"
    BY <1>9 DEF MarkDone, heap_vars, Run
  <2>. QED  BY <1>1, <2>1, MarkStepSound DEF gc_vars
<1>10. CASE SweepNext
  <2>1. /\ pc \in [at : {"sweep"}, slot : 0 .. BitCapacity]
        /\ pc' = [pc EXCEPT !.slot = @ + 1]
    BY <1>10 DEF SweepNext, TypeInv, PlaceInv, Places, Run
  <2>2. pc'.at = "sweep" /\ pc'.slot = pc.slot + 1 /\ pc' # Run /\ pc.slot \in Nat
    BY <2>1, Params DEF Run
  <2>. QED  BY <2>2 DEF SoundInv, Marked, SweepStart
<1>11. CASE Finish
  <2>1. pc' = Run /\ next_ids' = IdQueue!New /\ reach_bits' = {}
    BY <1>11 DEF Finish, Resume, ClearMarks
  <2>2. IdQueue!New' = IdQueue!New
    BY SameHeap DEF IdQueue!New, H!DUD_HEAP_ID
  <2>. QED  BY <2>1, <2>2 DEF SoundInv, Run, Marked
<1>12. CASE UNCHANGED vars
  <2>1. UNCHANGED <<cells, stack>> /\ pc' = pc /\ next_ids' = next_ids /\ reach_bits' = reach_bits
    BY <1>12 DEF vars, heap_vars, vm_vars, gc_vars
  <2>2. IdQueue!New' = IdQueue!New
    BY SameHeap DEF IdQueue!New, H!DUD_HEAP_ID
  <2>. QED  BY <2>1, <2>2, SameOfTop DEF SoundInv, Marked, Ring
<1>. QED
  BY <1>3, <1>4, <1>5, <1>6, <1>7, <1>8, <1>9, <1>10, <1>11, <1>12
  DEF Next, CollectorStep

(* Nothing is marked that the top of the stack does not reach: no bit and  *)
(* no queue entry is left over from an earlier collection (gc.c,           *)
(* GCState_collect, BitSet_clear and IdQueue_reset).                       *)
THEOREM GCMarkSound == Spec => []MarkSound
<1>1. SoundInv => MarkSound
  BY DEF SoundInv, MarkSound, OfTopBits, OfTop
<1>. QED
  BY <1>1, InitSoundInv, NextSoundInv, SpecTypeInv, PTL DEF Spec

-----------------------------------------------------------------------------
(* What a sweep leaves                                                     *)

(* The cells a sweep has passed are empty or marked.                       *)
SweptInv ==
    pc.at = "sweep" =>
        \A id \in 0 .. pc.slot - 1 : id \in H!Live => id \in reach_bits

(* Where programs make only lists and strings, a mark is the id of an      *)
(* object: a bit is set for what was found under its id.                   *)
LiveMarks == (pc = Run => reach_bits = {}) /\ reach_bits \subseteq H!Live

(* Objects lie below the bump pointer.                                     *)
LEMMA LiveBelowNext ==
    ASSUME TypeInv
    PROVE  \A id \in H!Live : id \in 0 .. next_cell_id - 1
<1>1. \A id \in next_cell_id .. CellCapacity - 1 : cells[id] = NULL
  BY DEF TypeInv, HeapInv, HP!CellsInv, HP!FreshCellsEmpty
<1>. QED  BY <1>1, CellsType, SameHeap, Params DEF H!Live, TypeInv, HeapInv

(* One turn of the sweep empties the cell of an unmarked slot.             *)
LEMMA SweepFacts ==
    ASSUME TypeInv, SweepNext
    PROVE  /\ pc.slot \in Nat /\ pc'.at = "sweep" /\ pc'.slot = pc.slot + 1 /\ pc' # Run
           /\ reach_bits' = reach_bits
           /\ H!Live' = IF pc.slot \in reach_bits THEN H!Live ELSE H!Live \ {pc.slot}
<1>1. /\ pc \in [at : {"sweep"}, slot : 0 .. BitCapacity]
      /\ pc' = [pc EXCEPT !.slot = @ + 1]
  BY DEF SweepNext, TypeInv, PlaceInv, Places
<1>2. pc.slot \in Nat /\ pc'.at = "sweep" /\ pc'.slot = pc.slot + 1 /\ pc' # Run
  BY <1>1, Params DEF Run
<1>3. CASE pc.slot \in reach_bits
  BY <1>2, <1>3 DEF SweepNext, gc_vars, heap_vars, H!Live
<1>4. CASE pc.slot \notin reach_bits
  <2>1. H!heap_erase(pc.slot) /\ reach_bits' = reach_bits
    BY <1>4 DEF SweepNext, SweepErase, gc_vars
  <2>2. CASE pc.slot >= next_cell_id
    <3>1. cells' = cells
      BY <2>1, <2>2 DEF H!heap_erase, H!cell_vars
    <3>2. pc.slot \notin H!Live
      BY <1>2, <2>2, LiveBelowNext DEF TypeInv, HeapInv, HP!CellsInv, HP!CellsTypeOK
    <3>. QED  BY <1>2, <1>4, <2>1, <3>1, <3>2 DEF H!Live
  <2>3. CASE ~(pc.slot >= next_cell_id)
    <3>1. cells' = [cells EXCEPT ![pc.slot] = NULL]
      BY <1>2, <2>1, <2>3 DEF H!heap_erase, TypeInv, HeapInv
    <3>. QED  BY <1>2, <1>4, <2>1, <3>1, CellsType DEF H!Live, TypeInv, HeapInv
  <2>. QED  BY <2>2, <2>3
<1>. QED  BY <1>3, <1>4

(* Behind the sweep every live cell is marked or tenured; at its end, all  *)
(* are.                                                                    *)
LEMMA NextSweptInv == TypeInv /\ SweptInv /\ [Next]_vars => SweptInv'
<1>. SUFFICES ASSUME TypeInv, SweptInv, [Next]_vars PROVE SweptInv'
  OBVIOUS
<1>1. CASE SweepNext
  <2>. SUFFICES ASSUME NEW id \in 0 .. pc.slot, id \in H!Live' PROVE id \in reach_bits'
    BY <1>1, SweepFacts DEF SweptInv
  <2>1. id \in H!Live /\ (pc.slot \in reach_bits \/ id # pc.slot)
    BY <1>1, SweepFacts
  <2>2. id \in 0 .. pc.slot - 1 => id \in reach_bits
    BY <1>1, <2>1 DEF SweptInv, SweepNext
  <2>. QED  BY <1>1, <2>1, <2>2, SweepFacts
<1>2. CASE MarkDone
  <2>1. pc'.slot = 0
    BY <1>2 DEF MarkDone, SweepStart
  <2>. QED  BY <2>1 DEF SweptInv
<1>3. CASE UNCHANGED vars
  BY <1>3 DEF SweptInv, vars, heap_vars, gc_vars, H!Live
<1>4. ASSUME Handler PROVE pc'.at # "sweep"
  <2>1. pc' \in {Run, [at |-> "roots", slot |-> 0]}
    BY <1>4 DEF Handler, PushPrim, Pop, LoadErrRef, GetIdx, SetIdx, LoadLocal, StoreLocal,
                MkString, MkIter, CutList, RaiseErr, MkDict, MkList, MkClosure,
                CollectThenMake, Stacked, Running
  <2>. QED  BY <2>1 DEF Run
<1>5. ASSUME RootNext \/ RootsDone \/ QueueItem \/ ItemsDone \/ MarkNode \/ NodesDone \/ Finish
      PROVE  pc'.at # "sweep"
  <2>1. CASE RootsDone \/ ItemsDone \/ NodesDone \/ Finish
    BY <2>1 DEF RootsDone, ItemsDone, NodesDone, Finish, Resume, Mark, Run
  <2>2. CASE RootNext
    <3>1. pc \in [at : {"roots"}, slot : Nat] /\ pc' \in {Mark, [pc EXCEPT !.slot = @ + 1]}
      BY <2>2 DEF RootNext, TypeInv, PlaceInv, Places
    <3>. QED  BY <3>1 DEF Mark
  <2>3. CASE QueueItem
    <3>1. /\ pc \in [at : {"items"}, list : H!Ids, item : Nat \ {0}]
          /\ pc' = [pc EXCEPT !.item = @ + 1]
      BY <2>3 DEF QueueItem, TypeInv, PlaceInv, Places
    <3>. QED  BY <3>1
  <2>4. CASE MarkNode
    <3>1. /\ pc \in [at : {"nodes"}, dict : H!Ids, queue : Ring(CellCapacity, Nat)]
          /\ \E q : pc' = [pc EXCEPT !.queue = q]
      BY <2>4 DEF MarkNode, TypeInv, PlaceInv, Places
    <3>. QED  BY <3>1
  <2>. QED  BY <1>5, <2>1, <2>2, <2>3, <2>4
<1>6. CASE MarkNext
  <2>1. pc.at = "mark" /\ (pc' = pc \/ pc'.at \in {"items", "nodes"})
    BY <1>6 DEF MarkNext
  <2>. QED  BY <2>1 DEF SweptInv
<1>. QED
  BY <1>1, <1>2, <1>3, <1>4, <1>5, <1>6 DEF Next, CollectorStep, SweptInv

(* A finished sweep has freed every cell whose bit is clear, whatever kinds *)
(* of object there are (gc.c, GCState_collect's last loop).                *)
THEOREM GCSweepFrees ==
    Spec => [](Swept => \A id \in 0 .. BitCapacity - 1 : id \in H!Live => id \in reach_bits)
<1>1. Init => SweptInv
  BY DEF Init, Run, SweptInv
<1>2. SweptInv =>
        (Swept => \A id \in 0 .. BitCapacity - 1 : id \in H!Live => id \in reach_bits)
  BY DEF SweptInv, Swept
<1>. QED  BY <1>1, <1>2, NextSweptInv, SpecTypeInv, PTL DEF Spec

(* A step that marks does not go back to the program.                      *)
LEMMA RunIsLeft ==
    ASSUME TypeInv,
           RootNext \/ RootsDone \/ QueueItem \/ ItemsDone \/ NodesDone \/ MarkDone
    PROVE  pc' # Run
<1>1. CASE RootsDone \/ ItemsDone \/ NodesDone \/ MarkDone
  BY <1>1 DEF RootsDone, ItemsDone, NodesDone, MarkDone, Mark, Run
<1>2. CASE RootNext
  <2>1. pc \in [at : {"roots"}, slot : Nat] /\ pc' \in {Mark, [pc EXCEPT !.slot = @ + 1]}
    BY <1>2 DEF RootNext, TypeInv, PlaceInv, Places
  <2>. QED  BY <2>1 DEF Mark, Run
<1>3. CASE QueueItem
  <2>1. /\ pc \in [at : {"items"}, list : H!Ids, item : Nat \ {0}]
        /\ pc' = [pc EXCEPT !.item = @ + 1]
    BY <1>3 DEF QueueItem, TypeInv, PlaceInv, Places
  <2>. QED  BY <2>1 DEF Run
<1>. QED  BY <1>1, <1>2, <1>3

(* With lists and strings alone, only live cells are marked: a dict or a   *)
(* closure could leave a mark on an empty cell.                            *)
LEMMA NextLiveMarks ==
    ASSUME Kinds \subseteq {"list", "string"}
    PROVE  TypeInv /\ LiveMarks /\ [Next]_vars => LiveMarks'
<1>. SUFFICES ASSUME TypeInv, LiveMarks, [Next]_vars PROVE LiveMarks'
  OBVIOUS
<1>1. \A id \in H!Live : cells[id].kind \in {"list", "string"}
  BY DEF TypeInv, HeapInv, KindsKept
<1>2. ASSUME Handler PROVE LiveMarks'
  <2>1. UNCHANGED gc_vars /\ pc = Run
    BY <1>2 DEF Handler, PushPrim, Pop, LoadErrRef, GetIdx, SetIdx, LoadLocal, StoreLocal,
                MkString, MkIter, CutList, RaiseErr, MkDict, MkList, MkClosure,
                CollectThenMake, Stacked, Running
  <2>. QED  BY <2>1 DEF LiveMarks, gc_vars
<1>4. CASE RootNext \/ RootsDone \/ QueueItem \/ ItemsDone \/ NodesDone \/ MarkDone
  <2>1. cells' = cells /\ reach_bits' = reach_bits
    BY <1>4 DEF RootNext, RootsDone, QueueItem, ItemsDone, NodesDone, MarkDone, heap_vars, gc_vars
  <2>2. pc.at # "run"
    BY <1>4 DEF RootNext, RootsDone, QueueItem, ItemsDone, NodesDone, MarkDone
  <2>3. reach_bits \subseteq H!Live /\ H!Live' = H!Live
    BY <2>1 DEF LiveMarks, H!Live
  <2>4. pc' # Run
    BY <1>4, <2>2, RunIsLeft
  <2>. QED  BY <2>1, <2>3, <2>4 DEF LiveMarks
<1>5. CASE MarkNext
  <2>. DEFINE oid == IdQueue!PopValue(next_ids)
              object == H!heap_get(oid)
              kind == IF object = NULL THEN "none" ELSE object.kind
  <2>1. oid \in Ref
    BY <1>5, IdRing DEF MarkNext, TypeInv, MarksInv
  <2>2. object # NULL => oid \in H!Live /\ oid \in H!Ids /\ kind \in {"list", "string"}
    BY <1>1, <2>1, Got, CellsType, Params DEF TypeInv, HeapInv, Ref
  <2>3. reach_bits' \subseteq H!Live
    <3>1. CASE object # NULL
      <4>1. reach_bits' = reach_bits \cup {oid % 65536}
        BY <1>5, <2>2, <3>1 DEF MarkNext, SetBits
      <4>2. oid % 65536 = oid
        BY <2>2, <3>1, SameHeap, Params
      <4>. QED  BY <2>2, <3>1, <4>1, <4>2 DEF LiveMarks
    <3>2. CASE object = NULL
      BY <1>5, <3>2 DEF MarkNext, NoBits, LiveMarks
    <3>. QED  BY <3>1, <3>2
  <2>4. pc' # Run /\ H!Live' = H!Live
    <3>1. pc.at = "mark" /\ (pc' = pc \/ pc'.at \in {"items", "nodes"}) /\ cells' = cells
      BY <1>5 DEF MarkNext
    <3>. QED  BY <3>1 DEF Run, H!Live
  <2>. QED  BY <2>3, <2>4 DEF LiveMarks
<1>6. CASE MarkNode
  BY <1>1, <1>6 DEF MarkNode, TypeInv, PlaceInv, AtWork
<1>7. CASE SweepNext
  BY <1>7, SweepFacts DEF LiveMarks
<1>8. CASE Finish
  BY <1>8 DEF Finish, ClearMarks, LiveMarks
<1>9. CASE UNCHANGED vars
  BY <1>9 DEF vars, heap_vars, gc_vars, LiveMarks, H!Live
<1>. QED
  BY <1>2, <1>4, <1>5, <1>6, <1>7, <1>8, <1>9 DEF Next, CollectorStep

(* Where programs make only lists and strings, what a sweep leaves is      *)
(* exactly what was marked (gc.c, GCState_collect's last loop).  With other *)
(* kinds a bit may stand for a stale reference, whose cell is empty.       *)
THEOREM GCSweepExact ==
    ASSUME Kinds \subseteq {"list", "string"}
    PROVE  Spec => []SweepExact
<1>1. Init => SweptInv /\ LiveMarks
  BY DEF Init, Run, SweptInv, LiveMarks
<1>2. TypeInv /\ SweptInv /\ LiveMarks => SweepExact
  <2>. SUFFICES ASSUME TypeInv, SweptInv, LiveMarks, Swept, NEW id \in 0 .. BitCapacity - 1
                PROVE  id \in H!Live <=> id \in reach_bits /\ id < next_cell_id
    BY DEF SweepExact
  <2>1. id \in H!Live => id \in reach_bits
    BY DEF SweptInv, Swept
  <2>2. id \in reach_bits => id \in H!Live
    BY DEF LiveMarks
  <2>3. id \in H!Live => id < next_cell_id
    BY LiveBelowNext, CellsType, Params DEF TypeInv, HeapInv
  <2>. QED  BY <2>1, <2>2, <2>3
<1>3. TypeInv /\ LiveMarks /\ [Next]_vars => LiveMarks'
  BY NextLiveMarks
<1>. QED
  BY <1>1, <1>2, <1>3, NextSweptInv, SpecTypeInv, PTL DEF Spec

-----------------------------------------------------------------------------
(* Why the marking is complete although the queue never hands out its last *)
(* entry.  Think of the ids queued in one collection, in order, each with  *)
(* the entry that queued it: entry j came from item i of the list that     *)
(* entry `from` stands for.  The top of the stack was queued twice, and so *)
(* was everything below it, the second time before the first was handed    *)
(* out: what an entry queued, its twin queued before that came to its own  *)
(* turn.  So the last entry has a twin that was handed out.                *)

Asked == [id : Ref, from : Nat, item : Nat]

(* The slot j places after the head.                                       *)
Around(head, j) == IF head + j < HeapPopMax THEN head + j ELSE head + j - HeapPopMax

(* The fresh queue holds a DUD_HEAP_ID that counts as entry 0.             *)
Entry(asked, n) == IF n = 0 THEN -1 ELSE asked[n].id

(* `asked` are the ids queued, and k entries were handed out.              *)
Trace(asked, k) ==
    LET waiting == Len(asked) - k
    IN  /\ asked \in Seq(Asked) /\ k \in Nat
        /\ waiting \in 0 .. HeapPopMax - 1
        /\ next_ids.tail = Around(next_ids.head, waiting)
        /\ \A j \in 0 .. waiting :
              next_ids.items[Around(next_ids.head, j)] = Entry(asked, k + j)

ListAt(id) == id \in H!Live /\ cells[id].kind = "list"

(* Entry j is the item of that number of the list it came from.            *)
IsItem(asked, j) ==
    LET list == asked[asked[j].from].id
    IN  /\ ListAt(list) /\ asked[j].item \in DOMAIN cells[list].items
        /\ asked[j].id = cells[list].items[asked[j].item]

Came(asked, k) ==
    \A j \in 1 .. Len(asked) :
        \/ asked[j].id = Top
        \/ asked[j].from \in 1 .. k - 1 /\ asked[j].from < j /\ IsItem(asked, j)

Queued(asked, q, i) ==
    \E j \in 1 .. Len(asked) :
        asked[j].from = q /\ asked[j].item = i /\ asked[j].id = cells[asked[q].id].items[i]

(* What is handed out is marked, and its items are queued: all of them, or *)
(* those the loop over the items has passed.                               *)
Passed(k, q, i) == pc.at = "items" /\ q = k - 1 => i < pc.item
Dealt(asked, k) ==
    \A q \in 1 .. k - 1 :
        LET id == asked[q].id
        IN  /\ id \in H!Live /\ cells[id].kind \in {"list", "string"} => id \in reach_bits
            /\ ListAt(id) =>
                  \A i \in DOMAIN cells[id].items :
                      Passed(k, q, i) /\ IsRef(cells[id].items[i]) => Queued(asked, q, i)

(* The roots come first, and there are as many as slots below sp.          *)
RootsFirst(asked, k) ==
    /\ pc.at = "roots" => k = 0 /\ Len(asked) = pc.slot
    /\ pc.at # "roots" => Len(asked) >= Len(stack) - 1
    /\ \A j \in 1 .. Len(stack) - 1 :
          j <= Len(asked) => asked[j].id = Top /\ asked[j].from = 0

(* Entries come in the order of the entries they come from.                *)
Ordered(asked, k) ==
    \A j \in 1 .. Len(asked) :
        /\ asked[j].from = 0 \/ asked[j].from < k
        /\ \A i \in 1 .. j : asked[i].from <= asked[j].from

History(asked, k) ==
    /\ Trace(asked, k) /\ Came(asked, k) /\ Dealt(asked, k) /\ RootsFirst(asked, k)
    /\ Ordered(asked, k)
    /\ pc.at = "items" => k > 1 /\ asked[k - 1].id = pc.list
    /\ Marked => k = Len(asked)

CompleteInv ==
    /\ pc.at \in {"run", "roots"} => ~dropped
    /\ /\ pc.at \in {"roots", "mark", "items", "nodes"} \/ Marked
       /\ ~dropped /\ IsRef(Top)
       => \E asked, k : History(asked, k)

-----------------------------------------------------------------------------
(* Places around the ring are distinct, and one step leads to the next.    *)
Place == 0 .. HeapPopMax - 1
(* Places in the ring, counted from its head.                              *)
LEMMA AroundFacts ==
    \A h, j \in Place :
        /\ Around(h, j) \in Place
        /\ Around(h, 0) = h
        /\ (h + 1) % HeapPopMax = Around(h, 1)
        /\ \A i \in Place : Around(h, i) = Around(h, j) => i = j
        /\ j + 1 \in Place => (Around(h, j) + 1) % HeapPopMax = Around(h, j + 1)
        /\ j + 1 \notin Place => (Around(h, j) + 1) % HeapPopMax = h
        /\ j + 1 \in Place => Around(Around(h, 1), j) = Around(h, j + 1)
<1>. TAKE h, j \in Place
<1>1. HeapPopMax \in Nat \ {0}
  BY Params
<1>2. \A s \in 0 .. HeapPopMax - 1 :
          (s + 1) % HeapPopMax = IF s + 1 = HeapPopMax THEN 0 ELSE s + 1
  <2>1. ASSUME NEW s \in 0 .. HeapPopMax - 1, s + 1 < HeapPopMax
        PROVE  (s + 1) % HeapPopMax = s + 1
    BY <1>1, <2>1
  <2>2. ASSUME NEW s \in 0 .. HeapPopMax - 1, s + 1 = HeapPopMax
        PROVE  (s + 1) % HeapPopMax = 0
    BY <1>1, <2>2
  <2>. QED  BY <1>1, <2>1, <2>2
<1>3. \A s, t \in Nat : Around(s, t) = IF s + t < HeapPopMax THEN s + t ELSE s + t - HeapPopMax
  BY DEF Around
<1>4. /\ h \in Nat /\ h < HeapPopMax /\ j \in Nat /\ j < HeapPopMax
      /\ \A s \in Place : s \in Nat /\ s < HeapPopMax
      /\ \A s \in Nat : s < HeapPopMax => s \in Place
  BY <1>1 DEF Place
<1>5. Around(h, j) \in Place /\ Around(h, 0) = h
  <2>1. CASE h + j < HeapPopMax
    BY <1>1, <1>3, <1>4, <2>1
  <2>2. CASE ~(h + j < HeapPopMax)
    <3>1. h + j - HeapPopMax \in Nat /\ h + j - HeapPopMax < HeapPopMax
      BY <1>1, <1>4, <2>2
    <3>. QED  BY <1>1, <1>3, <1>4, <2>2, <3>1
  <2>. QED  BY <2>1, <2>2
<1>6. (h + 1) % HeapPopMax = Around(h, 1)
  BY <1>1, <1>2, <1>3, <1>4
<1>7. ASSUME NEW i \in Place, Around(h, i) = Around(h, j) PROVE i = j
  BY <1>1, <1>3, <1>4, <1>7
<1>8. (Around(h, j) + 1) % HeapPopMax =
          IF Around(h, j) + 1 = HeapPopMax THEN 0 ELSE Around(h, j) + 1
  BY <1>2, <1>5 DEF Place
<1>9. ASSUME j + 1 \in Place
      PROVE  /\ (Around(h, j) + 1) % HeapPopMax = Around(h, j + 1)
             /\ Around(Around(h, 1), j) = Around(h, j + 1)
  <2>1. j + 1 \in Nat /\ j + 1 < HeapPopMax /\ 1 \in Nat
    BY <1>4, <1>9
  <2>2. /\ Around(h, j + 1) = IF h + (j + 1) < HeapPopMax THEN h + (j + 1)
                              ELSE h + (j + 1) - HeapPopMax
        /\ Around(h, 1) = IF h + 1 < HeapPopMax THEN h + 1 ELSE h + 1 - HeapPopMax
        /\ Around(h, j) = IF h + j < HeapPopMax THEN h + j ELSE h + j - HeapPopMax
    BY <1>3, <1>4, <2>1
  <2>3. (Around(h, j) + 1) % HeapPopMax = Around(h, j + 1)
    BY <1>1, <1>4, <1>8, <2>1, <2>2
  <2>4. Around(h, 1) \in Nat
    BY <1>1, <1>4, <2>2
  <2>5. Around(Around(h, 1), j) = IF Around(h, 1) + j < HeapPopMax THEN Around(h, 1) + j
                                  ELSE Around(h, 1) + j - HeapPopMax
    BY <1>3, <1>4, <2>4
  <2>6. Around(Around(h, 1), j) = Around(h, j + 1)
    BY <1>1, <1>4, <2>1, <2>2, <2>5
  <2>. QED  BY <2>3, <2>6
<1>10. ASSUME j + 1 \notin Place PROVE (Around(h, j) + 1) % HeapPopMax = h
  <2>1. j + 1 = HeapPopMax
    BY <1>1, <1>4, <1>10
  <2>2. Around(h, j) = IF h + j < HeapPopMax THEN h + j ELSE h + j - HeapPopMax
    BY <1>3, <1>4
  <2>. QED  BY <1>1, <1>4, <1>8, <2>1, <2>2
<1>. QED  BY <1>5, <1>6, <1>7, <1>9, <1>10

(* A push that is not refused adds an entry at the end.                    *)
LEMMA PushTrace ==
    ASSUME TypeInv, NEW asked, NEW k, Trace(asked, k), NEW entry \in Asked,
           next_ids' = IdQueue!Pushed(next_ids, entry.id),
           IdQueue!PushOk(next_ids, entry.id)
    PROVE  Trace(Append(asked, entry), k)'
<1>. DEFINE longer == Append(asked, entry)
            waiting == Len(asked) - k
            h == next_ids.head
            t == next_ids.tail
            new == (t + 1) % HeapPopMax
<1>1. /\ asked \in Seq(Asked) /\ k \in Nat /\ waiting \in 0 .. HeapPopMax - 1
      /\ t = Around(h, waiting)
      /\ \A j \in 0 .. waiting : next_ids.items[Around(h, j)] = Entry(asked, k + j)
      /\ Len(asked) \in Nat
  BY DEF Trace
<1>2. /\ longer \in Seq(Asked) /\ Len(longer) = Len(asked) + 1
      /\ \A j \in 1 .. Len(asked) : longer[j] = asked[j]
      /\ longer[Len(asked) + 1] = entry
  BY <1>1
<1>3. /\ next_ids.items \in [0 .. HeapPopMax - 1 -> Ref]
      /\ h \in 0 .. HeapPopMax - 1 /\ t \in 0 .. HeapPopMax - 1
      /\ next_ids = [items |-> next_ids.items, head |-> h, tail |-> t]
  BY DEF TypeInv, MarksInv, Ring
<1>4. /\ next_ids'.head = h /\ next_ids'.tail = new
      /\ next_ids'.items = [next_ids.items EXCEPT ![new] = entry.id]
      /\ new # h
  BY <1>3 DEF IdQueue!Pushed, IdQueue!PushOk, IdQueue!Exhausted
<1>. HIDE DEF longer, waiting, h
<1>a. /\ waiting \in Place /\ h \in Place
      /\ \A j \in 0 .. waiting : j \in Place
      /\ \A j \in Place : j + 1 \notin Place => j + 1 = HeapPopMax
  BY <1>1, <1>3, Params, SMTT(40) DEF Place
<1>5. waiting + 1 \in Place /\ new = Around(h, waiting + 1)
  <2>1. CASE waiting + 1 \in Place
    BY <1>1, <1>a, <2>1, AroundFacts
  <2>2. CASE waiting + 1 \notin Place
    BY <1>1, <1>4, <1>a, <2>2, AroundFacts
  <2>. QED  BY <2>1, <2>2
<1>. HIDE DEF t, new
<1>6. \A j \in 0 .. waiting : Around(h, j) # new /\ Around(h, j) \in Place
  <2>1. \A j \in 0 .. waiting : j # waiting + 1
    BY <1>1
  <2>. QED  BY <1>5, <1>a, <2>1, AroundFacts
<1>7. new \in Place
  BY <1>5, <1>a, AroundFacts
<1>8. \A j \in 0 .. waiting + 1 :
          next_ids'.items[Around(h, j)] = Entry(longer, k + j)
  <2>1. ASSUME NEW j \in 0 .. waiting
        PROVE  next_ids'.items[Around(h, j)] = Entry(longer, k + j)
    <3>1. next_ids'.items[Around(h, j)] = Entry(asked, k + j)
      BY <1>1, <1>3, <1>4, <1>6 DEF Place
    <3>2. k + j \in 0 .. Len(asked)
      BY <1>1 DEF waiting
    <3>. QED  BY <1>2, <3>1, <3>2 DEF Entry
  <2>2. next_ids'.items[Around(h, waiting + 1)] = Entry(longer, k + (waiting + 1))
    <3>1. next_ids'.items[Around(h, waiting + 1)] = entry.id
      BY <1>3, <1>4, <1>5, <1>7 DEF Place
    <3>2. k + (waiting + 1) = Len(asked) + 1 /\ Len(asked) + 1 # 0
      BY <1>1 DEF waiting
    <3>. QED  BY <1>2, <3>1, <3>2 DEF Entry
  <2>3. \A j \in 0 .. waiting + 1 : j \in 0 .. waiting \/ j = waiting + 1
    BY <1>1
  <2>. QED  BY <2>1, <2>2, <2>3
<1>9. Len(longer) - k = waiting + 1 /\ waiting + 1 \in 0 .. HeapPopMax - 1
  BY <1>1, <1>2, <1>5, Params DEF waiting, Place
<1>10. /\ longer \in Seq(Asked) /\ k \in Nat
       /\ Len(longer) - k \in 0 .. HeapPopMax - 1
       /\ next_ids'.tail = Around(next_ids'.head, Len(longer) - k)
       /\ \A j \in 0 .. Len(longer) - k :
              next_ids'.items[Around(next_ids'.head, j)] = Entry(longer, k + j)
  BY <1>1, <1>2, <1>4, <1>5, <1>8, <1>9
<1>. QED  BY <1>10 DEF Trace, longer, Around, Entry, Asked, Ref

(* A pop hands out the next entry.                                         *)
LEMMA PopTrace ==
    ASSUME TypeInv, NEW asked, NEW k, Trace(asked, k),
           ~IdQueue!Exhausted(next_ids), next_ids' = IdQueue!Popped(next_ids)
    PROVE  /\ Trace(asked, k + 1)' /\ k < Len(asked)
           /\ IdQueue!PopValue(next_ids) = Entry(asked, k)
<1>. DEFINE waiting == Len(asked) - k
            h == next_ids.head
<1>1. /\ asked \in Seq(Asked) /\ k \in Nat /\ waiting \in 0 .. HeapPopMax - 1
      /\ next_ids.tail = Around(h, waiting)
      /\ \A j \in 0 .. waiting : next_ids.items[Around(h, j)] = Entry(asked, k + j)
      /\ Len(asked) \in Nat
  BY DEF Trace
<1>2. /\ next_ids.items \in [0 .. HeapPopMax - 1 -> Ref]
      /\ h \in 0 .. HeapPopMax - 1
      /\ next_ids = [items |-> next_ids.items, head |-> h, tail |-> next_ids.tail]
  BY DEF TypeInv, MarksInv, Ring
<1>. HIDE DEF waiting, h
<1>a. /\ waiting \in Place /\ h \in Place /\ 0 \in Place
      /\ \A j \in 0 .. waiting - 1 : j \in Place /\ j + 1 \in Place
  BY <1>1, <1>2, Params DEF Place
<1>b. next_ids.head = h
  BY DEF h
<1>3. waiting # 0 /\ waiting \in Nat
  BY <1>1, <1>a, <1>b, AroundFacts DEF IdQueue!Exhausted
<1>4. /\ next_ids'.head = (h + 1) % HeapPopMax /\ next_ids'.tail = next_ids.tail
      /\ next_ids'.items = next_ids.items
  BY <1>2, <1>b DEF IdQueue!Popped, IdQueue!Exhausted
<1>5. next_ids'.head = Around(h, 1) /\ Around(h, 0) = h
  BY <1>4, <1>a, AroundFacts
<1>6. \A j \in 0 .. waiting - 1 : Around(Around(h, 1), j) = Around(h, j + 1)
  BY <1>a, AroundFacts
<1>7. IdQueue!PopValue(next_ids) = Entry(asked, k)
  <2>1. next_ids.items[Around(h, 0)] = Entry(asked, k + 0) /\ k + 0 = k
    BY <1>1, <1>3
  <2>. QED  BY <1>5, <1>b, <2>1 DEF IdQueue!PopValue
<1>8. \A j \in 0 .. waiting - 1 :
          next_ids'.items[Around(next_ids'.head, j)] = Entry(asked, (k + 1) + j)
  <2>. TAKE j \in 0 .. waiting - 1
  <2>1. j + 1 \in 0 .. waiting /\ k + (j + 1) = (k + 1) + j
    BY <1>1, <1>3
  <2>2. next_ids.items[Around(h, j + 1)] = Entry(asked, k + (j + 1))
    BY <1>1, <2>1
  <2>. QED  BY <1>4, <1>5, <1>6, <2>1, <2>2
<1>9. next_ids'.tail = Around(next_ids'.head, waiting - 1)
  BY <1>1, <1>3, <1>4, <1>5, <1>6
<1>10. /\ Len(asked) - (k + 1) = waiting - 1 /\ k < Len(asked)
       /\ waiting - 1 \in 0 .. HeapPopMax - 1
  BY <1>1, <1>3, Params DEF waiting
<1>11. /\ asked \in Seq(Asked) /\ k + 1 \in Nat
       /\ Len(asked) - (k + 1) \in 0 .. HeapPopMax - 1
       /\ next_ids'.tail = Around(next_ids'.head, Len(asked) - (k + 1))
       /\ \A j \in 0 .. Len(asked) - (k + 1) :
              next_ids'.items[Around(next_ids'.head, j)] = Entry(asked, (k + 1) + j)
  BY <1>1, <1>8, <1>9, <1>10
<1>. QED  BY <1>7, <1>10, <1>11 DEF Trace, Around, Entry, Asked, Ref

-----------------------------------------------------------------------------
(* What entry j must be to have come from the top of the stack.            *)
CameSo(asked, k, j) ==
    \/ asked[j].id = Top
    \/ asked[j].from \in 1 .. k - 1 /\ asked[j].from < j /\ IsItem(asked, j)

(* More entries are queued, more are handed out.                           *)
Longer(asked, longer) ==
    /\ asked \in Seq(Asked) /\ longer \in Seq(Asked)
    /\ Len(asked) <= Len(longer)
    /\ \A j \in 1 .. Len(asked) : longer[j] = asked[j]

(* Pushing an id lengthens the history of what was asked for.              *)
LEMMA AppendLonger ==
    ASSUME NEW asked \in Seq(Asked), NEW entry \in Asked
    PROVE  /\ Longer(asked, Append(asked, entry)) /\ Len(asked) \in Nat
           /\ Len(Append(asked, entry)) = Len(asked) + 1
           /\ Append(asked, entry)[Len(asked) + 1] = entry
  BY DEF Longer

(* What came from the stack or from an item still did, after the history   *)
(* grew.                                                                   *)
LEMMA GrowCame ==
    ASSUME NEW asked, NEW longer, Longer(asked, longer), NEW k \in Nat, NEW l \in Nat, k <= l,
           \A j \in Len(asked) + 1 .. Len(longer) : CameSo(longer, l, j),
           UNCHANGED <<cells, stack>>, Came(asked, k)
    PROVE  Came(longer, l)'
<1>. SUFFICES ASSUME NEW j \in 1 .. Len(longer)
              PROVE  CameSo(longer, l, j)'
  BY DEF Came, CameSo
<1>1. Len(asked) \in Nat /\ Len(longer) \in Nat /\ Top' = Top /\ H!Live' = H!Live
  BY DEF Longer, Top, Last, H!Live
<1>2. CameSo(longer, l, j)' <=> CameSo(longer, l, j)
  BY <1>1 DEF CameSo, IsItem, ListAt
<1>3. CASE j \in 1 .. Len(asked)
  <2>1. CameSo(asked, k, j) /\ longer[j] = asked[j]
    BY <1>3 DEF Came, CameSo, Longer
  <2>2. CASE asked[j].id = Top
    <3>1. longer[j].id = Top
      BY <2>1, <2>2
    <3>. QED  BY <1>2, <3>1 DEF CameSo
  <2>3. CASE asked[j].from \in 1 .. k - 1 /\ asked[j].from < j /\ IsItem(asked, j)
    <3>1. asked[j].from \in 1 .. l - 1 /\ asked[j].from \in 1 .. Len(asked)
      BY <1>1, <1>3, <2>3
    <3>2. longer[asked[j].from] = asked[asked[j].from]
      BY <3>1 DEF Longer
    <3>3. IsItem(longer, j)
      BY <2>1, <2>3, <3>2 DEF IsItem
    <3>4. longer[j].from \in 1 .. l - 1 /\ longer[j].from < j
      BY <2>1, <2>3, <3>1
    <3>. QED  BY <1>2, <3>3, <3>4 DEF CameSo
  <2>. QED  BY <2>1, <2>2, <2>3 DEF CameSo
<1>4. CASE j \notin 1 .. Len(asked)
  BY <1>1, <1>2, <1>4
<1>. QED  BY <1>3, <1>4

(* An entry handed out before stays dealt with; one handed out now has its *)
(* bit, if it has one, and none of its items is passed.                    *)
HasItem(id, i) ==
    ListAt(id) /\ i \in DOMAIN cells[id].items /\ IsRef(cells[id].items[i])
(* What was dealt with still is, after the history grew.                   *)
LEMMA GrowDealt ==
    ASSUME NEW asked, NEW longer, Longer(asked, longer), NEW k \in Nat, NEW l \in Nat,
           k <= Len(asked) + 1, l <= Len(longer) + 1,
           cells' = cells, reach_bits \subseteq reach_bits', Dealt(asked, k),
           \A q \in 1 .. l - 1 :
              \/ q < k /\ \A i \in Nat :
                    Passed(l, q, i)' /\ HasItem(longer[q].id, i)
                        => Passed(k, q, i) \/ Queued(longer, q, i)
              \/ /\ \A i \in Nat : Passed(l, q, i)' => ~HasItem(longer[q].id, i)
                 /\ /\ longer[q].id \in H!Live
                    /\ cells[longer[q].id].kind \in {"list", "string"}
                    => longer[q].id \in reach_bits',
           HeapInv
    PROVE  Dealt(longer, l)'
<1>1. /\ Len(asked) \in Nat /\ Len(longer) \in Nat /\ H!Live' = H!Live
  BY DEF Longer, H!Live
<1>. SUFFICES ASSUME NEW q \in 1 .. l - 1
              PROVE  /\ /\ longer[q].id \in H!Live
                        /\ cells[longer[q].id].kind \in {"list", "string"}
                        => longer[q].id \in reach_bits'
                     /\ ListAt(longer[q].id) =>
                          \A i \in DOMAIN cells[longer[q].id].items :
                             Passed(l, q, i)' /\ IsRef(cells[longer[q].id].items[i])
                                => Queued(longer, q, i)
  BY <1>1 DEF Dealt, ListAt, Queued, IsRef
<1>2. ListAt(longer[q].id) => DOMAIN cells[longer[q].id].items \subseteq Nat
  <2>1. ListAt(longer[q].id) => cells[longer[q].id].items \in Seq(Value)
    BY CellsType DEF ListAt, HeapInv, Object, Plain, Dict, Closure
  <2>2. \A items \in Seq(Value) : DOMAIN items \subseteq Nat
    <3>. TAKE items \in Seq(Value)
    <3>1. DOMAIN items = 1 .. Len(items) /\ Len(items) \in Nat
      OBVIOUS
    <3>. QED  BY <3>1
  <2>. QED  BY <2>1, <2>2
<1>3. CASE q < k /\ \A i \in Nat : Passed(l, q, i)' /\ HasItem(longer[q].id, i)
            => Passed(k, q, i) \/ Queued(longer, q, i)
  <2>1. q \in 1 .. k - 1 /\ longer[q] = asked[q]
    BY <1>1, <1>3 DEF Longer
  <2>2. \A i : Queued(asked, q, i) => Queued(longer, q, i)
    BY <1>1, <2>1 DEF Queued, Longer
  <2>3. /\ /\ asked[q].id \in H!Live /\ cells[asked[q].id].kind \in {"list", "string"}
           => asked[q].id \in reach_bits
        /\ ListAt(asked[q].id) =>
              \A i \in DOMAIN cells[asked[q].id].items :
                  Passed(k, q, i) /\ IsRef(cells[asked[q].id].items[i]) => Queued(asked, q, i)
    BY <2>1 DEF Dealt
  <2>. QED  BY <1>2, <1>3, <2>1, <2>2, <2>3 DEF HasItem
<1>4. CASE ~(q < k /\ \A i \in Nat : Passed(l, q, i)' /\ HasItem(longer[q].id, i)
              => Passed(k, q, i) \/ Queued(longer, q, i))
  BY <1>2, <1>4 DEF HasItem
<1>. QED  BY <1>3, <1>4

(* Sizes that the history bounds.                                          *)
LEMMA HistoryFacts ==
    ASSUME NEW asked, NEW k, History(asked, k)
    PROVE  /\ asked \in Seq(Asked) /\ Len(asked) \in Nat /\ k \in Nat /\ k <= Len(asked)
           /\ Longer(asked, asked)
           /\ \A j \in 1 .. Len(asked) : asked[j] \in Asked
  BY DEF History, Trace, Longer

-----------------------------------------------------------------------------
(* The steps of a collection                                               *)

(* A step that leaves the queue alone leaves the history alone, as long as *)
(* all items of the list it leaves are queued.                             *)
LEMMA SameHistory ==
    ASSUME TypeInv, NEW asked, NEW k, History(asked, k),
           UNCHANGED <<cells, stack, next_ids>>, reach_bits \subseteq reach_bits',
           pc'.at \notin {"roots", "items"},
           pc.at = "roots" => pc.slot >= Len(stack) - 1,
           pc.at = "items" => pc.item > Len(cells[pc.list].items),
           Marked' => IdQueue!Exhausted(next_ids)
    PROVE  History(asked, k)'
<1>1. /\ asked \in Seq(Asked) /\ Len(asked) \in Nat /\ k \in Nat /\ k <= Len(asked)
      /\ Longer(asked, asked)
  BY HistoryFacts
<1>2. Trace(asked, k)'
  BY DEF History, Trace, Around, Entry, Asked, Ref
<1>3. Came(asked, k)'
  <2>1. Len(asked) + 1 .. Len(asked) = {}
    BY <1>1
  <2>. QED  BY <1>1, <2>1, GrowCame DEF History
<1>4. Dealt(asked, k)'
  <2>1. ASSUME NEW q \in 1 .. k - 1, NEW i \in Nat, HasItem(asked[q].id, i)
        PROVE  Passed(k, q, i)
    <3>1. CASE pc.at = "items" /\ q = k - 1
      <4>1. asked[q].id = pc.list
        BY <3>1 DEF History
      <4>2. /\ pc.item \in Nat /\ pc.list \in H!Live /\ cells[pc.list].kind = "list"
        BY <3>1 DEF TypeInv, PlaceInv, Places, AtWork
      <4>3. cells[pc.list].items \in Seq(Value)
        BY <4>2, CellsType DEF TypeInv, HeapInv, Object, Plain, Dict, Closure
      <4>. QED  BY <2>1, <3>1, <4>1, <4>2, <4>3 DEF HasItem, Passed
    <3>2. CASE ~(pc.at = "items" /\ q = k - 1)
      BY <3>2 DEF Passed
    <3>. QED  BY <3>1, <3>2
  <2>2. \A q \in 1 .. k - 1 : q < k
    BY <1>1
  <2>. QED  BY <1>1, <2>1, <2>2, GrowDealt DEF History, TypeInv
<1>5. RootsFirst(asked, k)'
  <2>1. Len(stack) \in Nat /\ Top' = Top
    BY StackTypes DEF TypeInv, Top, Last
  <2>2. Len(asked) >= Len(stack) - 1
    <3>1. CASE pc.at = "roots"
      BY <1>1, <2>1, <3>1 DEF History, RootsFirst
    <3>2. CASE pc.at # "roots"
      BY <1>1, <2>1, <3>2 DEF History, RootsFirst
    <3>. QED  BY <3>1, <3>2
  <2>. QED  BY <2>1, <2>2 DEF History, RootsFirst
<1>6. Marked' => k = Len(asked)
  <2>. SUFFICES ASSUME Marked' PROVE k = Len(asked)
    OBVIOUS
  <2>1. next_ids.head = next_ids.tail
    BY DEF IdQueue!Exhausted
  <2>. DEFINE waiting == Len(asked) - k
              h == next_ids.head
  <2>2. waiting \in Place /\ h \in Place /\ h = Around(h, waiting)
    BY <2>1 DEF History, Trace, TypeInv, MarksInv, Ring, Place
  <2>3. 0 \in Place
    BY Params DEF Place
  <2>. HIDE DEF waiting, h
  <2>4. waiting = 0
    <3>1. Around(h, 0) = h
      BY <2>2, <2>3, AroundFacts
    <3>. QED  BY <2>2, <2>3, <3>1, AroundFacts
  <2>. QED  BY <1>1, <2>4 DEF waiting
<1>. QED
  BY <1>2, <1>3, <1>4, <1>5, <1>6 DEF History, Ordered

(* What is queued adds an entry.                                           *)
LEMMA QueuedHistory ==
    ASSUME TypeInv, NEW asked, NEW k, History(asked, k), NEW entry \in Asked,
           next_ids' = IdQueue!Pushed(next_ids, entry.id),
           IdQueue!PushOk(next_ids, entry.id),
           UNCHANGED <<cells, stack, reach_bits>>,
           \/ /\ pc.at = "roots" /\ pc.slot < Len(stack) - 1
              /\ entry.id = Top /\ entry.from = 0
              /\ pc'.at = "roots" /\ pc'.slot = pc.slot + 1
           \/ /\ pc.at = "items" /\ HasItem(pc.list, pc.item)
              /\ entry = [id |-> cells[pc.list].items[pc.item], from |-> k - 1, item |-> pc.item]
              /\ pc'.at = "items" /\ pc'.list = pc.list /\ pc'.item = pc.item + 1
    PROVE  History(Append(asked, entry), k)'
<1>. DEFINE longer == Append(asked, entry)
<1>1. /\ asked \in Seq(Asked) /\ Len(asked) \in Nat /\ k \in Nat /\ k <= Len(asked)
      /\ \A j \in 1 .. Len(asked) : asked[j] \in Asked
  BY HistoryFacts
<1>2. Trace(longer, k)'
  BY PushTrace DEF History
<1>3. /\ Longer(asked, longer) /\ Len(longer) = Len(asked) + 1
      /\ longer[Len(asked) + 1] = entry
      /\ \A j \in 1 .. Len(asked) : longer[j] = asked[j]
  BY <1>1, AppendLonger DEF Longer
<1>. HIDE DEF longer
<1>4. pc.at = "items" =>
        /\ k > 1 /\ k - 1 \in 1 .. Len(asked) /\ asked[k - 1].id = pc.list
        /\ pc.item \in Nat
  BY <1>1 DEF History, TypeInv, PlaceInv, Places
<1>5. Came(longer, k)'
  <2>1. CameSo(longer, k, Len(asked) + 1)
    <3>1. CASE pc.at = "roots"
      BY <1>3, <3>1 DEF CameSo
    <3>2. CASE pc.at = "items"
      BY <1>1, <1>3, <1>4, <3>2 DEF CameSo, IsItem, HasItem
    <3>. QED  BY <3>1, <3>2
  <2>2. \A j \in Len(asked) + 1 .. Len(longer) : j = Len(asked) + 1
    BY <1>1, <1>3
  <2>. QED  BY <1>1, <1>3, <2>1, <2>2, GrowCame DEF History
<1>6. Dealt(longer, k)'
  <2>1. ASSUME NEW q \in 1 .. k - 1, NEW i \in Nat, Passed(k, q, i)'
        PROVE  Passed(k, q, i) \/ Queued(longer, q, i)
    <3>1. CASE pc.at = "items" /\ q = k - 1 /\ i = pc.item
      <4>1. longer[q].id = pc.list
        BY <1>3, <1>4, <3>1
      <4>2. Len(asked) + 1 \in 1 .. Len(longer)
        BY <1>1, <1>3
      <4>. QED  BY <1>3, <3>1, <4>1, <4>2 DEF Queued
    <3>2. CASE ~(pc.at = "items" /\ q = k - 1 /\ i = pc.item)
      BY <1>4, <2>1, <3>2 DEF Passed
    <3>. QED  BY <3>1, <3>2
  <2>2. \A q \in 1 .. k - 1 : q < k
    BY <1>1
  <2>3. k <= Len(longer) + 1 /\ k <= Len(asked) + 1
    BY <1>1, <1>3
  <2>. QED  BY <1>1, <1>3, <2>1, <2>2, <2>3, GrowDealt DEF History, TypeInv
<1>7. RootsFirst(longer, k)'
  <2>1. Len(stack) \in Nat /\ Top' = Top /\ Len(longer) \in Nat
    BY <1>1, <1>3, StackTypes DEF TypeInv, Top, Last
  <2>2. CASE pc.at = "roots"
    <3>1. pc.slot \in Nat /\ k = 0 /\ Len(asked) = pc.slot
      BY <2>2 DEF TypeInv, PlaceInv, Places, History, RootsFirst
    <3>2. \A j \in 1 .. Len(stack) - 1 : j <= Len(longer) =>
              longer[j].id = Top /\ longer[j].from = 0
      <4>. SUFFICES ASSUME NEW j \in 1 .. Len(stack) - 1, j <= Len(longer)
                    PROVE  longer[j].id = Top /\ longer[j].from = 0
        OBVIOUS
      <4>1. CASE j = Len(asked) + 1
        BY <1>3, <2>2, <4>1
      <4>2. CASE j # Len(asked) + 1
        <5>1. j \in 1 .. Len(asked) /\ j <= Len(asked)
          BY <1>1, <1>3, <2>1, <4>2
        <5>. QED  BY <1>3, <5>1 DEF History, RootsFirst
      <4>. QED  BY <4>1, <4>2
    <3>. QED  BY <1>3, <2>1, <2>2, <3>1, <3>2 DEF RootsFirst
  <2>3. CASE pc.at # "roots"
    <3>1. Len(asked) >= Len(stack) - 1
      BY <2>3 DEF History, RootsFirst
    <3>2. \A j \in 1 .. Len(stack) - 1 : longer[j].id = Top /\ longer[j].from = 0
      <4>. TAKE j \in 1 .. Len(stack) - 1
      <4>1. j \in 1 .. Len(asked) /\ j <= Len(asked)
        BY <1>1, <2>1, <3>1
      <4>. QED  BY <1>3, <4>1 DEF History, RootsFirst
    <3>3. pc'.at # "roots"
      BY <2>3
    <3>4. Len(longer) >= Len(stack) - 1
      BY <1>1, <1>3, <2>1, <3>1
    <3>. QED  BY <2>1, <3>2, <3>3, <3>4 DEF RootsFirst
  <2>. QED  BY <2>2, <2>3
<1>8. /\ pc'.at = "items" => k > 1 /\ longer[k - 1].id = pc'.list
      /\ ~Marked'
  BY <1>3, <1>4 DEF Marked
<1>9. Ordered(longer, k)
  <2>1. /\ entry.from \in Nat /\ (entry.from = 0 \/ entry.from < k)
        /\ \A j \in 1 .. Len(asked) : asked[j].from \in Nat /\ asked[j].from <= entry.from
    <3>1. CASE pc.at = "roots"
      <4>1. k = 0
        BY <3>1 DEF History, RootsFirst
      <4>2. \A j \in 1 .. Len(asked) : asked[j].from = 0 \/ asked[j].from < 0
        BY <1>1, <4>1 DEF History, Ordered
      <4>3. \A j \in 1 .. Len(asked) : asked[j].from \in Nat
        BY <1>1 DEF Asked
      <4>. QED  BY <3>1, <4>2, <4>3
    <3>2. CASE pc.at = "items"
      <4>1. entry.from = k - 1 /\ k > 1
        BY <1>4, <3>2
      <4>2. \A j \in 1 .. Len(asked) : asked[j].from = 0 \/ asked[j].from < k
        BY <1>1 DEF History, Ordered
      <4>3. \A j \in 1 .. Len(asked) : asked[j].from \in Nat
        BY <1>1 DEF Asked
      <4>. QED  BY <1>1, <4>1, <4>2, <4>3
    <3>. QED  BY <3>1, <3>2
  <2>. SUFFICES ASSUME NEW j \in 1 .. Len(longer)
                PROVE  /\ longer[j].from = 0 \/ longer[j].from < k
                       /\ \A i \in 1 .. j : longer[i].from <= longer[j].from
    BY DEF Ordered
  <2>2. CASE j = Len(asked) + 1
    <3>1. \A i \in 1 .. j : i = j \/ i \in 1 .. Len(asked)
      BY <1>1, <2>2
    <3>2. entry.from <= entry.from
      BY <2>1
    <3>. QED  BY <1>3, <2>1, <2>2, <3>1, <3>2
  <2>3. CASE j # Len(asked) + 1
    <3>1. j \in 1 .. Len(asked) /\ \A i \in 1 .. j : i \in 1 .. Len(asked)
      BY <1>1, <1>3, <2>3
    <3>. QED  BY <1>3, <3>1 DEF History, Ordered
  <2>. QED  BY <2>2, <2>3
<1>10. History(longer, k)'
  BY <1>2, <1>5, <1>6, <1>7, <1>8, <1>9 DEF History, Ordered
<1>. QED  BY <1>10 DEF longer

(* An item that is no reference is passed.                                 *)
LEMMA SkippedHistory ==
    ASSUME TypeInv, NEW asked, NEW k, History(asked, k),
           UNCHANGED <<cells, stack, reach_bits, next_ids>>,
           pc.at = "items", ~HasItem(pc.list, pc.item),
           pc'.at = "items", pc'.list = pc.list, pc'.item = pc.item + 1
    PROVE  History(asked, k)'
<1>1. /\ asked \in Seq(Asked) /\ Len(asked) \in Nat /\ k \in Nat /\ k <= Len(asked)
      /\ Longer(asked, asked)
  BY HistoryFacts
<1>2. Trace(asked, k)'
  BY DEF History, Trace, Around, Entry, Asked, Ref
<1>3. Came(asked, k)'
  <2>1. Len(asked) + 1 .. Len(asked) = {}
    BY <1>1
  <2>. QED  BY <1>1, <2>1, GrowCame DEF History
<1>4. pc.item \in Nat /\ k > 1 /\ asked[k - 1].id = pc.list
  BY DEF History, TypeInv, PlaceInv, Places
<1>5. Dealt(asked, k)'
  <2>1. ASSUME NEW q \in 1 .. k - 1, NEW i \in Nat, Passed(k, q, i)', HasItem(asked[q].id, i)
        PROVE  Passed(k, q, i)
    <3>1. CASE q = k - 1
      <4>1. i < pc.item + 1 /\ i # pc.item
        BY <1>4, <2>1, <3>1 DEF Passed
      <4>. QED  BY <1>4, <4>1 DEF Passed
    <3>2. CASE q # k - 1
      BY <3>2 DEF Passed
    <3>. QED  BY <3>1, <3>2
  <2>2. \A q \in 1 .. k - 1 : q < k
    BY <1>1
  <2>3. \A q \in 1 .. k - 1 : \A i \in Nat :
            Passed(k, q, i)' /\ HasItem(asked[q].id, i) => Passed(k, q, i)
    BY <2>1
  <2>4. Dealt(asked, k) /\ HeapInv /\ k <= Len(asked) + 1 /\ reach_bits \subseteq reach_bits'
    BY <1>1 DEF History, TypeInv
  <2>. HIDE DEF Passed, HasItem
  <2>. QED  BY <1>1, <2>2, <2>3, <2>4, GrowDealt
<1>6. RootsFirst(asked, k)' /\ ~Marked'
  <2>1. Top' = Top /\ pc'.at # "roots"
    BY DEF Top, Last
  <2>. QED  BY <2>1 DEF History, RootsFirst, Marked
<1>. QED
  BY <1>2, <1>3, <1>4, <1>5, <1>6 DEF History, Ordered

(* An id is its own position in the bit set.                               *)
LEMMA OwnPosition == \A id \in H!Ids : id % 65536 = id
<1>1. \A width \in Nat : \A n \in 0 .. width - 1 : n % width = n
  OBVIOUS
<1>2. CellCapacity <= 65536 /\ CellCapacity \in Nat
  BY Params
<1>. DEFINE width == 65536
<1>3. width \in Nat /\ CellCapacity <= width
  BY <1>2
<1>. HIDE DEF width
<1>4. \A id \in H!Ids : id \in 0 .. width - 1
  BY <1>2, <1>3, SameHeap
<1>5. \A id \in H!Ids : id % width = id
  BY <1>1, <1>3, <1>4
<1>. QED  BY <1>5 DEF width

(* What is handed out is marked, and its items are looked at next.         *)
LEMMA HandedHistory ==
    ASSUME TypeInv, MarkNext, NEW asked, NEW k, History(asked, k)
    PROVE  History(asked, k + 1)'
<1>. DEFINE oid == IdQueue!PopValue(next_ids)
            object == H!heap_get(oid)
            kind == IF object = NULL THEN "none" ELSE object.kind
<1>1. /\ asked \in Seq(Asked) /\ Len(asked) \in Nat /\ k \in Nat /\ k <= Len(asked)
      /\ Longer(asked, asked) /\ \A j \in 1 .. Len(asked) : asked[j] \in Asked
  BY HistoryFacts
<1>2. /\ pc = [at |-> "mark"] /\ ~crashed /\ UNCHANGED <<cells, stack>>
  BY DEF MarkNext, TypeInv, PlaceInv, Places, vm_vars
<1>3. Trace(asked, k + 1)' /\ k < Len(asked) /\ oid = Entry(asked, k)
  BY PopTrace DEF History, MarkNext
<1>4. k = 0 => object = NULL
  <2>1. -1 \notin H!Live
    BY SameHeap, CellsType DEF TypeInv, HeapInv
  <2>. QED  BY <1>3, <2>1, Got DEF Entry, TypeInv, HeapInv
<1>5. k # 0 => oid = asked[k].id /\ oid \in Ref /\ k \in 1 .. Len(asked)
  BY <1>1, <1>3 DEF Entry, Asked
<1>6. k # 0 /\ oid \in H!Live => object = cells[oid] /\ object # NULL /\ oid % 65536 = oid
  <2>. SUFFICES ASSUME oid \in H!Live PROVE object = cells[oid] /\ object # NULL /\ oid % 65536 = oid
    OBVIOUS
  <2>1. oid \in 0 .. next_cell_id - 1 /\ oid \in H!Ids /\ cells[oid] # NULL
    BY LiveBelowNext DEF H!Live
  <2>2. object = cells[oid]
    BY <2>1 DEF H!heap_get
  <2>. HIDE DEF oid, object
  <2>3. oid % 65536 = oid
    BY <2>1, OwnPosition
  <2>. QED  BY <2>1, <2>2, <2>3
<1>7. /\ reach_bits \subseteq reach_bits'
      /\ kind \in {"list", "string"} => oid % 65536 \in reach_bits'
  BY DEF MarkNext, SetBits, NoBits
<1>8. /\ kind = "list" => pc' = [at |-> "items", list |-> oid, item |-> 1]
      /\ kind # "list" => pc'.at \in {"mark", "nodes"}
  BY <1>2 DEF MarkNext
<1>. HIDE DEF oid, object, kind
<1>9. Came(asked, k + 1)'
  <2>1. Len(asked) + 1 .. Len(asked) = {}
    BY <1>1
  <2>. QED  BY <1>1, <1>2, <2>1, GrowCame DEF History
<1>10. Dealt(asked, k + 1)'
  <2>1. ASSUME NEW q \in 1 .. k, q # k, NEW i \in Nat
        PROVE  q < k /\ Passed(k, q, i)
    BY <1>1, <1>2, <2>1 DEF Passed
  <2>2. ASSUME NEW q \in 1 .. k, q = k, NEW i \in Nat, Passed(k + 1, q, i)'
        PROVE  ~HasItem(asked[q].id, i)
    <3>. SUFFICES ASSUME HasItem(asked[q].id, i) PROVE FALSE
      OBVIOUS
    <3>1. k # 0 /\ oid \in H!Live /\ cells[oid].kind = "list" /\ i \in DOMAIN cells[oid].items
      BY <1>1, <1>5, <2>2 DEF HasItem, ListAt
    <3>2. pc'.at = "items" /\ pc'.item = 1
      BY <1>6, <1>8, <3>1 DEF kind
    <3>3. cells[oid].items \in Seq(Value)
      BY <3>1, CellsType DEF TypeInv, HeapInv, Object, Plain, Dict, Closure
    <3>4. i < 1
      BY <1>1, <2>2, <3>2 DEF Passed
    <3>. QED  BY <3>1, <3>3, <3>4
  <2>3. ASSUME NEW q \in 1 .. k, q = k, asked[q].id \in H!Live,
               cells[asked[q].id].kind \in {"list", "string"}
        PROVE  asked[q].id \in reach_bits'
    <3>1. k # 0 /\ oid = asked[q].id
      BY <1>1, <1>5, <2>3
    <3>2. oid % 65536 \in reach_bits' /\ oid % 65536 = oid
      BY <1>6, <1>7, <2>3, <3>1 DEF kind
    <3>. QED  BY <3>1, <3>2
  <2>4. /\ k + 1 <= Len(asked) + 1 /\ k <= Len(asked) + 1 /\ (k + 1) - 1 = k /\ k + 1 \in Nat
    BY <1>1
  <2>. QED  BY <1>1, <1>2, <1>7, <2>1, <2>2, <2>3, <2>4, GrowDealt DEF History, TypeInv
<1>11. RootsFirst(asked, k + 1)'
  <2>1. Top' = Top /\ pc'.at # "roots" /\ pc.at # "roots"
    BY <1>2, <1>8 DEF Top, Last
  <2>. QED  BY <1>2, <2>1 DEF History, RootsFirst
<1>12. pc'.at = "items" => k + 1 > 1 /\ asked[(k + 1) - 1].id = pc'.list
  BY <1>1, <1>4, <1>5, <1>8 DEF kind
<1>13. ~Marked'
  BY <1>8 DEF Marked
<1>14. Ordered(asked, k + 1)
  <2>1. \A j \in 1 .. Len(asked) : asked[j].from \in Nat
    BY <1>1 DEF Asked
  <2>. QED  BY <1>1, <2>1 DEF History, Ordered
<1>. QED
  BY <1>3, <1>9, <1>10, <1>11, <1>12, <1>13, <1>14 DEF History, Ordered

(* A collection starts with nothing queued.                                *)
LEMMA FreshHistory ==
    ASSUME TypeInv, next_ids' = IdQueue!New, pc' = [at |-> "roots", slot |-> 0]
    PROVE  History(<< >>, 0)'
<1>1. Around(0, 0) = 0 /\ 0 \in Place
  BY AroundFacts, Params DEF Place
<1>2. /\ next_ids'.head = 0 /\ next_ids'.tail = 0 /\ next_ids'.items[0] = -1
  BY <1>1, SameHeap DEF IdQueue!New, Place
<1>3. Trace(<< >>, 0)'
  <2>1. /\ Len(<< >>) - 0 = 0 /\ 0 .. 0 = {0} /\ 0 + 0 = 0 /\ Entry(<< >>, 0)' = -1
    BY DEF Entry
  <2>2. << >> \in Seq(Asked)' /\ (0 .. HeapPopMax - 1)' = Place
    BY DEF Place
  <2>3. \A j \in 0 .. 0 : j = 0
    OBVIOUS
  <2>. QED  BY <1>1, <1>2, <2>1, <2>2, <2>3 DEF Trace, Around, Place
<1>. QED
  BY <1>3 DEF History, Came, Dealt, RootsFirst, Ordered, Marked

-----------------------------------------------------------------------------
(* Every step preserves the history                                        *)

InHistory == pc.at \in {"roots", "mark", "items", "nodes"} \/ Marked

(* The invariant after a step, from a history of the state it leads to.    *)
LEMMA MarkStepComplete ==
    ASSUME CompleteInv, InHistory, Top' = Top,
           ~dropped' => ~dropped,
           pc'.at \in {"run", "roots"} => ~dropped',
           \A asked, k : ~dropped' /\ IsRef(Top) /\ History(asked, k)
                => \E longer, l : History(longer, l)'
    PROVE  CompleteInv'
<1>. SUFFICES ASSUME ~dropped', IsRef(Top)
              PROVE  \E asked, k : History(asked, k)'
  BY DEF CompleteInv, IsRef
<1>1. PICK asked, k : History(asked, k)
  BY DEF CompleteInv, InHistory
<1>. QED  BY <1>1

(* The loop over the stack keeps the history.                              *)
LEMMA RootsComplete ==
    ASSUME TypeInv, CompleteInv, RootNext \/ RootsDone
    PROVE  CompleteInv'
<1>1. /\ pc \in [at : {"roots"}, slot : Nat] /\ pc.at = "roots" /\ InHistory /\ ~dropped
      /\ UNCHANGED <<cells, stack, reach_bits>> /\ Mark.at = "mark" /\ Top' = Top
  BY DEF RootNext, RootsDone, TypeInv, PlaceInv, Places, CompleteInv, InHistory, heap_vars,
         vm_vars, gc_vars, Mark, Top, Last
<1>2. CASE RootNext
  <2>1. CASE IsRef(Top) /\ ~IdQueue!PushOk(next_ids, Top)
    <3>1. dropped' /\ pc' = Mark
      BY <1>2, <2>1 DEF RootNext
    <3>. QED  BY <1>1, <3>1 DEF CompleteInv
  <2>2. CASE IsRef(Top) /\ IdQueue!PushOk(next_ids, Top)
    <3>1. /\ ~dropped' /\ pc' = [pc EXCEPT !.slot = @ + 1]
          /\ next_ids' = IdQueue!Pushed(next_ids, Top) /\ pc.slot < Len(stack) - 1
      BY <1>2, <2>2 DEF RootNext
    <3>2. Top \in Ref
      BY <2>2, StackTypes DEF TypeInv, IsRef, Value
    <3>3. PICK entry \in Asked : entry = [id |-> Top, from |-> 0, item |-> 0]
      BY <3>2 DEF Asked
    <3>4. entry.id = Top /\ entry.from = 0
      BY <3>3
    <3>5. pc'.at = "roots" /\ pc'.slot = pc.slot + 1
      BY <1>1, <3>1
    <3>6. ASSUME NEW asked, NEW k, History(asked, k)
          PROVE  History(Append(asked, entry), k)'
      BY <1>1, <2>2, <3>1, <3>4, <3>5, <3>6, QueuedHistory
    <3>. QED  BY <1>1, <3>1, <3>6, MarkStepComplete
  <2>3. CASE ~IsRef(Top)
    <3>1. ~dropped'
      BY <1>2, <2>3 DEF RootNext
    <3>. QED  BY <1>1, <2>3, <3>1 DEF CompleteInv, IsRef
  <2>. QED  BY <2>1, <2>2, <2>3
<1>3. CASE RootsDone
  <2>1. /\ pc' = Mark /\ pc.slot >= Len(stack) - 1 /\ UNCHANGED <<next_ids, dropped>>
        /\ ~Marked'
    BY <1>1, <1>3 DEF RootsDone, gc_vars, Marked
  <2>2. ASSUME NEW asked, NEW k, History(asked, k) PROVE History(asked, k)'
    BY <1>1, <2>1, <2>2, SameHistory
  <2>. QED  BY <1>1, <2>1, <2>2, MarkStepComplete
<1>. QED  BY <1>2, <1>3

(* So does the loop over items.                                            *)
LEMMA ItemsComplete ==
    ASSUME TypeInv, CompleteInv, QueueItem \/ ItemsDone
    PROVE  CompleteInv'
<1>1. /\ pc \in [at : {"items"}, list : H!Ids, item : Nat \ {0}] /\ pc.at = "items"
      /\ pc.list \in H!Live /\ cells[pc.list].kind = "list" /\ InHistory
      /\ UNCHANGED <<cells, stack, reach_bits>> /\ Mark.at = "mark" /\ Top' = Top
  BY DEF QueueItem, ItemsDone, TypeInv, PlaceInv, AtWork, Places, InHistory, heap_vars,
         vm_vars, gc_vars, Mark, Top, Last
<1>2. cells[pc.list].items \in Seq(Value)
  BY <1>1, CellsType DEF TypeInv, HeapInv, Object, Plain, Dict, Closure
<1>3. CASE QueueItem
  <2>. DEFINE v == cells[pc.list].items[pc.item]
  <2>1. /\ pc.item \in DOMAIN cells[pc.list].items /\ v \in Value
        /\ HasItem(pc.list, pc.item) <=> IsRef(v)
    BY <1>1, <1>2, <1>3 DEF QueueItem, LastItem, HasItem, ListAt
  <2>2. /\ pc' = [pc EXCEPT !.item = @ + 1]
        /\ dropped' = (dropped \/ (IsRef(v) /\ ~IdQueue!PushOk(next_ids, v)))
        /\ next_ids' = IF IsRef(v) THEN IdQueue!Pushed(next_ids, v) ELSE next_ids
    BY <1>3 DEF QueueItem
  <2>3. pc'.at = "items" /\ pc'.list = pc.list /\ pc'.item = pc.item + 1
    BY <1>1, <2>2
  <2>. HIDE DEF v
  <2>4. CASE IsRef(v) /\ IdQueue!PushOk(next_ids, v)
    <3>1. v \in Ref
      BY <2>1, <2>4 DEF IsRef, Value
    <3>2. ASSUME NEW asked, NEW k, History(asked, k)
          PROVE  \E longer : History(longer, k)'
      <4>1. k - 1 \in Nat
        BY <1>1, <3>2, HistoryFacts DEF History
      <4>2. PICK entry \in Asked : entry = [id |-> v, from |-> k - 1, item |-> pc.item]
        BY <1>1, <3>1, <4>1 DEF Asked
      <4>3. /\ entry.id = v
            /\ entry = [id |-> cells[pc.list].items[pc.item], from |-> k - 1, item |-> pc.item]
        BY <4>2 DEF v
      <4>4. History(Append(asked, entry), k)'
        BY <1>1, <2>1, <2>2, <2>3, <2>4, <3>2, <4>3, QueuedHistory
      <4>. QED  BY <4>4
    <3>. QED  BY <1>1, <2>2, <2>3, <3>2, MarkStepComplete
  <2>5. CASE IsRef(v) /\ ~IdQueue!PushOk(next_ids, v)
    <3>1. dropped'
      BY <2>2, <2>5
    <3>. QED  BY <2>3, <3>1 DEF CompleteInv
  <2>6. CASE ~IsRef(v)
    <3>1. ASSUME NEW asked, NEW k, History(asked, k) PROVE History(asked, k)'
      BY <1>1, <2>1, <2>2, <2>3, <2>6, <3>1, SkippedHistory
    <3>2. ~dropped' => ~dropped
      BY <2>2
    <3>. QED  BY <1>1, <2>3, <3>1, <3>2, MarkStepComplete
  <2>. QED  BY <2>4, <2>5, <2>6
<1>4. CASE ItemsDone
  <2>1. /\ pc' = Mark /\ pc.item > Len(cells[pc.list].items)
        /\ UNCHANGED <<next_ids, dropped>> /\ ~Marked'
    BY <1>1, <1>4 DEF ItemsDone, LastItem, gc_vars, Marked
  <2>2. ASSUME NEW asked, NEW k, History(asked, k) PROVE History(asked, k)'
    BY <1>1, <2>1, <2>2, SameHistory
  <2>. QED  BY <1>1, <2>1, <2>2, MarkStepComplete
<1>. QED  BY <1>3, <1>4

(* The walk over a dict's nodes ends in the marking loop.                  *)
LEMMA NodesStay ==
    ASSUME TypeInv, MarkNode \/ NodesDone
    PROVE  pc'.at \in {"mark", "nodes"}
<1>1. CASE MarkNode
  <2>1. pc \in [at : {"nodes"}, dict : H!Ids, queue : Ring(CellCapacity, Nat)]
    <3>1. pc.at = "nodes"
      BY <1>1 DEF MarkNode
    <3>2. pc \in Places
      BY DEF TypeInv, PlaceInv
    <3>. QED  BY <3>1, <3>2, SMTT(30) DEF Places
  <2>2. PICK q : pc' = [pc EXCEPT !.queue = q]
    BY <1>1, Zenon DEF MarkNode
  <2>. QED  BY <2>1, <2>2
<1>2. CASE NodesDone
  BY <1>2 DEF NodesDone, Mark
<1>. QED  BY <1>1, <1>2

(* So does the marking loop.                                               *)
LEMMA MarksComplete ==
    ASSUME TypeInv, CompleteInv, MarkNext \/ MarkNode \/ NodesDone \/ MarkDone
    PROVE  CompleteInv'
<1>1. /\ pc.at \in {"mark", "nodes"} /\ InHistory
      /\ UNCHANGED <<cells, stack, dropped>> /\ Top' = Top
      /\ reach_bits \subseteq reach_bits'
  <2>1. pc.at \in {"mark", "nodes"} /\ UNCHANGED <<cells, stack, dropped>>
    BY DEF MarkNext, MarkNode, NodesDone, MarkDone, heap_vars, vm_vars, gc_vars
  <2>2. reach_bits \subseteq reach_bits'
    <3>1. CASE MarkNext
      BY <3>1 DEF MarkNext, SetBits, NoBits
    <3>2. CASE MarkNode
      <4>. DEFINE nodes == cells[pc.dict].nodes
                  n == PtrQueue!PopValue(pc.queue)
      <4>1. CASE n # 0 /\ IsRef(nodes[n].data)
        <5>1. SetBits({nodes[n].data})
          BY <3>2, <4>1, Zenon DEF MarkNode
        <5>. QED  BY <5>1 DEF SetBits
      <4>2. CASE ~(n # 0 /\ IsRef(nodes[n].data))
        BY <3>2, <4>2 DEF MarkNode, NoBits
      <4>. QED  BY <4>1, <4>2
    <3>3. CASE NodesDone \/ MarkDone
      BY <3>3 DEF NodesDone, MarkDone, gc_vars
    <3>. QED  BY <3>1, <3>2, <3>3
  <2>. QED  BY <2>1, <2>2 DEF InHistory, Top, Last
<1>2. CASE MarkNext
  <2>1. pc'.at \in {"mark", "items", "nodes"}
    BY <1>2 DEF MarkNext
  <2>2. ASSUME NEW asked, NEW k, History(asked, k) PROVE \E longer, l : History(longer, l)'
    <3>1. History(asked, k + 1)'
      BY <1>2, <2>2, HandedHistory
    <3>2. PICK l : l = k + 1
      OBVIOUS
    <3>. QED  BY <3>1, <3>2
  <2>. QED  BY <1>1, <2>1, <2>2, MarkStepComplete
<1>3. CASE MarkNode \/ NodesDone \/ MarkDone
  <2>1. pc'.at \in {"mark", "nodes", "sweep"} /\ next_ids' = next_ids
    <3>1. CASE MarkNode
      BY <3>1, NodesStay DEF MarkNode
    <3>2. CASE NodesDone \/ MarkDone
      BY <1>1, <3>2 DEF NodesDone, MarkDone, gc_vars, Mark
    <3>. QED  BY <1>3, <3>1, <3>2
  <2>2. Marked' => IdQueue!Exhausted(next_ids)
    <3>1. CASE MarkDone
      BY <3>1 DEF MarkDone
    <3>2. CASE MarkNode \/ NodesDone
      <4>1. pc'.at \in {"mark", "nodes"}
        BY <1>1, <2>1, <3>2, NodesStay
      <4>. QED  BY <4>1 DEF Marked
    <3>. QED  BY <1>3, <3>1, <3>2
  <2>3. ASSUME NEW asked, NEW k, History(asked, k) PROVE History(asked, k)'
    BY <1>1, <2>1, <2>2, <2>3, SameHistory
  <2>. QED  BY <1>1, <2>1, <2>3, MarkStepComplete
<1>. QED  BY <1>2, <1>3

(* Every step keeps the history that the invariant speaks of.              *)
LEMMA NextCompleteInv == TypeInv /\ SoundInv /\ CompleteInv /\ [Next]_vars => CompleteInv'
<1>. SUFFICES ASSUME TypeInv, SoundInv, CompleteInv, [Next]_vars PROVE CompleteInv'
  OBVIOUS
<1>1. ASSUME Handler PROVE CompleteInv'
  <2>1. pc = Run
    BY <1>1 DEF Handler, PushPrim, Pop, LoadErrRef, GetIdx, SetIdx, LoadLocal, StoreLocal,
                MkString, MkIter, CutList, RaiseErr, MkDict, MkList, MkClosure,
                CollectThenMake, Running
  <2>2. UNCHANGED gc_vars
    BY <1>1 DEF Handler, PushPrim, Pop, LoadErrRef, GetIdx, SetIdx, LoadLocal, StoreLocal,
                MkString, MkIter, CutList, RaiseErr, MkDict, MkList, MkClosure,
                CollectThenMake, Stacked
  <2>3. pc' \in {pc, [at |-> "roots", slot |-> 0]}
    BY <1>1 DEF Handler, PushPrim, Pop, LoadErrRef, GetIdx, SetIdx, LoadLocal, StoreLocal,
                MkString, MkIter, CutList, RaiseErr, MkDict, MkList, MkClosure,
                CollectThenMake, Stacked
  <2>4. next_ids' = IdQueue!New /\ dropped' = dropped /\ ~dropped
    BY <2>1, <2>2 DEF SoundInv, CompleteInv, gc_vars, Run
  <2>5. CASE pc' = [at |-> "roots", slot |-> 0]
    <3>1. History(<< >>, 0)'
      BY <2>4, <2>5, FreshHistory
    <3>. QED  BY <2>4, <3>1 DEF CompleteInv
  <2>6. CASE pc' = pc
    BY <2>1, <2>4, <2>6 DEF CompleteInv, Run, Marked
  <2>. QED  BY <2>3, <2>5, <2>6
<1>2. CASE SweepNext
  <2>1. /\ pc \in [at : {"sweep"}, slot : 0 .. BitCapacity]
        /\ pc' = [pc EXCEPT !.slot = @ + 1]
    BY <1>2 DEF SweepNext, TypeInv, PlaceInv, Places, Run
  <2>2. pc'.at = "sweep" /\ pc'.slot = pc.slot + 1 /\ pc.slot \in Nat
    BY <2>1, Params
  <2>. QED  BY <2>2 DEF CompleteInv, Marked, SweepStart
<1>3. CASE Finish
  <2>1. pc' = Run /\ ~dropped'
    BY <1>3 DEF Finish, Resume
  <2>. QED  BY <2>1 DEF CompleteInv, Run, Marked
<1>4. CASE UNCHANGED vars
  <2>1. UNCHANGED <<cells, stack, pc, next_ids, reach_bits, dropped>> /\ Top' = Top
    BY <1>4 DEF vars, heap_vars, vm_vars, gc_vars, Top, Last
  <2>2. ASSUME NEW asked, NEW k, History(asked, k) PROVE History(asked, k)'
    <3>1. Trace(asked, k)'
      BY <2>1, <2>2 DEF History, Trace, Around, Entry, Asked, Ref
    <3>2. Came(asked, k)' /\ Dealt(asked, k)'
      BY <2>1, <2>2 DEF History, Came, Dealt, IsItem, ListAt, H!Live, Passed, Queued, IsRef
    <3>3. RootsFirst(asked, k)' /\ Ordered(asked, k)'
      BY <2>1, <2>2 DEF History, RootsFirst, Ordered
    <3>. QED  BY <2>1, <2>2, <3>1, <3>2, <3>3 DEF History, Marked
  <2>3. Marked' <=> Marked
    BY <2>1 DEF Marked
  <2>. QED  BY <2>1, <2>2, <2>3 DEF CompleteInv, IsRef
<1>. QED
  BY <1>1, <1>2, <1>3, <1>4, RootsComplete, ItemsComplete, MarksComplete
  DEF Next, CollectorStep

-----------------------------------------------------------------------------
(* A set of numbers has a least one.                                       *)
LEMMA LeastNumber ==
    ASSUME NEW S, S \subseteq Nat, S # {}
    PROVE  \E least \in S : \A n \in S : least <= n
<1>. DEFINE Less == OpToRel(<, Nat)
<1>1. \E x \in S : \A y \in S : <<y, x>> \notin Less
  BY NatLessThanWellFounded, WFMin
<1>2. \A x, y \in Nat : <<y, x>> \in Less <=> y < x
  BY DEF OpToRel
<1>. HIDE DEF Less
<1>3. PICK x \in S : \A y \in S : <<y, x>> \notin Less
  BY <1>1
<1>4. ASSUME NEW y \in S PROVE x <= y
  <2>1. x \in Nat /\ y \in Nat /\ ~(y < x)
    BY <1>2, <1>3
  <2>. QED  BY <2>1
<1>. QED  BY <1>4

(* What the history says when the queue has run out                        *)

(* Entry i asks for the same id and was queued before j was handed out.    *)
Twin(asked, j, i) ==
    /\ i \in 1 .. Len(asked) /\ i # j /\ asked[i].id = asked[j].id
    /\ \A m \in 1 .. Len(asked) : asked[m].from >= j => m > i

(* Every entry of the history has another one for the same object, queued  *)
(* in time, so that the one id the queue loses is marked through its twin. *)
LEMMA EveryTwin ==
    ASSUME TypeInv, Marked, Len(stack) > 2, IsRef(Top),
           NEW asked, NEW k, History(asked, k)
    PROVE  \A j \in 1 .. Len(asked) : \E i : Twin(asked, j, i)
<1>1. /\ asked \in Seq(Asked) /\ Len(asked) \in Nat /\ k = Len(asked)
      /\ \A j \in 1 .. Len(asked) : asked[j] \in Asked /\ asked[j].from \in Nat
  BY HistoryFacts DEF History, Asked
<1>2. /\ 1 \in 1 .. Len(asked) /\ 2 \in 1 .. Len(asked)
      /\ asked[1].id = Top /\ asked[2].id = Top
      /\ asked[1].from = 0 /\ asked[2].from = 0
  <2>1. Len(stack) \in Nat /\ Len(asked) >= Len(stack) - 1
    BY StackTypes DEF TypeInv, Marked, History, RootsFirst
  <2>2. 1 \in 1 .. Len(stack) - 1 /\ 2 \in 1 .. Len(stack) - 1
    BY <2>1
  <2>3. 1 <= Len(asked) /\ 2 <= Len(asked)
    BY <1>1, <2>1
  <2>. QED  BY <1>1, <2>2, <2>3 DEF History, RootsFirst
<1>3. \A m, i \in 1 .. Len(asked) : asked[i].from < asked[m].from => m > i
  <2>. SUFFICES ASSUME NEW m \in 1 .. Len(asked), NEW i \in 1 .. Len(asked),
                       asked[i].from < asked[m].from, ~(m > i)
                PROVE  FALSE
    OBVIOUS
  <2>1. m \in 1 .. i
    BY <1>1
  <2>2. asked[m].from <= asked[i].from
    BY <1>1, <2>1 DEF History, Ordered
  <2>. QED  BY <1>1, <2>2
<1>4. ASSUME NEW j \in 1 .. Len(asked), \A q \in 1 .. j - 1 : \E i : Twin(asked, q, i)
      PROVE  \E i : Twin(asked, j, i)
  <2>1. CASE asked[j].id = Top /\ j = 1
    <3>1. \A m \in 1 .. Len(asked) : asked[m].from >= 1 => m > 2
      BY <1>1, <1>2, <1>3
    <3>. QED  BY <1>2, <2>1, <3>1 DEF Twin
  <2>2. CASE asked[j].id = Top /\ j # 1
    <3>1. \A m \in 1 .. Len(asked) : asked[m].from >= j => m > 1
      BY <1>1, <1>2, <1>3, <2>2
    <3>. QED  BY <1>2, <2>2, <3>1 DEF Twin
  <2>3. CASE asked[j].id # Top
    <3>. DEFINE q == asked[j].from
                list == asked[q].id
                n == asked[j].item
    <3>1. /\ q \in 1 .. k - 1 /\ q < j /\ ListAt(list) /\ n \in DOMAIN cells[list].items
          /\ asked[j].id = cells[list].items[n]
      BY <2>3 DEF History, Came, IsItem
    <3>. HIDE DEF q, list, n
    <3>2. PICK p : Twin(asked, q, p)
      <4>1. q \in 1 .. j - 1
        BY <1>1, <3>1
      <4>. QED  BY <1>4, <4>1
    <3>3. p \in 1 .. Len(asked) /\ p # q /\ asked[p].id = list /\ j > p
      BY <1>1, <3>1, <3>2 DEF Twin, list, q
    <3>4. p \in 1 .. k - 1
      BY <1>1, <3>3
    <3>5. IsRef(asked[j].id)
      BY <1>1, Params DEF Asked, Ref, IsRef
    <3>6. Passed(k, p, n)
      BY DEF Passed, Marked
    <3>7. Queued(asked, p, n)
      <4>1. Dealt(asked, k)
        BY DEF History
      <4>. QED  BY <3>1, <3>3, <3>4, <3>5, <3>6, <4>1 DEF Dealt
    <3>8. PICK i \in 1 .. Len(asked) : asked[i].from = p /\ asked[i].id = asked[j].id
      BY <3>1, <3>3, <3>7 DEF Queued
    <3>9. i # j
      BY <3>3, <3>8 DEF q
    <3>10. \A m \in 1 .. Len(asked) : asked[m].from >= j => m > i
      BY <1>1, <1>3, <3>3, <3>8
    <3>. QED  BY <3>8, <3>9, <3>10 DEF Twin
  <2>. QED  BY <2>1, <2>2, <2>3
<1>. SUFFICES ASSUME NEW bad \in 1 .. Len(asked), ~\E i : Twin(asked, bad, i)
              PROVE  FALSE
  OBVIOUS
<1>. DEFINE Bad == {j \in 1 .. Len(asked) : ~\E i : Twin(asked, j, i)}
<1>5. PICK j \in Bad : \A q \in Bad : j <= q
  <2>1. Bad \subseteq Nat /\ bad \in Bad
    BY <1>1
  <2>. HIDE DEF Bad
  <2>. QED  BY <2>1, LeastNumber
<1>6. \A q \in 1 .. j - 1 : \E i : Twin(asked, q, i)
  <2>. TAKE q \in 1 .. j - 1
  <2>1. q \in 1 .. Len(asked) /\ ~(j <= q)
    BY <1>1
  <2>. QED  BY <1>5, <2>1
<1>. QED  BY <1>4, <1>6

(* Every list that was handed out or asked for was handed out; so what was *)
(* asked for is all that the top of the stack reaches through lists.       *)
LEMMA AllHanded ==
    ASSUME TypeInv, Marked, Len(stack) > 2, IsRef(Top),
           NEW asked, NEW k, History(asked, k)
    PROVE  \A id \in ReachBy({"list"}, {Top}) :
              \E q \in 1 .. k - 1 : asked[q].id = id
<1>1. /\ asked \in Seq(Asked) /\ Len(asked) \in Nat /\ k = Len(asked)
      /\ \A j \in 1 .. Len(asked) : asked[j].id \in Ref /\ asked[j].from \in Nat
  BY HistoryFacts DEF History, Asked
<1>2. \A j \in 1 .. Len(asked) : \E q \in 1 .. k - 1 : asked[q].id = asked[j].id
  <2>. TAKE j \in 1 .. Len(asked)
  <2>1. CASE j = k
    <3>1. PICK i : Twin(asked, j, i)
      BY EveryTwin
    <3>2. i \in 1 .. k - 1 /\ asked[i].id = asked[j].id
      BY <1>1, <2>1, <3>1 DEF Twin
    <3>. QED  BY <3>2
  <2>2. CASE j # k
    <3>1. j \in 1 .. k - 1
      BY <1>1, <2>2
    <3>. QED  BY <3>1
  <2>. QED  BY <2>1, <2>2
<1>. DEFINE S == {asked[q].id : q \in 1 .. k - 1}
<1>3. S \in SUBSET Ref
  <2>1. \A q \in 1 .. k - 1 : q \in 1 .. Len(asked)
    BY <1>1
  <2>. QED  BY <1>1, <2>1
<1>4. References({Top}) \subseteq S
  <2>1. Len(stack) \in Nat /\ Len(asked) >= Len(stack) - 1
    BY StackTypes DEF TypeInv, Marked, History, RootsFirst
  <2>2. 1 \in 1 .. Len(stack) - 1 /\ 1 <= Len(asked) /\ 1 \in 1 .. Len(asked)
    BY <1>1, <2>1
  <2>3. asked[1].id = Top
    BY <2>2 DEF History, RootsFirst
  <2>. QED  BY <1>2, <2>2, <2>3 DEF References
<1>5. Closed(S, {"list"})
  <2>. SUFFICES ASSUME NEW id \in S \cap H!Live, cells[id].kind = "list",
                       NEW v \in Holds(cells[id]), IsRef(v)
                PROVE  v \in S
    BY DEF Closed, References
  <2>1. PICK q \in 1 .. k - 1 : asked[q].id = id
    OBVIOUS
  <2>2. cells[id].items \in Seq(Value)
    BY CellsType DEF TypeInv, HeapInv, Object, Plain, Dict, Closure
  <2>3. PICK n \in DOMAIN cells[id].items : v = cells[id].items[n]
    BY <2>2 DEF Holds, ToSet
  <2>4. ListAt(id) /\ Passed(k, q, n)
    BY DEF ListAt, Passed, Marked
  <2>5. Queued(asked, q, n)
    BY <2>1, <2>3, <2>4 DEF History, Dealt
  <2>6. PICK j \in 1 .. Len(asked) : asked[j].id = v
    BY <2>1, <2>3, <2>5 DEF Queued
  <2>. QED  BY <1>2, <2>6
<1>6. ReachBy({"list"}, {Top}) \subseteq S
  BY <1>3, <1>4, <1>5 DEF ReachBy
<1>. QED  BY <1>6

(* When the top of the stack is queued at least twice and no push was      *)
(* refused, every list and string that it reaches through lists is marked, *)
(* however often lists share items, although the queue loses its last      *)
(* entry (gc.c, IdQueue_push, IdQueue_pop and GCState_collect).            *)
THEOREM GCMarkComplete == Spec => []MarkComplete
<1>1. Init => CompleteInv
  BY DEF Init, CompleteInv, Run, Marked
<1>2. TypeInv /\ CompleteInv => MarkComplete
  <2>. SUFFICES ASSUME TypeInv, CompleteInv, Marked, Len(stack) > 2, ~dropped,
                       NEW id \in ReachBy({"list"}, {Top}), id \in H!Live,
                       cells[id].kind \in {"list", "string"}
                PROVE  id \in reach_bits
    BY DEF MarkComplete
  <2>1. CASE IsRef(Top)
    <3>1. PICK asked, k : History(asked, k)
      BY <2>1 DEF CompleteInv
    <3>2. PICK q \in 1 .. k - 1 : asked[q].id = id
      BY <2>1, <3>1, AllHanded
    <3>. QED  BY <3>1, <3>2 DEF History, Dealt
  <2>2. CASE ~IsRef(Top)
    <3>1. References({Top}) \subseteq {} /\ Closed({}, {"list"})
      BY <2>2 DEF References, Closed
    <3>. QED  BY <3>1 DEF ReachBy
  <2>. QED  BY <2>1, <2>2
<1>. QED
  BY <1>1, <1>2, NextCompleteInv, InitSoundInv, NextSoundInv, SpecTypeInv, PTL DEF Spec
=============================================================================
