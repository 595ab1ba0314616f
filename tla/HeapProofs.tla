----------------------------- MODULE HeapProofs -----------------------------
(***************************************************************************)
(* The heap keeps its promises for every capacity and every set of         *)
(* objects.                                                                *)
(***************************************************************************)
EXTENDS Heap, FiniteSetTheorems, TLAPS

(* What the operations preserve, whoever calls them.                       *)
CellsInv ==
    /\ CellsTypeOK
    /\ FreeListExact
    /\ FreeListDistinct
    /\ FreshCellsEmpty
    /\ CostExact

IInv == TypeOK /\ CellsInv

-----------------------------------------------------------------------------
(* Taking the last element off a sequence, and putting one at its end.     *)

(* Taking the last id off a list leaves the others where they were.        *)
LEMMA FrontFacts ==
  ASSUME NEW S, NEW s \in Seq(S), s # <<>>
  PROVE  LET front == SubSeq(s, 1, Len(s) - 1)
         IN  /\ front \in Seq(S)
             /\ DOMAIN front = 1 .. Len(s) - 1
             /\ \A k \in 1 .. Len(s) - 1 : front[k] = s[k]
             /\ Len(s) \in DOMAIN s /\ DOMAIN s = 1 .. Len(s)
             /\ s[Len(s)] \in S
  OBVIOUS

(* Without its last element, a sequence that repeats nothing loses that    *)
(* element and no other.                                                   *)
LEMMA FrontRange ==
  ASSUME NEW n \in Nat, NEW s, NEW front,
         DOMAIN s = 1 .. n, n \in DOMAIN s,
         DOMAIN front = 1 .. n - 1,
         \A k \in 1 .. n - 1 : front[k] = s[k],
         \A j, k \in DOMAIN s : s[j] = s[k] => j = k
  PROVE  {front[k] : k \in DOMAIN front} = {s[k] : k \in DOMAIN s} \ {s[n]}
<1>1. ASSUME NEW k \in 1 .. n - 1
      PROVE  front[k] = s[k] /\ k \in DOMAIN s /\ s[k] # s[n]
  OBVIOUS
<1>2. ASSUME NEW k \in DOMAIN s, s[k] # s[n] PROVE k \in 1 .. n - 1
  BY <1>2
<1>. QED
  BY <1>1, <1>2

(* Appending an id keeps the others and adds that one.                     *)
LEMMA AppendFacts ==
  ASSUME NEW S, NEW s \in Seq(S), NEW x \in S
  PROVE  LET longer == Append(s, x)
         IN  /\ longer \in Seq(S)
             /\ DOMAIN longer = 1 .. Len(s) + 1
             /\ \A k \in 1 .. Len(s) : longer[k] = s[k]
             /\ longer[Len(s) + 1] = x
             /\ DOMAIN s = 1 .. Len(s)
  OBVIOUS

(* What is stored is a finite set.                                         *)
LEMMA LiveFinite == IsFiniteSet(Live) /\ Cardinality(Live) \in Nat
<1>1. IsFiniteSet(Ids)
  BY FS_Interval, CapacityAssumption DEF Ids
<1>2. Live \in SUBSET Ids
  BY DEF Live
<1>. QED
  BY <1>1, <1>2, FS_Subset, FS_CardinalityType

-----------------------------------------------------------------------------
(* The id the next store uses names an empty cell, or the heap is full.    *)
LEMMA GenIdIsEmpty ==
  ASSUME CellsInv, ~crashed
  PROVE  /\ GenId \in Ids \cup {DUD_HEAP_ID}
         /\ GenId # DUD_HEAP_ID => cells[GenId] = NULL
         /\ GenId = DUD_HEAP_ID => Live = Ids
<1>. USE CapacityAssumption DEF Ids, DUD_HEAP_ID
<1>1. CASE free_ids # <<>>
  <2>1. GenId = free_ids[Len(free_ids)] /\ GenId \in Ids /\ Len(free_ids) \in DOMAIN free_ids
    BY <1>1, FrontFacts DEF GenId, CellsInv, CellsTypeOK
  <2>2. GenId \in FreeIds
    BY <2>1 DEF FreeIds
  <2>3. cells[GenId] = NULL
    BY <2>2 DEF CellsInv, FreeListExact
  <2>. QED  BY <2>1, <2>3
<1>2. CASE free_ids = <<>> /\ next_cell_id < CellCapacity
  BY <1>2 DEF GenId, CellsInv, CellsTypeOK, FreshCellsEmpty
<1>3. CASE free_ids = <<>> /\ ~(next_cell_id < CellCapacity)
  <2>1. GenId = DUD_HEAP_ID /\ next_cell_id = CellCapacity
    BY <1>3 DEF GenId, CellsInv, CellsTypeOK
  <2>2. FreeIds = {}
    BY <1>3 DEF FreeIds
  <2>3. Live = Ids
    BY <2>1, <2>2 DEF CellsInv, FreeListExact, Live
  <2>. QED  BY <2>1, <2>3
<1>. QED  BY <1>1, <1>2, <1>3

(* An id that is stored at raises the cost by one object.                  *)
LEMMA StoreCost ==
  ASSUME CellsInv, ~crashed, NEW object \in Object, heap_store(object),
         GenId # DUD_HEAP_ID
  PROVE  cost' = OBJECT_COST * Cardinality(Live') /\ cost' \in Nat
<1>1. GenId \in Ids /\ cells[GenId] = NULL
  BY GenIdIsEmpty
<1>2. Live' = Live \cup {GenId} /\ GenId \notin Live
  BY <1>1, ObjectAssumption DEF heap_store, Live, CellsInv, CellsTypeOK
<1>3. Cardinality(Live') = Cardinality(Live) + 1
  BY <1>2, LiveFinite, FS_AddElement
<1>4. cost = OBJECT_COST * Cardinality(Live) /\ cost' = cost + OBJECT_COST
  BY DEF CellsInv, CostExact, heap_store
<1>. QED
  BY <1>3, <1>4, LiveFinite DEF OBJECT_COST

(* Emptying a cell whose object can be deleted lowers it by one object.    *)
LEMMA EraseCost ==
  ASSUME CellsInv, ~crashed, NEW id \in Ids, cells[id] \in Deletable,
         cells' = [cells EXCEPT ![id] = NULL], cost' = cost - OBJECT_COST
  PROVE  cost' = OBJECT_COST * Cardinality(Live') /\ cost' \in Nat
<1>1. cells[id] # NULL
  BY ObjectAssumption
<1>2. Live' = Live \ {id} /\ id \in Live
  BY <1>1 DEF Live, CellsInv, CellsTypeOK
<1>3. Cardinality(Live') = Cardinality(Live) - 1 /\ Cardinality(Live') \in Nat
  <2>1. IsFiniteSet(Live') /\ Cardinality(Live') = Cardinality(Live) - 1
    BY <1>2, LiveFinite, FS_RemoveElement
  <2>. QED  BY <2>1, FS_CardinalityType
<1>4. cost = OBJECT_COST * Cardinality(Live)
  BY DEF CellsInv, CostExact
<1>. QED
  BY <1>3, <1>4, LiveFinite DEF OBJECT_COST

-----------------------------------------------------------------------------
(* An empty heap satisfies the invariant.                                  *)
LEMMA InitCellsInv == InitCells => CellsInv
<1>. SUFFICES ASSUME InitCells PROVE CellsInv
  OBVIOUS
<1>. USE CapacityAssumption, ObjectAssumption DEF InitCells, Ids
<1>1. CellsTypeOK /\ FreshCellsEmpty /\ FreeListDistinct
  BY DEF CellsTypeOK, FreshCellsEmpty, FreeListDistinct
<1>2. FreeListExact
  BY DEF FreeListExact, FreeIds
<1>3. CostExact
  <2>1. Live = {}
    BY DEF Live
  <2>. QED
    BY <2>1, FS_EmptySet DEF CostExact, OBJECT_COST
<1>. QED
  BY <1>1, <1>2, <1>3 DEF CellsInv

(* heap_store preserves it, whether or not it finds a cell.                *)
LEMMA StoreCellsInv ==
  ASSUME CellsInv, ~crashed, NEW object \in Object, heap_store(object)
  PROVE  CellsInv'
<1>. USE CapacityAssumption, ObjectAssumption DEF Ids, DUD_HEAP_ID
<1>0. ~crashed /\ heap_store(object) /\ crashed' = crashed
  BY DEF heap_store, CellsInv, CellsTypeOK
<1>1. CASE GenId = DUD_HEAP_ID
  <2>1. free_ids = <<>> /\ next_cell_id = CellCapacity
    BY <1>1, FrontFacts DEF GenId, CellsInv, CellsTypeOK
  <2>2. UNCHANGED cell_vars
    BY <1>0, <1>1, <2>1 DEF heap_store, heap_gen_id, cell_vars
  <2>3. CellsTypeOK'
    BY <1>0, <1>1, <2>2 DEF CellsInv, CellsTypeOK, cell_vars
  <2>4. Live' = Live /\ FreeIds' = FreeIds
    BY <2>2 DEF Live, FreeIds, cell_vars
  <2>. QED
    BY <2>2, <2>3, <2>4
    DEF CellsInv, FreeListExact, FreeListDistinct, FreshCellsEmpty, CostExact, cell_vars
<1>2. CASE GenId # DUD_HEAP_ID
  <2>1. GenId \in Ids /\ cells[GenId] = NULL
    BY <1>0, <1>2, GenIdIsEmpty
  <2>2. /\ cells' = [cells EXCEPT ![GenId] = object]
        /\ tenure_count' = tenure_count
    BY <1>0, <1>2 DEF heap_store
  <2>3. CostExact' /\ cost' \in Nat
    BY <1>0, <1>2, StoreCost DEF CostExact
  <2>4. CASE free_ids # <<>>
    <3>1. /\ GenId = free_ids[Len(free_ids)]
          /\ free_ids' = SubSeq(free_ids, 1, Len(free_ids) - 1)
          /\ next_cell_id' = next_cell_id
      BY <1>0, <2>4 DEF heap_store, heap_gen_id, GenId
    <3>2. /\ free_ids' \in Seq(Ids)
          /\ DOMAIN free_ids' = 1 .. Len(free_ids) - 1
          /\ \A k \in 1 .. Len(free_ids) - 1 : free_ids'[k] = free_ids[k]
          /\ Len(free_ids) \in Nat /\ DOMAIN free_ids = 1 .. Len(free_ids)
          /\ Len(free_ids) \in DOMAIN free_ids
      BY <2>4, <3>1, FrontFacts DEF CellsInv, CellsTypeOK
    <3>3. CellsTypeOK'
      <4>1. cells' \in [Ids -> Object \cup {NULL}]
        BY <2>1, <2>2 DEF CellsInv, CellsTypeOK
      <4>. QED
        BY <1>0, <2>1, <2>2, <2>3, <3>1, <3>2, <4>1 DEF CellsInv, CellsTypeOK
    <3>4. FreeListDistinct'
      BY <3>2 DEF CellsInv, FreeListDistinct
    <3>5. FreeIds' = FreeIds \ {GenId}
      <4>1. \A j, k \in DOMAIN free_ids : free_ids[j] = free_ids[k] => j = k
        BY DEF CellsInv, FreeListDistinct
      <4>2. {free_ids'[k] : k \in DOMAIN free_ids'}
              = {free_ids[k] : k \in DOMAIN free_ids} \ {free_ids[Len(free_ids)]}
        <5>. DEFINE n == Len(free_ids)
        <5>1. /\ n \in Nat /\ DOMAIN free_ids = 1 .. n /\ n \in DOMAIN free_ids
              /\ DOMAIN free_ids' = 1 .. n - 1
              /\ \A k \in 1 .. n - 1 : free_ids'[k] = free_ids[k]
          BY <3>2
        <5>. HIDE DEF n
        <5>2. {free_ids'[k] : k \in DOMAIN free_ids'}
                = {free_ids[k] : k \in DOMAIN free_ids} \ {free_ids[n]}
          BY <4>1, <5>1, FrontRange
        <5>. QED  BY <5>2 DEF n
      <4>. QED
        BY <3>1, <4>2 DEF FreeIds
    <3>6. FreeListExact'
      BY <1>0, <2>1, <2>2, <3>1, <3>5 DEF CellsInv, CellsTypeOK, FreeListExact
    <3>7. GenId < next_cell_id
      <4>1. GenId \in FreeIds
        BY <3>1, <3>2 DEF FreeIds
      <4>. QED  BY <1>0, <4>1 DEF CellsInv, CellsTypeOK, FreeListExact
    <3>8. FreshCellsEmpty'
      BY <2>1, <2>2, <3>1, <3>7 DEF CellsInv, CellsTypeOK, FreshCellsEmpty
    <3>. QED  BY <2>3, <3>3, <3>4, <3>6, <3>8 DEF CellsInv
  <2>5. CASE free_ids = <<>>
    <3>1. /\ GenId = next_cell_id /\ next_cell_id < CellCapacity
          /\ free_ids' = free_ids
          /\ next_cell_id' = next_cell_id + 1
      BY <1>0, <1>2, <2>5 DEF heap_store, heap_gen_id, GenId
    <3>2. CellsTypeOK'
      <4>1. cells' \in [Ids -> Object \cup {NULL}]
        BY <2>1, <2>2 DEF CellsInv, CellsTypeOK
      <4>. QED
        BY <1>0, <2>1, <2>2, <2>3, <3>1, <4>1 DEF CellsInv, CellsTypeOK
    <3>3. FreeListDistinct'
      BY <3>1 DEF CellsInv, FreeListDistinct
    <3>4. FreeIds' = FreeIds
      BY <3>1 DEF FreeIds
    <3>5. FreeListExact'
      BY <1>0, <2>1, <2>2, <3>1, <3>4 DEF CellsInv, CellsTypeOK, FreeListExact
    <3>6. FreshCellsEmpty'
      BY <2>1, <2>2, <3>1 DEF CellsInv, CellsTypeOK, FreshCellsEmpty
    <3>. QED  BY <2>3, <3>2, <3>3, <3>5, <3>6 DEF CellsInv
  <2>. QED  BY <2>4, <2>5
<1>. QED  BY <1>1, <1>2

(* heap_erase preserves it on every id, stale and foreign ones included.   *)
LEMMA EraseCellsInv ==
  ASSUME CellsInv, ~crashed, NEW id \in Int, heap_erase(id)
  PROVE  CellsInv'
<1>. USE CapacityAssumption, ObjectAssumption DEF Ids, DUD_HEAP_ID
<1>0. ~crashed /\ heap_erase(id)
  OBVIOUS
<1>1. CASE id < tenure_count \/ id >= next_cell_id
  <2>1. UNCHANGED cell_vars
    BY <1>0, <1>1 DEF heap_erase
  <2>2. Live' = Live /\ FreeIds' = FreeIds
    BY <2>1 DEF Live, FreeIds, cell_vars
  <2>. QED
    BY <1>0, <2>1, <2>2
    DEF CellsInv, CellsTypeOK, FreeListExact, FreeListDistinct, FreshCellsEmpty, CostExact, cell_vars
<1>2. CASE ~(id < tenure_count \/ id >= next_cell_id)
  <2>1. /\ id \in Ids /\ id \in 0 .. next_cell_id - 1
        /\ cells' = [cells EXCEPT ![id] = NULL]
        /\ next_cell_id' = next_cell_id /\ tenure_count' = tenure_count
    BY <1>0, <1>2 DEF heap_erase, CellsInv, CellsTypeOK
  <2>2. FreshCellsEmpty'
    BY <2>1 DEF CellsInv, CellsTypeOK, FreshCellsEmpty
  <2>3. CASE cells[id] \in Deletable
    <3>1. /\ cost' = cost - OBJECT_COST
          /\ free_ids' = Append(free_ids, id)
          /\ crashed' = crashed
      BY <1>0, <1>2, <2>3 DEF heap_erase, heap_reserve_id
    <3>2. CostExact' /\ cost' \in Nat
      BY <1>0, <2>1, <2>3, <3>1, EraseCost DEF CostExact
    <3>3. /\ free_ids' \in Seq(Ids)
          /\ DOMAIN free_ids' = 1 .. Len(free_ids) + 1
          /\ \A k \in 1 .. Len(free_ids) : free_ids'[k] = free_ids[k]
          /\ free_ids'[Len(free_ids) + 1] = id
          /\ DOMAIN free_ids = 1 .. Len(free_ids)
          /\ Len(free_ids) \in Nat
      BY <2>1, <3>1, AppendFacts DEF CellsInv, CellsTypeOK
    <3>4. CellsTypeOK'
      BY <1>0, <2>1, <3>1, <3>2, <3>3 DEF CellsInv, CellsTypeOK
    <3>5. id \notin FreeIds
      BY <1>0, <2>3 DEF CellsInv, FreeListExact
    <3>6. FreeListDistinct'
      <4>1. \A k \in DOMAIN free_ids : free_ids[k] # id
        BY <3>5 DEF FreeIds
      <4>. QED
        BY <3>3, <4>1 DEF CellsInv, FreeListDistinct
    <3>7. FreeIds' = FreeIds \cup {id}
      BY <3>3 DEF FreeIds
    <3>8. FreeListExact'
      BY <1>0, <2>1, <3>1, <3>7 DEF CellsInv, CellsTypeOK, FreeListExact
    <3>. QED  BY <2>2, <3>2, <3>4, <3>6, <3>8 DEF CellsInv
  <2>4. CASE cells[id] \notin Deletable
    <3>1. crashed' = TRUE /\ UNCHANGED <<cost, free_ids>>
      BY <1>0, <1>2, <2>4 DEF heap_erase
    <3>2. CellsTypeOK'
      BY <1>0, <2>1, <3>1 DEF CellsInv, CellsTypeOK
    <3>. QED
      BY <2>2, <3>1, <3>2 DEF CellsInv, FreeListExact, FreeListDistinct, CostExact
  <2>. QED  BY <2>3, <2>4
<1>. QED  BY <1>1, <1>2

(* heap_tenure preserves it.                                               *)
LEMMA TenureCellsInv ==
  ASSUME CellsInv, heap_tenure
  PROVE  CellsInv'
<1>1. Live' = Live /\ FreeIds' = FreeIds
  BY DEF heap_tenure, Live, FreeIds
<1>. QED
  BY <1>1, CapacityAssumption
  DEF heap_tenure, CellsInv, CellsTypeOK, FreeListExact, FreeListDistinct,
      FreshCellsEmpty, CostExact

(* So does a change of a stored object, made through its pointer ...       *)
Change(id, object) ==
    /\ cells' = [cells EXCEPT ![id] = object]
    /\ UNCHANGED <<free_ids, next_cell_id, tenure_count, cost, crashed>>

(* Replacing the object in a live cell keeps the cells in order.           *)
LEMMA ChangeCellsInv ==
  ASSUME CellsInv, NEW id \in Ids, cells[id] # NULL, NEW object \in Object,
         Change(id, object)
  PROVE  CellsInv'
<1>. USE DEF Change
<1>1. CellsTypeOK'
  BY DEF CellsInv, CellsTypeOK
<1>2. \A other \in Ids : cells'[other] = NULL <=> cells[other] = NULL
  BY ObjectAssumption DEF CellsInv, CellsTypeOK
<1>3. Live' = Live /\ FreeIds' = FreeIds
  BY <1>2 DEF Live, FreeIds
<1>4. \A other \in next_cell_id .. CellCapacity - 1 : other \in Ids
  BY CapacityAssumption DEF CellsInv, CellsTypeOK, Ids
<1>5. {other \in 0 .. next_cell_id - 1 : cells'[other] = NULL}
        = {other \in 0 .. next_cell_id - 1 : cells[other] = NULL}
  <2>1. \A other \in 0 .. next_cell_id - 1 : other \in Ids
    BY CapacityAssumption DEF CellsInv, CellsTypeOK, Ids
  <2>. QED  BY <1>2, <2>1
<1>. QED
  BY <1>1, <1>2, <1>3, <1>4, <1>5
  DEF CellsInv, FreeListExact, FreeListDistinct, FreshCellsEmpty, CostExact

(* ... a step that leaves the heap alone, and one that only dies.          *)
LEMMA SameCellsInv ==
  ASSUME CellsInv, UNCHANGED <<cells, free_ids, next_cell_id, tenure_count, cost>>,
         crashed' = crashed \/ crashed'
  PROVE  CellsInv'
<1>1. Live' = Live /\ FreeIds' = FreeIds
  BY DEF Live, FreeIds
<1>. QED
  BY <1>1
  DEF CellsInv, CellsTypeOK, FreeListExact, FreeListDistinct, FreshCellsEmpty, CostExact

-----------------------------------------------------------------------------
(* A fresh heap satisfies the invariant of the heap's own specification.   *)
LEMMA InitIInv == Init => IInv
  BY InitCellsInv DEF Init, IInv, TypeOK, CellsInv

(* Every step preserves it ...                                             *)
LEMMA NextIInv == IInv /\ [Next]_vars => IInv'
<1>. SUFFICES ASSUME IInv, [Next]_vars PROVE IInv'
  OBVIOUS
<1>. USE DEF IInv, TypeOK
<1>1. ASSUME NEW object \in Object, Store(object) PROVE IInv'
  <2>1. CellsInv'
    BY <1>1, StoreCellsInv DEF Store
  <2>2. GenId \in Ids \cup {DUD_HEAP_ID}
    BY <1>1, GenIdIsEmpty DEF Store
  <2>. QED  BY <1>1, <2>1, <2>2 DEF Store, CellsInv, Ids, DUD_HEAP_ID
<1>2. ASSUME NEW id \in DUD_HEAP_ID .. CellCapacity, Erase(id) PROVE IInv'
  <2>1. CellsInv'
    BY <1>2, EraseCellsInv, CapacityAssumption DEF Erase, DUD_HEAP_ID
  <2>. QED  BY <1>2, <2>1 DEF Erase, CellsInv, Ids, DUD_HEAP_ID
<1>3. CASE Tenure
  <2>1. CellsInv'
    BY <1>3, TenureCellsInv DEF Tenure
  <2>. QED  BY <1>3, <2>1 DEF Tenure, CellsInv, Ids, DUD_HEAP_ID
<1>4. CASE UNCHANGED vars
  <2>1. CellsInv'
    BY <1>4, SameCellsInv DEF vars, cell_vars
  <2>. QED  BY <1>4, <2>1 DEF CellsInv, Ids, DUD_HEAP_ID, vars, cell_vars
<1>. QED  BY <1>1, <1>2, <1>3, <1>4 DEF Next

(* ... and so it holds in every reachable state.                           *)
LEMMA SpecIInv == Spec => []IInv
  BY InitIInv, NextIInv, PTL DEF Spec

-----------------------------------------------------------------------------
(* The heap's variables keep their types; in particular no id outside the  *)
(* table is ever reserved or handed out (objects.c, heap_gen_id).          *)
THEOREM HeapTypeOK == Spec => []TypeOK
<1>1. IInv => TypeOK
  BY DEF IInv, CellsInv
<1>. QED  BY <1>1, SpecIInv, PTL

(* No id is lost and none is free while an object is stored under it       *)
(* (objects.c, heap_reserve_id and heap_gen_id).                           *)
THEOREM HeapFreeListExact == Spec => [](FreeListExact /\ FreeListDistinct)
<1>1. IInv => FreeListExact /\ FreeListDistinct
  BY DEF IInv, CellsInv
<1>. QED  BY <1>1, SpecIInv, PTL

(* The trigger of the collector counts what is stored (objects.c,          *)
(* heap_store and heap_erase).                                             *)
THEOREM HeapCostExact == Spec => []CostExact
<1>1. IInv => CostExact
  BY DEF IInv, CellsInv
<1>. QED  BY <1>1, SpecIInv, PTL

(* heap_reserve_id needs no bound check: distinct ids of a table of        *)
(* CellCapacity cells never fill more than CellCapacity entries.           *)
THEOREM HeapFreeListFits == Spec => []FreeListFits
<1>1. IInv => FreeListFits
  <2>. SUFFICES ASSUME IInv PROVE Len(free_ids) <= CellCapacity
    BY DEF FreeListFits
  <2>1. /\ free_ids \in [1 .. Len(free_ids) -> Ids]
        /\ Len(free_ids) \in Nat /\ DOMAIN free_ids = 1 .. Len(free_ids)
    BY DEF IInv, CellsInv, CellsTypeOK
  <2>2. free_ids \in Injection(1 .. Len(free_ids), Ids)
    BY <2>1 DEF IInv, CellsInv, FreeListDistinct, Injection, IsInjective
  <2>3. IsFiniteSet(Ids) /\ Cardinality(Ids) = CellCapacity
    BY FS_Interval, CapacityAssumption DEF Ids
  <2>4. Cardinality(1 .. Len(free_ids)) <= CellCapacity
    BY <2>2, <2>3, FS_Injection
  <2>5. Cardinality(1 .. Len(free_ids)) = Len(free_ids)
    <3>1. 1 \in Int /\ Len(free_ids) \in Int
      BY <2>1
    <3>2. Cardinality(1 .. Len(free_ids)) =
            IF 1 > Len(free_ids) THEN 0 ELSE Len(free_ids) - 1 + 1
      BY <3>1, FS_Interval
    <3>. QED  BY <2>1, <3>2
  <2>. QED  BY <2>4, <2>5
<1>. QED  BY <1>1, SpecIInv, PTL

(* An object stored below the tenure mark stays where it is (objects.c,    *)
(* heap_erase's first test).                                               *)
THEOREM HeapTenuredStay == Spec => TenuredStay
<1>1. IInv /\ [Next]_vars =>
        [\A id \in Ids :
            id < tenure_count /\ cells[id] # NULL => cells'[id] = cells[id]]_vars
  <2>. SUFFICES ASSUME IInv, Next, NEW id \in Ids,
                       id < tenure_count, cells[id] # NULL
                PROVE  cells'[id] = cells[id]
    OBVIOUS
  <2>1. ASSUME NEW object \in Object, Store(object)
        PROVE  cells'[id] = cells[id]
    <3>1. GenId # DUD_HEAP_ID => cells[GenId] = NULL
      BY <2>1, GenIdIsEmpty DEF Store, IInv
    <3>. QED
      BY <2>1, <3>1 DEF Store, heap_store, IInv, CellsInv, CellsTypeOK
  <2>2. ASSUME NEW other \in DUD_HEAP_ID .. CellCapacity, Erase(other)
        PROVE  cells'[id] = cells[id]
    BY <2>2, CapacityAssumption
    DEF Erase, heap_erase, IInv, CellsInv, CellsTypeOK, Ids, cell_vars, DUD_HEAP_ID
  <2>3. CASE Tenure
    BY <2>3 DEF Tenure, heap_tenure
  <2>. QED  BY <2>1, <2>2, <2>3 DEF Next
<1>. QED  BY <1>1, SpecIInv, PTL DEF Spec, TenuredStay

-----------------------------------------------------------------------------
(* The collector's trigger: with any number of cells, a collection is due  *)
(* from the first object above two thirds of them.                         *)
THEOREM HeapRipeAboveTwoThirds == Spec => []RipeAboveTwoThirds
<1>1. IInv => RipeAboveTwoThirds
  <2>. SUFFICES ASSUME IInv, ~crashed
                PROVE  heap_is_ripe <=> 3 * Cardinality(Live) > 2 * CellCapacity
    BY DEF RipeAboveTwoThirds
  <2>. DEFINE n == Cardinality(Live)
  <2>1. n \in Nat
    BY LiveFinite, FS_CardinalityType
  <2>2. cost = 64 * n
    BY DEF IInv, CellsInv, CostExact, OBJECT_COST
  <2>. HIDE DEF n
  <2>3. CellCapacity \in Nat
    BY CapacityAssumption
  <2>4. 64 * n > (CellCapacity * 2 * 64) \div 3 <=> 3 * n > 2 * CellCapacity
    BY <2>1, <2>3
  <2>. QED
    BY <2>2, <2>4 DEF heap_is_ripe, CostToGC, OBJECT_COST, n
<1>. QED  BY <1>1, SpecIInv, PTL

-----------------------------------------------------------------------------
(* The heap implements the id pool: a stored object never lands on another *)
(* one, and a store is refused only when every cell is taken.              *)
THEOREM HeapImplementsPool == Spec => PoolSpec
<1>1. Init => Pool!Init
  BY DEF Init, InitCells, Pool!Init
<1>2. IInv /\ [Next]_vars => [Pool!Next]_(Pool!vars)
  <2>. SUFFICES ASSUME IInv, [Next]_vars PROVE [Pool!Next]_(Pool!vars)
    OBVIOUS
  <2>1. ASSUME NEW object \in Object, Store(object) PROVE Pool!Next
    <3>1. /\ GenId \in Ids \cup {DUD_HEAP_ID}
          /\ GenId # DUD_HEAP_ID => cells[GenId] = NULL
          /\ GenId = DUD_HEAP_ID => Live = Ids
      BY <2>1, GenIdIsEmpty DEF Store, IInv
    <3>2. CASE GenId = DUD_HEAP_ID
      <4>1. Pool!Refuse
        BY <2>1, <3>1, <3>2 DEF Store, heap_store, Pool!Refuse, Live
      <4>. QED  BY <4>1 DEF Pool!Next
    <3>3. CASE GenId # DUD_HEAP_ID
      <4>1. Pool!Place(object)
        BY <2>1, <3>1, <3>3 DEF Store, heap_store, Pool!Place
      <4>. QED  BY <4>1 DEF Pool!Next
    <3>. QED  BY <3>2, <3>3
  <2>2. ASSUME NEW id \in DUD_HEAP_ID .. CellCapacity, Erase(id)
        PROVE  [Pool!Next]_(Pool!vars)
    <3>1. CASE id < tenure_count \/ id >= next_cell_id
      BY <2>2, <3>1 DEF Erase, heap_erase, cell_vars, Pool!vars
    <3>2. CASE ~(id < tenure_count \/ id >= next_cell_id)
      <4>1. id \in Ids /\ cells' = [cells EXCEPT ![id] = NULL] /\ result' = result
        BY <2>2, <3>2, CapacityAssumption
        DEF Erase, heap_erase, IInv, CellsInv, CellsTypeOK, Ids, DUD_HEAP_ID
      <4>2. CASE cells[id] = NULL
        <5>1. cells' = cells
          BY <4>1, <4>2 DEF IInv, CellsInv, CellsTypeOK
        <5>. QED  BY <4>1, <5>1 DEF Pool!vars
      <4>3. CASE cells[id] # NULL
        <5>1. Pool!Release(id)
          BY <4>1, <4>3 DEF Pool!Release
        <5>. QED  BY <4>1, <5>1 DEF Pool!Next
      <4>. QED  BY <4>2, <4>3
    <3>. QED  BY <3>1, <3>2
  <2>3. CASE Tenure
    BY <2>3 DEF Tenure, heap_tenure, Pool!vars
  <2>4. CASE UNCHANGED vars
    BY <2>4 DEF vars, cell_vars, Pool!vars
  <2>. QED  BY <2>1, <2>2, <2>3, <2>4 DEF Next
<1>. QED
  BY <1>1, <1>2, SpecIInv, PTL DEF Spec, PoolSpec, Pool!Spec
=============================================================================
