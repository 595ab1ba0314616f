--------------------------------- MODULE GC ---------------------------------
(***************************************************************************)
(* The collector, src/src/gc.c, together with the two things it works on:  *)
(* the heap (module Heap) and the operand stack of the interpreter, on     *)
(* which the bytecode handlers of src/src/vm.c that create, read and       *)
(* change objects act.                                                     *)
(*                                                                         *)
(* A handler is one step, except that MK_LIST and MK_DICT call the         *)
(* collector first: when the heap is ripe the step only enters the         *)
(* collector, which then takes one step per iteration of its loops, and    *)
(* the handler's own work is the step that leaves it.  Nothing else runs   *)
(* in between.                                                             *)
(*                                                                         *)
(* Abstractions: a value is a reference or Prim.  An object is its kind    *)
(* and the values it holds: the items of a list, the captured values of a  *)
(* closure, the payload of an exception, the object an iterator walks.  A  *)
(* dict holds the nodes of its search tree, in the order of their          *)
(* creation; which key goes where is a free choice among the places a key  *)
(* could go to.  stack is the slots 0 .. sp, slot 0 first.                 *)
(***************************************************************************)
EXTENDS Integers, Sequences, FiniteSets, SequencesExt

CONSTANTS
    CellCapacity,       \* cells of the heap: 512
    HeapPopMax,         \* make_vm's heap_pop_max: 256
    ByteBits,           \* BITSET_U8_BITS: 8
    Prim,               \* any value that is not a reference
    NULL,               \* an empty cell
    Kinds,              \* kinds of object the program creates
    MaxSp,              \* bound on sp
    MaxItems,           \* bound on the items of a list, on captured values
    MaxNodes            \* bound on the nodes of a dict

ASSUME GCAssumption ==
    /\ CellCapacity \in 1 .. 32768      \* an id is an int16_t
    /\ HeapPopMax \in Nat \ {0} /\ ByteBits \in Nat \ {0}
    /\ Prim \notin Int
    /\ Kinds \subseteq {"list", "string", "dict", "closure", "err", "iter"}
    /\ MaxSp \in Nat \ {0} /\ MaxItems \in Nat /\ MaxNodes \in Nat

Ref == -1 .. CellCapacity - 1       \* DUD_HEAP_ID, or the id of a cell
Value == Ref \cup {Prim}
Node == [data : Value, l : Nat, r : Nat]    \* a child 0 is a NULL pointer
Plain == [kind : {"list", "string", "err", "iter"}, items : Seq(Value)]
Dict == [kind : {"dict"}, nodes : Seq(Node)]
Closure == [kind : {"closure"}, items : Seq(Value)]

ASSUME NullAssumption == NULL \notin Plain \cup Dict \cup Closure

VARIABLES
    cells, free_ids, next_cell_id, tenure_count, cost, crashed,  \* the heap
    stack, error_oid,       \* the part of VMState that holds references
    reach_bits,             \* ids whose bit is set
    next_ids,               \* the queue of ids to mark
    dropped,                \* history: a push of this collection was refused
    pc,                     \* where the handler, or the collector, is
    pending                 \* the object the collecting handler will make

heap_vars == <<cells, free_ids, next_cell_id, tenure_count, cost, crashed>>
vm_vars == <<stack, error_oid>>
gc_vars == <<reach_bits, next_ids, dropped>>
vars == <<heap_vars, vm_vars, gc_vars, pc, pending>>

H == INSTANCE Heap WITH
        Object <- Plain \cup Dict \cup Closure,
        Deletable <- Plain \cup Dict,       \* alloc_closure sets no `del`
        result <- -1
IdQueue == INSTANCE RingQueue WITH Capacity <- HeapPopMax, Dud <- H!DUD_HEAP_ID
PtrQueue == INSTANCE RingQueue WITH Capacity <- CellCapacity, Dud <- 0

IsRef(v) == v # Prim
Top == Last(stack)
BitCapacity == ((HeapPopMax \div ByteBits) + 1) * ByteBits

Run == [at |-> "run"]
NoObject == [kind |-> "none"]

Init ==
    /\ H!InitCells
    /\ stack = <<Prim>>
    /\ error_oid = H!DUD_HEAP_ID
    /\ reach_bits = {}
    /\ next_ids = IdQueue!New
    /\ dropped = FALSE
    /\ pc = Run
    /\ pending = NoObject

-----------------------------------------------------------------------------
(* Handlers that only move values                                          *)

Running == pc = Run /\ ~crashed

Stacked(new) ==
    /\ Len(new) <= MaxSp + 1
    /\ stack' = new
    /\ UNCHANGED <<gc_vars, pc, pending>>

PushPrim ==
    /\ Running
    /\ Stacked(Append(stack, Prim))
    /\ UNCHANGED <<heap_vars, error_oid>>

LoadLocal(slot) ==
    /\ Running
    /\ Stacked(Append(stack, stack[slot]))
    /\ UNCHANGED <<heap_vars, error_oid>>

StoreLocal(slot) ==
    /\ Running
    /\ slot < Len(stack)
    /\ Stacked(Front([stack EXCEPT ![slot] = Top]))
    /\ UNCHANGED <<heap_vars, error_oid>>

Pop ==
    /\ Running
    /\ Len(stack) > 1
    /\ Stacked(Front(stack))
    /\ UNCHANGED <<heap_vars, error_oid>>

LoadErrRef ==
    /\ Running
    /\ Stacked(Append(stack, error_oid))
    /\ UNCHANGED <<heap_vars, error_oid>>

-----------------------------------------------------------------------------
(* Handlers that read and change objects                                   *)

ObjectAt(v) == IF IsRef(v) THEN H!heap_get(v) ELSE NULL

Holds(object) ==
    IF object.kind = "dict"
      THEN {object.nodes[n].data : n \in DOMAIN object.nodes}
      ELSE ToSet(object.items)

Size(object) ==
    IF object.kind = "dict" THEN Len(object.nodes) ELSE Len(object.items)

(* What a key may select: always a primitive (NIL, a character, a line),   *)
(* an item, a datum, or the item under an iterator's cursor.  An iterator  *)
(* whose list is gone reads freed memory: here it answers NIL.             *)
Answers(object) ==
    {Prim} \cup
    CASE object.kind \in {"list", "dict", "err"} -> Holds(object)
      [] object.kind = "iter" ->
            LET walked == ObjectAt(object.items[1])
            IN  IF walked # NULL /\ walked.kind = "list" THEN Holds(walked) ELSE {}
      [] OTHER -> {}

GetIdx ==
    LET object == ObjectAt(stack[Len(stack) - 1])
    IN  /\ Running
        /\ Len(stack) > 2
        /\ object # NULL
        /\ \E item \in Answers(object) :
              Stacked(Append(SubSeq(stack, 1, Len(stack) - 2), item))
        /\ UNCHANGED <<heap_vars, error_oid>>

(* What a list becomes: an item replaced, an item appended, or nothing     *)
(* changed.                                                                *)
ListAssigned(list, v) ==
    {list, [list EXCEPT !.items = Append(@, v)]}
      \cup {[list EXCEPT !.items[i] = v] : i \in DOMAIN list.items}

(* What a dict becomes: the data of a node replaced, or a node added where *)
(* the search for the key ran into a NULL pointer.                         *)
DictAssigned(dict, v) ==
    LET nodes == dict.nodes
        new == Len(nodes) + 1
        grown == Append(nodes, [data |-> v, l |-> 0, r |-> 0])
    IN  {[dict EXCEPT !.nodes[n].data = v] : n \in DOMAIN nodes}
          \cup {[dict EXCEPT !.nodes = [grown EXCEPT ![n].l = new]] :
                    n \in {m \in DOMAIN nodes : nodes[m].l = 0}}
          \cup {[dict EXCEPT !.nodes = [grown EXCEPT ![n].r = new]] :
                    n \in {m \in DOMAIN nodes : nodes[m].r = 0}}
          \cup (IF nodes = <<>> THEN {[dict EXCEPT !.nodes = grown]} ELSE {})

Assigned(object, v) ==
    CASE object.kind = "list" -> ListAssigned(object, v)
      [] object.kind = "dict" -> DictAssigned(object, v)
      [] OTHER -> {object}

SetIdx ==
    LET oid == stack[Len(stack) - 2]
    IN  /\ Running
        /\ Len(stack) > 3
        /\ ObjectAt(oid) # NULL
        /\ \E object \in Assigned(H!heap_get(oid), Top) :
              /\ Size(object) <= IF object.kind = "dict" THEN MaxNodes ELSE MaxItems
              /\ cells' = [cells EXCEPT ![oid] = object]
        /\ Stacked(SubSeq(stack, 1, Len(stack) - 2))
        /\ UNCHANGED <<free_ids, next_cell_id, tenure_count, cost, crashed>>
        /\ UNCHANGED error_oid

-----------------------------------------------------------------------------
(* Handlers that store an object without collecting.  A full heap makes    *)
(* the id DUD_HEAP_ID, which is pushed like any other.                     *)

Made(kind, items) == [kind |-> kind, items |-> items]

(* readln: a string, pushed as the call's result.                          *)
MkString ==
    /\ Running
    /\ "string" \in Kinds
    /\ H!heap_store(Made("string", <<>>))
    /\ Stacked(Append(stack, H!GenId))
    /\ UNCHANGED error_oid

(* mkiter(x): an iterator for a list or a string, NIL for the rest.        *)
MkIter ==
    LET object == ObjectAt(Top)
        iterable == object # NULL /\ object.kind \in {"list", "string"}
    IN  /\ Running
        /\ "iter" \in Kinds
        /\ Len(stack) > 1
        /\ IF iterable THEN H!heap_store(Made("iter", <<Top>>))
                       ELSE UNCHANGED heap_vars
        /\ Stacked(Append(Front(stack), IF iterable THEN H!GenId ELSE Prim))
        /\ UNCHANGED error_oid

(* lscut(list, begin, length): a new list of some of the items; NIL on a   *)
(* full heap.                                                              *)
CutList ==
    LET object == ObjectAt(Top)
        items == object.items
    IN  /\ Running
        /\ Len(stack) > 1
        /\ object # NULL /\ object.kind = "list"
        /\ \E begin \in 1 .. Len(items) + 1 : \E end \in begin - 1 .. Len(items) :
              H!heap_store(Made("list", SubSeq(items, begin, end)))
        /\ Stacked(Append(Front(stack),
                          IF H!GenId = H!DUD_HEAP_ID THEN Prim ELSE H!GenId))
        /\ UNCHANGED error_oid

(* n captured values lie above the id of the lambda's chunk.               *)
MkClosure(n) ==
    LET base == Len(stack) - n
    IN  /\ Running
        /\ "closure" \in Kinds
        /\ base > 1 /\ stack[base] = Prim
        /\ H!heap_store(Made("closure", SubSeq(stack, base + 1, Len(stack))))
        /\ Stacked(Append(SubSeq(stack, 1, base - 1), H!GenId))
        /\ UNCHANGED error_oid

(* THROW: the error object is reachable from error_oid only.               *)
RaiseErr ==
    /\ Running
    /\ "err" \in Kinds
    /\ Len(stack) > 1
    /\ H!heap_store(Made("err", <<Top>>))
    /\ error_oid' = H!GenId
    /\ Stacked(Front(stack))

-----------------------------------------------------------------------------
(* MK_LIST n and MK_DICT, which collect first                              *)

(* The handler's own work.  The items of a new list replace the n values   *)
(* on top of the stack, where the list's own reference goes.               *)
Make(object) ==
    LET n == Size(object)
        made == Append(SubSeq(stack, 1, Len(stack) - n), H!GenId)
    IN  /\ H!heap_store(object)
        /\ stack' = made
        /\ UNCHANGED error_oid

CollectThenMake(object) ==
    /\ Running
    /\ Len(stack) - Size(object) < MaxSp + 1
    /\ IF H!heap_is_ripe
         THEN /\ pc' = [at |-> "roots", slot |-> 0]
              /\ pending' = object
              /\ UNCHANGED <<heap_vars, vm_vars, gc_vars>>
         ELSE /\ Make(object)
              /\ UNCHANGED <<gc_vars, pc, pending>>

MkList(n) ==
    /\ "list" \in Kinds
    /\ n < Len(stack)
    /\ CollectThenMake(
            Made("list", SubSeq(stack, Len(stack) - n + 1, Len(stack))))

MkDict ==
    /\ "dict" \in Kinds
    /\ CollectThenMake([kind |-> "dict", nodes |-> <<>>])

-----------------------------------------------------------------------------
(* GCState_collect: one step per turn of its loops                         *)

Mark == [at |-> "mark"]

(* The loop counts the slots below sp, but what it looks at each time is   *)
(* the slot at sp.                                                         *)
RootNext ==
    /\ pc.at = "roots" /\ pc.slot < Len(stack) - 1
    /\ next_ids' = IF IsRef(Top) THEN IdQueue!Pushed(next_ids, Top) ELSE next_ids
    /\ dropped' = (IsRef(Top) /\ ~IdQueue!PushOk(next_ids, Top))
    /\ pc' = IF dropped' THEN Mark ELSE [pc EXCEPT !.slot = @ + 1]
    /\ UNCHANGED <<heap_vars, vm_vars, reach_bits, pending>>

RootsDone ==
    /\ pc.at = "roots" /\ pc.slot >= Len(stack) - 1
    /\ pc' = Mark
    /\ UNCHANGED <<heap_vars, vm_vars, gc_vars, pending>>

Positions == 0 .. 65535     \* uint16_t

(* The position of a bit is a uint16_t, DUD_HEAP_ID included.  A write     *)
(* past the bytes of the set is undefined: it may kill the process.        *)
SetBits(ids) ==
    LET bits == {id % 65536 : id \in ids}
    IN  /\ reach_bits' = reach_bits \cup bits
        /\ crashed' \in IF bits \subseteq 0 .. BitCapacity - 1
                           THEN {crashed} ELSE BOOLEAN

NoBits == UNCHANGED <<reach_bits, crashed>>

MarkNext ==
    LET oid == IdQueue!PopValue(next_ids)
        object == H!heap_get(oid)
        kind == IF object = NULL THEN "none" ELSE object.kind
    IN  /\ pc.at = "mark" /\ ~crashed
        /\ ~IdQueue!Exhausted(next_ids)
        /\ next_ids' = IdQueue!Popped(next_ids)
        /\ CASE kind \in {"list", "string"} -> SetBits({oid})
             [] kind = "closure" -> SetBits({v \in Holds(object) : IsRef(v)})
             [] OTHER -> NoBits
        /\ pc' = CASE kind = "list" -> [at |-> "items", list |-> oid, item |-> 1]
                   [] kind = "dict" ->
                        [at |-> "nodes", dict |-> oid,
                         queue |-> PtrQueue!Pushed(PtrQueue!New,
                                        IF object.nodes = <<>> THEN 0 ELSE 1)]
                   [] OTHER -> pc
        /\ UNCHANGED <<cells, free_ids, next_cell_id, tenure_count, cost>>
        /\ UNCHANGED <<vm_vars, dropped, pending>>

(* A list queues what it refers to, and does not ask whether an item was   *)
(* queued before.  The mutant's loop stops one item early.                 *)
MutLastItem(items) == Len(items) - 1
LastItem(items) == Len(items)

QueueItem ==
    LET items == cells[pc.list].items
        item == items[pc.item]
    IN  /\ pc.at = "items" /\ ~crashed
        /\ pc.item <= LastItem(items)
        /\ next_ids' = IF IsRef(item) THEN IdQueue!Pushed(next_ids, item)
                                      ELSE next_ids
        /\ dropped' = (dropped \/ (IsRef(item) /\ ~IdQueue!PushOk(next_ids, item)))
        /\ pc' = [pc EXCEPT !.item = @ + 1]
        /\ UNCHANGED <<heap_vars, vm_vars, reach_bits, pending>>

ItemsDone ==
    /\ pc.at = "items" /\ ~crashed
    /\ pc.item > LastItem(cells[pc.list].items)
    /\ pc' = Mark
    /\ UNCHANGED <<heap_vars, vm_vars, gc_vars, pending>>

(* GCState_mark_dict_nodes: the root of the tree is node 1.  A refused     *)
(* push of the left child skips the right one.                             *)
MarkNode ==
    LET nodes == cells[pc.dict].nodes
        n == PtrQueue!PopValue(pc.queue)
        rest == PtrQueue!Popped(pc.queue)
        child(queue, c) == IF c = 0 THEN queue ELSE PtrQueue!Pushed(queue, c)
        after_l == child(rest, nodes[n].l)
        refused == nodes[n].l # 0 /\ PtrQueue!Exhausted(after_l)
    IN  /\ pc.at = "nodes" /\ ~crashed
        /\ ~PtrQueue!Exhausted(pc.queue)
        /\ pc' = [pc EXCEPT !.queue =
                    IF n = 0 THEN rest
                    ELSE IF refused THEN after_l
                    ELSE child(after_l, nodes[n].r)]
        /\ IF n # 0 /\ IsRef(nodes[n].data)
             THEN SetBits({nodes[n].data})
             ELSE NoBits
        /\ UNCHANGED <<cells, free_ids, next_cell_id, tenure_count, cost>>
        /\ UNCHANGED <<vm_vars, next_ids, dropped, pending>>

NodesDone ==
    /\ pc.at = "nodes" /\ ~crashed
    /\ PtrQueue!Exhausted(pc.queue)
    /\ pc' = Mark
    /\ UNCHANGED <<heap_vars, vm_vars, gc_vars, pending>>

(* The mutant's sweep starts at the second slot.                           *)
MutSweepStart == 1
SweepStart == 0

MarkDone ==
    /\ pc.at = "mark" /\ ~crashed
    /\ IdQueue!Exhausted(next_ids)
    /\ pc' = [at |-> "sweep", slot |-> SweepStart]
    /\ UNCHANGED <<heap_vars, vm_vars, gc_vars, pending>>

(* The mutant empties the cell and forgets the heap's accounts.            *)
MutSweepErase(id) ==
    /\ cells' = IF id < next_cell_id THEN [cells EXCEPT ![id] = NULL] ELSE cells
    /\ UNCHANGED <<free_ids, next_cell_id, tenure_count, cost, crashed>>
SweepErase(id) == H!heap_erase(id)

SweepNext ==
    /\ pc.at = "sweep"
    /\ ~crashed
    /\ pc.slot < BitCapacity
    /\ pc' = [pc EXCEPT !.slot = @ + 1]
    /\ IF pc.slot \in reach_bits THEN UNCHANGED heap_vars
                                 ELSE SweepErase(pc.slot)
    /\ UNCHANGED <<vm_vars, gc_vars, pending>>

Marked == pc = [at |-> "sweep", slot |-> SweepStart]
Swept == pc.at = "sweep" /\ pc.slot = BitCapacity /\ ~crashed

(* BitSet_clear and IdQueue_reset.  The mutant skips the first.            *)
MutKeepBits == next_ids' = IdQueue!New /\ UNCHANGED reach_bits
ClearMarks == reach_bits' = {} /\ next_ids' = IdQueue!New

(* The handler goes on.  The mutant forgets that its object is made.       *)
MutResume == pc' = Run /\ UNCHANGED pending
Resume == pc' = Run /\ pending' = NoObject

Finish ==
    /\ Swept
    /\ ClearMarks
    /\ dropped' = FALSE
    /\ Make(pending)
    /\ Resume

-----------------------------------------------------------------------------

CollectorStep ==
    \/ RootNext \/ RootsDone \/ MarkNext \/ QueueItem \/ ItemsDone
    \/ MarkNode \/ NodesDone \/ MarkDone \/ SweepNext \/ Finish

Handler ==
    \/ PushPrim \/ Pop \/ LoadErrRef \/ GetIdx \/ SetIdx
    \/ \E slot \in 2 .. Len(stack) : LoadLocal(slot) \/ StoreLocal(slot)
    \/ MkString \/ MkIter \/ CutList \/ RaiseErr \/ MkDict
    \/ \E n \in 0 .. MaxItems : MkList(n) \/ MkClosure(n)

Next == Handler \/ CollectorStep

Spec == Init /\ [][Next]_vars

(* The collector is a loop of the one thread there is: it takes its steps. *)
FairSpec == Spec /\ WF_vars(CollectorStep)

-----------------------------------------------------------------------------
(* Properties                                                              *)

TypeOK ==
    /\ cells \in [H!Ids -> Plain \cup Dict \cup Closure \cup {NULL}]
    /\ free_ids \in Seq(H!Ids)
    /\ next_cell_id \in 0 .. CellCapacity
    /\ stack \in Seq(Value) /\ stack # <<>>
    /\ error_oid \in Ref
    /\ reach_bits \subseteq Positions
    /\ next_ids \in [items : [0 .. HeapPopMax - 1 -> Ref],
                     head : 0 .. HeapPopMax - 1, tail : 0 .. HeapPopMax - 1]
    /\ pc.at \in {"run", "roots", "mark", "items", "nodes", "sweep"}
    /\ (pc = Run) <=> (pending = NoObject)

(* The ids reached from a set of values through the objects of some kinds: *)
(* the least set of ids that holds them and what such objects hold.        *)
References(values) == {v \in values : IsRef(v)}
Closed(ids, kinds) ==
    \A id \in ids \cap H!Live :
        cells[id].kind \in kinds => References(Holds(cells[id])) \subseteq ids
ReachBy(kinds, values) ==
    {id \in Ref : \A ids \in SUBSET Ref :
                    References(values) \subseteq ids /\ Closed(ids, kinds)
                        => id \in ids}

AllKinds == {"list", "string", "dict", "closure", "err", "iter"}

Reached == ReachBy(AllKinds, ToSet(stack) \cup {error_oid})

(* What is marked is reachable from the top of the stack: a bit or a queue *)
(* entry left over from an earlier collection would keep garbage alive.    *)
MarkSound ==
    Marked =>
        reach_bits \subseteq {id % 65536 : id \in ReachBy(AllKinds, {Top})}

(* The queue hands out entries one push late and loses the last one.  That *)
(* costs nothing when the top of the stack was queued at least twice and   *)
(* no push was refused: every list and string it reaches through lists is  *)
(* marked, however often the lists share items.                            *)
MarkComplete ==
    Marked /\ Len(stack) > 2 /\ ~dropped =>
        \A id \in ReachBy({"list"}, {Top}) \cap H!Live :
            cells[id].kind \in {"list", "string"} => id \in reach_bits

(* A finished sweep has left exactly the marked objects, among those that  *)
(* have a bit.                                                             *)
SweepExact ==
    Swept => \A id \in 0 .. BitCapacity - 1 :
                id \in H!Live <=> id \in reach_bits /\ id < next_cell_id

(* The heap keeps its accounts through collections.                        *)
HeapKept == H!FreeListExact /\ H!CostExact

(* Lists on a cycle, reached from lists.                                   *)
OnCycle(id) == id \in ReachBy({"list"}, Holds(cells[id]))
Cyclic == \E id \in ReachBy({"list"}, {Top}) \cap H!Live :
              cells[id].kind = "list" /\ OnCycle(id)

(* A collection ends, one way or the other, when no list that the top of   *)
(* the stack reaches contains itself.                                      *)
CollectEnds == pc.at = "roots" /\ ~Cyclic ~> pc = Run \/ crashed

(* gc.c:281, "free unreached ones...": nothing is freed that a slot of the *)
(* stack or the error reference still reaches.  What the top of the stack  *)
(* reaches is left to MarkComplete: this is about all the other roots.     *)
FreesUnreachedOnly ==
    [][\A id \in (H!Live \cap Reached) \ ReachBy(AllKinds, {Top}) : cells'[id] # NULL]_vars
=============================================================================
