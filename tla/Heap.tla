-------------------------------- MODULE Heap --------------------------------
(***************************************************************************)
(* The object heap of the interpreter, src/src/objects.c: a table of cells *)
(* addressed by id, a LIFO list of the ids that were given back, a bump    *)
(* pointer for ids never used so far, and the running cost that tells the  *)
(* collector when to run.                                                  *)
(*                                                                         *)
(* Abstractions: an object is a member of Object, told apart only by       *)
(* whether its vtable has a `del` entry.  The pair (free_ids,              *)
(* next_free_id_pos) of the code is one sequence, whose last element is    *)
(* the entry at next_free_id_pos: entries above that position are never    *)
(* read.  cost is size_t and stays below 64 * 512, so it has no width.     *)
(***************************************************************************)
EXTENDS Integers, Sequences, FiniteSets

CONSTANTS
    Object,         \* the objects a program can store
    Deletable,      \* those whose vtable has a `del` function
    NULL,           \* content of an empty cell
    CellCapacity    \* number of cells: DEFAULT_HEAP_CAPACITY, 512

ASSUME CapacityAssumption == CellCapacity \in Nat \ {0}
ASSUME ObjectAssumption == NULL \notin Object /\ Deletable \subseteq Object

VARIABLES
    cells,          \* cells[id] is the object stored under id, or NULL
    free_ids,       \* ids given back, reused from the end
    next_cell_id,   \* ids from here on were never handed out
    tenure_count,   \* ids below it are never erased
    cost,           \* OBJECT_COST for every stored object
    crashed,        \* the process died on a NULL object or a NULL `del`
    result          \* what the last heap_store returned

cell_vars == <<cells, free_ids, next_cell_id, tenure_count, cost, crashed>>
vars == <<cell_vars, result>>

DUD_HEAP_ID == -1
OBJECT_COST == 64
Ids == 0 .. CellCapacity - 1

(* The mutant divides before it multiplies.                                *)
MutCostToGC == (CellCapacity \div 3) * 2 * OBJECT_COST
CostToGC == (CellCapacity * 2 * OBJECT_COST) \div 3

CellsTypeOK ==
    /\ cells \in [Ids -> Object \cup {NULL}]
    /\ free_ids \in Seq(Ids)
    /\ next_cell_id \in 0 .. CellCapacity
    /\ tenure_count \in 0 .. next_cell_id
    /\ cost \in Nat
    /\ crashed \in BOOLEAN

TypeOK == CellsTypeOK /\ result \in Ids \cup {DUD_HEAP_ID}

InitCells ==
    /\ cells = [id \in Ids |-> NULL]
    /\ free_ids = <<>>
    /\ next_cell_id = 0
    /\ tenure_count = 0
    /\ cost = 0
    /\ crashed = FALSE

Init == InitCells /\ result = DUD_HEAP_ID

-----------------------------------------------------------------------------
(* Queries                                                                 *)

Live == {id \in Ids : cells[id] # NULL}

heap_is_ripe == cost > CostToGC

heap_get(id) == IF id \in 0 .. next_cell_id - 1 THEN cells[id] ELSE NULL

(* The id the next heap_store will use.  The mutant hands out one id more  *)
(* than there are cells.                                                   *)
MutGenId ==
    IF free_ids # <<>> THEN free_ids[Len(free_ids)]
    ELSE IF next_cell_id <= CellCapacity THEN next_cell_id
    ELSE DUD_HEAP_ID
GenId ==
    IF free_ids # <<>> THEN free_ids[Len(free_ids)]
    ELSE IF next_cell_id < CellCapacity THEN next_cell_id
    ELSE DUD_HEAP_ID

-----------------------------------------------------------------------------
(* Operations                                                              *)

(* Taking that id off the list, or moving the bump pointer past it.  The   *)
(* mutant leaves the id on the list.                                       *)
MutKeepFreeId ==
    /\ next_cell_id' = IF GenId = next_cell_id THEN next_cell_id + 1
                                                ELSE next_cell_id
    /\ UNCHANGED free_ids
heap_gen_id ==
    IF free_ids # <<>>
      THEN /\ free_ids' = SubSeq(free_ids, 1, Len(free_ids) - 1)
           /\ UNCHANGED next_cell_id
      ELSE /\ next_cell_id' = IF GenId = DUD_HEAP_ID THEN next_cell_id
                                                     ELSE next_cell_id + 1
           /\ UNCHANGED free_ids

(* The mutant does not reserve the id.                                     *)
MutReserveNone(id) == UNCHANGED free_ids
heap_reserve_id(id) == free_ids' = Append(free_ids, id)

(* The mutant counts the cost of an object that found no cell.             *)
MutStoreCost(object) ==
    /\ heap_gen_id
    /\ cells' = IF GenId # DUD_HEAP_ID THEN [cells EXCEPT ![GenId] = object]
                                        ELSE cells
    /\ cost' = cost + OBJECT_COST
    /\ UNCHANGED <<tenure_count, crashed>>
heap_store(object) ==
    /\ heap_gen_id
    /\ IF GenId # DUD_HEAP_ID
         THEN /\ cells' = [cells EXCEPT ![GenId] = object]
              /\ cost' = cost + OBJECT_COST
         ELSE UNCHANGED <<cells, cost>>
    /\ UNCHANGED <<tenure_count, crashed>>

(* heap_erase empties the cell before it looks at the object: an empty     *)
(* cell, or an object with no `del`, kills the process there.              *)
(* The mutant does not ask for the tenure mark.                            *)
MutErase(id) ==
    IF id < 0 \/ id >= next_cell_id
      THEN UNCHANGED cell_vars
      ELSE /\ cells' = [cells EXCEPT ![id] = NULL]
           /\ IF cells[id] \in Deletable
                THEN /\ cost' = cost - OBJECT_COST
                     /\ heap_reserve_id(id)
                     /\ UNCHANGED crashed
                ELSE /\ crashed' = TRUE
                     /\ UNCHANGED <<cost, free_ids>>
           /\ UNCHANGED <<next_cell_id, tenure_count>>
heap_erase(id) ==
    IF id < tenure_count \/ id >= next_cell_id
      THEN UNCHANGED cell_vars
      ELSE /\ cells' = [cells EXCEPT ![id] = NULL]
           /\ IF cells[id] \in Deletable
                THEN /\ cost' = cost - OBJECT_COST
                     /\ heap_reserve_id(id)
                     /\ UNCHANGED crashed
                ELSE /\ crashed' = TRUE
                     /\ UNCHANGED <<cost, free_ids>>
           /\ UNCHANGED <<next_cell_id, tenure_count>>

heap_tenure ==
    /\ tenure_count' = next_cell_id
    /\ UNCHANGED <<cells, free_ids, next_cell_id, cost, crashed>>

-----------------------------------------------------------------------------
(* A user that stores any object and erases any id, a stale one included.  *)

Store(object) ==
    /\ ~crashed
    /\ heap_store(object)
    /\ result' = GenId

Erase(id) ==
    /\ ~crashed
    /\ heap_erase(id)
    /\ UNCHANGED result

Tenure ==
    /\ ~crashed
    /\ heap_tenure
    /\ UNCHANGED result

Next ==
    \/ \E object \in Object : Store(object)
    \/ \E id \in DUD_HEAP_ID .. CellCapacity : Erase(id)
    \/ Tenure

Spec == Init /\ [][Next]_vars

-----------------------------------------------------------------------------
(* Properties                                                              *)

FreeIds == {free_ids[k] : k \in DOMAIN free_ids}

(* The free list holds exactly the ids that were handed out and whose cell *)
(* is empty: an id is never lost, and never free while an object is stored *)
(* under it.                                                               *)
FreeListExact ==
    ~crashed => FreeIds = {id \in 0 .. next_cell_id - 1 : cells[id] = NULL}

(* No id is in the free list twice, so two stores never share an id.       *)
FreeListDistinct ==
    \A j, k \in DOMAIN free_ids : free_ids[j] = free_ids[k] => j = k

(* Cells from the bump pointer on are empty.                               *)
FreshCellsEmpty == \A id \in next_cell_id .. CellCapacity - 1 : cells[id] = NULL

(* heap_reserve_id writes past next_free_id_pos with no bound check; the   *)
(* list never outgrows its buffer all the same.                            *)
FreeListFits == Len(free_ids) <= CellCapacity

(* The cost the collector's trigger reads is the cost of what is stored.   *)
CostExact == ~crashed => cost = OBJECT_COST * Cardinality(Live)

(* The collector's trigger fires when more than two thirds of the cells    *)
(* hold an object, neither one object earlier nor one later.               *)
RipeAboveTwoThirds ==
    ~crashed => (heap_is_ripe <=> 3 * Cardinality(Live) > 2 * CellCapacity)

(* An object stored below the tenure mark is never lost, and its id never  *)
(* handed to another object.                                               *)
TenuredStay ==
    [][\A id \in Ids :
          id < tenure_count /\ cells[id] # NULL => cells'[id] = cells[id]]_vars

(* The heap is an implementation of the id pool: a stored object never     *)
(* lands on another one, and a store is refused only when all cells are    *)
(* taken.                                                                  *)
Pool == INSTANCE IdPool WITH
            Id <- Ids, held <- cells, NoId <- DUD_HEAP_ID

PoolSpec == Pool!Spec
=============================================================================
