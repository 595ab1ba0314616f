----------------------------- MODULE RingQueue -----------------------------
(***************************************************************************)
(* The ring buffers of the collector, src/src/gc.c: IdQueue of object ids  *)
(* and PtrQueue of dict nodes are the same code with another element type. *)
(* A queue is a record; the operators return what the C functions leave    *)
(* behind.  Its `length` field is never written after creation, so it is   *)
(* left out.                                                               *)
(***************************************************************************)
EXTENDS Integers

CONSTANTS
    Capacity,   \* number of slots
    Dud         \* DUD_HEAP_ID or a NULL pointer

(* IdQueue_new, and IdQueue_reset of any queue.                            *)
New == [items |-> [slot \in 0 .. Capacity - 1 |-> Dud], head |-> 0, tail |-> 0]

Exhausted(q) == q.head = q.tail

(* The tail moves first and the item is written where it then points.  The *)
(* mutant writes the item where the tail was.                              *)
MutPushed(q, x) ==
    [q EXCEPT !.items[q.tail] = x, !.tail = (q.tail + 1) % Capacity]
Pushed(q, x) ==
    LET tail == (q.tail + 1) % Capacity
    IN  [q EXCEPT !.items[tail] = x, !.tail = tail]

(* What a push returns: false when the tail has caught up with the head.   *)
PushOk(q, x) == ~Exhausted(Pushed(q, x))

(* The slot under the head is read and then the head moves.  The mutant    *)
(* leaves the head where it is.                                            *)
PopValue(q) == IF Exhausted(q) THEN Dud ELSE q.items[q.head]

MutPopped(q) == q
Popped(q) ==
    IF Exhausted(q) THEN q ELSE [q EXCEPT !.head = (@ + 1) % Capacity]
=============================================================================
