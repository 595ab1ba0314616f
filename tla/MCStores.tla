------------------------------ MODULE MCStores ------------------------------
(* The two containers under the collector, one at a time: the heap on five *)
(* cells, with one kind of object that can be deleted and one that cannot  *)
(* (a closure), and a queue of three slots over twice its capacity of      *)
(* pushes between resets, so that the positions wrap, the queue fills, and *)
(* stale entries come under the head again.                                *)
EXTENDS Heap, QueueUse

StoresInit == Init /\ QueueInit
HeapMoves == QueueInit /\ Next /\ UNCHANGED queue_vars
QueueMoves == Init /\ QueueNext /\ UNCHANGED vars

StoresSpec == StoresInit /\ [][HeapMoves \/ QueueMoves]_<<vars, queue_vars>>
=============================================================================
