------------------------------ MODULE QueueUse ------------------------------
(***************************************************************************)
(* A ring buffer of module RingQueue and one user that pushes, pops while  *)
(* there is something to pop, and resets, in any order: what the loops of  *)
(* GCState_collect can count on from their queue.                          *)
(***************************************************************************)
EXTENDS RingQueue, Sequences

CONSTANTS
    Item,       \* what is queued
    MaxPushes   \* bound on the pushes between two resets

ASSUME QueueAssumption ==
    Capacity \in Nat \ {0} /\ Dud \notin Item /\ MaxPushes \in Nat

VARIABLES
    queue,
    pushed,     \* history: the items pushed since the last reset
    got,        \* history: the values popped since the last reset
    refused     \* history: whether one of those pushes returned false

queue_vars == <<queue, pushed, got, refused>>

QueueInit ==
    /\ queue = New
    /\ pushed = <<>>
    /\ got = <<>>
    /\ refused = FALSE

Push(x) ==
    /\ Len(pushed) < MaxPushes
    /\ queue' = Pushed(queue, x)
    /\ pushed' = Append(pushed, x)
    /\ refused' = (refused \/ ~PushOk(queue, x))
    /\ UNCHANGED got

Pop ==
    /\ ~Exhausted(queue)
    /\ queue' = Popped(queue)
    /\ got' = Append(got, PopValue(queue))
    /\ UNCHANGED <<pushed, refused>>

Reset ==
    /\ queue' = New
    /\ pushed' = <<>>
    /\ got' = <<>>
    /\ refused' = FALSE

QueueNext == Pop \/ Reset \/ \E x \in Item : Push(x)

QueueSpec == QueueInit /\ [][QueueNext]_queue_vars

-----------------------------------------------------------------------------
(* Properties                                                              *)

(* Until a push is refused the k-th pop returns the push before the k-th,  *)
(* and the first pop returns the dud: IdQueue_push writes behind the slot  *)
(* that IdQueue_pop reads.                                                 *)
LagsByOne ==
    ~refused =>
        \A k \in DOMAIN got : got[k] = IF k = 1 THEN Dud ELSE pushed[k - 1]

(* Until then a user that pops while it can pops once per push, so it      *)
(* never sees the last item, and sees every other one exactly once.        *)
LastIsLost == ~refused /\ Exhausted(queue) => Len(got) = Len(pushed)

(* Both: what a user that drains the queue gets is the dud and then all    *)
(* that it pushed but for the last.                                        *)
OneBehind == LagsByOne /\ LastIsLost
=============================================================================
