------------------------------- MODULE IdPool -------------------------------
(***************************************************************************)
(* What a user of the object heap relies on, with no allocator in it: a    *)
(* table from ids to objects, a call that places an object under an id     *)
(* nobody holds, and a call that gives an id back.  Which free id is       *)
(* chosen, free lists and bump pointers are left to the implementation,    *)
(* module Heap.                                                            *)
(***************************************************************************)
CONSTANTS
    Id,         \* the ids the pool hands out
    Object,     \* what can be placed under an id
    NULL,       \* marks an id that nobody holds
    NoId        \* answer of a placement that found no free id

VARIABLES
    held,       \* held[i] is the object under id i, or NULL
    result      \* the answer of the last placement

vars == <<held, result>>

Init ==
    /\ held = [i \in Id |-> NULL]
    /\ result = NoId

(* A placement picks any id that is free and touches no other id.          *)
Place(object) ==
    \E i \in Id :
        /\ held[i] = NULL
        /\ held' = [held EXCEPT ![i] = object]
        /\ result' = i

(* A placement is refused only when every id is held.                      *)
Refuse ==
    /\ \A i \in Id : held[i] # NULL
    /\ result' = NoId
    /\ UNCHANGED held

Release(i) ==
    /\ held[i] # NULL
    /\ held' = [held EXCEPT ![i] = NULL]
    /\ UNCHANGED result

Next ==
    \/ \E object \in Object : Place(object)
    \/ Refuse
    \/ \E i \in Id : Release(i)

Spec == Init /\ [][Next]_vars
=============================================================================
