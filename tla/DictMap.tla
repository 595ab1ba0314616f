------------------------------ MODULE DictMap ------------------------------
(***************************************************************************)
(* What a dict promises: it reads what was last set under a key, and NIL   *)
(* where nothing was; while it is frozen, setting has no effect.  Keys     *)
(* that are the Same share what is set under any of them.                  *)
(***************************************************************************)
CONSTANTS Key, Value, Nil, Same(_, _)

VARIABLES
    map,        \* what is read under each key
    frozen,
    last        \* the last call of Set: <<key, value>>, or empty

dict_vars == <<map, frozen, last>>

Init ==
    /\ map = [key \in Key |-> Nil]
    /\ frozen = FALSE
    /\ last = <<>>

Set(key, value) ==
    /\ last' = <<key, value>>
    /\ map' = IF frozen THEN map
              ELSE [k \in Key |-> IF Same(k, key) THEN value ELSE map[k]]
    /\ UNCHANGED frozen

Freeze == ~frozen /\ frozen' = TRUE /\ UNCHANGED <<map, last>>
Thaw == frozen /\ frozen' = FALSE /\ UNCHANGED <<map, last>>

Next == Freeze \/ Thaw \/ \E key \in Key, value \in Value : Set(key, value)

Spec == Init /\ [][Next]_dict_vars
=============================================================================
