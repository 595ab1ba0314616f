------------------------------ MODULE DictTree ------------------------------
(***************************************************************************)
(* A dict: src/src/obj_dict.c.  A binary search tree of nodes that hold    *)
(* the hash of a key, and not the key.  The hash is a weighted sum of the  *)
(* four bytes of a value.                                                  *)
(*                                                                         *)
(* A node is named by the order of its allocation, 0 is the null pointer.  *)
(* Memory for a node can always be had.                                    *)
(***************************************************************************)
EXTENDS Integers, Sequences, SequencesExt

CONSTANTS
    Key,        \* [tag, n] for the tag and the payload of a value
    Value,      \* what is stored
    Absent      \* NIL, as a result

ASSUME DictAssumption == Absent \notin Value

VARIABLES
    nodes,      \* all nodes of the dict, by the order they were allocated in
    root,       \* the node the dict holds
    mutable,    \* its flag
    put         \* history, read by no action: the key and value last set

tree_vars == <<nodes, root, mutable, put>>

Null == 0

-----------------------------------------------------------------------------
(* The hash of a value                                                     *)

(* The 32 bits that are hashed: a real by its bits, a string or an object  *)
(* by its id.                                                              *)
Scalar(key) ==
    CASE key.tag = "nil" -> 0
      [] key.tag = "bool" -> 1 + 2 * key.n
      [] OTHER -> key.n

VHashPlaces == <<1, 5, 25, 125>>

Byte(n, i) == (n \div 256^(i - 1)) % 256

HashValue ==
    [key \in Key |->
        LET weighted(i) == Byte(Scalar(key), i) * VHashPlaces[i]
        IN  weighted(1) + weighted(2) + weighted(3) + weighted(4)]

SameHash(k1, k2) == HashValue[k1] = HashValue[k2]

-----------------------------------------------------------------------------
(* The tree                                                                *)

(* One turn of the loops of ptree_get and ptree_set: to the child on the   *)
(* side of the hash, unless the node is found or there is none.  The       *)
(* mutant does not reset the side when it goes to the right.               *)
MutDown(at, hash) ==
    IF at.curr = Null \/ nodes[at.curr].hash = hash THEN at
    ELSE IF hash < nodes[at.curr].hash
      THEN [prev |-> at.curr, curr |-> nodes[at.curr].l, left |-> TRUE]
    ELSE [prev |-> at.curr, curr |-> nodes[at.curr].r, left |-> at.left]
Down(at, hash) ==
    IF at.curr = Null \/ nodes[at.curr].hash = hash THEN at
    ELSE IF hash < nodes[at.curr].hash
      THEN [prev |-> at.curr, curr |-> nodes[at.curr].l, left |-> TRUE]
    ELSE [prev |-> at.curr, curr |-> nodes[at.curr].r, left |-> FALSE]

(* Where the descent ends; no path is longer than there are nodes.         *)
Descent(hash) ==
    LET at[turn \in 0 .. Len(nodes)] ==
            IF turn = 0 THEN [prev |-> Null, curr |-> root, left |-> FALSE]
            ELSE Down(at[turn - 1], hash)
    IN  at[Len(nodes)]

PtreeGet(key) ==
    LET at == Descent(HashValue[key]).curr
    IN  IF root = Null \/ at = Null THEN Absent ELSE nodes[at].data

NewNode(hash, data) == [hash |-> hash, data |-> data, l |-> Null, r |-> Null]

(* The nodes after data was set: in the node with that hash, or in a new   *)
(* one under the last of the descent.  The mutant keeps what it finds.     *)
MutPtreeSet(hash, data) ==
    LET at == Descent(hash)
        new == Len(nodes) + 1
        linked == IF at.prev = Null THEN nodes
                  ELSE IF at.left THEN [nodes EXCEPT ![at.prev].l = new]
                  ELSE [nodes EXCEPT ![at.prev].r = new]
    IN  IF at.curr # Null THEN nodes ELSE Append(linked, NewNode(hash, data))
PtreeSet(hash, data) ==
    LET at == Descent(hash)
        new == Len(nodes) + 1
        linked == IF at.prev = Null THEN nodes
                  ELSE IF at.left THEN [nodes EXCEPT ![at.prev].l = new]
                  ELSE [nodes EXCEPT ![at.prev].r = new]
    IN  IF at.curr # Null THEN [nodes EXCEPT ![at.curr].data = data]
        ELSE Append(linked, NewNode(hash, data))

(* What ptree_del frees, in its order.                                     *)
PtreeDel ==
    LET freed[n \in 0 .. Len(nodes)] ==
            IF n = Null THEN <<>>
            ELSE Append(freed[nodes[n].l] \o freed[nodes[n].r], n)
    IN  freed[root]

-----------------------------------------------------------------------------
(* What a program does                                                     *)

TreeInit ==
    /\ nodes = <<>>
    /\ root = Null
    /\ mutable = TRUE
    /\ put = <<>>

SetKey(key, value) ==
    /\ IF mutable
         THEN /\ nodes' = PtreeSet(HashValue[key], value)
              /\ root' = IF root = Null THEN 1 ELSE root
         ELSE UNCHANGED <<nodes, root>>
    /\ put' = <<key, value>>
    /\ UNCHANGED mutable

FreezeDict == mutable' = FALSE /\ UNCHANGED <<nodes, root, put>>
ThawDict == mutable' = TRUE /\ UNCHANGED <<nodes, root, put>>

TreeNext ==
    \/ FreezeDict \/ ThawDict
    \/ \E key \in Key, value \in Value : SetKey(key, value)

TreeSpec == TreeInit /\ [][TreeNext]_tree_vars

-----------------------------------------------------------------------------
(* Properties                                                              *)

(* Deleting the dict frees each of its nodes, and each of them once: a new *)
(* node is never linked over another one, whatever the order of the keys.  *)
TreeFreedOnce ==
    /\ Len(PtreeDel) = Len(nodes)
    /\ \A n \in DOMAIN nodes : Contains(PtreeDel, n)

(* The dict is a map in which keys of one hash are one key: what is set    *)
(* under a key is read under it, and every other key reads what it did.    *)
(* Setting a frozen dict, which is reported as done, does nothing.         *)
Map == INSTANCE DictMap WITH
    Nil <- Absent, Same <- SameHash, frozen <- ~mutable, last <- put,
    map <- [key \in Key |-> PtreeGet(key)]
ActsAsMap == Map!Spec
=============================================================================
