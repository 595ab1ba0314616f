---------------------------- MODULE LibraryProofs ---------------------------
(***************************************************************************)
(* What holds of the objects of the library and of the loader for every    *)
(* number of them and whatever a program puts into them: lists, strings    *)
(* and the iterators over both; dicts; file streams; program images.       *)
(*                                                                         *)
(* Every loop of these components is a recursive function of the model,    *)
(* which is what its definition says since there is a function that        *)
(* satisfies the definition.  That, and what a loop keeps, is shown by the *)
(* smallest turn that is not as it should be.                              *)
(***************************************************************************)
EXTENDS ListObjects, DictTree, Streams, Strings, Loader,
        FiniteSetTheorems, SequenceTheorems, WellFoundedInduction, TLAPS

(* No set of numbers without a least member is not empty.                  *)
LEMMA LeastNumber ==
    ASSUME NEW S, S \subseteq Nat, S # {}
    PROVE  \E least \in S : \A n \in S : least <= n
<1>. DEFINE Less == OpToRel(<, Nat)
<1>1. \E x \in S : \A y \in S : <<y, x>> \notin Less
  BY NatLessThanWellFounded, WFMin
<1>2. \A x, y \in Nat : <<y, x>> \in Less <=> y < x
  BY DEF OpToRel
<1>. HIDE DEF Less
<1>3. PICK x \in S : \A y \in S : <<y, x>> \notin Less
  BY <1>1
<1>4. ASSUME NEW y \in S PROVE x <= y
  <2>1. x \in Nat /\ y \in Nat /\ ~(y < x)
    BY <1>2, <1>3
  <2>. QED  BY <2>1
<1>. QED  BY <1>4

-----------------------------------------------------------------------------
(* Lists, strings and iterators                                            *)

Slot == Item \cup {Nil}

List ==
    [alive : {TRUE}, mutable : BOOLEAN, items : Seq(Slot), capacity : Nat \ {0}]

Iterator ==
    [alive : {TRUE}, list : ListIds, pos : Nat, end : Nat, dangling : BOOLEAN]

ListTypes ==
    /\ lists \in [ListIds -> List \cup {Erased}]
    /\ iters \in [IterIds -> Iterator \cup {Erased}]

ListInv == ListTypes /\ IteratorsInside

Copy ==
    [dest : ListIds, src : ListIds, length : Nat, pos : Nat,
     onto : Seq(Slot), from : Seq(Slot), capacity : Nat \ {0}]

(* While lscat runs: the destination holds what it held and the items that *)
(* were copied so far, or what it held if it is frozen; the source is the  *)
(* destination, or holds what it held.                                     *)
CopyInv ==
    Copying =>
        /\ copy \in Copy /\ copy.length = Len(copy.from) /\ copy.pos <= copy.length
        /\ copy.dest \in Alive /\ copy.src \in Alive
        /\ Items(copy.dest) =
               copy.onto \o (IF lists[copy.dest].mutable THEN SubSeq(copy.from, 1, copy.pos)
                             ELSE <<>>)
        /\ IF copy.src = copy.dest THEN copy.onto = copy.from
           ELSE Items(copy.src) = copy.from

-----------------------------------------------------------------------------
(* The loops of lists                                                      *)

(* The turns in which a list takes the first n of the items.               *)
FillTurns(after, list, items, n) ==
    after = [i \in 0 .. n |-> IF i = 0 THEN list ELSE SetV(after[i - 1], Nil, items[i])]

(* The turns of a loop of pushes exist, however many there are.            *)
LEMMA FillTurnsExist ==
    ASSUME NEW list, NEW items
    PROVE  \A n \in Nat : \E after : FillTurns(after, list, items, n)
<1>. DEFINE Bad == {n \in Nat : ~\E after : FillTurns(after, list, items, n)}
<1>. SUFFICES ASSUME Bad # {} PROVE FALSE
  OBVIOUS
<1>1. PICK n \in Bad : \A m \in Bad : n <= m
  <2>1. Bad \subseteq Nat
    OBVIOUS
  <2>. HIDE DEF Bad
  <2>. QED  BY <2>1, LeastNumber
<1>2. CASE n = 0
  <2>1. FillTurns([i \in 0 .. 0 |-> list], list, items, 0)
    BY DEF FillTurns
  <2>. QED  BY <1>2, <2>1
<1>3. CASE n # 0
  <2>1. n - 1 \in Nat /\ n \in Nat /\ ~(n <= n - 1)
    BY <1>3
  <2>2. PICK after : FillTurns(after, list, items, n - 1)
    BY <1>1, <2>1
  <2>. DEFINE longer ==
                [i \in 0 .. n |-> IF i = n THEN SetV(after[n - 1], Nil, items[n]) ELSE after[i]]
  <2>3. \A i \in 0 .. n :
            longer[i] = IF i = 0 THEN list ELSE SetV(longer[i - 1], Nil, items[i])
    <3>. TAKE i \in 0 .. n
    <3>1. CASE i = 0
      BY <1>3, <2>1, <2>2, <3>1 DEF FillTurns
    <3>2. CASE i = n
      BY <1>3, <2>1, <2>2, <3>2 DEF FillTurns
    <3>3. CASE i # 0 /\ i # n
      <4>1. i \in 0 .. n - 1 /\ i - 1 \in 0 .. n - 1 /\ i - 1 \in 0 .. n /\ i - 1 # n
        BY <2>1, <3>3
      <4>2. after[i] = SetV(after[i - 1], Nil, items[i])
        BY <2>2, <3>3, <4>1 DEF FillTurns
      <4>. QED  BY <3>3, <4>1, <4>2
    <3>. QED  BY <3>1, <3>2, <3>3
  <2>4. FillTurns(longer, list, items, n)
    BY <2>3 DEF FillTurns
  <2>. QED  BY <2>4
<1>. QED  BY <1>2, <1>3

(* Filled is the last turn of such a function.                             *)
LEMMA FilledIsLast ==
    ASSUME NEW list, NEW items, NEW n \in Nat
    PROVE  \E after : FillTurns(after, list, items, n) /\ Filled(list, items, n) = after[n]
<1>. DEFINE after == CHOOSE f :
        f = [i \in 0 .. n |-> IF i = 0 THEN list ELSE SetV(f[i - 1], Nil, items[i])]
<1>1. after = [i \in 0 .. n |-> IF i = 0 THEN list ELSE SetV(after[i - 1], Nil, items[i])]
  BY FillTurnsExist DEF FillTurns
<1>2. Filled(list, items, n) = after[n]
  BY DEF Filled
<1>. HIDE DEF after
<1>. QED  BY <1>1, <1>2 DEF FillTurns

(* If Q[0] holds of the list and an item leads from Q[i] to Q[i + 1], then  *)
(* Q[n] holds of the list with n items more.                               *)
LEMMA FilledKeeps ==
    ASSUME NEW Q, NEW n \in Nat, NEW list \in Q[0], NEW items,
           \A i \in 0 .. n - 1 : \A x \in Q[i] : SetV(x, Nil, items[i + 1]) \in Q[i + 1]
    PROVE  Filled(list, items, n) \in Q[n]
<1>1. PICK after : FillTurns(after, list, items, n) /\ Filled(list, items, n) = after[n]
  BY FilledIsLast
<1>. DEFINE Bad == {i \in 0 .. n : after[i] \notin Q[i]}
<1>2. Bad = {}
  <2>. SUFFICES ASSUME Bad # {} PROVE FALSE
    OBVIOUS
  <2>1. PICK i \in Bad : \A m \in Bad : i <= m
    <3>1. Bad \subseteq Nat
      OBVIOUS
    <3>. HIDE DEF Bad
    <3>. QED  BY <3>1, LeastNumber
  <2>2. i # 0
    BY <1>1, <2>1 DEF FillTurns
  <2>3. i - 1 \in 0 .. n - 1 /\ i - 1 \in 0 .. n /\ ~(i <= i - 1) /\ (i - 1) + 1 = i
    BY <2>1, <2>2
  <2>4. after[i - 1] \in Q[i - 1]
    BY <2>1, <2>3
  <2>5. after[i] = SetV(after[i - 1], Nil, items[i])
    BY <1>1, <2>1, <2>2 DEF FillTurns
  <2>. QED  BY <2>1, <2>3, <2>4, <2>5
<1>. QED  BY <1>1, <1>2

-----------------------------------------------------------------------------
(* What alloc_list and its vtable do                                       *)

LEMMA ListParams ==
    /\ Nil \notin Item /\ Nil \notin Int /\ Numbers \subseteq Int
    /\ SizeValues \in Nat \ {0} /\ MaxItems \in Nat
    /\ \A n \in Numbers : 2 * n < SizeValues
  BY ListAssumption

(* The fields of a list.                                                   *)
LEMMA ListFields ==
    ASSUME NEW list \in List
    PROVE  /\ list.items \in Seq(Slot) /\ list.alive
           /\ list.capacity \in Nat \ {0} /\ Len(list.items) \in Nat
           /\ \A n \in 1 .. Len(list.items) : list.items[n] \in Slot
<1>1. list.items \in Seq(Slot) /\ list.alive /\ list.capacity \in Nat \ {0}
  BY DEF List
<1>2. Len(list.items) \in Nat /\ \A n \in 1 .. Len(list.items) : list.items[n] \in Slot
  BY <1>1, LenProperties, ElementOfSeq
<1>. QED  BY <1>1, <1>2

(* make_list returns an empty mutable list with room for at least one      *)
(* item.                                                                   *)
LEMMA NewListIs ==
    ASSUME NEW size \in Nat
    PROVE  /\ NewList(size) \in List /\ NewList(size).mutable
           /\ NewList(size).items = <<>>
<1>1. (IF size > 0 THEN size ELSE 1) \in Nat \ {0} /\ <<>> \in Seq(Slot)
  OBVIOUS
<1>. QED  BY <1>1 DEF NewList, List

(* One item is appended, with more memory or without.                      *)
LEMMA PushedList ==
    ASSUME NEW list \in List, NEW item \in Slot
    PROVE  /\ ListPushed(list, item) \in List
           /\ ListPushed(list, item).mutable = list.mutable
           /\ ListPushed(list, item).items = Append(list.items, item)
<1>1. list.capacity \in Nat \ {0} /\ list.items \in Seq(Slot)
  BY DEF List
<1>2. 1 + (list.capacity * 3) \div 2 \in Nat \ {0} /\ Append(list.items, item) \in Seq(Slot)
  BY <1>1, Z3T(40)
<1>. DEFINE more == 1 + (list.capacity * 3) \div 2
            items == Append(list.items, item)
<1>. HIDE DEF more, items
<1>3. ListPushed(list, item) \in
          {[list EXCEPT !.items = items],
           [list EXCEPT !.items = items, !.capacity = more]}
  BY DEF ListPushed, more, items
<1>4. items \in Seq(Slot) /\ more \in Nat \ {0}
  BY <1>2 DEF more, items
<1>5. /\ [list EXCEPT !.items = items] \in List
      /\ [list EXCEPT !.items = items].items = items
      /\ [list EXCEPT !.items = items].mutable = list.mutable
  BY <1>4 DEF List
<1>6. /\ [list EXCEPT !.items = items, !.capacity = more] \in List
      /\ [list EXCEPT !.items = items, !.capacity = more].items = items
      /\ [list EXCEPT !.items = items, !.capacity = more].mutable = list.mutable
  BY <1>4 DEF List
<1>. QED  BY <1>3, <1>5, <1>6 DEF items

(* A list stays a list of the same flag and never gets shorter; and it     *)
(* stays as it is while it is frozen.                                      *)
LEMMA SetVList ==
    ASSUME NEW list \in List, NEW key \in Int \cup {Nil}, NEW item \in Slot
    PROVE  /\ SetV(list, key, item) \in List
           /\ SetV(list, key, item).mutable = list.mutable
           /\ Len(SetV(list, key, item).items) >= Len(list.items)
           /\ ~list.mutable => SetV(list, key, item) = list
           /\ list.mutable /\ key = Nil => SetV(list, key, item) = ListPushed(list, item)
<1>1. /\ list.items \in Seq(Slot) /\ Len(list.items) \in Nat
      /\ Len(list.items) >= Len(list.items)
  BY ListFields
<1>2. CASE ~list.mutable
  <2>1. SetV(list, key, item) = list
    BY <1>2 DEF SetV
  <2>. QED  BY <1>1, <1>2, <2>1
<1>3. CASE list.mutable /\ key = Nil
  <2>1. SetV(list, key, item) = ListPushed(list, item)
    BY <1>3 DEF SetV
  <2>2. Len(Append(list.items, item)) = Len(list.items) + 1
    BY <1>1
  <2>3. /\ ListPushed(list, item) \in List
        /\ ListPushed(list, item).mutable = list.mutable
        /\ ListPushed(list, item).items = Append(list.items, item)
    BY PushedList
  <2>. QED  BY <1>1, <1>3, <2>1, <2>2, <2>3
<1>4. CASE list.mutable /\ key # Nil /\ key + 1 \in DOMAIN list.items
  <2>. DEFINE items == [list.items EXCEPT ![key + 1] = item]
  <2>1. SetV(list, key, item) = [list EXCEPT !.items = items]
    BY <1>4 DEF SetV
  <2>2. items \in Seq(Slot) /\ Len(items) = Len(list.items)
    BY <1>1, <1>4, ExceptSeq
  <2>. HIDE DEF items
  <2>3. /\ [list EXCEPT !.items = items] \in List
        /\ [list EXCEPT !.items = items].items = items
        /\ [list EXCEPT !.items = items].mutable = list.mutable
    BY <2>2 DEF List
  <2>. QED  BY <1>1, <1>4, <2>1, <2>2, <2>3, Zenon
<1>5. CASE list.mutable /\ key # Nil /\ key + 1 \notin DOMAIN list.items
  <2>1. SetV(list, key, item) = list
    BY <1>5 DEF SetV
  <2>. QED  BY <1>1, <1>5, <2>1, Zenon
<1>. QED  BY <1>1, <1>2, <1>3, <1>4, <1>5

(* What the items of a list are after n more: none of those it had is      *)
(* touched, and a frozen list takes none.                                  *)
LEMMA FilledList ==
    ASSUME NEW list \in List, NEW n \in Nat, NEW items, \A i \in 1 .. n : items[i] \in Slot
    PROVE  /\ Filled(list, items, n) \in List
           /\ Filled(list, items, n).mutable = list.mutable
           /\ ~list.mutable => Filled(list, items, n) = list
           /\ list.mutable =>
                /\ Len(Filled(list, items, n).items) = Len(list.items) + n
                /\ \A j \in 1 .. Len(list.items) + n :
                     Filled(list, items, n).items[j] =
                        IF j <= Len(list.items) THEN list.items[j]
                        ELSE items[j - Len(list.items)]
<1>. DEFINE l == Len(list.items)
            Q == [i \in 0 .. n |->
                    {x \in List :
                        /\ x.mutable = list.mutable
                        /\ ~list.mutable => x = list
                        /\ list.mutable =>
                             /\ Len(x.items) = l + i
                             /\ \A j \in 1 .. l + i :
                                  x.items[j] = IF j <= l THEN list.items[j] ELSE items[j - l]}]
<1>1. l \in Nat
  BY ListFields
<1>. HIDE DEF l
<1>2. list \in Q[0]
  <2>1. l + 0 = l /\ \A j \in 1 .. l : j <= l
    BY <1>1
  <2>. QED  BY <2>1 DEF l
<1>3. ASSUME NEW i \in 0 .. n - 1, NEW x \in Q[i] PROVE SetV(x, Nil, items[i + 1]) \in Q[i + 1]
  <2>1. /\ i \in 0 .. n /\ i + 1 \in 0 .. n /\ x \in List
        /\ x.mutable = list.mutable /\ (~list.mutable => x = list)
        /\ list.mutable =>
             /\ Len(x.items) = l + i
             /\ \A j \in 1 .. l + i :
                  x.items[j] = IF j <= l THEN list.items[j] ELSE items[j - l]
    BY <1>3
  <2>. HIDE DEF Q
  <2>2. items[i + 1] \in Slot /\ Nil \in Int \cup {Nil}
    OBVIOUS
  <2>. DEFINE y == SetV(x, Nil, items[i + 1])
  <2>3. /\ y \in List /\ y.mutable = x.mutable /\ (~x.mutable => y = x)
        /\ x.mutable => y = ListPushed(x, items[i + 1])
    BY <2>1, <2>2, SetVList
  <2>. HIDE DEF y
  <2>4. ASSUME list.mutable
        PROVE  /\ Len(y.items) = l + (i + 1)
               /\ \A j \in 1 .. l + (i + 1) :
                    y.items[j] = IF j <= l THEN list.items[j] ELSE items[j - l]
    <3>1. y.items = Append(x.items, items[i + 1]) /\ x.items \in Seq(Slot)
      <4>1. y = ListPushed(x, items[i + 1])
        BY <2>1, <2>3, <2>4, Zenon
      <4>2. ListPushed(x, items[i + 1]).items = Append(x.items, items[i + 1])
        BY <2>1, <2>2, PushedList
      <4>. QED  BY <2>1, <4>1, <4>2, ListFields
    <3>2. /\ Len(y.items) = Len(x.items) + 1
          /\ \A j \in 1 .. Len(x.items) : y.items[j] = x.items[j]
          /\ y.items[Len(x.items) + 1] = items[i + 1]
      BY <2>2, <3>1
    <3>3. Len(x.items) = l + i /\ l + i + 1 = l + (i + 1) /\ i \in Nat
      BY <1>1, <2>1, <2>4
    <3>4. ASSUME NEW j \in 1 .. l + (i + 1)
          PROVE  y.items[j] = IF j <= l THEN list.items[j] ELSE items[j - l]
      <4>1. CASE j \in 1 .. l + i
        BY <2>1, <2>4, <3>2, <3>3, <4>1
      <4>2. CASE j \notin 1 .. l + i
        <5>1. j = (l + i) + 1 /\ ~(j <= l) /\ j - l = i + 1
          BY <1>1, <3>3, <4>2
        <5>. QED  BY <3>2, <3>3, <5>1
      <4>. QED  BY <4>1, <4>2
    <3>. QED  BY <1>1, <3>2, <3>3, <3>4
  <2>5. y \in Q[i + 1]
    BY <2>1, <2>3, <2>4 DEF Q
  <2>. QED  BY <2>5 DEF y
<1>. HIDE DEF Q
<1>4. Filled(list, items, n) \in Q[n]
  BY <1>2, <1>3, FilledKeeps
<1>. QED  BY <1>4 DEF Q, l

(* A list that is not frozen takes them all.                               *)
LEMMA FilledMutable ==
    ASSUME NEW list \in List, list.mutable, NEW n \in Nat, NEW items,
           \A i \in 1 .. n : items[i] \in Slot
    PROVE  /\ Filled(list, items, n).items \in Seq(Slot)
           /\ Len(Filled(list, items, n).items) = Len(list.items) + n
           /\ \A j \in 1 .. Len(list.items) + n :
                Filled(list, items, n).items[j] =
                   IF j <= Len(list.items) THEN list.items[j] ELSE items[j - Len(list.items)]
<1>. DEFINE l == Len(list.items)
            Holds(filled) == /\ Len(filled.items) = l + n
                             /\ \A j \in 1 .. l + n :
                                  filled.items[j] = IF j <= l THEN list.items[j]
                                                    ELSE items[j - l]
<1>1. list.mutable => Holds(Filled(list, items, n))
  BY FilledList
<1>2. Filled(list, items, n) \in List
  BY FilledList
<1>3. Filled(list, items, n).items \in Seq(Slot)
  BY <1>2, ListFields
<1>4. Holds(Filled(list, items, n))
  <2>. HIDE DEF Holds
  <2>. QED  BY <1>1
<1>. QED  BY <1>3, <1>4

(* lsrev and lsclr keep the length.                                        *)
LEMMA ReversedList ==
    ASSUME NEW items \in Seq(Slot)
    PROVE  /\ Reverse(items) \in Seq(Slot) /\ Len(Reverse(items)) = Len(items)
           /\ [n \in DOMAIN items |-> Nil] \in Seq(Slot)
           /\ Len([n \in DOMAIN items |-> Nil]) = Len(items)
<1>. DEFINE l == Len(items)
<1>1. l \in Nat /\ DOMAIN items = 1 .. l
  BY LenProperties
<1>2. \A i \in 1 .. l : items[(l - i) + 1] \in Slot
  <2>. TAKE i \in 1 .. l
  <2>1. (l - i) + 1 \in 1 .. l
    BY <1>1
  <2>. QED  BY <2>1, ElementOfSeq
<1>3. Reverse(items) = [i \in 1 .. l |-> items[(l - i) + 1]]
  BY DEF Reverse
<1>. HIDE DEF l
<1>4. Reverse(items) \in [1 .. l -> Slot] /\ [n \in 1 .. l |-> Nil] \in [1 .. l -> Slot]
  BY <1>2, <1>3 DEF Slot
<1>. QED  BY <1>1, <1>4 DEF l

(* Changing a flag or the items of a list leaves a list.                   *)
LEMMA ListWithItems ==
    ASSUME NEW list \in List, NEW items \in Seq(Slot)
    PROVE  /\ [list EXCEPT !.items = items] \in List
           /\ [list EXCEPT !.items = items].items = items
           /\ [list EXCEPT !.items = items].mutable = list.mutable
  BY DEF List

(* Freezing a list changes its flag alone.                                 *)
LEMMA ListWithFlag ==
    ASSUME NEW list \in List, NEW b \in BOOLEAN
    PROVE  /\ [list EXCEPT !.mutable = b] \in List
           /\ [list EXCEPT !.mutable = b].items = list.items
           /\ [list EXCEPT !.mutable = b].mutable = b
  BY DEF List

-----------------------------------------------------------------------------
(* Iterators                                                               *)

LEMMA ListShapes ==
    ASSUME ListTypes
    PROVE  /\ \A l \in Alive : lists[l] \in List
           /\ \A l \in ListIds \ Alive : lists[l] = Erased
           /\ \A i \in IterIds : iters[i].alive => iters[i] \in Iterator
           /\ \A i \in IterIds : ~iters[i].alive => iters[i] = Erased
           /\ ~Erased.alive
<1>1. ~Erased.alive
  BY DEF Erased
<1>2. \A l \in ListIds : lists[l] \in List => lists[l].alive
  BY DEF List
<1>3. \A i \in IterIds : iters[i] \in Iterator => iters[i].alive
  BY DEF Iterator
<1>. QED  BY <1>1, <1>2, <1>3 DEF ListTypes, Alive

(* The iterators over l when its memory is gone: each stays where it is.   *)
LEMMA DanglingTypes ==
    ASSUME ListTypes, NEW l
    PROVE  /\ Dangling(l) \in [IterIds -> Iterator \cup {Erased}]
           /\ \A i \in IterIds : Dangling(l)[i].alive /\ ~Dangling(l)[i].dangling =>
                 iters[i].alive /\ iters[i].list # l /\ Dangling(l)[i] = iters[i]
<1>1. ASSUME NEW i \in IterIds, iters[i].alive, iters[i].list = l
      PROVE  /\ [iters[i] EXCEPT !.dangling = TRUE] \in Iterator
             /\ [iters[i] EXCEPT !.dangling = TRUE].dangling
  <2>1. iters[i] \in Iterator
    BY <1>1, ListShapes
  <2>. QED  BY <2>1 DEF Iterator
<1>2. \A i \in IterIds : iters[i] \in Iterator \cup {Erased}
  BY DEF ListTypes
<1>. QED  BY <1>1, <1>2 DEF Dangling

(* A list that gets longer or stays as long keeps its iterators inside.    *)
LEMMA ChangesInv ==
    ASSUME ListInv, NEW l \in Alive, NEW list \in List,
           Len(list.items) >= Len(Items(l)), Changes(l, list)
    PROVE  ListInv'
<1>1. l \in ListIds /\ lists[l] \in List
  BY ListShapes DEF ListInv, Alive
<1>2. lists' = [lists EXCEPT ![l] = list]
  BY DEF Changes
<1>3. /\ lists' \in [ListIds -> List \cup {Erased}]
      /\ \A k \in ListIds : lists'[k] = IF k = l THEN list ELSE lists[k]
  BY <1>1, <1>2 DEF ListInv, ListTypes
<1>4. /\ iters' \in [IterIds -> Iterator \cup {Erased}]
      /\ \A i \in IterIds : iters'[i].alive /\ ~iters'[i].dangling =>
            iters[i].alive /\ ~iters[i].dangling /\ iters'[i] = iters[i]
  <2>1. CASE iters' = iters
    BY <2>1 DEF ListInv, ListTypes
  <2>2. CASE iters' = Dangling(l)
    <3>1. /\ Dangling(l) \in [IterIds -> Iterator \cup {Erased}]
          /\ \A i \in IterIds : Dangling(l)[i].alive /\ ~Dangling(l)[i].dangling =>
                iters[i].alive /\ iters[i].list # l /\ Dangling(l)[i] = iters[i]
      BY DanglingTypes DEF ListInv
    <3>. QED  BY <2>2, <3>1
  <2>. QED  BY <2>1, <2>2 DEF Changes
<1>5. ASSUME NEW i \in IterIds, iters'[i].alive, ~iters'[i].dangling
      PROVE  /\ lists'[iters'[i].list].alive
             /\ iters'[i].pos <= iters'[i].end
             /\ iters'[i].end <= Len(lists'[iters'[i].list].items)
  <2>1. iters[i].alive /\ ~iters[i].dangling /\ iters'[i] = iters[i]
    BY <1>4, <1>5
  <2>. DEFINE k == iters[i].list
  <2>2. iters[i] \in Iterator /\ k \in ListIds /\ iters[i].end \in Nat
    BY <2>1, ListShapes DEF ListInv, Iterator
  <2>3. /\ lists[k].alive /\ iters[i].pos <= iters[i].end
        /\ iters[i].end <= Len(lists[k].items)
    BY <2>1 DEF ListInv, IteratorsInside, Items
  <2>. HIDE DEF k
  <2>4. lists'[k].alive /\ iters[i].end <= Len(lists'[k].items)
    <3>1. CASE k = l
      <4>1. Len(list.items) \in Nat /\ Len(lists[l].items) \in Nat /\ list.alive
        BY <1>1, ListFields
      <4>. QED  BY <1>1, <1>3, <2>2, <2>3, <3>1, <4>1 DEF Items
    <3>2. CASE k # l
      BY <1>3, <2>2, <2>3, <3>2
    <3>. QED  BY <3>1, <3>2
  <2>. QED  BY <2>1, <2>3, <2>4 DEF k
<1>6. IteratorsInside'
  BY <1>5 DEF IteratorsInside, Items
<1>. QED  BY <1>3, <1>4, <1>6 DEF ListInv, ListTypes

(* A new list takes a free cell, which no iterator is inside of.           *)
LEMMA StoresInv ==
    ASSUME ListInv, NEW list \in List, Stores(list)
    PROVE  ListInv'
<1>1. PICK l \in ListIds \ Alive : lists' = [lists EXCEPT ![l] = list]
  BY DEF Stores
<1>2. iters' = iters
  BY DEF Stores
<1>3. /\ lists' \in [ListIds -> List \cup {Erased}]
      /\ \A k \in Alive : lists'[k] = lists[k]
  BY <1>1 DEF ListInv, ListTypes, Alive
<1>4. IteratorsInside'
  <2>1. \A i \in IterIds : iters[i].alive => iters[i].list \in ListIds
    BY ListShapes DEF ListInv, Iterator
  <2>. QED  BY <1>2, <1>3, <2>1 DEF ListInv, IteratorsInside, Items, Alive
<1>. QED  BY <1>2, <1>3, <1>4 DEF ListInv, ListTypes

(* Collecting a list ends the iterators over it.                           *)
LEMMA CollectListInv ==
    ASSUME ListInv, NEW l \in Alive, CollectList(l)
    PROVE  ListInv'
<1>1. lists' = [lists EXCEPT ![l] = Erased] /\ iters' = Dangling(l) /\ l \in ListIds
  BY DEF CollectList, Alive
<1>2. /\ lists' \in [ListIds -> List \cup {Erased}]
      /\ \A k \in ListIds : k # l => lists'[k] = lists[k]
  BY <1>1 DEF ListInv, ListTypes
<1>3. /\ iters' \in [IterIds -> Iterator \cup {Erased}]
      /\ \A i \in IterIds : iters'[i].alive /\ ~iters'[i].dangling =>
            iters[i].alive /\ iters[i].list # l /\ iters'[i] = iters[i]
  BY <1>1, DanglingTypes DEF ListInv
<1>4. IteratorsInside'
  <2>1. \A i \in IterIds : iters[i].alive => iters[i].list \in ListIds
    BY ListShapes DEF ListInv, Iterator
  <2>. QED  BY <1>2, <1>3, <2>1 DEF ListInv, IteratorsInside, Items
<1>. QED  BY <1>2, <1>3, <1>4 DEF ListInv, ListTypes

(* What is done to one iterator.                                           *)
LEMMA IterInv ==
    ASSUME ListInv, NEW i \in IterIds, NEW iter \in Iterator \cup {Erased}, lists' = lists,
           iters' = [iters EXCEPT ![i] = iter],
           iter.alive /\ ~iter.dangling =>
               /\ lists[iter.list].alive
               /\ iter.pos <= iter.end /\ iter.end <= Len(Items(iter.list))
    PROVE  ListInv'
<1>1. /\ iters' \in [IterIds -> Iterator \cup {Erased}]
      /\ \A k \in IterIds : iters'[k] = IF k = i THEN iter ELSE iters[k]
  BY DEF ListInv, ListTypes
<1>2. IteratorsInside'
  BY <1>1 DEF ListInv, IteratorsInside, Items
<1>. QED  BY <1>1, <1>2 DEF ListInv, ListTypes

(* A new iterator is in its list.                                          *)
LEMMA MkIterInv ==
    ASSUME ListInv, NEW i \in IterIds, NEW l \in ListIds, MkIter(i, l)
    PROVE  ListInv'
<1>. DEFINE iter == [alive |-> TRUE, list |-> l, pos |-> 0,
                     end |-> Len(Items(l)), dangling |-> FALSE]
<1>1. l \in Alive /\ iters' = [iters EXCEPT ![i] = iter] /\ lists' = lists
  BY DEF MkIter
<1>2. lists[l].alive /\ Len(Items(l)) \in Nat
  BY <1>1, ListShapes, ListFields DEF ListInv, Items
<1>3. /\ iter \in Iterator /\ iter.list = l /\ iter.pos = 0 /\ iter.end = Len(Items(l))
  BY <1>2 DEF Iterator
<1>4. iter.pos <= iter.end /\ iter.end <= Len(Items(iter.list))
  BY <1>2, <1>3
<1>. HIDE DEF iter
<1>. QED  BY <1>1, <1>2, <1>3, <1>4, IterInv

(* Moving an iterator leaves it in its list, or at the end.                *)
LEMMA MvIterInv ==
    ASSUME ListInv, NEW i \in IterIds, MvIter(i)
    PROVE  ListInv'
<1>. DEFINE iter == Moved(iters[i])
<1>1. iters[i].alive /\ iters' = [iters EXCEPT ![i] = iter] /\ lists' = lists
  BY DEF MvIter
<1>2. /\ iters[i] \in Iterator /\ iters[i].pos \in Nat /\ iters[i].end \in Nat
  BY <1>1, ListShapes DEF ListInv, Iterator
<1>3. iter \in Iterator /\ iter.list = iters[i].list /\ iter.end = iters[i].end
      /\ iter.pos = (IF iters[i].pos = iters[i].end THEN iters[i].pos ELSE iters[i].pos + 1)
      /\ (iter.dangling <=> iters[i].dangling)
  <2>1. CASE iters[i].pos = iters[i].end
    <3>1. iter = iters[i]
      BY <2>1 DEF Moved
    <3>. QED  BY <1>2, <2>1, <3>1
  <2>2. CASE iters[i].pos # iters[i].end
    <3>1. iter = [iters[i] EXCEPT !.pos = @ + 1]
      BY <2>2 DEF Moved
    <3>2. iters[i].pos + 1 \in Nat
      BY <1>2
    <3>. HIDE DEF iter
    <3>3. /\ iter \in Iterator /\ iter.list = iters[i].list /\ iter.end = iters[i].end
          /\ iter.pos = iters[i].pos + 1 /\ iter.dangling = iters[i].dangling
      BY <1>2, <3>1, <3>2 DEF Iterator
    <3>. QED  BY <2>2, <3>3
  <2>. QED  BY <2>1, <2>2
<1>4. ~iters[i].dangling =>
          /\ lists[iters[i].list].alive
          /\ iters[i].pos <= iters[i].end /\ iters[i].end <= Len(Items(iters[i].list))
  BY <1>1 DEF ListInv, IteratorsInside
<1>. HIDE DEF iter
<1>5. iters[i].pos <= iters[i].end => iter.pos <= iter.end
  BY <1>2, <1>3
<1>. QED  BY <1>1, <1>3, <1>4, <1>5, IterInv

(* Collecting an iterator frees nothing else.                              *)
LEMMA CollectIterInv ==
    ASSUME ListInv, NEW i \in IterIds, CollectIter(i)
    PROVE  ListInv'
  BY IterInv DEF CollectIter, Erased

(* What lscut copies is what is in memory from the beginning of the slice. *)
Cuts(l, begin, length) ==
    {cut \in [1 .. length -> Slot] :
        \A n \in 1 .. length :
            cut[n] \in ReadAt(l, lists[l].capacity, Size(begin) + n)}

(* What lscut does: nothing, or a new list filled from the chosen items.   *)
LEMMA CutListIs ==
    ASSUME NEW l \in ListIds, NEW begin \in Numbers, NEW length \in Numbers,
           CutList(l, begin, length)
    PROVE  /\ l \in Alive
           /\ call' = [native |-> "lscut", src |-> l, begin |-> begin, length |-> length]
           /\ \/ UNCHANGED <<lists, iters>>
              \/ /\ CutFits(l, begin, length) /\ Size(length) = length
                 /\ \E cut \in Cuts(l, begin, length) :
                       Stores(Filled(NewList(length), cut, length))
  BY DEF CutList, Cuts, Slot

(* What is read of a list in the memory it is in.                          *)
LEMMA ReadHere ==
    ASSUME ListTypes, NEW l \in Alive, NEW n
    PROVE  /\ ReadAt(l, lists[l].capacity, n) \subseteq Slot
           /\ n \in 1 .. Len(Items(l)) => ReadAt(l, lists[l].capacity, n) = {Items(l)[n]}
<1>1. Items(l) \in Seq(Slot) /\ \A i \in 1 .. Len(Items(l)) : Items(l)[i] \in Slot
  BY ListShapes, ListFields DEF Items
<1>2. DOMAIN Items(l) = 1 .. Len(Items(l))
  BY <1>1
<1>. QED  BY <1>1, <1>2 DEF ReadAt, Slot

(* A number that is not negative is itself as a size_t, and so is the sum  *)
(* of two of them.                                                         *)
LEMMA Sizes ==
    ASSUME NEW n \in Int, 0 <= n, n < SizeValues
    PROVE  Size(n) = n
<1>1. SizeValues \in Nat
  BY ListParams
<1>. QED  BY <1>1 DEF Size

(* Every step on lists and iterators keeps the invariant ...               *)
LEMMA NextListInv ==
    ASSUME ListInv, CopyInv, [ListNext]_list_vars
    PROVE  ListInv'
<1>1. CASE UNCHANGED list_vars
  BY <1>1 DEF list_vars, ListInv, ListTypes, IteratorsInside, Items
<1>2. CASE ListNext
  <2>1. ASSUME NEW x \in Item, MkList(<<>>) \/ MkList(<<x>>) PROVE ListInv'
    <3>1. /\ <<>> \in Seq(Slot) /\ <<x>> \in Seq(Slot)
          /\ Len(<<>>) = 0 /\ Len(<<x>>) = 1 /\ <<x>>[1] \in Slot
      BY DEF Slot
    <3>2. NewList(0) \in List /\ NewList(1) \in List
      BY NewListIs
    <3>3. Filled(NewList(0), <<>>, 0) \in List
      <4>1. \A i \in 1 .. 0 : <<>>[i] \in Slot
        OBVIOUS
      <4>. DEFINE items == <<>>
      <4>. HIDE DEF items
      <4>2. Filled(NewList(0), items, 0) \in List
        BY <3>2, <4>1, FilledList DEF items
      <4>. QED  BY <4>2 DEF items
    <3>4. Filled(NewList(1), <<x>>, 1) \in List
      <4>1. \A i \in 1 .. 1 : <<x>>[i] \in Slot
        BY <3>1
      <4>. DEFINE items == <<x>>
      <4>. HIDE DEF items
      <4>2. Filled(NewList(1), items, 1) \in List
        BY <3>2, <4>1, FilledList DEF items
      <4>. QED  BY <4>2 DEF items
    <3>. QED  BY <2>1, <3>1, <3>3, <3>4, StoresInv DEF MkList
  <2>2. ASSUME NEW l \in ListIds, Freeze(l) \/ Thaw(l) \/ ReverseList(l) \/ ClearList(l)
        PROVE  ListInv'
    <3>1. l \in Alive
      BY <2>2 DEF Freeze, Thaw, ReverseList, ClearList, Changes
    <3>2. lists[l] \in List /\ Items(l) \in Seq(Slot) /\ Len(Items(l)) \in Nat
      BY <3>1, ListShapes, ListFields DEF ListInv, Items
    <3>3. PICK list \in {[lists[l] EXCEPT !.mutable = FALSE],
                         [lists[l] EXCEPT !.mutable = TRUE],
                         [lists[l] EXCEPT !.items = Reverse(Items(l))],
                         [lists[l] EXCEPT !.items = [n \in DOMAIN Items(l) |-> Nil]]} :
                Changes(l, list)
      BY <2>2 DEF Freeze, Thaw, ReverseList, ClearList, Items
    <3>4. list \in List /\ Len(list.items) = Len(Items(l))
      <4>1. /\ Reverse(Items(l)) \in Seq(Slot) /\ Len(Reverse(Items(l))) = Len(Items(l))
            /\ [n \in DOMAIN Items(l) |-> Nil] \in Seq(Slot)
            /\ Len([n \in DOMAIN Items(l) |-> Nil]) = Len(Items(l))
        BY <3>2, ReversedList
      <4>2. CASE \E b \in BOOLEAN : list = [lists[l] EXCEPT !.mutable = b]
        BY <3>2, <4>2, ListWithFlag DEF Items
      <4>3. CASE \E items \in Seq(Slot) :
                   list = [lists[l] EXCEPT !.items = items] /\ Len(items) = Len(Items(l))
        BY <3>2, <4>3, ListWithItems
      <4>. QED  BY <3>3, <4>1, <4>2, <4>3
    <3>. QED  BY <3>1, <3>2, <3>3, <3>4, ChangesInv
  <2>3. ASSUME NEW l \in ListIds, CollectList(l) PROVE ListInv'
    BY <2>3, CollectListInv DEF CollectList
  <2>4. ASSUME NEW l \in ListIds, NEW x \in Item, NEW key \in Numbers \cup {Nil},
               SetItem(l, key, x)
        PROVE  ListInv'
    <3>1. l \in Alive /\ lists[l] \in List /\ Changes(l, SetV(lists[l], key, x))
      BY <2>4, ListShapes DEF SetItem, ListInv
    <3>2. x \in Slot /\ key \in Int \cup {Nil}
      BY ListParams DEF Slot
    <3>. QED  BY <3>1, <3>2, SetVList, ChangesInv DEF Items
  <2>5. CASE CatLists
    <3>1. CASE CatTurn
      <4>1. Copying /\ copy.dest \in Alive /\ copy.src \in Alive
        BY <3>1 DEF CatTurn, CopyInv
      <4>2. PICK item \in ReadAt(copy.src, SourceMemory, copy.pos + 1) :
                Changes(copy.dest, SetV(lists[copy.dest], Nil, item))
        BY <3>1 DEF CatTurn
      <4>3. item \in Slot /\ Nil \in Int \cup {Nil}
        BY <4>1, ReadHere DEF SourceMemory, ListInv
      <4>4. lists[copy.dest] \in List
        BY <4>1, ListShapes DEF ListInv
      <4>. QED  BY <4>1, <4>2, <4>3, <4>4, SetVList, ChangesInv DEF Items
    <3>2. CASE ~CatTurn
      <4>1. UNCHANGED <<lists, iters>>
        BY <2>5, <3>2 DEF CatLists, CatBegin, CatEnd
      <4>. QED  BY <4>1 DEF ListInv, ListTypes, IteratorsInside, Items
    <3>. QED  BY <3>1, <3>2
  <2>6. ASSUME NEW l \in ListIds, NEW begin \in Numbers, NEW length \in Numbers,
               CutList(l, begin, length)
        PROVE  ListInv'
    <3>1. CASE UNCHANGED <<lists, iters>>
      BY <3>1 DEF ListInv, ListTypes, IteratorsInside, Items
    <3>2. ASSUME Size(length) = length, NEW cut \in Cuts(l, begin, length),
                 Stores(Filled(NewList(length), cut, length))
          PROVE  ListInv'
      <4>1. length \in Nat
        BY <3>2, ListParams DEF Size
      <4>2. \A i \in 1 .. length : cut[i] \in Slot
        BY <2>6, ReadHere DEF Cuts, ListInv, CutList
      <4>3. Filled(NewList(length), cut, length) \in List
        BY <4>1, <4>2, NewListIs, FilledList
      <4>. QED  BY <3>2, <4>3, StoresInv
    <3>. QED  BY <2>6, <3>1, <3>2, CutListIs
  <2>. QED  BY <1>2, <2>1, <2>2, <2>3, <2>4, <2>5, <2>6, MkIterInv, MvIterInv,
               CollectIterInv DEF ListNext, ListHandler
<1>. QED  BY <1>1, <1>2

(* A step changes one list and leaves the others.                          *)
LEMMA ChangesOne ==
    ASSUME ListInv, NEW l \in Alive, NEW list, Changes(l, list)
    PROVE  \A k \in ListIds : lists'[k] = IF k = l THEN list ELSE lists[k]
  BY DEF Changes, ListInv, ListTypes, Alive

(* What a turn of lscat reads is the next item that the source held when   *)
(* lscat was called: the memory is that of the list as it is now, and what *)
(* was pushed since is behind it.                                          *)
LEMMA TurnReads ==
    ASSUME ListInv, CopyInv, CatTurn
    PROVE  /\ copy.pos + 1 \in 1 .. Len(copy.from)
           /\ ReadAt(copy.src, SourceMemory, copy.pos + 1) = {copy.from[copy.pos + 1]}
<1>. DEFINE from == copy.from
            n == copy.pos + 1
            src == copy.src
<1>1. /\ from \in Seq(Slot) /\ Len(from) \in Nat /\ n \in 1 .. Len(from)
      /\ src \in Alive
  BY DEF CatTurn, CopyInv, Copy, CopyEnds
<1>2. lists[src] \in List /\ Items(src) \in Seq(Slot)
  BY <1>1, ListShapes, ListFields DEF ListInv, Items
<1>3. n \in 1 .. Len(Items(src)) /\ Items(src)[n] = from[n]
  <2>1. CASE src # copy.dest
    BY <1>1, <2>1 DEF CatTurn, CopyInv
  <2>2. CASE src = copy.dest
    <3>. DEFINE rest == IF lists[copy.dest].mutable THEN SubSeq(from, 1, copy.pos) ELSE <<>>
    <3>1. Items(src) = from \o rest
      BY <2>2 DEF CatTurn, CopyInv
    <3>2. rest \in Seq(Slot)
      <4>1. copy.pos \in Int /\ \A i \in 1 .. copy.pos : i \in 1 .. Len(from)
        BY <1>1 DEF CatTurn, CopyInv, Copy
      <4>2. \A i \in 1 .. copy.pos : from[i] \in Slot
        BY <1>1, <4>1, ElementOfSeq
      <4>3. SubSeq(from, 1, copy.pos) \in Seq(Slot)
        BY <4>1, <4>2, SubSeqProperties
      <4>. QED  BY <4>3
    <3>. HIDE DEF rest, from, n, src
    <3>3. /\ Len(from \o rest) = Len(from) + Len(rest)
          /\ \A i \in 1 .. Len(from) + Len(rest) :
                (from \o rest)[i] = IF i <= Len(from) THEN from[i] ELSE rest[i - Len(from)]
      BY <1>1, <3>2, ConcatProperties
    <3>4. n \in 1 .. Len(from) + Len(rest) /\ n <= Len(from)
      BY <1>1, <3>2, LenProperties
    <3>. QED  BY <3>1, <3>3, <3>4
  <2>. QED  BY <2>1, <2>2
<1>. QED  BY <1>1, <1>3, ReadHere DEF SourceMemory, ListInv

(* One item more of the source behind what the destination held.           *)
LEMMA OneItemMore ==
    ASSUME NEW onto \in Seq(Slot), NEW from \in Seq(Slot), NEW n \in 1 .. Len(from)
    PROVE  Append(onto \o SubSeq(from, 1, n - 1), from[n]) = onto \o SubSeq(from, 1, n)
<1>1. n \in Nat /\ n - 1 \in Int /\ Len(from) \in Nat /\ 1 \in 1 .. Len(from)
  BY LenProperties
<1>2. from[n] \in Slot /\ \A i \in 1 .. n - 1 : from[i] \in Slot
  <2>1. \A i \in 1 .. n - 1 : i \in 1 .. Len(from)
    BY <1>1
  <2>. QED  BY <2>1, ElementOfSeq
<1>. DEFINE first == SubSeq(from, 1, n - 1)
<1>3. first \in Seq(Slot) /\ <<from[n]>> \in Seq(Slot)
  BY <1>1, <1>2, SubSeqProperties
<1>4. SubSeq(from, 1, n) = first \o <<from[n]>>
  BY <1>1, SubSeqRecursiveSecond
<1>. HIDE DEF first
<1>5. onto \o first \in Seq(Slot)
  BY <1>3, ConcatProperties
<1>6. Append(onto \o first, from[n]) = (onto \o first) \o <<from[n]>>
  BY <1>2, <1>5, AppendIsConcat
<1>7. (onto \o first) \o <<from[n]>> = onto \o (first \o <<from[n]>>)
  <2>. DEFINE last == <<from[n]>>
  <2>. HIDE DEF last
  <2>1. last \in Seq(Slot)
    BY <1>3 DEF last
  <2>2. (onto \o first) \o last = onto \o (first \o last)
    BY <1>3, <2>1, ConcatAssociative, SMTT(60)
  <2>. QED  BY <2>2 DEF last
<1>. QED  BY <1>4, <1>6, <1>7 DEF first

(* A turn of lscat keeps what its locals say.                              *)
LEMMA CatTurnInv ==
    ASSUME ListInv, CopyInv, CatTurn
    PROVE  CopyInv'
<1>. DEFINE dest == copy.dest
            src == copy.src
            from == copy.from
            n == copy.pos + 1
<1>1. /\ copy \in Copy /\ copy.length = Len(from) /\ from \in Seq(Slot)
      /\ copy.onto \in Seq(Slot) /\ copy.pos \in Nat
      /\ dest \in Alive /\ src \in Alive /\ dest \in ListIds /\ src \in ListIds
  BY DEF CatTurn, CopyInv, Copy
<1>2. /\ Items(dest) = copy.onto \o (IF lists[dest].mutable THEN SubSeq(from, 1, copy.pos)
                                     ELSE <<>>)
      /\ IF src = dest THEN copy.onto = from ELSE Items(src) = from
  BY DEF CatTurn, CopyInv
<1>3. n \in 1 .. Len(from) /\ Changes(dest, SetV(lists[dest], Nil, from[n]))
  BY TurnReads DEF CatTurn
<1>4. from[n] \in Slot /\ Nil \in Int \cup {Nil} /\ n \in Nat /\ n - 1 = copy.pos
  BY <1>1, <1>3, ElementOfSeq
<1>5. /\ copy' \in Copy /\ copy'.dest = dest /\ copy'.src = src /\ copy'.from = from
      /\ copy'.onto = copy.onto /\ copy'.pos = n /\ copy'.length = copy.length
  BY <1>1, <1>4 DEF CatTurn, Copy
<1>. DEFINE list == SetV(lists[dest], Nil, from[n])
<1>6. lists[dest] \in List
  BY <1>1, ListShapes DEF ListInv
<1>7. /\ list \in List /\ list.mutable = lists[dest].mutable
      /\ ~lists[dest].mutable => list = lists[dest]
      /\ lists[dest].mutable => list = ListPushed(lists[dest], from[n])
  BY <1>4, <1>6, SetVList
<1>8. lists[dest].mutable => list.items = Append(Items(dest), from[n])
  BY <1>4, <1>6, <1>7, PushedList DEF Items
<1>9. list.items = copy.onto \o (IF list.mutable THEN SubSeq(from, 1, n) ELSE <<>>)
  <2>1. CASE lists[dest].mutable
    <3>1. list.items = Append(copy.onto \o SubSeq(from, 1, n - 1), from[n])
      BY <1>2, <1>4, <1>8, <2>1
    <3>2. list.items = copy.onto \o SubSeq(from, 1, n)
      BY <1>1, <1>3, <3>1, OneItemMore
    <3>. QED  BY <1>7, <2>1, <3>2
  <2>2. CASE ~lists[dest].mutable
    BY <1>2, <1>7, <2>2 DEF Items
  <2>. QED  BY <2>1, <2>2
<1>. HIDE DEF list, dest, src, from, n
<1>10. /\ \A k \in ListIds : lists'[k] = IF k = dest THEN list ELSE lists[k]
       /\ list.alive
  BY <1>1, <1>3, <1>7, ChangesOne, ListFields DEF list
<1>11. dest \in Alive' /\ src \in Alive'
  BY <1>1, <1>10 DEF Alive
<1>12. /\ lists'[dest].items =
              copy.onto \o (IF lists'[dest].mutable THEN SubSeq(from, 1, n) ELSE <<>>)
       /\ IF src = dest THEN copy.onto = from ELSE lists'[src].items = from
  <2>1. lists'[dest] = list
    BY <1>1, <1>10
  <2>2. src # dest => lists'[src] = lists[src]
    BY <1>1, <1>10
  <2>. QED  BY <1>2, <1>9, <2>1, <2>2 DEF Items
<1>13. n <= Len(from)
  BY <1>3
<1>14. /\ copy' \in Copy /\ copy'.length = Len(copy'.from) /\ copy'.pos <= copy'.length
       /\ copy'.dest \in Alive' /\ copy'.src \in Alive'
  BY <1>1, <1>5, <1>11, <1>13
<1>. QED  BY <1>5, <1>12, <1>14 DEF CopyInv, Items

(* ... and so do the others: nothing else happens while lscat runs.        *)
LEMMA NextCopyInv ==
    ASSUME ListInv, CopyInv, [ListNext]_list_vars
    PROVE  CopyInv'
<1>1. CASE UNCHANGED list_vars
  BY <1>1 DEF list_vars, CopyInv, Copying, Items, Alive
<1>2. CASE ~Copying /\ UNCHANGED copy
  BY <1>2 DEF CopyInv, Copying
<1>3. ASSUME NEW dest \in ListIds, NEW src \in ListIds, CatBegin(dest, src)
      PROVE  CopyInv'
  <2>1. /\ lists[dest] \in List /\ lists[src] \in List /\ dest \in Alive /\ src \in Alive
        /\ UNCHANGED lists
    BY <1>3, ListShapes DEF CatBegin, ListInv
  <2>2. /\ Items(dest) \in Seq(Slot) /\ Items(src) \in Seq(Slot)
        /\ Len(Items(src)) \in Nat /\ lists[src].capacity \in Nat \ {0}
    BY <2>1, ListFields DEF Items
  <2>3. /\ copy' \in Copy /\ copy'.dest = dest /\ copy'.src = src
        /\ copy'.onto = Items(dest) /\ copy'.from = Items(src)
        /\ copy'.pos = 0 /\ copy'.length = Len(Items(src))
    BY <1>3, <2>2 DEF CatBegin, Copy
  <2>4. SubSeq(Items(src), 1, 0) = <<>> /\ Items(dest) \o <<>> = Items(dest)
    BY <2>2, SubSeqEmpty, ConcatEmptySeq
  <2>5. 0 <= Len(Items(src))
    BY <2>2
  <2>6. Items(dest) = Items(dest) \o (IF lists[dest].mutable THEN SubSeq(Items(src), 1, 0)
                                      ELSE <<>>)
    BY <2>4
  <2>. QED  BY <2>1, <2>3, <2>5, <2>6 DEF CopyInv, Items, Alive
<1>4. CASE CatEnd
  BY <1>4 DEF CatEnd, CopyInv, Copying
<1>. QED  BY <1>1, <1>2, <1>3, <1>4, CatTurnInv DEF ListNext, CatLists

(* ... which hold when there is none of them.                              *)
LEMMA InitListInv ==
    ASSUME ListInit
    PROVE  ListInv /\ CopyInv
  BY DEF ListInit, ListInv, ListTypes, IteratorsInside, Erased, CopyInv, Copying

(* Every list is well formed, no iterator is past the end of its list, and *)
(* lscat is where its locals say, in every state (obj_list.c,              *)
(* tb_list_stdlib.c, obj_iterator.c).                                      *)
THEOREM ListInvariant == ListSpec => [](ListInv /\ CopyInv)
<1>1. ListInit => ListInv /\ CopyInv
  BY InitListInv
<1>2. ListInv /\ CopyInv /\ [ListNext]_list_vars => (ListInv /\ CopyInv)'
  BY NextListInv, NextCopyInv
<1>. QED  BY <1>1, <1>2, PTL DEF ListSpec

(* No iterator points past the items of its list while the list is where   *)
(* it was: whatever is stored, reversed, joined, cut or collected, between *)
(* MK_ITER and MV_ITER of obj_iterator.c.                                  *)
THEOREM ListIteratorsInside == ListSpec => []IteratorsInside
  BY ListInvariant, PTL DEF ListInv

-----------------------------------------------------------------------------
(* Steps                                                                   *)

(* Storing a list takes one free id.                                       *)
LEMMA StoresOne ==
    ASSUME ListInv, NEW list, Stores(list)
    PROVE  /\ \A k \in Alive : lists'[k] = lists[k]
           /\ \A k \in ListIds : lists'[k] # lists[k] => lists'[k] = list
  BY DEF Stores, ListInv, ListTypes, Alive

(* What each step does to a list that is and stays frozen.                 *)
LEMMA FrozenStep ==
    ASSUME ListInv, CopyInv, ListNext, NEW l \in Alive,
           lists'[l].alive, ~lists[l].mutable, ~lists'[l].mutable
    PROVE  lists'[l].items \in
              {Items(l), Reverse(Items(l)), [n \in DOMAIN Items(l) |-> Nil]}
<1>1. l \in ListIds /\ lists[l] \in List
  BY ListShapes DEF ListInv, Alive
<1>2. CASE lists'[l] = lists[l]
  BY <1>2 DEF Items
<1>3. ASSUME NEW list, Stores(list) PROVE lists'[l] = lists[l]
  BY <1>3, StoresOne
<1>4. ASSUME NEW k \in ListIds, NEW list, Changes(k, list), k # l PROVE lists'[l] = lists[l]
  <2>1. k \in Alive
    BY <1>4 DEF Changes
  <2>. QED  BY <1>1, <1>4, <2>1, ChangesOne
<1>5. ASSUME NEW list, Changes(l, list) PROVE lists'[l] = list
  BY <1>1, <1>5, ChangesOne
<1>6. CASE \E x \in Item : MkList(<<>>) \/ MkList(<<x>>)
  BY <1>2, <1>3, <1>6 DEF MkList
<1>7. ASSUME NEW k \in ListIds,
             Freeze(k) \/ Thaw(k) \/ ReverseList(k) \/ ClearList(k) \/ CollectList(k)
      PROVE  lists'[l].items \in
                {Items(l), Reverse(Items(l)), [n \in DOMAIN Items(l) |-> Nil]}
  <2>1. CASE k # l
    <3>1. CASE CollectList(k)
      <4>1. lists'[l] = lists[l]
        BY <1>1, <2>1, <3>1 DEF CollectList, ListInv, ListTypes
      <4>. QED  BY <1>2, <4>1
    <3>2. CASE ~CollectList(k)
      BY <1>2, <1>4, <1>7, <2>1, <3>2 DEF Freeze, Thaw, ReverseList, ClearList
    <3>. QED  BY <3>1, <3>2
  <2>2. CASE k = l /\ Freeze(l)
    <3>1. lists'[l] = [lists[l] EXCEPT !.mutable = FALSE]
      BY <1>5, <2>2 DEF Freeze
    <3>. QED  BY <1>1, <3>1, ListWithFlag DEF Items
  <2>3. CASE k = l /\ Thaw(l)
    <3>1. lists'[l] = [lists[l] EXCEPT !.mutable = TRUE]
      BY <1>5, <2>3 DEF Thaw
    <3>. QED  BY <1>1, <3>1, ListWithFlag
  <2>4. CASE k = l /\ ReverseList(l)
    <3>1. lists'[l] = [lists[l] EXCEPT !.items = Reverse(Items(l))]
      BY <1>5, <2>4 DEF ReverseList, Items
    <3>2. lists'[l].items = Reverse(Items(l))
      BY <1>1, <3>1 DEF List
    <3>. QED  BY <3>2
  <2>5. CASE k = l /\ ClearList(l)
    <3>1. lists'[l] = [lists[l] EXCEPT !.items = [n \in DOMAIN Items(l) |-> Nil]]
      BY <1>5, <2>5 DEF ClearList, Items
    <3>2. lists'[l].items = [n \in DOMAIN Items(l) |-> Nil]
      BY <1>1, <3>1 DEF List
    <3>. QED  BY <3>2
  <2>6. CASE k = l /\ CollectList(l)
    <3>1. lists'[l] = Erased
      BY <1>1, <2>6 DEF CollectList, ListInv, ListTypes
    <3>. QED  BY <3>1 DEF Erased
  <2>. QED  BY <1>7, <2>1, <2>2, <2>3, <2>4, <2>5, <2>6
<1>8. ASSUME NEW k \in ListIds, NEW x \in Item, NEW key \in Numbers \cup {Nil},
             SetItem(k, key, x)
      PROVE  lists'[l] = lists[l]
  <2>1. Changes(k, SetV(lists[k], key, x))
    BY <1>8 DEF SetItem
  <2>2. CASE k = l
    <3>1. x \in Slot /\ key \in Int \cup {Nil}
      BY ListParams DEF Slot
    <3>2. SetV(lists[l], key, x) = lists[l]
      BY <1>1, <3>1, SetVList
    <3>. QED  BY <1>5, <2>1, <2>2, <3>2
  <2>. QED  BY <1>4, <2>1, <2>2
<1>9. CASE CatLists
  <2>1. CASE CatTurn
    <3>1. Copying /\ copy.dest \in Alive /\ copy.src \in Alive
      BY <2>1 DEF CatTurn, CopyInv
    <3>2. PICK item \in ReadAt(copy.src, SourceMemory, copy.pos + 1) :
              Changes(copy.dest, SetV(lists[copy.dest], Nil, item))
      BY <2>1 DEF CatTurn
    <3>3. item \in Slot /\ Nil \in Int \cup {Nil}
      BY <3>1, ReadHere DEF SourceMemory, ListInv
    <3>4. CASE copy.dest = l
      <4>1. SetV(lists[l], Nil, item) = lists[l]
        BY <1>1, <3>3, SetVList
      <4>. QED  BY <1>2, <1>5, <3>2, <3>4, <4>1
    <3>. QED  BY <1>2, <1>4, <3>1, <3>2, <3>4 DEF Alive
  <2>2. CASE ~CatTurn
    BY <1>2, <1>9, <2>2 DEF CatLists, CatBegin, CatEnd
  <2>. QED  BY <2>1, <2>2
<1>10. ASSUME NEW k \in ListIds, NEW begin \in Numbers, NEW length \in Numbers,
              CutList(k, begin, length)
       PROVE  lists'[l] = lists[l]
  BY <1>3, <1>10, CutListIs
<1>11. ASSUME NEW i \in IterIds,
              MvIter(i) \/ CollectIter(i) \/ \E k \in ListIds : MkIter(i, k)
       PROVE  lists'[l] = lists[l]
  BY <1>11 DEF MvIter, CollectIter, MkIter
<1>. QED  BY <1>2, <1>6, <1>7, <1>8, <1>9, <1>10, <1>11
             DEF ListNext, ListHandler

(* A list that stays frozen keeps its length, and its items but for lsrev  *)
(* and lsclr: list_set_v_fn is asked by every assignment and by lscat.     *)
THEOREM ListFrozenStay == ListSpec => FrozenStay
<1>1. ListInv /\ CopyInv /\ [ListNext]_list_vars =>
         [\A l \in Alive :
            lists'[l].alive /\ ~lists[l].mutable /\ ~lists'[l].mutable =>
               lists'[l].items \in {Items(l), Reverse(Items(l)), [n \in DOMAIN Items(l) |-> Nil]}
         ]_list_vars
  BY FrozenStep
<1>. QED  BY <1>1, ListInvariant, PTL DEF ListSpec, FrozenStay

(* Which native was called last.                                           *)
LEMMA CallOfStep ==
    ASSUME ListNext, call'.native # "none"
    PROVE  \E l \in ListIds, begin, length \in Numbers : CutList(l, begin, length)
<1>1. ASSUME NEW items, MkList(items) PROVE call'.native = "none"
  BY <1>1 DEF MkList, NoCall
<1>2. ASSUME NEW l \in ListIds,
             Freeze(l) \/ Thaw(l) \/ ReverseList(l) \/ ClearList(l) \/ CollectList(l)
      PROVE  call'.native = "none"
  BY <1>2 DEF Freeze, Thaw, ReverseList, ClearList, CollectList, NoCall
<1>3. ASSUME NEW l \in ListIds, NEW x \in Item, NEW key \in Numbers \cup {Nil},
             SetItem(l, key, x)
      PROVE  call'.native = "none"
  BY <1>3 DEF SetItem, NoCall
<1>4. ASSUME NEW i \in IterIds,
             MvIter(i) \/ CollectIter(i) \/ \E l \in ListIds : MkIter(i, l)
      PROVE  call'.native = "none"
  BY <1>4 DEF MvIter, CollectIter, MkIter, NoCall
<1>5. CASE CatLists /\ call' = NoCall
  BY <1>5 DEF NoCall
<1>. QED  BY <1>1, <1>2, <1>3, <1>4, <1>5 DEF ListNext, ListHandler

(* lscat appends what its source held when it was called, also to itself,  *)
(* wherever the destination moves to between the turns: native_lscat.      *)
THEOREM ListCatJoins == ListSpec => []CatJoins
<1>1. CopyInv => CatJoins
  <2>. SUFFICES ASSUME CopyInv, Copying PROVE CatJoins
    BY DEF CatJoins
  <2>. DEFINE onto == copy.onto
              from == copy.from
              joined == Items(copy.dest)
  <2>1. /\ from \in Seq(Slot) /\ onto \in Seq(Slot) /\ Len(from) \in Nat
        /\ copy.pos \in 0 .. Len(from) /\ 0 \in 0 .. Len(from)
        /\ CopyEnds => copy.pos = Len(from)
    BY DEF CopyInv, Copy, CopyEnds
  <2>2. /\ lists[copy.dest].mutable => joined = onto \o SubSeq(from, 1, copy.pos)
        /\ ~lists[copy.dest].mutable => joined = onto \o <<>>
    BY DEF CopyInv
  <2>. HIDE DEF onto, from, joined
  <2>3. SubSeq(from, 1, 0) = <<>> /\ SubSeq(from, 1, Len(from)) = from
    BY <2>1, SubSeqEmpty, SubSeqFull
  <2>4. \E n \in 0 .. Len(from) : joined = onto \o SubSeq(from, 1, n)
    BY <2>1, <2>2, <2>3
  <2>5. CopyEnds => joined = onto \o (IF lists[copy.dest].mutable THEN from ELSE <<>>)
    BY <2>1, <2>2, <2>3
  <2>. QED  BY <2>4, <2>5 DEF CatJoins, onto, from, joined
<1>. QED  BY <1>1, ListInvariant, PTL

(* lscut makes the part of the list it was asked for.                      *)
LEMMA CutStep ==
    ASSUME ListInv, NEW l \in ListIds, NEW begin \in Numbers, NEW length \in Numbers,
           CutList(l, begin, length), begin >= 0, length >= 0,
           NEW k \in ListIds, lists'[k] # lists[k]
    PROVE  /\ begin + length <= Len(Items(l))
           /\ lists'[k].items = SubSeq(Items(l), begin + 1, begin + length)
<1>. DEFINE from == Items(l)
<1>1. l \in Alive /\ CutFits(l, begin, length)
  BY CutListIs
<1>2. PICK cut \in Cuts(l, begin, length) : Stores(Filled(NewList(length), cut, length))
  BY CutListIs
<1>3. /\ begin \in Nat /\ length \in Nat /\ Size(begin) = begin
      /\ begin + length <= Len(from)
  <2>1. /\ begin \in Nat /\ length \in Nat /\ SizeValues \in Nat
        /\ 2 * begin < SizeValues /\ 2 * length < SizeValues
    BY ListParams
  <2>2. begin < SizeValues /\ length < SizeValues /\ begin + length < SizeValues
        /\ begin + length \in Nat
    BY <2>1
  <2>3. Size(begin) = begin /\ Size(length) = length /\ Size(begin + length) = begin + length
    BY <2>1, <2>2, Sizes
  <2>. QED  BY <1>1, <2>1, <2>3 DEF CutFits
<1>4. from \in Seq(Slot) /\ Len(from) \in Nat
  BY <1>1, ListShapes, ListFields DEF ListInv, Items
<1>5. \A n \in 1 .. length : cut[n] \in Slot /\ cut[n] = from[begin + n]
  <2>. TAKE n \in 1 .. length
  <2>1. begin + n \in 1 .. Len(from)
    BY <1>3, <1>4
  <2>. QED  BY <1>1, <1>2, <1>3, <1>4, <2>1, ReadHere DEF Cuts, ListInv
<1>. DEFINE list == Filled(NewList(length), cut, length)
<1>6. lists'[k] = list
  BY <1>2, StoresOne
<1>7. NewList(length) \in List /\ NewList(length).mutable /\ NewList(length).items = <<>>
  BY <1>3, NewListIs
<1>8. /\ list.items \in Seq(Slot) /\ Len(list.items) = Len(<<>>) + length
      /\ \A j \in 1 .. Len(<<>>) + length :
            list.items[j] = IF j <= Len(<<>>) THEN <<>>[j] ELSE cut[j - Len(<<>>)]
  <2>. DEFINE new == NewList(length)
  <2>1. new \in List /\ new.mutable /\ new.items = <<>>
        /\ \A i \in 1 .. length : cut[i] \in Slot
    BY <1>5, <1>7
  <2>. HIDE DEF new, from
  <2>2. /\ Filled(new, cut, length).items \in Seq(Slot)
        /\ Len(Filled(new, cut, length).items) = Len(new.items) + length
        /\ \A j \in 1 .. Len(new.items) + length :
             Filled(new, cut, length).items[j] =
                IF j <= Len(new.items) THEN new.items[j] ELSE cut[j - Len(new.items)]
    BY <1>3, <2>1, FilledMutable
  <2>. QED  BY <2>1, <2>2 DEF new
<1>. HIDE DEF list, from
<1>9. list.items \in Seq(Slot) /\ Len(list.items) = length
      /\ \A j \in 1 .. length : list.items[j] = from[begin + j]
  <2>1. Len(<<>>) = 0 /\ 0 + length = length /\ list.items \in Seq(Slot)
    BY <1>3, <1>8
  <2>2. ASSUME NEW j \in 1 .. length PROVE list.items[j] = from[begin + j]
    <3>1. ~(j <= 0) /\ j - 0 = j
      OBVIOUS
    <3>. QED  BY <1>5, <1>8, <2>1, <3>1
  <2>. QED  BY <1>8, <2>1, <2>2
<1>10. /\ SubSeq(from, begin + 1, begin + length) \in Seq(Slot)
       /\ Len(SubSeq(from, begin + 1, begin + length)) = length
       /\ \A j \in 1 .. length :
             SubSeq(from, begin + 1, begin + length)[j] = from[begin + j]
  <2>. DEFINE m == begin + 1
              o == begin + length
  <2>1. m \in Int /\ o \in Int /\ \A i \in m .. o : from[i] \in Slot
    <3>1. \A i \in m .. o : i \in 1 .. Len(from)
      BY <1>3, <1>4
    <3>. QED  BY <1>3, <1>4, <3>1, ElementOfSeq
  <2>. HIDE DEF m, o
  <2>2. /\ SubSeq(from, m, o) \in Seq(Slot)
        /\ Len(SubSeq(from, m, o)) = IF m <= o THEN o - m + 1 ELSE 0
        /\ \A i \in 1 .. o - m + 1 : SubSeq(from, m, o)[i] = from[m + i - 1]
    BY <2>1, SubSeqProperties
  <2>3. (IF m <= o THEN o - m + 1 ELSE 0) = length /\ o - m + 1 = length
    BY <1>3 DEF m, o
  <2>4. \A i \in 1 .. length : m + i - 1 = begin + i
    BY <1>3 DEF m
  <2>. QED  BY <2>2, <2>3, <2>4 DEF m, o
<1>11. list.items = SubSeq(from, begin + 1, begin + length)
  BY <1>9, <1>10, SeqEqual, ZenonT(40)
<1>. QED  BY <1>3, <1>6, <1>11 DEF from

(* lscut makes a list of the items of a slice and of nothing beside it,    *)
(* where the numbers are not negative: native_lscut reads memory without   *)
(* another check.                                                          *)
THEOREM ListCutInside == ListSpec => CutInside
<1>1. ASSUME ListInv, ListNext, call'.native = "lscut", call'.begin >= 0, call'.length >= 0,
             NEW k \in ListIds, lists'[k] # lists[k]
      PROVE  /\ call'.begin + call'.length <= Len(Items(call'.src))
             /\ lists'[k].items =
                   SubSeq(Items(call'.src), call'.begin + 1, call'.begin + call'.length)
  <2>2. PICK l \in ListIds, begin \in Numbers, length \in Numbers : CutList(l, begin, length)
    BY <1>1, CallOfStep
  <2>3. call'.src = l /\ call'.begin = begin /\ call'.length = length
    BY <2>2 DEF CutList
  <2>. QED  BY <1>1, <2>2, <2>3, CutStep
<1>2. ListInv /\ [ListNext]_list_vars =>
         [call'.native = "lscut" /\ call'.begin >= 0 /\ call'.length >= 0 =>
            LET from == Items(call'.src)
                end == call'.begin + call'.length
            IN  \A l \in ListIds : lists'[l] # lists[l] =>
                   /\ end <= Len(from)
                   /\ lists'[l].items = SubSeq(from, call'.begin + 1, end)]_list_vars
  BY <1>1
<1>. QED  BY <1>2, ListInvariant, PTL DEF ListSpec, CutInside
-----------------------------------------------------------------------------
(* Strings                                                                 *)

Buffer ==
    [alive : {TRUE}, mutable : BOOLEAN, text : Seq(Int), capacity : Nat \ {0}, room : Nat]

(* There is room for the text and its terminator, and for the capacity     *)
(* that mystr_append_raw compares with: only the room of a constructor is  *)
(* not the capacity.                                                       *)
Roomy(str) == str.capacity <= str.room /\ Len(str.text) < str.room

Cursor ==
    [alive : {TRUE}, string : StringIds, pos : Nat, end : Nat, dangling : BOOLEAN]

StringTypes ==
    /\ strings \in [StringIds -> Buffer \cup {Gone}]
    /\ cursors \in [CursorIds -> Cursor \cup {Gone}]

StringInv ==
    /\ StringTypes
    /\ \A s \in Living : Roomy(strings[s])
    /\ TextInside

(* The fields of a string.                                                 *)
LEMMA StringFields ==
    ASSUME NEW str \in Buffer
    PROVE  /\ str.text \in Seq(Int) /\ Len(str.text) \in Nat
           /\ str.capacity \in Nat /\ str.capacity > 0 /\ str.room \in Nat
           /\ str.alive
<1>1. /\ str.text \in Seq(Int) /\ str.capacity \in Nat \ {0} /\ str.room \in Nat
      /\ str.alive = TRUE
  BY DEF Buffer
<1>2. Len(str.text) \in Nat
  BY <1>1, LenProperties
<1>. QED  BY <1>1, <1>2

(* Characters as C stores them are integers.                               *)
LEMMA CharIsInt ==
    ASSUME NEW code \in Int
    PROVE  Char_(code) \in Int
  BY DEF Char_

(* What changing the parts of a buffer one by one leaves of it.            *)
LEMMA BufferWithText ==
    ASSUME NEW str \in Buffer, NEW text \in Seq(Int)
    PROVE  /\ [str EXCEPT !.text = text] \in Buffer
           /\ [str EXCEPT !.text = text].text = text
           /\ [str EXCEPT !.text = text].capacity = str.capacity
           /\ [str EXCEPT !.text = text].room = str.room
  BY DEF Buffer

(* Growing the buffer of a string changes its capacity alone.              *)
LEMMA BufferWithRoom ==
    ASSUME NEW str \in Buffer, NEW n \in Nat \ {0}
    PROVE  /\ [str EXCEPT !.capacity = n, !.room = n] \in Buffer
           /\ [str EXCEPT !.capacity = n, !.room = n].text = str.text
           /\ [str EXCEPT !.capacity = n, !.room = n].capacity = n
           /\ [str EXCEPT !.capacity = n, !.room = n].room = n
  BY DEF Buffer

(* Freezing a string changes its flag alone.                               *)
LEMMA BufferWithFlag ==
    ASSUME NEW str \in Buffer, NEW b \in BOOLEAN
    PROVE  /\ [str EXCEPT !.mutable = b] \in Buffer
           /\ [str EXCEPT !.mutable = b].text = str.text
           /\ [str EXCEPT !.mutable = b].capacity = str.capacity
           /\ [str EXCEPT !.mutable = b].room = str.room
  BY DEF Buffer

(* mystr_append_raw makes room for what it appends, and for the terminator. *)
LEMMA AppendedText ==
    ASSUME NEW str \in Buffer, Roomy(str), NEW chars \in Seq(Int)
    PROVE  /\ Appended(str, chars) \in Buffer /\ Roomy(Appended(str, chars))
           /\ Len(Appended(str, chars).text) = Len(str.text) + Len(chars)
<1>. DEFINE l == Len(str.text)
            n == Len(chars)
            c == str.capacity
            joined == str.text \o chars
<1>1. l \in Nat /\ n \in Nat /\ c \in Nat /\ c > 0 /\ str.room \in Nat
      /\ str.text \in Seq(Int) /\ joined \in Seq(Int) /\ Len(joined) = l + n
  BY StringFields, LenProperties, ConcatProperties
<1>2. c <= str.room /\ l < str.room
  BY DEF Roomy
<1>. DEFINE more == c + (((l + n) * 3) \div 2)
            grown == [str EXCEPT !.capacity = more, !.room = more]
<1>3. more \in Nat \ {0} /\ l + n < more
  <2>. HIDE DEF l, n, c
  <2>. DEFINE m == l + n
  <2>1. m \in Nat
    BY <1>1
  <2>. HIDE DEF m
  <2>2. (m * 3) \div 2 \in Nat /\ m <= (m * 3) \div 2
    BY <2>1
  <2>. HIDE DEF more
  <2>3. more = c + ((m * 3) \div 2)
    BY DEF more, m
  <2>4. more \in Nat /\ more > 0 /\ m < more
    BY <1>1, <2>1, <2>2, <2>3
  <2>. QED  BY <2>4 DEF m
<1>4. CASE Lacks(str, n)
  <2>1. Appended(str, chars) = [grown EXCEPT !.text = grown.text \o chars]
    BY <1>4 DEF Appended, Grown
  <2>. HIDE DEF more
  <2>2. /\ grown \in Buffer /\ grown.text = str.text
        /\ grown.capacity = more /\ grown.room = more
    BY <1>3, BufferWithRoom
  <2>. HIDE DEF grown
  <2>3. Appended(str, chars) = [grown EXCEPT !.text = joined]
    BY <2>1, <2>2
  <2>. HIDE DEF joined, l, n
  <2>. DEFINE new == [grown EXCEPT !.text = joined]
  <2>4. /\ new \in Buffer /\ new.text = joined /\ new.capacity = more /\ new.room = more
    BY <1>1, <2>2, BufferWithText
  <2>. HIDE DEF new
  <2>5. Roomy(new) /\ Len(new.text) = l + n
    BY <1>1, <1>3, <2>4 DEF Roomy
  <2>. QED  BY <2>3, <2>4, <2>5 DEF new, l, n
<1>5. CASE ~Lacks(str, n)
  <2>1. Appended(str, chars) = [str EXCEPT !.text = joined]
    BY <1>5 DEF Appended
  <2>2. ~(c - 1 - l < n)
    BY <1>5 DEF Lacks
  <2>. HIDE DEF joined, l, n, c
  <2>. DEFINE new == [str EXCEPT !.text = joined]
  <2>3. /\ new \in Buffer /\ new.text = joined /\ new.capacity = str.capacity
        /\ new.room = str.room
    BY <1>1, BufferWithText
  <2>. HIDE DEF new
  <2>4. l + n < str.room
    BY <1>1, <1>2, <2>2
  <2>5. Roomy(new) /\ Len(new.text) = l + n
    BY <1>1, <1>2, <2>3, <2>4 DEF Roomy, c
  <2>. QED  BY <2>1, <2>3, <2>5 DEF new, l, n
<1>. QED  BY <1>4, <1>5

(* string_set_v_fn, whatever the key: a string never gets shorter.         *)
LEMMA StringSetText ==
    ASSUME NEW str \in Buffer, Roomy(str), NEW key \in Int \cup {NoKey}, NEW code \in Int
    PROVE  /\ StringSetV(str, key, code) \in Buffer /\ Roomy(StringSetV(str, key, code))
           /\ Len(StringSetV(str, key, code).text) >= Len(str.text)
<1>1. Char_(code) \in Int /\ str.text \in Seq(Int) /\ Len(str.text) \in Nat
  BY CharIsInt, StringFields
<1>. DEFINE char == Char_(code)
            set == StringSetV(str, key, code)
<1>2. CASE set = str
  BY <1>1, <1>2
<1>3. CASE set = Appended(str, <<char>>)
  <2>1. <<char>> \in Seq(Int) /\ Len(<<char>>) = 1
    BY <1>1
  <2>. DEFINE chars == <<char>>
  <2>. HIDE DEF chars, set
  <2>2. /\ Appended(str, chars) \in Buffer /\ Roomy(Appended(str, chars))
        /\ Len(Appended(str, chars).text) = Len(str.text) + Len(chars)
    BY <2>1, AppendedText DEF chars
  <2>3. set = Appended(str, chars) /\ Len(chars) = 1
    BY <1>3, <2>1 DEF chars
  <2>4. set \in Buffer /\ Roomy(set) /\ Len(set.text) >= Len(str.text)
    BY <1>1, <2>2, <2>3
  <2>. QED  BY <2>4 DEF set
<1>4. CASE /\ set = [str EXCEPT !.text[key + 1] = char]
           /\ key # NoKey /\ key + 1 \in DOMAIN str.text
  <2>. DEFINE text == [str.text EXCEPT ![key + 1] = char]
  <2>1. set = [str EXCEPT !.text = text]
    BY <1>4
  <2>2. text \in Seq(Int) /\ Len(text) = Len(str.text)
    BY <1>1, <1>4, ExceptSeq
  <2>. HIDE DEF text, set
  <2>3. /\ set \in Buffer /\ set.text = text
        /\ set.capacity = str.capacity /\ set.room = str.room
    BY <2>1, <2>2, BufferWithText
  <2>4. Roomy(set) /\ Len(set.text) >= Len(str.text)
    BY <1>1, <2>2, <2>3 DEF Roomy
  <2>. QED  BY <2>3, <2>4 DEF set
<1>. QED  BY <1>2, <1>3, <1>4 DEF StringSetV

(* The turns of readln.                                                    *)
TypedTurns(after, text, n) ==
    after = [i \in 0 .. n |->
                IF i = 0 THEN EmptyStr ELSE Appended(after[i - 1], <<text[i]>>)]

(* The turns of a loop that pushes characters exist, however many there    *)
(* are.                                                                    *)
LEMMA TypedTurnsExist ==
    ASSUME NEW text
    PROVE  \A n \in Nat : \E after : TypedTurns(after, text, n)
<1>. DEFINE Bad == {n \in Nat : ~\E after : TypedTurns(after, text, n)}
<1>. SUFFICES ASSUME Bad # {} PROVE FALSE
  OBVIOUS
<1>1. PICK n \in Bad : \A m \in Bad : n <= m
  <2>1. Bad \subseteq Nat
    OBVIOUS
  <2>. HIDE DEF Bad
  <2>. QED  BY <2>1, LeastNumber
<1>2. CASE n = 0
  <2>1. TypedTurns([i \in 0 .. 0 |-> EmptyStr], text, 0)
    BY DEF TypedTurns
  <2>. QED  BY <1>2, <2>1
<1>3. CASE n # 0
  <2>1. n - 1 \in Nat /\ n \in Nat /\ ~(n <= n - 1)
    BY <1>3
  <2>2. PICK after : TypedTurns(after, text, n - 1)
    BY <1>1, <2>1
  <2>. DEFINE longer ==
                [i \in 0 .. n |->
                    IF i = n THEN Appended(after[n - 1], <<text[n]>>) ELSE after[i]]
  <2>3. \A i \in 0 .. n :
            longer[i] = IF i = 0 THEN EmptyStr ELSE Appended(longer[i - 1], <<text[i]>>)
    <3>. TAKE i \in 0 .. n
    <3>1. CASE i = 0
      BY <1>3, <2>1, <2>2, <3>1 DEF TypedTurns
    <3>2. CASE i = n
      BY <1>3, <2>1, <2>2, <3>2 DEF TypedTurns
    <3>3. CASE i # 0 /\ i # n
      <4>1. i \in 0 .. n - 1 /\ i - 1 \in 0 .. n - 1 /\ i - 1 \in 0 .. n /\ i - 1 # n
        BY <2>1, <3>3
      <4>2. after[i] = Appended(after[i - 1], <<text[i]>>)
        BY <2>2, <3>3, <4>1 DEF TypedTurns
      <4>. QED  BY <3>3, <4>1, <4>2
    <3>. QED  BY <3>1, <3>2, <3>3
  <2>4. TypedTurns(longer, text, n)
    BY <2>3 DEF TypedTurns
  <2>. QED  BY <2>4
<1>. QED  BY <1>2, <1>3

(* What readln stores has room for the whole line.                         *)
LEMMA TypedText ==
    ASSUME NEW text \in Seq(Int)
    PROVE  Typed(text) \in Buffer /\ Roomy(Typed(text))
<1>. DEFINE n == Len(text)
            f == CHOOSE g :
                    g = [i \in 0 .. n |->
                            IF i = 0 THEN EmptyStr ELSE Appended(g[i - 1], <<text[i]>>)]
<1>1. n \in Nat /\ \A i \in 1 .. n : text[i] \in Int
  BY LenProperties, ElementOfSeq
<1>2. f = [i \in 0 .. n |->
              IF i = 0 THEN EmptyStr ELSE Appended(f[i - 1], <<text[i]>>)]
  BY <1>1, TypedTurnsExist DEF TypedTurns
<1>3. Typed(text) = f[n]
  BY DEF Typed
<1>. HIDE DEF f, n
<1>. DEFINE Bad == {i \in 0 .. n : ~(f[i] \in Buffer /\ Roomy(f[i]))}
<1>4. Bad = {}
  <2>. SUFFICES ASSUME Bad # {} PROVE FALSE
    OBVIOUS
  <2>1. PICK i \in Bad : \A m \in Bad : i <= m
    <3>1. Bad \subseteq Nat
      OBVIOUS
    <3>. HIDE DEF Bad
    <3>. QED  BY <3>1, LeastNumber
  <2>2. EmptyStr \in Buffer /\ Roomy(EmptyStr)
    <3>1. <<>> \in Seq(Int) /\ Len(<<>>) = 0
      OBVIOUS
    <3>2. /\ EmptyStr.capacity = 1 /\ EmptyStr.room = 1 /\ EmptyStr.text = <<>>
          /\ EmptyStr \in Buffer
      BY <3>1 DEF EmptyStr, Str, Buffer
    <3>. QED  BY <3>1, <3>2 DEF Roomy
  <2>3. i # 0
    BY <1>1, <1>2, <2>1, <2>2
  <2>4. i \in 1 .. n /\ i - 1 \in 0 .. n /\ ~(i <= i - 1)
    BY <1>1, <2>1, <2>3
  <2>5. f[i - 1] \in Buffer /\ Roomy(f[i - 1])
    BY <2>1, <2>4
  <2>6. f[i] = Appended(f[i - 1], <<text[i]>>)
    BY <1>2, <2>1, <2>3
  <2>7. <<text[i]>> \in Seq(Int)
    BY <1>1, <2>4
  <2>8. Appended(f[i - 1], <<text[i]>>) \in Buffer /\ Roomy(Appended(f[i - 1], <<text[i]>>))
    BY <2>5, <2>7, AppendedText
  <2>. QED  BY <2>1, <2>6, <2>8
<1>. QED  BY <1>1, <1>3, <1>4
(* The parameters are of their types.                                      *)
LEMMA StringParams ==
    /\ \A code \in CharCodes : code \in Int
    /\ \A text \in Texts : text \in Seq(Int)
    /\ DefaultSize \in Nat \ {0}
    /\ \A key \in (-1 .. MaxLength) \cup {NoKey} : key \in Int \cup {NoKey}
<1>1. \A text \in Texts : text \in Seq(Int)
  <2>1. -128 .. 127 \subseteq Int
    OBVIOUS
  <2>. DEFINE signed == -128 .. 127
  <2>2. Texts \subseteq Seq(signed) /\ signed \subseteq Int
    BY <2>1, StringAssumption
  <2>. HIDE DEF signed
  <2>. QED  BY <2>2, SeqMonotonic
<1>. QED  BY <1>1, StringAssumption

(* Strings alive are buffers, strings gone are not.                        *)
LEMMA StringShapes ==
    ASSUME StringTypes
    PROVE  /\ \A s \in Living : s \in StringIds /\ strings[s] \in Buffer
           /\ \A s \in StringIds \ Living : strings[s] = Gone
           /\ \A i \in CursorIds : cursors[i].alive => cursors[i] \in Cursor
           /\ ~Gone.alive
<1>1. ~Gone.alive
  BY DEF Gone
<1>2. \A s \in StringIds : strings[s] \in Buffer => strings[s].alive
  BY DEF Buffer
<1>. QED  BY <1>1, <1>2 DEF StringTypes, Living

(* The cursors when the memory of s is gone: each stays where it is.       *)
LEMMA AdriftTypes ==
    ASSUME StringTypes, NEW s
    PROVE  /\ Adrift(s) \in [CursorIds -> Cursor \cup {Gone}]
           /\ \A i \in CursorIds : Adrift(s)[i].alive /\ ~Adrift(s)[i].dangling =>
                 cursors[i].alive /\ cursors[i].string # s /\ Adrift(s)[i] = cursors[i]
<1>1. ASSUME NEW i \in CursorIds, cursors[i].alive, cursors[i].string = s
      PROVE  /\ [cursors[i] EXCEPT !.dangling = TRUE] \in Cursor
             /\ [cursors[i] EXCEPT !.dangling = TRUE].dangling
  <2>1. cursors[i] \in Cursor
    BY <1>1, StringShapes
  <2>. QED  BY <2>1 DEF Cursor
<1>2. \A i \in CursorIds : cursors[i] \in Cursor \cup {Gone}
  BY DEF StringTypes
<1>. QED  BY <1>1, <1>2 DEF Adrift

(* A cursor that is left as it is stays inside its string.                 *)
LEMMA CursorsKept ==
    ASSUME StringInv,
           strings' \in [StringIds -> Buffer \cup {Gone}],
           \A s \in StringIds : strings'[s].alive => Roomy(strings'[s]),
           cursors' \in [CursorIds -> Cursor \cup {Gone}],
           \A i \in CursorIds : cursors'[i].alive /\ ~cursors'[i].dangling =>
               /\ cursors[i].alive /\ cursors'[i] = cursors[i]
               /\ strings'[cursors[i].string].alive
               /\ Len(strings[cursors[i].string].text)
                     <= Len(strings'[cursors[i].string].text)
    PROVE  StringInv'
<1>1. StringTypes'
  BY DEF StringTypes
<1>2. \A s \in Living' : strings'[s] \in Buffer /\ Roomy(strings'[s])
  BY <1>1 DEF Living, StringTypes, Gone
<1>3. \A s \in Living' : Len(strings'[s].text) < strings'[s].room
  BY <1>2 DEF Roomy
<1>4. ASSUME NEW i \in CursorIds, cursors'[i].alive, ~cursors'[i].dangling
      PROVE  /\ cursors'[i].string \in Living'
             /\ cursors'[i].pos <= cursors'[i].end
             /\ cursors'[i].end <= Len(strings'[cursors'[i].string].text)
  <2>. DEFINE s == cursors[i].string
  <2>1. /\ cursors[i].alive /\ cursors'[i] = cursors[i] /\ ~cursors[i].dangling
        /\ strings'[s].alive /\ Len(strings[s].text) <= Len(strings'[s].text)
    BY <1>4
  <2>2. cursors[i] \in Cursor /\ s \in StringIds /\ cursors[i].end \in Nat
    BY <2>1, StringShapes DEF StringInv, Cursor
  <2>3. s \in Living /\ cursors[i].pos <= cursors[i].end
        /\ cursors[i].end <= Len(strings[s].text)
    BY <2>1 DEF StringInv, TextInside
  <2>4. s \in Living'
    BY <2>1, <2>2 DEF Living
  <2>5. Len(strings[s].text) \in Nat /\ Len(strings'[s].text) \in Nat
    BY <1>2, <2>3, <2>4, StringShapes, StringFields DEF StringInv
  <2>. HIDE DEF s
  <2>6. cursors[i].end <= Len(strings'[s].text)
    BY <2>1, <2>2, <2>3, <2>5
  <2>. QED  BY <2>1, <2>3, <2>4, <2>6 DEF s
<1>. QED  BY <1>1, <1>2, <1>3, <1>4 DEF StringInv, TextInside

(* Replacing a string by one at least as long keeps the invariant.         *)
LEMMA BecomesInv ==
    ASSUME StringInv, NEW s \in StringIds, NEW str \in Buffer, Roomy(str),
           Len(str.text) >= Len(strings[s].text), Becomes(s, str)
    PROVE  StringInv'
<1>1. s \in Living /\ strings[s] \in Buffer
  BY StringShapes DEF StringInv, Becomes
<1>2. strings' = [strings EXCEPT ![s] = str]
  BY DEF Becomes
<1>3. /\ strings' \in [StringIds -> Buffer \cup {Gone}]
      /\ \A k \in StringIds : strings'[k] = IF k = s THEN str ELSE strings[k]
  BY <1>2 DEF StringInv, StringTypes
<1>4. \A k \in StringIds : strings'[k].alive => Roomy(strings'[k])
  BY <1>3 DEF StringInv, Living
<1>5. /\ cursors' \in [CursorIds -> Cursor \cup {Gone}]
      /\ \A i \in CursorIds : cursors'[i].alive /\ ~cursors'[i].dangling =>
            cursors[i].alive /\ ~cursors[i].dangling /\ cursors'[i] = cursors[i]
  <2>1. CASE cursors' = cursors
    BY <2>1 DEF StringInv, StringTypes
  <2>2. CASE cursors' = Adrift(s)
    <3>1. /\ Adrift(s) \in [CursorIds -> Cursor \cup {Gone}]
          /\ \A i \in CursorIds : Adrift(s)[i].alive /\ ~Adrift(s)[i].dangling =>
                cursors[i].alive /\ cursors[i].string # s /\ Adrift(s)[i] = cursors[i]
      BY AdriftTypes DEF StringInv
    <3>. QED  BY <2>2, <3>1
  <2>. QED  BY <2>1, <2>2 DEF Becomes
<1>6. ASSUME NEW i \in CursorIds, cursors'[i].alive, ~cursors'[i].dangling
      PROVE  /\ cursors[i].alive /\ cursors'[i] = cursors[i]
             /\ strings'[cursors[i].string].alive
             /\ Len(strings[cursors[i].string].text)
                   <= Len(strings'[cursors[i].string].text)
  <2>1. cursors[i].alive /\ cursors'[i] = cursors[i] /\ ~cursors[i].dangling
    BY <1>5, <1>6
  <2>. DEFINE k == cursors[i].string
  <2>2. k \in Living /\ k \in StringIds /\ strings[k] \in Buffer
    BY <2>1, StringShapes DEF StringInv, TextInside
  <2>. HIDE DEF k
  <2>3. strings'[k].alive /\ Len(strings[k].text) <= Len(strings'[k].text)
    <3>1. Len(strings[k].text) \in Nat /\ strings[k].alive /\ str.alive
      BY <2>2, StringFields
    <3>2. CASE k = s
      BY <1>3, <2>2, <3>1, <3>2
    <3>3. CASE k # s
      BY <1>3, <2>2, <3>1, <3>3
    <3>. QED  BY <3>2, <3>3
  <2>. QED  BY <2>1, <2>3 DEF k
<1>. QED  BY <1>3, <1>4, <1>5, <1>6, CursorsKept

(* A new string takes a free cell, which no cursor is inside of.           *)
LEMMA PutInv ==
    ASSUME StringInv, NEW str \in Buffer, Roomy(str), Put(str)
    PROVE  StringInv'
<1>1. PICK s \in StringIds \ Living : strings' = [strings EXCEPT ![s] = str]
  BY DEF Put
<1>2. cursors' = cursors
  BY DEF Put
<1>3. /\ strings' \in [StringIds -> Buffer \cup {Gone}]
      /\ \A k \in StringIds : strings'[k] = IF k = s THEN str ELSE strings[k]
  BY <1>1 DEF StringInv, StringTypes
<1>4. \A k \in StringIds : strings'[k].alive => Roomy(strings'[k])
  BY <1>3 DEF StringInv, Living
<1>5. ASSUME NEW i \in CursorIds, cursors'[i].alive, ~cursors'[i].dangling
      PROVE  /\ cursors[i].alive /\ cursors'[i] = cursors[i]
             /\ strings'[cursors[i].string].alive
             /\ Len(strings[cursors[i].string].text)
                   <= Len(strings'[cursors[i].string].text)
  <2>1. cursors[i].string \in Living
    BY <1>2, <1>5 DEF StringInv, TextInside
  <2>2. /\ strings'[cursors[i].string] = strings[cursors[i].string]
        /\ strings[cursors[i].string] \in Buffer
    BY <1>1, <1>3, <2>1, StringShapes DEF StringInv
  <2>. QED  BY <1>2, <1>5, <2>2, StringFields
<1>6. cursors' \in [CursorIds -> Cursor \cup {Gone}]
  BY <1>2 DEF StringInv, StringTypes
<1>. QED  BY <1>3, <1>4, <1>5, <1>6, CursorsKept

(* Collecting a string ends the iterators over it.                         *)
LEMMA CollectStringInv ==
    ASSUME StringInv, NEW s \in StringIds, CollectString(s)
    PROVE  StringInv'
<1>1. strings' = [strings EXCEPT ![s] = Gone] /\ cursors' = Adrift(s)
  BY DEF CollectString
<1>2. /\ strings' \in [StringIds -> Buffer \cup {Gone}]
      /\ \A k \in StringIds : strings'[k] = IF k = s THEN Gone ELSE strings[k]
  BY <1>1 DEF StringInv, StringTypes
<1>3. \A k \in StringIds : strings'[k].alive => Roomy(strings'[k])
  BY <1>2 DEF StringInv, Living, Gone
<1>4. /\ cursors' \in [CursorIds -> Cursor \cup {Gone}]
      /\ \A i \in CursorIds : cursors'[i].alive /\ ~cursors'[i].dangling =>
            cursors[i].alive /\ cursors[i].string # s /\ cursors'[i] = cursors[i]
  BY <1>1, AdriftTypes DEF StringInv
<1>5. ASSUME NEW i \in CursorIds, cursors'[i].alive, ~cursors'[i].dangling
      PROVE  /\ cursors[i].alive /\ cursors'[i] = cursors[i]
             /\ strings'[cursors[i].string].alive
             /\ Len(strings[cursors[i].string].text)
                   <= Len(strings'[cursors[i].string].text)
  <2>1. /\ cursors[i].alive /\ cursors[i].string # s /\ cursors'[i] = cursors[i]
    BY <1>4, <1>5
  <2>2. cursors[i].string \in Living
    BY <1>5, <2>1 DEF StringInv, TextInside
  <2>3. /\ strings'[cursors[i].string] = strings[cursors[i].string]
        /\ strings[cursors[i].string] \in Buffer
    BY <1>2, <2>1, <2>2, StringShapes DEF StringInv
  <2>. QED  BY <2>1, <2>3, StringFields
<1>. QED  BY <1>2, <1>3, <1>4, <1>5, CursorsKept

(* What is done to one cursor.                                             *)
LEMMA CursorInv ==
    ASSUME StringInv, NEW i \in CursorIds, NEW cursor \in Cursor \cup {Gone},
           strings' = strings, cursors' = [cursors EXCEPT ![i] = cursor],
           cursor.alive /\ ~cursor.dangling =>
               /\ cursor.string \in Living
               /\ cursor.pos <= cursor.end
               /\ cursor.end <= Len(strings[cursor.string].text)
    PROVE  StringInv'
<1>1. /\ cursors' \in [CursorIds -> Cursor \cup {Gone}]
      /\ \A k \in CursorIds : cursors'[k] = IF k = i THEN cursor ELSE cursors[k]
  BY DEF StringInv, StringTypes
<1>2. Living' = Living
  BY DEF Living
<1>3. TextInside'
  BY <1>1, <1>2 DEF StringInv, TextInside
<1>. QED  BY <1>1, <1>2, <1>3 DEF StringInv, StringTypes

(* A new iterator over a string.                                           *)
LEMMA MkCursorInv ==
    ASSUME StringInv, NEW i \in CursorIds, NEW s \in StringIds, MkCursor(i, s)
    PROVE  StringInv'
<1>. DEFINE cursor == [alive |-> TRUE, string |-> s, pos |-> 0,
                       end |-> Len(strings[s].text), dangling |-> FALSE]
<1>1. s \in Living /\ cursors' = [cursors EXCEPT ![i] = cursor] /\ strings' = strings
  BY DEF MkCursor
<1>2. Len(strings[s].text) \in Nat
  BY <1>1, StringShapes, StringFields DEF StringInv
<1>3. /\ cursor \in Cursor /\ cursor.string = s /\ cursor.pos = 0
      /\ cursor.end = Len(strings[s].text)
  BY <1>2 DEF Cursor
<1>4. cursor.pos <= cursor.end /\ cursor.end <= Len(strings[cursor.string].text)
  BY <1>2, <1>3
<1>. HIDE DEF cursor
<1>. QED  BY <1>1, <1>3, <1>4, CursorInv

(* Moving an iterator over a string.                                       *)
LEMMA MvCursorInv ==
    ASSUME StringInv, NEW i \in CursorIds, MvCursor(i)
    PROVE  StringInv'
<1>. DEFINE old == cursors[i]
            cursor == Stepped(old)
<1>1. old.alive /\ cursors' = [cursors EXCEPT ![i] = cursor] /\ strings' = strings
  BY DEF MvCursor
<1>2. old \in Cursor /\ old.pos \in Nat /\ old.end \in Nat
  BY <1>1, StringShapes DEF StringInv, Cursor
<1>3. ~old.dangling =>
          /\ old.string \in Living
          /\ old.pos <= old.end /\ old.end <= Len(strings[old.string].text)
  BY <1>1 DEF StringInv, TextInside
<1>4. CASE old.pos = old.end
  <2>1. cursor = old
    BY <1>4 DEF Stepped
  <2>. HIDE DEF cursor, old
  <2>. QED  BY <1>1, <1>2, <1>3, <2>1, CursorInv
<1>5. CASE old.pos # old.end
  <2>1. cursor = [old EXCEPT !.pos = old.pos + 1] /\ old.pos + 1 \in Nat
    BY <1>2, <1>5 DEF Stepped
  <2>. HIDE DEF cursor, old
  <2>2. /\ cursor \in Cursor /\ cursor.string = old.string /\ cursor.end = old.end
        /\ cursor.pos = old.pos + 1 /\ cursor.dangling = old.dangling
    BY <1>2, <2>1 DEF Cursor
  <2>3. old.pos <= old.end => cursor.pos <= cursor.end
    BY <1>2, <1>5, <2>2
  <2>. QED  BY <1>1, <1>3, <2>2, <2>3, CursorInv
<1>. QED  BY <1>4, <1>5

(* Every step on strings keeps the invariant.                              *)
LEMMA NextStringInv ==
    ASSUME StringInv, [StringNext]_string_vars
    PROVE  StringInv'
<1>1. CASE UNCHANGED string_vars
  BY <1>1 DEF string_vars, StringInv, StringTypes, TextInside, Living
<1>2. ASSUME NEW text \in Texts, ReadLine(text) \/ HostString(text)
      PROVE  StringInv'
  <2>1. text \in Seq(Int)
    BY StringParams
  <2>2. Typed(text) \in Buffer /\ Roomy(Typed(text))
    BY <2>1, TypedText
  <2>. DEFINE empty == ReservedStr(DefaultSize)
  <2>3. empty \in Buffer /\ Roomy(empty)
    <3>1. DefaultSize \in Nat \ {0} /\ DefaultSize + 1 \in Nat
      BY StringParams
    <3>2. /\ empty \in Buffer /\ empty.capacity = DefaultSize
          /\ empty.room = DefaultSize + 1 /\ empty.text = <<>> /\ Len(<<>>) = 0
      BY <3>1 DEF ReservedStr, Str, Buffer
    <3>. HIDE DEF empty
    <3>. QED  BY <3>1, <3>2 DEF Roomy
  <2>. HIDE DEF empty
  <2>4. Appended(empty, text) \in Buffer /\ Roomy(Appended(empty, text))
    BY <2>1, <2>3, AppendedText
  <2>. QED  BY <1>2, <2>2, <2>4, PutInv DEF ReadLine, HostString, empty
<1>3. ASSUME NEW s \in StringIds, NEW code \in CharCodes,
             NEW key \in (-1 .. MaxLength) \cup {NoKey}, SetChar(s, key, code)
      PROVE  StringInv'
  <2>1. s \in Living /\ strings[s] \in Buffer /\ Roomy(strings[s])
    BY <1>3, StringShapes DEF SetChar, StringInv
  <2>2. key \in Int \cup {NoKey} /\ code \in Int
    BY StringParams
  <2>3. /\ StringSetV(strings[s], key, code) \in Buffer
        /\ Roomy(StringSetV(strings[s], key, code))
        /\ Len(StringSetV(strings[s], key, code).text) >= Len(strings[s].text)
    BY <2>1, <2>2, StringSetText
  <2>. QED  BY <1>3, <2>3, BecomesInv DEF SetChar
<1>4. ASSUME NEW s \in StringIds, FreezeString(s) \/ ThawString(s) PROVE StringInv'
  <2>1. s \in Living /\ strings[s] \in Buffer /\ Roomy(strings[s])
    BY <1>4, StringShapes DEF FreezeString, ThawString, StringInv
  <2>2. PICK b \in BOOLEAN : Becomes(s, [strings[s] EXCEPT !.mutable = b])
    BY <1>4 DEF FreezeString, ThawString
  <2>. DEFINE str == [strings[s] EXCEPT !.mutable = b]
  <2>3. /\ str \in Buffer /\ str.text = strings[s].text
        /\ str.capacity = strings[s].capacity /\ str.room = strings[s].room
    BY <2>1, BufferWithFlag
  <2>4. Becomes(s, str)
    BY <2>2
  <2>. HIDE DEF str
  <2>5. Roomy(str) /\ Len(str.text) >= Len(strings[s].text)
    BY <2>1, <2>3, StringFields DEF Roomy
  <2>. QED  BY <2>3, <2>4, <2>5, BecomesInv
<1>5. ASSUME NEW i \in CursorIds, CollectCursor(i) PROVE StringInv'
  BY <1>5, CursorInv DEF CollectCursor, Gone
<1>. QED  BY <1>1, <1>2, <1>3, <1>4, <1>5, CollectStringInv, MkCursorInv, MvCursorInv
             DEF StringNext

(* Every string has room for its text and for the terminator behind it,    *)
(* from whichever constructor and however it grew, and a cursor is inside  *)
(* the text until the buffer moves: mystr_append_raw and string_set_v_fn.  *)
THEOREM StringTextInside == StringSpec => []TextInside
<1>1. StringInit => StringInv
  BY DEF StringInit, StringInv, StringTypes, TextInside, Living, Gone
<1>2. StringInv /\ [StringNext]_string_vars => StringInv'
  BY NextStringInv
<1>3. StringInv => TextInside
  BY DEF StringInv
<1>. QED  BY <1>1, <1>2, <1>3, PTL DEF StringSpec

-----------------------------------------------------------------------------
(* Dicts.  A dict is a map, and its tree is freed node by node, each once, *)
(* whatever the hashes are and in whatever order the keys come.  Both      *)
(* follow from the tree alone: a child is allocated after its parent, so a *)
(* descent comes to its end within as many turns as there are nodes.  What *)
(* a new node changes is compared turn by turn with what was there before. *)

-----------------------------------------------------------------------------
(* Induction over the turns of a loop, with a set for what is shown        *)

(* What holds of turn 0 and is kept by each turn up to n holds up to n.    *)
LEMMA Upwards ==
    ASSUME NEW S, NEW n \in Nat, 0 \in S, \A t \in 0 .. n - 1 : t \in S => t + 1 \in S
    PROVE  \A t \in 0 .. n : t \in S
<1>. DEFINE Bad == {t \in 0 .. n : t \notin S}
<1>. SUFFICES ASSUME Bad # {} PROVE FALSE
  OBVIOUS
<1>1. PICK t \in Bad : \A m \in Bad : t <= m
  <2>1. Bad \subseteq Nat
    OBVIOUS
  <2>. HIDE DEF Bad
  <2>. QED  BY <2>1, LeastNumber
<1>2. t # 0
  BY <1>1
<1>3. t - 1 \in 0 .. n - 1 /\ t - 1 \in 0 .. n /\ ~(t <= t - 1) /\ (t - 1) + 1 = t
  BY <1>1, <1>2
<1>4. t - 1 \in S
  BY <1>1, <1>3
<1>. QED  BY <1>1, <1>3, <1>4

(* What holds of a node once it holds of all later ones holds of all.      *)
LEMMA Downwards ==
    ASSUME NEW S, NEW n \in Nat,
           \A t \in 1 .. n : (\A m \in t + 1 .. n : m \in S) => t \in S
    PROVE  \A t \in 1 .. n : t \in S
<1>. DEFINE Bad == {k \in 0 .. n - 1 : n - k \notin S}
<1>1. Bad = {}
  <2>. SUFFICES ASSUME Bad # {} PROVE FALSE
    OBVIOUS
  <2>1. PICK k \in Bad : \A m \in Bad : k <= m
    <3>1. Bad \subseteq Nat
      OBVIOUS
    <3>. HIDE DEF Bad
    <3>. QED  BY <3>1, LeastNumber
  <2>2. n - k \in 1 .. n
    BY <2>1
  <2>3. ASSUME NEW m \in (n - k) + 1 .. n PROVE m \in S
    <3>1. n - m \in 0 .. n - 1 /\ ~(k <= n - m) /\ n - (n - m) = m
      BY <2>1, <2>3
    <3>. QED  BY <2>1, <3>1
  <2>. QED  BY <2>1, <2>2, <2>3
<1>2. ASSUME NEW t \in 1 .. n PROVE t \in S
  <2>1. n - t \in 0 .. n - 1 /\ n - (n - t) = t
    BY <1>2
  <2>. QED  BY <1>1, <2>1
<1>. QED  BY <1>2

-----------------------------------------------------------------------------
(* Trees: sequences of nodes whose children come later                     *)

Hashes == {HashValue[key] : key \in Key}

Node == [hash : Hashes, data : Value, l : Nat, r : Nat]

(* A node to go to from n, in a tree of that many.                         *)
Below(n, many) == {Null} \cup n + 1 .. many

Trees ==
    {N \in Seq(Node) :
        \A n \in 1 .. Len(N) : N[n].l \in Below(n, Len(N)) /\ N[n].r \in Below(n, Len(N))}

RootOf(N) == IF Len(N) = 0 THEN Null ELSE 1

(* N2 is N with the data under a new node, a child of p on the side.       *)
Grows(N, N2, p, left, hash, data) ==
    /\ Len(N2) = Len(N) + 1
    /\ N2[Len(N) + 1] = NewNode(hash, data)
    /\ \A n \in 1 .. Len(N) :
          /\ N2[n].hash = N[n].hash /\ N2[n].data = N[n].data
          /\ N2[n].l = (IF n = p /\ left THEN Len(N) + 1 ELSE N[n].l)
          /\ N2[n].r = (IF n = p /\ ~left THEN Len(N) + 1 ELSE N[n].r)

(* N2 is N with other data in the node c.                                  *)
Replaces(N, N2, c, data) ==
    /\ Len(N2) = Len(N)
    /\ \A n \in 1 .. Len(N) :
          /\ N2[n].hash = N[n].hash /\ N2[n].l = N[n].l /\ N2[n].r = N[n].r
          /\ N2[n].data = (IF n = c THEN data ELSE N[n].data)

(* What a node of a well-linked tree holds.                                *)
LEMMA TreeFields ==
    ASSUME NEW N \in Trees
    PROVE  /\ Len(N) \in Nat /\ N \in Seq(Node)
           /\ \A n \in 1 .. Len(N) :
                 /\ N[n] \in Node /\ N[n].hash \in Hashes /\ N[n].data \in Value
                 /\ N[n].l \in Below(n, Len(N)) /\ N[n].r \in Below(n, Len(N))
                 /\ N[n].l \in 0 .. Len(N) /\ N[n].r \in 0 .. Len(N)
<1>1. Len(N) \in Nat /\ N \in Seq(Node) /\ \A n \in 1 .. Len(N) : N[n] \in Node
  BY LenProperties, ElementOfSeq DEF Trees
<1>2. \A n \in 1 .. Len(N) :
          N[n].l \in Below(n, Len(N)) /\ N[n].r \in Below(n, Len(N))
  BY DEF Trees
<1>3. \A n \in 1 .. Len(N) : Below(n, Len(N)) \subseteq 0 .. Len(N)
  BY <1>1 DEF Below, Null
<1>. QED  BY <1>1, <1>2, <1>3 DEF Node

-----------------------------------------------------------------------------
(* A descent                                                               *)

Place == [prev : Nat, curr : Nat, left : BOOLEAN]

Start(r) == [prev |-> Null, curr |-> r, left |-> FALSE]

StepIn(N, at, hash) ==
    IF at.curr = Null \/ N[at.curr].hash = hash THEN at
    ELSE IF hash < N[at.curr].hash
      THEN [prev |-> at.curr, curr |-> N[at.curr].l, left |-> TRUE]
    ELSE [prev |-> at.curr, curr |-> N[at.curr].r, left |-> FALSE]

(* The first n turns of a descent from r in N.                             *)
Turns(at, N, r, hash, n) ==
    at = [turn \in 0 .. n |->
            IF turn = 0 THEN Start(r) ELSE StepIn(N, at[turn - 1], hash)]

(* Where it ends.                                                          *)
EndsAt(e, N, r, hash) == \E at : Turns(at, N, r, hash, Len(N)) /\ e = at[Len(N)]

(* A descent of any number of turns exists.                                *)
LEMMA TurnsExist ==
    ASSUME NEW N, NEW r, NEW hash
    PROVE  \A n \in Nat : \E at : Turns(at, N, r, hash, n)
<1>. DEFINE S == {n \in Nat : \E at : Turns(at, N, r, hash, n)}
<1>1. 0 \in S
  <2>1. Turns([turn \in 0 .. 0 |-> Start(r)], N, r, hash, 0)
    BY DEF Turns
  <2>. QED  BY <2>1
<1>2. ASSUME NEW n \in Nat, n \in S PROVE n + 1 \in S
  <2>1. PICK at : Turns(at, N, r, hash, n)
    BY <1>2
  <2>. DEFINE m == n + 1
              longer == [turn \in 0 .. m |->
                            IF turn = m THEN StepIn(N, at[n], hash) ELSE at[turn]]
  <2>2. m \in Nat /\ m - 1 = n /\ m # 0
    BY <1>2
  <2>3. ASSUME NEW turn \in 0 .. m
        PROVE  longer[turn] =
                  IF turn = 0 THEN Start(r) ELSE StepIn(N, longer[turn - 1], hash)
    <3>1. CASE turn = 0
      BY <1>2, <2>1, <2>2, <3>1 DEF Turns
    <3>2. CASE turn = m
      BY <1>2, <2>1, <2>2, <3>2 DEF Turns
    <3>3. CASE turn # 0 /\ turn # m
      <4>1. turn \in 0 .. n /\ turn - 1 \in 0 .. n /\ turn - 1 \in 0 .. m /\ turn - 1 # m
        BY <1>2, <3>3
      <4>2. at[turn] = StepIn(N, at[turn - 1], hash)
        BY <2>1, <3>3, <4>1 DEF Turns
      <4>. QED  BY <3>3, <4>1, <4>2
    <3>. QED  BY <3>1, <3>2, <3>3
  <2>4. Turns(longer, N, r, hash, m)
    BY <2>3 DEF Turns
  <2>. QED  BY <2>2, <2>4
<1>. HIDE DEF S
<1>3. ASSUME NEW n \in Nat PROVE n \in S
  <2>1. \A t \in 0 .. n : t \in S
    BY <1>1, <1>2, Upwards
  <2>. QED  BY <2>1
<1>. QED  BY <1>3 DEF S

(* Its turns, one by one.                                                  *)
LEMMA TurnsAre ==
    ASSUME NEW n \in Nat, NEW N, NEW r, NEW hash, NEW at, Turns(at, N, r, hash, n)
    PROVE  /\ at[0] = Start(r)
           /\ \A t \in 0 .. n - 1 : at[t + 1] = StepIn(N, at[t], hash)
<1>1. ASSUME NEW t \in 0 .. n - 1 PROVE at[t + 1] = StepIn(N, at[t], hash)
  <2>1. t + 1 \in 0 .. n /\ t + 1 # 0 /\ (t + 1) - 1 = t
    BY <1>1
  <2>. QED  BY <2>1 DEF Turns
<1>. QED  BY <1>1 DEF Turns

(* The turns are the same however many of them are made.                   *)
LEMMA TurnsAgree ==
    ASSUME NEW n \in Nat, NEW m \in n .. n + 1, NEW N, NEW r, NEW hash,
           NEW at, Turns(at, N, r, hash, n), NEW at2, Turns(at2, N, r, hash, m)
    PROVE  \A t \in 0 .. n : at2[t] = at[t]
<1>. DEFINE S == {t \in 0 .. n : at2[t] = at[t]}
<1>1. /\ at[0] = Start(r) /\ \A t \in 0 .. n - 1 : at[t + 1] = StepIn(N, at[t], hash)
      /\ at2[0] = Start(r) /\ \A t \in 0 .. n - 1 : at2[t + 1] = StepIn(N, at2[t], hash)
  <2>1. m \in Nat /\ \A t \in 0 .. n - 1 : t \in 0 .. m - 1
    OBVIOUS
  <2>. QED  BY <2>1, TurnsAre
<1>2. 0 \in S
  BY <1>1
<1>3. \A t \in 0 .. n - 1 : t \in S => t + 1 \in S
  BY <1>1
<1>. HIDE DEF S
<1>4. \A t \in 0 .. n : t \in S
  BY <1>2, <1>3, Upwards
<1>. QED  BY <1>4 DEF S
(* Each turn goes to a later node, until the hash or no node is found.     *)
(* Where there is none, the place is the one of a missing child.           *)
LEMMA PlacesAre ==
    ASSUME NEW N \in Trees, NEW hash, NEW n \in Nat, NEW at,
           Turns(at, N, RootOf(N), hash, n)
    PROVE  \A t \in 0 .. n :
              /\ at[t] \in Place /\ at[t].curr \in 0 .. Len(N)
              /\ at[t].curr = Null \/ at[t].curr > t \/ N[at[t].curr].hash = hash
              /\ at[t].curr = Null =>
                   \/ Len(N) = 0 /\ at[t].prev = Null
                   \/ /\ at[t].prev \in 1 .. Len(N)
                      /\ IF at[t].left THEN N[at[t].prev].l = Null
                                       ELSE N[at[t].prev].r = Null
<1>. DEFINE Good(p, t) ==
              /\ p \in Place /\ p.curr \in 0 .. Len(N)
              /\ p.curr = Null \/ p.curr > t \/ N[p.curr].hash = hash
              /\ p.curr = Null =>
                   \/ Len(N) = 0 /\ p.prev = Null
                   \/ /\ p.prev \in 1 .. Len(N)
                      /\ IF p.left THEN N[p.prev].l = Null ELSE N[p.prev].r = Null
            S == {t \in 0 .. n : Good(at[t], t)}
<1>1. /\ at[0] = Start(RootOf(N))
      /\ \A t \in 0 .. n - 1 : at[t + 1] = StepIn(N, at[t], hash)
  BY TurnsAre
<1>2. Good(Start(RootOf(N)), 0)
  <2>1. Len(N) \in Nat
    BY TreeFields
  <2>2. RootOf(N) \in 0 .. Len(N) /\ RootOf(N) \in Nat
        /\ (RootOf(N) = 0 => Len(N) = 0) /\ (RootOf(N) = 0 \/ RootOf(N) > 0)
    BY <2>1 DEF RootOf, Null
  <2>. HIDE DEF Good
  <2>3. /\ Start(RootOf(N)) \in Place /\ Start(RootOf(N)).curr = RootOf(N)
        /\ Start(RootOf(N)).prev = 0 /\ Start(RootOf(N)).left = FALSE
    BY <2>2 DEF Start, Place, Null
  <2>. QED  BY <2>2, <2>3 DEF Good, Null
<1>3. ASSUME NEW t \in 0 .. n - 1, NEW p, Good(p, t) PROVE Good(StepIn(N, p, hash), t + 1)
  <2>. DEFINE c == p.curr
              q == StepIn(N, p, hash)
  <2>1. p \in Place /\ c \in 0 .. Len(N) /\ c \in Nat /\ Len(N) \in Nat /\ t \in Nat
    BY <1>3, TreeFields DEF Place
  <2>2. CASE c = Null \/ N[c].hash = hash
    <3>1. q = p
      BY <2>2 DEF StepIn
    <3>. QED  BY <1>3, <2>2, <3>1
  <2>3. CASE c # Null /\ N[c].hash # hash
    <3>1. c \in 1 .. Len(N) /\ c > t
      BY <1>3, <2>1, <2>3 DEF Null
    <3>2. /\ N[c].l \in Below(c, Len(N)) /\ N[c].r \in Below(c, Len(N))
          /\ N[c].l \in 0 .. Len(N) /\ N[c].r \in 0 .. Len(N)
      BY <3>1, TreeFields
    <3>. HIDE DEF Good
    <3>3. ASSUME NEW d \in Below(c, Len(N)), NEW left \in BOOLEAN,
                 d = (IF left THEN N[c].l ELSE N[c].r),
                 q = [prev |-> c, curr |-> d, left |-> left]
          PROVE  Good(q, t + 1)
      <4>. HIDE DEF c, q
      <4>1. d \in Nat /\ d \in 0 .. Len(N) /\ (d = 0 \/ d > t + 1)
        BY <2>1, <3>1, <3>3 DEF Below, Null
      <4>2. q \in Place /\ q.prev = c /\ q.curr = d /\ q.left = left
        BY <2>1, <3>3, <4>1 DEF Place
      <4>3. IF left THEN d = N[c].l ELSE d = N[c].r
        BY <3>3
      <4>. QED  BY <3>1, <4>1, <4>2, <4>3 DEF Good, Null
    <3>4. CASE hash < N[c].hash
      <4>1. q = [prev |-> c, curr |-> N[c].l, left |-> TRUE]
        BY <2>3, <3>4 DEF StepIn
      <4>. HIDE DEF c, q
      <4>2. Good(q, t + 1)
        BY <3>2, <3>3, <4>1, Zenon
      <4>. QED  BY <4>2 DEF q
    <3>5. CASE ~(hash < N[c].hash)
      <4>1. q = [prev |-> c, curr |-> N[c].r, left |-> FALSE]
        BY <2>3, <3>5 DEF StepIn
      <4>. HIDE DEF c, q
      <4>2. Good(q, t + 1)
        BY <3>2, <3>3, <4>1, Zenon
      <4>. QED  BY <4>2 DEF q
    <3>. QED  BY <3>4, <3>5
  <2>. QED  BY <2>2, <2>3
<1>. HIDE DEF Good
<1>4. 0 \in S
  BY <1>1, <1>2
<1>5. ASSUME NEW t \in 0 .. n - 1, t \in S PROVE t + 1 \in S
  <2>1. Good(StepIn(N, at[t], hash), t + 1) /\ t + 1 \in 0 .. n
    BY <1>3, <1>5
  <2>. QED  BY <1>1, <2>1
<1>. HIDE DEF S
<1>6. \A t \in 0 .. n : t \in S
  BY <1>4, <1>5, Upwards
<1>. QED  BY <1>6 DEF S, Good

(* Where a descent ends, the node has the hash, or there is none.          *)
LEMMA EndIs ==
    ASSUME NEW N \in Trees, NEW hash, NEW e, EndsAt(e, N, RootOf(N), hash)
    PROVE  /\ e \in Place /\ e.curr \in 0 .. Len(N)
           /\ e.curr # Null => N[e.curr].hash = hash
           /\ e.curr = Null =>
                   \/ Len(N) = 0 /\ e.prev = Null
                   \/ /\ e.prev \in 1 .. Len(N)
                      /\ IF e.left THEN N[e.prev].l = Null ELSE N[e.prev].r = Null
<1>. DEFINE n == Len(N)
<1>1. n \in Nat /\ n \in 0 .. n
  BY TreeFields
<1>2. PICK at : Turns(at, N, RootOf(N), hash, n) /\ e = at[n]
  BY DEF EndsAt
<1>. HIDE DEF n
<1>3. /\ at[n] \in Place /\ at[n].curr \in 0 .. Len(N)
      /\ at[n].curr = Null \/ at[n].curr > n \/ N[at[n].curr].hash = hash
      /\ at[n].curr = Null =>
           \/ Len(N) = 0 /\ at[n].prev = Null
           \/ /\ at[n].prev \in 1 .. Len(N)
              /\ IF at[n].left THEN N[at[n].prev].l = Null ELSE N[at[n].prev].r = Null
  BY <1>1, <1>2, PlacesAre
<1>4. ~(at[n].curr > n)
  BY <1>1, <1>3 DEF n
<1>. QED  BY <1>2, <1>3, <1>4

(* The loop of ptree_get and ptree_set stops in every tree: within as many *)
(* turns as there are nodes.                                               *)
LEMMA EndExists ==
    ASSUME NEW N \in Trees, NEW r, NEW hash
    PROVE  \E e : EndsAt(e, N, r, hash)
<1>1. Len(N) \in Nat
  BY TreeFields
<1>. QED  BY <1>1, TurnsExist DEF EndsAt

(* It stops in one place.                                                  *)
LEMMA EndIsOne ==
    ASSUME NEW N \in Trees, NEW r, NEW hash,
           NEW e, EndsAt(e, N, r, hash), NEW e2, EndsAt(e2, N, r, hash)
    PROVE  e = e2
<1>. DEFINE n == Len(N)
<1>1. n \in Nat /\ n \in 0 .. n /\ n \in n .. n + 1
  BY TreeFields
<1>2. PICK at : Turns(at, N, r, hash, n) /\ e = at[n]
  BY DEF EndsAt
<1>3. PICK at2 : Turns(at2, N, r, hash, n) /\ e2 = at2[n]
  BY DEF EndsAt
<1>. HIDE DEF n
<1>. QED  BY <1>1, <1>2, <1>3, TurnsAgree

(* It has come to its end after as many turns as there are nodes.          *)
LEMMA EndsEarly ==
    ASSUME NEW N \in Trees, NEW hash, NEW e, EndsAt(e, N, RootOf(N), hash),
           NEW at, Turns(at, N, RootOf(N), hash, Len(N) + 1)
    PROVE  e = at[Len(N)] /\ e = at[Len(N) + 1]
<1>. DEFINE n == Len(N)
<1>1. n \in Nat /\ n \in 0 .. n /\ n + 1 \in n .. n + 1 /\ n + 1 \in Nat
      /\ n \in 0 .. (n + 1) - 1
  BY TreeFields
<1>2. PICK at2 : Turns(at2, N, RootOf(N), hash, n) /\ e = at2[n]
  BY DEF EndsAt
<1>3. e.curr # Null => N[e.curr].hash = hash
  BY EndIs
<1>4. Turns(at, N, RootOf(N), hash, n + 1)
  OBVIOUS
<1>. HIDE DEF n
<1>5. at[n] = at2[n]
  BY <1>1, <1>2, <1>4, TurnsAgree
<1>6. at[n + 1] = StepIn(N, at[n], hash)
  BY <1>1, <1>4, TurnsAre
<1>7. StepIn(N, e, hash) = e
  BY <1>3 DEF StepIn
<1>. QED  BY <1>2, <1>5, <1>6, <1>7 DEF n
-----------------------------------------------------------------------------
(* What setting a key does to the tree                                     *)

Linked(N, e) ==
    IF e.prev = Null THEN N
    ELSE IF e.left THEN [N EXCEPT ![e.prev].l = Len(N) + 1]
    ELSE [N EXCEPT ![e.prev].r = Len(N) + 1]

(* A node in which a child is another one.                                 *)
LEMMA NodeWith ==
    ASSUME NEW node \in Node, NEW n \in Nat, NEW data \in Value
    PROVE  /\ /\ [node EXCEPT !.l = n] \in Node
              /\ [node EXCEPT !.l = n].l = n /\ [node EXCEPT !.l = n].r = node.r
              /\ [node EXCEPT !.l = n].hash = node.hash
              /\ [node EXCEPT !.l = n].data = node.data
           /\ /\ [node EXCEPT !.r = n] \in Node
              /\ [node EXCEPT !.r = n].r = n /\ [node EXCEPT !.r = n].l = node.l
              /\ [node EXCEPT !.r = n].hash = node.hash
              /\ [node EXCEPT !.r = n].data = node.data
           /\ /\ [node EXCEPT !.data = data] \in Node
              /\ [node EXCEPT !.data = data].l = node.l
              /\ [node EXCEPT !.data = data].r = node.r
              /\ [node EXCEPT !.data = data].hash = node.hash
              /\ [node EXCEPT !.data = data].data = data
  BY DEF Node

(* A tree with other nodes in the same places is a tree if its links are   *)
(* links of one.                                                           *)
LEMMA TreeIs ==
    ASSUME NEW N \in Seq(Node),
           \A n \in 1 .. Len(N) : N[n].l \in Below(n, Len(N)) /\ N[n].r \in Below(n, Len(N))
    PROVE  N \in Trees
  BY DEF Trees

(* The nodes after the new one is hung from its parent: only that link     *)
(* changed.                                                                *)
LEMMA LinkedIs ==
    ASSUME NEW N \in Trees, NEW e \in Place, e.prev \in 0 .. Len(N)
    PROVE  /\ Linked(N, e) \in Seq(Node) /\ Len(Linked(N, e)) = Len(N)
           /\ \A n \in 1 .. Len(N) :
                 /\ Linked(N, e)[n].hash = N[n].hash /\ Linked(N, e)[n].data = N[n].data
                 /\ Linked(N, e)[n].l =
                       (IF n = e.prev /\ e.left THEN Len(N) + 1 ELSE N[n].l)
                 /\ Linked(N, e)[n].r =
                       (IF n = e.prev /\ ~e.left THEN Len(N) + 1 ELSE N[n].r)
<1>. DEFINE p == e.prev
            m == Len(N) + 1
            linked == Linked(N, e)
<1>1. /\ N \in Seq(Node) /\ Len(N) \in Nat /\ m \in Nat
      /\ \A n \in 1 .. Len(N) : N[n] \in Node
  BY TreeFields
<1>2. CASE p = Null
  <2>1. linked = N /\ \A n \in 1 .. Len(N) : n # p
    BY <1>2 DEF Linked, Null
  <2>. QED  BY <1>1, <2>1
<1>3. ASSUME p # Null, NEW node \in Node, linked = [N EXCEPT ![p] = node],
             node.hash = N[p].hash, node.data = N[p].data,
             node.l = (IF e.left THEN m ELSE N[p].l),
             node.r = (IF ~e.left THEN m ELSE N[p].r)
      PROVE  /\ linked \in Seq(Node) /\ Len(linked) = Len(N)
             /\ \A n \in 1 .. Len(N) :
                   /\ linked[n].hash = N[n].hash /\ linked[n].data = N[n].data
                   /\ linked[n].l = (IF n = p /\ e.left THEN m ELSE N[n].l)
                   /\ linked[n].r = (IF n = p /\ ~e.left THEN m ELSE N[n].r)
  <2>1. p \in 1 .. Len(N)
    BY <1>1, <1>3 DEF Null
  <2>. HIDE DEF linked, p, m
  <2>2. /\ linked \in Seq(Node) /\ Len(linked) = Len(N)
        /\ \A j \in 1 .. Len(N) : linked[j] = IF j = p THEN node ELSE N[j]
    BY <1>1, <1>3, <2>1, ExceptSeq
  <2>3. ASSUME NEW n \in 1 .. Len(N)
        PROVE  /\ linked[n].hash = N[n].hash /\ linked[n].data = N[n].data
               /\ linked[n].l = (IF n = p /\ e.left THEN m ELSE N[n].l)
               /\ linked[n].r = (IF n = p /\ ~e.left THEN m ELSE N[n].r)
    <3>1. CASE n = p
      BY <1>3, <2>2, <2>3, <3>1
    <3>2. CASE n # p
      BY <2>2, <2>3, <3>2
    <3>. QED  BY <3>1, <3>2
  <2>. QED  BY <2>2, <2>3
<1>4. CASE p # Null /\ e.left
  <2>1. p \in 1 .. Len(N) /\ N[p] \in Node
    BY <1>1, <1>4 DEF Null
  <2>2. linked = [N EXCEPT ![p] = [N[p] EXCEPT !.l = m]]
    BY <1>1, <1>4, <2>1 DEF Linked
  <2>. DEFINE node == [N[p] EXCEPT !.l = m]
  <2>3. /\ node \in Node /\ node.hash = N[p].hash /\ node.data = N[p].data
        /\ node.l = m /\ node.r = N[p].r
    <3>. HIDE DEF p, m
    <3>. QED  BY <1>1, <2>1, NodeWith DEF Node
  <2>. HIDE DEF node, p, m, linked
  <2>4. node.l = (IF e.left THEN m ELSE N[p].l) /\ node.r = (IF ~e.left THEN m ELSE N[p].r)
    BY <1>4, <2>3
  <2>. QED  BY <1>3, <1>4, <2>2, <2>3, <2>4 DEF node, p, m, linked
<1>5. CASE p # Null /\ ~e.left
  <2>1. p \in 1 .. Len(N) /\ N[p] \in Node
    BY <1>1, <1>5 DEF Null
  <2>2. linked = [N EXCEPT ![p] = [N[p] EXCEPT !.r = m]]
    BY <1>1, <1>5, <2>1 DEF Linked
  <2>. DEFINE node == [N[p] EXCEPT !.r = m]
  <2>3. /\ node \in Node /\ node.hash = N[p].hash /\ node.data = N[p].data
        /\ node.r = m /\ node.l = N[p].l
    <3>. HIDE DEF p, m
    <3>. QED  BY <1>1, <2>1, NodeWith DEF Node
  <2>. HIDE DEF node, p, m, linked
  <2>4. node.l = (IF e.left THEN m ELSE N[p].l) /\ node.r = (IF ~e.left THEN m ELSE N[p].r)
    BY <1>5, <2>3
  <2>. QED  BY <1>3, <1>5, <2>2, <2>3, <2>4 DEF node, p, m, linked
<1>. QED  BY <1>2, <1>4, <1>5

(* A new node, as a child of a node that was there.                        *)
LEMMA InsertedTree ==
    ASSUME NEW N \in Trees, NEW e \in Place, e.prev \in 0 .. Len(N),
           NEW hash \in Hashes, NEW data \in Value
    PROVE  /\ Append(Linked(N, e), NewNode(hash, data)) \in Trees
           /\ Grows(N, Append(Linked(N, e), NewNode(hash, data)), e.prev, e.left, hash, data)
<1>. DEFINE linked == Linked(N, e)
            new == NewNode(hash, data)
            N2 == Append(linked, new)
            n == Len(N)
<1>1. n \in Nat /\ \A i \in 1 .. n : N[i].l \in Below(i, n) /\ N[i].r \in Below(i, n)
  BY TreeFields
<1>2. /\ linked \in Seq(Node) /\ Len(linked) = n
      /\ \A i \in 1 .. n :
            /\ linked[i].hash = N[i].hash /\ linked[i].data = N[i].data
            /\ linked[i].l = (IF i = e.prev /\ e.left THEN n + 1 ELSE N[i].l)
            /\ linked[i].r = (IF i = e.prev /\ ~e.left THEN n + 1 ELSE N[i].r)
  BY LinkedIs
<1>3. new \in Node /\ new.l = Null /\ new.r = Null
  BY DEF NewNode, Node, Null
<1>. HIDE DEF linked, new
<1>4. /\ N2 \in Seq(Node) /\ Len(N2) = n + 1 /\ N2[n + 1] = new
      /\ \A i \in 1 .. n : N2[i] = linked[i]
  BY <1>2, <1>3, AppendProperties
<1>. HIDE DEF N2, n
<1>5. Grows(N, N2, e.prev, e.left, hash, data)
  <2>1. \A i \in 1 .. n :
            /\ N2[i].hash = N[i].hash /\ N2[i].data = N[i].data
            /\ N2[i].l = (IF i = e.prev /\ e.left THEN n + 1 ELSE N[i].l)
            /\ N2[i].r = (IF i = e.prev /\ ~e.left THEN n + 1 ELSE N[i].r)
    BY <1>2, <1>4
  <2>. QED  BY <1>4, <2>1 DEF Grows, new, n
<1>6. ASSUME NEW i \in 1 .. n + 1
      PROVE  N2[i].l \in Below(i, n + 1) /\ N2[i].r \in Below(i, n + 1)
  <2>1. CASE i = n + 1
    BY <1>3, <1>4, <2>1 DEF Below
  <2>2. CASE i # n + 1
    <3>1. i \in 1 .. n /\ n + 1 \in Below(i, n + 1) /\ Below(i, n) \subseteq Below(i, n + 1)
      BY <1>1, <2>2 DEF Below
    <3>2. N2[i].l \in {n + 1, N[i].l} /\ N2[i].r \in {n + 1, N[i].r}
      BY <1>2, <1>4, <3>1
    <3>. QED  BY <1>1, <3>1, <3>2
  <2>. QED  BY <2>1, <2>2
<1>7. N2 \in Trees
  BY <1>4, <1>6, TreeIs
<1>. QED  BY <1>5, <1>7 DEF N2, linked, new

(* Other data in a node that was there.                                    *)
LEMMA ChangedTree ==
    ASSUME NEW N \in Trees, NEW c \in 1 .. Len(N), NEW data \in Value
    PROVE  /\ [N EXCEPT ![c].data = data] \in Trees
           /\ Replaces(N, [N EXCEPT ![c].data = data], c, data)
<1>. DEFINE N2 == [N EXCEPT ![c].data = data]
            node == [N[c] EXCEPT !.data = data]
<1>1. /\ Len(N) \in Nat /\ N \in Seq(Node)
      /\ \A i \in 1 .. Len(N) :
            N[i] \in Node /\ N[i].l \in Below(i, Len(N)) /\ N[i].r \in Below(i, Len(N))
  BY TreeFields
<1>2. N2 = [N EXCEPT ![c] = node]
  BY <1>1
<1>3. /\ node \in Node /\ node.hash = N[c].hash /\ node.data = data
      /\ node.l = N[c].l /\ node.r = N[c].r
  BY <1>1, NodeWith DEF Node
<1>. HIDE DEF node, N2
<1>4. /\ N2 \in Seq(Node) /\ Len(N2) = Len(N)
      /\ \A j \in 1 .. Len(N) : N2[j] = IF j = c THEN node ELSE N[j]
  BY <1>1, <1>2, <1>3, ExceptSeq
<1>5. \A i \in 1 .. Len(N) :
          /\ N2[i].hash = N[i].hash /\ N2[i].l = N[i].l /\ N2[i].r = N[i].r
          /\ N2[i].data = (IF i = c THEN data ELSE N[i].data)
  BY <1>3, <1>4
<1>6. Replaces(N, N2, c, data)
  BY <1>4, <1>5 DEF Replaces
<1>7. N2 \in Trees
  <2>1. \A i \in 1 .. Len(N2) :
            N2[i].l \in Below(i, Len(N2)) /\ N2[i].r \in Below(i, Len(N2))
    BY <1>1, <1>4, <1>5
  <2>. QED  BY <1>4, <2>1, TreeIs
<1>. QED  BY <1>6, <1>7 DEF N2
-----------------------------------------------------------------------------
(* What setting a key does to the descents                                 *)

(* Other data leads nowhere else.                                          *)
LEMMA EndChanged ==
    ASSUME NEW N \in Trees, NEW N2 \in Trees, NEW c, NEW data, Replaces(N, N2, c, data),
           NEW hash, NEW e, EndsAt(e, N, RootOf(N), hash)
    PROVE  EndsAt(e, N2, RootOf(N2), hash)
<1>. DEFINE n == Len(N)
            r == RootOf(N)
<1>1. n \in Nat /\ Len(N2) = n /\ RootOf(N2) = r
  BY TreeFields DEF Replaces, RootOf
<1>2. PICK at : Turns(at, N, r, hash, n) /\ e = at[n]
  BY DEF EndsAt
<1>3. \A t \in 0 .. n : at[t].curr \in 0 .. Len(N)
  BY <1>1, <1>2, PlacesAre
<1>4. ASSUME NEW t \in 0 .. n PROVE StepIn(N2, at[t], hash) = StepIn(N, at[t], hash)
  <2>1. CASE at[t].curr = Null
    BY <2>1 DEF StepIn
  <2>2. CASE at[t].curr # Null
    <3>1. at[t].curr \in 1 .. Len(N)
      BY <1>1, <1>3, <2>2 DEF Null
    <3>. QED  BY <3>1 DEF StepIn, Replaces
  <2>. QED  BY <2>1, <2>2
<1>. HIDE DEF n, r
<1>5. Turns(at, N2, r, hash, n)
  <2>1. \A turn \in 0 .. n : turn # 0 => turn - 1 \in 0 .. n
    BY <1>1
  <2>2. ASSUME NEW turn \in 0 .. n
        PROVE  (IF turn = 0 THEN Start(r) ELSE StepIn(N2, at[turn - 1], hash))
                  = (IF turn = 0 THEN Start(r) ELSE StepIn(N, at[turn - 1], hash))
    BY <1>4, <2>1
  <2>. QED  BY <1>2, <2>2 DEF Turns
<1>. QED  BY <1>1, <1>2, <1>5 DEF EndsAt, n, r

(* N2 is N with a new node at the place e0, which has none.                *)
GrowsAt(N, N2, e0, hash, data) ==
    e0.curr = Null /\ Grows(N, N2, e0.prev, e0.left, hash, data)

(* Where a descent that ended at e ends now.                               *)
EndMoves(e2, N, e, hash0, hash) ==
    e2.curr = IF hash = hash0 THEN Len(N) + 1 ELSE e.curr

(* With a new node where the descent for its hash had ended, this descent  *)
(* ends at the new node, and every other one where it did.                 *)
LEMMA EndGrown ==
    ASSUME NEW N \in Trees, NEW N2 \in Trees, NEW hash0, NEW data,
           NEW e0, EndsAt(e0, N, RootOf(N), hash0), GrowsAt(N, N2, e0, hash0, data),
           NEW hash, NEW e, EndsAt(e, N, RootOf(N), hash),
           NEW e2, EndsAt(e2, N2, RootOf(N2), hash)
    PROVE  EndMoves(e2, N, e, hash0, hash)
<1>. DEFINE n == Len(N)
            m == Len(N) + 1
            New == IF hash = hash0 THEN {m} ELSE {Null, m}
            r == RootOf(N)
<1>1. n \in Nat /\ m \in Nat /\ m = n + 1 /\ Len(N2) = m /\ n \in 0 .. m /\ m \in 0 .. m
      /\ m # Null /\ RootOf(N2) = 1
  BY TreeFields DEF GrowsAt, Grows, RootOf, Null
<1>2. /\ N2[m].hash = hash0 /\ N2[m].l = Null /\ N2[m].r = Null
      /\ \A i \in 1 .. n :
            /\ N2[i].hash = N[i].hash
            /\ N2[i].l = (IF i = e0.prev /\ e0.left THEN m ELSE N[i].l)
            /\ N2[i].r = (IF i = e0.prev /\ ~e0.left THEN m ELSE N[i].r)
  BY DEF GrowsAt, Grows, NewNode
<1>3. /\ e0 \in Place
      /\ \/ n = 0 /\ e0.prev = Null
         \/ /\ e0.prev \in 1 .. n
            /\ IF e0.left THEN N[e0.prev].l = Null ELSE N[e0.prev].r = Null
  BY EndIs DEF GrowsAt
<1>4. PICK at : Turns(at, N, r, hash, m)
  BY <1>1, TurnsExist
<1>5. e = at[m]
  BY <1>4, EndsEarly
<1>6. PICK at2 : Turns(at2, N2, 1, hash, m) /\ e2 = at2[m]
  BY <1>1 DEF EndsAt
<1>7. /\ at[0] = Start(r) /\ \A t \in 0 .. m - 1 : at[t + 1] = StepIn(N, at[t], hash)
      /\ at2[0] = Start(1) /\ \A t \in 0 .. m - 1 : at2[t + 1] = StepIn(N2, at2[t], hash)
  BY <1>1, <1>4, <1>6, TurnsAre
<1>8. \A t \in 0 .. m : at[t] \in Place /\ at[t].curr \in 0 .. n
  BY <1>1, <1>4, PlacesAre
(* For the hash of the new node, the first place without a node is e0.     *)
<1>9. ASSUME hash = hash0 PROVE e = e0 /\ e.curr = Null
  BY <1>9, EndIsOne DEF GrowsAt
<1>10. \A t \in 0 .. m : at[t].curr = Null => at[t] = e
  <2>. SUFFICES ASSUME NEW t \in 0 .. m, at[t].curr = Null PROVE at[t] = e
    OBVIOUS
  <2>. DEFINE S == {k \in 0 .. m - t : at[t + k] = at[t]}
              k0 == m - t
  <2>1. k0 \in Nat /\ 0 \in S /\ t + k0 = m /\ k0 \in 0 .. k0
    BY <1>1
  <2>2. ASSUME NEW k \in 0 .. k0 - 1, k \in S PROVE k + 1 \in S
    <3>1. t + k \in 0 .. m - 1 /\ t + (k + 1) = (t + k) + 1 /\ k + 1 \in 0 .. m - t
      BY <1>1, <2>2
    <3>2. at[t + k] = at[t]
      BY <2>2
    <3>3. StepIn(N, at[t], hash) = at[t]
      BY DEF StepIn
    <3>. QED  BY <1>7, <3>1, <3>2, <3>3
  <2>. HIDE DEF S, k0
  <2>3. \A k \in 0 .. k0 : k \in S
    BY <2>1, <2>2, Upwards
  <2>4. at[t + k0] = at[t]
    BY <2>1, <2>3 DEF S
  <2>. QED  BY <1>5, <2>1, <2>4
<1>. DEFINE Same(t) == IF at[t].curr = Null THEN at2[t].curr \in New ELSE at2[t] = at[t]
            S == {t \in 0 .. m : Same(t)}
<1>11. 0 \in S
  <2>1. at[0].curr = r /\ at2[0].curr = 1 /\ at2[0] = Start(1)
    BY <1>7 DEF Start
  <2>2. CASE n = 0
    BY <1>1, <2>1, <2>2 DEF RootOf, Null
  <2>3. CASE n # 0
    BY <1>1, <1>7, <2>1, <2>3 DEF RootOf, Null
  <2>. QED  BY <2>2, <2>3
<1>12. ASSUME NEW t \in 0 .. m - 1, t \in S PROVE t + 1 \in S
  <2>1. /\ t \in 0 .. m /\ t + 1 \in 0 .. m
        /\ at[t + 1] = StepIn(N, at[t], hash) /\ at2[t + 1] = StepIn(N2, at2[t], hash)
    BY <1>1, <1>7
  <2>2. CASE at[t].curr = Null
    <3>1. at[t + 1].curr = Null /\ at2[t].curr \in New
      BY <1>12, <2>1, <2>2 DEF StepIn
    <3>2. CASE at2[t].curr = Null
      BY <1>12, <2>1, <3>1, <3>2 DEF StepIn
    <3>3. CASE at2[t].curr = m /\ hash = hash0
      BY <1>2, <1>12, <2>1, <3>1, <3>3 DEF StepIn
    <3>4. CASE at2[t].curr = m /\ hash # hash0
      <4>1. at2[t + 1].curr = Null
        <5>1. CASE hash < N2[m].hash
          BY <1>1, <1>2, <2>1, <3>4, <5>1 DEF StepIn
        <5>2. CASE ~(hash < N2[m].hash)
          BY <1>1, <1>2, <2>1, <3>4, <5>2 DEF StepIn
        <5>. QED  BY <5>1, <5>2
      <4>. QED  BY <2>1, <3>1, <3>4, <4>1
    <3>. QED  BY <3>1, <3>2, <3>3, <3>4
  <2>3. CASE at[t].curr # Null
    <3>. DEFINE c == at[t].curr
    <3>1. at2[t] = at[t] /\ c \in 1 .. n
      BY <1>1, <1>8, <1>12, <2>1, <2>3 DEF Null
    <3>2. CASE N[c].hash = hash
      <4>1. at[t + 1] = at[t] /\ at2[t + 1] = at[t]
        BY <1>2, <2>1, <3>1, <3>2 DEF StepIn
      <4>. QED  BY <2>1, <2>3, <4>1
    <3>3. ASSUME N[c].hash # hash, NEW left \in BOOLEAN, NEW d, NEW d2,
                 at[t + 1] = [prev |-> c, curr |-> d, left |-> left],
                 at2[t + 1] = [prev |-> c, curr |-> d2, left |-> left],
                 d2 = d \/ d2 = m,
                 d2 = d \/ (c = e0.prev /\ left = e0.left),
                 c = e0.prev /\ left = e0.left => d2 = m /\ d = Null
          PROVE  t + 1 \in S
      <4>1. at[t + 1].curr = d /\ at2[t + 1].curr = d2 /\ at[t + 1].prev = c
            /\ at[t + 1].left = left
        BY <3>3
      <4>. HIDE DEF c
      <4>2. CASE d # Null
        <5>1. d2 = d
          BY <3>3, <4>2
        <5>. QED  BY <2>1, <3>3, <4>1, <4>2, <5>1
      <4>3. CASE d = Null /\ hash # hash0
        BY <2>1, <3>3, <4>1, <4>3
      <4>4. CASE d = Null /\ hash = hash0
        <5>1. at[t + 1] = e0
          BY <1>9, <1>10, <2>1, <4>1, <4>4
        <5>2. d2 = m
          BY <3>3, <4>1, <5>1
        <5>. QED  BY <2>1, <4>1, <4>4, <5>2
      <4>. QED  BY <4>2, <4>3, <4>4
    <3>4. CASE N[c].hash # hash /\ hash < N[c].hash
      <4>1. /\ at[t + 1] = [prev |-> c, curr |-> N[c].l, left |-> TRUE]
            /\ at2[t + 1] = [prev |-> c, curr |-> N2[c].l, left |-> TRUE]
        BY <1>2, <2>1, <2>3, <3>1, <3>4 DEF StepIn
      <4>2. N2[c].l = (IF c = e0.prev /\ e0.left THEN m ELSE N[c].l)
        BY <1>2, <3>1
      <4>3. e0.left \in BOOLEAN /\ (c = e0.prev /\ e0.left => N[c].l = Null)
        BY <1>1, <1>3, <3>1 DEF Place, Null
      <4>. HIDE DEF c, S, m
      <4>. QED  BY <3>3, <3>4, <4>1, <4>2, <4>3
    <3>5. CASE N[c].hash # hash /\ ~(hash < N[c].hash)
      <4>1. /\ at[t + 1] = [prev |-> c, curr |-> N[c].r, left |-> FALSE]
            /\ at2[t + 1] = [prev |-> c, curr |-> N2[c].r, left |-> FALSE]
        BY <1>2, <2>1, <2>3, <3>1, <3>5 DEF StepIn
      <4>2. N2[c].r = (IF c = e0.prev /\ ~e0.left THEN m ELSE N[c].r)
        BY <1>2, <3>1
      <4>3. e0.left \in BOOLEAN /\ (c = e0.prev /\ ~e0.left => N[c].r = Null)
        BY <1>1, <1>3, <3>1 DEF Place, Null
      <4>. HIDE DEF c, S, m
      <4>. QED  BY <3>3, <3>5, <4>1, <4>2, <4>3
    <3>. QED  BY <3>2, <3>4, <3>5
  <2>. QED  BY <2>2, <2>3
<1>. HIDE DEF S
<1>13. m \in S
  BY <1>1, <1>11, <1>12, Upwards
<1>14. IF e.curr = Null THEN e2.curr \in New ELSE e2 = e
  BY <1>1, <1>5, <1>6, <1>13 DEF S
<1>15. CASE hash = hash0
  <2>1. e.curr = Null
    BY <1>9, <1>15
  <2>. QED  BY <1>14, <1>15, <2>1 DEF EndMoves
<1>16. CASE hash # hash0
  <2>1. e2.curr # Null => N2[e2.curr].hash = hash
    BY EndIs
  <2>. QED  BY <1>1, <1>2, <1>14, <1>16, <2>1 DEF EndMoves
<1>. QED  BY <1>15, <1>16
-----------------------------------------------------------------------------
(* The map                                                                 *)

TreeInv ==
    /\ nodes \in Trees
    /\ root = RootOf(nodes)
    /\ mutable \in BOOLEAN

(* Descent is the place where the loop stops, before a step ...            *)
LEMMA DescentIs ==
    ASSUME TreeInv, NEW hash
    PROVE  EndsAt(Descent(hash), nodes, RootOf(nodes), hash)
<1>. DEFINE at == CHOOSE f :
        f = [turn \in 0 .. Len(nodes) |->
                IF turn = 0 THEN [prev |-> Null, curr |-> root, left |-> FALSE]
                ELSE Down(f[turn - 1], hash)]
<1>1. Len(nodes) \in Nat /\ root = RootOf(nodes)
  BY TreeFields DEF TreeInv
<1>2. \E f : f = [turn \in 0 .. Len(nodes) |->
                IF turn = 0 THEN [prev |-> Null, curr |-> root, left |-> FALSE]
                ELSE Down(f[turn - 1], hash)]
  <2>1. PICK f : Turns(f, nodes, root, hash, Len(nodes))
    BY <1>1, TurnsExist
  <2>. QED  BY <2>1 DEF Turns, Start, StepIn, Down
<1>3. Turns(at, nodes, root, hash, Len(nodes))
  <2>1. at = [turn \in 0 .. Len(nodes) |->
                IF turn = 0 THEN [prev |-> Null, curr |-> root, left |-> FALSE]
                ELSE Down(at[turn - 1], hash)]
    BY <1>2
  <2>. HIDE DEF at
  <2>. QED  BY <2>1 DEF Turns, Start, StepIn, Down
<1>4. Descent(hash) = at[Len(nodes)]
  BY DEF Descent
<1>. HIDE DEF at
<1>. QED  BY <1>1, <1>3, <1>4 DEF EndsAt

(* ... and after it.                                                       *)
LEMMA DescentNext ==
    ASSUME TreeInv', NEW hash
    PROVE  EndsAt(Descent(hash)', nodes', RootOf(nodes'), hash)
<1>. DEFINE at == CHOOSE f :
        f = [turn \in 0 .. Len(nodes') |->
                IF turn = 0 THEN [prev |-> Null, curr |-> root', left |-> FALSE]
                ELSE StepIn(nodes', f[turn - 1], hash)]
<1>1. Len(nodes') \in Nat /\ root' = RootOf(nodes')
  BY TreeFields DEF TreeInv, RootOf
<1>2. \E f : f = [turn \in 0 .. Len(nodes') |->
                IF turn = 0 THEN [prev |-> Null, curr |-> root', left |-> FALSE]
                ELSE StepIn(nodes', f[turn - 1], hash)]
  <2>1. PICK f : Turns(f, nodes', root', hash, Len(nodes'))
    BY <1>1, TurnsExist
  <2>. QED  BY <2>1 DEF Turns, Start
<1>3. Turns(at, nodes', root', hash, Len(nodes'))
  <2>1. at = [turn \in 0 .. Len(nodes') |->
                IF turn = 0 THEN [prev |-> Null, curr |-> root', left |-> FALSE]
                ELSE StepIn(nodes', at[turn - 1], hash)]
    BY <1>2
  <2>. HIDE DEF at
  <2>. QED  BY <2>1 DEF Turns, Start
<1>4. Descent(hash)' = at[Len(nodes')]
  BY DEF Descent, Down, StepIn
<1>. HIDE DEF at
<1>. QED  BY <1>1, <1>3, <1>4 DEF EndsAt

(* What is read under a hash in a tree.                                    *)
Yields(v, N, hash) ==
    \E e : /\ EndsAt(e, N, RootOf(N), hash)
           /\ v = IF e.curr = Null THEN Absent ELSE N[e.curr].data

(* A hash reads one value.                                                 *)
LEMMA ReadsOne ==
    ASSUME NEW N \in Trees, NEW hash, NEW v, NEW v2, Yields(v, N, hash), Yields(v2, N, hash)
    PROVE  v = v2
<1>1. PICK e : /\ EndsAt(e, N, RootOf(N), hash)
               /\ v = IF e.curr = Null THEN Absent ELSE N[e.curr].data
  BY DEF Yields
<1>2. PICK e2 : /\ EndsAt(e2, N, RootOf(N), hash)
                /\ v2 = IF e2.curr = Null THEN Absent ELSE N[e2.curr].data
  BY DEF Yields
<1>3. e = e2
  BY <1>1, <1>2, EndIsOne
<1>. QED  BY <1>1, <1>2, <1>3

(* ptree_get returns what the hash of the key reads, before a step ...     *)
LEMMA GetReads ==
    ASSUME TreeInv, NEW key \in Key
    PROVE  Yields(PtreeGet(key), nodes, HashValue[key])
<1>. DEFINE e == Descent(HashValue[key])
<1>1. EndsAt(e, nodes, RootOf(nodes), HashValue[key])
  BY DescentIs
<1>2. e.curr \in 0 .. Len(nodes) /\ Len(nodes) \in Nat
  BY <1>1, EndIs, TreeFields DEF TreeInv
<1>3. PtreeGet(key) = IF root = Null \/ e.curr = Null THEN Absent ELSE nodes[e.curr].data
  BY DEF PtreeGet
<1>. HIDE DEF e
<1>4. root = Null => e.curr = Null
  BY <1>2 DEF TreeInv, RootOf, Null
<1>. QED  BY <1>1, <1>3, <1>4 DEF Yields

(* ... and after it.                                                       *)
LEMMA GetReadsNext ==
    ASSUME TreeInv', NEW key \in Key
    PROVE  Yields(PtreeGet(key)', nodes', HashValue[key])
<1>. DEFINE h == HashValue[key]
            e == Descent(h)'
<1>1. EndsAt(e, nodes', RootOf(nodes'), h)
  BY DescentNext
<1>2. e.curr \in 0 .. Len(nodes') /\ Len(nodes') \in Nat
  BY <1>1, EndIs, TreeFields DEF TreeInv
<1>3. PtreeGet(key)' = IF root' = Null \/ e.curr = Null THEN Absent ELSE nodes'[e.curr].data
  BY DEF PtreeGet
<1>. HIDE DEF e
<1>4. root' = Null => e.curr = Null
  BY <1>2 DEF TreeInv, RootOf, Null
<1>. QED  BY <1>1, <1>3, <1>4 DEF Yields

(* What is set under a hash is read under it, and nothing else changes:    *)
(* where a node is new, and where its data is.                             *)
LEMMA ReadsAfterGrown ==
    ASSUME NEW N \in Trees, NEW N2 \in Trees, NEW hash0, NEW data,
           NEW e0, EndsAt(e0, N, RootOf(N), hash0), GrowsAt(N, N2, e0, hash0, data),
           NEW hash, NEW v, NEW v2, Yields(v, N, hash), Yields(v2, N2, hash)
    PROVE  v2 = IF hash = hash0 THEN data ELSE v
<1>1. PICK e : /\ EndsAt(e, N, RootOf(N), hash)
               /\ v = IF e.curr = Null THEN Absent ELSE N[e.curr].data
  BY DEF Yields
<1>2. PICK e2 : /\ EndsAt(e2, N2, RootOf(N2), hash)
                /\ v2 = IF e2.curr = Null THEN Absent ELSE N2[e2.curr].data
  BY DEF Yields
<1>3. Len(N) \in Nat /\ e.curr \in 0 .. Len(N)
  BY <1>1, EndIs, TreeFields
<1>4. EndsAt(e, N, RootOf(N), hash) /\ EndsAt(e2, N2, RootOf(N2), hash)
  BY <1>1, <1>2
<1>5. EndMoves(e2, N, e, hash0, hash)
  BY <1>4, EndGrown
<1>6. /\ N2[Len(N) + 1].data = data
      /\ \A n \in 1 .. Len(N) : N2[n].data = N[n].data
  BY DEF GrowsAt, Grows, NewNode
<1>7. CASE hash = hash0
  BY <1>2, <1>3, <1>5, <1>6, <1>7 DEF EndMoves, Null
<1>8. CASE hash # hash0
  BY <1>1, <1>2, <1>3, <1>5, <1>6, <1>8 DEF EndMoves, Null
<1>. QED  BY <1>7, <1>8

(* ptree_set on a hash that is there changes what that hash reads, and     *)
(* nothing else.                                                           *)
LEMMA ReadsAfterChanged ==
    ASSUME NEW N \in Trees, NEW N2 \in Trees, NEW hash0, NEW data,
           NEW e0, EndsAt(e0, N, RootOf(N), hash0), e0.curr # Null,
           Replaces(N, N2, e0.curr, data),
           NEW hash, NEW v, NEW v2, Yields(v, N, hash), Yields(v2, N2, hash)
    PROVE  v2 = IF hash = hash0 THEN data ELSE v
<1>1. PICK e : /\ EndsAt(e, N, RootOf(N), hash)
               /\ v = IF e.curr = Null THEN Absent ELSE N[e.curr].data
  BY DEF Yields
<1>2. PICK e2 : /\ EndsAt(e2, N2, RootOf(N2), hash)
                /\ v2 = IF e2.curr = Null THEN Absent ELSE N2[e2.curr].data
  BY DEF Yields
<1>3. /\ Len(N) \in Nat
      /\ e0.curr \in 0 .. Len(N) /\ N[e0.curr].hash = hash0
      /\ e.curr \in 0 .. Len(N) /\ (e.curr # Null => N[e.curr].hash = hash)
  BY <1>1, EndIs, TreeFields
<1>4. EndsAt(e, N2, RootOf(N2), hash)
  BY <1>1, EndChanged
<1>5. e2 = e
  BY <1>2, <1>4, EndIsOne
<1>6. \A n \in 1 .. Len(N) : N2[n].data = (IF n = e0.curr THEN data ELSE N[n].data)
  BY DEF Replaces
<1>7. CASE hash = hash0
  <2>1. e = e0
    BY <1>1, <1>7, EndIsOne
  <2>. QED  BY <1>2, <1>3, <1>5, <1>6, <1>7, <2>1 DEF Null
<1>8. CASE hash # hash0
  <2>1. e.curr # Null => e.curr # e0.curr
    BY <1>3, <1>8
  <2>. QED  BY <1>1, <1>2, <1>3, <1>5, <1>6, <1>8, <2>1 DEF Null
<1>. QED  BY <1>7, <1>8

(* What SetKey does to the nodes of a dict that is not frozen.             *)
LEMMA SetKeyTree ==
    ASSUME TreeInv, mutable, NEW key \in Key, NEW value \in Value, SetKey(key, value)
    PROVE  /\ TreeInv'
           /\ \E e0 : /\ EndsAt(e0, nodes, RootOf(nodes), HashValue[key])
                      /\ \/ GrowsAt(nodes, nodes', e0, HashValue[key], value)
                         \/ e0.curr # Null /\ Replaces(nodes, nodes', e0.curr, value)
<1>. DEFINE h == HashValue[key]
            e == Descent(h)
<1>1. nodes' = PtreeSet(h, value) /\ root' = (IF root = Null THEN 1 ELSE root)
      /\ mutable' = mutable
  BY DEF SetKey
<1>2. nodes \in Trees /\ Len(nodes) \in Nat /\ root = RootOf(nodes) /\ h \in Hashes
  BY TreeFields DEF TreeInv, Hashes
<1>3. EndsAt(e, nodes, RootOf(nodes), h)
  BY DescentIs
<1>4. /\ e \in Place /\ e.curr \in 0 .. Len(nodes)
      /\ e.curr = Null => e.prev \in 0 .. Len(nodes)
  <2>. HIDE DEF e, h
  <2>. QED  BY <1>2, <1>3, EndIs DEF Null
<1>5. PtreeSet(h, value) =
         IF e.curr # Null THEN [nodes EXCEPT ![e.curr].data = value]
         ELSE Append(Linked(nodes, e), NewNode(h, value))
  BY DEF PtreeSet, Linked
<1>. HIDE DEF e, h
<1>6. CASE e.curr = Null
  <2>1. nodes' = Append(Linked(nodes, e), NewNode(h, value))
    BY <1>1, <1>5, <1>6
  <2>2. nodes' \in Trees /\ Grows(nodes, nodes', e.prev, e.left, h, value)
    BY <1>2, <1>4, <1>6, <2>1, InsertedTree
  <2>3. root' = RootOf(nodes')
    BY <1>1, <1>2, <2>2 DEF Grows, RootOf, Null
  <2>4. TreeInv'
    BY <1>1, <2>2, <2>3 DEF TreeInv, RootOf
  <2>. QED  BY <1>3, <1>6, <2>2, <2>4 DEF h, GrowsAt
<1>7. CASE e.curr # Null
  <2>1. nodes' = [nodes EXCEPT ![e.curr].data = value] /\ e.curr \in 1 .. Len(nodes)
    BY <1>1, <1>2, <1>4, <1>5, <1>7 DEF Null
  <2>2. nodes' \in Trees /\ Replaces(nodes, nodes', e.curr, value)
    BY <1>2, <2>1, ChangedTree
  <2>3. root' = RootOf(nodes')
    BY <1>1, <1>2, <2>1, <2>2 DEF Replaces, RootOf, Null
  <2>4. TreeInv'
    BY <1>1, <2>2, <2>3 DEF TreeInv, RootOf
  <2>. QED  BY <1>3, <1>7, <2>2, <2>4 DEF h
<1>. QED  BY <1>6, <1>7
-----------------------------------------------------------------------------
(* What ptree_del frees                                                    *)

Elems(s) == {s[i] : i \in 1 .. Len(s)}

(* Deleting no tree frees nothing.                                         *)
LEMMA ElemsOfNone ==
    Elems(<<>>) = {} /\ Len(<<>>) = 0 /\ <<>> \in Seq(Nat)
  BY DEF Elems

(* ptree_del frees the left child, then the right one, then the node.      *)
LEMMA ElemsOfJoined ==
    ASSUME NEW s \in Seq(Nat), NEW t \in Seq(Nat), NEW n \in Nat
    PROVE  /\ Append(s \o t, n) \in Seq(Nat)
           /\ Len(Append(s \o t, n)) = Len(s) + Len(t) + 1
           /\ Elems(Append(s \o t, n)) = Elems(s) \cup Elems(t) \cup {n}
<1>. DEFINE j == s \o t
            a == Append(j, n)
            k == Len(s)
            l == Len(t)
<1>1. k \in Nat /\ l \in Nat
  BY LenProperties
<1>2. /\ j \in Seq(Nat) /\ Len(j) = k + l
      /\ \A i \in 1 .. k + l : j[i] = IF i <= k THEN s[i] ELSE t[i - k]
  BY ConcatProperties
<1>. HIDE DEF j
<1>3. /\ a \in Seq(Nat) /\ Len(a) = (k + l) + 1
      /\ \A i \in 1 .. k + l : a[i] = j[i]
      /\ a[(k + l) + 1] = n
  <2>1. /\ Append(j, n) \in Seq(Nat) /\ Len(Append(j, n)) = Len(j) + 1
        /\ \A i \in 1 .. Len(j) : Append(j, n)[i] = j[i]
        /\ Append(j, n)[Len(j) + 1] = n
    <3>1. j \in Seq(Nat)
      BY <1>2
    <3>. QED  BY <3>1
  <2>. QED  BY <1>2, <2>1
<1>. HIDE DEF a, k, l
<1>4. ASSUME NEW x \in Elems(a) PROVE x \in Elems(s) \cup Elems(t) \cup {n}
  <2>1. PICK i \in 1 .. (k + l) + 1 : x = a[i]
    BY <1>3, <1>4 DEF Elems
  <2>2. CASE i = (k + l) + 1
    BY <1>3, <2>1, <2>2
  <2>3. CASE i \in 1 .. k
    <3>1. i \in 1 .. k + l /\ i <= k
      BY <1>1, <2>3
    <3>2. x = s[i]
      BY <1>2, <1>3, <2>1, <3>1
    <3>. QED  BY <2>3, <3>2 DEF Elems, k
  <2>4. CASE i \in k + 1 .. k + l
    <3>1. i \in 1 .. k + l /\ ~(i <= k) /\ i - k \in 1 .. l
      BY <1>1, <2>4
    <3>2. x = t[i - k]
      BY <1>2, <1>3, <2>1, <3>1
    <3>. QED  BY <3>1, <3>2 DEF Elems, l
  <2>. QED  BY <1>1, <2>1, <2>2, <2>3, <2>4
<1>5. ASSUME NEW x \in Elems(s) PROVE x \in Elems(a)
  <2>1. PICK i \in 1 .. k : x = s[i]
    BY <1>5 DEF Elems, k
  <2>2. i \in 1 .. k + l /\ i <= k /\ i \in 1 .. (k + l) + 1
    BY <1>1, <2>1
  <2>3. x = a[i]
    BY <1>2, <1>3, <2>1, <2>2
  <2>. QED  BY <1>3, <2>2, <2>3 DEF Elems
<1>6. ASSUME NEW x \in Elems(t) PROVE x \in Elems(a)
  <2>1. PICK i \in 1 .. l : x = t[i]
    BY <1>6 DEF Elems, l
  <2>2. /\ i + k \in 1 .. k + l /\ ~(i + k <= k) /\ (i + k) - k = i
        /\ i + k \in 1 .. (k + l) + 1
    BY <1>1, <2>1
  <2>3. x = a[i + k]
    BY <1>2, <1>3, <2>1, <2>2
  <2>. QED  BY <1>3, <2>2, <2>3 DEF Elems
<1>7. n \in Elems(a)
  <2>1. (k + l) + 1 \in 1 .. (k + l) + 1
    BY <1>1
  <2>. QED  BY <1>3, <2>1 DEF Elems
<1>8. Elems(a) = Elems(s) \cup Elems(t) \cup {n}
  BY <1>4, <1>5, <1>6, <1>7
<1>. QED  BY <1>3, <1>8 DEF a, j, k, l

(* What is freed with each node, if the nodes from the k-th on are freed.  *)
FreedFrom(f, N, k) ==
    f = [n \in {Null} \cup k .. Len(N) |->
            IF n = Null THEN <<>> ELSE Append(f[N[n].l] \o f[N[n].r], n)]

Freed(f, N) ==
    f = [n \in 0 .. Len(N) |->
            IF n = Null THEN <<>> ELSE Append(f[N[n].l] \o f[N[n].r], n)]

(* A list of what ptree_del frees below each node exists.                  *)
LEMMA FreedExists ==
    ASSUME NEW N \in Trees
    PROVE  \E f : Freed(f, N)
<1>. DEFINE m == Len(N)
            S == {n \in 1 .. m + 1 : \E f : FreedFrom(f, N, n)}
<1>1. m \in Nat /\ m + 1 \in Nat
  BY TreeFields
<1>2. m + 1 \in S
  <2>1. ~(Null \in m + 1 .. m) /\ m + 1 .. m = {}
    BY <1>1
  <2>2. FreedFrom([n \in {Null} \cup m + 1 .. m |-> <<>>], N, m + 1)
    BY <2>1 DEF FreedFrom
  <2>3. m + 1 \in 1 .. m + 1
    BY <1>1
  <2>. QED  BY <2>2, <2>3
<1>3. ASSUME NEW t \in 1 .. m + 1, \A k \in t + 1 .. m + 1 : k \in S PROVE t \in S
  <2>1. CASE t = m + 1
    BY <1>2, <2>1
  <2>2. CASE t # m + 1
    <3>1. t \in 1 .. m /\ t + 1 \in t + 1 .. m + 1 /\ t # Null
      BY <1>1, <2>2 DEF Null
    <3>2. PICK f : FreedFrom(f, N, t + 1)
      BY <1>3, <3>1
    <3>. DEFINE g == [n \in {Null} \cup t .. m |->
                        IF n = t THEN Append(f[N[t].l] \o f[N[t].r], t) ELSE f[n]]
    <3>3. ASSUME NEW n \in {Null} \cup t .. m
          PROVE  g[n] = IF n = Null THEN <<>> ELSE Append(g[N[n].l] \o g[N[n].r], n)
      <4>1. CASE n = Null
        BY <3>1, <3>2, <4>1 DEF FreedFrom
      <4>2. CASE n # Null
        <5>1. n \in 1 .. m /\ (n = t \/ n \in t + 1 .. m)
          BY <1>1, <3>1, <3>3, <4>2 DEF Null
        <5>2. N[n].l \in {Null} \cup n + 1 .. m /\ N[n].r \in {Null} \cup n + 1 .. m
          BY <5>1, TreeFields DEF Below
        <5>3. /\ N[n].l \in {Null} \cup t .. m /\ N[n].l # t
              /\ N[n].r \in {Null} \cup t .. m /\ N[n].r # t
          BY <1>1, <3>1, <5>1, <5>2 DEF Null
        <5>4. g[N[n].l] = f[N[n].l] /\ g[N[n].r] = f[N[n].r]
          BY <5>3
        <5>5. CASE n = t
          BY <4>2, <5>1, <5>4, <5>5
        <5>6. CASE n # t
          <6>1. n \in t + 1 .. m
            BY <5>1, <5>6
          <6>2. f[n] = Append(f[N[n].l] \o f[N[n].r], n)
            BY <3>2, <4>2, <6>1 DEF FreedFrom
          <6>. QED  BY <3>3, <4>2, <5>4, <5>6, <6>2
        <5>. QED  BY <5>5, <5>6
      <4>. QED  BY <4>1, <4>2
    <3>4. FreedFrom(g, N, t)
      BY <3>3 DEF FreedFrom
    <3>. QED  BY <3>4
  <2>. QED  BY <2>1, <2>2
<1>. HIDE DEF S
<1>4. \A t \in 1 .. m + 1 : t \in S
  <2>. DEFINE k == m + 1
  <2>. HIDE DEF k
  <2>1. \A t \in 1 .. k : t \in S
    BY <1>1, <1>3, Downwards DEF k
  <2>. QED  BY <2>1 DEF k
<1>5. PICK f : FreedFrom(f, N, 1)
  <2>1. 1 \in 1 .. m + 1
    BY <1>1
  <2>. QED  BY <1>4, <2>1 DEF S
<1>6. {Null} \cup 1 .. m = 0 .. m
  BY <1>1 DEF Null
<1>. QED  BY <1>5, <1>6 DEF FreedFrom, Freed

(* With a node, what is freed with its children, and the node last.        *)
LEMMA FreedIs ==
    ASSUME NEW N \in Trees, NEW f, Freed(f, N)
    PROVE  /\ f[Null] = <<>> /\ Elems(f[Null]) = {} /\ Len(f[Null]) = 0
           /\ \A n \in 0 .. Len(N) : f[n] \in Seq(Nat) /\ Len(f[n]) \in Nat
           /\ \A n \in 1 .. Len(N) :
                 /\ Elems(f[n]) \subseteq n .. Len(N)
                 /\ Elems(f[n]) = Elems(f[N[n].l]) \cup Elems(f[N[n].r]) \cup {n}
                 /\ Len(f[n]) = Len(f[N[n].l]) + Len(f[N[n].r]) + 1
<1>. DEFINE m == Len(N)
            S == {n \in 1 .. m : f[n] \in Seq(Nat) /\ Elems(f[n]) \subseteq n .. m}
<1>1. m \in Nat /\ Null \in 0 .. m
  BY TreeFields DEF Null
<1>2. f[Null] = <<>>
  BY <1>1 DEF Freed
<1>3. ASSUME NEW n \in 1 .. m PROVE f[n] = Append(f[N[n].l] \o f[N[n].r], n)
  <2>1. n \in 0 .. m /\ n # Null
    BY <1>1 DEF Null
  <2>. QED  BY <2>1 DEF Freed
<1>4. ASSUME NEW n \in 1 .. m,
             \A c \in {N[n].l, N[n].r} : f[c] \in Seq(Nat) /\ Elems(f[c]) \subseteq n + 1 .. m
      PROVE  /\ f[n] \in Seq(Nat) /\ Elems(f[n]) \subseteq n .. m
             /\ Elems(f[n]) = Elems(f[N[n].l]) \cup Elems(f[N[n].r]) \cup {n}
             /\ Len(f[n]) = Len(f[N[n].l]) + Len(f[N[n].r]) + 1
  <2>1. f[N[n].l] \in Seq(Nat) /\ f[N[n].r] \in Seq(Nat) /\ n \in Nat
    BY <1>4
  <2>2. /\ f[n] \in Seq(Nat)
        /\ Elems(f[n]) = Elems(f[N[n].l]) \cup Elems(f[N[n].r]) \cup {n}
        /\ Len(f[n]) = Len(f[N[n].l]) + Len(f[N[n].r]) + 1
    <3>. DEFINE s == f[N[n].l]
                t == f[N[n].r]
    <3>1. s \in Seq(Nat) /\ t \in Seq(Nat) /\ f[n] = Append(s \o t, n)
      BY <1>3, <2>1
    <3>. HIDE DEF s, t
    <3>2. /\ Append(s \o t, n) \in Seq(Nat)
          /\ Len(Append(s \o t, n)) = Len(s) + Len(t) + 1
          /\ Elems(Append(s \o t, n)) = Elems(s) \cup Elems(t) \cup {n}
      BY <2>1, <3>1, ElemsOfJoined
    <3>3. /\ f[n] \in Seq(Nat) /\ Len(f[n]) = Len(s) + Len(t) + 1
          /\ Elems(f[n]) = Elems(s) \cup Elems(t) \cup {n}
      BY <3>1, <3>2
    <3>. QED  BY <3>3 DEF s, t
  <2>3. n + 1 .. m \subseteq n .. m /\ n \in n .. m
    BY <1>1
  <2>. QED  BY <1>4, <2>2, <2>3
<1>5. ASSUME NEW n \in 1 .. m, \A k \in n + 1 .. m : k \in S, NEW c \in {N[n].l, N[n].r}
      PROVE  f[c] \in Seq(Nat) /\ Elems(f[c]) \subseteq n + 1 .. m
  <2>1. c = Null \/ c \in n + 1 .. m
    BY TreeFields DEF Below
  <2>2. CASE c = Null
    BY <1>2, <2>2, ElemsOfNone
  <2>3. CASE c \in n + 1 .. m
    <3>1. c \in S /\ c .. m \subseteq n + 1 .. m
      BY <1>1, <1>5, <2>3
    <3>. QED  BY <3>1
  <2>. QED  BY <2>1, <2>2, <2>3
<1>6. ASSUME NEW n \in 1 .. m, \A k \in n + 1 .. m : k \in S PROVE n \in S
  BY <1>4, <1>5, <1>6
<1>. HIDE DEF S
<1>7. \A n \in 1 .. m : n \in S
  <2>. HIDE DEF m
  <2>. QED  BY <1>1, <1>6, Downwards
<1>8. \A n \in 1 .. m : \A k \in n + 1 .. m : k \in S
  <2>1. \A n \in 1 .. m : \A k \in n + 1 .. m : k \in 1 .. m
    BY <1>1
  <2>. QED  BY <1>7, <2>1
<1>9. \A n \in 1 .. m :
          /\ f[n] \in Seq(Nat) /\ Elems(f[n]) \subseteq n .. m
          /\ Elems(f[n]) = Elems(f[N[n].l]) \cup Elems(f[N[n].r]) \cup {n}
          /\ Len(f[n]) = Len(f[N[n].l]) + Len(f[N[n].r]) + 1
  BY <1>4, <1>5, <1>8
<1>10. \A n \in 0 .. m : f[n] \in Seq(Nat) /\ Len(f[n]) \in Nat
  <2>1. \A n \in 0 .. m : n = Null \/ n \in 1 .. m
    BY <1>1 DEF Null
  <2>2. \A n \in 0 .. m : f[n] \in Seq(Nat)
    BY <1>2, <1>9, <2>1, ElemsOfNone
  <2>. QED  BY <2>2, LenProperties
<1>. QED  BY <1>2, <1>9, <1>10, ElemsOfNone
(* No node is below both children of another one, and all are below root.  *)
OnceBy(f, N) ==
    /\ \A n \in 1 .. Len(N) : Elems(f[N[n].l]) \cap Elems(f[N[n].r]) = {}
    /\ Len(f[RootOf(N)]) = Len(N)
    /\ \A n \in 1 .. Len(N) : n \in Elems(f[RootOf(N)])

Once(N) == \E f : Freed(f, N) /\ OnceBy(f, N)

(* There is one such list.                                                 *)
LEMMA FreedIsOne ==
    ASSUME NEW N \in Trees, NEW f, Freed(f, N), NEW g, Freed(g, N)
    PROVE  f = g
<1>. DEFINE m == Len(N)
            S == {n \in 1 .. m : f[n] = g[n]}
<1>1. m \in Nat /\ Null \in 0 .. m
  BY TreeFields DEF Null
<1>2. /\ f[Null] = <<>> /\ g[Null] = <<>>
      /\ DOMAIN f = 0 .. m /\ DOMAIN g = 0 .. m
  BY <1>1 DEF Freed
<1>3. ASSUME NEW n \in 1 .. m, \A k \in n + 1 .. m : k \in S PROVE n \in S
  <2>1. n \in 0 .. m /\ n # Null
    BY <1>1 DEF Null
  <2>2. N[n].l \in {Null} \cup n + 1 .. m /\ N[n].r \in {Null} \cup n + 1 .. m
    BY TreeFields DEF Below
  <2>3. f[N[n].l] = g[N[n].l] /\ f[N[n].r] = g[N[n].r]
    BY <1>2, <1>3, <2>2
  <2>4. /\ f[n] = Append(f[N[n].l] \o f[N[n].r], n)
        /\ g[n] = Append(g[N[n].l] \o g[N[n].r], n)
    BY <2>1 DEF Freed
  <2>. QED  BY <2>3, <2>4
<1>. HIDE DEF S
<1>4. \A n \in 1 .. m : n \in S
  <2>. HIDE DEF m
  <2>. QED  BY <1>1, <1>3, Downwards
<1>5. \A n \in 0 .. m : f[n] = g[n]
  <2>1. \A n \in 0 .. m : n = Null \/ n \in 1 .. m
    BY <1>1 DEF Null
  <2>. QED  BY <1>2, <1>4, <2>1 DEF S
<1>6. f = [n \in 0 .. m |-> f[n]] /\ g = [n \in 0 .. m |-> g[n]]
  BY DEF Freed
<1>. QED  BY <1>5, <1>6

(* Writing to a node that is there leaves what is below each node alone.   *)
LEMMA OnceChanged ==
    ASSUME NEW N \in Trees, NEW N2 \in Trees, NEW c, NEW data, Replaces(N, N2, c, data),
           Once(N)
    PROVE  Once(N2)
<1>1. PICK f : Freed(f, N) /\ OnceBy(f, N)
  BY DEF Once
<1>2. /\ Len(N2) = Len(N) /\ RootOf(N2) = RootOf(N) /\ Len(N) \in Nat
      /\ \A n \in 1 .. Len(N) : N2[n].l = N[n].l /\ N2[n].r = N[n].r
  BY TreeFields DEF Replaces, RootOf
<1>3. Freed(f, N2)
  <2>1. ASSUME NEW n \in 0 .. Len(N)
        PROVE  (IF n = Null THEN <<>> ELSE Append(f[N2[n].l] \o f[N2[n].r], n))
                  = (IF n = Null THEN <<>> ELSE Append(f[N[n].l] \o f[N[n].r], n))
    <3>1. n # Null => n \in 1 .. Len(N)
      BY <1>2, <2>1 DEF Null
    <3>. QED  BY <1>2, <3>1
  <2>. QED  BY <1>1, <1>2, <2>1 DEF Freed
<1>4. OnceBy(f, N2)
  BY <1>1, <1>2 DEF OnceBy
<1>. QED  BY <1>3, <1>4 DEF Once

(* How the nodes below n and their number become those with a node m more, *)
(* if p is among them.                                                     *)
OneMore(some, l, some2, l2, p, m) ==
    /\ p \in some => some2 = some \cup {m} /\ l2 = l + 1
    /\ p \notin some => some2 = some /\ l2 = l

(* If each child's subtree gained the new node only where it is due, so    *)
(* did the parent's.                                                       *)
LEMMA OneMoreBelow ==
    ASSUME NEW p, NEW m, NEW n, NEW a, NEW b, NEW a2, NEW b2,
           NEW k \in Nat, NEW l \in Nat, NEW k2, NEW l2,
           OneMore(a, k, a2, k2, p, m), OneMore(b, l, b2, l2, p, m),
           n # p, a \cap b = {}
    PROVE  OneMore(a \cup b \cup {n}, k + l + 1, a2 \cup b2 \cup {n}, k2 + l2 + 1, p, m)
<1>1. CASE p \in a
  <2>1. p \notin b /\ a2 = a \cup {m} /\ b2 = b /\ k2 = k + 1 /\ l2 = l
    BY <1>1 DEF OneMore
  <2>. QED  BY <1>1, <2>1 DEF OneMore
<1>2. CASE p \in b
  <2>1. p \notin a /\ b2 = b \cup {m} /\ a2 = a /\ k2 = k /\ l2 = l + 1
    BY <1>2 DEF OneMore
  <2>. QED  BY <1>2, <2>1 DEF OneMore
<1>3. CASE p \notin a /\ p \notin b
  <2>1. a2 = a /\ b2 = b /\ k2 = k /\ l2 = l
    BY <1>3 DEF OneMore
  <2>. QED  BY <1>3, <2>1 DEF OneMore
<1>. QED  BY <1>1, <1>2, <1>3

(* Hanging a node from an empty link puts it below its ancestors, once     *)
(* each.                                                                   *)
LEMMA OnceGrown ==
    ASSUME NEW N \in Trees, NEW N2 \in Trees, NEW p \in Nat, NEW left \in BOOLEAN,
           NEW hash, NEW data, Grows(N, N2, p, left, hash, data),
           \/ Len(N) = 0
           \/ p \in 1 .. Len(N) /\ IF left THEN N[p].l = Null ELSE N[p].r = Null,
           Once(N)
    PROVE  Once(N2)
<1>. DEFINE n == Len(N)
            m == Len(N) + 1
<1>1. n \in Nat /\ m \in Nat /\ m = n + 1 /\ Len(N2) = m /\ m # Null /\ RootOf(N2) = 1
      /\ m \in 1 .. m
  BY TreeFields DEF Grows, RootOf, Null
<1>2. /\ N2[m].l = Null /\ N2[m].r = Null
      /\ \A i \in 1 .. n :
            /\ N2[i].l = (IF i = p /\ left THEN m ELSE N[i].l)
            /\ N2[i].r = (IF i = p /\ ~left THEN m ELSE N[i].r)
  BY DEF Grows, NewNode
<1>3. PICK f : Freed(f, N) /\ OnceBy(f, N)
  BY DEF Once
<1>4. PICK f2 : Freed(f2, N2)
  BY FreedExists
<1>5. /\ Elems(f[Null]) = {} /\ Len(f[Null]) = 0
      /\ \A i \in 0 .. n : Len(f[i]) \in Nat
      /\ \A i \in 1 .. n :
            /\ Elems(f[i]) \subseteq i .. n
            /\ Elems(f[i]) = Elems(f[N[i].l]) \cup Elems(f[N[i].r]) \cup {i}
            /\ Len(f[i]) = Len(f[N[i].l]) + Len(f[N[i].r]) + 1
  <2>1. Freed(f, N)
    BY <1>3
  <2>. QED  BY <2>1, FreedIs, ZenonT(60)
<1>6. /\ Elems(f2[Null]) = {} /\ Len(f2[Null]) = 0
      /\ \A i \in 1 .. m :
            /\ Elems(f2[i]) = Elems(f2[N2[i].l]) \cup Elems(f2[N2[i].r]) \cup {i}
            /\ Len(f2[i]) = Len(f2[N2[i].l]) + Len(f2[N2[i].r]) + 1
  <2>1. /\ Elems(f2[Null]) = {} /\ Len(f2[Null]) = 0
        /\ \A i \in 1 .. Len(N2) :
            /\ Elems(f2[i]) \subseteq i .. Len(N2)
            /\ Elems(f2[i]) = Elems(f2[N2[i].l]) \cup Elems(f2[N2[i].r]) \cup {i}
            /\ Len(f2[i]) = Len(f2[N2[i].l]) + Len(f2[N2[i].r]) + 1
    <3>1. Freed(f2, N2)
      BY <1>4
    <3>. QED  BY <3>1, FreedIs, Zenon
  <2>. QED  BY <1>1, <2>1
<1>7. Elems(f2[m]) = {m} /\ Len(f2[m]) = 1
  <2>. HIDE DEF m
  <2>1. Elems(f2[m]) = Elems(f2[Null]) \cup Elems(f2[Null]) \cup {m}
        /\ Len(f2[m]) = Len(f2[Null]) + Len(f2[Null]) + 1
    BY <1>1, <1>2, <1>6
  <2>. QED  BY <1>6, <2>1
<1>. DEFINE Same(i) == OneMore(Elems(f[i]), Len(f[i]), Elems(f2[i]), Len(f2[i]), p, m)
            S == {i \in 1 .. n : Same(i)}
<1>8. Same(Null)
  BY <1>5, <1>6 DEF OneMore
<1>9. ASSUME NEW i \in 1 .. n, \A k \in i + 1 .. n : k \in S PROVE i \in S
  <2>1. /\ N[i].l \in {Null} \cup i + 1 .. n /\ N[i].r \in {Null} \cup i + 1 .. n
        /\ N[i].l \in 0 .. n /\ N[i].r \in 0 .. n
    BY TreeFields DEF Below
  <2>2. Same(N[i].l) /\ Same(N[i].r) /\ Len(f[N[i].l]) \in Nat /\ Len(f[N[i].r]) \in Nat
    BY <1>5, <1>8, <1>9, <2>1
  <2>3. /\ Elems(f[i]) = Elems(f[N[i].l]) \cup Elems(f[N[i].r]) \cup {i}
        /\ Len(f[i]) = Len(f[N[i].l]) + Len(f[N[i].r]) + 1
        /\ Elems(f2[i]) = Elems(f2[N2[i].l]) \cup Elems(f2[N2[i].r]) \cup {i}
        /\ Len(f2[i]) = Len(f2[N2[i].l]) + Len(f2[N2[i].r]) + 1
    <3>1. i \in 1 .. m
      BY <1>1
    <3>. QED  BY <1>5, <1>6, <3>1
  <2>4. CASE i # p
    <3>1. N2[i].l = N[i].l /\ N2[i].r = N[i].r
      BY <1>2, <2>4
    <3>2. Elems(f[N[i].l]) \cap Elems(f[N[i].r]) = {}
      BY <1>3 DEF OnceBy
    <3>. HIDE DEF m
    <3>3. OneMore(Elems(f[N[i].l]) \cup Elems(f[N[i].r]) \cup {i},
                  Len(f[N[i].l]) + Len(f[N[i].r]) + 1,
                  Elems(f2[N[i].l]) \cup Elems(f2[N[i].r]) \cup {i},
                  Len(f2[N[i].l]) + Len(f2[N[i].r]) + 1, p, m)
      BY <2>2, <2>4, <3>2, OneMoreBelow
    <3>. QED  BY <2>3, <3>1, <3>3
  <2>5. ASSUME i = p, NEW c \in {N[i].l, N[i].r},
               Elems(f[i]) = Elems(f[c]) \cup {i}, Len(f[i]) = Len(f[c]) + 1,
               Elems(f2[i]) = {m} \cup Elems(f2[c]) \cup {i}, Len(f2[i]) = Len(f2[c]) + 2
        PROVE  i \in S
    <3>1. p \notin Elems(f[c])
      <4>1. CASE c = Null
        BY <1>5, <4>1
      <4>2. CASE c \in i + 1 .. n
        <5>1. c \in 1 .. n /\ p \notin c .. n
          BY <1>1, <2>5, <4>2
        <5>. QED  BY <1>5, <5>1
      <4>. QED  BY <2>1, <4>1, <4>2
    <3>2. Elems(f2[c]) = Elems(f[c]) /\ Len(f2[c]) = Len(f[c]) /\ Len(f[c]) \in Nat
      BY <2>2, <3>1 DEF OneMore
    <3>3. /\ Elems(f2[i]) = Elems(f[i]) \cup {m} /\ p \in Elems(f[i])
          /\ Len(f2[i]) = Len(f[i]) + 1
      BY <2>5, <3>2
    <3>. QED  BY <3>3 DEF OneMore
  <2>6. CASE i = p
    <3>1. n # 0 /\ IF left THEN N[p].l = Null ELSE N[p].r = Null
      BY <1>1, <2>6
    <3>2. CASE left
      <4>1. N2[i].l = m /\ N2[i].r = N[i].r /\ N[i].l = Null
        BY <1>2, <2>6, <3>1, <3>2
      <4>2. Elems(f[i]) = Elems(f[N[i].r]) \cup {i} /\ Len(f[i]) = Len(f[N[i].r]) + 1
        <5>1. Elems(f[N[i].l]) = {} /\ Len(f[N[i].l]) = 0
          BY <1>5, <4>1
        <5>. QED  BY <2>2, <2>3, <5>1
      <4>3. Same(N[i].r)
        BY <2>2
      <4>4. Elems(f2[i]) = {m} \cup Elems(f2[N[i].r]) \cup {i}
            /\ Len(f2[i]) = 1 + Len(f2[N[i].r]) + 1
        BY <1>7, <2>3, <4>1
      <4>5. Len(f2[N[i].r]) \in Nat
        BY <2>2, <4>3 DEF OneMore
      <4>6. Len(f2[i]) = Len(f2[N[i].r]) + 2
        BY <4>4, <4>5
      <4>. HIDE DEF S, m
      <4>. QED  BY <2>5, <2>6, <4>2, <4>4, <4>6
    <3>3. CASE ~left
      <4>1. N2[i].r = m /\ N2[i].l = N[i].l /\ N[i].r = Null
        BY <1>2, <2>6, <3>1, <3>3
      <4>2. Elems(f[i]) = Elems(f[N[i].l]) \cup {i} /\ Len(f[i]) = Len(f[N[i].l]) + 1
        <5>1. Elems(f[N[i].r]) = {} /\ Len(f[N[i].r]) = 0
          BY <1>5, <4>1
        <5>. QED  BY <2>2, <2>3, <5>1
      <4>3. Same(N[i].l)
        BY <2>2
      <4>4. Elems(f2[i]) = {m} \cup Elems(f2[N[i].l]) \cup {i}
            /\ Len(f2[i]) = Len(f2[N[i].l]) + 1 + 1
        BY <1>7, <2>3, <4>1
      <4>5. Len(f2[N[i].l]) \in Nat
        BY <2>2, <4>3 DEF OneMore
      <4>6. Len(f2[i]) = Len(f2[N[i].l]) + 2
        BY <4>4, <4>5
      <4>. HIDE DEF S, m
      <4>. QED  BY <2>5, <2>6, <4>2, <4>4, <4>6
    <3>. QED  BY <3>2, <3>3
  <2>. QED  BY <2>4, <2>6
<1>. HIDE DEF S
<1>10. \A i \in 1 .. n : i \in S
  <2>. HIDE DEF n
  <2>. QED  BY <1>1, <1>9, Downwards
<1>11. \A i \in 0 .. n : Same(i)
  <2>1. \A i \in 0 .. n : i = Null \/ i \in 1 .. n
    BY <1>1 DEF Null
  <2>. QED  BY <1>8, <1>10, <2>1 DEF S
(* No node is below both children of one: m is below one at most.          *)
<1>12. ASSUME NEW i \in 1 .. m PROVE Elems(f2[N2[i].l]) \cap Elems(f2[N2[i].r]) = {}
  <2>1. CASE i = m
    BY <1>2, <1>6, <2>1
  <2>2. CASE i # m
    <3>1. i \in 1 .. n
      BY <1>1, <2>2
    <3>2. N[i].l \in 0 .. n /\ N[i].r \in 0 .. n
      BY <3>1, TreeFields
    <3>3. Elems(f[N[i].l]) \cap Elems(f[N[i].r]) = {}
      BY <1>3, <3>1 DEF OnceBy
    <3>4. ASSUME NEW c \in 0 .. n PROVE m \notin Elems(f[c])
      <4>1. CASE c = Null
        BY <1>5, <4>1
      <4>2. CASE c # Null
        <5>1. c \in 1 .. n /\ m \notin c .. n
          BY <1>1, <4>2 DEF Null
        <5>. QED  BY <1>5, <5>1
      <4>. QED  BY <4>1, <4>2
    <3>5. CASE i # p
      <4>1. N2[i].l = N[i].l /\ N2[i].r = N[i].r
        BY <1>2, <3>1, <3>5
      <4>. QED  BY <1>11, <3>2, <3>3, <3>4, <4>1, ZenonT(40) DEF OneMore
    <3>6. CASE i = p
      <4>1. ASSUME NEW c \in {N[i].l, N[i].r} PROVE m \notin Elems(f2[c])
        <5>1. p \notin Elems(f[c])
          <6>1. c = Null \/ c \in i + 1 .. n
            BY <3>1, TreeFields DEF Below
          <6>2. CASE c = Null
            BY <1>5, <6>2
          <6>3. CASE c \in i + 1 .. n
            <7>1. c \in 1 .. n /\ p \notin c .. n
              BY <1>1, <3>6, <6>3
            <7>. QED  BY <1>5, <7>1
          <6>. QED  BY <6>1, <6>2, <6>3
        <5>2. Elems(f2[c]) = Elems(f[c])
          BY <1>11, <3>2, <5>1 DEF OneMore
        <5>. QED  BY <3>2, <3>4, <5>2
      <4>2. CASE left
        <5>1. N2[i].l = m /\ N2[i].r = N[i].r
          BY <1>2, <3>1, <3>6, <4>2
        <5>. QED  BY <1>7, <4>1, <5>1
      <4>3. CASE ~left
        <5>1. N2[i].r = m /\ N2[i].l = N[i].l
          BY <1>2, <3>1, <3>6, <4>3
        <5>. QED  BY <1>7, <4>1, <5>1
      <4>. QED  BY <4>2, <4>3
    <3>. QED  BY <3>5, <3>6
  <2>. QED  BY <2>1, <2>2
<1>13. Len(f2[1]) = m /\ \A i \in 1 .. m : i \in Elems(f2[1])
  <2>1. CASE n = 0
    <3>1. m = 1
      BY <1>1, <2>1
    <3>. HIDE DEF m
    <3>2. \A i \in 1 .. m : i = 1
      BY <3>1
    <3>. QED  BY <1>7, <3>1, <3>2
  <2>2. CASE n # 0
    <3>1. RootOf(N) = 1 /\ p \in 1 .. n /\ 1 \in 0 .. n
      BY <1>1, <2>2 DEF RootOf
    <3>2. Len(f[1]) = n /\ \A i \in 1 .. n : i \in Elems(f[1])
      BY <1>3, <3>1 DEF OnceBy
    <3>3. Elems(f2[1]) = Elems(f[1]) \cup {m} /\ Len(f2[1]) = Len(f[1]) + 1
      BY <1>11, <3>1, <3>2 DEF OneMore
    <3>4. \A i \in 1 .. m : i = m \/ i \in 1 .. n
      BY <1>1
    <3>. QED  BY <1>1, <3>2, <3>3, <3>4
  <2>. QED  BY <2>1, <2>2
<1>14. OnceBy(f2, N2)
  BY <1>1, <1>12, <1>13 DEF OnceBy
<1>. QED  BY <1>4, <1>14 DEF Once
-----------------------------------------------------------------------------
(* What holds of every dict                                                *)

DictInv == TreeInv /\ Once(nodes)

(* No call on the dict breaks the invariant ...                            *)
LEMMA NextDictInv ==
    ASSUME DictInv, [TreeNext]_tree_vars
    PROVE  DictInv'
<1>1. CASE UNCHANGED <<nodes, root>> /\ mutable' \in BOOLEAN
  BY <1>1 DEF DictInv, TreeInv, Once, OnceBy, Freed
<1>2. CASE UNCHANGED tree_vars \/ FreezeDict \/ ThawDict
  BY <1>1, <1>2 DEF tree_vars, FreezeDict, ThawDict, DictInv, TreeInv
<1>3. ASSUME NEW key \in Key, NEW value \in Value, SetKey(key, value)
      PROVE  DictInv'
  <2>1. CASE ~mutable
    BY <1>1, <1>3, <2>1 DEF SetKey, DictInv, TreeInv
  <2>2. CASE mutable
    <3>. DEFINE h == HashValue[key]
    <3>1. TreeInv'
      BY <1>3, <2>2, SetKeyTree DEF DictInv
    <3>2. PICK e : /\ EndsAt(e, nodes, RootOf(nodes), h)
                   /\ \/ GrowsAt(nodes, nodes', e, h, value)
                      \/ e.curr # Null /\ Replaces(nodes, nodes', e.curr, value)
      BY <1>3, <2>2, SetKeyTree DEF DictInv
    <3>3. nodes \in Trees /\ nodes' \in Trees /\ Once(nodes)
      BY <3>1 DEF DictInv, TreeInv
    <3>. HIDE DEF h
    <3>4. CASE Replaces(nodes, nodes', e.curr, value)
      <4>1. Once(nodes')
        BY <3>3, <3>4, OnceChanged
      <4>. QED  BY <3>1, <4>1 DEF DictInv, Once, OnceBy, Freed
    <3>5. CASE GrowsAt(nodes, nodes', e, h, value)
      <4>. DEFINE p == e.prev
                  left == e.left
      <4>1. Grows(nodes, nodes', p, left, h, value) /\ e.curr = Null
        BY <3>5 DEF GrowsAt
      <4>2. /\ p \in Nat /\ left \in BOOLEAN
            /\ \/ Len(nodes) = 0
               \/ /\ p \in 1 .. Len(nodes)
                  /\ IF left THEN nodes[p].l = Null ELSE nodes[p].r = Null
        BY <3>2, <3>3, <4>1, EndIs DEF Place
      <4>. HIDE DEF p, left
      <4>3. Once(nodes')
        BY <3>3, <4>1, <4>2, OnceGrown
      <4>. QED  BY <3>1, <4>3 DEF DictInv, Once, OnceBy, Freed
    <3>. QED  BY <3>2, <3>4, <3>5
  <2>. QED  BY <2>1, <2>2
<1>. QED  BY <1>2, <1>3 DEF TreeNext

(* ... which holds of the empty dict.                                      *)
LEMMA InitDictInv ==
    ASSUME TreeInit
    PROVE  DictInv
<1>1. nodes = <<>> /\ Len(nodes) = 0 /\ nodes \in Seq(Node) /\ root = Null /\ mutable = TRUE
  BY DEF TreeInit
<1>2. nodes \in Trees /\ RootOf(nodes) = Null
  <2>1. 1 .. Len(nodes) = {}
    BY <1>1
  <2>2. nodes \in Trees
    BY <1>1, <2>1, Zenon DEF Trees
  <2>3. RootOf(nodes) = Null
    BY <1>1, Zenon DEF RootOf
  <2>. QED  BY <2>2, <2>3
<1>3. PICK f : Freed(f, nodes)
  BY <1>2, FreedExists
<1>4. OnceBy(f, nodes)
  <2>1. f[Null] = <<>>
    BY <1>2, <1>3, FreedIs
  <2>. QED  BY <1>1, <1>2, <2>1 DEF OnceBy
<1>. QED  BY <1>1, <1>2, <1>3, <1>4 DEF DictInv, TreeInv, Once

(* The shape of the tree and what is below its nodes, in every state:      *)
(* ptree_set only ever hangs a new node from an empty link (obj_dict.c).   *)
THEOREM DictInvariant == TreeSpec => []DictInv
<1>1. TreeInit => DictInv
  BY InitDictInv
<1>2. DictInv /\ [TreeNext]_tree_vars => DictInv'
  BY NextDictInv
<1>. QED  BY <1>1, <1>2, PTL DEF TreeSpec

(* Deleting a dict frees each of its nodes once, in whatever order the     *)
(* keys came: ptree_del goes to both children before it frees.             *)
THEOREM DictFreedOnce == TreeSpec => []TreeFreedOnce
<1>1. ASSUME DictInv PROVE TreeFreedOnce
  <2>1. nodes \in Trees /\ root = RootOf(nodes)
    BY <1>1 DEF DictInv, TreeInv
  <2>2. PICK f : Freed(f, nodes) /\ OnceBy(f, nodes)
    BY <1>1 DEF DictInv, Once
  <2>3. PtreeDel = f[root]
    <3>. DEFINE g == CHOOSE h :
                h = [n \in 0 .. Len(nodes) |->
                        IF n = Null THEN <<>> ELSE Append(h[nodes[n].l] \o h[nodes[n].r], n)]
    <3>1. Freed(g, nodes)
      BY <2>2 DEF Freed
    <3>2. PtreeDel = g[root]
      BY DEF PtreeDel
    <3>. HIDE DEF g
    <3>. QED  BY <2>1, <2>2, <3>1, <3>2, FreedIsOne
  <2>4. DOMAIN nodes = 1 .. Len(nodes)
    BY <2>1, TreeFields, LenProperties
  <2>. QED  BY <2>1, <2>2, <2>3, <2>4 DEF TreeFreedOnce, OnceBy, Contains, Elems
<1>. QED  BY <1>1, DictInvariant, PTL

(* What SetKey changes of what is read.                                    *)
LEMMA SetKeyReads ==
    ASSUME DictInv, DictInv', mutable, NEW key \in Key, NEW value \in Value,
           SetKey(key, value), NEW k \in Key
    PROVE  PtreeGet(k)' = IF SameHash(k, key) THEN value ELSE PtreeGet(k)
<1>. DEFINE h == HashValue[key]
            hk == HashValue[k]
            v == PtreeGet(k)
            v2 == PtreeGet(k)'
<1>1. PICK e : /\ EndsAt(e, nodes, RootOf(nodes), h)
               /\ \/ GrowsAt(nodes, nodes', e, h, value)
                  \/ e.curr # Null /\ Replaces(nodes, nodes', e.curr, value)
  BY SetKeyTree DEF DictInv
<1>2. nodes \in Trees /\ nodes' \in Trees
  BY DEF DictInv, TreeInv
<1>3. Yields(v, nodes, hk) /\ Yields(v2, nodes', hk)
  BY GetReads, GetReadsNext DEF DictInv
<1>4. SameHash(k, key) <=> hk = h
  BY DEF SameHash
<1>. HIDE DEF h, hk, v, v2
<1>5. v2 = IF hk = h THEN value ELSE v
  BY <1>1, <1>2, <1>3, ReadsAfterGrown, ReadsAfterChanged
<1>. QED  BY <1>4, <1>5 DEF v, v2

(* A dict implements the map of module DictMap: each of its steps is one   *)
(* of the map, or none.                                                    *)
THEOREM DictIsMap == TreeSpec => ActsAsMap
<1>1. ASSUME TreeInit PROVE Map!Init
  <2>1. \A key \in Key : PtreeGet(key) = Absent
    BY <1>1 DEF TreeInit, PtreeGet
  <2>. QED  BY <1>1, <2>1 DEF TreeInit, Map!Init
<1>2. ASSUME DictInv, DictInv', [TreeNext]_tree_vars
      PROVE  [Map!Next]_Map!dict_vars
  <2>1. ASSUME UNCHANGED <<nodes, root>>, NEW key \in Key
        PROVE  PtreeGet(key)' = PtreeGet(key)
    BY <2>1 DEF PtreeGet, Descent, Down
  <2>2. mutable \in BOOLEAN
    BY <1>2 DEF DictInv, TreeInv
  <2>3. CASE UNCHANGED tree_vars
    BY <2>1, <2>3 DEF tree_vars, Map!dict_vars
  <2>4. CASE FreezeDict
    BY <2>1, <2>2, <2>4 DEF FreezeDict, Map!Next, Map!Freeze, Map!dict_vars
  <2>5. CASE ThawDict
    BY <2>1, <2>2, <2>5 DEF ThawDict, Map!Next, Map!Thaw, Map!dict_vars
  <2>6. ASSUME NEW key \in Key, NEW value \in Value, SetKey(key, value)
        PROVE  Map!Set(key, value)
    <3>1. CASE ~mutable
      BY <2>1, <2>6, <3>1 DEF SetKey, Map!Set
    <3>2. CASE mutable
      <4>1. \A k \in Key : PtreeGet(k)' = IF SameHash(k, key) THEN value ELSE PtreeGet(k)
        BY <1>2, <2>6, <3>2, SetKeyReads
      <4>. QED  BY <2>6, <3>2, <4>1 DEF SetKey, Map!Set
    <3>. QED  BY <3>1, <3>2
  <2>. QED  BY <1>2, <2>3, <2>4, <2>5, <2>6 DEF TreeNext, Map!Next
<1>. QED  BY <1>1, <1>2, DictInvariant, PTL DEF TreeSpec, ActsAsMap, Map!Spec

-----------------------------------------------------------------------------
(* File streams                                                            *)

(* A FILE that is open.                                                    *)
File ==
    [open : {TRUE}, path : Path, writes : BOOLEAN, pos : Nat,
     eof : BOOLEAN, err : BOOLEAN]

Octet == 0 .. 255
Text == Seq(Octet)

StreamTypes ==
    /\ files \in [Path -> Text \cup {Missing}]
    /\ handles \in [Handles -> File \cup {Closed}]
    /\ streams \in [StreamIds -> [alive : {TRUE}, f : Handles \cup {NoFile}] \cup {NoStream}]
    /\ \A h \in Open : files[handles[h].path] \in Text

(* What a native works on.                                                 *)
Work == [file : File, text : Text, items : Seq(Int), got : Int, done : Nat]

(* HandlesOwned without cardinalities, as the steps preserve it.           *)
Owned ==
    /\ \A h \in Open : \E s \in Streaming : streams[s].f = h
    /\ \A s \in Streaming : streams[s].f \in Open \cup {NoFile}
    /\ \A s, t \in Streaming :
          streams[s].f = streams[t].f /\ streams[s].f # NoFile => s = t

StreamInv == StreamTypes /\ Owned

-----------------------------------------------------------------------------
(* The loops of streams                                                    *)

(* There is a function for the turns of a loop of fread.                   *)
ReadLoop(turn, at, n) ==
    turn = [i \in 0 .. n |-> IF i = 0 THEN at ELSE ReadTurn(turn[i - 1])]

WriteLoop(turn, at, memory, n) ==
    turn = [i \in 0 .. n |-> IF i = 0 THEN at ELSE WriteTurn(turn[i - 1], memory)]

(* The turns of the reading loop exist, however many there are.            *)
LEMMA ReadLoopExists ==
    ASSUME NEW at PROVE \A n \in Nat : \E turn : ReadLoop(turn, at, n)
<1>. DEFINE Bad == {n \in Nat : ~\E turn : ReadLoop(turn, at, n)}
<1>. SUFFICES ASSUME Bad # {} PROVE FALSE
  OBVIOUS
<1>1. PICK n \in Bad : \A m \in Bad : n <= m
  <2>1. Bad \subseteq Nat
    OBVIOUS
  <2>. HIDE DEF Bad
  <2>. QED  BY <2>1, LeastNumber
<1>2. CASE n = 0
  <2>1. ReadLoop([i \in 0 .. 0 |-> at], at, 0)
    BY DEF ReadLoop
  <2>. QED  BY <1>2, <2>1
<1>3. CASE n # 0
  <2>1. n - 1 \in Nat /\ n \in Nat /\ ~(n <= n - 1)
    BY <1>3
  <2>2. PICK turn : ReadLoop(turn, at, n - 1)
    BY <1>1, <2>1
  <2>. DEFINE longer == [i \in 0 .. n |-> IF i = n THEN ReadTurn(turn[n - 1]) ELSE turn[i]]
  <2>3. \A i \in 0 .. n : longer[i] = IF i = 0 THEN at ELSE ReadTurn(longer[i - 1])
    <3>. TAKE i \in 0 .. n
    <3>1. CASE i = 0
      BY <1>3, <2>1, <2>2, <3>1 DEF ReadLoop
    <3>2. CASE i = n
      BY <1>3, <2>1, <2>2, <3>2 DEF ReadLoop
    <3>3. CASE i # 0 /\ i # n
      <4>1. i \in 0 .. n - 1 /\ i - 1 \in 0 .. n - 1 /\ i - 1 \in 0 .. n /\ i - 1 # n
        BY <2>1, <3>3
      <4>2. turn[i] = ReadTurn(turn[i - 1])
        BY <2>2, <3>3, <4>1 DEF ReadLoop
      <4>. QED  BY <3>3, <4>1, <4>2
    <3>. QED  BY <3>1, <3>2, <3>3
  <2>4. ReadLoop(longer, at, n)
    BY <2>3 DEF ReadLoop
  <2>. QED  BY <2>4
<1>. QED  BY <1>2, <1>3

(* ReadTurns is the last of them.                                          *)
LEMMA ReadLoopIs ==
    ASSUME NEW at, NEW n \in Nat
    PROVE  \E turn : ReadLoop(turn, at, n) /\ ReadTurns(at, n) = turn[n]
<1>. DEFINE turn == CHOOSE f : f = [i \in 0 .. n |-> IF i = 0 THEN at ELSE ReadTurn(f[i - 1])]
<1>1. turn = [i \in 0 .. n |-> IF i = 0 THEN at ELSE ReadTurn(turn[i - 1])]
  BY ReadLoopExists DEF ReadLoop
<1>2. ReadTurns(at, n) = turn[n]
  BY DEF ReadTurns
<1>. HIDE DEF turn
<1>. QED  BY <1>1, <1>2 DEF ReadLoop

(* The turns of the writing loop exist, however many there are.            *)
LEMMA WriteLoopExists ==
    ASSUME NEW at, NEW memory PROVE \A n \in Nat : \E turn : WriteLoop(turn, at, memory, n)
<1>. DEFINE Bad == {n \in Nat : ~\E turn : WriteLoop(turn, at, memory, n)}
<1>. SUFFICES ASSUME Bad # {} PROVE FALSE
  OBVIOUS
<1>1. PICK n \in Bad : \A m \in Bad : n <= m
  <2>1. Bad \subseteq Nat
    OBVIOUS
  <2>. HIDE DEF Bad
  <2>. QED  BY <2>1, LeastNumber
<1>2. CASE n = 0
  <2>1. WriteLoop([i \in 0 .. 0 |-> at], at, memory, 0)
    BY DEF WriteLoop
  <2>. QED  BY <1>2, <2>1
<1>3. CASE n # 0
  <2>1. n - 1 \in Nat /\ n \in Nat /\ ~(n <= n - 1)
    BY <1>3
  <2>2. PICK turn : WriteLoop(turn, at, memory, n - 1)
    BY <1>1, <2>1
  <2>. DEFINE longer ==
                [i \in 0 .. n |-> IF i = n THEN WriteTurn(turn[n - 1], memory) ELSE turn[i]]
  <2>3. \A i \in 0 .. n : longer[i] = IF i = 0 THEN at ELSE WriteTurn(longer[i - 1], memory)
    <3>. TAKE i \in 0 .. n
    <3>1. CASE i = 0
      BY <1>3, <2>1, <2>2, <3>1 DEF WriteLoop
    <3>2. CASE i = n
      BY <1>3, <2>1, <2>2, <3>2 DEF WriteLoop
    <3>3. CASE i # 0 /\ i # n
      <4>1. i \in 0 .. n - 1 /\ i - 1 \in 0 .. n - 1 /\ i - 1 \in 0 .. n /\ i - 1 # n
        BY <2>1, <3>3
      <4>2. turn[i] = WriteTurn(turn[i - 1], memory)
        BY <2>2, <3>3, <4>1 DEF WriteLoop
      <4>. QED  BY <3>3, <4>1, <4>2
    <3>. QED  BY <3>1, <3>2, <3>3
  <2>4. WriteLoop(longer, at, memory, n)
    BY <2>3 DEF WriteLoop
  <2>. QED  BY <2>4
<1>. QED  BY <1>2, <1>3

(* The end of the loop of fwrite is the last of such a function.           *)
LEMMA WriteLoopIs ==
    ASSUME NEW at, NEW memory, NEW n \in Nat
    PROVE  \E turn : WriteLoop(turn, at, memory, n) /\ WriteTurns(at, memory, n) = turn[n]
<1>. DEFINE turn == CHOOSE f : f =
                [i \in 0 .. n |-> IF i = 0 THEN at ELSE WriteTurn(f[i - 1], memory)]
<1>1. turn = [i \in 0 .. n |-> IF i = 0 THEN at ELSE WriteTurn(turn[i - 1], memory)]
  BY WriteLoopExists DEF WriteLoop
<1>2. WriteTurns(at, memory, n) = turn[n]
  BY DEF WriteTurns
<1>. HIDE DEF turn
<1>. QED  BY <1>1, <1>2 DEF WriteLoop

(* If Q[0] holds of the start and a turn leads from Q[i] to Q[i + 1], then  *)
(* Q[n] holds after n turns.                                               *)
LEMMA ReadLoopKeeps ==
    ASSUME NEW Q, NEW n \in Nat, NEW at \in Q[0],
           \A i \in 0 .. n - 1 : \A x \in Q[i] : ReadTurn(x) \in Q[i + 1]
    PROVE  ReadTurns(at, n) \in Q[n]
<1>1. PICK turn : ReadLoop(turn, at, n) /\ ReadTurns(at, n) = turn[n]
  BY ReadLoopIs
<1>. DEFINE Bad == {i \in 0 .. n : turn[i] \notin Q[i]}
<1>2. Bad = {}
  <2>. SUFFICES ASSUME Bad # {} PROVE FALSE
    OBVIOUS
  <2>1. PICK i \in Bad : \A m \in Bad : i <= m
    <3>1. Bad \subseteq Nat
      OBVIOUS
    <3>. HIDE DEF Bad
    <3>. QED  BY <3>1, LeastNumber
  <2>2. i # 0
    BY <1>1, <2>1 DEF ReadLoop
  <2>3. i - 1 \in 0 .. n - 1 /\ i - 1 \in 0 .. n /\ ~(i <= i - 1) /\ (i - 1) + 1 = i
    BY <2>1, <2>2
  <2>4. turn[i - 1] \in Q[i - 1]
    BY <2>1, <2>3
  <2>5. turn[i] = ReadTurn(turn[i - 1])
    BY <1>1, <2>1, <2>2 DEF ReadLoop
  <2>. QED  BY <2>1, <2>3, <2>4, <2>5
<1>. QED  BY <1>1, <1>2

(* What each turn keeps holds after the loop.                              *)
LEMMA WriteLoopKeeps ==
    ASSUME NEW Q, NEW n \in Nat, NEW at \in Q[0], NEW memory,
           \A i \in 0 .. n - 1 : \A x \in Q[i] : WriteTurn(x, memory) \in Q[i + 1]
    PROVE  WriteTurns(at, memory, n) \in Q[n]
<1>1. PICK turn : WriteLoop(turn, at, memory, n) /\ WriteTurns(at, memory, n) = turn[n]
  BY WriteLoopIs
<1>. DEFINE Bad == {i \in 0 .. n : turn[i] \notin Q[i]}
<1>2. Bad = {}
  <2>. SUFFICES ASSUME Bad # {} PROVE FALSE
    OBVIOUS
  <2>1. PICK i \in Bad : \A m \in Bad : i <= m
    <3>1. Bad \subseteq Nat
      OBVIOUS
    <3>. HIDE DEF Bad
    <3>. QED  BY <3>1, LeastNumber
  <2>2. i # 0
    BY <1>1, <2>1 DEF WriteLoop
  <2>3. i - 1 \in 0 .. n - 1 /\ i - 1 \in 0 .. n /\ ~(i <= i - 1) /\ (i - 1) + 1 = i
    BY <2>1, <2>2
  <2>4. turn[i - 1] \in Q[i - 1]
    BY <2>1, <2>3
  <2>5. turn[i] = WriteTurn(turn[i - 1], memory)
    BY <1>1, <2>1, <2>2 DEF WriteLoop
  <2>. QED  BY <2>1, <2>3, <2>4, <2>5
<1>. QED  BY <1>1, <1>2

-----------------------------------------------------------------------------
(* What the C library does to a FILE and what is in its file               *)

LEMMA MaxOfTwo ==
    ASSUME NEW a \in Int, NEW b \in Int
    PROVE  Max({a, b}) = IF a >= b THEN a ELSE b
<1>. DEFINE top == IF a >= b THEN a ELSE b
<1>1. top \in {a, b} /\ \A y \in {a, b} : top >= y
  OBVIOUS
<1>2. \A x \in {a, b} : (\A y \in {a, b} : x >= y) => x = top
  OBVIOUS
<1>. QED  BY <1>1, <1>2 DEF Max

(* The smallest of a set of numbers is one of them.                        *)
LEMMA MinOfSet ==
    ASSUME NEW S, S \subseteq Nat, S # {}
    PROVE  Min(S) \in S
<1>1. PICK least \in S : \A n \in S : least <= n
  BY LeastNumber
<1>. QED  BY <1>1 DEF Min

(* The parameters are of their types.                                      *)
LEMMA Params ==
    /\ Handles \subseteq Nat \ {0} /\ MaxSize \in Nat /\ Code \subseteq Int
    /\ Content \in Text /\ NonInt \notin Code /\ Lists \subseteq Seq(Code \cup {NonInt})
  BY StreamAssumption DEF Text, Octet

(* fputc writes a byte, whatever the integer.                              *)
LEMMA CharIsByte == \A code \in Int : Char(code) \in Octet
  BY DEF Char, Octet

(* What a text becomes when bytes are written over it at a position.       *)
LEMMA OverwrittenText ==
    ASSUME NEW text \in Text, NEW pos \in Nat, NEW bytes \in Text
    PROVE  /\ Overwritten(text, pos, bytes) \in Text
           /\ Len(Overwritten(text, pos, bytes)) =
                IF Len(text) >= pos + Len(bytes) THEN Len(text) ELSE pos + Len(bytes)
           /\ \A n \in 1 .. Len(Overwritten(text, pos, bytes)) :
                Overwritten(text, pos, bytes)[n] =
                    IF n \in pos + 1 .. pos + Len(bytes) THEN bytes[n - pos]
                    ELSE IF n <= Len(text) THEN text[n] ELSE 0
<1>. DEFINE length == IF Len(text) >= pos + Len(bytes) THEN Len(text) ELSE pos + Len(bytes)
<1>1. Len(text) \in Nat /\ Len(bytes) \in Nat /\ length \in Nat
  BY DEF Text
<1>2. Max({Len(text), pos + Len(bytes)}) = length
  BY <1>1, MaxOfTwo
<1>3. \A n \in 1 .. length :
          (IF n \in pos + 1 .. pos + Len(bytes) THEN bytes[n - pos]
           ELSE IF n <= Len(text) THEN text[n] ELSE 0) \in Octet
  <2>. TAKE n \in 1 .. length
  <2>1. n \in pos + 1 .. pos + Len(bytes) => bytes[n - pos] \in Octet
    BY <1>1 DEF Text
  <2>2. n <= Len(text) => text[n] \in Octet
    BY <1>1 DEF Text
  <2>3. 0 \in Octet
    BY DEF Octet
  <2>. QED  BY <2>1, <2>2, <2>3
<1>. HIDE DEF length
<1>4. Overwritten(text, pos, bytes) =
          [n \in 1 .. length |->
              IF n \in pos + 1 .. pos + Len(bytes) THEN bytes[n - pos]
              ELSE IF n <= Len(text) THEN text[n] ELSE 0]
  BY <1>2 DEF Overwritten
<1>5. Overwritten(text, pos, bytes) \in [1 .. length -> Octet]
  BY <1>3, <1>4
<1>6. Overwritten(text, pos, bytes) \in Seq(Octet) /\ Len(Overwritten(text, pos, bytes)) = length
  BY <1>1, <1>5
<1>. QED  BY <1>4, <1>6 DEF Text, length

(* The fields of a call in progress.                                       *)
LEMMA WorkFields ==
    ASSUME NEW at \in Work
    PROVE  /\ at.file \in File /\ at.text \in Text /\ at.items \in Seq(Int)
           /\ at.got \in Int /\ at.done \in Nat /\ at.file.pos \in Nat
<1>1. /\ at.file \in File /\ at.text \in Text /\ at.items \in Seq(Int)
      /\ at.got \in Int /\ at.done \in Nat
  BY DEF Work
<1>. QED  BY <1>1 DEF File

(* fgetc changes neither the text nor the file it reads.                   *)
LEMMA GetcWork ==
    ASSUME NEW at \in Work
    PROVE  Getc(at) \in Work /\ Getc(at).text = at.text /\ Getc(at).file.path = at.file.path
<1>1. EOF \in Int
  BY DEF EOF
<1>2. at.file \in File /\ at.text \in Text /\ at.file.pos \in Nat
  BY WorkFields
<1>3. ~(at.file.pos >= Len(at.text)) => at.text[at.file.pos + 1] \in Int /\ at.file.pos + 1 \in Nat
  <2>1. Len(at.text) \in Nat /\ \A n \in 1 .. Len(at.text) : at.text[n] \in Octet
    BY <1>2 DEF Text
  <2>2. ~(at.file.pos >= Len(at.text)) => at.file.pos + 1 \in 1 .. Len(at.text)
    BY <1>2, <2>1
  <2>3. Octet \subseteq Int
    BY DEF Octet
  <2>4. at.file.pos + 1 \in Nat
    BY <1>2
  <2>5. ASSUME ~(at.file.pos >= Len(at.text)) PROVE at.text[at.file.pos + 1] \in Int
    <3>. DEFINE next == at.file.pos + 1
    <3>1. next \in 1 .. Len(at.text)
      BY <2>2, <2>5
    <3>. HIDE DEF next
    <3>2. at.text[next] \in Int
      BY <2>1, <2>3, <3>1
    <3>. QED  BY <3>2 DEF next
  <2>. QED  BY <2>4, <2>5
<1>. QED  BY <1>1, <1>2, <1>3 DEF Getc, Work, File

(* fputc stays in its file.                                                *)
LEMMA PutcWork ==
    ASSUME NEW at \in Work, NEW code \in Int
    PROVE  Putc(at, code) \in Work /\ Putc(at, code).file.path = at.file.path
<1>1. EOF \in Int /\ Char(code) \in Int /\ Char(code) \in Octet
  BY CharIsByte DEF EOF, Octet
<1>2. at.file \in File /\ at.text \in Text /\ at.file.pos \in Nat /\ at.file.pos + 1 \in Nat
  BY WorkFields
<1>3. <<Char(code)>> \in Text
  BY <1>1 DEF Text
<1>4. Overwritten(at.text, at.file.pos, <<Char(code)>>) \in Text
  BY <1>2, <1>3, OverwrittenText
<1>. QED  BY <1>1, <1>2, <1>4 DEF Putc, Work, File

(* A turn of fgets reads, and changes no text.                             *)
LEMMA ReadTurnWork ==
    ASSUME NEW at \in Work
    PROVE  /\ ReadTurn(at) \in Work /\ ReadTurn(at).text = at.text
           /\ ReadTurn(at).file.path = at.file.path
<1>1. Getc(at) \in Work /\ Getc(at).text = at.text /\ Getc(at).file.path = at.file.path
  BY GetcWork
<1>. DEFINE read == Getc(at)
<1>2. read.items \in Seq(Int) /\ read.got \in Int /\ read.done + 1 \in Nat
  BY <1>1, WorkFields
<1>3. Append(read.items, read.got) \in Seq(Int)
  BY <1>2
<1>. HIDE DEF read
<1>4. [read EXCEPT !.items = Append(@, read.got), !.done = @ + 1] \in Work
  BY <1>1, <1>2, <1>3 DEF Work, read
<1>5. /\ [read EXCEPT !.items = Append(@, read.got), !.done = @ + 1].text = read.text
      /\ [read EXCEPT !.items = Append(@, read.got), !.done = @ + 1].file = read.file
  BY <1>1 DEF Work, read
<1>. QED  BY <1>1, <1>4, <1>5 DEF ReadTurn, read

(* A turn of fputs writes at most one character.                           *)
LEMMA WriteTurnWork ==
    ASSUME NEW at \in Work, NEW memory \in Seq(Code \cup {NonInt}), at.done < Len(memory)
    PROVE  /\ WriteTurn(at, memory) \in Work
           /\ WriteTurn(at, memory).done \in {at.done, at.done + 1}
           /\ WriteTurn(at, memory).file.path = at.file.path
<1>1. at.done \in Nat /\ at.done + 1 \in 1 .. Len(memory)
  BY WorkFields
<1>2. memory[at.done + 1] \in Code \cup {NonInt}
  BY <1>1
<1>. DEFINE item == memory[at.done + 1]
            next == Putc(at, item)
<1>3. CASE AsBool(at.file) /\ item # NonInt
  <2>1. item \in Int
    BY <1>2, <1>3, Params
  <2>2. next \in Work /\ next.done = at.done /\ next.file.path = at.file.path
    BY <2>1, PutcWork DEF Putc, Work
  <2>3. WriteTurn(at, memory) = [next EXCEPT !.done = @ + 1]
    BY <1>3 DEF WriteTurn
  <2>. HIDE DEF next
  <2>4. [next EXCEPT !.done = @ + 1] \in Work
    <3>1. next.done + 1 \in Nat
      BY <1>1, <2>2
    <3>. QED  BY <2>2, <3>1 DEF Work
  <2>5. /\ [next EXCEPT !.done = @ + 1].done = at.done + 1
        /\ [next EXCEPT !.done = @ + 1].file = next.file
    BY <2>2 DEF Work
  <2>. QED  BY <2>2, <2>3, <2>4, <2>5
<1>4. CASE ~(AsBool(at.file) /\ item # NonInt)
  BY <1>4 DEF WriteTurn
<1>. QED  BY <1>3, <1>4

(* A loop of fread and a loop of fwrite work on what they were given.      *)
LEMMA ReadTurnsWork ==
    ASSUME NEW at \in Work, NEW n \in Nat
    PROVE  ReadTurns(at, n) \in Work /\ ReadTurns(at, n).file.path = at.file.path
<1>. DEFINE Q == [i \in 0 .. n |-> {x \in Work : x.file.path = at.file.path}]
<1>1. at \in Q[0]
  OBVIOUS
<1>2. \A i \in 0 .. n - 1 : \A x \in Q[i] : ReadTurn(x) \in Q[i + 1]
  BY ReadTurnWork
<1>. HIDE DEF Q
<1>3. ReadTurns(at, n) \in Q[n]
  BY <1>1, <1>2, ReadLoopKeeps
<1>. QED  BY <1>3 DEF Q

(* So the whole loop stays in its file.                                    *)
LEMMA WriteTurnsWork ==
    ASSUME NEW at \in Work, at.done = 0, NEW n \in Nat,
           NEW memory \in Seq(Code \cup {NonInt}), n <= Len(memory)
    PROVE  /\ WriteTurns(at, memory, n) \in Work
           /\ WriteTurns(at, memory, n).file.path = at.file.path
<1>. DEFINE Q == [i \in 0 .. n |->
                {x \in Work : x.done <= i /\ x.file.path = at.file.path}]
<1>1. at \in Q[0]
  OBVIOUS
<1>2. ASSUME NEW i \in 0 .. n - 1, NEW x \in Q[i] PROVE WriteTurn(x, memory) \in Q[i + 1]
  <2>1. /\ i \in 0 .. n /\ i + 1 \in 0 .. n /\ x \in Work /\ x.done <= i /\ x.done \in Nat
        /\ x.file.path = at.file.path
    BY WorkFields
  <2>2. x.done < Len(memory)
    BY <2>1
  <2>3. /\ WriteTurn(x, memory) \in Work /\ WriteTurn(x, memory).done \in {x.done, x.done + 1}
        /\ WriteTurn(x, memory).file.path = x.file.path
    BY <2>1, <2>2, WriteTurnWork
  <2>. QED  BY <2>1, <2>3
<1>. HIDE DEF Q
<1>3. WriteTurns(at, memory, n) \in Q[n]
  BY <1>1, <1>2, WriteLoopKeeps
<1>. QED  BY <1>3 DEF Q

(* What lies in memory from a list on is long enough for the loop.         *)
LEMMA MemoryWork ==
    ASSUME NEW list \in Lists, NEW n \in Nat,
           NEW behind \in [1 .. Max({n - Len(list), 0}) -> Code \cup {NonInt}]
    PROVE  list \o behind \in Seq(Code \cup {NonInt}) /\ n <= Len(list \o behind)
<1>1. list \in Seq(Code \cup {NonInt}) /\ Len(list) \in Nat
  BY Params
<1>. DEFINE more == IF n - Len(list) >= 0 THEN n - Len(list) ELSE 0
<1>2. Max({n - Len(list), 0}) = more /\ more \in Nat
  BY <1>1, MaxOfTwo
<1>. HIDE DEF more
<1>3. behind \in Seq(Code \cup {NonInt}) /\ Len(behind) = more
  <2>1. behind \in [1 .. more -> Code \cup {NonInt}]
    BY <1>2
  <2>. QED  BY <1>2, <2>1
<1>. QED  BY <1>1, <1>2, <1>3 DEF more

-----------------------------------------------------------------------------
(* The invariant                                                           *)

(* An open FILE is one of the C library, and a stream one of the heap.     *)
LEMMA Shapes ==
    ASSUME StreamTypes
    PROVE  /\ \A h \in Handles : handles[h] \in File \cup {Closed}
           /\ \A h \in Open : handles[h] \in File /\ handles[h].path \in Path
           /\ \A h \in Handles \ Open : handles[h] = Closed
           /\ \A s \in Streaming :
                /\ streams[s] \in [alive : {TRUE}, f : Handles \cup {NoFile}]
                /\ streams[s].f \in Handles \cup {NoFile}
           /\ \A s \in StreamIds \ Streaming : streams[s] = NoStream
           /\ NoFile \notin Handles
<1>1. Closed.open = FALSE /\ NoStream.alive = FALSE
  BY DEF Closed, NoStream
<1>2. NoFile \notin Handles
  BY Params DEF NoFile
<1>3. \A h \in Open : handles[h] \in File
  BY <1>1 DEF StreamTypes, Open
<1>. QED  BY <1>1, <1>2, <1>3 DEF StreamTypes, Open, Streaming, File

(* The FILE of a stream, as a native takes it up.                          *)
LEMMA AtWork ==
    ASSUME StreamInv, NEW s \in Streaming, streams[s].f # NoFile
    PROVE  /\ streams[s].f \in Open /\ At(s) \in Work /\ At(s).done = 0
           /\ At(s).file = handles[streams[s].f]
           /\ At(s).text = files[handles[streams[s].f].path]
<1>1. streams[s].f \in Open
  BY DEF StreamInv, Owned
<1>2. handles[streams[s].f] \in File /\ files[handles[streams[s].f].path] \in Text
  BY <1>1, Shapes DEF StreamInv, StreamTypes
<1>3. <<>> \in Seq(Int) /\ EOF \in Int
  BY DEF EOF
<1>. QED  BY <1>1, <1>2, <1>3 DEF At, Work

(* A native that keeps its FILE at its path keeps the invariant.           *)
LEMMA DoesInv ==
    ASSUME StreamInv, NEW s \in Streaming, streams[s].f # NoFile,
           NEW at \in Work, at.file.path = handles[streams[s].f].path, Does(s, at)
    PROVE  StreamInv'
<1>. DEFINE f == streams[s].f
<1>1. f \in Open /\ f \in Handles /\ handles[f] \in File
  BY AtWork, Shapes DEF StreamInv, Open
<1>2. /\ handles' = [handles EXCEPT ![f] = at.file]
      /\ files' = [files EXCEPT ![at.file.path] = at.text]
      /\ streams' = streams
  BY DEF Does
<1>3. at.file \in File /\ at.text \in Text /\ at.file.open
  BY WorkFields DEF File
<1>4. at.file.path \in Path
  BY <1>3 DEF File
<1>5. Open' = Open /\ Streaming' = Streaming
  <2>1. \A h \in Handles : handles'[h].open <=> handles[h].open
    BY <1>1, <1>2, <1>3 DEF StreamInv, StreamTypes, File
  <2>. QED  BY <1>2, <2>1 DEF Open, Streaming
<1>6. Owned'
  BY <1>2, <1>5 DEF Owned, StreamInv
<1>7. /\ files' \in [Path -> Text \cup {Missing}]
      /\ handles' \in [Handles -> File \cup {Closed}]
  BY <1>1, <1>2, <1>3, <1>4 DEF StreamInv, StreamTypes
<1>8. ASSUME NEW h \in Open' PROVE files'[handles'[h].path] \in Text
  <2>1. h \in Open /\ files[handles[h].path] \in Text /\ handles[h].path \in Path
    BY <1>5, Shapes DEF StreamInv, StreamTypes
  <2>2. handles'[h].path = handles[h].path
    BY <1>1, <1>2, <2>1 DEF StreamInv, StreamTypes, Open
  <2>. QED  BY <1>2, <1>3, <1>4, <2>1, <2>2 DEF StreamInv, StreamTypes
<1>9. StreamTypes'
  BY <1>2, <1>7, <1>8 DEF StreamInv, StreamTypes
<1>. QED  BY <1>6, <1>9 DEF StreamInv

(* A call that does nothing keeps the invariant.                           *)
LEMMA NothingInv ==
    ASSUME StreamInv, Nothing
    PROVE  StreamInv'
  BY DEF StreamInv, StreamTypes, Owned, Nothing, Open, Streaming

(* No stream is open at first.                                             *)
LEMMA InitStreamInv ==
    ASSUME StreamInit
    PROVE  StreamInv
<1>1. Open = {} /\ Streaming = {}
  BY DEF StreamInit, Open, Streaming, Closed, NoStream
<1>2. files \in [Path -> Text \cup {Missing}]
  BY Params DEF StreamInit
<1>3. /\ handles \in [Handles -> File \cup {Closed}]
      /\ streams \in [StreamIds -> [alive : {TRUE}, f : Handles \cup {NoFile}] \cup {NoStream}]
  BY DEF StreamInit
<1>. QED  BY <1>1, <1>2, <1>3 DEF StreamInv, StreamTypes, Owned

(* What fclose and the sweep do: the FILE of a stream is closed, and the   *)
(* stream holds none any more.                                             *)
LEMMA CloseInv ==
    ASSUME StreamInv, NEW s \in Streaming, Closing(streams[s].f), files' = files,
           NEW rest \in {NoStream, [streams[s] EXCEPT !.f = NoFile]},
           streams' = [streams EXCEPT ![s] = rest]
    PROVE  StreamInv'
<1>. DEFINE f == streams[s].f
            Some == [alive : {TRUE}, f : Handles \cup {NoFile}]
<1>1. s \in StreamIds /\ streams[s] \in Some /\ f \in Open \cup {NoFile} /\ NoFile \notin Handles
  BY Shapes DEF StreamInv, Owned, Streaming
<1>2. rest \in Some \cup {NoStream} /\ (rest.alive => rest.f = NoFile)
  <2>1. [streams[s] EXCEPT !.f = NoFile] \in Some /\ [streams[s] EXCEPT !.f = NoFile].f = NoFile
    BY <1>1
  <2>2. NoStream.alive = FALSE
    BY DEF NoStream
  <2>. QED  BY <2>1, <2>2
<1>3. /\ \A t \in StreamIds : streams'[t] = IF t = s THEN rest ELSE streams[t]
      /\ streams' \in [StreamIds -> Some \cup {NoStream}]
  BY <1>1, <1>2 DEF StreamInv, StreamTypes
<1>4. /\ \A h \in Handles : handles'[h] = IF h = f THEN Closed ELSE handles[h]
      /\ handles' \in [Handles -> File \cup {Closed}]
  BY <1>1 DEF StreamInv, StreamTypes, Closing, Open
<1>5. Open' = Open \ {f}
  BY <1>4 DEF Open, Closed
<1>6. /\ \A t \in Streaming \ {s} : t \in Streaming' /\ streams'[t] = streams[t]
      /\ \A t \in Streaming' : IF t = s THEN streams'[t].f = NoFile
                               ELSE t \in Streaming /\ streams'[t] = streams[t]
  BY <1>2, <1>3 DEF Streaming
<1>7. \A t \in Streaming \ {s} : streams[t].f # NoFile => streams[t].f # f
  BY <1>1 DEF StreamInv, Owned
<1>8. StreamTypes'
  <2>1. \A h \in Open' : files'[handles'[h].path] \in Text
    BY <1>4, <1>5 DEF StreamInv, StreamTypes, Open
  <2>. QED  BY <1>3, <1>4, <2>1 DEF StreamInv, StreamTypes
<1>. HIDE DEF f
<1>9. ASSUME NEW h \in Open' PROVE \E t \in Streaming' : streams'[t].f = h
  <2>1. PICK t \in Streaming : streams[t].f = h
    BY <1>5, <1>9 DEF StreamInv, Owned
  <2>2. t # s
    BY <1>5, <1>9, <2>1 DEF f
  <2>. QED  BY <1>6, <2>1, <2>2
<1>10. \A t \in Streaming' : streams'[t].f \in Open' \cup {NoFile}
  <2>1. \A t \in Streaming : streams[t].f \in Open \cup {NoFile}
    BY DEF StreamInv, Owned
  <2>. QED  BY <1>5, <1>6, <1>7, <2>1
<1>11. \A t, u \in Streaming' :
          streams'[t].f = streams'[u].f /\ streams'[t].f # NoFile => t = u
  <2>1. \A t, u \in Streaming :
          streams[t].f = streams[u].f /\ streams[t].f # NoFile => t = u
    BY DEF StreamInv, Owned
  <2>. QED  BY <1>6, <2>1
<1>. QED  BY <1>8, <1>9, <1>10, <1>11 DEF StreamInv, Owned

(* fopen takes a handle no stream holds, or makes no stream.               *)
LEMMA FopenInv ==
    ASSUME StreamInv, NEW path \in Path, NEW mode \in Modes, Fopen(path, mode)
    PROVE  StreamInv'
<1>. DEFINE writes == Writes(mode)
            free == Handles \ Open
            f == IF free = {} THEN NoFile ELSE Min(free)
            Some == [alive : {TRUE}, f : Handles \cup {NoFile}]
<1>1. /\ files \in [Path -> Text \cup {Missing}]
      /\ handles \in [Handles -> File \cup {Closed}]
      /\ streams \in [StreamIds -> Some \cup {NoStream}]
      /\ \A h \in Open : files[handles[h].path] \in Text
  BY DEF StreamInv, StreamTypes
<1>2. free # {} => f \in free
  BY MinOfSet, Params DEF Open
<1>3. f # NoFile => f \in Handles /\ f \notin Open
  BY <1>2
<1>. HIDE DEF f
(* A stream without a FILE, or one more, joins the others.                 *)
<1>4. ASSUME NEW s \in StreamIds \ Streaming, NEW g \in Handles \cup {NoFile},
             streams' = [streams EXCEPT ![s] = [alive |-> TRUE, f |-> g]]
      PROVE  /\ streams' \in [StreamIds -> Some \cup {NoStream}]
             /\ Streaming' = Streaming \cup {s}
             /\ streams'[s].f = g
             /\ \A t \in Streaming : streams'[t] = streams[t]
  <2>1. [alive |-> TRUE, f |-> g] \in Some /\ [alive |-> TRUE, f |-> g].alive
    OBVIOUS
  <2>2. \A t \in StreamIds : streams'[t] = IF t = s THEN [alive |-> TRUE, f |-> g] ELSE streams[t]
    BY <1>1, <1>4
  <2>3. Streaming' = Streaming \cup {s}
    BY <2>1, <2>2 DEF Streaming
  <2>. QED  BY <1>1, <1>4, <2>1, <2>2, <2>3 DEF Streaming
<1>5. CASE /\ \E s \in StreamIds \ Streaming :
                streams' = [streams EXCEPT ![s] = [alive |-> TRUE, f |-> NoFile]]
           /\ UNCHANGED <<files, handles>>
  <2>1. PICK s \in StreamIds \ Streaming :
              streams' = [streams EXCEPT ![s] = [alive |-> TRUE, f |-> NoFile]]
    BY <1>5
  <2>2. Open' = Open
    BY <1>5 DEF Open
  <2>3. StreamTypes'
    BY <1>1, <1>4, <1>5, <2>1, <2>2 DEF StreamTypes
  <2>4. /\ Streaming' = Streaming \cup {s} /\ streams'[s].f = NoFile
        /\ \A t \in Streaming : streams'[t] = streams[t]
    BY <1>4, <2>1
  <2>5. Owned'
    BY <2>2, <2>4 DEF StreamInv, Owned
  <2>. QED  BY <2>3, <2>5 DEF StreamInv
<1>6. CASE /\ f # NoFile
           /\ writes \/ files[path] # Missing
           /\ files' = IF writes THEN [files EXCEPT ![path] = <<>>] ELSE files
           /\ \/ Streaming = StreamIds /\ UNCHANGED <<handles, streams>>
              \/ \E s \in StreamIds \ Streaming :
                   /\ handles' = [handles EXCEPT ![f] = Fopened(path, writes)]
                   /\ streams' = [streams EXCEPT ![s] = [alive |-> TRUE, f |-> f]]
  <2>1. /\ files' \in [Path -> Text \cup {Missing}]
        /\ \A p \in Path : files[p] \in Text => files'[p] \in Text
        /\ files'[path] \in Text
    <3>1. <<>> \in Text
      BY DEF Text
    <3>. QED  BY <1>1, <1>6, <3>1
  <2>2. CASE UNCHANGED <<handles, streams>>
    <3>1. Open' = Open /\ Streaming' = Streaming
      BY <2>2 DEF Open, Streaming
    <3>2. \A h \in Open' : files'[handles'[h].path] \in Text
      BY <1>1, <2>1, <2>2, <3>1, Shapes DEF StreamInv
    <3>. QED  BY <1>1, <2>1, <2>2, <3>1, <3>2 DEF StreamInv, StreamTypes, Owned
  <2>3. CASE \E s \in StreamIds \ Streaming :
                 /\ handles' = [handles EXCEPT ![f] = Fopened(path, writes)]
                 /\ streams' = [streams EXCEPT ![s] = [alive |-> TRUE, f |-> f]]
    <3>1. PICK s \in StreamIds \ Streaming :
                 /\ handles' = [handles EXCEPT ![f] = Fopened(path, writes)]
                 /\ streams' = [streams EXCEPT ![s] = [alive |-> TRUE, f |-> f]]
      BY <2>3
    <3>2. Fopened(path, writes) \in File /\ Fopened(path, writes).path = path
      BY DEF Fopened, File, Writes
    <3>3. f \in Handles /\ f \notin Open /\ f # NoFile
      BY <1>3, <1>6
    <3>. DEFINE new == Fopened(path, writes)
    <3>. HIDE DEF new
    <3>4. /\ handles' \in [Handles -> File \cup {Closed}]
          /\ \A h \in Handles : handles'[h] = IF h = f THEN new ELSE handles[h]
      BY <1>1, <3>1, <3>2 DEF new
    <3>5. Open' = Open \cup {f}
      BY <3>2, <3>3, <3>4 DEF Open, File, new
    <3>6. \A h \in Open' : files'[handles'[h].path] \in Text
      BY <1>1, <2>1, <3>2, <3>4, <3>5, Shapes DEF StreamInv, new, Open
    <3>7. StreamTypes'
      BY <1>1, <1>4, <2>1, <3>1, <3>3, <3>4, <3>6 DEF StreamTypes
    <3>8. /\ Streaming' = Streaming \cup {s} /\ streams'[s].f = f
          /\ \A t \in Streaming : streams'[t] = streams[t]
      BY <1>4, <3>1, <3>3
    <3>9. Owned'
      BY <3>3, <3>5, <3>8 DEF StreamInv, Owned
    <3>. QED  BY <3>7, <3>9 DEF StreamInv
  <2>. QED  BY <1>6, <2>2, <2>3
<1>. QED  BY <1>5, <1>6 DEF Fopen, f

(* Closing a stream, by fclose or when it is collected, gives its handle   *)
(* back once.                                                              *)
LEMMA FcloseInv ==
    ASSUME StreamInv, NEW s \in StreamIds, Fclose(s) \/ CollectStream(s)
    PROVE  StreamInv'
<1>1. s \in Streaming /\ Closing(streams[s].f) /\ files' = files
  BY DEF Fclose, CollectStream, Del
<1>2. CASE Fclose(s)
  <2>1. streams' = [streams EXCEPT ![s] = [streams[s] EXCEPT !.f = NoFile]]
    BY <1>2 DEF Fclose, Del
  <2>. QED  BY <1>1, <2>1, CloseInv
<1>3. CASE CollectStream(s)
  <2>1. streams' = [streams EXCEPT ![s] = NoStream]
    BY <1>3 DEF CollectStream
  <2>. QED  BY <1>1, <2>1, CloseInv
<1>. QED  BY <1>2, <1>3

(* The natives that work on the FILE of a stream.                          *)
LEMMA NativeInv ==
    ASSUME StreamInv, NEW s \in StreamIds,
           \/ Fgetc(s)
           \/ \E code \in Code : Fputc(s, code)
           \/ \E n \in -1 .. MaxSize :
                Fread(s, n) \/ Seek(s, n) \/ \E list \in Lists : Fwrite(s, list, n)
    PROVE  StreamInv'
<1>1. s \in Streaming
  BY DEF Fgetc, Fputc, Fread, Seek, Fwrite
<1>2. CASE Nothing
  BY <1>2, NothingInv
<1>. DEFINE Good(at) == at \in Work /\ at.file.path = handles[streams[s].f].path
<1>3. ASSUME streams[s].f # NoFile, \E at : Does(s, at) /\ Good(at) PROVE StreamInv'
  BY <1>1, <1>3, DoesInv
<1>4. ASSUME streams[s].f # NoFile PROVE Good(At(s)) /\ At(s).done = 0
  BY <1>1, <1>4, AtWork
<1>5. CASE Fgetc(s)
  <2>1. ASSUME streams[s].f # NoFile, Does(s, Getc(At(s))) PROVE StreamInv'
    <3>1. Good(Getc(At(s)))
      BY <1>4, <2>1, GetcWork
    <3>. QED  BY <1>3, <2>1, <3>1
  <2>. QED  BY <1>2, <1>5, <2>1 DEF Fgetc
<1>6. ASSUME NEW code \in Code, Fputc(s, code) PROVE StreamInv'
  <2>1. ASSUME streams[s].f # NoFile, Does(s, Putc(At(s), Char(code))) PROVE StreamInv'
    <3>1. Char(code) \in Int
      <4>1. code \in Int /\ Octet \subseteq Int
        BY Params DEF Octet
      <4>. QED  BY <4>1, CharIsByte
    <3>2. Good(Putc(At(s), Char(code)))
      BY <1>4, <2>1, <3>1, PutcWork
    <3>. QED  BY <1>3, <2>1, <3>2
  <2>. QED  BY <1>2, <1>6, <2>1 DEF Fputc
<1>7. ASSUME NEW n \in -1 .. MaxSize, Fread(s, n) PROVE StreamInv'
  <2>1. ASSUME n >= 0, streams[s].f # NoFile, Does(s, ReadTurns(At(s), n)) PROVE StreamInv'
    <3>1. n \in Nat
      BY <2>1
    <3>2. Good(ReadTurns(At(s), n))
      BY <1>4, <2>1, <3>1, ReadTurnsWork
    <3>. QED  BY <1>3, <2>1, <3>2
  <2>. QED  BY <1>2, <1>7, <2>1 DEF Fread
<1>8. ASSUME NEW n \in -1 .. MaxSize, Seek(s, n) PROVE StreamInv'
  <2>. DEFINE at == [At(s) EXCEPT !.file.pos = n, !.file.eof = FALSE]
  <2>1. ASSUME n >= 0, streams[s].f # NoFile, Does(s, at) PROVE StreamInv'
    <3>1. At(s) \in Work /\ At(s).file \in File /\ n \in Nat
      BY <1>4, <2>1, WorkFields
    <3>2. at \in Work /\ at.file.path = At(s).file.path
      BY <3>1 DEF Work, File
    <3>. HIDE DEF at
    <3>3. Good(at)
      BY <1>4, <2>1, <3>2
    <3>. QED  BY <1>3, <2>1, <3>3
  <2>2. Nothing \/ (n >= 0 /\ streams[s].f # NoFile /\ Does(s, at))
    <3>1. n < 0 \/ n >= 0
      BY Params
    <3>. QED  BY <1>8, <3>1, Zenon DEF Seek
  <2>. HIDE DEF at
  <2>. QED  BY <1>2, <2>1, <2>2
<1>9. ASSUME NEW n \in -1 .. MaxSize, NEW list \in Lists, Fwrite(s, list, n) PROVE StreamInv'
  <2>1. ASSUME n >= 0, streams[s].f # NoFile,
               NEW behind \in [1 .. Max({n - Len(list), 0}) -> Code \cup {NonInt}],
               Does(s, WriteTurns(At(s), list \o behind, n))
        PROVE  StreamInv'
    <3>. DEFINE memory == list \o behind
    <3>1. n \in Nat
      BY <2>1
    <3>2. memory \in Seq(Code \cup {NonInt}) /\ n <= Len(memory)
      BY <2>1, <3>1, MemoryWork
    <3>. HIDE DEF memory
    <3>3. Good(WriteTurns(At(s), memory, n))
      BY <1>4, <2>1, <3>1, <3>2, WriteTurnsWork
    <3>. QED  BY <1>3, <2>1, <3>3 DEF memory
  <2>2. \/ Nothing
        \/ /\ n >= 0 /\ streams[s].f # NoFile
           /\ \E behind \in [1 .. Max({n - Len(list), 0}) -> Code \cup {NonInt}] :
                Does(s, WriteTurns(At(s), list \o behind, n))
    <3>1. n < 0 \/ n >= 0
      BY Params
    <3>. QED  BY <1>9, <3>1, Zenon DEF Fwrite
  <2>. QED  BY <1>2, <2>1, <2>2
<1>. QED  BY <1>5, <1>6, <1>7, <1>8, <1>9

(* Every call on a stream keeps the invariant.                             *)
LEMMA NextStreamInv ==
    ASSUME StreamInv, [StreamNext]_stream_vars
    PROVE  StreamInv'
<1>1. CASE UNCHANGED stream_vars
  BY <1>1, NothingInv DEF Nothing, stream_vars
<1>2. CASE StreamNext
  BY <1>2, FopenInv, FcloseInv, NativeInv DEF StreamNext
<1>. QED  BY <1>1, <1>2

(* Streams, handles and texts are well formed and no handle belongs to two *)
(* streams, in every state.                                                *)
THEOREM StreamInvariant == StreamSpec => []StreamInv
<1>1. StreamInit => StreamInv
  BY InitStreamInv
<1>2. StreamInv /\ [StreamNext]_stream_vars => StreamInv'
  BY NextStreamInv
<1>. QED  BY <1>1, <1>2, PTL DEF StreamSpec

(* Every FILE that is open belongs to one stream and no stream holds one   *)
(* that is closed: fopen, fclose and fs_del_fn lose none, and close none   *)
(* twice, in any heap and with any number of FILEs.                        *)
THEOREM StreamHandlesOwned == StreamSpec => []HandlesOwned
<1>1. StreamInv => HandlesOwned
  <2>. SUFFICES ASSUME StreamInv PROVE HandlesOwned
    OBVIOUS
  <2>1. ASSUME NEW h \in Open
        PROVE  Cardinality({s \in Streaming : streams[s].f = h}) = 1
    <3>1. h # NoFile
      BY Shapes DEF StreamInv, Open
    <3>2. PICK s \in Streaming : streams[s].f = h
      BY DEF StreamInv, Owned
    <3>3. {t \in Streaming : streams[t].f = h} = {s}
      BY <3>1, <3>2 DEF StreamInv, Owned
    <3>. QED  BY <3>3, FS_Singleton
  <2>. QED  BY <2>1 DEF HandlesOwned, StreamInv, Owned
<1>. QED  BY <1>1, StreamInvariant, PTL

-----------------------------------------------------------------------------
(* What fread gives                                                        *)

Behind(at) == IF at.file.pos <= Len(at.text) THEN Len(at.text) - at.file.pos ELSE 0

(* What i turns of the loop leave of a FILE that can be read.              *)
AfterReads(at, i) ==
    LET r == Behind(at)
        k == IF i <= r + 1 THEN i ELSE r + 1
    IN  {x \in Work :
            /\ x.text = at.text
            /\ ~x.file.writes /\ ~x.file.err /\ (x.file.eof <=> i > r)
            /\ x.file.pos = at.file.pos + (IF i <= r THEN i ELSE r)
            /\ x.done = k /\ Len(x.items) = k
            /\ \A j \in 1 .. k :
                  x.items[j] = IF j <= r THEN at.text[at.file.pos + j] ELSE EOF}

(* One more turn of the reading loop is where one more turn should be.     *)
LEMMA AfterOneRead ==
    ASSUME NEW at \in Work, NEW i \in Nat, NEW x \in AfterReads(at, i)
    PROVE  ReadTurn(x) \in AfterReads(at, i + 1)
<1>. DEFINE r == Behind(at)
            k == IF i <= r + 1 THEN i ELSE r + 1
            read == Getc(x)
<1>1. /\ x \in Work /\ x.text = at.text
      /\ ~x.file.writes /\ ~x.file.err /\ (x.file.eof <=> i > r)
      /\ x.file.pos = at.file.pos + (IF i <= r THEN i ELSE r)
      /\ x.done = k /\ Len(x.items) = k
      /\ \A j \in 1 .. k : x.items[j] = IF j <= r THEN at.text[at.file.pos + j] ELSE EOF
  BY DEF AfterReads
<1>2. /\ at.file.pos \in Nat /\ Len(at.text) \in Nat /\ x.items \in Seq(Int)
      /\ x.done \in Nat /\ at.text \in Text /\ x.file \in File
  BY <1>1, WorkFields DEF Text
<1>3. r \in Nat
  BY <1>2 DEF Behind
<1>4. ReadTurn(x) \in Work
  BY <1>1, ReadTurnWork
<1>5. CASE i > r
  <2>1. ReadTurn(x) = x
    BY <1>1, <1>5 DEF ReadTurn, AsBool
  <2>2. i + 1 > r /\ (IF i + 1 <= r + 1 THEN i + 1 ELSE r + 1) = k /\ ~(i <= r) /\ ~(i + 1 <= r)
    BY <1>3, <1>5
  <2>. HIDE DEF r, k
  <2>3. x \in AfterReads(at, i + 1)
    BY <1>1, <1>3, <1>5, <2>2 DEF AfterReads, r
  <2>. QED  BY <2>1, <2>3
<1>6. CASE i <= r
  <2>1. AsBool(x.file)
    BY <1>1, <1>3, <1>6 DEF AsBool
  <2>2. k = i
    BY <1>3, <1>6
  <2>3. /\ read \in Work /\ read.text = x.text /\ read.items = x.items /\ read.done = x.done
        /\ read.file.writes = x.file.writes /\ read.file.err = x.file.err
    BY <1>1, GetcWork DEF Getc, Work, File
  <2>4. IF i = r THEN read.file.eof /\ read.got = EOF /\ read.file.pos = x.file.pos
        ELSE /\ ~read.file.eof /\ read.got = at.text[at.file.pos + (i + 1)]
             /\ read.file.pos = at.file.pos + (i + 1)
    <3>1. ~x.file.eof /\ x.file.pos = at.file.pos + i
      BY <1>1, <1>3, <1>6
    <3>2. x.file.pos >= Len(x.text) <=> i = r
      BY <1>1, <1>2, <1>6, <3>1, SMTT(40) DEF Behind
    <3>3. CASE i = r
      <4>1. read = [x EXCEPT !.file.eof = TRUE, !.got = EOF]
        BY <1>1, <3>2, <3>3 DEF Getc
      <4>. QED  BY <1>1, <1>2, <3>3, <4>1 DEF Work, File
    <3>4. CASE i # r
      <4>1. read = [x EXCEPT !.file.pos = @ + 1, !.got = x.text[x.file.pos + 1]]
        BY <1>1, <3>1, <3>2, <3>4 DEF Getc
      <4>2. read.got = x.text[x.file.pos + 1] /\ read.file.pos = x.file.pos + 1 /\ ~read.file.eof
        BY <1>1, <1>2, <3>1, <4>1 DEF Work, File
      <4>3. x.file.pos + 1 = at.file.pos + (i + 1)
        <5>1. x.file.pos = at.file.pos + i /\ at.file.pos \in Nat
          BY <1>2, <3>1
        <5>. QED  BY <5>1
      <4>. QED  BY <1>1, <3>4, <4>2, <4>3
    <3>. QED  BY <3>3, <3>4
  <2>. HIDE DEF read
  <2>5. ReadTurn(x) = [read EXCEPT !.items = Append(@, read.got), !.done = @ + 1]
    BY <2>1 DEF ReadTurn, read
  <2>6. /\ ReadTurn(x).text = read.text /\ ReadTurn(x).file = read.file
        /\ ReadTurn(x).done = i + 1 /\ ReadTurn(x).items = Append(x.items, read.got)
    BY <1>1, <2>2, <2>3, <2>5 DEF Work
  <2>7. read.got \in Int
    BY <2>3, WorkFields
  <2>8. /\ Len(ReadTurn(x).items) = i + 1
        /\ \A j \in 1 .. i : ReadTurn(x).items[j] = x.items[j]
        /\ ReadTurn(x).items[i + 1] = read.got
    BY <1>1, <1>2, <2>2, <2>6, <2>7
  <2>9. (IF i + 1 <= r + 1 THEN i + 1 ELSE r + 1) = i + 1
    BY <1>3, <1>6
  <2>. HIDE DEF r, k
  <2>10. \A j \in 1 .. i + 1 :
            ReadTurn(x).items[j] = IF j <= r THEN at.text[at.file.pos + j] ELSE EOF
    <3>. TAKE j \in 1 .. i + 1
    <3>1. CASE j = i + 1
      BY <1>3, <1>6, <2>4, <2>8, <3>1
    <3>2. CASE j # i + 1
      <4>1. j \in 1 .. i
        BY <3>2
      <4>. QED  BY <1>1, <2>2, <2>8, <4>1
    <3>. QED  BY <3>1, <3>2
  <2>11. /\ ReadTurn(x).file.pos = at.file.pos + (IF i + 1 <= r THEN i + 1 ELSE r)
         /\ (ReadTurn(x).file.eof <=> i + 1 > r)
    BY <1>1, <1>2, <1>3, <1>6, <2>4, <2>6
  <2>. QED  BY <1>1, <1>4, <2>3, <2>6, <2>8, <2>9, <2>10, <2>11 DEF AfterReads, r
<1>. QED  BY <1>3, <1>5, <1>6

(* A FILE that cannot be read any more is left as it is.                   *)
LEMMA NoReads ==
    ASSUME NEW at, ~AsBool(at.file), NEW n \in Nat
    PROVE  ReadTurns(at, n) = at
<1>. DEFINE Q == [i \in 0 .. n |-> {at}]
<1>1. ReadTurn(at) = at
  BY DEF ReadTurn
<1>2. at \in Q[0] /\ \A i \in 0 .. n - 1 : \A x \in Q[i] : ReadTurn(x) \in Q[i + 1]
  BY <1>1
<1>. HIDE DEF Q
<1>3. ReadTurns(at, n) \in Q[n]
  BY <1>2, ReadLoopKeeps
<1>. QED  BY <1>3 DEF Q

(* A reading loop that got something got the rest of the text, then EOF,   *)
(* in order.                                                               *)
LEMMA ReadsAre ==
    ASSUME NEW at \in Work, ~at.file.writes, at.items = <<>>, at.done = 0, NEW n \in Nat,
           ReadTurns(at, n).done > 0
    PROVE  LET rest == SubSeq(at.text, at.file.pos + 1, Len(at.text))
               read == ReadTurns(at, n)
           IN  /\ read.items = SubSeq(rest \o <<EOF>>, 1, Min({n, Len(rest) + 1}))
               /\ read.done = Len(read.items)
<1>. DEFINE r == Behind(at)
            k == IF n <= r + 1 THEN n ELSE r + 1
            rest == SubSeq(at.text, at.file.pos + 1, Len(at.text))
            read == ReadTurns(at, n)
            Q == [i \in 0 .. n |-> AfterReads(at, i)]
<1>1. /\ at.file.pos \in Nat /\ at.text \in Seq(Octet) /\ Len(at.text) \in Nat
      /\ Octet \subseteq Int /\ EOF \in Int
  BY WorkFields DEF Text, Octet, EOF
<1>2. r \in Nat /\ k \in Nat
  BY <1>1 DEF Behind
<1>3. AsBool(at.file)
  BY NoReads
<1>4. at \in Q[0]
  <2>. HIDE DEF r
  <2>1. ~(0 > r) /\ 0 <= r /\ 0 <= r + 1
    BY <1>2
  <2>2. at \in AfterReads(at, 0)
    BY <1>1, <1>2, <1>3, <2>1 DEF AfterReads, AsBool, r
  <2>. QED  BY <2>2
<1>5. \A i \in 0 .. n - 1 : \A x \in Q[i] : ReadTurn(x) \in Q[i + 1]
  BY AfterOneRead
<1>6. read \in AfterReads(at, n)
  <2>. HIDE DEF Q
  <2>1. read \in Q[n]
    BY <1>4, <1>5, ReadLoopKeeps
  <2>. QED  BY <2>1 DEF Q
<1>7. /\ read \in Work /\ read.done = k /\ Len(read.items) = k
      /\ \A j \in 1 .. k : read.items[j] = IF j <= r THEN at.text[at.file.pos + j] ELSE EOF
  BY <1>6 DEF AfterReads
<1>8. /\ rest \in Seq(Octet) /\ Len(rest) = r
      /\ \A j \in 1 .. r : rest[j] = at.text[at.file.pos + j]
  <2>. DEFINE p == at.file.pos
              t == at.text
  <2>1. p \in Nat /\ t \in Seq(Octet) /\ Len(t) \in Nat
    BY <1>1
  <2>2. r = IF p <= Len(t) THEN Len(t) - p ELSE 0
    BY DEF Behind
  <2>. HIDE DEF p, t, r
  <2>3. \A j \in p + 1 .. Len(t) : t[j] \in Octet
    <3>. TAKE j \in p + 1 .. Len(t)
    <3>1. j \in 1 .. Len(t)
      BY <2>1
    <3>. QED  BY <2>1, <3>1, ElementOfSeq
  <2>4. /\ SubSeq(t, p + 1, Len(t)) \in Seq(Octet)
        /\ Len(SubSeq(t, p + 1, Len(t))) = IF p + 1 <= Len(t) THEN Len(t) - (p + 1) + 1 ELSE 0
        /\ \A j \in 1 .. Len(t) - (p + 1) + 1 : SubSeq(t, p + 1, Len(t))[j] = t[(p + 1) + j - 1]
    <3>1. p + 1 \in Int /\ Len(t) \in Int
      BY <2>1
    <3>. QED  BY <2>3, <3>1, SubSeqProperties
  <2>5. (IF p + 1 <= Len(t) THEN Len(t) - (p + 1) + 1 ELSE 0) = r
    BY <2>1, <2>2
  <2>6. ASSUME NEW j \in 1 .. r PROVE SubSeq(t, p + 1, Len(t))[j] = t[p + j]
    <3>1. j \in 1 .. Len(t) - (p + 1) + 1 /\ (p + 1) + j - 1 = p + j
      BY <2>1, <2>2
    <3>. QED  BY <2>4, <3>1
  <2>. QED  BY <2>4, <2>5, <2>6 DEF p, t
<1>9. Min({n, Len(rest) + 1}) = k
  <2>1. k \in {n, Len(rest) + 1} /\ \A y \in {n, Len(rest) + 1} : k <= y
    BY <1>2, <1>8
  <2>2. \A x \in {n, Len(rest) + 1} : (\A y \in {n, Len(rest) + 1} : x <= y) => x = k
    BY <1>2, <1>8
  <2>. QED  BY <2>1, <2>2 DEF Min
<1>. HIDE DEF r, rest, read
<1>. DEFINE all == rest \o <<EOF>>
<1>10. /\ all \in Seq(Int) /\ Len(all) = r + 1
       /\ \A j \in 1 .. r + 1 : all[j] = IF j <= r THEN rest[j] ELSE EOF
  <2>1. rest \in Seq(Int)
    BY <1>1, <1>8, SeqMonotonic
  <2>. QED  BY <1>1, <1>2, <1>8, <2>1
<1>11. k <= r + 1
  BY <1>2
<1>. HIDE DEF all, k
<1>12. SubSeq(all, 1, k) \in Seq(Int) /\ Len(SubSeq(all, 1, k)) = k
       /\ \A j \in 1 .. k : SubSeq(all, 1, k)[j] = all[j]
  BY <1>2, <1>10, <1>11
<1>13. read.items \in Seq(Int)
  BY <1>7, WorkFields
<1>14. \A j \in 1 .. k : read.items[j] = SubSeq(all, 1, k)[j]
  <2>. TAKE j \in 1 .. k
  <2>1. j \in 1 .. r + 1 /\ (j <= r => j \in 1 .. r)
    BY <1>2, <1>11
  <2>. QED  BY <1>7, <1>8, <1>10, <1>12, <2>1
<1>15. read.items = SubSeq(all, 1, k)
  BY <1>7, <1>12, <1>13, <1>14, SeqEqual
<1>. QED  BY <1>7, <1>9, <1>15 DEF all, rest, read

-----------------------------------------------------------------------------
(* What fwrite writes                                                      *)

(* One byte written behind others is one more byte written with them.      *)
LEMMA OneMoreByte ==
    ASSUME NEW text \in Text, NEW pos \in Nat, NEW bytes \in Text, NEW byte \in Octet
    PROVE  Overwritten(Overwritten(text, pos, bytes), pos + Len(bytes), <<byte>>) =
           Overwritten(text, pos, Append(bytes, byte))
<1>. DEFINE first == Overwritten(text, pos, bytes)
            both == Overwritten(first, pos + Len(bytes), <<byte>>)
            once == Overwritten(text, pos, Append(bytes, byte))
            l == Len(text)
            b == Len(bytes)
<1>1. l \in Nat /\ b \in Nat /\ text \in Seq(Octet) /\ bytes \in Seq(Octet)
  BY DEF Text
<1>2. /\ <<byte>> \in Text /\ Len(<<byte>>) = 1 /\ <<byte>>[1] = byte
      /\ Append(bytes, byte) \in Text /\ Len(Append(bytes, byte)) = b + 1
      /\ \A j \in 1 .. b : Append(bytes, byte)[j] = bytes[j]
      /\ Append(bytes, byte)[b + 1] = byte
  BY <1>1 DEF Text
<1>3. /\ first \in Text /\ Len(first) = IF l >= pos + b THEN l ELSE pos + b
      /\ \A n \in 1 .. Len(first) :
            first[n] = IF n \in pos + 1 .. pos + b THEN bytes[n - pos]
                       ELSE IF n <= l THEN text[n] ELSE 0
  BY OverwrittenText
<1>4. /\ once \in Text /\ Len(once) = IF l >= pos + (b + 1) THEN l ELSE pos + (b + 1)
      /\ \A n \in 1 .. Len(once) :
            once[n] = IF n \in pos + 1 .. pos + (b + 1) THEN Append(bytes, byte)[n - pos]
                      ELSE IF n <= l THEN text[n] ELSE 0
  <2>. DEFINE more == Append(bytes, byte)
  <2>1. more \in Text
    BY <1>2
  <2>. HIDE DEF more
  <2>2. LET them == Overwritten(text, pos, more)
        IN  /\ them \in Text
            /\ Len(them) = IF Len(text) >= pos + Len(more) THEN Len(text) ELSE pos + Len(more)
            /\ \A n \in 1 .. Len(them) :
                  them[n] = IF n \in pos + 1 .. pos + Len(more) THEN more[n - pos]
                            ELSE IF n <= Len(text) THEN text[n] ELSE 0
    BY <2>1, OverwrittenText
  <2>. QED  BY <1>2, <2>2 DEF more
<1>. HIDE DEF first, once
<1>5. /\ both \in Text
      /\ Len(both) = IF Len(first) >= (pos + b) + 1 THEN Len(first) ELSE (pos + b) + 1
      /\ \A n \in 1 .. Len(both) :
            both[n] = IF n \in (pos + b) + 1 .. (pos + b) + 1 THEN <<byte>>[n - (pos + b)]
                      ELSE IF n <= Len(first) THEN first[n] ELSE 0
  <2>. DEFINE one == <<byte>>
              end == pos + b
  <2>1. end \in Nat /\ one \in Text
    BY <1>1, <1>2
  <2>. HIDE DEF one, end
  <2>2. LET them == Overwritten(first, end, one)
        IN  /\ them \in Text
            /\ Len(them) = IF Len(first) >= end + Len(one) THEN Len(first) ELSE end + Len(one)
            /\ \A n \in 1 .. Len(them) :
                  them[n] = IF n \in end + 1 .. end + Len(one) THEN one[n - end]
                            ELSE IF n <= Len(first) THEN first[n] ELSE 0
    BY <1>3, <2>1, OverwrittenText
  <2>. QED  BY <1>2, <2>2 DEF one, end
<1>. HIDE DEF both, l, b
<1>6. Len(both) = Len(once)
  BY <1>1, <1>3, <1>4, <1>5
<1>7. ASSUME NEW n \in 1 .. Len(both) PROVE both[n] = once[n]
  <2>1. n \in Nat /\ n >= 1 /\ n \in 1 .. Len(once)
    BY <1>1, <1>4, <1>6
  <2>2. CASE n <= pos
    <3>1. n \notin pos + 1 .. pos + (b + 1) /\ n \notin (pos + b) + 1 .. (pos + b) + 1
          /\ n \notin pos + 1 .. pos + b /\ n <= Len(first) /\ n \in 1 .. Len(first)
      BY <1>1, <1>3, <2>1, <2>2
    <3>. QED  BY <1>3, <1>4, <1>5, <2>1, <3>1
  <2>3. CASE n > pos /\ n <= pos + b
    <3>1. n \in pos + 1 .. pos + (b + 1) /\ n \notin (pos + b) + 1 .. (pos + b) + 1
          /\ n \in pos + 1 .. pos + b /\ n <= Len(first) /\ n \in 1 .. Len(first)
          /\ n - pos \in 1 .. b
      BY <1>1, <1>3, <2>1, <2>3
    <3>. QED  BY <1>2, <1>3, <1>4, <1>5, <2>1, <3>1
  <2>4. CASE n = pos + b + 1
    <3>1. /\ n \in pos + 1 .. pos + (b + 1) /\ n \in (pos + b) + 1 .. (pos + b) + 1
          /\ n - pos = b + 1 /\ n - (pos + b) = 1
      BY <1>1, <2>4
    <3>. QED  BY <1>2, <1>4, <1>5, <2>1, <3>1
  <2>5. CASE n > pos + b + 1
    <3>1. n \notin pos + 1 .. pos + (b + 1) /\ n \notin (pos + b) + 1 .. (pos + b) + 1
          /\ n \notin pos + 1 .. pos + b /\ (n <= Len(first) <=> n <= l)
          /\ (n <= Len(first) => n \in 1 .. Len(first))
      BY <1>1, <1>3, <2>1, <2>5
    <3>. QED  BY <1>3, <1>4, <1>5, <2>1, <3>1
  <2>6. n <= pos \/ (n > pos /\ n <= pos + b) \/ n = pos + b + 1 \/ n > pos + b + 1
    BY <1>1, <2>1
  <2>. QED  BY <2>2, <2>3, <2>4, <2>5, <2>6
<1>8. both = once
  <2>1. both \in Seq(Octet) /\ once \in Seq(Octet)
    BY <1>4, <1>5 DEF Text
  <2>. QED  BY <1>6, <1>7, <2>1, SeqEqual
<1>. QED  BY <1>8 DEF both, once, first, b

(* What the first k items of a list write, when they are integers.         *)
Wrote(list, k) == [i \in 1 .. k |-> Char(list[i])]

(* The characters of one more integer.                                     *)
LEMMA WroteOneMore ==
    ASSUME NEW list, NEW k \in Nat, \A i \in 1 .. k + 1 : list[i] \in Int
    PROVE  /\ Wrote(list, k) \in Text /\ Len(Wrote(list, k)) = k
           /\ Wrote(list, k + 1) \in Text /\ Len(Wrote(list, k + 1)) = k + 1
           /\ Wrote(list, k + 1) = Append(Wrote(list, k), Char(list[k + 1]))
<1>1. \A i \in 1 .. k + 1 : Char(list[i]) \in Octet
  BY CharIsByte
<1>2. Wrote(list, k + 1) \in [1 .. k + 1 -> Octet] /\ Wrote(list, k) \in [1 .. k -> Octet]
  BY <1>1 DEF Wrote
<1>3. /\ Wrote(list, k) \in Seq(Octet) /\ Len(Wrote(list, k)) = k
      /\ Wrote(list, k + 1) \in Seq(Octet) /\ Len(Wrote(list, k + 1)) = k + 1
  BY <1>2
<1>. DEFINE more == Append(Wrote(list, k), Char(list[k + 1]))
<1>4. Char(list[k + 1]) \in Octet
  BY <1>1
<1>5. /\ more \in Seq(Octet) /\ Len(more) = k + 1
      /\ \A i \in 1 .. k : more[i] = Wrote(list, k)[i]
      /\ more[k + 1] = Char(list[k + 1])
  BY <1>3, <1>4
<1>. HIDE DEF more
<1>6. \A i \in 1 .. k + 1 : Wrote(list, k + 1)[i] = more[i]
  <2>. TAKE i \in 1 .. k + 1
  <2>1. i \in 1 .. k \/ i = k + 1
    OBVIOUS
  <2>. QED  BY <1>5, <2>1 DEF Wrote
<1>7. Wrote(list, k + 1) = more
  BY <1>3, <1>5, <1>6, SeqEqual
<1>. QED  BY <1>3, <1>7 DEF Text, more

(* What i turns of the loop leave of a FILE that can be written, when the  *)
(* first m items in memory are integers.                                   *)
AfterWrites(at, memory, m, i) ==
    LET k == IF i <= m THEN i ELSE m
    IN  {x \in Work :
            /\ x.file.writes /\ ~x.file.err /\ ~x.file.eof
            /\ x.file.pos = at.file.pos + k /\ x.done = k
            /\ x.text = IF k = 0 THEN at.text
                        ELSE Overwritten(at.text, at.file.pos, Wrote(memory, k))}

(* One more turn of the writing loop is where one more turn should be.     *)
LEMMA AfterOneWrite ==
    ASSUME NEW at \in Work, NEW n \in Nat, NEW m \in 0 .. n,
           NEW memory \in Seq(Code \cup {NonInt}), n <= Len(memory),
           \A i \in 1 .. m : memory[i] # NonInt, m < n => memory[m + 1] = NonInt,
           NEW i \in 0 .. n - 1, NEW x \in AfterWrites(at, memory, m, i)
    PROVE  WriteTurn(x, memory) \in AfterWrites(at, memory, m, i + 1)
<1>. DEFINE k == IF i <= m THEN i ELSE m
            next == Putc(x, memory[x.done + 1])
<1>1. /\ x \in Work /\ x.file.writes /\ ~x.file.err /\ ~x.file.eof
      /\ x.file.pos = at.file.pos + k /\ x.done = k
      /\ x.text = IF k = 0 THEN at.text
                  ELSE Overwritten(at.text, at.file.pos, Wrote(memory, k))
  BY DEF AfterWrites
<1>2. /\ at.file.pos \in Nat /\ at.text \in Text /\ x.file \in File /\ x.text \in Text
      /\ k \in Nat /\ k < Len(memory) /\ k <= i /\ k <= m /\ m \in Nat
  BY <1>1, WorkFields
<1>3. WriteTurn(x, memory) \in Work
  BY <1>1, <1>2, WriteTurnWork
<1>4. CASE i >= m
  <2>1. k = m /\ m < n /\ (IF i + 1 <= m THEN i + 1 ELSE m) = k
    BY <1>4
  <2>2. memory[x.done + 1] = NonInt
    BY <1>1, <2>1
  <2>3. WriteTurn(x, memory) = x
    BY <2>2 DEF WriteTurn
  <2>. HIDE DEF k
  <2>4. x \in AfterWrites(at, memory, m, i + 1)
    BY <1>1, <2>1 DEF AfterWrites
  <2>. QED  BY <2>3, <2>4
<1>5. CASE i < m
  <2>1. k = i /\ (IF i + 1 <= m THEN i + 1 ELSE m) = k + 1 /\ k + 1 # 0
    BY <1>5
  <2>. HIDE DEF k
  <2>2. \A j \in 1 .. k + 1 : memory[j] \in Int
    <3>. TAKE j \in 1 .. k + 1
    <3>1. j \in 1 .. m /\ j \in 1 .. Len(memory)
      BY <1>2, <1>5, <2>1
    <3>2. memory[j] \in Code \cup {NonInt} /\ memory[j] # NonInt
      BY <3>1, ElementOfSeq
    <3>. QED  BY <3>2, Params
  <2>. DEFINE item == memory[k + 1]
              byte == Char(item)
  <2>3. k + 1 \in 1 .. k + 1 /\ k + 1 \in 1 .. m
    BY <1>2, <1>5, <2>1
  <2>4. item \in Int /\ item # NonInt /\ byte \in Octet
    BY <2>2, <2>3, CharIsByte
  <2>5. next = [x EXCEPT !.file.pos = @ + 1, !.got = byte,
                        !.text = Overwritten(@, x.file.pos, <<byte>>)]
    BY <1>1 DEF Putc
  <2>6. /\ next.file.writes /\ ~next.file.err /\ ~next.file.eof
        /\ next.file.pos = x.file.pos + 1 /\ next.done = x.done
        /\ next.text = Overwritten(x.text, x.file.pos, <<byte>>) /\ next \in Work
    <3>1. next \in Work
      BY <1>1, <2>4, PutcWork
    <3>. HIDE DEF byte, next
    <3>2. next.file = [x.file EXCEPT !.pos = @ + 1] /\ next.done = x.done
          /\ next.text = Overwritten(x.text, x.file.pos, <<byte>>)
      BY <1>1, <2>5 DEF Work
    <3>3. /\ next.file.writes = x.file.writes /\ next.file.err = x.file.err
          /\ next.file.eof = x.file.eof /\ next.file.pos = x.file.pos + 1
      BY <1>2, <3>2 DEF File
    <3>. QED  BY <1>1, <3>1, <3>2, <3>3
  <2>7. WriteTurn(x, memory) = [next EXCEPT !.done = @ + 1]
    BY <1>1, <2>4 DEF WriteTurn, AsBool
  <2>. HIDE DEF next, item, byte
  <2>8. /\ WriteTurn(x, memory).file = next.file /\ WriteTurn(x, memory).text = next.text
        /\ WriteTurn(x, memory).done = k + 1
    BY <1>1, <2>6, <2>7 DEF Work
  <2>9. next.text = Overwritten(at.text, at.file.pos, Wrote(memory, k + 1))
    <3>1. /\ Wrote(memory, k) \in Text /\ Len(Wrote(memory, k)) = k
          /\ Wrote(memory, k + 1) = Append(Wrote(memory, k), byte)
      BY <1>2, <2>2, WroteOneMore DEF byte, item
    <3>2. CASE k = 0
      <4>1. Wrote(memory, k) = <<>>
        BY <3>1, <3>2 DEF Text
      <4>2. Wrote(memory, k + 1) = <<byte>>
        BY <3>1, <4>1
      <4>3. x.file.pos = at.file.pos /\ x.text = at.text
        BY <1>1, <1>2, <3>2
      <4>. QED  BY <2>6, <4>2, <4>3
    <3>3. CASE k # 0
      <4>1. x.text = Overwritten(at.text, at.file.pos, Wrote(memory, k))
        BY <1>1, <3>3
      <4>2. next.text = Overwritten(Overwritten(at.text, at.file.pos, Wrote(memory, k)),
                                   at.file.pos + Len(Wrote(memory, k)), <<byte>>)
        BY <1>1, <2>6, <3>1, <4>1
      <4>3. byte \in Octet
        BY <2>4 DEF byte
      <4>4. Overwritten(Overwritten(at.text, at.file.pos, Wrote(memory, k)),
                        at.file.pos + Len(Wrote(memory, k)), <<byte>>)
            = Overwritten(at.text, at.file.pos, Append(Wrote(memory, k), byte))
        BY <1>2, <3>1, <4>3, OneMoreByte, ZenonT(40)
      <4>. QED  BY <3>1, <4>2, <4>4
    <3>. QED  BY <3>2, <3>3
  <2>10. next.file.pos = at.file.pos + (k + 1)
    <3>. DEFINE a == at.file.pos
                b == next.file.pos
    <3>1. b = (a + k) + 1 /\ a \in Nat /\ k \in Nat
      BY <1>1, <1>2, <2>6
    <3>. HIDE DEF a, b
    <3>2. b = a + (k + 1)
      BY <3>1
    <3>. QED  BY <3>2 DEF a, b
  <2>. QED  BY <1>3, <2>1, <2>6, <2>8, <2>9, <2>10 DEF AfterWrites
<1>. QED  BY <1>2, <1>4, <1>5

(* A stream at its end or in error is written nothing.                     *)
LEMMA NoWrites ==
    ASSUME NEW at, NEW memory, ~AsBool(at.file), NEW n \in Nat
    PROVE  WriteTurns(at, memory, n) = at
<1>. DEFINE Q == [i \in 0 .. n |-> {at}]
<1>1. WriteTurn(at, memory) = at
  BY DEF WriteTurn
<1>2. at \in Q[0] /\ \A i \in 0 .. n - 1 : \A x \in Q[i] : WriteTurn(x, memory) \in Q[i + 1]
  BY <1>1
<1>. HIDE DEF Q
<1>3. WriteTurns(at, memory, n) \in Q[n]
  BY <1>2, WriteLoopKeeps
<1>. QED  BY <1>3 DEF Q

(* The greatest of numbers that are at most n.                             *)
LEMMA MaxOfSet ==
    ASSUME NEW n \in Nat, NEW S, S \subseteq 0 .. n, S # {}
    PROVE  Max(S) \in S /\ \A y \in S : Max(S) >= y
<1>. DEFINE T == {n - y : y \in S}
<1>1. T \subseteq Nat /\ T # {}
  <2>1. \A y \in S : n - y \in Nat
    OBVIOUS
  <2>2. PICK y \in S : TRUE
    OBVIOUS
  <2>. QED  BY <2>1, <2>2
<1>. HIDE DEF T
<1>2. PICK least \in T : \A t \in T : least <= t
  BY <1>1, LeastNumber
<1>3. PICK top \in S : least = n - top
  BY <1>2 DEF T
<1>4. ASSUME NEW y \in S PROVE top >= y
  <2>1. n - y \in T
    BY DEF T
  <2>2. least <= n - y /\ y \in Int /\ top \in Int
    BY <1>2, <1>3, <2>1
  <2>. QED  BY <1>3, <2>2
<1>5. \E x \in S : \A y \in S : x >= y
  BY <1>4
<1>. QED  BY <1>5 DEF Max

(* A writing loop that wrote something wrote the leading integers of its   *)
(* list, over the text at the position.                                    *)
LEMMA WritesAre ==
    ASSUME NEW at \in Work, at.file.writes, at.done = 0,
           NEW n \in Nat, NEW list \in Lists, n <= Len(list),
           NEW behind \in [1 .. Max({n - Len(list), 0}) -> Code \cup {NonInt}],
           WriteTurns(at, list \o behind, n).done > 0
    PROVE  LET ints == {k \in 0 .. n : \A i \in 1 .. k : list[i] # NonInt}
               wrote == Wrote(list, Max(ints))
               written == WriteTurns(at, list \o behind, n)
           IN  /\ written.done = Len(wrote)
               /\ written.text = Overwritten(at.text, at.file.pos, wrote)
<1>. DEFINE ints == {k \in 0 .. n : \A i \in 1 .. k : list[i] # NonInt}
            m == Max(ints)
            memory == list \o behind
            written == WriteTurns(at, memory, n)
<1>1. memory \in Seq(Code \cup {NonInt}) /\ n <= Len(memory)
  BY MemoryWork
<1>2. list \in Seq(Code \cup {NonInt}) /\ Len(list) \in Nat
  BY Params
<1>3. \A i \in 1 .. n : memory[i] = list[i]
  <2>1. behind \in Seq(Code \cup {NonInt})
    <3>1. Max({n - Len(list), 0}) = 0
      BY <1>2, MaxOfTwo
    <3>. QED  BY <3>1
  <2>2. \A i \in 1 .. Len(list) + Len(behind) :
           memory[i] = IF i <= Len(list) THEN list[i] ELSE behind[i - Len(list)]
    BY <1>2, <2>1, ConcatProperties
  <2>3. Len(behind) \in Nat
    BY <2>1
  <2>. HIDE DEF memory
  <2>. QED  BY <1>2, <2>2, <2>3
<1>4. m \in ints /\ \A k \in ints : m >= k
  <2>1. 0 \in ints /\ ints \subseteq 0 .. n
    OBVIOUS
  <2>. HIDE DEF ints
  <2>. QED  BY <2>1, MaxOfSet
<1>. HIDE DEF m
<1>5. m \in 0 .. n /\ \A i \in 1 .. m : list[i] # NonInt
  BY <1>4
<1>6. m < n => list[m + 1] = NonInt
  <2>1. ASSUME m < n, list[m + 1] # NonInt PROVE FALSE
    <3>1. \A i \in 1 .. m + 1 : i \in 1 .. m \/ i = m + 1
      BY <1>5
    <3>2. m + 1 \in ints
      BY <1>5, <2>1, <3>1
    <3>. QED  BY <1>4, <1>5, <3>2
  <2>. QED  BY <2>1
<1>7. /\ \A i \in 1 .. m : memory[i] # NonInt
      /\ m < n => memory[m + 1] = NonInt
  <2>1. \A i \in 1 .. m : i \in 1 .. n
    BY <1>5
  <2>2. m < n => m + 1 \in 1 .. n
    BY <1>5
  <2>. QED  BY <1>3, <1>5, <1>6, <2>1, <2>2
<1>. HIDE DEF memory, ints
<1>8. AsBool(at.file)
  BY NoWrites DEF memory
<1>. DEFINE Q == [i \in 0 .. n |-> AfterWrites(at, memory, m, i)]
<1>9. at \in Q[0]
  <2>1. 0 <= m /\ at.file.pos \in Nat /\ at.file.pos + 0 = at.file.pos
    BY <1>5, WorkFields
  <2>2. at \in AfterWrites(at, memory, m, 0)
    BY <1>8, <2>1 DEF AfterWrites, AsBool
  <2>. QED  BY <2>2
<1>10. \A i \in 0 .. n - 1 : \A x \in Q[i] : WriteTurn(x, memory) \in Q[i + 1]
  BY <1>1, <1>5, <1>7, AfterOneWrite
<1>11. written \in AfterWrites(at, memory, m, n)
  <2>. HIDE DEF Q
  <2>1. written \in Q[n]
    BY <1>9, <1>10, WriteLoopKeeps
  <2>. QED  BY <2>1 DEF Q
<1>12. /\ written.done = m
       /\ m # 0 => written.text = Overwritten(at.text, at.file.pos, Wrote(memory, m))
  <2>1. (IF n <= m THEN n ELSE m) = m
    BY <1>5
  <2>. HIDE DEF written
  <2>. QED  BY <1>11, <2>1 DEF AfterWrites
<1>13. m # 0
  BY <1>12 DEF memory
<1>14. Wrote(memory, m) = Wrote(list, m)
  <2>1. \A i \in 1 .. m : memory[i] = list[i]
    BY <1>3, <1>5
  <2>. QED  BY <2>1 DEF Wrote
<1>15. Len(Wrote(list, m)) = m
  <2>1. \A i \in 1 .. m : list[i] \in Int
    <3>. TAKE i \in 1 .. m
    <3>1. i \in 1 .. Len(list)
      BY <1>2, <1>5
    <3>2. list[i] \in Code \cup {NonInt}
      BY <1>2, <3>1, ElementOfSeq
    <3>. QED  BY <1>5, <3>2, Params
  <2>2. (m - 1) + 1 = m /\ m - 1 \in Nat
    BY <1>5, <1>13
  <2>. QED  BY <2>1, <2>2, WroteOneMore, ZenonT(40)
<1>. QED  BY <1>12, <1>13, <1>14, <1>15 DEF m, memory, written, ints

(* fread leaves no byte out and gives none twice, and fwrite writes the    *)
(* integers at the head of its list, whatever the file, the position, the  *)
(* list and the count: the loops of native_fread and native_fwrite.        *)
THEOREM StreamBytesExact == StreamSpec => BytesExact
<1>. DEFINE Exact ==
         io'.native \in {"fread", "fwrite"} /\ io'.result > 0 =>
           LET file == handles[io'.on]
               rest == SubSeq(files[file.path], file.pos + 1, Len(files[file.path]))
               ints == {k \in 0 .. io'.n : \A i \in 1 .. k : io'.list[i] # NonInt}
               wrote == [i \in 1 .. Max(ints) |-> Char(io'.list[i])]
           IN  IF io'.native = "fread"
                 THEN ~file.writes =>
                        /\ io'.items = SubSeq(rest \o <<EOF>>, 1, Min({io'.n, Len(rest) + 1}))
                        /\ io'.result = Len(io'.items)
                 ELSE file.writes /\ io'.n <= Len(io'.list) =>
                        /\ io'.result = Len(wrote)
                        /\ files'[file.path] = Overwritten(files[file.path], file.pos, wrote)
<1>1. ASSUME StreamInv, StreamNext PROVE Exact
  <2>1. ASSUME NEW s \in StreamIds, NEW n \in -1 .. MaxSize, Fread(s, n) PROVE Exact
    <3>1. CASE io'.native = "fread" /\ io'.result > 0
      <4>1. n >= 0 /\ streams[s].f # NoFile /\ s \in Streaming
            /\ io' = [native |-> "fread", result |-> ReadTurns(At(s), n).done,
                      items |-> ReadTurns(At(s), n).items, on |-> streams[s].f, n |-> n]
        BY <2>1, <3>1 DEF Fread, Answers
      <4>2. n \in Nat /\ io'.on = streams[s].f /\ io'.n = n
            /\ io'.items = ReadTurns(At(s), n).items
            /\ io'.result = ReadTurns(At(s), n).done
        BY <4>1
      <4>3. /\ At(s) \in Work /\ At(s).done = 0 /\ At(s).items = <<>>
            /\ At(s).file = handles[streams[s].f]
            /\ At(s).text = files[handles[streams[s].f].path]
        BY <1>1, <4>1, AtWork DEF At
      <4>4. ASSUME ~At(s).file.writes
            PROVE  LET rest == SubSeq(At(s).text, At(s).file.pos + 1, Len(At(s).text))
                       read == ReadTurns(At(s), n)
                   IN  /\ read.items = SubSeq(rest \o <<EOF>>, 1, Min({n, Len(rest) + 1}))
                       /\ read.done = Len(read.items)
        BY <3>1, <4>2, <4>3, <4>4, ReadsAre
      <4>. QED  BY <3>1, <4>2, <4>3, <4>4
    <3>2. io'.native = "fread"
      BY <2>1 DEF Fread, Answers
    <3>. QED  BY <3>1, <3>2
  <2>2. ASSUME NEW s \in StreamIds, NEW n \in -1 .. MaxSize, NEW list \in Lists,
               Fwrite(s, list, n)
        PROVE  Exact
    <3>1. CASE io'.native = "fwrite" /\ io'.result > 0
      <4>1. PICK behind \in [1 .. Max({n - Len(list), 0}) -> Code \cup {NonInt}] :
              /\ n >= 0 /\ streams[s].f # NoFile /\ s \in Streaming
              /\ Does(s, WriteTurns(At(s), list \o behind, n))
              /\ io' = [native |-> "fwrite",
                        result |-> WriteTurns(At(s), list \o behind, n).done,
                        list |-> list, on |-> streams[s].f, n |-> n]
        <5>1. ~(-1 > 0) /\ ~(0 > 0) /\ (n < 0 \/ n >= 0)
          BY Params
        <5>2. n >= 0 /\ streams[s].f # NoFile /\ s \in Streaming
          BY <2>2, <3>1, <5>1 DEF Fwrite, Answers
        <5>3. ~(n < 0) /\ ~(streams[s].f = NoFile)
          BY <5>2, Params
        <5>. QED  BY <2>2, <5>2, <5>3, Zenon DEF Fwrite
      <4>. DEFINE written == WriteTurns(At(s), list \o behind, n)
      <4>2. n \in Nat /\ io'.on = streams[s].f /\ io'.n = n /\ io'.list = list
            /\ io'.result = written.done
        BY <4>1
      <4>3. /\ At(s) \in Work /\ At(s).done = 0
            /\ At(s).file = handles[streams[s].f]
            /\ At(s).text = files[handles[streams[s].f].path]
        BY <1>1, <4>1, AtWork
      <4>4. files'[At(s).file.path] = written.text
        <5>1. list \o behind \in Seq(Code \cup {NonInt}) /\ n <= Len(list \o behind)
          BY <4>2, MemoryWork
        <5>2. written.file.path = At(s).file.path
          BY <4>2, <4>3, <5>1, WriteTurnsWork
        <5>3. At(s).file.path \in Path
          BY <4>3, WorkFields DEF File
        <5>. QED  BY <1>1, <4>1, <5>2, <5>3 DEF Does, StreamInv, StreamTypes
      <4>5. ASSUME At(s).file.writes, n <= Len(list)
            PROVE  LET ints == {k \in 0 .. n : \A i \in 1 .. k : list[i] # NonInt}
                       wrote == Wrote(list, Max(ints))
                   IN  /\ written.done = Len(wrote)
                       /\ written.text = Overwritten(At(s).text, At(s).file.pos, wrote)
        BY <3>1, <4>2, <4>3, <4>5, WritesAre, ZenonT(60)
      <4>. QED  BY <3>1, <4>2, <4>3, <4>4, <4>5, ZenonT(40) DEF Wrote
    <3>2. io'.native = "fwrite"
      BY <2>2 DEF Fwrite, Answers
    <3>. QED  BY <3>1, <3>2
  <2>3. CASE ~\E s \in StreamIds : \E n \in -1 .. MaxSize :
                 Fread(s, n) \/ \E list \in Lists : Fwrite(s, list, n)
    <3>1. io'.native \notin {"fread", "fwrite"}
      <4>1. ASSUME NEW path \in Path, NEW mode \in Modes, Fopen(path, mode)
            PROVE  io'.native = "fopen"
        BY <4>1 DEF Fopen
      <4>2. ASSUME NEW s \in StreamIds, Fclose(s) \/ CollectStream(s) \/ Fgetc(s)
            PROVE  io'.native = "none"
        BY <4>2 DEF Fclose, CollectStream, Fgetc, NoIO
      <4>3. ASSUME NEW s \in StreamIds, NEW n \in -1 .. MaxSize, Seek(s, n)
            PROVE  io'.native = "none"
        BY <4>3 DEF Seek, NoIO
      <4>4. ASSUME NEW s \in StreamIds, NEW code \in Code, Fputc(s, code)
            PROVE  io'.native = "fputc"
        BY <4>4 DEF Fputc, Answers
      <4>. QED  BY <1>1, <2>3, <4>1, <4>2, <4>3, <4>4 DEF StreamNext
    <3>. QED  BY <3>1
  <2>. QED  BY <2>1, <2>2, <2>3
<1>2. StreamInv /\ [StreamNext]_stream_vars => [Exact]_stream_vars
  BY <1>1
<1>. QED  BY <1>2, StreamInvariant, PTL DEF StreamSpec, BytesExact

-----------------------------------------------------------------------------
(* The loader                                                              *)

(* What a byte stands for.  The provers do not know the letters of the     *)
(* mark to be strings.                                                     *)
Cell == Int \cup STRING \cup {"T", "B", "C", "F"}

(* The bytes of b from position pos on are those of w.                     *)
Reads(b, pos, w) ==
    /\ pos + Len(w) <= Len(b)
    /\ \A j \in 1 .. Len(w) : b[pos + j] = w[j]

-----------------------------------------------------------------------------
(* Concatenation of parts                                                  *)

(* The parts joined one after another.                                     *)
Joins(f, parts, n) ==
    f = [i \in 1 .. n |-> IF i = 1 THEN parts[i] ELSE f[i - 1] \o parts[i]]

(* Such a function exists, however many parts there are.                   *)
LEMMA JoinsExist ==
    ASSUME NEW parts
    PROVE  \A n \in Nat : \E f : Joins(f, parts, n)
<1>. DEFINE Bad == {n \in Nat : ~\E f : Joins(f, parts, n)}
<1>. SUFFICES ASSUME Bad # {} PROVE FALSE
  OBVIOUS
<1>1. PICK n \in Bad : \A m \in Bad : n <= m
  <2>1. Bad \subseteq Nat
    OBVIOUS
  <2>. HIDE DEF Bad
  <2>. QED  BY <2>1, LeastNumber
<1>2. CASE n = 0
  <2>1. Joins([i \in 1 .. 0 |-> parts], parts, 0)
    BY DEF Joins
  <2>. QED  BY <1>2, <2>1
<1>3. CASE n # 0
  <2>1. n - 1 \in Nat /\ n \in Nat /\ ~(n <= n - 1)
    BY <1>3
  <2>2. PICK f : Joins(f, parts, n - 1)
    BY <1>1, <2>1
  <2>. DEFINE longer ==
                [i \in 1 .. n |->
                    IF i < n THEN f[i] ELSE IF n = 1 THEN parts[1] ELSE f[n - 1] \o parts[n]]
  <2>3. \A i \in 1 .. n :
            longer[i] = IF i = 1 THEN parts[i] ELSE longer[i - 1] \o parts[i]
    <3>. TAKE i \in 1 .. n
    <3>1. CASE i = n
      BY <1>3, <2>1, <2>2, <3>1 DEF Joins
    <3>2. CASE i # n
      <4>1. i \in 1 .. n - 1 /\ i < n /\ (i # 1 => i - 1 \in 1 .. n - 1 /\ i - 1 < n)
        BY <2>1, <3>2
      <4>2. f[i] = IF i = 1 THEN parts[i] ELSE f[i - 1] \o parts[i]
        BY <2>2, <4>1 DEF Joins
      <4>. QED  BY <4>1, <4>2
    <3>. QED  BY <3>1, <3>2
  <2>4. Joins(longer, parts, n)
    BY <2>3 DEF Joins
  <2>. QED  BY <2>4
<1>. QED  BY <1>2, <1>3

(* FlattenSeq is the last of them.                                         *)
LEMMA FlattenIsLast ==
    ASSUME NEW parts, Len(parts) \in Nat \ {0}
    PROVE  \E f : Joins(f, parts, Len(parts)) /\ FlattenSeq(parts) = f[Len(parts)]
<1>. DEFINE f == CHOOSE g :
        g = [i \in 1 .. Len(parts) |-> IF i = 1 THEN parts[i] ELSE g[i - 1] \o parts[i]]
<1>1. f = [i \in 1 .. Len(parts) |-> IF i = 1 THEN parts[i] ELSE f[i - 1] \o parts[i]]
  BY JoinsExist DEF Joins
<1>2. FlattenSeq(parts) = f[Len(parts)]
  BY DEF FlattenSeq
<1>. HIDE DEF f
<1>. QED  BY <1>1, <1>2 DEF Joins

(* Where each part ends.                                                   *)
Ends(ends, parts) ==
    /\ ends \in [0 .. Len(parts) -> Nat]
    /\ ends[0] = 0
    /\ \A i \in 1 .. Len(parts) : ends[i] = ends[i - 1] + Len(parts[i])

(* The parts of two texts, one behind the other.                           *)
LEMMA ReadsJoined ==
    ASSUME NEW a \in Seq(Cell), NEW b \in Seq(Cell), NEW w \in Seq(Cell), NEW pos \in Nat
    PROVE  /\ a \o b \in Seq(Cell) /\ Len(a \o b) = Len(a) + Len(b)
           /\ Reads(a, pos, w) => Reads(a \o b, pos, w)
           /\ Reads(b, pos, w) => Reads(a \o b, Len(a) + pos, w)
<1>1. /\ a \o b \in Seq(Cell) /\ Len(a \o b) = Len(a) + Len(b)
      /\ Len(a) \in Nat /\ Len(b) \in Nat /\ Len(w) \in Nat
      /\ \A i \in 1 .. Len(a) + Len(b) :
            (a \o b)[i] = IF i <= Len(a) THEN a[i] ELSE b[i - Len(a)]
  BY ConcatProperties, LenProperties
<1>. DEFINE c == a \o b
<1>. HIDE DEF c
<1>2. ASSUME Reads(a, pos, w) PROVE Reads(c, pos, w)
  BY <1>1, <1>2 DEF Reads, c
<1>3. ASSUME Reads(b, pos, w) PROVE Reads(c, Len(a) + pos, w)
  BY <1>1, <1>3 DEF Reads, c
<1>. QED  BY <1>1, <1>2, <1>3 DEF c
(* All the parts joined so far are texts.                                  *)
LEMMA JoinsAreTexts ==
    ASSUME NEW parts \in Seq(Seq(Cell)), NEW f, Joins(f, parts, Len(parts))
    PROVE  \A i \in 1 .. Len(parts) : f[i] \in Seq(Cell)
<1>. DEFINE n == Len(parts)
            Bad == {i \in 1 .. n : f[i] \notin Seq(Cell)}
<1>0. n \in Nat /\ \A i \in 1 .. n : parts[i] \in Seq(Cell)
  BY LenProperties, ElementOfSeq
<1>. SUFFICES ASSUME Bad # {} PROVE FALSE
  OBVIOUS
<1>1. PICK i \in Bad : \A m \in Bad : i <= m
  <2>1. Bad \subseteq Nat
    BY <1>0
  <2>. HIDE DEF Bad
  <2>. QED  BY <2>1, LeastNumber
<1>2. i \in 1 .. n /\ f[i] \notin Seq(Cell) /\ i \in Nat
  BY <1>0, <1>1
<1>3. f[i] = IF i = 1 THEN parts[i] ELSE f[i - 1] \o parts[i]
  BY <1>2 DEF Joins
<1>4. i # 1
  BY <1>0, <1>2, <1>3
<1>5. i - 1 \in 1 .. n /\ ~(i <= i - 1)
  BY <1>0, <1>2, <1>4
<1>6. f[i - 1] \in Seq(Cell)
  BY <1>1, <1>5
<1>. QED  BY <1>0, <1>2, <1>3, <1>4, <1>6, ConcatProperties

(* Parts have ends.                                                        *)
LEMMA EndsExist ==
    ASSUME NEW parts \in Seq(Seq(Cell))
    PROVE  \E ends : Ends(ends, parts)
<1>0. Len(parts) \in Nat /\ \A i \in 1 .. Len(parts) : parts[i] \in Seq(Cell) /\ Len(parts[i]) \in Nat
  BY LenProperties, ElementOfSeq
<1>1. CASE Len(parts) = 0
  <2>1. Ends([i \in 0 .. 0 |-> 0], parts)
    BY <1>1 DEF Ends
  <2>. QED  BY <2>1
<1>2. CASE Len(parts) # 0
  <2>1. PICK f : Joins(f, parts, Len(parts))
    BY <1>0, JoinsExist
  <2>2. \A i \in 1 .. Len(parts) : f[i] \in Seq(Cell) /\ Len(f[i]) \in Nat
    BY <2>1, JoinsAreTexts, LenProperties
  <2>. DEFINE ends == [i \in 0 .. Len(parts) |-> IF i = 0 THEN 0 ELSE Len(f[i])]
  <2>3. ends \in [0 .. Len(parts) -> Nat] /\ ends[0] = 0
    BY <1>0, <2>2
  <2>4. ASSUME NEW i \in 1 .. Len(parts) PROVE ends[i] = ends[i - 1] + Len(parts[i])
    <3>1. f[i] = IF i = 1 THEN parts[i] ELSE f[i - 1] \o parts[i]
      BY <2>1 DEF Joins
    <3>2. i \in 0 .. Len(parts) /\ i - 1 \in 0 .. Len(parts) /\ i # 0 /\ i \in Nat
      BY <1>0
    <3>3. CASE i = 1
      BY <1>0, <3>1, <3>2, <3>3
    <3>4. CASE i # 1
      <4>1. i - 1 \in 1 .. Len(parts) /\ i - 1 # 0
        BY <3>2, <3>4
      <4>2. Len(f[i]) = Len(f[i - 1]) + Len(parts[i])
        BY <1>0, <2>2, <3>1, <3>4, <4>1, ConcatProperties
      <4>. QED  BY <3>2, <4>1, <4>2
    <3>. QED  BY <3>3, <3>4
  <2>5. Ends(ends, parts)
    BY <2>3, <2>4 DEF Ends
  <2>. QED  BY <2>5
<1>. QED  BY <1>1, <1>2

(* Each part is read where the one before it ends.                         *)
LEMMA FlattenReads ==
    ASSUME NEW parts \in Seq(Seq(Cell)), NEW ends, Ends(ends, parts)
    PROVE  /\ FlattenSeq(parts) \in Seq(Cell)
           /\ Len(FlattenSeq(parts)) = ends[Len(parts)]
           /\ \A i \in 1 .. Len(parts) : Reads(FlattenSeq(parts), ends[i - 1], parts[i])
<1>. DEFINE n == Len(parts)
<1>0. n \in Nat /\ \A i \in 1 .. n : parts[i] \in Seq(Cell) /\ Len(parts[i]) \in Nat
  BY LenProperties, ElementOfSeq
<1>1. CASE n = 0
  <2>1. FlattenSeq(parts) = parts /\ parts = <<>>
    BY <1>1, EmptySeq DEF FlattenSeq
  <2>. QED  BY <1>1, <2>1 DEF Ends
<1>2. CASE n # 0
  <2>1. PICK f : Joins(f, parts, n) /\ FlattenSeq(parts) = f[n]
    BY <1>0, <1>2, FlattenIsLast
  <2>2. \A i \in 1 .. n : f[i] \in Seq(Cell) /\ Len(f[i]) \in Nat
    BY <2>1, JoinsAreTexts, LenProperties
  <2>. DEFINE Good(i) == /\ Len(f[i]) = ends[i]
                         /\ \A k \in 1 .. i : Reads(f[i], ends[k - 1], parts[k])
              Bad == {i \in 1 .. n : ~Good(i)}
  <2>3. Bad = {}
    <3>. SUFFICES ASSUME Bad # {} PROVE FALSE
      OBVIOUS
    <3>1. PICK i \in Bad : \A m \in Bad : i <= m
      <4>1. Bad \subseteq Nat
        BY <1>0
      <4>. HIDE DEF Bad
      <4>. QED  BY <4>1, LeastNumber
    <3>2. i \in 1 .. n /\ ~Good(i) /\ i \in Nat
      BY <1>0, <3>1
    <3>3. f[i] = IF i = 1 THEN parts[i] ELSE f[i - 1] \o parts[i]
      BY <2>1, <3>2 DEF Joins
    <3>4. ends[i] = ends[i - 1] + Len(parts[i]) /\ ends[0] = 0
      BY <3>2 DEF Ends
    <3>5. CASE i = 1
      <4>1. Len(f[1]) = ends[1] /\ f[1] = parts[1]
        BY <1>0, <3>2, <3>3, <3>4, <3>5
      <4>2. Reads(f[1], ends[0], parts[1])
        BY <1>0, <3>2, <3>4, <3>5, <4>1 DEF Reads
      <4>3. \A k \in 1 .. 1 : k = 1 /\ k - 1 = 0
        OBVIOUS
      <4>. QED  BY <3>2, <3>5, <4>1, <4>2, <4>3
    <3>6. CASE i # 1
      <4>1. i - 1 \in 1 .. n /\ ~(i <= i - 1)
        BY <1>0, <3>2, <3>6
      <4>2. /\ Len(f[i - 1]) = ends[i - 1]
            /\ \A k \in 1 .. i - 1 : Reads(f[i - 1], ends[k - 1], parts[k])
        <5>. HIDE DEF Good
        <5>1. Good(i - 1)
          BY <3>1, <4>1
        <5>. QED  BY <5>1 DEF Good
      <4>3. f[i - 1] \in Seq(Cell) /\ parts[i] \in Seq(Cell)
        BY <1>0, <2>2, <3>2, <4>1
      <4>4. f[i] = f[i - 1] \o parts[i] /\ Len(f[i]) = ends[i]
        <5>1. Len(f[i - 1] \o parts[i]) = Len(f[i - 1]) + Len(parts[i])
          BY <4>3, ConcatProperties
        <5>. QED  BY <3>3, <3>4, <3>6, <4>2, <5>1
      <4>5. ASSUME NEW k \in 1 .. i - 1 PROVE Reads(f[i], ends[k - 1], parts[k])
        <5>1. Reads(f[i - 1], ends[k - 1], parts[k])
          BY <4>2
        <5>2. k - 1 \in 0 .. n /\ k \in 1 .. n
          BY <1>0, <3>2
        <5>3. ends[k - 1] \in Nat /\ parts[k] \in Seq(Cell)
          BY <1>0, <5>2 DEF Ends
        <5>4. Reads(f[i - 1] \o parts[i], ends[k - 1], parts[k])
          BY <4>3, <5>1, <5>3, ReadsJoined, Zenon
        <5>. QED  BY <4>4, <5>4
      <4>6. Reads(f[i], ends[i - 1], parts[i])
        <5>1. Reads(parts[i], 0, parts[i])
          BY <1>0, <3>2 DEF Reads
        <5>2. Reads(f[i - 1] \o parts[i], Len(f[i - 1]) + 0, parts[i])
          <6>1. 0 \in Nat
            OBVIOUS
          <6>. QED  BY <4>3, <5>1, <6>1, ReadsJoined, Zenon
        <5>3. Len(f[i - 1]) + 0 = ends[i - 1]
          BY <2>2, <4>1, <4>2
        <5>. QED  BY <4>4, <5>2, <5>3
      <4>7. \A k \in 1 .. i : k \in 1 .. i - 1 \/ k = i
        BY <3>2
      <4>. QED  BY <3>2, <4>4, <4>5, <4>6, <4>7
    <3>. QED  BY <3>5, <3>6
  <2>4. Good(n)
    <3>1. n \in 1 .. n
      BY <1>0, <1>2
    <3>. HIDE DEF Good, n
    <3>. QED  BY <2>3, <3>1
  <2>. QED  BY <1>0, <1>2, <2>1, <2>2, <2>4
<1>. QED  BY <1>1, <1>2
-----------------------------------------------------------------------------
(* The sections of an image                                                *)

(* Every byte of a number.                                                 *)
LEMMA WideIs ==
    ASSUME NEW width \in Nat, NEW n \in Cell
    PROVE  /\ Wide(width, n) \in Seq(Cell) /\ Len(Wide(width, n)) = width
           /\ \A i \in 1 .. width : Wide(width, n)[i] = n
  BY DEF Wide

(* The cells of two texts, one behind the other.                           *)
LEMMA JoinIs ==
    ASSUME NEW a \in Seq(Cell), NEW b \in Seq(Cell)
    PROVE  /\ a \o b \in Seq(Cell) /\ Len(a \o b) = Len(a) + Len(b)
           /\ Len(a) \in Nat /\ Len(b) \in Nat
           /\ \A i \in 1 .. Len(a) : (a \o b)[i] = a[i]
           /\ \A i \in 1 .. Len(b) : (a \o b)[Len(a) + i] = b[i]
<1>1. /\ a \o b \in Seq(Cell) /\ Len(a \o b) = Len(a) + Len(b)
      /\ Len(a) \in Nat /\ Len(b) \in Nat
      /\ \A i \in 1 .. Len(a) + Len(b) :
            (a \o b)[i] = IF i <= Len(a) THEN a[i] ELSE b[i - Len(a)]
  BY ConcatProperties, LenProperties
<1>. DEFINE c == a \o b
<1>. HIDE DEF c
<1>2. ASSUME NEW i \in 1 .. Len(a) PROVE c[i] = a[i]
  BY <1>1 DEF c
<1>3. ASSUME NEW i \in 1 .. Len(b) PROVE c[Len(a) + i] = b[i]
  BY <1>1 DEF c
<1>. QED  BY <1>1, <1>2, <1>3 DEF c

(* The bytes of an instruction.                                            *)
LEMMA InsBytesIs ==
    ASSUME NEW ins \in Instruction
    PROVE  /\ InsBytes(ins) \in Seq(Cell) /\ Len(InsBytes(ins)) = 4
           /\ InsBytes(ins)[1] = ins.op /\ InsBytes(ins)[2] = ins.flag
           /\ InsBytes(ins)[3] = ins.wide
<1>1. ins.op \in Cell /\ ins.flag \in Cell /\ ins.wide \in Cell
  BY DEF Instruction, Cell
<1>. DEFINE head == <<ins.op, ins.flag>>
            tail == Wide(2, ins.wide)
<1>2. head \in Seq(Cell) /\ Len(head) = 2 /\ head[1] = ins.op /\ head[2] = ins.flag
  BY <1>1
<1>3. tail \in Seq(Cell) /\ Len(tail) = 2 /\ tail[1] = ins.wide
  <2>1. 2 \in Nat /\ 1 \in 1 .. 2
    OBVIOUS
  <2>. QED  BY <1>1, <2>1, WideIs, Zenon
<1>4. InsBytes(ins) = head \o tail
  BY DEF InsBytes
<1>. HIDE DEF head, tail
<1>5. /\ head \o tail \in Seq(Cell) /\ Len(head \o tail) = Len(head) + Len(tail)
      /\ \A i \in 1 .. Len(head) : (head \o tail)[i] = head[i]
      /\ \A i \in 1 .. Len(tail) : (head \o tail)[Len(head) + i] = tail[i]
  BY <1>2, <1>3, JoinIs, Zenon
<1>6. 1 \in 1 .. Len(head) /\ 2 \in 1 .. Len(head) /\ 1 \in 1 .. Len(tail)
      /\ Len(head) + 1 = 3 /\ Len(head) + Len(tail) = 4
  BY <1>2, <1>3
<1>7. /\ (head \o tail)[1] = head[1] /\ (head \o tail)[2] = head[2]
      /\ (head \o tail)[Len(head) + 1] = tail[1]
  BY <1>5, <1>6, Zenon
<1>. QED  BY <1>2, <1>3, <1>4, <1>5, <1>6, <1>7, Zenon

(* The bytes of a constant.                                                *)
LEMMA ValueBytesIs ==
    ASSUME NEW v \in Constant_
    PROVE  /\ ValueBytes(v) \in Seq(Cell) /\ Len(ValueBytes(v)) = 5
           /\ ValueBytes(v)[1] = v.tag /\ ValueBytes(v)[2] = v.n
<1>1. v.tag \in Cell /\ v.n \in Cell
  BY DEF Constant_, Cell
<1>. DEFINE head == <<v.tag>>
            tail == Wide(4, v.n)
<1>2. head \in Seq(Cell) /\ Len(head) = 1 /\ head[1] = v.tag
  BY <1>1
<1>3. tail \in Seq(Cell) /\ Len(tail) = 4 /\ tail[1] = v.n
  <2>1. 4 \in Nat /\ 1 \in 1 .. 4
    OBVIOUS
  <2>. QED  BY <1>1, <2>1, WideIs, Zenon
<1>4. ValueBytes(v) = head \o tail
  BY DEF ValueBytes
<1>. HIDE DEF head, tail
<1>5. /\ head \o tail \in Seq(Cell) /\ Len(head \o tail) = Len(head) + Len(tail)
      /\ \A i \in 1 .. Len(head) : (head \o tail)[i] = head[i]
      /\ \A i \in 1 .. Len(tail) : (head \o tail)[Len(head) + i] = tail[i]
  BY <1>2, <1>3, JoinIs, Zenon
<1>6. 1 \in 1 .. Len(head) /\ 1 \in 1 .. Len(tail)
      /\ Len(head) + 1 = 2 /\ Len(head) + Len(tail) = 5
  BY <1>2, <1>3
<1>7. (head \o tail)[1] = head[1] /\ (head \o tail)[Len(head) + 1] = tail[1]
  BY <1>5, <1>6, Zenon
<1>. QED  BY <1>2, <1>3, <1>4, <1>5, <1>6, <1>7, Zenon

(* The bytes of a string.                                                  *)
LEMMA StringBytesIs ==
    ASSUME NEW s \in Seq(STRING)
    PROVE  /\ StringBytes(s) \in Seq(Cell) /\ Len(s) \in Nat
           /\ Len(StringBytes(s)) = 4 + Len(s)
           /\ StringBytes(s)[1] = Len(s)
           /\ \A i \in 1 .. Len(s) : StringBytes(s)[4 + i] = s[i]
<1>. DEFINE head == Wide(4, Len(s))
<1>1. Len(s) \in Nat /\ Len(s) \in Cell /\ s \in Seq(Cell)
  BY LenProperties DEF Cell
<1>2. head \in Seq(Cell) /\ Len(head) = 4 /\ head[1] = Len(s)
  <2>1. 4 \in Nat /\ 1 \in 1 .. 4
    OBVIOUS
  <2>. QED  BY <1>1, <2>1, WideIs, Zenon
<1>3. StringBytes(s) = head \o s
  BY DEF StringBytes
<1>. HIDE DEF head
<1>4. /\ head \o s \in Seq(Cell) /\ Len(head \o s) = Len(head) + Len(s)
      /\ \A i \in 1 .. Len(head) : (head \o s)[i] = head[i]
      /\ \A i \in 1 .. Len(s) : (head \o s)[Len(head) + i] = s[i]
  BY <1>1, <1>2, JoinIs, Zenon
<1>5. 1 \in 1 .. Len(head)
  BY <1>2
<1>6. (head \o s)[1] = head[1]
  BY <1>4, <1>5, Zenon
<1>. QED  BY <1>1, <1>2, <1>3, <1>4, <1>6, Zenon

(* Parts of one length.                                                    *)
LEMMA FlattenEven ==
    ASSUME NEW parts \in Seq(Seq(Cell)), NEW size \in {4, 5},
           \A i \in 1 .. Len(parts) : Len(parts[i]) = size
    PROVE  /\ FlattenSeq(parts) \in Seq(Cell)
           /\ Len(FlattenSeq(parts)) = size * Len(parts)
           /\ \A i \in 1 .. Len(parts) :
                 Reads(FlattenSeq(parts), size * i - size, parts[i])
<1>. DEFINE ends == [i \in 0 .. Len(parts) |-> size * i]
<1>0. Len(parts) \in Nat
  BY LenProperties
<1>1. Ends(ends, parts)
  <2>1. size \in Nat /\ (size = 4 \/ size = 5)
    OBVIOUS
  <2>2. ASSUME NEW i \in 0 .. Len(parts) PROVE size * i \in Nat
    BY <1>0, <2>1
  <2>3. ends \in [0 .. Len(parts) -> Nat]
    BY <2>2
  <2>4. ends[0] = 0
    BY <1>0, <2>1
  <2>5. ASSUME NEW i \in 1 .. Len(parts) PROVE ends[i] = ends[i - 1] + Len(parts[i])
    <3>1. i \in 0 .. Len(parts) /\ i - 1 \in 0 .. Len(parts) /\ i \in Nat
      BY <1>0
    <3>2. ends[i] = size * i /\ ends[i - 1] = size * (i - 1)
      BY <3>1
    <3>3. size * i = size * (i - 1) + size
      BY <2>1, <3>1
    <3>4. Len(parts[i]) = size
      OBVIOUS
    <3>. QED  BY <3>2, <3>3, <3>4
  <2>. HIDE DEF ends
  <2>. QED  BY <2>3, <2>4, <2>5 DEF Ends
<1>2. ends[Len(parts)] = size * Len(parts)
  BY <1>0
<1>3. ASSUME NEW i \in 1 .. Len(parts) PROVE ends[i - 1] = size * i - size
  <2>1. i - 1 \in 0 .. Len(parts) /\ i \in Nat
    BY <1>0
  <2>2. CASE size = 4
    BY <2>1, <2>2
  <2>3. CASE size = 5
    BY <2>1, <2>3
  <2>. QED  BY <2>2, <2>3
<1>. HIDE DEF ends
<1>4. /\ FlattenSeq(parts) \in Seq(Cell)
      /\ Len(FlattenSeq(parts)) = ends[Len(parts)]
      /\ \A i \in 1 .. Len(parts) : Reads(FlattenSeq(parts), ends[i - 1], parts[i])
  BY <1>1, FlattenReads, Zenon
<1>. QED  BY <1>2, <1>3, <1>4

(* The parts of a chunk, and of an image.                                  *)
CodeParts(c) == [i \in DOMAIN c.code |-> InsBytes(c.code[i])]
ConstantParts(c) == [i \in DOMAIN c.constants |-> ValueBytes(c.constants[i])]
StringParts(image) == [i \in DOMAIN image.strings |-> StringBytes(image.strings[i])]
ChunkParts(image) == [i \in DOMAIN image.chunks |-> ChunkBytes(image.chunks[i])]

(* Parts that are bytes are as many as the items they are of.              *)
LEMMA PartsOf ==
    ASSUME NEW S, NEW s \in Seq(S), NEW parts, parts = [i \in DOMAIN s |-> parts[i]],
           \A i \in 1 .. Len(s) : parts[i] \in Seq(Cell)
    PROVE  parts \in Seq(Seq(Cell)) /\ Len(parts) = Len(s) /\ Len(s) \in Nat
<1>1. DOMAIN s = 1 .. Len(s) /\ Len(s) \in Nat
  BY LenProperties
<1>2. [i \in 1 .. Len(s) |-> parts[i]] \in Seq(Seq(Cell))
  BY <1>1
<1>3. parts = [i \in 1 .. Len(s) |-> parts[i]]
  BY <1>1
<1>4. DOMAIN parts = 1 .. Len(s)
  BY <1>3
<1>5. parts \in Seq(Seq(Cell))
  BY <1>2, <1>3
<1>. HIDE DEF Cell
<1>. QED  BY <1>1, <1>4, <1>5, LenProperties

(* The fields of a chunk.                                                  *)
LEMMA ChunkFields ==
    ASSUME NEW c \in Chunk
    PROVE  /\ c.code \in Seq(Instruction) /\ Len(c.code) \in Nat /\ Len(c.code) # 0
           /\ c.constants \in Seq(Constant_) /\ Len(c.constants) \in Nat
           /\ \A i \in 1 .. Len(c.code) : c.code[i] \in Instruction
           /\ \A i \in 1 .. Len(c.constants) : c.constants[i] \in Constant_
<1>1. /\ c.code \in Seq(Instruction) /\ c.code # <<>>
      /\ c.constants \in Seq(Constant_)
  BY DEF Chunk
<1>2. Len(c.code) # 0
  BY <1>1, EmptySeq
<1>. QED  BY <1>1, <1>2, LenProperties, ElementOfSeq

(* The bytes of a chunk: each length, each instruction and each constant   *)
(* is where EatChunk reads it.                                             *)
LEMMA ChunkBytesIs ==
    ASSUME NEW c \in Chunk
    PROVE  LET bytes == ChunkBytes(c)
               count == 8 + 4 * Len(c.code)
           IN  /\ bytes \in Seq(Cell)
               /\ Len(bytes) = count + 8 + 5 * Len(c.constants)
               /\ Reads(bytes, 0, Wide(8, Len(c.code)))
               /\ \A i \in 1 .. Len(c.code) : Reads(bytes, 8 + (4 * i - 4), InsBytes(c.code[i]))
               /\ Reads(bytes, count, Wide(8, Len(c.constants)))
               /\ \A i \in 1 .. Len(c.constants) :
                     Reads(bytes, count + 8 + (5 * i - 5), ValueBytes(c.constants[i]))
<1>. DEFINE lc == Len(c.code)
            lk == Len(c.constants)
            a == Wide(8, lc)
            b == FlattenSeq(CodeParts(c))
            d == Wide(8, lk)
            e == FlattenSeq(ConstantParts(c))
            ab == a \o b
            abd == ab \o d
<1>1. lc \in Nat /\ lk \in Nat /\ lc \in Cell /\ lk \in Cell
  BY ChunkFields DEF Cell
<1>2. a \in Seq(Cell) /\ Len(a) = 8 /\ d \in Seq(Cell) /\ Len(d) = 8
  BY <1>1, WideIs
<1>3. /\ b \in Seq(Cell) /\ Len(b) = 4 * lc
      /\ \A i \in 1 .. lc : Reads(b, 4 * i - 4, InsBytes(c.code[i]))
  <2>. DEFINE parts == CodeParts(c)
  <2>1. \A i \in 1 .. lc : /\ parts[i] = InsBytes(c.code[i])
                           /\ parts[i] \in Seq(Cell) /\ Len(parts[i]) = 4
    BY ChunkFields, InsBytesIs, LenProperties DEF CodeParts
  <2>2. parts \in Seq(Seq(Cell)) /\ Len(parts) = lc
    BY <2>1, ChunkFields, PartsOf DEF CodeParts
  <2>. HIDE DEF parts
  <2>3. /\ FlattenSeq(parts) \in Seq(Cell)
        /\ Len(FlattenSeq(parts)) = 4 * Len(parts)
        /\ \A i \in 1 .. Len(parts) : Reads(FlattenSeq(parts), 4 * i - 4, parts[i])
    BY <2>1, <2>2, FlattenEven
  <2>. QED  BY <2>1, <2>2, <2>3 DEF parts
<1>4. /\ e \in Seq(Cell) /\ Len(e) = 5 * lk
      /\ \A i \in 1 .. lk : Reads(e, 5 * i - 5, ValueBytes(c.constants[i]))
  <2>. DEFINE parts == ConstantParts(c)
  <2>1. \A i \in 1 .. lk : /\ parts[i] = ValueBytes(c.constants[i])
                           /\ parts[i] \in Seq(Cell) /\ Len(parts[i]) = 5
    BY ChunkFields, ValueBytesIs, LenProperties DEF ConstantParts
  <2>2. parts \in Seq(Seq(Cell)) /\ Len(parts) = lk
    BY <2>1, ChunkFields, PartsOf DEF ConstantParts
  <2>. HIDE DEF parts
  <2>3. /\ FlattenSeq(parts) \in Seq(Cell)
        /\ Len(FlattenSeq(parts)) = 5 * Len(parts)
        /\ \A i \in 1 .. Len(parts) : Reads(FlattenSeq(parts), 5 * i - 5, parts[i])
    BY <2>1, <2>2, FlattenEven
  <2>. QED  BY <2>1, <2>2, <2>3 DEF parts
<1>5. ChunkBytes(c) = abd \o e
  BY DEF ChunkBytes, CodeParts, ConstantParts
<1>. HIDE DEF a, b, d, e
<1>6. /\ ab \in Seq(Cell) /\ Len(ab) = 8 + 4 * lc
      /\ abd \in Seq(Cell) /\ Len(abd) = 8 + 4 * lc + 8
      /\ abd \o e \in Seq(Cell) /\ Len(abd \o e) = 8 + 4 * lc + 8 + 5 * lk
  <2>1. ab \in Seq(Cell) /\ Len(ab) = Len(a) + Len(b)
    BY <1>2, <1>3, ConcatProperties
  <2>. HIDE DEF ab
  <2>2. abd \in Seq(Cell) /\ Len(abd) = Len(ab) + Len(d)
    BY <1>2, <2>1, ConcatProperties
  <2>. HIDE DEF abd
  <2>3. abd \o e \in Seq(Cell) /\ Len(abd \o e) = Len(abd) + Len(e)
    BY <1>4, <2>2, ConcatProperties
  <2>. QED  BY <1>1, <1>2, <1>3, <1>4, <2>1, <2>2, <2>3
<1>7. ASSUME NEW w \in Seq(Cell), NEW pos \in Nat
      PROVE  /\ Reads(a, pos, w) => Reads(abd \o e, pos, w)
             /\ Reads(b, pos, w) => Reads(abd \o e, 8 + pos, w)
             /\ Reads(d, pos, w) => Reads(abd \o e, 8 + 4 * lc + pos, w)
             /\ Reads(e, pos, w) => Reads(abd \o e, 8 + 4 * lc + 8 + pos, w)
  <2>. DEFINE q == 8 + pos
              r == 8 + 4 * lc + pos
  <2>0. q \in Nat /\ r \in Nat /\ q = Len(a) + pos /\ r = Len(ab) + pos
    BY <1>1, <1>2, <1>6
  <2>1. ASSUME NEW p \in Nat, Reads(ab, p, w) PROVE Reads(abd \o e, p, w)
    <3>. HIDE DEF ab
    <3>1. Reads(abd, p, w)
      BY <1>2, <1>6, <2>1, ReadsJoined, Zenon
    <3>. QED  BY <1>4, <1>6, <3>1, ReadsJoined, Zenon
  <2>. HIDE DEF q, r
  <2>2. ASSUME Reads(a, pos, w) PROVE Reads(abd \o e, pos, w)
    <3>1. Reads(ab, pos, w)
      BY <1>2, <1>3, <2>2, ReadsJoined, Zenon
    <3>. QED  BY <2>1, <3>1, Zenon
  <2>3. ASSUME Reads(b, pos, w) PROVE Reads(abd \o e, q, w)
    <3>1. Reads(ab, Len(a) + pos, w)
      BY <1>2, <1>3, <2>3, ReadsJoined, Zenon
    <3>2. Reads(ab, q, w)
      BY <2>0, <3>1, Zenon
    <3>. QED  BY <2>0, <2>1, <3>2, Zenon
  <2>4. ASSUME Reads(d, pos, w) PROVE Reads(abd \o e, r, w)
    <3>. HIDE DEF ab
    <3>1. Reads(abd, Len(ab) + pos, w)
      BY <1>2, <1>6, <2>4, ReadsJoined, Zenon
    <3>2. Reads(abd, r, w)
      BY <2>0, <3>1, Zenon
    <3>. QED  BY <1>4, <1>6, <2>0, <3>2, ReadsJoined, Zenon
  <2>5. ASSUME Reads(e, pos, w) PROVE Reads(abd \o e, Len(abd) + pos, w)
    <3>. HIDE DEF abd
    <3>. QED  BY <1>4, <1>6, <2>5, ReadsJoined, Zenon
  <2>6. Len(abd) + pos = 8 + 4 * lc + 8 + pos
    BY <1>6
  <2>. QED  BY <2>2, <2>3, <2>4, <2>5, <2>6 DEF q, r
<1>. DEFINE bytes == abd \o e
<1>. HIDE DEF ab, abd, bytes
<1>8. Reads(bytes, 0, a) /\ Reads(bytes, 8 + 4 * lc, d)
  <2>1. Reads(a, 0, a) /\ Reads(d, 0, d)
    BY <1>2 DEF Reads
  <2>2. 8 + 4 * lc + 0 = 8 + 4 * lc /\ 0 \in Nat
    BY <1>1
  <2>3. Reads(bytes, 0, a) /\ Reads(bytes, 8 + 4 * lc + 0, d)
    BY <1>2, <1>7, <2>1, <2>2 DEF bytes
  <2>. QED  BY <2>2, <2>3
<1>9. ASSUME NEW i \in 1 .. lc PROVE Reads(bytes, 8 + (4 * i - 4), InsBytes(c.code[i]))
  <2>1. 4 * i - 4 \in Nat /\ InsBytes(c.code[i]) \in Seq(Cell)
    BY <1>1, ChunkFields, InsBytesIs
  <2>. QED  BY <1>3, <1>7, <2>1 DEF bytes
<1>10. ASSUME NEW i \in 1 .. lk
       PROVE  Reads(bytes, 8 + 4 * lc + 8 + (5 * i - 5), ValueBytes(c.constants[i]))
  <2>1. 5 * i - 5 \in Nat /\ ValueBytes(c.constants[i]) \in Seq(Cell)
    BY <1>1, ChunkFields, ValueBytesIs
  <2>. QED  BY <1>4, <1>7, <2>1 DEF bytes
<1>. QED  BY <1>5, <1>6, <1>8, <1>9, <1>10 DEF bytes, a, d
(* The strings' ends and the chunks' ends, and where the loader is after i *)
(* strings and after j chunks.                                             *)
StringEnds(image) == CHOOSE ends : Ends(ends, StringParts(image))
ChunkEnds(image) == CHOOSE ends : Ends(ends, ChunkParts(image))
StringPos(image, i) == 8 + StringEnds(image)[i]
ChunkPos(image, j) == StringPos(image, Len(image.strings)) + 4 + ChunkEnds(image)[j]

(* What an image is made of.                                               *)
LEMMA ImageFields ==
    ASSUME NEW image \in Program
    PROVE  /\ image.entry_id \in Nat
           /\ Len(image.strings) \in Nat /\ Len(image.chunks) \in Nat
           /\ DOMAIN image.strings = 1 .. Len(image.strings)
           /\ DOMAIN image.chunks = 1 .. Len(image.chunks)
           /\ image.strings \in Seq(Seq(STRING)) /\ image.chunks \in Seq(Chunk)
           /\ \A i \in 1 .. Len(image.strings) :
                 /\ image.strings[i] \in Seq(STRING)
                 /\ Len(image.strings[i]) \in Nat /\ Len(image.strings[i]) # 0
           /\ \A j \in 1 .. Len(image.chunks) : image.chunks[j] \in Chunk
<1>1. /\ image.entry_id \in Nat /\ image.strings \in Seq(Seq(STRING) \ {<<>>})
      /\ image.chunks \in Seq(Chunk)
  BY DEF Program
<1>2. /\ Len(image.strings) \in Nat /\ Len(image.chunks) \in Nat
      /\ DOMAIN image.strings = 1 .. Len(image.strings)
      /\ DOMAIN image.chunks = 1 .. Len(image.chunks)
      /\ \A i \in 1 .. Len(image.strings) : image.strings[i] \in Seq(STRING) \ {<<>>}
      /\ \A j \in 1 .. Len(image.chunks) : image.chunks[j] \in Chunk
  BY <1>1, LenProperties, ElementOfSeq
<1>3. ASSUME NEW i \in 1 .. Len(image.strings)
      PROVE  /\ image.strings[i] \in Seq(STRING)
             /\ Len(image.strings[i]) \in Nat /\ Len(image.strings[i]) # 0
  BY <1>2, LenProperties, EmptySeq
<1>4. image.strings \in Seq(Seq(STRING))
  BY <1>1, <1>2, <1>3
<1>. QED  BY <1>1, <1>2, <1>3, <1>4

(* The bytes of the strings, and of the chunks, are where the loader gets. *)
LEMMA PartsAre ==
    ASSUME NEW image \in Program
    PROVE  /\ StringParts(image) \in Seq(Seq(Cell))
           /\ Len(StringParts(image)) = Len(image.strings)
           /\ Ends(StringEnds(image), StringParts(image))
           /\ \A i \in 1 .. Len(image.strings) :
                 StringParts(image)[i] = StringBytes(image.strings[i])
           /\ ChunkParts(image) \in Seq(Seq(Cell))
           /\ Len(ChunkParts(image)) = Len(image.chunks)
           /\ Ends(ChunkEnds(image), ChunkParts(image))
           /\ \A j \in 1 .. Len(image.chunks) :
                 ChunkParts(image)[j] = ChunkBytes(image.chunks[j])
<1>. DEFINE sp == StringParts(image)
            cp == ChunkParts(image)
<1>1. \A i \in 1 .. Len(image.strings) :
         sp[i] = StringBytes(image.strings[i]) /\ sp[i] \in Seq(Cell)
  BY ImageFields, StringBytesIs DEF StringParts
<1>2. \A j \in 1 .. Len(image.chunks) :
         cp[j] = ChunkBytes(image.chunks[j]) /\ cp[j] \in Seq(Cell)
  BY ImageFields, ChunkBytesIs DEF ChunkParts
<1>3. sp = [i \in DOMAIN image.strings |-> sp[i]]
  BY DEF StringParts
<1>4. cp = [j \in DOMAIN image.chunks |-> cp[j]]
  BY DEF ChunkParts
<1>. HIDE DEF sp, cp
<1>5. sp \in Seq(Seq(Cell)) /\ Len(sp) = Len(image.strings)
  BY <1>1, <1>3, ImageFields, PartsOf
<1>6. cp \in Seq(Seq(Cell)) /\ Len(cp) = Len(image.chunks)
  BY <1>2, <1>4, ImageFields, PartsOf
<1>7. Ends(StringEnds(image), sp) /\ Ends(ChunkEnds(image), cp)
  BY <1>5, <1>6, EndsExist DEF StringEnds, ChunkEnds, sp, cp
<1>. QED  BY <1>1, <1>2, <1>5, <1>6, <1>7 DEF sp, cp

(* What a shows from some position on, b shows off bytes later.            *)
Shows(a, b, off) ==
    \A w \in Seq(Cell), pos \in Nat : Reads(a, pos, w) => Reads(b, off + pos, w)

(* Both of two texts show in their concatenation, and so does what shows   *)
(* in the first.                                                           *)
LEMMA ShowsJoined ==
    ASSUME NEW a \in Seq(Cell), NEW b \in Seq(Cell)
    PROVE  /\ Shows(a, a \o b, 0) /\ Shows(b, a \o b, Len(a))
           /\ \A x : \A off \in Nat : Shows(x, a, off) => Shows(x, a \o b, off)
<1>1. \A w \in Seq(Cell), pos \in Nat :
         /\ Reads(a, pos, w) => Reads(a \o b, pos, w)
         /\ Reads(b, pos, w) => Reads(a \o b, Len(a) + pos, w)
  BY ReadsJoined, Zenon
<1>2. \A pos \in Nat : 0 + pos = pos
  OBVIOUS
<1>3. Shows(a, a \o b, 0) /\ Shows(b, a \o b, Len(a))
  BY <1>1, <1>2, Zenon DEF Shows
<1>4. ASSUME NEW x, NEW off \in Nat, Shows(x, a, off) PROVE Shows(x, a \o b, off)
  <2>. SUFFICES ASSUME NEW w \in Seq(Cell), NEW pos \in Nat, Reads(x, pos, w)
                PROVE  Reads(a \o b, off + pos, w)
    BY Zenon DEF Shows
  <2>1. Reads(a, off + pos, w) /\ off + pos \in Nat
    BY <1>4 DEF Shows
  <2>. QED  BY <1>1, <2>1, Zenon
<1>. QED  BY <1>3, <1>4, Zenon
(* The bytes of an image: each section is where the loader reads it, and   *)
(* the next begins where it ends.                                          *)
LEMMA BytesIs ==
    ASSUME NEW image \in Program
    PROVE  LET b == Bytes(image)
               ns == Len(image.strings)
               nc == Len(image.chunks)
           IN  /\ b \in Seq(Cell) /\ Len(b) = ChunkPos(image, nc) + 8
               /\ \A i \in 0 .. ns : StringPos(image, i) \in Nat
               /\ \A j \in 0 .. nc : ChunkPos(image, j) \in Nat
               /\ StringPos(image, 0) = 8
               /\ ChunkPos(image, 0) = StringPos(image, ns) + 4
               /\ \A i \in 1 .. ns : StringPos(image, i) =
                     StringPos(image, i - 1) + 4 + Len(image.strings[i])
               /\ \A j \in 1 .. nc : ChunkPos(image, j) =
                     ChunkPos(image, j - 1) + Len(ChunkBytes(image.chunks[j]))
               /\ Reads(b, 0, <<"T", "B", "C", "F">>)
               /\ Reads(b, 4, Wide(4, image.entry_id))
               /\ \A i \in 1 .. ns :
                     Reads(b, StringPos(image, i - 1), StringBytes(image.strings[i]))
               /\ Reads(b, StringPos(image, ns), Wide(4, 0))
               /\ \A j \in 1 .. nc :
                     Reads(b, ChunkPos(image, j - 1), ChunkBytes(image.chunks[j]))
               /\ Reads(b, ChunkPos(image, nc), Wide(8, 0))
<1>. DEFINE ns == Len(image.strings)
            nc == Len(image.chunks)
            magic == <<"T", "B", "C", "F">>
            meta == Wide(4, image.entry_id)
            texts == FlattenSeq(StringParts(image))
            zero4 == Wide(4, 0)
            chunks == FlattenSeq(ChunkParts(image))
            zero8 == Wide(8, 0)
            t1 == magic \o meta
            t2 == t1 \o texts
            t3 == t2 \o zero4
            t4 == t3 \o chunks
            b == t4 \o zero8
            se == StringEnds(image)
            ce == ChunkEnds(image)
<1>1. Bytes(image) = b
  BY DEF Bytes, StringParts, ChunkParts
<1>2. /\ ns \in Nat /\ nc \in Nat
      /\ se \in [0 .. ns -> Nat] /\ se[0] = 0
      /\ ce \in [0 .. nc -> Nat] /\ ce[0] = 0
  BY ImageFields, PartsAre DEF Ends
<1>3. \A i \in 1 .. ns : se[i] = se[i - 1] + (4 + Len(image.strings[i]))
  <2>1. \A i \in 1 .. ns : se[i] = se[i - 1] + Len(StringBytes(image.strings[i]))
    BY PartsAre, ZenonT(40) DEF Ends
  <2>2. \A i \in 1 .. ns : Len(StringBytes(image.strings[i])) = 4 + Len(image.strings[i])
    BY ImageFields, StringBytesIs
  <2>. HIDE DEF ns, se
  <2>. QED  BY <2>1, <2>2, Zenon
<1>4. \A j \in 1 .. nc : ce[j] = ce[j - 1] + Len(ChunkBytes(image.chunks[j]))
  BY PartsAre, Zenon DEF Ends
<1>5. /\ texts \in Seq(Cell) /\ Len(texts) = se[ns]
      /\ \A i \in 1 .. ns : Reads(texts, se[i - 1], StringBytes(image.strings[i]))
  <2>. DEFINE parts == StringParts(image)
  <2>1. /\ parts \in Seq(Seq(Cell)) /\ Len(parts) = ns /\ Ends(se, parts)
        /\ \A i \in 1 .. ns : parts[i] = StringBytes(image.strings[i])
    BY PartsAre, Zenon
  <2>2. /\ FlattenSeq(parts) \in Seq(Cell)
        /\ Len(FlattenSeq(parts)) = se[Len(parts)]
        /\ \A i \in 1 .. Len(parts) : Reads(FlattenSeq(parts), se[i - 1], parts[i])
    <3>. HIDE DEF parts, se
    <3>. QED  BY <2>1, FlattenReads, Zenon
  <2>. HIDE DEF parts, se, ns
  <2>. QED  BY <2>1, <2>2, Zenon DEF parts
<1>6. /\ chunks \in Seq(Cell) /\ Len(chunks) = ce[nc]
      /\ \A j \in 1 .. nc : Reads(chunks, ce[j - 1], ChunkBytes(image.chunks[j]))
  <2>. DEFINE parts == ChunkParts(image)
  <2>1. /\ parts \in Seq(Seq(Cell)) /\ Len(parts) = nc /\ Ends(ce, parts)
        /\ \A j \in 1 .. nc : parts[j] = ChunkBytes(image.chunks[j])
    BY PartsAre, Zenon
  <2>2. /\ FlattenSeq(parts) \in Seq(Cell)
        /\ Len(FlattenSeq(parts)) = ce[Len(parts)]
        /\ \A j \in 1 .. Len(parts) : Reads(FlattenSeq(parts), ce[j - 1], parts[j])
    <3>. HIDE DEF parts, ce
    <3>. QED  BY <2>1, FlattenReads, Zenon
  <2>. HIDE DEF parts, ce, nc
  <2>. QED  BY <2>1, <2>2, Zenon DEF parts
<1>7. /\ magic \in Seq(Cell) /\ Len(magic) = 4
      /\ meta \in Seq(Cell) /\ Len(meta) = 4
      /\ zero4 \in Seq(Cell) /\ Len(zero4) = 4
      /\ zero8 \in Seq(Cell) /\ Len(zero8) = 8
  <2>1. magic \in Seq(Cell) /\ Len(magic) = 4
    <3>1. "T" \in Cell /\ "B" \in Cell /\ "C" \in Cell /\ "F" \in Cell
      BY DEF Cell
    <3>. HIDE DEF Cell
    <3>. QED  BY <3>1
  <2>2. image.entry_id \in Cell /\ 0 \in Cell /\ 4 \in Nat /\ 8 \in Nat
    BY ImageFields DEF Cell
  <2>. QED  BY <2>1, <2>2, WideIs, Zenon
<1>. HIDE DEF magic, meta, texts, zero4, chunks, zero8
<1>8. /\ t1 \in Seq(Cell) /\ Len(t1) = 8
      /\ t2 \in Seq(Cell) /\ Len(t2) = 8 + se[ns]
      /\ t3 \in Seq(Cell) /\ Len(t3) = 8 + se[ns] + 4
      /\ t4 \in Seq(Cell) /\ Len(t4) = 8 + se[ns] + 4 + ce[nc]
      /\ b \in Seq(Cell) /\ Len(b) = 8 + se[ns] + 4 + ce[nc] + 8
  <2>1. t1 \in Seq(Cell) /\ Len(t1) = 8
    <3>1. t1 \in Seq(Cell) /\ Len(t1) = Len(magic) + Len(meta)
      BY <1>7, JoinIs, Zenon
    <3>. HIDE DEF t1, se, ce, ns, nc
    <3>. QED  BY <1>7, <3>1
  <2>. HIDE DEF t1
  <2>2. t2 \in Seq(Cell) /\ Len(t2) = 8 + se[ns]
    <3>1. t2 \in Seq(Cell) /\ Len(t2) = Len(t1) + Len(texts)
      BY <1>5, <2>1, JoinIs, Zenon
    <3>. HIDE DEF t2, se, ce, ns, nc
    <3>. QED  BY <1>5, <2>1, <3>1
  <2>. HIDE DEF t2
  <2>3. t3 \in Seq(Cell) /\ Len(t3) = 8 + se[ns] + 4
    <3>1. t3 \in Seq(Cell) /\ Len(t3) = Len(t2) + Len(zero4)
      BY <1>7, <2>2, JoinIs, Zenon
    <3>. HIDE DEF t3, se, ce, ns, nc
    <3>. QED  BY <1>7, <2>2, <3>1
  <2>. HIDE DEF t3
  <2>4. t4 \in Seq(Cell) /\ Len(t4) = 8 + se[ns] + 4 + ce[nc]
    <3>1. t4 \in Seq(Cell) /\ Len(t4) = Len(t3) + Len(chunks)
      BY <1>6, <2>3, JoinIs, Zenon
    <3>. HIDE DEF t4, se, ce, ns, nc
    <3>. QED  BY <1>6, <2>3, <3>1
  <2>. HIDE DEF t4
  <2>5. b \in Seq(Cell) /\ Len(b) = 8 + se[ns] + 4 + ce[nc] + 8
    <3>1. b \in Seq(Cell) /\ Len(b) = Len(t4) + Len(zero8)
      BY <1>7, <2>4, JoinIs, Zenon
    <3>. HIDE DEF b, se, ce, ns, nc
    <3>. QED  BY <1>7, <2>4, <3>1
  <2>. QED  BY <2>1, <2>2, <2>3, <2>4, <2>5
<1>. DEFINE o3 == 8 + se[ns]
            o4 == 8 + se[ns] + 4
            o5 == 8 + se[ns] + 4 + ce[nc]
<1>9. 0 \in Nat /\ 4 \in Nat /\ 8 \in Nat /\ o3 \in Nat /\ o4 \in Nat /\ o5 \in Nat
  <2>1. se[ns] \in Nat /\ ce[nc] \in Nat
    <3>. HIDE DEF se, ce, ns, nc
    <3>. QED  BY <1>2, SMTT(40)
  <2>. HIDE DEF se, ce, ns, nc
  <2>. QED  BY <2>1, SMTT(40)
<1>. HIDE DEF o3, o4, o5
<1>10. /\ Shows(magic, b, 0) /\ Shows(meta, b, 4) /\ Shows(texts, b, 8)
       /\ Shows(zero4, b, o3) /\ Shows(chunks, b, o4) /\ Shows(zero8, b, o5)
  <2>0. Len(t2) = o3 /\ Len(t3) = o4 /\ Len(t4) = o5
    BY <1>8 DEF o3, o4, o5
  <2>. HIDE DEF t1, t2, t3, t4, b
  <2>1. Shows(magic, t1, 0) /\ Shows(meta, t1, 4)
    BY <1>7, ShowsJoined, Zenon DEF t1
  <2>2. Shows(magic, t2, 0) /\ Shows(meta, t2, 4) /\ Shows(texts, t2, 8)
    BY <1>5, <1>8, <1>9, <2>1, ShowsJoined, Zenon DEF t2
  <2>3. /\ Shows(magic, t3, 0) /\ Shows(meta, t3, 4) /\ Shows(texts, t3, 8)
        /\ Shows(zero4, t3, o3)
    BY <1>7, <1>8, <1>9, <2>0, <2>2, ShowsJoined, Zenon DEF t3
  <2>4. /\ Shows(magic, t4, 0) /\ Shows(meta, t4, 4) /\ Shows(texts, t4, 8)
        /\ Shows(zero4, t4, o3) /\ Shows(chunks, t4, o4)
    BY <1>6, <1>8, <1>9, <2>0, <2>3, ShowsJoined, Zenon DEF t4
  <2>. QED  BY <1>7, <1>8, <1>9, <2>0, <2>4, ShowsJoined, Zenon DEF b
<1>11. ASSUME NEW w \in Seq(Cell) PROVE Reads(w, 0, w)
  BY <1>11, LenProperties DEF Reads
<1>12. /\ Reads(b, 0, magic) /\ Reads(b, 4, meta)
       /\ Reads(b, o3, zero4) /\ Reads(b, o5, zero8)
  <2>1. /\ Reads(b, 0 + 0, magic) /\ Reads(b, 4 + 0, meta)
        /\ Reads(b, o3 + 0, zero4) /\ Reads(b, o5 + 0, zero8)
    <3>. HIDE DEF b
    <3>. QED  BY <1>7, <1>9, <1>10, <1>11, Zenon DEF Shows
  <2>2. 0 + 0 = 0 /\ 4 + 0 = 4 /\ o3 + 0 = o3 /\ o5 + 0 = o5
    BY <1>9
  <2>. HIDE DEF b
  <2>. QED  BY <2>1, <2>2
<1>13. ASSUME NEW i \in 1 .. ns
       PROVE  Reads(b, 8 + se[i - 1], StringBytes(image.strings[i]))
  <2>1. se[i - 1] \in Nat
    BY <1>2
  <2>2. StringBytes(image.strings[i]) \in Seq(Cell)
    BY ImageFields, StringBytesIs
  <2>. HIDE DEF b
  <2>. QED  BY <1>5, <1>10, <2>1, <2>2, Zenon DEF Shows
<1>14. ASSUME NEW j \in 1 .. nc
       PROVE  Reads(b, o4 + ce[j - 1], ChunkBytes(image.chunks[j]))
  <2>1. ce[j - 1] \in Nat
    BY <1>2
  <2>2. ChunkBytes(image.chunks[j]) \in Seq(Cell)
    BY ImageFields, ChunkBytesIs
  <2>. HIDE DEF b
  <2>. QED  BY <1>6, <1>10, <2>1, <2>2, Zenon DEF Shows
<1>15. /\ \A i : StringPos(image, i) = 8 + se[i]
       /\ \A j : ChunkPos(image, j) = o4 + ce[j]
       /\ StringPos(image, ns) = o3 /\ o4 = o3 + 4 /\ ChunkPos(image, nc) = o5
  BY DEF StringPos, ChunkPos, o3, o4, o5
<1>16. Len(b) = ChunkPos(image, nc) + 8
  BY <1>8, <1>15 DEF o5
<1>17. /\ \A i \in 0 .. ns : StringPos(image, i) \in Nat
       /\ \A j \in 0 .. nc : ChunkPos(image, j) \in Nat
       /\ StringPos(image, 0) = 8 /\ ChunkPos(image, 0) = StringPos(image, ns) + 4
  <2>. HIDE DEF se, ce, ns, nc
  <2>1. ASSUME NEW i \in 0 .. ns PROVE StringPos(image, i) \in Nat
    <3>1. se[i] \in Nat /\ StringPos(image, i) = 8 + se[i]
      BY <1>2, <1>15
    <3>. QED  BY <3>1
  <2>2. ASSUME NEW j \in 0 .. nc PROVE ChunkPos(image, j) \in Nat
    <3>1. ce[j] \in Nat /\ ChunkPos(image, j) = o4 + ce[j]
      BY <1>2, <1>15
    <3>. QED  BY <1>9, <3>1
  <2>3. StringPos(image, 0) = 8 + 0 /\ ChunkPos(image, 0) = o4 + 0
    BY <1>2, <1>15, Zenon
  <2>4. 8 + 0 = 8 /\ o4 + 0 = StringPos(image, ns) + 4
    BY <1>9, <1>15
  <2>. QED  BY <2>1, <2>2, <2>3, <2>4, Zenon
<1>18. ASSUME NEW i \in 1 .. ns
       PROVE  StringPos(image, i) = StringPos(image, i - 1) + 4 + Len(image.strings[i])
  <2>. DEFINE long == Len(image.strings[i])
  <2>1. long \in Nat
    BY ImageFields, Zenon
  <2>2. se[i] = se[i - 1] + (4 + long)
    BY <1>3, Zenon
  <2>3. StringPos(image, i) = 8 + se[i] /\ StringPos(image, i - 1) = 8 + se[i - 1]
    BY <1>15, Zenon
  <2>. HIDE DEF se, ns, long
  <2>4. se[i - 1] \in Nat
    BY <1>2
  <2>5. StringPos(image, i) = StringPos(image, i - 1) + 4 + long
    BY <2>1, <2>2, <2>3, <2>4
  <2>. QED  BY <2>5 DEF long
<1>19. ASSUME NEW j \in 1 .. nc
       PROVE  ChunkPos(image, j) = ChunkPos(image, j - 1) + Len(ChunkBytes(image.chunks[j]))
  <2>. DEFINE long == Len(ChunkBytes(image.chunks[j]))
  <2>1. long \in Nat
    <3>1. ChunkBytes(image.chunks[j]) \in Seq(Cell)
      BY ImageFields, ChunkBytesIs
    <3>. QED  BY <3>1, LenProperties
  <2>2. ce[j] = ce[j - 1] + long
    BY <1>4, Zenon
  <2>3. ChunkPos(image, j) = o4 + ce[j] /\ ChunkPos(image, j - 1) = o4 + ce[j - 1]
    BY <1>15, Zenon
  <2>. HIDE DEF ce, nc, long
  <2>4. ce[j - 1] \in Nat
    BY <1>2
  <2>5. ChunkPos(image, j) = ChunkPos(image, j - 1) + long
    BY <1>9, <2>1, <2>2, <2>3, <2>4
  <2>. QED  BY <2>5 DEF long
<1>. HIDE DEF b, se, ce, ns, nc
<1>20. /\ \A i \in 1 .. ns :
             Reads(b, StringPos(image, i - 1), StringBytes(image.strings[i]))
       /\ \A j \in 1 .. nc :
             Reads(b, ChunkPos(image, j - 1), ChunkBytes(image.chunks[j]))
       /\ Reads(b, StringPos(image, ns), zero4) /\ Reads(b, ChunkPos(image, nc), zero8)
  BY <1>12, <1>13, <1>14, <1>15, Zenon
<1>21. b \in Seq(Cell)
  BY <1>8
<1>. QED
  BY <1>1, <1>12, <1>16, <1>17, <1>18, <1>19, <1>20, <1>21, Zenon
  DEF magic, meta, zero4, zero8, ns, nc
-----------------------------------------------------------------------------
(* What the loader finds in an image                                       *)

(* A string of an image: its length, and the text after it.                *)
LEMMA StringAt ==
    ASSUME NEW image \in Program, NEW i \in 1 .. Len(image.strings)
    PROVE  LET b == Bytes(image)
               s == image.strings[i]
               pos == StringPos(image, i - 1)
           IN  /\ pos \in Nat /\ StringPos(image, i) = pos + 4 + Len(s)
               /\ StringPos(image, i) <= Len(b)
               /\ b[pos + 1] = Len(s)
               /\ \A k \in 1 .. Len(s) : b[pos + 4 + k] = s[k]
<1>. DEFINE b == Bytes(image)
            s == image.strings[i]
            pos == StringPos(image, i - 1)
            next == StringPos(image, i)
            bytes == StringBytes(s)
<1>1. Len(image.strings) \in Nat /\ s \in Seq(STRING)
  BY ImageFields, Zenon
<1>2. i - 1 \in 0 .. Len(image.strings)
  BY <1>1
<1>3. pos \in Nat /\ next = pos + 4 + Len(s) /\ Reads(b, pos, bytes)
  BY <1>2, BytesIs, Zenon
<1>4. /\ Len(s) \in Nat /\ Len(bytes) = 4 + Len(s) /\ bytes[1] = Len(s)
      /\ \A k \in 1 .. Len(s) : bytes[4 + k] = s[k]
  BY <1>1, StringBytesIs, Zenon
<1>. HIDE DEF b, s, pos, next, bytes
<1>5. /\ pos + Len(bytes) <= Len(b)
      /\ \A k \in 1 .. Len(bytes) : b[pos + k] = bytes[k]
  BY <1>3 DEF Reads
<1>6. b[pos + 1] = Len(s)
  BY <1>4, <1>5
<1>7. ASSUME NEW k \in 1 .. Len(s) PROVE b[pos + 4 + k] = s[k]
  <2>1. 4 + k \in 1 .. Len(bytes) /\ pos + (4 + k) = pos + 4 + k
    BY <1>3, <1>4
  <2>2. b[pos + (4 + k)] = bytes[4 + k]
    BY <1>5, <2>1
  <2>. QED  BY <1>4, <2>1, <2>2
<1>8. next <= Len(b)
  BY <1>3, <1>4, <1>5
<1>. QED  BY <1>3, <1>6, <1>7, <1>8 DEF b, s, pos, next

(* A chunk of an image: its lengths, its instructions and its constants.   *)
LEMMA ChunkAt ==
    ASSUME NEW image \in Program, NEW j \in 1 .. Len(image.chunks)
    PROVE  LET b == Bytes(image)
               c == image.chunks[j]
               pos == ChunkPos(image, j - 1)
               count == pos + 8 + 4 * Len(c.code)
           IN  /\ pos \in Nat /\ Len(c.code) \in Nat \ {0} /\ Len(c.constants) \in Nat
               /\ ChunkPos(image, j) = count + 8 + 5 * Len(c.constants)
               /\ ChunkPos(image, j) <= Len(b)
               /\ b[pos + 1] = Len(c.code) /\ b[count + 1] = Len(c.constants)
               /\ \A k \in 1 .. Len(c.code) :
                     LET at == pos + 8 + 4 * k - 4
                     IN  /\ b[at + 1] = c.code[k].op /\ b[at + 2] = c.code[k].flag
                         /\ b[at + 3] = c.code[k].wide
               /\ \A k \in 1 .. Len(c.constants) :
                     LET at == count + 8 + 5 * k - 5
                     IN  b[at + 1] = c.constants[k].tag /\ b[at + 2] = c.constants[k].n
<1>. DEFINE b == Bytes(image)
            c == image.chunks[j]
            pos == ChunkPos(image, j - 1)
            next == ChunkPos(image, j)
            bytes == ChunkBytes(c)
            lc == Len(c.code)
            lk == Len(c.constants)
<1>1. Len(image.chunks) \in Nat /\ c \in Chunk
  BY ImageFields, Zenon
<1>2. j - 1 \in 0 .. Len(image.chunks)
  BY <1>1
<1>3. pos \in Nat /\ next = pos + Len(bytes) /\ Reads(b, pos, bytes)
  BY <1>2, BytesIs, Zenon
<1>4. /\ lc \in Nat /\ lc # 0 /\ lk \in Nat
      /\ \A k \in 1 .. lc : c.code[k] \in Instruction
      /\ \A k \in 1 .. lk : c.constants[k] \in Constant_
  BY <1>1, ChunkFields, Zenon
<1>5. /\ Len(bytes) = 8 + 4 * lc + 8 + 5 * lk
      /\ Reads(bytes, 0, Wide(8, lc))
      /\ \A k \in 1 .. lc : Reads(bytes, 8 + (4 * k - 4), InsBytes(c.code[k]))
      /\ Reads(bytes, 8 + 4 * lc, Wide(8, lk))
      /\ \A k \in 1 .. lk :
            Reads(bytes, 8 + 4 * lc + 8 + (5 * k - 5), ValueBytes(c.constants[k]))
  BY <1>1, ChunkBytesIs, Zenon
<1>6. /\ Len(Wide(8, lc)) = 8 /\ Wide(8, lc)[1] = lc
      /\ Len(Wide(8, lk)) = 8 /\ Wide(8, lk)[1] = lk
  <2>1. 8 \in Nat /\ 1 \in 1 .. 8 /\ lc \in Cell /\ lk \in Cell
    BY <1>4 DEF Cell
  <2>. HIDE DEF lc, lk
  <2>2. Len(Wide(8, lc)) = 8 /\ Wide(8, lc)[1] = lc
    BY <2>1, WideIs, Zenon
  <2>3. Len(Wide(8, lk)) = 8 /\ Wide(8, lk)[1] = lk
    BY <2>1, WideIs, Zenon
  <2>. QED  BY <2>2, <2>3
<1>. HIDE DEF b, pos, next, bytes, lc, lk
<1>7. /\ pos + Len(bytes) <= Len(b)
      /\ \A k \in 1 .. Len(bytes) : b[pos + k] = bytes[k]
  BY <1>3 DEF Reads
<1>8. ASSUME NEW off \in Nat, NEW w, NEW k \in 1 .. Len(w), Len(w) \in Nat,
             Reads(bytes, off, w)
      PROVE  b[pos + off + k] = w[k]
  <2>1. bytes[off + k] = w[k] /\ off + Len(w) <= Len(bytes)
    BY <1>8 DEF Reads
  <2>2. Len(bytes) \in Nat
    BY <1>4, <1>5
  <2>3. off + k \in 1 .. Len(bytes) /\ pos + (off + k) = pos + off + k
    BY <1>3, <2>1, <2>2, <1>8
  <2>. QED  BY <1>7, <2>1, <2>3
<1>9. b[pos + 1] = lc
  <2>1. 1 \in 1 .. Len(Wide(8, lc)) /\ Len(Wide(8, lc)) \in Nat /\ 0 \in Nat
    BY <1>6
  <2>2. b[pos + 0 + 1] = lc
    BY <1>5, <1>6, <1>8, <2>1, ZenonT(40)
  <2>3. pos + 0 + 1 = pos + 1
    BY <1>3
  <2>. QED  BY <2>2, <2>3
<1>10. b[pos + 8 + 4 * lc + 1] = lk
  <2>1. 1 \in 1 .. Len(Wide(8, lk)) /\ Len(Wide(8, lk)) \in Nat /\ 8 + 4 * lc \in Nat
    BY <1>4, <1>6
  <2>2. b[pos + (8 + 4 * lc) + 1] = lk
    BY <1>5, <1>6, <1>8, <2>1, ZenonT(40)
  <2>3. pos + (8 + 4 * lc) + 1 = pos + 8 + 4 * lc + 1
    BY <1>3, <1>4
  <2>. QED  BY <2>2, <2>3
<1>11. ASSUME NEW k \in 1 .. lc
       PROVE  LET at == pos + 8 + 4 * k - 4
              IN  /\ b[at + 1] = c.code[k].op /\ b[at + 2] = c.code[k].flag
                  /\ b[at + 3] = c.code[k].wide
  <2>. DEFINE w == InsBytes(c.code[k])
              off == 8 + (4 * k - 4)
  <2>1. /\ Len(w) = 4 /\ w[1] = c.code[k].op /\ w[2] = c.code[k].flag
        /\ w[3] = c.code[k].wide
    BY <1>4, InsBytesIs, Zenon
  <2>2. Reads(bytes, off, w)
    BY <1>5, Zenon
  <2>. HIDE DEF w
  <2>3. /\ 1 \in 1 .. Len(w) /\ 2 \in 1 .. Len(w) /\ 3 \in 1 .. Len(w)
        /\ Len(w) \in Nat /\ off \in Nat
    BY <1>4, <2>1
  <2>4. /\ pos + off + 1 = pos + 8 + 4 * k - 4 + 1
        /\ pos + off + 2 = pos + 8 + 4 * k - 4 + 2
        /\ pos + off + 3 = pos + 8 + 4 * k - 4 + 3
    BY <1>3, <1>4
  <2>. HIDE DEF off
  <2>5. b[pos + off + 1] = w[1] /\ b[pos + off + 2] = w[2] /\ b[pos + off + 3] = w[3]
    BY <1>8, <2>2, <2>3, ZenonT(40)
  <2>. QED  BY <2>1, <2>4, <2>5, Zenon
<1>12. ASSUME NEW k \in 1 .. lk
       PROVE  LET at == pos + 8 + 4 * lc + 8 + 5 * k - 5
              IN  b[at + 1] = c.constants[k].tag /\ b[at + 2] = c.constants[k].n
  <2>. DEFINE w == ValueBytes(c.constants[k])
              off == 8 + 4 * lc + 8 + (5 * k - 5)
  <2>1. Len(w) = 5 /\ w[1] = c.constants[k].tag /\ w[2] = c.constants[k].n
    BY <1>4, ValueBytesIs, Zenon
  <2>2. Reads(bytes, off, w)
    BY <1>5, Zenon
  <2>. HIDE DEF w
  <2>3. 1 \in 1 .. Len(w) /\ 2 \in 1 .. Len(w) /\ Len(w) \in Nat /\ off \in Nat
    BY <1>4, <2>1
  <2>4. /\ pos + off + 1 = pos + 8 + 4 * lc + 8 + 5 * k - 5 + 1
        /\ pos + off + 2 = pos + 8 + 4 * lc + 8 + 5 * k - 5 + 2
    BY <1>3, <1>4
  <2>. HIDE DEF off
  <2>5. b[pos + off + 1] = w[1] /\ b[pos + off + 2] = w[2]
    BY <1>8, <2>2, <2>3, ZenonT(40)
  <2>. QED  BY <2>1, <2>4, <2>5, Zenon
<1>13. next = pos + 8 + 4 * lc + 8 + 5 * lk /\ next <= Len(b) /\ lc \in Nat \ {0}
  BY <1>3, <1>4, <1>5, <1>7
<1>. QED
  BY <1>3, <1>4, <1>9, <1>10, <1>11, <1>12, <1>13, Zenon DEF b, pos, next, lc, lk

(* The mark, the entry and the two ends of sections.                       *)
LEMMA MarksAt ==
    ASSUME NEW image \in Program
    PROVE  LET b == Bytes(image)
               texts == StringPos(image, Len(image.strings))
               chunks == ChunkPos(image, Len(image.chunks))
           IN  /\ b[1] = "T" /\ b[2] = "B" /\ b[3] = "C" /\ b[4] = "F"
               /\ b[5] = image.entry_id /\ 8 <= Len(b)
               /\ texts \in Nat /\ b[texts + 1] = 0 /\ texts + 4 <= Len(b)
               /\ chunks \in Nat /\ b[chunks + 1] = 0 /\ chunks + 8 = Len(b)
<1>. DEFINE b == Bytes(image)
            texts == StringPos(image, Len(image.strings))
            chunks == ChunkPos(image, Len(image.chunks))
            magic == <<"T", "B", "C", "F">>
            meta == Wide(4, image.entry_id)
            zero4 == Wide(4, 0)
            zero8 == Wide(8, 0)
<1>1. /\ Reads(b, 0, magic) /\ Reads(b, 4, meta)
      /\ Reads(b, texts, zero4) /\ Reads(b, chunks, zero8)
      /\ Len(b) = chunks + 8
  BY BytesIs, Zenon
<1>2. texts \in Nat /\ chunks \in Nat
  <2>1. Len(image.strings) \in Nat /\ Len(image.chunks) \in Nat
    BY ImageFields, Zenon
  <2>2. /\ Len(image.strings) \in 0 .. Len(image.strings)
        /\ Len(image.chunks) \in 0 .. Len(image.chunks)
    BY <2>1
  <2>. QED  BY <2>2, BytesIs, Zenon
<1>3. /\ Len(meta) = 4 /\ meta[1] = image.entry_id
      /\ Len(zero4) = 4 /\ zero4[1] = 0 /\ Len(zero8) = 8 /\ zero8[1] = 0
  <2>1. image.entry_id \in Nat
    BY ImageFields, Zenon
  <2>2. /\ image.entry_id \in Cell /\ 0 \in Cell /\ 4 \in Nat /\ 8 \in Nat
        /\ 1 \in 1 .. 4 /\ 1 \in 1 .. 8
    BY <2>1 DEF Cell
  <2>. QED  BY <2>2, WideIs, Zenon
<1>4. /\ Len(magic) = 4 /\ magic[1] = "T" /\ magic[2] = "B"
      /\ magic[3] = "C" /\ magic[4] = "F"
  OBVIOUS
<1>. HIDE DEF b, texts, chunks, magic, meta, zero4, zero8
<1>5. b[1] = "T" /\ b[2] = "B" /\ b[3] = "C" /\ b[4] = "F"
  <2>1. \A k \in 1 .. 4 : b[0 + k] = magic[k]
    BY <1>1, <1>4 DEF Reads
  <2>2. b[0 + 1] = magic[1] /\ b[0 + 2] = magic[2] /\ b[0 + 3] = magic[3] /\ b[0 + 4] = magic[4]
    BY <2>1
  <2>3. 0 + 1 = 1 /\ 0 + 2 = 2 /\ 0 + 3 = 3 /\ 0 + 4 = 4
    OBVIOUS
  <2>. QED  BY <1>4, <2>2, <2>3, Zenon
<1>6. b[5] = image.entry_id /\ 8 <= Len(b)
  <2>1. b[4 + 1] = meta[1] /\ 4 + Len(meta) <= Len(b)
    BY <1>1, <1>3 DEF Reads
  <2>. QED  BY <1>3, <2>1
<1>7. b[texts + 1] = 0 /\ texts + 4 <= Len(b)
  BY <1>1, <1>3 DEF Reads
<1>8. b[chunks + 1] = 0
  BY <1>1, <1>3 DEF Reads
<1>. QED  BY <1>1, <1>2, <1>5, <1>6, <1>7, <1>8 DEF b, texts, chunks
-----------------------------------------------------------------------------
(* The program read so far                                                 *)

LoadedChunks(image) == [j \in DOMAIN image.chunks |-> LoadedChunk(image.chunks[j])]

(* The first i strings and the first j chunks.                             *)
Part(image, i, j) ==
    [entry_id |-> image.entry_id, strings |-> SubSeq(image.strings, 1, i),
     chunks |-> SubSeq(LoadedChunks(image), 1, j)]

(* One more item.                                                          *)
LEMMA PrefixGrows ==
    ASSUME NEW S, NEW s \in Seq(S), NEW n \in 1 .. Len(s)
    PROVE  Append(SubSeq(s, 1, n - 1), s[n]) = SubSeq(s, 1, n)
<1>1. Len(s) \in Nat /\ n \in Nat /\ \A k \in 1 .. Len(s) : s[k] \in S
  BY LenProperties, ElementOfSeq
<1>2. 1 \in 1 .. Len(s) /\ n \in 1 .. Len(s) /\ 1 \in Int /\ n \in Int /\ n - 1 \in Int
  BY <1>1
<1>3. SubSeq(s, 1, n) = SubSeq(s, 1, n - 1) \o <<s[n]>>
  BY <1>2, SubSeqRecursiveSecond
<1>4. \A k \in 1 .. n - 1 : s[k] \in S
  BY <1>1
<1>5. SubSeq(s, 1, n - 1) \in Seq(S)
  BY <1>2, <1>4, SubSeqProperties
<1>. DEFINE t == SubSeq(s, 1, n - 1)
<1>. HIDE DEF t
<1>6. Append(t, s[n]) = t \o <<s[n]>>
  BY <1>1, <1>5, AppendIsConcat DEF t
<1>. QED  BY <1>3, <1>6 DEF t

(* The loaded chunks are one for each chunk of the image.                  *)
LEMMA LoadedChunksAre ==
    ASSUME NEW image \in Program
    PROVE  /\ LoadedChunks(image) \in Seq({LoadedChunk(c) : c \in Chunk})
           /\ Len(LoadedChunks(image)) = Len(image.chunks)
           /\ \A j \in 1 .. Len(image.chunks) :
                 LoadedChunks(image)[j] = LoadedChunk(image.chunks[j])
<1>. DEFINE S == {LoadedChunk(c) : c \in Chunk}
            all == LoadedChunks(image)
<1>1. /\ Len(image.chunks) \in Nat /\ DOMAIN image.chunks = 1 .. Len(image.chunks)
      /\ \A j \in 1 .. Len(image.chunks) : image.chunks[j] \in Chunk
  BY ImageFields, Zenon
<1>2. all = [j \in 1 .. Len(image.chunks) |-> LoadedChunk(image.chunks[j])]
  BY <1>1 DEF LoadedChunks
<1>3. \A j \in 1 .. Len(image.chunks) : LoadedChunk(image.chunks[j]) \in S
  BY <1>1
<1>. HIDE DEF S, all
<1>4. all \in Seq(S)
  BY <1>1, <1>2, <1>3
<1>5. DOMAIN all = 1 .. Len(image.chunks)
  BY <1>2
<1>6. Len(all) = Len(image.chunks)
  BY <1>1, <1>4, <1>5, LenProperties
<1>. QED  BY <1>2, <1>4, <1>6 DEF S, all

(* The program grows by what the loader reads, up to all of it.            *)
LEMMA PartGrows ==
    ASSUME NEW image \in Program
    PROVE  LET ns == Len(image.strings)
               nc == Len(image.chunks)
           IN  /\ Part(image, 0, 0) = [NoProgram EXCEPT !.entry_id = image.entry_id]
               /\ \A i \in 1 .. ns :
                     Part(image, i, 0) = [Part(image, i - 1, 0) EXCEPT
                         !.strings = Append(@, image.strings[i])]
               /\ \A j \in 1 .. nc :
                     Part(image, ns, j) = [Part(image, ns, j - 1) EXCEPT
                         !.chunks = Append(@, LoadedChunk(image.chunks[j]))]
               /\ Part(image, ns, nc) = WithoutReals(image)
<1>. DEFINE ns == Len(image.strings)
            nc == Len(image.chunks)
            all == LoadedChunks(image)
<1>1. image.strings \in Seq(Seq(STRING)) /\ ns \in Nat /\ nc \in Nat
  BY ImageFields, Zenon
<1>2. /\ all \in Seq({LoadedChunk(c) : c \in Chunk}) /\ Len(all) = nc
      /\ \A j \in 1 .. nc : all[j] = LoadedChunk(image.chunks[j])
  BY LoadedChunksAre, Zenon
<1>3. Part(image, 0, 0) = [NoProgram EXCEPT !.entry_id = image.entry_id]
  <2>1. SubSeq(image.strings, 1, 0) = <<>> /\ SubSeq(all, 1, 0) = <<>>
    BY SubSeqEmpty
  <2>. HIDE DEF all
  <2>. QED  BY <2>1 DEF Part, NoProgram, all
<1>4. ASSUME NEW i \in 1 .. ns
      PROVE  Part(image, i, 0) = [Part(image, i - 1, 0) EXCEPT
                 !.strings = Append(@, image.strings[i])]
  <2>1. Append(SubSeq(image.strings, 1, i - 1), image.strings[i]) = SubSeq(image.strings, 1, i)
    BY <1>1, PrefixGrows, Zenon
  <2>. DEFINE old == SubSeq(image.strings, 1, i - 1)
              new == SubSeq(image.strings, 1, i)
              none == SubSeq(all, 1, 0)
              text == image.strings[i]
              entry == image.entry_id
  <2>2. /\ Part(image, i - 1, 0) = [entry_id |-> entry, strings |-> old, chunks |-> none]
        /\ Part(image, i, 0) = [entry_id |-> entry, strings |-> new, chunks |-> none]
    BY Zenon DEF Part
  <2>. HIDE DEF old, new, none, text, entry
  <2>3. Append(old, text) = new
    BY <2>1 DEF old, new, text
  <2>4. Part(image, i, 0) = [Part(image, i - 1, 0) EXCEPT !.strings = Append(@, text)]
    BY <2>2, <2>3
  <2>. QED  BY <2>4 DEF text
<1>5. ASSUME NEW j \in 1 .. nc
      PROVE  Part(image, ns, j) = [Part(image, ns, j - 1) EXCEPT
                 !.chunks = Append(@, LoadedChunk(image.chunks[j]))]
  <2>1. Append(SubSeq(all, 1, j - 1), all[j]) = SubSeq(all, 1, j)
    <3>. HIDE DEF all
    <3>1. j \in 1 .. Len(all)
      BY <1>2
    <3>. QED  BY <1>2, <3>1, PrefixGrows, Zenon
  <2>2. all[j] = LoadedChunk(image.chunks[j])
    BY <1>2, Zenon
  <2>. DEFINE old == SubSeq(all, 1, j - 1)
              new == SubSeq(all, 1, j)
              texts == SubSeq(image.strings, 1, ns)
              chunk == LoadedChunk(image.chunks[j])
              entry == image.entry_id
  <2>3. /\ Part(image, ns, j - 1) = [entry_id |-> entry, strings |-> texts, chunks |-> old]
        /\ Part(image, ns, j) = [entry_id |-> entry, strings |-> texts, chunks |-> new]
    BY Zenon DEF Part
  <2>4. Append(old, chunk) = new
    BY <2>1, <2>2, Zenon
  <2>. HIDE DEF old, new, texts, chunk, entry, all, ns
  <2>. DEFINE before == [entry_id |-> entry, strings |-> texts, chunks |-> old]
  <2>5. before.chunks = old
    OBVIOUS
  <2>6. [before EXCEPT !.chunks = new]
        = [entry_id |-> entry, strings |-> texts, chunks |-> new]
    OBVIOUS
  <2>. HIDE DEF before
  <2>7. Part(image, ns, j - 1) = before /\ Append(before.chunks, chunk) = new
    BY <2>3, <2>4, <2>5 DEF before
  <2>8. [before EXCEPT !.chunks = Append(@, chunk)] = Part(image, ns, j)
    BY <2>3, <2>6, <2>7
  <2>9. Part(image, ns, j) = [Part(image, ns, j - 1) EXCEPT !.chunks = Append(@, chunk)]
    BY <2>7, <2>8, Zenon
  <2>. QED  BY <2>9 DEF chunk
<1>6. Part(image, ns, nc) = WithoutReals(image)
  <2>1. SubSeq(image.strings, 1, ns) = image.strings
    BY <1>1, SubSeqFull, Zenon
  <2>2. SubSeq(all, 1, nc) = all
    BY <1>2, SubSeqFull, Zenon
  <2>3. WithoutReals(image) = [image EXCEPT !.chunks = all]
    BY DEF WithoutReals, LoadedChunks
  <2>4. image = [entry_id |-> image.entry_id, strings |-> image.strings, chunks |-> image.chunks]
    BY DEF Program
  <2>. HIDE DEF all, ns, nc
  <2>. QED  BY <2>1, <2>2, <2>3, <2>4 DEF Part, all
<1>. QED  BY <1>3, <1>4, <1>5, <1>6, Zenon DEF ns, nc
-----------------------------------------------------------------------------
(* The loader                                                              *)

LoaderStates == {"eat_prefix", "eat_meta", "eat_str", "eat_chunk", "end", "err"}
LoaderType == [pos : Nat, state : LoaderStates, flags : SUBSET {"invalid_byte", "unexpected_eos"}]

(* How far a fresh loader is in the first n bytes of an image: between two *)
(* sections, with what comes before it read, or past an end that only a    *)
(* whole image has, or an error that only a cut one gives.                 *)
Progress(image, n, loader, program) ==
    \/ loader.state = "eat_prefix" /\ loader.pos = 0 /\ program = NoProgram
    \/ loader.state = "eat_meta" /\ loader.pos = 4 /\ program = NoProgram
    \/ \E i \in 0 .. Len(image.strings) :
          /\ loader.state = "eat_str" /\ loader.pos = StringPos(image, i)
          /\ program = Part(image, i, 0)
    \/ \E j \in 0 .. Len(image.chunks) :
          /\ loader.state = "eat_chunk" /\ loader.pos = ChunkPos(image, j)
          /\ program = Part(image, Len(image.strings), j)
    \/ loader.state = "end" /\ n = Len(Bytes(image)) /\ program = WithoutReals(image)
    \/ loader.state = "err" /\ n < Len(Bytes(image))

(* The buffer has the first n bytes.                                       *)
Holding(image, n) ==
    /\ image \in Images /\ n \in 1 .. Len(Bytes(image))
    /\ buffer = SubSeq(Bytes(image), 1, n)

LoaderInv ==
    /\ ld \in LoaderType
    /\ ~Loading => ld.state \in {"eat_prefix", "end", "err"} /\ WholeOrNothing
    /\ Loading => \E n \in Nat :
          /\ Holding(asked.image, n)
          /\ asked.cut = (n < Len(Bytes(asked.image)))
          /\ asked.fresh => Progress(asked.image, n, ld, prgm)
          /\ ~asked.fresh => ld.state \in {"end", "err"} /\ prgm = NoProgram

(* The bytes that are there are those of the image.                        *)
LEMMA HeldIs ==
    ASSUME NEW image, NEW n \in Nat, Holding(image, n)
    PROVE  /\ image \in Program /\ n \in Nat \ {0} /\ Len(Bytes(image)) \in Nat
           /\ n <= Len(Bytes(image)) /\ Len(buffer) = n /\ buffer # <<>>
           /\ buffer \in Seq(Cell) /\ \A k \in 1 .. n : buffer[k] = Bytes(image)[k]
<1>1. image \in Program /\ n \in 1 .. Len(Bytes(image))
  BY LoaderAssumption DEF Holding
<1>. DEFINE b == Bytes(image)
<1>2. b \in Seq(Cell)
  BY <1>1, BytesIs, Zenon
<1>. HIDE DEF b
<1>3. Len(b) \in Nat /\ \A k \in 1 .. Len(b) : b[k] \in Cell
  BY <1>2, LenProperties, ElementOfSeq
<1>4. n \in Nat \ {0} /\ n <= Len(b)
  BY <1>1, <1>3 DEF b
<1>5. \A k \in 1 .. n : b[k] \in Cell
  BY <1>3, <1>4
<1>6. 1 \in Int /\ n \in Int /\ 1 <= n /\ n - 1 + 1 = n
  BY <1>4
<1>7. /\ SubSeq(b, 1, n) \in Seq(Cell)
      /\ Len(SubSeq(b, 1, n)) = IF 1 <= n THEN n - 1 + 1 ELSE 0
      /\ \A k \in 1 .. n - 1 + 1 : SubSeq(b, 1, n)[k] = b[1 + k - 1]
  BY <1>5, <1>6, SubSeqProperties
<1>8. buffer = SubSeq(b, 1, n)
  BY DEF Holding, b
<1>9. buffer \in Seq(Cell) /\ Len(buffer) = n
  BY <1>6, <1>7, <1>8
<1>10. ASSUME NEW k \in 1 .. n PROVE buffer[k] = b[k]
  <2>1. 1 + k - 1 = k
    BY <1>4
  <2>. QED  BY <1>6, <1>7, <1>8, <2>1
<1>11. buffer # <<>>
  BY <1>4, <1>9, EmptySeq
<1>. QED  BY <1>1, <1>3, <1>4, <1>9, <1>10, <1>11 DEF b

(* A read that finds the end of the buffer.                                *)
LEMMA FailsProgress ==
    ASSUME NEW image, NEW n \in Nat, Holding(image, n), ld \in LoaderType,
           NEW flags \in SUBSET {"invalid_byte", "unexpected_eos"},
           Fails(flags), n < Len(Bytes(image))
    PROVE  ld' \in LoaderType /\ Progress(image, n, ld', prgm')
<1>1. Len(buffer) = n /\ n \in Nat
  BY HeldIs
<1>2. ld' = [pos |-> n, state |-> "err", flags |-> ld.flags \cup flags]
  BY <1>1 DEF Fails
<1>3. ld.flags \cup flags \in SUBSET {"invalid_byte", "unexpected_eos"}
  BY DEF LoaderType
<1>4. ld' \in LoaderType /\ ld'.state = "err"
  BY <1>1, <1>2, <1>3 DEF LoaderType, LoaderStates
<1>. QED  BY <1>4 DEF Progress

(* A read that goes on.                                                    *)
LEMMA GoesIs ==
    ASSUME ld \in LoaderType, NEW pos \in Nat, NEW state \in LoaderStates, Goes(pos, state)
    PROVE  ld' \in LoaderType /\ ld'.pos = pos /\ ld'.state = state
  BY DEF LoaderType, Goes

(* The first bytes say that it is a program.                               *)
LEMMA EatPrefixProgress ==
    ASSUME NEW image, NEW n \in Nat, Holding(image, n), ld \in LoaderType,
           Progress(image, n, ld, prgm), EatPrefix
    PROVE  ld' \in LoaderType /\ Progress(image, n, ld', prgm')
<1>1. ld.pos = 0 /\ prgm = NoProgram
  BY DEF EatPrefix, Can, Progress
<1>2. /\ image \in Program /\ Len(Bytes(image)) \in Nat /\ n <= Len(Bytes(image))
      /\ Len(buffer) = n /\ \A k \in 1 .. n : buffer[k] = Bytes(image)[k]
      /\ buffer \in Seq(Cell)
  BY HeldIs, Zenon
<1>3. /\ Bytes(image)[1] = "T" /\ Bytes(image)[2] = "B"
      /\ Bytes(image)[3] = "C" /\ Bytes(image)[4] = "F" /\ 8 <= Len(Bytes(image))
  BY <1>2, MarksAt, Zenon
<1>4. Remaining(ld.pos) = n
  BY <1>1, <1>2 DEF Remaining
<1>5. CASE n >= 4
  <2>1. SubSeq(buffer, 1, 4) = <<"T", "B", "C", "F">>
    <3>1. buffer[1] = "T" /\ buffer[2] = "B" /\ buffer[3] = "C" /\ buffer[4] = "F"
      BY <1>2, <1>3, <1>5
    <3>. DEFINE cut == SubSeq(buffer, 1, 4)
                magic == <<"T", "B", "C", "F">>
    <3>2. \A k \in 1 .. 4 : buffer[k] \in Cell
      BY <1>2, <1>5, ElementOfSeq
    <3>3. cut \in Seq(Cell) /\ Len(cut) = 4 /\ \A k \in 1 .. 4 : cut[k] = buffer[k]
      BY <3>2, SubSeqProperties
    <3>4. magic \in Seq(Cell) /\ Len(magic) = 4
      <4>1. "T" \in Cell /\ "B" \in Cell /\ "C" \in Cell /\ "F" \in Cell
        BY DEF Cell
      <4>. HIDE DEF Cell
      <4>. QED  BY <4>1
    <3>5. magic[1] = "T" /\ magic[2] = "B" /\ magic[3] = "C" /\ magic[4] = "F"
      OBVIOUS
    <3>6. \A k \in 1 .. 4 : k = 1 \/ k = 2 \/ k = 3 \/ k = 4
      OBVIOUS
    <3>. HIDE DEF cut, magic
    <3>7. \A k \in 1 .. Len(cut) : cut[k] = magic[k]
      BY <3>1, <3>3, <3>5, <3>6
    <3>8. cut = magic
      BY <3>3, <3>4, <3>7, SeqEqual
    <3>. QED  BY <3>8 DEF cut, magic
  <2>2. Goes(4, "eat_meta") /\ prgm' = prgm
    BY <1>4, <1>5, <2>1 DEF EatPrefix
  <2>3. ld' \in LoaderType /\ ld'.pos = 4 /\ ld'.state = "eat_meta"
    BY <2>2, GoesIs DEF LoaderStates
  <2>. QED  BY <1>1, <2>2, <2>3 DEF Progress
<1>6. CASE ~(n >= 4)
  <2>1. Fails({"invalid_byte"})
    BY <1>4, <1>6 DEF EatPrefix
  <2>2. n < Len(Bytes(image))
    BY <1>2, <1>3, <1>6
  <2>. QED  BY <2>1, <2>2, FailsProgress
<1>. QED  BY <1>5, <1>6

(* Its entry follows.                                                      *)
LEMMA EatMetaProgress ==
    ASSUME NEW image, NEW n \in Nat, Holding(image, n), ld \in LoaderType,
           Progress(image, n, ld, prgm), EatMeta
    PROVE  ld' \in LoaderType /\ Progress(image, n, ld', prgm')
<1>1. ld.pos = 4 /\ prgm = NoProgram
  BY DEF EatMeta, Can, Progress
<1>2. /\ image \in Program /\ Len(Bytes(image)) \in Nat /\ n <= Len(Bytes(image))
      /\ Len(buffer) = n /\ \A k \in 1 .. n : buffer[k] = Bytes(image)[k]
  BY HeldIs, Zenon
<1>3. Bytes(image)[5] = image.entry_id /\ 8 <= Len(Bytes(image))
  BY <1>2, MarksAt, Zenon
<1>4. Remaining(ld.pos) = n - 4 /\ ByteAt(ld.pos) = buffer[5] /\ ld.pos + 4 = 8
  BY <1>1, <1>2 DEF Remaining, ByteAt
<1>5. CASE n >= 8
  <2>1. Remaining(ld.pos) >= 4 /\ ByteAt(ld.pos) = image.entry_id
    BY <1>2, <1>3, <1>4, <1>5
  <2>2. Goes(8, "eat_str") /\ prgm' = [NoProgram EXCEPT !.entry_id = image.entry_id]
    BY <1>1, <1>4, <2>1, Zenon DEF EatMeta
  <2>3. ld' \in LoaderType /\ ld'.pos = 8 /\ ld'.state = "eat_str"
    BY <2>2, GoesIs DEF LoaderStates
  <2>4. StringPos(image, 0) = 8
    BY <1>2, BytesIs, Zenon
  <2>5. prgm' = Part(image, 0, 0)
    BY <1>2, <2>2, PartGrows, Zenon
  <2>6. 0 \in 0 .. Len(image.strings)
    BY <1>2, ImageFields
  <2>. QED  BY <2>3, <2>4, <2>5, <2>6, Zenon DEF Progress
<1>6. CASE ~(n >= 8)
  <2>1. Fails({"unexpected_eos"})
    BY <1>4, <1>6 DEF EatMeta
  <2>2. n < Len(Bytes(image))
    BY <1>2, <1>3, <1>6
  <2>. QED  BY <2>1, <2>2, FailsProgress
<1>. QED  BY <1>5, <1>6

(* A string is read whole, or the buffer ends in it.                       *)
LEMMA EatStrProgress ==
    ASSUME NEW image, NEW n \in Nat, Holding(image, n), ld \in LoaderType,
           Progress(image, n, ld, prgm), EatStr
    PROVE  ld' \in LoaderType /\ Progress(image, n, ld', prgm')
<1>. DEFINE b == Bytes(image)
            ns == Len(image.strings)
<1>1. PICK i \in 0 .. ns : ld.pos = StringPos(image, i) /\ prgm = Part(image, i, 0)
  BY DEF EatStr, Can, Progress
<1>2. /\ image \in Program /\ Len(b) \in Nat /\ n <= Len(b)
      /\ Len(buffer) = n /\ \A k \in 1 .. n : buffer[k] = b[k]
      /\ buffer \in Seq(Cell)
  BY HeldIs, Zenon
<1>3. ns \in Nat
  BY <1>2, ImageFields, Zenon
<1>. DEFINE pos == StringPos(image, i)
            text == pos + 4
<1>4. CASE i = ns
  <2>1. pos \in Nat /\ b[pos + 1] = 0 /\ pos + 4 <= Len(b)
    BY <1>2, <1>4, MarksAt, Zenon
  <2>. HIDE DEF b, pos
  <2>2. Remaining(pos) = n - pos /\ ByteAt(pos) = buffer[pos + 1]
    BY <1>2 DEF Remaining, ByteAt
  <2>3. CASE n - pos >= 4
    <3>1. ByteAt(pos) = 0
      BY <1>2, <2>1, <2>2, <2>3
    <3>2. Goes(text, "eat_chunk") /\ prgm' = prgm
      BY <1>1, <2>2, <2>3, <3>1 DEF EatStr, pos
    <3>3. text \in Nat
      BY <2>1
    <3>4. ld' \in LoaderType /\ ld'.pos = text /\ ld'.state = "eat_chunk"
      <4>. HIDE DEF text
      <4>. QED  BY <3>2, <3>3, GoesIs DEF LoaderStates
    <3>5. text = ChunkPos(image, 0)
      BY <1>2, <1>4, BytesIs, Zenon DEF pos
    <3>6. 0 \in 0 .. Len(image.chunks)
      BY <1>2, ImageFields
    <3>. QED  BY <1>1, <1>4, <3>2, <3>4, <3>5, <3>6, Zenon DEF Progress
  <2>4. CASE ~(n - pos >= 4)
    <3>1. Fails({"unexpected_eos"})
      BY <1>1, <2>2, <2>4 DEF EatStr, pos
    <3>2. n < Len(b)
      BY <1>2, <2>1, <2>4
    <3>. QED  BY <3>1, <3>2, FailsProgress DEF b
  <2>. QED  BY <2>3, <2>4
<1>5. CASE i # ns
  <2>. DEFINE s == image.strings[i + 1]
              next == StringPos(image, i + 1)
  <2>1. i + 1 \in 1 .. ns /\ i + 1 - 1 = i /\ i + 1 \in 0 .. ns
    BY <1>3, <1>5
  <2>2. /\ pos \in Nat /\ next = pos + 4 + Len(s) /\ next <= Len(b)
        /\ b[pos + 1] = Len(s)
        /\ \A k \in 1 .. Len(s) : b[pos + 4 + k] = s[k]
    <3>. DEFINE i1 == i + 1
    <3>1. /\ StringPos(image, i1 - 1) \in Nat
          /\ StringPos(image, i1) = StringPos(image, i1 - 1) + 4 + Len(image.strings[i1])
          /\ StringPos(image, i1) <= Len(b)
          /\ b[StringPos(image, i1 - 1) + 1] = Len(image.strings[i1])
          /\ \A k \in 1 .. Len(image.strings[i1]) :
                b[StringPos(image, i1 - 1) + 4 + k] = image.strings[i1][k]
      <4>. HIDE DEF i1
      <4>1. i1 \in 1 .. Len(image.strings)
        BY <2>1 DEF i1
      <4>. QED  BY <1>2, <4>1, StringAt, Zenon
    <3>2. i1 - 1 = i /\ i1 = i + 1
      BY <2>1
    <3>. HIDE DEF b, i1
    <3>. QED  BY <3>1, <3>2, Zenon
  <2>3. Len(s) \in Nat /\ Len(s) # 0 /\ s \in Seq(STRING)
    BY <1>2, <2>1, ImageFields, Zenon
  <2>4. Part(image, i + 1, 0) = [prgm EXCEPT !.strings = Append(@, s)]
    <3>. DEFINE i1 == i + 1
    <3>1. Part(image, i1, 0) = [Part(image, i1 - 1, 0) EXCEPT
                                   !.strings = Append(@, image.strings[i1])]
      <4>. HIDE DEF i1
      <4>1. i1 \in 1 .. Len(image.strings)
        BY <2>1 DEF i1
      <4>. QED  BY <1>2, <4>1, PartGrows, Zenon
    <3>2. i1 - 1 = i /\ i1 = i + 1
      BY <2>1
    <3>. HIDE DEF i1
    <3>. QED  BY <1>1, <3>1, <3>2, Zenon
  <2>. HIDE DEF b, pos, s, next, ns
  <2>5. /\ Remaining(pos) = n - pos /\ ByteAt(pos) = buffer[pos + 1]
        /\ Remaining(text) = n - text
    BY <1>2 DEF Remaining, ByteAt
  <2>6. n - pos >= 4 => ByteAt(pos) = Len(s)
    BY <1>2, <2>2, <2>5
  <2>7. CASE n - pos >= 4 /\ n - text >= Len(s)
    <3>1. ByteAt(pos) = Len(s) /\ text + ByteAt(pos) = next /\ next \in Nat
      BY <2>2, <2>3, <2>6, <2>7, SMTT(40)
    <3>2. SubSeq(buffer, text + 1, text + Len(s)) = s
      <4>1. \A k \in text + 1 .. text + Len(s) : buffer[k] \in Cell
        <5>1. \A k \in 1 .. n : buffer[k] \in Cell
          BY <1>2, ElementOfSeq
        <5>2. ASSUME NEW k \in text + 1 .. text + Len(s) PROVE k \in 1 .. n
          BY <2>2, <2>3, <2>7
        <5>. QED  BY <5>1, <5>2
      <4>. DEFINE lo == text + 1
                  hi == text + Len(s)
                  cut == SubSeq(buffer, lo, hi)
      <4>2. lo \in Int /\ hi \in Int /\ lo <= hi /\ hi - lo + 1 = Len(s)
        BY <2>2, <2>3
      <4>3. /\ cut \in Seq(Cell) /\ Len(cut) = Len(s)
            /\ \A k \in 1 .. Len(s) : cut[k] = buffer[lo + k - 1]
        <5>. HIDE DEF lo, hi
        <5>1. \A k \in lo .. hi : buffer[k] \in Cell
          BY <4>1 DEF lo, hi
        <5>2. /\ SubSeq(buffer, lo, hi) \in Seq(Cell)
              /\ Len(SubSeq(buffer, lo, hi)) = IF lo <= hi THEN hi - lo + 1 ELSE 0
              /\ \A k \in 1 .. hi - lo + 1 : SubSeq(buffer, lo, hi)[k] = buffer[lo + k - 1]
          BY <4>2, <5>1, SubSeqProperties
        <5>. QED  BY <4>2, <5>2
      <4>4. ASSUME NEW k \in 1 .. Len(s) PROVE cut[k] = s[k]
        <5>1. lo + k - 1 = pos + 4 + k /\ pos + 4 + k \in 1 .. n
          BY <2>2, <2>3, <2>7
        <5>2. buffer[pos + 4 + k] = s[k]
          BY <1>2, <2>2, <5>1
        <5>. QED  BY <4>3, <5>1, <5>2
      <4>5. s \in Seq(Cell)
        BY <2>3 DEF Cell
      <4>. HIDE DEF cut
      <4>6. cut = s
        BY <4>3, <4>4, <4>5, SeqEqual
      <4>. QED  BY <4>6 DEF cut
    <3>3. ByteAt(pos) # 0
      BY <2>3, <3>1
    <3>4. /\ Goes(text + ByteAt(pos), "eat_str")
          /\ prgm' = [prgm EXCEPT !.strings = Append(@, SubSeq(buffer, text + 1, text + ByteAt(pos)))]
      BY <1>1, <2>5, <2>7, <3>1, <3>3 DEF EatStr, pos
    <3>5. Goes(next, "eat_str") /\ prgm' = Part(image, i + 1, 0)
      BY <2>4, <3>1, <3>2, <3>4
    <3>6. ld' \in LoaderType /\ ld'.pos = next /\ ld'.state = "eat_str"
      BY <3>1, <3>5, GoesIs DEF LoaderStates
    <3>. QED  BY <2>1, <3>5, <3>6, Zenon DEF Progress, next, ns
  <2>8. CASE ~(n - pos >= 4 /\ n - text >= Len(s))
    <3>1. Fails({"unexpected_eos"})
      BY <1>1, <2>3, <2>5, <2>6, <2>8 DEF EatStr, pos
    <3>2. n < Len(b)
      BY <1>2, <2>2, <2>3, <2>8
    <3>. QED  BY <3>1, <3>2, FailsProgress DEF b
  <2>. QED  BY <2>7, <2>8
<1>. QED  BY <1>4, <1>5

(* A chunk that is there is read as it is, its reals aside.                *)
LEMMA ReadsChunk ==
    ASSUME NEW image, NEW n \in Nat, Holding(image, n), NEW j \in 1 .. Len(image.chunks),
           ChunkPos(image, j) <= n
    PROVE  LET c == image.chunks[j]
               code == ChunkPos(image, j - 1) + 8
               konst == code + 4 * Len(c.code) + 8
           IN  [code |-> ReadCode(code, Len(c.code)),
                constants |-> ReadConstants(konst, Len(c.constants))] = LoadedChunk(c)
<1>. DEFINE b == Bytes(image)
            c == image.chunks[j]
            lc == Len(c.code)
            lk == Len(c.constants)
            pos == ChunkPos(image, j - 1)
            next == ChunkPos(image, j)
            code == pos + 8
            konst == code + 4 * lc + 8
<1>1. image \in Program /\ \A k \in 1 .. n : buffer[k] = b[k]
  BY HeldIs, Zenon
<1>2. /\ pos \in Nat /\ lc \in Nat \ {0} /\ lk \in Nat
      /\ next = pos + 8 + 4 * lc + 8 + 5 * lk
      /\ \A k \in 1 .. lc :
            LET at == pos + 8 + 4 * k - 4
            IN  /\ b[at + 1] = c.code[k].op /\ b[at + 2] = c.code[k].flag
                /\ b[at + 3] = c.code[k].wide
      /\ \A k \in 1 .. lk :
            LET at == pos + 8 + 4 * lc + 8 + 5 * k - 5
            IN  b[at + 1] = c.constants[k].tag /\ b[at + 2] = c.constants[k].n
  BY <1>1, ChunkAt, Zenon
<1>3. c \in Chunk
  BY <1>1, ImageFields, Zenon
<1>4. /\ c.code \in Seq(Instruction) /\ c.constants \in Seq(Constant_)
      /\ \A k \in 1 .. lc : c.code[k] \in Instruction
  BY <1>3, ChunkFields, Zenon
<1>5. c.code = [k \in 1 .. lc |-> c.code[k]] /\ DOMAIN c.constants = 1 .. lk
  BY <1>4, LenProperties
<1>. HIDE DEF b, c, lc, lk, pos, next
<1>6. next <= n
  BY DEF next
<1>7. ASSUME NEW k \in 1 .. lc
      PROVE  /\ ByteAt(code + 4 * k - 4) = c.code[k].op
             /\ ByteAt(code + 4 * k - 3) = c.code[k].flag
             /\ ByteAt(code + 4 * k - 2) = c.code[k].wide
  <2>. DEFINE at == pos + 8 + 4 * k - 4
  <2>1. b[at + 1] = c.code[k].op /\ b[at + 2] = c.code[k].flag /\ b[at + 3] = c.code[k].wide
    BY <1>2
  <2>2. at + 1 \in 1 .. n /\ at + 2 \in 1 .. n /\ at + 3 \in 1 .. n
    BY <1>2, <1>6
  <2>3. /\ code + 4 * k - 4 + 1 = at + 1 /\ code + 4 * k - 3 + 1 = at + 2
        /\ code + 4 * k - 2 + 1 = at + 3
    BY <1>2
  <2>. HIDE DEF at
  <2>4. /\ ByteAt(code + 4 * k - 4) = buffer[at + 1] /\ ByteAt(code + 4 * k - 3) = buffer[at + 2]
        /\ ByteAt(code + 4 * k - 2) = buffer[at + 3]
    BY <2>3, Zenon DEF ByteAt
  <2>. QED  BY <1>1, <2>1, <2>2, <2>4, Zenon
<1>8. ASSUME NEW k \in 1 .. lk
      PROVE  /\ ByteAt(konst + 5 * k - 5) = c.constants[k].tag
             /\ ByteAt(konst + 5 * k - 4) = c.constants[k].n
  <2>. DEFINE at == pos + 8 + 4 * lc + 8 + 5 * k - 5
  <2>1. b[at + 1] = c.constants[k].tag /\ b[at + 2] = c.constants[k].n
    BY <1>2
  <2>2. at + 1 \in 1 .. n /\ at + 2 \in 1 .. n
    BY <1>2, <1>6
  <2>3. konst + 5 * k - 5 + 1 = at + 1 /\ konst + 5 * k - 4 + 1 = at + 2
    BY <1>2
  <2>. HIDE DEF at, konst
  <2>4. ByteAt(konst + 5 * k - 5) = buffer[at + 1] /\ ByteAt(konst + 5 * k - 4) = buffer[at + 2]
    BY <2>3, Zenon DEF ByteAt
  <2>. QED  BY <1>1, <2>1, <2>2, <2>4, Zenon
<1>. HIDE DEF code, konst
<1>9. ReadCode(code, lc) = c.code
  <2>1. ASSUME NEW k \in 1 .. lc
        PROVE  [op |-> ByteAt(code + 4 * k - 4), flag |-> ByteAt(code + 4 * k - 3),
                wide |-> ByteAt(code + 4 * k - 2)] = c.code[k]
    <3>1. c.code[k] \in Instruction
      BY <1>4
    <3>. DEFINE ins == c.code[k]
    <3>2. ins = [op |-> ins.op, flag |-> ins.flag, wide |-> ins.wide]
      BY <3>1 DEF Instruction
    <3>. QED  BY <1>7, <3>2, Zenon
  <2>. QED  BY <1>5, <2>1, Zenon DEF ReadCode
<1>10. ReadConstants(konst, lk)
         = [k \in DOMAIN c.constants |-> Loaded(c.constants[k].tag, c.constants[k].n)]
  BY <1>5, <1>8, Zenon DEF ReadConstants
<1>11. [code |-> ReadCode(code, lc), constants |-> ReadConstants(konst, lk)] = LoadedChunk(c)
  BY <1>9, <1>10, Zenon DEF LoadedChunk
<1>. QED  BY <1>11, Zenon DEF code, konst, c, lc, lk, pos

(* So is a chunk.                                                          *)
LEMMA EatChunkProgress ==
    ASSUME NEW image, NEW n \in Nat, Holding(image, n), ld \in LoaderType,
           Progress(image, n, ld, prgm), EatChunk
    PROVE  ld' \in LoaderType /\ Progress(image, n, ld', prgm')
<1>. DEFINE b == Bytes(image)
            nc == Len(image.chunks)
            ns == Len(image.strings)
<1>1. PICK j \in 0 .. nc : ld.pos = ChunkPos(image, j) /\ prgm = Part(image, ns, j)
  BY DEF EatChunk, Can, Progress
<1>2. /\ image \in Program /\ Len(b) \in Nat /\ n <= Len(b)
      /\ Len(buffer) = n /\ \A k \in 1 .. n : buffer[k] = b[k]
  BY HeldIs, Zenon
<1>3. nc \in Nat
  BY <1>2, ImageFields, Zenon
<1>. DEFINE pos == ChunkPos(image, j)
            code == pos + 8
<1>4. \A p : Remaining(p) = n - p /\ ByteAt(p) = buffer[p + 1]
  BY <1>2, Zenon DEF Remaining, ByteAt
<1>5. CASE j = nc
  <2>1. pos \in Nat /\ b[pos + 1] = 0 /\ pos + 8 = Len(b)
    BY <1>2, <1>5, MarksAt, Zenon
  <2>2. Part(image, ns, nc) = WithoutReals(image)
    BY <1>2, PartGrows, Zenon
  <2>. HIDE DEF b, pos
  <2>3. Remaining(pos) = n - pos /\ ByteAt(pos) = buffer[pos + 1]
    BY <1>4
  <2>4. CASE n - pos >= 8
    <3>1. ByteAt(pos) = 0 /\ There(pos, 8, 1) /\ n = Len(b) /\ code \in Nat
      BY <1>2, <2>1, <2>3, <2>4 DEF There
    <3>2. Goes(code, "end") /\ prgm' = prgm
      BY <1>1, <3>1 DEF EatChunk, pos
    <3>3. ld' \in LoaderType /\ ld'.state = "end"
      <4>. HIDE DEF code
      <4>. QED  BY <3>1, <3>2, GoesIs DEF LoaderStates
    <3>. QED  BY <1>1, <1>5, <2>2, <3>1, <3>2, <3>3, Zenon DEF Progress, b
  <2>5. CASE ~(n - pos >= 8)
    <3>1. ~There(pos, 8, 1)
      BY <2>1, <2>3, <2>5 DEF There
    <3>2. Fails({"unexpected_eos"})
      BY <1>1, <3>1 DEF EatChunk, pos
    <3>3. n < Len(b)
      BY <1>2, <2>1, <2>5
    <3>. QED  BY <3>2, <3>3, FailsProgress DEF b
  <2>. QED  BY <2>4, <2>5
<1>6. CASE j # nc
  <2>. DEFINE j1 == j + 1
              c == image.chunks[j1]
              lc == Len(c.code)
              lk == Len(c.constants)
              next == ChunkPos(image, j1)
              count == code + 4 * lc
              konst == count + 8
              read == [code |-> ReadCode(code, lc), constants |-> ReadConstants(konst, lk)]
  <2>1. j1 \in 1 .. nc /\ j1 - 1 = j /\ j1 \in 0 .. nc
    BY <1>3, <1>6
  <2>. HIDE DEF j1
  <2>2. /\ ChunkPos(image, j1 - 1) \in Nat /\ lc \in Nat \ {0} /\ lk \in Nat
        /\ next = ChunkPos(image, j1 - 1) + 8 + 4 * lc + 8 + 5 * lk
        /\ next <= Len(b)
        /\ b[ChunkPos(image, j1 - 1) + 1] = lc
        /\ b[ChunkPos(image, j1 - 1) + 8 + 4 * lc + 1] = lk
    BY <1>2, <2>1, ChunkAt, Zenon
  <2>3. /\ pos \in Nat /\ lc \in Nat /\ lc # 0 /\ lk \in Nat
        /\ next = pos + 8 + 4 * lc + 8 + 5 * lk /\ next <= Len(b)
        /\ b[pos + 1] = lc /\ b[pos + 8 + 4 * lc + 1] = lk
    <3>1. ChunkPos(image, j1 - 1) = pos
      BY <2>1, Zenon
    <3>. HIDE DEF pos, next, b, lc, lk
    <3>. QED  BY <2>2, <3>1
  <2>4. next <= n => read = LoadedChunk(c)
    <3>1. next <= n => [code |-> ReadCode(ChunkPos(image, j1 - 1) + 8, lc),
                        constants |-> ReadConstants(ChunkPos(image, j1 - 1) + 8 + 4 * lc + 8, lk)]
                       = LoadedChunk(c)
      BY <2>1, ReadsChunk, Zenon
    <3>. QED  BY <2>1, <3>1, Zenon
  <2>5. Part(image, ns, j1) = [prgm EXCEPT !.chunks = Append(@, LoadedChunk(c))]
    <3>1. Part(image, ns, j1) = [Part(image, ns, j1 - 1) EXCEPT
                                    !.chunks = Append(@, LoadedChunk(c))]
      BY <1>2, <2>1, PartGrows, Zenon
    <3>. QED  BY <1>1, <2>1, <3>1, Zenon
  <2>. HIDE DEF b, pos, c, next, lc, lk, nc, ns
  <2>6. /\ code = pos + 8 /\ count = pos + 8 + 4 * lc /\ konst = pos + 8 + 4 * lc + 8
        /\ Remaining(pos) = n - pos /\ ByteAt(pos) = buffer[pos + 1]
        /\ Remaining(code) = n - code
        /\ Remaining(count) = n - count /\ ByteAt(count) = buffer[count + 1]
        /\ Remaining(konst) = n - konst
    BY <1>4, Zenon
  <2>7. n - pos >= 8 => ByteAt(pos) = lc
    BY <1>2, <2>3, <2>6, SMTT(40)
  <2>8. n - count >= 8 => ByteAt(count) = lk
    BY <1>2, <2>3, <2>6, SMTT(40)
  <2>. HIDE DEF code, count, konst, read
  <2>9. \/ n - pos < 8
        \/ n - pos >= 8 /\ (n - code < 4 * lc \/ n - count < 8)
        \/ n - pos >= 8 /\ n - code >= 4 * lc /\ n - count >= 8 /\ n - konst < 5 * lk
        \/ n - pos >= 8 /\ n - code >= 4 * lc /\ n - count >= 8 /\ n - konst >= 5 * lk
    BY <2>3, <2>6
  <2>10. CASE n - pos < 8
    <3>1. ~There(pos, 8, 1)
      BY <2>3, <2>6, <2>10 DEF There
    <3>2. Fails({"unexpected_eos"})
      BY <1>1, <3>1 DEF EatChunk, pos
    <3>3. n < Len(b)
      BY <1>2, <2>3, <2>10
    <3>. QED  BY <3>2, <3>3, FailsProgress DEF b
  <2>11. CASE n - pos >= 8 /\ (n - code < 4 * lc \/ n - count < 8)
    <3>1. There(pos, 8, 1) /\ ByteAt(pos) = lc
      BY <2>3, <2>6, <2>7, <2>11 DEF There
    <3>2. ~There(code, 4, lc) \/ ~There(count, 8, 1)
      BY <2>3, <2>6, <2>11 DEF There
    <3>3. Fails({"unexpected_eos"})
      BY <1>1, <2>3, <3>1, <3>2, Zenon DEF EatChunk, pos, code, count
    <3>4. n < Len(b)
      BY <1>2, <2>3, <2>6, <2>11
    <3>. QED  BY <3>3, <3>4, FailsProgress DEF b
  <2>12. CASE n - pos >= 8 /\ n - code >= 4 * lc /\ n - count >= 8 /\ n - konst < 5 * lk
    <3>1. There(pos, 8, 1) /\ ByteAt(pos) = lc /\ ByteAt(count) = lk
      BY <2>3, <2>6, <2>7, <2>8, <2>12 DEF There
    <3>2. There(code, 4, lc) /\ There(count, 8, 1) /\ ~There(konst, 5, lk)
      BY <2>3, <2>6, <2>12, SMTT(40) DEF There
    <3>. DEFINE flags == IF Remaining(konst) % 5 = 0 THEN {"unexpected_eos"} ELSE {}
    <3>3. Fails(flags)
      BY <1>1, <2>3, <3>1, <3>2, Zenon DEF EatChunk, pos, code, count, konst
    <3>4. flags \in SUBSET {"invalid_byte", "unexpected_eos"}
      OBVIOUS
    <3>5. n < Len(b)
      BY <1>2, <2>3, <2>6, <2>12
    <3>. HIDE DEF flags
    <3>. QED  BY <3>3, <3>4, <3>5, FailsProgress DEF b
  <2>13. CASE n - pos >= 8 /\ n - code >= 4 * lc /\ n - count >= 8 /\ n - konst >= 5 * lk
    <3>1. There(pos, 8, 1) /\ ByteAt(pos) = lc /\ ByteAt(count) = lk
      BY <2>3, <2>6, <2>7, <2>8, <2>13 DEF There
    <3>2. There(code, 4, lc) /\ There(count, 8, 1) /\ There(konst, 5, lk)
      BY <2>3, <2>6, <2>13, SMTT(40) DEF There
    <3>3. next <= n /\ konst + 5 * lk = next /\ next \in Nat
      BY <2>3, <2>6, <2>13
    <3>4. /\ Goes(konst + 5 * lk, "eat_chunk")
          /\ prgm' = [prgm EXCEPT !.chunks = Append(@, read)]
      BY <1>1, <2>3, <3>1, <3>2, Zenon DEF EatChunk, pos, code, count, konst, read
    <3>5. Goes(next, "eat_chunk") /\ prgm' = Part(image, ns, j1)
      BY <2>4, <2>5, <3>3, <3>4
    <3>6. ld' \in LoaderType /\ ld'.pos = next /\ ld'.state = "eat_chunk"
      BY <3>3, <3>5, GoesIs DEF LoaderStates
    <3>. QED  BY <2>1, <3>5, <3>6, Zenon DEF Progress, next, ns, nc
  <2>. QED  BY <2>9, <2>10, <2>11, <2>12, <2>13
<1>. QED  BY <1>5, <1>6
(* A loader starts with nothing to read and no program.                    *)
LEMMA LoaderStarts == LoaderInit => LoaderInv
<1>. SUFFICES ASSUME LoaderInit PROVE LoaderInv
  OBVIOUS
<1>1. ld \in LoaderType /\ ld.state = "eat_prefix"
  BY DEF LoaderInit, FreshLoader, LoaderType, LoaderStates
<1>2. ~Loading
  BY DEF LoaderInit, Loading
<1>3. WholeOrNothing
  BY DEF LoaderInit, NoLoad, WholeOrNothing
<1>. QED  BY <1>1, <1>2, <1>3 DEF LoaderInv

(* A turn of the dispatch reads one section, and only a fresh loader's     *)
(* dispatch has a turn.                                                    *)
LEMMA EatsKeep ==
    ASSUME LoaderInv, Loading, EatPrefix \/ EatMeta \/ EatStr \/ EatChunk,
           UNCHANGED <<buffer, asked>>
    PROVE  LoaderInv'
<1>1. PICK n \in Nat :
          /\ Holding(asked.image, n)
          /\ asked.cut = (n < Len(Bytes(asked.image)))
          /\ asked.fresh => Progress(asked.image, n, ld, prgm)
          /\ ~asked.fresh => ld.state \in {"end", "err"} /\ prgm = NoProgram
  BY DEF LoaderInv
<1>2. ld \in LoaderType
  BY DEF LoaderInv
<1>3. asked.fresh
  BY <1>1 DEF EatPrefix, EatMeta, EatStr, EatChunk, Can
<1>4. ld' \in LoaderType /\ Progress(asked.image, n, ld', prgm')
  BY <1>1, <1>2, <1>3, EatPrefixProgress, EatMetaProgress, EatStrProgress, EatChunkProgress, Zenon
<1>5. Loading' /\ Holding(asked.image, n)' /\ asked' = asked
  BY <1>1 DEF Loading, Holding
<1>. DEFINE there(m) == /\ Holding(asked.image, m)
                        /\ asked.cut = (m < Len(Bytes(asked.image)))
                        /\ asked.fresh => Progress(asked.image, m, ld, prgm)
                        /\ ~asked.fresh => ld.state \in {"end", "err"} /\ prgm = NoProgram
<1>6. there(n)'
  BY <1>1, <1>3, <1>4, <1>5, Zenon
<1>7. \E m \in Nat : there(m)'
  BY <1>6
<1>. QED  BY <1>4, <1>5, <1>7, Zenon DEF LoaderInv

(* What comes back is the whole program, or nothing.                       *)
LEMMA ReturnKeeps ==
    ASSUME LoaderInv, LoadReturns
    PROVE  LoaderInv'
<1>1. PICK n \in Nat :
          /\ Holding(asked.image, n)
          /\ asked.cut = (n < Len(Bytes(asked.image)))
          /\ asked.fresh => Progress(asked.image, n, ld, prgm)
          /\ ~asked.fresh => ld.state \in {"end", "err"} /\ prgm = NoProgram
  BY DEF LoaderInv, LoadReturns
<1>2. /\ ld.state \in {"end", "err"} /\ buffer' = <<>>
      /\ prgm' = IF ld.state = "err" THEN NoProgram ELSE prgm
      /\ ld' = ld /\ asked' = asked
  BY DEF LoadReturns, Returned
<1>3. n <= Len(Bytes(asked.image)) /\ Len(Bytes(asked.image)) \in Nat
  BY <1>1, HeldIs, Zenon
<1>4. ASSUME asked.fresh /\ ~asked.cut
      PROVE  prgm' = WithoutReals(asked.image)
  <2>1. ld.state = "end" /\ prgm = WithoutReals(asked.image)
    BY <1>1, <1>2, <1>3, <1>4 DEF Progress
  <2>. QED  BY <1>2, <2>1
<1>5. ASSUME ~(asked.fresh /\ ~asked.cut)
      PROVE  prgm' = NoProgram
  <2>1. CASE asked.fresh
    <3>1. n < Len(Bytes(asked.image))
      BY <1>1, <1>5, <2>1
    <3>2. n # Len(Bytes(asked.image))
      BY <1>3, <3>1
    <3>3. ld.state = "err"
      BY <1>1, <1>2, <2>1, <3>2 DEF Progress
    <3>. QED  BY <1>2, <3>3
  <2>2. CASE ~asked.fresh
    BY <1>1, <1>2, <2>2
  <2>. QED  BY <2>1, <2>2
<1>6. WholeOrNothing'
  BY <1>2, <1>4, <1>5, Zenon DEF WholeOrNothing
<1>7. ~Loading'
  BY <1>2 DEF Loading
<1>8. ld \in LoaderType
  BY DEF LoaderInv
<1>. QED  BY <1>2, <1>6, <1>7, <1>8 DEF LoaderInv

(* A load begins at the first section, or, by a loader that is not fresh,  *)
(* past the last one.                                                      *)
LEMMA LoadKeeps ==
    ASSUME LoaderInv, NEW image \in Images, NEW n \in 1 .. Len(Bytes(image)), LoadFrom(image, n)
    PROVE  LoaderInv'
<1>1. /\ ~Loading /\ buffer' = SubSeq(Bytes(image), 1, n)
      /\ ld' = [ld EXCEPT !.pos = 0] /\ prgm' = NoProgram
      /\ asked' = [image |-> image, cut |-> n < Len(Bytes(image)), fresh |-> ld.state = "eat_prefix"]
  BY DEF LoadFrom
<1>2. ld \in LoaderType /\ ld.state \in {"eat_prefix", "end", "err"}
  BY <1>1 DEF LoaderInv
<1>3. ld' \in LoaderType /\ ld'.state = ld.state /\ ld'.pos = 0
  BY <1>1, <1>2 DEF LoaderType
<1>4. image \in Program /\ n \in Nat /\ n >= 1
  <2>1. Bytes(image) \in Seq(Cell)
    BY LoaderAssumption, BytesIs
  <2>2. Len(Bytes(image)) \in Nat
    BY <2>1, LenProperties
  <2>. QED  BY <2>2, LoaderAssumption
<1>5. Loading'
  <2>. DEFINE b == Bytes(image)
  <2>1. b \in Seq(Cell)
    BY <1>4, BytesIs, Zenon
  <2>. HIDE DEF b
  <2>2. Len(b) \in Nat /\ \A k \in 1 .. Len(b) : b[k] \in Cell
    BY <2>1, LenProperties, ElementOfSeq
  <2>3. n <= Len(b)
    BY <2>2 DEF b
  <2>4. \A k \in 1 .. n : b[k] \in Cell
    BY <1>4, <2>2, <2>3
  <2>5. 1 \in Int /\ n \in Int /\ 1 <= n /\ n - 1 + 1 = n
    BY <1>4
  <2>6. /\ SubSeq(b, 1, n) \in Seq(Cell)
        /\ Len(SubSeq(b, 1, n)) = IF 1 <= n THEN n - 1 + 1 ELSE 0
    BY <2>4, <2>5, SubSeqProperties
  <2>7. SubSeq(b, 1, n) # <<>>
    <3>. DEFINE cut == SubSeq(b, 1, n)
    <3>1. cut \in Seq(Cell) /\ Len(cut) = n
      BY <2>5, <2>6
    <3>. HIDE DEF cut
    <3>2. cut # <<>>
      BY <1>4, <3>1, EmptySeq
    <3>. QED  BY <3>2 DEF cut
  <2>. QED  BY <1>1, <2>7 DEF Loading, b
<1>6. Holding(image, n)'
  BY <1>1 DEF Holding
<1>7. /\ asked'.image = image /\ asked'.cut = (n < Len(Bytes(image)))
      /\ asked'.fresh = (ld.state = "eat_prefix")
  BY <1>1
<1>8. ld.state = "eat_prefix" => Progress(image, n, ld', prgm')
  BY <1>1, <1>3 DEF Progress
<1>9. ld.state # "eat_prefix" => ld'.state \in {"end", "err"} /\ prgm' = NoProgram
  BY <1>1, <1>2, <1>3
<1>. DEFINE there(m) == /\ Holding(asked.image, m)
                        /\ asked.cut = (m < Len(Bytes(asked.image)))
                        /\ asked.fresh => Progress(asked.image, m, ld, prgm)
                        /\ ~asked.fresh => ld.state \in {"end", "err"} /\ prgm = NoProgram
<1>10. Holding(asked.image, n)'
  BY <1>6, <1>7 DEF Holding
<1>11. there(n)'
  BY <1>7, <1>8, <1>9, <1>10, Zenon
<1>12. \E m \in Nat : there(m)'
  BY <1>4, <1>11
<1>. QED  BY <1>3, <1>5, <1>12, Zenon DEF LoaderInv

(* The loader is always between two sections of what it reads, with all of *)
(* what comes before it in the program.                                    *)
THEOREM LoaderInvariant == LoaderSpec => []LoaderInv
<1>1. ASSUME LoaderInv, [LoaderNext]_loader_vars
      PROVE  LoaderInv'
  <2>1. CASE Loading /\ (EatPrefix \/ EatMeta \/ EatStr \/ EatChunk) /\ UNCHANGED <<buffer, asked>>
    BY <1>1, <2>1, EatsKeep
  <2>2. CASE LoadReturns
    BY <1>1, <2>2, ReturnKeeps
  <2>3. CASE Dud
    <3>1. /\ ld' = [pos |-> 0, state |-> "eat_prefix", flags |-> {}] /\ ~Loading
          /\ buffer' = buffer /\ prgm' = prgm /\ asked' = asked
      BY <2>3 DEF Dud, FreshLoader
    <3>2. ld' \in LoaderType /\ ld'.state = "eat_prefix" /\ ~Loading'
      BY <3>1 DEF LoaderType, LoaderStates, Loading
    <3>3. WholeOrNothing'
      BY <1>1, <3>1 DEF LoaderInv, WholeOrNothing, Loading
    <3>. QED  BY <3>2, <3>3 DEF LoaderInv
  <2>4. ASSUME NEW image \in Images, NEW n \in 1 .. Len(Bytes(image)), LoadFrom(image, n)
        PROVE  LoaderInv'
    BY <1>1, <2>4, LoadKeeps
  <2>5. CASE UNCHANGED loader_vars
    BY <1>1, <2>5
      DEF loader_vars, LoaderInv, Loading, WholeOrNothing, Holding
  <2>. QED  BY <1>1, <2>1, <2>2, <2>3, <2>4, <2>5, Zenon DEF LoaderNext
<1>. QED  BY <1>1, LoaderStarts, PTL DEF LoaderSpec

(* A load by a fresh loader gives all of the program, or, where the buffer *)
(* is cut anywhere, the empty program: never a part of it (tbl_load_from). *)
THEOREM LoaderWhole == LoaderSpec => []WholeOrNothing
<1>1. LoaderInv => WholeOrNothing
  BY DEF LoaderInv, WholeOrNothing
<1>. QED  BY <1>1, LoaderInvariant, PTL
=============================================================================
