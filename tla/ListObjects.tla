---------------------------- MODULE ListObjects ----------------------------
(***************************************************************************)
(* Lists and iterators as a program sees them: src/src/obj_list.c and      *)
(* src/src/obj_iterator.c with the native functions of                     *)
(* src/src/tb_list_stdlib.c and src/src/tb_obj_stdlib.c.                   *)
(*                                                                         *)
(* A list is an array that never gets shorter, in memory that moves when   *)
(* it grows past its capacity, and a flag.  An iterator is two pointers    *)
(* into that memory: positions, and whether that memory is still there.    *)
(*                                                                         *)
(* Abstractions: the heap is the set of lists and the set of iterators     *)
(* there are; natives are called with lists and iterators only; realloc    *)
(* always moves.  A list that moves has a greater capacity, so that the    *)
(* capacity tells the memory it is in from all it was in before.           *)
(*                                                                         *)
(* A native function is one step but for lscat, whose loop may write to    *)
(* the list it reads from: one step per turn.  Nothing runs in between.    *)
(***************************************************************************)
EXTENDS Integers, Sequences, SequencesExt

CONSTANTS
    ListIds, IterIds,   \* ids of the objects
    Item,               \* what is put into lists
    Nil,                \* NIL, as an item and as a key
    SizeValues,         \* values of a size_t: 2^64
    Numbers,            \* integers a program passes
    MaxItems            \* bound on the items of a list

(* The integers of a program are of 32 bits: no sum of two of them wraps   *)
(* as a size_t when both are positive.                                     *)
ASSUME ListAssumption ==
    /\ Nil \notin Item /\ Nil \notin Int /\ Numbers \subseteq Int
    /\ SizeValues \in Nat \ {0} /\ MaxItems \in Nat
    /\ \A n \in Numbers : 2 * n < SizeValues

VARIABLES
    lists,          \* lists[l] is a list, or Erased
    iters,          \* iters[i] is an iterator, or Erased
    copy,           \* the locals of native_lscat while it runs, or NoCopy
    call            \* history, read by no action: the last lscut and its list

list_vars == <<lists, iters, copy, call>>

NoCall == [native |-> "none"]
NoCopy == [pos |-> 0]
Erased == [alive |-> FALSE]

Items(l) == lists[l].items
Alive == {l \in ListIds : lists[l].alive}

ListInit ==
    /\ lists = [l \in ListIds |-> Erased]
    /\ iters = [i \in IterIds |-> Erased]
    /\ copy = NoCopy
    /\ call = NoCall

-----------------------------------------------------------------------------
(* alloc_list and its vtable                                               *)

NewList(size) ==
    [alive |-> TRUE, mutable |-> TRUE, items |-> <<>>,
     capacity |-> IF size > 0 THEN size ELSE 1]

ListPushed(list, item) ==
    IF Len(list.items) < list.capacity THEN [list EXCEPT !.items = Append(@, item)]
    ELSE [list EXCEPT !.items = Append(@, item), !.capacity = 1 + (@ * 3) \div 2]

(* A frozen list says yes and stays as it is.  The mutant asks for the     *)
(* flag only where an item is replaced.                                    *)
MutSetV(list, key, item) ==
    CASE key = Nil -> ListPushed(list, item)
      [] list.mutable /\ key # Nil /\ key + 1 \in DOMAIN list.items ->
            [list EXCEPT !.items[key + 1] = item]
      [] OTHER -> list
SetV(list, key, item) ==
    CASE ~list.mutable -> list
      [] list.mutable /\ key = Nil -> ListPushed(list, item)
      [] list.mutable /\ key # Nil /\ key + 1 \in DOMAIN list.items ->
            [list EXCEPT !.items[key + 1] = item]
      [] OTHER -> list

(* The list after n of the items were pushed, one by one.                  *)
Filled(list, items, n) ==
    LET after[i \in 0 .. n] ==
            IF i = 0 THEN list ELSE SetV(after[i - 1], Nil, items[i])
    IN  after[n]

(* What may be read at n through a pointer into the memory that l was in   *)
(* when it had that capacity: anything, past the end of the list and when  *)
(* the list has moved.                                                     *)
ReadAt(l, capacity, n) ==
    IF lists[l].capacity = capacity /\ n \in DOMAIN Items(l)
      THEN {Items(l)[n]} ELSE Item \cup {Nil}

(* The iterators when the memory of l is gone.                             *)
Dangling(l) ==
    [i \in IterIds |->
        IF iters[i].alive /\ iters[i].list = l
          THEN [iters[i] EXCEPT !.dangling = TRUE] ELSE iters[i]]

Fits(list) == Len(list.items) <= MaxItems
Changes(l, list) ==
    /\ l \in Alive /\ Fits(list)
    /\ lists' = [lists EXCEPT ![l] = list]
    /\ iters' = IF list.capacity = lists[l].capacity THEN iters ELSE Dangling(l)

(* Into a free cell of the heap.                                           *)
Stores(list) ==
    /\ Fits(list)
    /\ \E l \in ListIds \ Alive : lists' = [lists EXCEPT ![l] = list]
    /\ UNCHANGED iters

-----------------------------------------------------------------------------
(* What a program does                                                     *)

MkList(items) ==
    /\ Stores(Filled(NewList(Len(items)), items, Len(items)))
    /\ call' = NoCall

SetItem(l, key, item) ==
    /\ l \in Alive
    /\ Changes(l, SetV(lists[l], key, item))
    /\ call' = NoCall

Freeze(l) == Changes(l, [lists[l] EXCEPT !.mutable = FALSE]) /\ call' = NoCall
Thaw(l) == Changes(l, [lists[l] EXCEPT !.mutable = TRUE]) /\ call' = NoCall

(* lsrev and lsclr work on the memory and do not ask for the flag.         *)
ReverseList(l) ==
    /\ l \in Alive
    /\ Changes(l, [lists[l] EXCEPT !.items = Reverse(@)])
    /\ call' = NoCall

ClearList(l) ==
    /\ l \in Alive
    /\ Changes(l, [lists[l] EXCEPT !.items = [n \in DOMAIN @ |-> Nil]])
    /\ call' = NoCall

(* lscat(dest, src).  The length of the source is read once.  onto, from   *)
(* and capacity are history: what the lists held and where the source was. *)
CatBegin(dest, src) ==
    /\ dest \in Alive /\ src \in Alive
    /\ Len(Items(dest)) + Len(Items(src)) <= MaxItems
    /\ copy' = [dest |-> dest, src |-> src, length |-> Len(Items(src)), pos |-> 0,
                onto |-> Items(dest), from |-> Items(src),
                capacity |-> lists[src].capacity]
    /\ UNCHANGED <<lists, iters>>

Copying == copy # NoCopy
CopyEnds == copy.pos >= copy.length

(* The memory that an item is read from: src_list->data.data, which may    *)
(* be another one at each turn.  The mutant keeps the pointer of the first.*)
MutSourceMemory == copy.capacity
SourceMemory == lists[copy.src].capacity

CatTurn ==
    /\ Copying /\ ~CopyEnds
    /\ \E item \in ReadAt(copy.src, SourceMemory, copy.pos + 1) :
          Changes(copy.dest, SetV(lists[copy.dest], Nil, item))
    /\ copy' = [copy EXCEPT !.pos = @ + 1]

CatEnd ==
    /\ Copying /\ CopyEnds
    /\ copy' = NoCopy
    /\ UNCHANGED <<lists, iters>>

(* lscut(list, begin, length).  Both numbers become size_t, and so does    *)
(* their sum; a length that no memory can be had for kills the process.    *)
(* What lies outside of the list may be anything.                          *)
Size(n) == n % SizeValues
MutCutFits(l, begin, length) == Size(begin) <= Len(Items(l))
CutFits(l, begin, length) == Size(Size(begin) + Size(length)) <= Len(Items(l))

CutList(l, begin, length) ==
    LET cuts == {cut \in [1 .. length -> Item \cup {Nil}] :
                    \A n \in 1 .. length :
                        cut[n] \in ReadAt(l, lists[l].capacity, Size(begin) + n)}
    IN  /\ l \in Alive
        /\ IF CutFits(l, begin, length) /\ Alive # ListIds
             THEN /\ Size(length) = length
                  /\ \E cut \in cuts : Stores(Filled(NewList(length), cut, length))
             ELSE UNCHANGED <<lists, iters>>
        /\ call' = [native |-> "lscut", src |-> l, begin |-> begin, length |-> length]

-----------------------------------------------------------------------------
(* Iterators                                                               *)

MkIter(i, l) ==
    /\ l \in Alive /\ ~iters[i].alive
    /\ iters' = [iters EXCEPT ![i] = [alive |-> TRUE, list |-> l, pos |-> 0,
                    end |-> Len(Items(l)), dangling |-> FALSE]]
    /\ UNCHANGED lists
    /\ call' = NoCall

(* The two pointers are all that is looked at.  The mutant does not look   *)
(* for the end.                                                            *)
MutMoved(iter) == [iter EXCEPT !.pos = @ + 1]
Moved(iter) == IF iter.pos = iter.end THEN iter ELSE [iter EXCEPT !.pos = @ + 1]
MvIter(i) ==
    /\ iters[i].alive
    /\ iters[i].pos <= MaxItems
    /\ iters' = [iters EXCEPT ![i] = Moved(@)]
    /\ UNCHANGED lists
    /\ call' = NoCall

(* An iterator does not keep its list: the collector erases either.        *)
CollectList(l) ==
    /\ l \in Alive
    /\ lists' = [lists EXCEPT ![l] = Erased]
    /\ iters' = Dangling(l)
    /\ call' = NoCall

CollectIter(i) ==
    /\ iters[i].alive
    /\ iters' = [iters EXCEPT ![i] = Erased]
    /\ UNCHANGED lists
    /\ call' = NoCall

-----------------------------------------------------------------------------

ListHandler ==
    \/ \E x \in Item : MkList(<<>>) \/ MkList(<<x>>)
    \/ \E l \in ListIds :
         \/ Freeze(l) \/ Thaw(l) \/ ReverseList(l) \/ ClearList(l) \/ CollectList(l)
         \/ \E x \in Item, key \in Numbers \cup {Nil} : SetItem(l, key, x)
         \/ \E begin, length \in Numbers : CutList(l, begin, length)
    \/ \E i \in IterIds :
         MvIter(i) \/ CollectIter(i) \/ \E l \in ListIds : MkIter(i, l)

CatLists ==
    \/ ~Copying /\ \E dest, src \in ListIds : CatBegin(dest, src)
    \/ CatTurn \/ CatEnd

ListNext ==
    \/ ~Copying /\ ListHandler /\ UNCHANGED copy
    \/ CatLists /\ call' = NoCall

ListSpec == ListInit /\ [][ListNext]_list_vars

-----------------------------------------------------------------------------
(* Properties                                                              *)

(* While a list stays frozen its length never changes, and its items only  *)
(* by lsrev or lsclr, which ignore the flag: nothing is stored into it by  *)
(* way of an assignment or of lscat.                                       *)
FrozenStay ==
    [][\A l \in Alive :
         lists'[l].alive /\ ~lists[l].mutable /\ ~lists'[l].mutable =>
            lists'[l].items \in {Items(l), Reverse(Items(l)), [n \in DOMAIN Items(l) |-> Nil]}
      ]_list_vars

(* While lscat runs the destination holds what it held and, behind that,   *)
(* the first items that the source held when lscat was called: at the end  *)
(* all of them.  Also when a list is joined to itself, so that its source  *)
(* grows and moves between the turns.  A frozen list stays as it was.      *)
CatJoins ==
    Copying =>
        LET joined == Items(copy.dest)
        IN  /\ \E n \in 0 .. Len(copy.from) :
                  joined = copy.onto \o SubSeq(copy.from, 1, n)
            /\ CopyEnds =>
                  joined = copy.onto \o (IF lists[copy.dest].mutable THEN copy.from ELSE <<>>)

(* With numbers that are not negative lscut makes a list of items of the   *)
(* list only, those of the slice, and makes none when it does not fit.     *)
CutInside ==
    [][call'.native = "lscut" /\ call'.begin >= 0 /\ call'.length >= 0 =>
         LET from == Items(call'.src)
             end == call'.begin + call'.length
         IN  \A l \in ListIds : lists'[l] # lists[l] =>
                /\ end <= Len(from)
                /\ lists'[l].items = SubSeq(from, call'.begin + 1, end)
      ]_list_vars

(* Until its list is collected or moved, an iterator looks at items of the *)
(* list and at nothing past them, whatever is done to the list meanwhile.  *)
IteratorsInside ==
    \A i \in IterIds : iters[i].alive /\ ~iters[i].dangling =>
        /\ lists[iters[i].list].alive
        /\ iters[i].pos <= iters[i].end
        /\ iters[i].end <= Len(Items(iters[i].list))
=============================================================================
