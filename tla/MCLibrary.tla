----------------------------- MODULE MCLibrary -----------------------------
(* What programs use besides the machine, one part at a time: two lists    *)
(* with an iterator, a dict with keys of which some have one hash, two     *)
(* streams on an old file and a new one, a string with an iterator, and    *)
(* the images of two programs, cut at every byte.                          *)
EXTENDS ListObjects, DictTree, Streams, Strings, Loader

(* Hashes 0, 0, 1, 3, 5, 5: NIL is as 0, and 256 as 5.                     *)
AKey == {[tag |-> "nil", n |-> 0], [tag |-> "int", n |-> 0],
         [tag |-> "bool", n |-> 0], [tag |-> "bool", n |-> 1],
         [tag |-> "int", n |-> 5], [tag |-> "int", n |-> 256]}

ACut == {-1, 0, 1, 2}
Renamed == Permutations(ListIds)
    \cup Permutations(Value) \cup Permutations(StreamIds)

AText == <<7, 0>>
SomeTexts == {<<>>, <<65>>, <<10, -1, 65>>}
SomeLists == {<<256>>, <<256, 7>>, <<7, NonInt>>}

AnIns(op, flag, wide) == [op |-> op, flag |-> flag, wide |-> wide]
AValue(tag, n) == [tag |-> tag, n |-> n]
SomeImages ==
    {NoProgram,
     [entry_id |-> 1, strings |-> <<<<"x">>, <<"y", "z">>>>,
      chunks |-> <<[code |-> <<AnIns("put_k", 0, 0)>>,
                    constants |-> <<AValue("real", -5), AValue("bool", 2)>>],
                   [code |-> <<AnIns("nop", 0, 0), AnIns("ret", 0, 1)>>,
                    constants |-> <<>>]>>]}

LibraryInit == ListInit /\ TreeInit /\ StreamInit /\ StringInit /\ LoaderInit

ListMoves ==
    /\ TreeInit /\ StreamInit /\ StringInit /\ LoaderInit
    /\ ListNext
    /\ UNCHANGED <<tree_vars, stream_vars, string_vars, loader_vars>>
TreeMoves ==
    /\ ListInit /\ StreamInit /\ StringInit /\ LoaderInit
    /\ TreeNext
    /\ UNCHANGED <<list_vars, stream_vars, string_vars, loader_vars>>
StreamMoves ==
    /\ ListInit /\ TreeInit /\ StringInit /\ LoaderInit
    /\ StreamNext
    /\ UNCHANGED <<list_vars, tree_vars, string_vars, loader_vars>>
StringMoves ==
    /\ ListInit /\ TreeInit /\ StreamInit /\ LoaderInit
    /\ StringNext
    /\ UNCHANGED <<list_vars, tree_vars, stream_vars, loader_vars>>
LoaderMoves ==
    /\ ListInit /\ TreeInit /\ StreamInit /\ StringInit
    /\ LoaderNext
    /\ UNCHANGED <<list_vars, tree_vars, stream_vars, string_vars>>

(* The history variables are left out where no property reads them but as  *)
(* the step itself put them there; no action reads them.                   *)
NoHistory ==
    <<lists, iters, copy, nodes, root, mutable, files, handles, streams, string_vars,
      loader_vars>>

LibrarySpec ==
    /\ LibraryInit
    /\ [][ListMoves \/ TreeMoves \/ StreamMoves \/ StringMoves \/ LoaderMoves
         ]_<<list_vars, tree_vars, stream_vars, string_vars, loader_vars>>
=============================================================================
