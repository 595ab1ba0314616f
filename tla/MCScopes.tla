------------------------------ MODULE MCScopes ------------------------------
(* Sources of a few statements and lambdas over two names, one more that   *)
(* functions have too, and one constant.                                   *)
EXTENDS Scopes

CONSTANTS a, b, f, one

ManyNames == {a, b, f}
OneRoutine == {f}
OneLiteral == {one}
SomeParams == {<<a>>, <<b>>}
SomeUses == {<<>>, <<a>>, <<b>>, <<b, a>>, <<a, b>>}

Renamed == Permutations({a, b})
=============================================================================
