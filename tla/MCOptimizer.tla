---------------------------- MODULE MCOptimizer -----------------------------
(***************************************************************************)
(* The optimizer on the code of expressions over two constants and two     *)
(* locals: sums and products, nested on either side, comparisons and bit   *)
(* operations among them, and what jumps past a part of an expression.     *)
(***************************************************************************)
EXTENDS Optimizer, Codegen

(* A third constant, and the callee under the locals, are there although   *)
(* no expression mentions them; of many constants, the last whose id fits  *)
(* the flag of a super-instruction, and the next.                          *)
SomeConstants ==
    {table @@ (2 :> Int_(7)) @@ (255 :> Int_(5)) @@ (256 :> Int_(4)) :
        table \in [0 .. 1 -> {Int_(0), Int_(3)}]}
SomeLocals == {slots @@ (0 :> Int_(1)) : slots \in [1 .. 2 -> {Int_(2), Nil}]}

Atoms == {Constant(0), Constant(1), Local(1), Local(2)}
BinariesOf(ops, lefts, rights) == {Binary(op, l, r) : op \in ops, l \in lefts, r \in rights}
Flat == BinariesOf(Operations, Atoms, Atoms)
Sums ==
    Flat
      \cup BinariesOf(Operations, Flat, Atoms)
      \cup BinariesOf(Operations, Atoms, Flat)
      \cup BinariesOf({"sub"}, Flat, Flat)

Short(lefts, rights) ==
    UNION {{And(l, r), Or(l, r), NullCoal(l, r)} : l \in lefts, r \in rights}
Joined ==
    LET joins == Short(Atoms, Atoms)
        some == BinariesOf({"add"}, {Local(1)}, Atoms)
    IN  BinariesOf({"mul", "sub"}, joins, Atoms)
          \cup BinariesOf({"mul", "sub"}, Atoms, joins)
          \cup Short(some, joins)
          \cup {IfElse(test, Let(1, a), Let(2, b)) : test \in joins, a \in some, b \in some}
          \cup {While(Or(a, Local(2)), Let(1, b) \o Break) : a \in Atoms, b \in some}

(* Operations the table has no edge for, between those it has.             *)
Others ==
    LET ops == Comparisons \cup BitOperations
        flat == BinariesOf(ops, Atoms, Atoms)
    IN  BinariesOf({"sub"}, flat, Atoms) \cup BinariesOf({"sub"}, Atoms, flat)
          \cup BinariesOf(ops \ {"bit_shl", "bit_shr"}, Atoms, Flat)

Late ==
    BinariesOf(Operations, {Local(1), Constant(255)}, {Constant(255), Constant(256)})
      \cup BinariesOf({"add"}, {Constant(255)}, {Local(1)})

Expressions == Sums \cup Joined \cup Others \cup Late

(* 1 - a, with the local a.                                                *)
OneMinusLocal == {Binary("sub", Constant(1), Local(1))}
=============================================================================
