----------------------------- MODULE Arithmetic -----------------------------
(***************************************************************************)
(* What the instructions of src/src/vm.c that compute leave on the stack,  *)
(* the super-instructions of the optimizer included.                       *)
(*                                                                         *)
(* Abstractions: the only float is NAN, which every operation on operands  *)
(* of different types, and every one on types without arithmetic, answers; *)
(* integers have 31 bits, do not leave them, and are shifted by distances  *)
(* that C defines.                                                         *)
(***************************************************************************)
EXTENDS Bytecode, Integers, Sequences, SequencesExt

Int_(i) == [tag |-> "int", data |-> i]
Nil == [tag |-> "nil", data |-> 0]
Bool(b) == [tag |-> "bool", data |-> IF b THEN 1 ELSE 0]
Nan == [tag |-> "real", data |-> 0]

(* C's quotient, rounded towards 0.                                        *)
Abs(i) == IF i < 0 THEN -i ELSE i
Quotient(i, j) ==
    IF (i < 0) = (j < 0) THEN Abs(i) \div Abs(j) ELSE -(Abs(i) \div Abs(j))

(* In two's complement, bit by bit; bit 30 is the sign.                    *)
Bit(i, k) == (i \div 2^k) % 2
BitOf(op, a, b) ==
    CASE op = "bit_and" -> a * b
      [] op = "bit_or" -> a + b - a * b
      [] op = "bit_xor" -> (a + b) % 2
BitByBit(op, i, j) ==
    MapThenSumSet(LAMBDA k : BitOf(op, Bit(i, k), Bit(j, k)) * 2^k, 0 .. 29)
      - BitOf(op, Bit(i, 30), Bit(j, 30)) * 2^30

Apply(op, lhs, rhs) ==
    IF lhs.tag # "int" \/ rhs.tag # "int" THEN Nan
    ELSE CASE op = "mul" -> Int_(lhs.data * rhs.data)
           [] op = "add" -> Int_(lhs.data + rhs.data)
           [] op = "sub" -> Int_(lhs.data - rhs.data)
           [] op = "div" -> IF rhs.data = 0 THEN Nan ELSE Int_(Quotient(lhs.data, rhs.data))
           [] op \in {"bit_and", "bit_or", "bit_xor"} ->
                 Int_(BitByBit(op, lhs.data, rhs.data))
           [] op = "bit_shl" -> Int_(lhs.data * 2^rhs.data)
           [] op = "bit_shr" -> Int_(lhs.data \div 2^rhs.data)

Complement(v) == IF v.tag = "int" THEN Int_(-v.data - 1) ELSE Nan

(* Operands of different types are neither equal nor different, and so are *)
(* strings and objects, of one type too.  NAN differs from itself.         *)
Compares(op, lhs, rhs) ==
    /\ lhs.tag = rhs.tag
    /\ \/ lhs.tag = "nil" /\ op = "eq"
       \/ lhs.tag = "real" /\ op = "ne"
       \/ /\ lhs.tag \in {"bool", "int"}
          /\ \/ op = "eq" /\ lhs.data = rhs.data
             \/ op = "ne" /\ lhs.data # rhs.data
             \/ op = "lt" /\ lhs.data < rhs.data
             \/ op = "gt" /\ lhs.data > rhs.data

Operations == {"mul", "div", "add", "sub"}
BitOperations == {"bit_and", "bit_or", "bit_xor", "bit_shl", "bit_shr"}
Comparisons == {"eq", "ne", "lt", "gt"}
Computations == Operations \cup BitOperations \cup Comparisons

Result(op, lhs, rhs) ==
    IF op \in Comparisons THEN Bool(Compares(op, lhs, rhs)) ELSE Apply(op, lhs, rhs)

(* The operation of a super-instruction, by where its operands come from.  *)
SuperOps == [
    kl |-> [mul |-> "mul_kl", div |-> "div_kl", add |-> "add_kl", sub |-> "sub_kl"],
    kk |-> [mul |-> "mul_kk", div |-> "div_kk", add |-> "add_kk", sub |-> "sub_kk"],
    ll |-> [mul |-> "mul_ll", div |-> "div_ll", add |-> "add_ll", sub |-> "sub_ll"]]
Supers(pair) == {SuperOps[pair][op] : op \in Operations}
AllSupers == Supers("kl") \cup Supers("kk") \cup Supers("ll")
OperationOf(pair, super) == CHOOSE op \in Operations : SuperOps[pair][op] = super

(* In a kl instruction the local is the left operand.                      *)
KL(ins, constants, locals) ==
    Apply(OperationOf("kl", ins.op), locals[ins.wide], constants[ins.flag])
KK(ins, constants) ==
    Apply(OperationOf("kk", ins.op), constants[ins.flag], constants[ins.wide])
LL(ins, locals) ==
    Apply(OperationOf("ll", ins.op), locals[ins.flag], locals[ins.wide])

(* One instruction: from the operands before it to those after it.         *)
Exec(ins, operands, constants, locals) ==
    LET base == SubSeq(operands, 1, Len(operands) - 2)
    IN  CASE ins.op = "put_k" -> Append(operands, constants[ins.wide])
          [] ins.op = "load_local" -> Append(operands, locals[ins.wide])
          [] ins.op \in Computations ->
                Append(base, Result(ins.op, operands[Len(base) + 1], Last(operands)))
          [] ins.op \in Supers("kl") -> Append(operands, KL(ins, constants, locals))
          [] ins.op \in Supers("kk") -> Append(operands, KK(ins, constants))
          [] ins.op \in Supers("ll") -> Append(operands, LL(ins, locals))
          [] OTHER -> operands

(* What code without jumps leaves on an empty stack.                       *)
Results(code, constants, locals) ==
    LET after[n \in 0 .. Len(code)] ==
            IF n = 0 THEN <<>> ELSE Exec(code[n], after[n - 1], constants, locals)
    IN  after[Len(code)]
=============================================================================
