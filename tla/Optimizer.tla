----------------------------- MODULE Optimizer ------------------------------
(***************************************************************************)
(* The peephole optimizer, src/src/optimizer.c: a state machine that reads *)
(* the code of a chunk once, from its first instruction to its last, and   *)
(* replaces two loads and the arithmetic on them by one super-instruction  *)
(* and two NOPs.  driver_compile applies it to every chunk.                *)
(*                                                                         *)
(* A state of the table that replaces is named for its super-instruction.  *)
(***************************************************************************)
EXTENDS Arithmetic, FiniteSets

CONSTANTS
    Codes,          \* the chunks that are optimized
    Constants,      \* the tables of constants, and the locals by slot,
    Locals          \* that they may run with

Instruction == [op : STRING, flag : Nat, wide : Nat]
Value == [tag : STRING, data : Int]

(* An id that is loaded is one that the compiler gave away, and is in the  *)
(* tables.  The compiler itself emits no super-instruction.                *)
OptimizerAssumption ==
    /\ \A chunk \in Codes : chunk \in Seq(Instruction)
    /\ \A table \in Constants \cup Locals : table \in [DOMAIN table -> Value]
    /\ \A chunk \in Codes : \A pos \in DOMAIN chunk :
          /\ chunk[pos].op \notin AllSupers
          /\ chunk[pos].op = "put_k" =>
                \A constants \in Constants : chunk[pos].wide \in DOMAIN constants
          /\ chunk[pos].op = "load_local" =>
                \A locals \in Locals : chunk[pos].wide \in DOMAIN locals
ASSUME OptimizerAssumption

VARIABLES
    source,         \* history: the code as it was compiled
    code,
    ip,
    sp              \* the state of the table

vars == <<source, code, ip, sp>>

tb_optimizer_states == [
    start |-> [put_k |-> "k", load_local |-> "l"],
    k |-> [load_local |-> "kl", put_k |-> "kk"],
    l |-> [load_local |-> "ll", put_k |-> "kl"],
    kl |-> SuperOps.kl, kk |-> SuperOps.kk, ll |-> SuperOps.ll]

Fallback == "start"

optimizer_transit(op) ==
    LET edges == tb_optimizer_states[sp]
    IN  IF op \in DOMAIN edges THEN edges[op] ELSE Fallback

Init ==
    /\ source \in Codes
    /\ code = source
    /\ ip = 1
    /\ sp = "start"

(* The operands of the two loads.  For a constant and a local, in either   *)
(* order, that of the constant comes first; the mutant takes them in the   *)
(* order of the code.                                                      *)
MutOperands(super, prev_1, prev_0) == <<prev_1.wide, prev_0.wide>>
Operands(super, prev_1, prev_0) ==
    IF super \in Supers("kl") /\ prev_1.op = "load_local"
      THEN <<prev_0.wide, prev_1.wide>>
      ELSE <<prev_1.wide, prev_0.wide>>

(* The flag of an instruction is a uint8_t.                                *)
replace_binary_inst(super) ==
    LET operands == Operands(super, code[ip - 2], code[ip - 1])
        cleared == Ins("nop", 0, 0)
    IN  [code EXCEPT ![ip - 2] = Ins(super, operands[1] % 256, operands[2]),
                     ![ip - 1] = cleared,
                     ![ip] = cleared]

Follow ==
    /\ ip <= Len(code)
    /\ optimizer_transit(code[ip].op) \in DOMAIN tb_optimizer_states
    /\ sp' = optimizer_transit(code[ip].op)
    /\ ip' = ip + 1
    /\ UNCHANGED <<source, code>>

Replace ==
    /\ ip <= Len(code)
    /\ optimizer_transit(code[ip].op) \in AllSupers
    /\ code' = replace_binary_inst(optimizer_transit(code[ip].op))
    /\ sp' = "start"
    /\ ip' = ip + 1
    /\ UNCHANGED source

Done == ip > Len(code) /\ UNCHANGED vars

Next == Follow \/ Replace \/ Done

Spec == Init /\ [][Next]_vars

-----------------------------------------------------------------------------
(* Properties                                                              *)

(* Where the instructions of a chunk jump to.                              *)
TargetsIn(chunk) ==
    {pos + chunk[pos].wide : pos \in
        {p \in DOMAIN chunk : \/ chunk[p].op \in {"jmp_false", "jmp_if"}
                              \/ chunk[p].op = "jmp" /\ chunk[p].flag = 0}}
      \cup {pos - chunk[pos].wide : pos \in
              {p \in DOMAIN chunk : chunk[p].op = "jmp" /\ chunk[p].flag = 1}}
Targets == TargetsIn(code)

(* The table knows nothing of jumps.  That is sound only as long as no     *)
(* jump of the compiled code lands on the second or the third of three     *)
(* instructions that were replaced: the NOP that && and || end with is     *)
(* what keeps their join out of them.                                      *)
JoinsKept ==
    \A pos \in DOMAIN code :
        code[pos].op \in AllSupers => {pos + 1, pos + 2} \cap Targets = {}

(* A constant in front of a local, for an operation that does not commute. *)
ConstantFirst ==
    \E pos \in DOMAIN source :
        /\ pos + 2 \in DOMAIN source
        /\ source[pos].op = "put_k" /\ source[pos + 1].op = "load_local"
        /\ source[pos + 2].op \in {"sub", "div"}

(* Three instructions to replace, with a first operand whose id is too     *)
(* large for a flag.                                                       *)
Loads == {"put_k", "load_local"}
Cut ==
    \E pos \in DOMAIN source :
        /\ pos + 2 \in DOMAIN source
        /\ source[pos].op \in Loads /\ source[pos + 1].op \in Loads
        /\ source[pos + 2].op \in Operations
        /\ LET swapped == source[pos].op = "load_local" /\ source[pos + 1].op = "put_k"
               first == IF swapped THEN source[pos + 1] ELSE source[pos]
           IN  first.wide > 255

(* The result of an expression: the optimized code computes what the code  *)
(* computes that was compiled.                                             *)
MeaningKept ==
    Targets = {} =>
        \A constants \in Constants, locals \in Locals :
            Results(code, constants, locals) = Results(source, constants, locals)

(* At any point of the scan, unless the order of the operands that it      *)
(* swaps matters, or a number does not fit.                                *)
MeaningKeptButForOrder == ~ConstantFirst /\ ~Cut => MeaningKept
=============================================================================
