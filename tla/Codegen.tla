------------------------------ MODULE Codegen ------------------------------
(***************************************************************************)
(* The bytecode that src/src/compiler.c emits for the statements and       *)
(* expressions module VM runs: one operator per compiler_do_* function,    *)
(* from the code of the parts to the code of the whole.  Jumps are         *)
(* relative, so code does not change when it is put somewhere else.        *)
(*                                                                         *)
(* Abstractions: names are the ids they resolve to, a message of ASSERT is *)
(* a constant, and a BREAK or CONTINUE is an instruction of its own until  *)
(* its loop patches it into a jump, as the compiler does with the          *)
(* positions it records.                                                   *)
(***************************************************************************)
EXTENDS Bytecode, Integers, Sequences, SequencesExt

One(op, flag, wide) == <<Ins(op, flag, wide)>>
Nop_ == One("nop", 0, 0)
Jump(distance) == One("jmp", 0, distance)
JumpBack(distance) == One("jmp", 1, distance)

-----------------------------------------------------------------------------
(* Expressions                                                             *)

NilE == One("put_none", 0, 0)
BoolE(b) == One("put_bool", IF b THEN 1 ELSE 0, 0)
Constant(n) == One("put_k", 0, n)
FunctionRef(chunk) == One("load_imm_gid", 0, chunk)
Local(id) == One("load_local", 0, id)
Global(id) == One("get_gvar", 0, id)
Upvalue(n) == One("get_upv", 0, n)
ErrRef == One("load_err_ref", 0, 0)
StringE(n) == One("load_string_k", 0, n)

List(items) == FlattenSeq(items) \o One("mk_list", 0, Len(items))
Access(of, key) == of \o key \o One("get_idx", 0, 0)
CallTo(callee, args) == callee \o FlattenSeq(args) \o One("call", 0, Len(args))
BitNotE(e) == e \o One("bit_not", 0, 0)
Nullish(e) == e \o One("chk_none", 0, 0)

(* compiler_do_factor to compiler_do_compare: operands from left to right. *)
Binary(op, lhs, rhs) == lhs \o rhs \o One(op, 0, 0)

NullCoal(lhs, rhs) ==
    Nullish(lhs)
      \o One("jmp_false", 0, Len(rhs) + 3) \o One("pop", 1, 0) \o rhs
      \o Jump(2) \o One("pop", 1, 0)

(* compiler_do_and, with "jmp_false", and compiler_do_or, with "jmp_if".   *)
(* The mutant leaves out the NOP that the jump lands on.                   *)
MutLogical(branch, lhs, rhs) ==
    lhs \o One(branch, 0, Len(rhs) + 2) \o One("pop", 1, 0) \o rhs
Logical(branch, lhs, rhs) ==
    lhs \o One(branch, 0, Len(rhs) + 2) \o One("pop", 1, 0) \o rhs \o Nop_
And(lhs, rhs) == Logical("jmp_false", lhs, rhs)
Or(lhs, rhs) == Logical("jmp_if", lhs, rhs)

Lambda(chunk, captures) ==
    IF captures = <<>> THEN FunctionRef(chunk)
    ELSE FunctionRef(chunk) \o FlattenSeq([n \in DOMAIN captures |-> Local(captures[n])])
           \o One("mk_closure", 0, Len(captures))

-----------------------------------------------------------------------------
(* Statements                                                              *)

Let(id, e) == e \o One("store_local", 0, id)
LetGlobal(id, e) == e \o One("set_gvar", 0, id)
SetUpvalue(n, e) == e \o One("set_upv", 0, n)
(* of[key] := e;  nothing pops what SET_IDX leaves.                        *)
SetItem(of, key, e) == of \o key \o e \o One("set_idx", 0, 0)
(* BIND, with "bind_lstmp" in a function and "gbind_lstmp" at the top.      *)
Bind(op, ids, e) ==
    e \o FlattenSeq([n \in DOMAIN ids |-> One(op, n - 1, ids[n])]) \o One("pop", 1, 0)
ExprStmt(e) == e \o One("pop", 1, 0)
Ret_(e) == e \o One("ret", 0, 0)
Throw(e) == e \o One("raise_err", 0, 0)
Assert_(e) == e \o Constant(0) \o One("abort_else", 0, 0)
Break == One("break", 0, 0)
Continue == One("continue", 0, 0)

Block(stmts) == IF stmts = <<>> THEN Nop_ ELSE FlattenSeq(stmts)

If(test, body) == test \o One("jmp_false", 0, Len(body) + 1) \o body \o Nop_

IfElse(test, body, other) ==
    test \o One("jmp_false", 0, Len(body) + 2) \o body
      \o Jump(Len(other) + 1) \o other \o Nop_

(* The jumps of the BREAKs and CONTINUEs of one loop.                      *)
Patched(code, exit, repeat) ==
    [pos \in DOMAIN code |->
        IF code[pos].op = "break" THEN Ins("jmp", 0, exit - pos)
        ELSE IF code[pos].op = "continue" THEN Ins("jmp", 1, pos - repeat)
        ELSE code[pos]]

While(test, body) ==
    LET check == test \o One("jmp_false", 0, Len(body) + 2)
        code == check \o body \o JumpBack(Len(check) + Len(body))
    IN  Patched(code, Len(code) + 1, 1)

(* The condition, then the update, which the first round jumps over, then  *)
(* the body; CONTINUE goes to the update.                                  *)
For(id, from, test, update, body) ==
    LET clause == Nop_ \o update
        head == test \o One("jmp_false", 0, Len(clause) + Len(body) + 4)
                  \o Jump(Len(clause) + 2)
        code == head \o clause \o JumpBack(Len(head) + Len(clause))
                  \o body \o JumpBack(Len(clause) + 1 + Len(body)) \o Nop_
    IN  Let(id, from) \o Patched(code, Len(code), Len(head) + 1)

(* The end of the TRY jumps over the handler.                              *)
TryCatch(body, handler) ==
    One("try", 0, 0) \o body \o Jump(Len(handler) + 2)
      \o One("catch_err", 0, 0) \o handler

-----------------------------------------------------------------------------
(* Chunks: functions and lambdas, the top level, and the trampolines of    *)
(* native functions.                                                       *)

Chunk(locals, body) ==
    One("reserve", 0, locals) \o body \o One("ret", TBASIC_RET_MARK_LAST, 0)
Trampoline(native) == One("native_call", 0, native) \o One("ret", 0, 0)
=============================================================================
