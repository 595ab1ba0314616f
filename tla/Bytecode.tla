------------------------------ MODULE Bytecode ------------------------------
(* Instructions as src/src/includes/bytecode.h has them: operator, `flag`  *)
(* and `wide`, and the flag that marks the RET ending a chunk.             *)
LOCAL INSTANCE Integers

Ins(op, flag, wide) == [op |-> op, flag |-> flag, wide |-> wide]
TBASIC_RET_MARK_LAST == 15
=============================================================================
