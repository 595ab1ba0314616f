--------------------------------- MODULE VM ---------------------------------
(***************************************************************************)
(* The control of the bytecode interpreter, src/src/vm.c and the invoke    *)
(* function of src/src/obj_closure.c: calls, returns, exceptions, aborts   *)
(* and the statuses a program ends with.                                   *)
(*                                                                         *)
(* A bytecode call is a nested call of the dispatcher on the C stack.      *)
(* frames holds the locals of those C activations, the innermost last.  A  *)
(* handler that tail-calls the dispatcher is one step of "exec"; one that  *)
(* returns to C puts the machine in "return", and what the C caller does   *)
(* with the returned status is a step of its own.                          *)
(*                                                                         *)
(* Abstractions: a constant is an integer, found in the instruction        *)
(* itself; a native function is its effect on the stack: it pushes one of  *)
(* its NativeResults, or gives up without one; objects are closures,       *)
(* errors and lists (which stand for every object whose invoke function is *)
(* a stub), never collected (module GC has the collector); an allocation   *)
(* never fails.  chunk_id, which only error reports read, is left out, and *)
(* so are DUP, PUT_CALLEE, the failing arm of MK_CLOSURE, which no         *)
(* compiled program reaches, and the super-instructions, which module      *)
(* Arithmetic has.  A host that embeds the machine may invoke it again     *)
(* when its program has ended (tbasic_invoke of tb_api.h).                 *)
(***************************************************************************)
EXTENDS Arithmetic, FiniteSets

CONSTANTS
    Programs,       \* tuples of chunks; the first one is the entry
    NativeResults,  \* what the native functions answer, by their numbers
    Sessions,       \* the programs that a host invokes a second time
    Arguments,      \* what it passes, tuples of values
    DepthValues,    \* 2^8: VMState.depth is a uint8_t
    MaxSp           \* bound on sp: the stack has room above it

Jumps == {"jmp", "jmp_false", "jmp_if"}
Target(code, k) ==
    IF code[k].op = "jmp" /\ code[k].flag # 0 THEN k - code[k].wide ELSE k + code[k].wide

CatchesIn(code, from, to) == {k \in from .. to : code[k].op = "catch_err"}
TriesIn(code, from, to) == {k \in from .. to : code[k].op = "try"}

(* A CATCH comes behind its TRY, and every TRY has one.                    *)
TriesClosed(code) ==
    LET open(k) == Cardinality(TriesIn(code, 1, k)) - Cardinality(CatchesIn(code, 1, k))
    IN  (\A k \in DOMAIN code : open(k) >= 0) /\ open(Len(code)) = 0

(* What compiler.c makes of every chunk.  A function reserves its locals   *)
(* and ends in the marked RET, its only one; a trampoline is one native    *)
(* call and a RET.  Jumps stay inside; a JMP leaves a TRY above its CATCH, *)
(* and no jump lands on a CATCH.                                           *)
Instructions == [op : STRING, flag : Nat, wide : Int]
WellFormed(code) ==
    /\ code \in Seq(Instructions) /\ code # <<>>
    /\ Last(code).op = "ret"
    /\ \/ code[1].op = "reserve" /\ Last(code).flag = TBASIC_RET_MARK_LAST
       \/ code[1].op = "native_call" /\ Len(code) = 2
    /\ \A k \in DOMAIN code :
         /\ code[k].op \in Jumps =>
              Target(code, k) \in DOMAIN code /\ code[Target(code, k)].op # "catch_err"
         /\ code[k].op = "catch_err" => code[k - 1].op = "jmp"
         /\ code[k].op = "ret" /\ code[k].flag = TBASIC_RET_MARK_LAST => k = Len(code)
    /\ TriesClosed(code)

(* The operands of an instruction: how many it finds on the stack, by how  *)
(* many it changes their number, and where it goes on, with what change.   *)
Pushers ==
    {"put_none", "put_bool", "put_k", "load_string_k", "load_imm_gid", "load_local",
     "get_gvar", "load_err_ref", "get_upv", "chk_none", "native_call"}
Readers ==
    {"chk_none", "jmp_false", "jmp_if", "store_local", "set_gvar", "set_upv",
     "bit_not", "bind_lstmp", "gbind_lstmp", "raise_err"}
Needs(ins) ==
    CASE ins.op \in Computations \cup {"get_idx", "abort_else"} -> 2
      [] ins.op = "set_idx" -> 3
      [] ins.op \in {"call", "mk_closure"} -> ins.wide + 1
      [] ins.op = "mk_list" -> ins.wide
      [] ins.op \in Readers -> 1
      [] OTHER -> 0
Change(ins) ==
    CASE ins.op \in Pushers -> 1
      [] ins.op \in Computations \cup {"get_idx", "store_local", "set_gvar", "set_upv"} -> -1
      [] ins.op \in {"set_idx", "abort_else"} -> -2
      [] ins.op = "reserve" -> ins.wide
      [] ins.op = "pop" -> -ins.flag
      [] ins.op \in {"call", "mk_closure"} -> -ins.wide
      [] ins.op = "mk_list" -> 1 - ins.wide
      [] OTHER -> 0
Onto(k, change) == [to |-> k, change |-> change]
After(code, k) ==
    CASE code[k].op = "jmp" -> {Onto(Target(code, k), 0)}
      [] code[k].op \in {"jmp_false", "jmp_if"} ->
            {Onto(k + 1, -1), Onto(Target(code, k), 0)}
      [] code[k].op \in {"ret", "raise_err"} -> {}
      [] OTHER -> {Onto(k + 1, Change(code[k]))}

(* Where an exception goes on, whatever lies on the stack.                 *)
IsHandler(ins) ==
    \/ ins.op = "catch_err"
    \/ ins.op = "ret" /\ ins.flag = TBASIC_RET_MARK_LAST

(* The least number of operands over the locals that the code of a chunk   *)
(* finds at each of its instructions; before RESERVE there are no locals.  *)
Reserved(code) == IF code[1].op = "reserve" THEN code[1].wide ELSE 0
Heights(code) ==
    LET arriving(heights, k) ==
            (IF IsHandler(code[k]) THEN {0} ELSE {})
              \cup UNION {{heights[j] + e.change : e \in {e \in After(code, j) : e.to = k}} :
                              j \in DOMAIN heights}
        least(heights, k) ==
            IF arriving(heights, k) = {} THEN Last(heights) ELSE Min(arriving(heights, k))
    IN  FoldLeft(LAMBDA heights, k : Append(heights, least(heights, k)),
                 <<-Reserved(code)>>, [n \in 1 .. Len(code) - 1 |-> n + 1])

(* Every instruction finds its operands, by whichever way control comes to *)
(* it; slot 0 of a function, its callee's, is no local.                    *)
Balanced(code) ==
    LET heights == Heights(code)
    IN  /\ DOMAIN heights = DOMAIN code /\ heights[1] = -Reserved(code)
        /\ \A k \in DOMAIN code :
             /\ heights[k] \in Int
             /\ code[k].op \in {"reserve", "call", "mk_closure", "mk_list"} =>
                  code[k].wide \in Nat
             /\ code[k].op \in {"store_local", "bind_lstmp"} => code[k].wide > 0
             /\ k > 1 => heights[k] >= Needs(code[k]) /\ heights[k] >= 0
             /\ IsHandler(code[k]) => heights[k] <= 0
             /\ \A e \in After(code, k) : e.to > 1 /\ heights[e.to] <= heights[k] + e.change

(* The && and || of the program: the branch pops a left operand that does  *)
(* not decide, and so does the POP behind it, for a second time.           *)
ShortCircuit(code) ==
    \E k \in 2 .. Len(code) - 1 :
        /\ code[k].op \in {"jmp_false", "jmp_if"}
        /\ code[k - 1].op # "chk_none" /\ code[k + 1].op = "pop"

(* What compiler.c makes of every program.  Its global variables have the  *)
(* slots that the entry reserves, from slot 0 on.                          *)
GlobalsInside(p) ==
    \A c \in DOMAIN p : \A k \in DOMAIN p[c] :
        p[c][k].op \in {"set_gvar", "gbind_lstmp"} => p[c][k].wide \in 0 .. Reserved(p[1])
Chunks == UNION {{p[c] : c \in DOMAIN p} : p \in Programs}

ASSUME VMAssumption ==
    /\ DepthValues \in Nat \ {0, 1} /\ MaxSp \in Nat
    /\ \A p \in Programs :
         /\ DOMAIN p = 1 .. Len(p) /\ Len(p) \in Nat \ {0}
         /\ GlobalsInside(p)
    /\ \A code \in Chunks : WellFormed(code) /\ (ShortCircuit(code) \/ Balanced(code))
    /\ Sessions \subseteq Programs
    /\ \A argv \in Arguments : Len(argv) \in 0 .. MaxSp

StrId(n) == [tag |-> "strid", data |-> n]
ObjId(oid) == [tag |-> "obj_id", data |-> oid]
NoAnswer == [tag |-> "no_answer", data |-> 0]

DUD_HEAP_ID == -1

VARIABLES
    prgm,           \* the program that runs
    chunk, ip,      \* the chunk of the current code, a position in it
    stack, sp, bp,
    upvals,         \* whose captures s->upvals points at; DUD_HEAP_ID: NULL
    objects,        \* closures and errors by id
    error_oid,
    depth,
    status,
    trying_except,
    dispatcher,     \* what the global function pointer points at
    frames,         \* the C activations of fn_call
    run,            \* exec, return, halted or crashed
    retval,         \* what the returning C function returns
    lost,           \* history: how many calls were left without their RET
    wrapped,        \* history: depth passed its greatest value
    in_flight,      \* history: an exception was thrown and not caught yet
    unanswered,     \* history: a call ended without an answer
    invocation,     \* which invocation of the program this is
    carried         \* history: it began with a search for a handler pending

host_vars == <<invocation, carried>>
frame_vars == <<prgm, chunk, bp, depth, frames, host_vars>>
mode_vars == <<dispatcher, run, retval>>
error_vars == <<error_oid, trying_except, in_flight>>
history_vars == <<lost, wrapped, unanswered>>
vars == <<prgm, chunk, ip, stack, sp, bp, upvals, objects, error_oid, depth,
          status, trying_except, dispatcher, frames, run, retval, lost, wrapped,
          in_flight, unanswered, host_vars>>

Code == prgm[chunk]
Top == stack[sp]

Init ==
    /\ prgm \in Programs
    /\ chunk = 1 /\ ip = 1
    /\ stack = [slot \in 0 .. MaxSp |-> Nil]
    /\ sp = 0 /\ bp = 0
    /\ upvals = DUD_HEAP_ID
    /\ objects = <<>>
    /\ error_oid = DUD_HEAP_ID
    /\ depth = 1
    /\ status = "pending"
    /\ trying_except = FALSE
    /\ dispatcher = "vm_dispatch"
    /\ frames = <<>>
    /\ run = "exec"
    /\ retval = "pending"
    /\ lost = 0
    /\ wrapped = FALSE
    /\ in_flight = FALSE
    /\ unanswered = FALSE
    /\ invocation = 1
    /\ carried = FALSE

-----------------------------------------------------------------------------
(* Handlers that tail-call the dispatcher                                  *)

(* vm_run and fn_reserve go to vm_dispatch itself, the others to what the  *)
(* global pointer says: a pending search starts after two instructions.    *)
Dispatches == dispatcher = "vm_dispatch" \/ ip <= 2
At(op) == run = "exec" /\ Dispatches /\ Code[ip].op = op

Wide == Code[ip].wide

GoTo(target) == ip' = target /\ UNCHANGED <<frame_vars, mode_vars, lost, wrapped>>
Step(target) == GoTo(target) /\ UNCHANGED unanswered

Push(v) ==
    /\ sp < MaxSp
    /\ sp' = sp + 1
    /\ stack' = [stack EXCEPT ![sp + 1] = v]

(* Handlers that push one value and touch nothing else.                    *)
Pushes(op, v) ==
    /\ At(op)
    /\ Push(v)
    /\ Step(ip + 1)
    /\ UNCHANGED <<upvals, objects, status, error_vars>>

PutNone == Pushes("put_none", Nil)
PutBool == Pushes("put_bool", Bool(Code[ip].flag = 1))
PutK == Pushes("put_k", Int_(Wide))
LoadStringK == Pushes("load_string_k", StrId(Wide))
LoadImmGid == Pushes("load_imm_gid", Int_(Wide))
LoadLocal == Pushes("load_local", stack[bp + Wide])
GetGvar == Pushes("get_gvar", stack[Wide])
LoadErrRef == Pushes("load_err_ref", ObjId(error_oid))
ChkNone == Pushes("chk_none", Bool(Top.tag = "nil"))

Nop ==
    /\ At("nop")
    /\ Step(ip + 1)
    /\ UNCHANGED <<stack, sp, upvals, objects, status, error_vars>>

(* Room for locals, with whatever the slots hold.                          *)
Reserve ==
    /\ At("reserve")
    /\ sp + Wide <= MaxSp
    /\ sp' = sp + Wide
    /\ Step(ip + 1)
    /\ UNCHANGED <<stack, upvals, objects, status, error_vars>>

Pop ==
    /\ At("pop")
    /\ sp' = sp - Code[ip].flag
    /\ Step(ip + 1)
    /\ UNCHANGED <<stack, upvals, objects, status, error_vars>>

Stores(op, slot) ==
    /\ At(op)
    /\ stack' = [stack EXCEPT ![slot] = Top]
    /\ sp' = sp - 1
    /\ Step(ip + 1)
    /\ UNCHANGED <<upvals, objects, status, error_vars>>

StoreLocal == Stores("store_local", bp + Wide)
SetGvar == Stores("set_gvar", Wide)

Jmp ==
    /\ At("jmp")
    /\ Step(IF Code[ip].flag = 0 THEN ip + Wide ELSE ip - Wide)
    /\ UNCHANGED <<stack, sp, upvals, objects, status, error_vars>>

Truthy(v) ==
    \/ v.tag \in {"bool", "int"} /\ v.data # 0
    \/ v = Nan
    \/ /\ v.tag = "obj_id" /\ v.data \in DOMAIN objects
       /\ objects[v.data].kind = "list" => objects[v.data].items # <<>>

(* Both pop the tested value only when they do not jump.  NIL and the      *)
(* strings of the program are neither true nor false: both jump.  The      *)
(* mutant always pops.                                                     *)
MutBranch(op, stays) ==
    /\ At(op)
    /\ sp' = sp - 1
    /\ Step(IF stays THEN ip + 1 ELSE ip + Wide)
    /\ UNCHANGED <<stack, upvals, objects, status, error_vars>>
Branch(op, stays) ==
    /\ At(op)
    /\ sp' = IF stays THEN sp - 1 ELSE sp
    /\ Step(IF stays THEN ip + 1 ELSE ip + Wide)
    /\ UNCHANGED <<stack, upvals, objects, status, error_vars>>

JmpFalse == Branch("jmp_false", Truthy(Top))
JmpIf == Branch("jmp_if", ~Truthy(Top) /\ Top.tag \notin {"nil", "strid"})

(* Arithmetic, bit operations and comparisons.                             *)
Compute ==
    /\ At(Code[ip].op) /\ Code[ip].op \in Computations
    /\ stack' = [stack EXCEPT ![sp - 1] = Result(Code[ip].op, stack[sp - 1], Top)]
    /\ sp' = sp - 1
    /\ Step(ip + 1)
    /\ UNCHANGED <<upvals, objects, status, error_vars>>

BitNot ==
    /\ At("bit_not")
    /\ stack' = [stack EXCEPT ![sp] = Complement(Top)]
    /\ Step(ip + 1)
    /\ UNCHANGED <<sp, upvals, objects, status, error_vars>>

(* The chunk's id lies under the captured values, which are copied.        *)
MkClosure ==
    LET callee == stack[sp - Wide]
        closure == [kind |-> "closure", chunk |-> callee.data,
                    upvals |-> [n \in 1 .. Wide |-> stack[sp - Wide + n]]]
    IN  /\ At("mk_closure")
        /\ callee.tag = "int"
        /\ objects' = Append(objects, closure)
        /\ sp' = sp - Wide
        /\ stack' = [stack EXCEPT ![sp - Wide] = ObjId(Len(objects'))]
        /\ Step(ip + 1)
        /\ UNCHANGED <<upvals, status, error_vars>>

MkList ==
    LET items == [n \in 1 .. Wide |-> stack[sp - Wide + n]]
    IN  /\ At("mk_list")
        /\ objects' = Append(objects, [kind |-> "list", items |-> items])
        /\ sp' = sp - Wide + 1
        /\ sp' <= MaxSp
        /\ stack' = [stack EXCEPT ![sp - Wide + 1] = ObjId(Len(objects'))]
        /\ Step(ip + 1)
        /\ UNCHANGED <<upvals, status, error_vars>>

(* What get_v of an object answers; an index starts from 0.                *)
Item(object, key) ==
    IF object.kind = "list" /\ key.tag = "int" /\ key.data + 1 \in DOMAIN object.items
      THEN object.items[key.data + 1]
    ELSE IF object.kind = "err" /\ key = Int_(0) THEN object.data
    ELSE IF object.kind = "err" /\ key = Int_(1) THEN Int_(object.line)
    ELSE Nil

IsObject(v) == v.tag = "obj_id" /\ v.data \in DOMAIN objects
IsList(v) == IsObject(v) /\ objects[v.data].kind = "list"

GetIdx ==
    LET target == stack[sp - 1]
    IN  /\ At("get_idx")
        /\ IsObject(target)
        /\ stack' = [stack EXCEPT ![sp - 1] = Item(objects[target.data], Top)]
        /\ sp' = sp - 1
        /\ Step(ip + 1)
        /\ UNCHANGED <<upvals, objects, status, error_vars>>

(* What set_v does; closures and errors are not changed by it.             *)
Assigned(object, key, item) ==
    IF object.kind = "list" /\ key = Nil
      THEN [object EXCEPT !.items = Append(@, item)]
    ELSE IF object.kind = "list" /\ key.tag = "int" /\ key.data + 1 \in DOMAIN object.items
      THEN [object EXCEPT !.items[key.data + 1] = item]
    ELSE object

(* The target stays on the stack.                                          *)
SetIdx ==
    LET target == stack[sp - 2]
    IN  /\ At("set_idx")
        /\ IsObject(target)
        /\ objects' = [objects EXCEPT ![target.data] = Assigned(@, stack[sp - 1], Top)]
        /\ sp' = sp - 2
        /\ Step(ip + 1)
        /\ UNCHANGED <<stack, upvals, status, error_vars>>

(* BIND: one item of the list on the top, to a local or a global.          *)
Binds(op, slot) ==
    /\ At(op)
    /\ IsList(Top)
    /\ stack' = [stack EXCEPT ![slot] = Item(objects[Top.data], Int_(Code[ip].flag))]
    /\ Step(ip + 1)
    /\ UNCHANGED <<sp, upvals, objects, status, error_vars>>

BindLstmp == Binds("bind_lstmp", bp + Wide)
GbindLstmp == Binds("gbind_lstmp", Wide)

(* Captures are addressed from 0.                                          *)
GetUpv ==
    /\ upvals # DUD_HEAP_ID
    /\ Pushes("get_upv", objects[upvals].upvals[Wide + 1])

SetUpv ==
    /\ At("set_upv")
    /\ upvals # DUD_HEAP_ID
    /\ objects' = [objects EXCEPT ![upvals].upvals[Wide + 1] = Top]
    /\ sp' = sp - 1
    /\ Step(ip + 1)
    /\ UNCHANGED <<stack, upvals, status, error_vars>>

(* The status becomes what the native function returns, whatever it was    *)
(* before.                                                                 *)
NativeCall ==
    /\ At("native_call")
    /\ \E answer \in NativeResults[Wide] \ {NoAnswer} : Push(answer)
    /\ status' = "pending"
    /\ Step(ip + 1)
    /\ UNCHANGED <<upvals, objects, error_vars>>

(* readln on a broken stdin: no result, and the status 0, vm_status_ok.    *)
NativeGivesUp ==
    /\ At("native_call")
    /\ NoAnswer \in NativeResults[Wide]
    /\ status' = "ok"
    /\ unanswered' = TRUE
    /\ GoTo(ip + 1)
    /\ UNCHANGED <<stack, sp, upvals, objects, error_vars>>

(* A NULL that the C code reads through kills the process; an error has    *)
(* no invoke function, and past the program's chunks there is no code.     *)
Crash ==
    /\ \/ At("get_upv") /\ upvals = DUD_HEAP_ID
       \/ At("set_upv") /\ upvals = DUD_HEAP_ID
       \/ /\ At("call")
          /\ LET callee == stack[sp - Wide]
             IN  /\ callee.tag = "obj_id"
                 /\ callee.data \in DOMAIN objects => objects[callee.data].kind = "err"
       \/ /\ At("call")
          /\ stack[sp - Wide].tag = "int" /\ stack[sp - Wide].data \notin DOMAIN prgm
    /\ run' = "crashed"
    /\ UNCHANGED <<frame_vars, ip, stack, sp, upvals, objects, status,
                   error_vars, dispatcher, retval, history_vars>>

-----------------------------------------------------------------------------
(* Exceptions                                                              *)

Catches(from, to) == CatchesIn(Code, from, to)
Tries(from, to) == TriesIn(Code, from, to)
LastRet ==
    CHOOSE k \in DOMAIN Code : Code[k].op = "ret" /\ Code[k].flag = TBASIC_RET_MARK_LAST

(* Where vm_locally_propagate_error stops: the first CATCH that brings the *)
(* count of open TRYs to 0, or the chunk's last RET.  The count starts at  *)
(* one when any TRY was entered and no CATCH since, whichever they were.   *)
(* It is unsigned, so passing below 0 is no way to reach 0 or less.  The   *)
(* mutant takes the first CATCH it sees.                                   *)
MutHandlerFrom(from) == Min({LastRet} \cup Catches(from, Len(Code)))
HandlerFrom(from) ==
    LET open(k) == (IF trying_except THEN 1 ELSE 0)
                     + Cardinality(Tries(from, k)) - Cardinality(Catches(from, k))
    IN  Min({LastRet} \cup {k \in Catches(from, Len(Code)) : open(k) = 0})

Try ==
    /\ At("try")
    /\ trying_except' = TRUE
    /\ Step(ip + 1)
    /\ UNCHANGED <<stack, sp, upvals, objects, status, error_oid, in_flight>>

RaiseErr ==
    /\ At("raise_err")
    /\ objects' = Append(objects, [kind |-> "err", data |-> Top, line |-> Wide])
    /\ error_oid' = Len(objects')
    /\ status' = "err_throw"
    /\ in_flight' = TRUE
    /\ sp' = sp - 1
    /\ Step(HandlerFrom(ip))
    /\ UNCHANGED <<stack, upvals, trying_except>>

(* The dispatcher of a caller whose callee was left by an exception.  The  *)
(* mutant goes on seeking after it has found a handler.                    *)
MutSought == dispatcher
Sought == "vm_dispatch"

SeekCatch ==
    /\ run = "exec" /\ ~Dispatches
    /\ ip' = HandlerFrom(ip)
    /\ dispatcher' = Sought
    /\ UNCHANGED <<frame_vars, stack, sp, upvals, objects, status, error_vars,
                   run, retval, history_vars>>

(* The mutant leaves the status as the exception set it.                   *)
MutCaughtStatus == status
CaughtStatus == "pending"

CatchErr ==
    /\ At("catch_err")
    /\ status' = CaughtStatus
    /\ trying_except' = FALSE
    /\ in_flight' = FALSE
    /\ Step(ip + 1)
    /\ UNCHANGED <<stack, sp, upvals, objects, error_oid>>

-----------------------------------------------------------------------------
(* Calls and returns                                                       *)

(* Where the callee lies and its result goes, under the arguments.  The    *)
(* mutant takes the slot under it.                                         *)
MutCalleeBp(argc) == sp - argc - 1
CalleeBp(argc) == sp - argc

Frame(kind, argc) ==
    [kind |-> kind, chunk |-> chunk, ip |-> ip + 1, bp |-> bp,
     slot |-> CalleeBp(argc), argc |-> argc]

Enter(kind, callee_chunk) ==
    /\ callee_chunk \in DOMAIN prgm
    /\ frames' = Append(frames, Frame(kind, Wide))
    /\ chunk' = callee_chunk
    /\ ip' = 1
    /\ bp' = CalleeBp(Wide)
    /\ depth' = (depth + 1) % DepthValues
    /\ wrapped' = (wrapped \/ depth' = 0)
    /\ UNCHANGED <<prgm, stack, sp, objects, status, error_vars, mode_vars,
                   host_vars, lost, unanswered>>

Call ==
    LET callee == stack[sp - Wide]
    IN  /\ At("call")
        /\ callee.tag = "int"
        /\ Enter("call", callee.data)
        /\ UNCHANGED upvals

CallClosure ==
    LET callee == stack[sp - Wide]
    IN  /\ At("call")
        /\ callee.tag = "obj_id"
        /\ callee.data \in DOMAIN objects
        /\ objects[callee.data].kind = "closure"
        /\ Enter("closure", objects[callee.data].chunk)
        /\ upvals' = callee.data

(* The invoke function of a list is a stub that returns 0, which is        *)
(* vm_status_ok; the callee and the arguments stay on the stack.           *)
CallList ==
    LET callee == stack[sp - Wide]
    IN  /\ At("call")
        /\ callee.tag = "obj_id"
        /\ callee.data \in DOMAIN objects
        /\ objects[callee.data].kind = "list"
        /\ status' = "ok"
        /\ unanswered' = TRUE
        /\ GoTo(ip + 1)
        /\ UNCHANGED <<stack, sp, upvals, objects, error_vars>>

(* A handler that returns to C without fn_ret leaves depth as it is.       *)
Fail(code) ==
    /\ run' = "return"
    /\ retval' = code
    /\ lost' = lost + 1
    /\ UNCHANGED <<frame_vars, ip, stack, upvals, objects, error_vars, dispatcher,
                   wrapped, unanswered>>

(* Neither a chunk's id nor an object: the status is returned, not set.    *)
BadCall ==
    /\ At("call")
    /\ stack[sp - Wide].tag \notin {"int", "obj_id"}
    /\ Fail("err_bad_call")
    /\ UNCHANGED <<sp, status>>

(* GET_IDX and SET_IDX on something that is not an object.                 *)
BadIndex ==
    /\ \/ At("get_idx") /\ ~IsObject(stack[sp - 1])
       \/ At("set_idx") /\ ~IsObject(stack[sp - 2])
    /\ Fail("err_bad_op")
    /\ status' = "err_bad_op"
    /\ UNCHANGED sp

(* BIND of something that is not a list: the status is returned, not set.  *)
BadBind ==
    /\ At("bind_lstmp") \/ At("gbind_lstmp")
    /\ ~IsList(Top)
    /\ Fail("err_abort")
    /\ UNCHANGED <<sp, status>>

(* ASSERT: the tested value lies under the message.                        *)
Holds(v) == v.tag \in {"bool", "int"} /\ v.data # 0

AssertHolds ==
    /\ At("abort_else")
    /\ Holds(stack[sp - 1])
    /\ sp' = sp - 2
    /\ Step(ip + 1)
    /\ UNCHANGED <<stack, upvals, objects, status, error_vars>>

AbortFails ==
    /\ At("abort_else")
    /\ ~Holds(stack[sp - 1])
    /\ Fail("err_abort")
    /\ sp' = sp - 1
    /\ status' = "err_abort"

(* The mutant of depth-- leaves the count alone in an unwound call.        *)
MutLeft == IF status = "err_throw" THEN depth ELSE (depth - 1) % DepthValues
Left == (depth - 1) % DepthValues

(* Whether a caller has to seek a CATCH; the mutant forgets that the end   *)
(* of the program has none.                                                *)
MutSeeksOn(left) == status = "err_throw"
SeeksOn(left) == left # 0 /\ status = "err_throw"

(* fn_ret: depth 0 is the end of the program; an exception that found no   *)
(* CATCH goes on in the caller.                                            *)
Ret ==
    LET left == Left
        thrown == SeeksOn(left)
    IN  /\ At("ret")
        /\ thrown => sp < MaxSp
        /\ depth' = left
        /\ status' = IF left = 0 /\ status = "pending" THEN "ok" ELSE status
        /\ sp' = IF left = 0 THEN 0 ELSE IF thrown THEN sp + 1 ELSE sp
        /\ bp' = IF left = 0 THEN 0 ELSE bp
        /\ stack' = IF left = 0 THEN [stack EXCEPT ![0] = Top]
                    ELSE IF thrown THEN [stack EXCEPT ![sp + 1] = Nil]
                    ELSE stack
        /\ dispatcher' = IF thrown THEN "vm_seek_catch" ELSE dispatcher
        /\ run' = "return"
        /\ retval' = status'
        /\ UNCHANGED <<prgm, chunk, ip, upvals, objects, error_vars, frames,
                       host_vars, history_vars>>

(* The rest of fn_call and of closure_invoke_fn, once the nested           *)
(* dispatcher has returned: the result moves to the callee's slot.  With   *)
(* depth 0 a bytecode function takes itself for the program that has       *)
(* ended, and returns without RET.  The mutants leave the base, and the    *)
(* captures, as the callee had them.                                       *)
MutCallerBp(frame) == frame.slot
CallerBp(frame) == frame.bp

MutUpvalsAfter == upvals
UpvalsAfter == DUD_HEAP_ID

Unwind ==
    LET frame == Last(frames)
        ends == depth = 0 /\ frame.kind = "call"
    IN  /\ run = "return"
        /\ frames # <<>>
        /\ frames' = Front(frames)
        /\ stack' = [stack EXCEPT ![frame.slot] = Top]
        /\ sp' = frame.slot
        /\ bp' = CallerBp(frame)
        /\ chunk' = frame.chunk
        /\ ip' = frame.ip
        /\ run' = IF ends THEN "return" ELSE "exec"
        /\ IF frame.kind = "closure"
             THEN /\ upvals' = UpvalsAfter
                  /\ status' = IF depth = 0 THEN status ELSE retval
             ELSE UNCHANGED <<upvals, status>>
        /\ retval' = status'
        /\ lost' = IF ends THEN lost + 1 ELSE lost
        /\ UNCHANGED <<prgm, objects, error_vars, depth, dispatcher,
                       host_vars, wrapped, unanswered>>

Halt ==
    /\ run = "return"
    /\ frames = <<>>
    /\ run' = "halted"
    /\ UNCHANGED <<frame_vars, ip, stack, sp, upvals, objects, status,
                   error_vars, dispatcher, retval, history_vars>>

(* tbasic_invoke: restart_vm, the arguments, vm_run.  What restart_vm does *)
(* not mention stays: trying_except, upvals, the objects, the slots, and   *)
(* the global dispatcher.                                                  *)
RestartDepth == 1

Invoke ==
    /\ run = "halted" /\ prgm \in Sessions /\ invocation = 1
    /\ \E argv \in Arguments :
         /\ sp' = Len(argv)
         /\ stack' = [slot \in DOMAIN stack |->
                         IF slot \in DOMAIN argv THEN argv[slot] ELSE stack[slot]]
    /\ bp' = 0
    /\ error_oid' = DUD_HEAP_ID
    /\ depth' = RestartDepth
    /\ status' = "pending"
    /\ chunk' = 1 /\ ip' = 1
    /\ run' = "exec"
    /\ invocation' = 2
    /\ carried' = (dispatcher = "vm_seek_catch")
    /\ in_flight' = carried'
    /\ lost' = 0 /\ wrapped' = FALSE /\ unanswered' = FALSE
    /\ UNCHANGED <<prgm, upvals, objects, trying_except, dispatcher, frames, retval>>

Over == run \in {"halted", "crashed"} /\ UNCHANGED vars

(* What driver_run answers.                                                *)
DriverResult == IF status = "ok" THEN 0 ELSE 1

Next ==
    \/ PutNone \/ PutBool \/ PutK \/ LoadImmGid \/ LoadLocal \/ GetGvar
    \/ LoadErrRef \/ LoadStringK \/ ChkNone \/ Compute \/ BitNot \/ Nop \/ Reserve
    \/ Pop \/ StoreLocal \/ SetGvar \/ Jmp \/ JmpFalse \/ JmpIf
    \/ MkClosure \/ GetUpv \/ SetUpv \/ MkList \/ GetIdx \/ SetIdx
    \/ BindLstmp \/ GbindLstmp \/ BadBind \/ NativeCall \/ NativeGivesUp
    \/ Crash \/ Try \/ RaiseErr \/ SeekCatch \/ CatchErr
    \/ Call \/ CallClosure \/ CallList \/ BadCall \/ BadIndex
    \/ AssertHolds \/ AbortFails \/ Ret \/ Unwind \/ Halt \/ Invoke \/ Over

Spec == Init /\ [][Next]_vars

(* The interpreter is one thread that runs to the end of its program.      *)
FairSpec == Spec /\ WF_vars(Next)

-----------------------------------------------------------------------------
(* Properties                                                              *)

Values == [tag : {"nil", "bool", "int", "real", "strid", "obj_id"}, data : Int]
Frames == [kind : {"call", "closure"}, chunk : DOMAIN prgm, ip : Nat \ {0},
           bp : 0 .. MaxSp, slot : 0 .. MaxSp, argc : Nat]

(* The machine's variables have the ranges of the C fields, the code is    *)
(* never left and the stack never grows down past its first slot.          *)
TypeOK ==
    /\ chunk \in DOMAIN prgm /\ ip \in DOMAIN Code
    /\ \A slot \in 0 .. MaxSp : stack[slot] \in Values
    /\ sp \in 0 .. MaxSp /\ bp \in 0 .. MaxSp
    /\ upvals \in {DUD_HEAP_ID} \cup DOMAIN objects
    /\ error_oid \in {DUD_HEAP_ID} \cup DOMAIN objects
    /\ depth \in 0 .. DepthValues - 1
    /\ status \in {"ok", "pending", "err_bad_op", "err_bad_call", "err_abort", "err_throw"}
    /\ trying_except \in BOOLEAN /\ in_flight \in BOOLEAN
    /\ dispatcher \in {"vm_dispatch", "vm_seek_catch"}
    /\ \A n \in DOMAIN frames : frames[n] \in Frames
    /\ run \in {"exec", "return", "halted", "crashed"}
    /\ lost \in Nat /\ wrapped \in BOOLEAN /\ unanswered \in BOOLEAN
    /\ invocation \in 1 .. 2 /\ carried \in BOOLEAN

(* While code runs, depth counts the program, the calls on the C stack and *)
(* the calls that were left without RET: an exception or a closure never   *)
(* loses or invents one.                                                   *)
DepthExact == run = "exec" => depth = (1 + Len(frames) + lost) % DepthValues

(* driver_run answers 0, success, exactly when no handler failed and every *)
(* exception was caught; unless a call ended without an answer, the        *)
(* invocation began with a search that the previous one had left behind,   *)
(* or calls nested so deep that depth began again from 0.                  *)
OutcomeExact ==
    run = "halted" /\ ~unanswered /\ ~carried /\ ~wrapped =>
        (DriverResult = 0 <=> lost = 0 /\ ~in_flight)

(* The code of a CATCH runs only for an exception that nothing has caught  *)
(* yet, of this invocation or the one before: neither the end of a TRY nor *)
(* a BREAK or RET out of it runs into the handler.                         *)
CatchNeedsThrow == At("catch_err") => in_flight

(* The next invocation begins to run its program, not to seek a handler in *)
(* it: restart_vm leaves the dispatcher, but an exception that ends a      *)
(* program leaves a search behind only when an earlier handler had failed. *)
BeginsAfresh == [][invocation' > invocation /\ carried' => lost > 0]_vars

(* The base of a running function is the slot of its callee, through every *)
(* way to leave the functions it called: locals are read from there.       *)
BaseIsCalleeSlot ==
    run = "exec" => bp = IF frames = <<>> THEN 0 ELSE Last(frames).slot

(* The top of the slots that a running function keeps its arguments and    *)
(* locals in (at the top level: the globals).                              *)
Floor ==
    LET argc == IF frames = <<>> THEN 0 ELSE Last(frames).argc
    IN  bp + argc + Reserved(Code)

ShortCircuits == \E c \in DOMAIN prgm : ShortCircuit(prgm[c])

(* What may let operands sink into the frame below them: a call without    *)
(* its answer, or the second POP of an && or ||.                           *)
Sinks == unanswered \/ ShortCircuits

(* Operands lie above the slots of arguments and locals: popping them and  *)
(* leaving calls never makes a function write its locals by pushing; as    *)
(* long as every call leaves its answer and the program has no && or ||.   *)
OperandsInFrame ==
    run = "exec" /\ ip > 1 /\ sp < Floor => Sinks

(* upvals is NULL or the captures of the closure that was entered last and *)
(* has not returned, which still lies in its slot: a closure never reads   *)
(* the captures of another one.  Operands that sink into the frame may     *)
(* overwrite the slot.                                                     *)
UpvalsOfInnermost ==
    LET closures == {n \in DOMAIN frames : frames[n].kind = "closure"}
        callee == stack[frames[Max(closures)].slot]
    IN  run = "exec" /\ upvals # DUD_HEAP_ID =>
            /\ closures # {}
            /\ \/ Sinks
               \/ callee.tag = "obj_id" /\ callee.data = upvals

(* Reference for vm_locally_propagate_error: the CATCH of the innermost    *)
(* TRY whose clause holds the code at site, or the end of the chunk.       *)
CatchOf(try) ==
    Min({k \in Catches(try, Len(Code)) :
            Cardinality(Tries(try, k)) = Cardinality(Catches(try, k))})
RightHandler(site) ==
    LET enclosing == {t \in Tries(1, site) : site < CatchOf(t)}
    IN  IF enclosing = {} THEN LastRet ELSE CatchOf(Max(enclosing))

Seeks ==
    /\ run = "exec"
    /\ Dispatches => Code[ip].op = "raise_err"
Site == IF Dispatches THEN ip ELSE ip - 1

(* With the flag set, a THROW, or a call left by one, goes to the CATCH of *)
(* the innermost TRY it is written in, past the inner TRYs that follow it, *)
(* and out of the function when it is in none.                             *)
ArmedFindsHandler ==
    [][Seeks /\ trying_except => ip' = RightHandler(Site)]_vars

(* docs/README.md:80: exceptions do not unwind past the CATCH that is      *)
(* theirs.  Whatever the flag, an exception goes to its handler.           *)
FindsHandler == [][Seeks => ip' = RightHandler(Site)]_vars

(* bytecode.h:62, "gets upvalue N": code that addresses a capture finds    *)
(* the captures.                                                           *)
CapturesAtHand == At("get_upv") \/ At("set_upv") => upvals # DUD_HEAP_ID

(* Each invocation of a program reaches its end, or goes round its loops   *)
(* for ever: neither a search for a handler nor an unwound call does.      *)
Repeats == run = "exec" /\ Dispatches /\ Code[ip].op = "jmp" /\ Code[ip].flag = 1
Ends == []<>(Repeats \/ run \in {"halted", "crashed"})
=============================================================================
