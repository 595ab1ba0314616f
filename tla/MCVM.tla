-------------------------------- MODULE MCVM --------------------------------
(***************************************************************************)
(* The interpreter on families of compiled programs.  Every program ends   *)
(* as those of the suite do, and gets its choices from native functions    *)
(* that answer with any member of a set: Ask_ with a Boolean, Choose also  *)
(* with NIL, and Read may have no answer, as readln on a broken stdin.     *)
(***************************************************************************)
EXTENDS VM, Codegen

Answers == {Bool(TRUE), Bool(FALSE)}
Ask_ == 0
Choose_ == 1
Read_ == 2
Natives == <<Answers \cup {Nil}, Answers \cup {NoAnswer}>> @@ (Ask_ :> Answers)

Call_(chunk_id, args) == CallTo(FunctionRef(chunk_id), args)
Do(chunk_id) == ExprStmt(Call_(chunk_id, <<>>))
Top_(globals, stmts) == Chunk(globals, Block(stmts) \o Ret_(BoolE(TRUE)))

-----------------------------------------------------------------------------
(* Exceptions: main, a function f, a native function.  Main tries, throws  *)
(* and calls, also within a TRY of a TRY and in what follows a TRY; f      *)
(* throws, catches its own exceptions or returns out of a TRY.             *)
F == 2
Ask == Call_(3, <<>>)

Acts == {Do(F), Throw(Constant(7)), Ret_(Constant(0))}
TriesOf(bodies) == {TryCatch(body, handler) : body \in bodies, handler \in Acts}
Steps == Acts \cup TriesOf(Acts)
Nested == TriesOf({a \o b : a \in Acts, b \in TriesOf({Do(F)})})

FunctionBodies ==
    LET acts == {Throw(Constant(7)), Ret_(Constant(1)),
                 If(Ask, Throw(ErrRef)), Assert_(Ask)}
    IN  acts \cup {TryCatch(a, b) : a \in acts, b \in acts}

ExceptionPrograms ==
    {<<Top_(0, <<first, second>>), Chunk(0, body), Trampoline(Ask_)>> :
        first \in Steps, second \in Steps \cup Nested, body \in FunctionBodies}

-----------------------------------------------------------------------------
(* Closures: chunks 2 and 4 make closures of 3 and 5 over their parameter, *)
(* which main keeps in globals 0 and 1; the first calls the second.        *)
Maker(lambda) == Chunk(0, Ret_(Lambda(lambda, <<1>>)))
AskThen == Call_(6, <<>>)
Make(global, chunk_id) == LetGlobal(global, Call_(chunk_id, <<Constant(chunk_id)>>))
Invoked(global) == CallTo(Global(global), <<>>)

OuterActs ==
    {ExprStmt(Invoked(1)), SetUpvalue(0, AskThen), Throw(Upvalue(0)),
     Ret_(Upvalue(0)), TryCatch(ExprStmt(Invoked(1)), Throw(ErrRef))}
InnerBodies ==
    {Ret_(Upvalue(0)), Throw(Upvalue(0)), If(AskThen, SetUpvalue(0, NilE)),
     ExprStmt(CallTo(NilE, <<>>))}
Uses ==
    {ExprStmt(Invoked(0)), ExprStmt(Invoked(0)) \o ExprStmt(Invoked(1)),
     ExprStmt(Or(Invoked(0), Invoked(1))),
     TryCatch(ExprStmt(Invoked(0)), ExprStmt(CallTo(ErrRef, <<>>)))}

ClosurePrograms ==
    {<<Top_(2, <<Make(0, 2), Make(1, 4), use>>), Maker(3), Chunk(0, a \o b),
       Maker(5), Chunk(0, inner), Trampoline(Read_)>> :
        use \in Uses, a \in OuterActs, b \in OuterActs, inner \in InnerBodies}

-----------------------------------------------------------------------------
(* Statements of a function with a parameter and two locals, called with   *)
(* what the native function answers.                                       *)
Given == Local(1)
Asked == Call_(3, <<Given>>)
Plain ==
    {ExprStmt(Asked), Let(3, NullCoal(Asked, Local(3))), Ret_(Local(2))}
Simple == Plain \cup {Let(2, List(<<Given, Asked>>))}
InLoop == Plain \cup {Break, Continue}
Statements ==
    Simple
      \cup {If(Given, s) : s \in Simple}
      \cup {IfElse(Asked, a, b) : a \in Simple, b \in Simple}
      \cup {While(Asked, a \o b) : a \in Plain, b \in InLoop}
      \cup {For(2, Given, Asked, Let(3, Asked), s) : s \in InLoop}
      \cup {ExprStmt(Access(List(<<Given>>), Constant(0))),
            ExprStmt(Access(Given, NilE)), ExprStmt(CallTo(Given, <<NilE>>)),
            ExprStmt(CallTo(List(<<>>), <<Given>>)), ExprStmt(CallTo(Constant(99), <<>>)),
            Let(2, Nullish(Lambda(2, <<>>))), Assert_(Given),
            Bind("bind_lstmp", <<2, 3>>, List(<<Given>>)),
            Bind("bind_lstmp", <<2>>, Given),
            SetItem(Given, Constant(0), Asked),
            SetItem(List(<<Given>>), Constant(0), Asked),
            SetItem(List(<<>>), NilE, Binary("bit_or", Given, BitNotE(Given))),
            IfElse(Binary("eq", Given, Asked), Ret_(StringE(0)), Let(2, Local(1)))}

(* What may follow a statement, to run with what it has left behind.       *)
Later ==
    Plain
      \cup {While(Asked, Continue), For(2, Given, Asked, Let(3, Asked), Break),
            IfElse(Asked, Let(2, List(<<Given, Asked>>)), Ret_(Local(2))),
            ExprStmt(Access(Given, NilE))}

StatementPrograms ==
    {<<Top_(1, <<LetGlobal(0, Call_(2, <<Ask>>)), ExprStmt(Global(0))>>),
       Chunk(2, a \o b), Trampoline(Choose_)>> :
        a \in Statements, b \in Later}

-----------------------------------------------------------------------------
(* Programs that a host invokes twice, with no argument or one.  A call of *)
(* what is no function is left by a failed handler.                        *)
BadCall_ == ExprStmt(CallTo(NilE, <<>>))

SessionPrograms ==
    LET acts == Acts \cup {TryCatch(Do(F), ExprStmt(ErrRef)),
                           TryCatch(Ret_(Constant(0)), Nop_),
                           Bind("gbind_lstmp", <<0>>, List(<<Constant(7)>>))}
    IN  {<<Top_(1, <<first, second>>), Chunk(0, body), Trampoline(Ask_)>> :
            first \in acts, second \in acts,
            body \in {BadCall_, If(Ask, BadCall_), Throw(Constant(7)),
                      If(Ask, Throw(Constant(7))) \o BadCall_}}

HostArguments == {<<>>, <<Int_(7)>>}

AllPrograms ==
    ExceptionPrograms \cup ClosurePrograms \cup StatementPrograms
      \cup SessionPrograms

-----------------------------------------------------------------------------
(* One program for each disagreement.                                      *)

(* The callee catches an exception of its own; the caller's TRY goes on.   *)
CalleeCatches ==
    {<<Top_(0, <<TryCatch(Do(F) \o Throw(Constant(8)), Nop_)>>),
       Chunk(0, TryCatch(Throw(Constant(7)), Nop_))>>}

(* suite/simple_closure.tbasic, with a closure that calls the other one    *)
(* before it reads its capture.                                            *)
ClosureCallsClosure ==
    {<<Top_(2, <<Make(0, 2), Make(1, 4), ExprStmt(Invoked(0))>>),
       Maker(3), Chunk(0, ExprStmt(Invoked(1)) \o Ret_(Upvalue(0))),
       Maker(5), Chunk(0, Ret_(Upvalue(0)))>>}
=============================================================================
