------------------------------- MODULE Scopes -------------------------------
(***************************************************************************)
(* Names, functions and loops in the compiler, src/src/compiler.c with the *)
(* tables of src/src/compile_utils.c and the growing arrays of             *)
(* src/src/includes/vec.h: which chunk code goes to, which slot a name     *)
(* gets, which loop a BREAK belongs to, and what is patched when a         *)
(* construct ends.                                                         *)
(*                                                                         *)
(* The parser is a set of C functions that call each other.  nest holds    *)
(* the locals of those whose construct is open, the innermost last; a step *)
(* is a construct that begins, the operand or the store of a binding, or a *)
(* construct that ends.  The source is any that the steps spell out.       *)
(*                                                                         *)
(* Abstractions: an expression is one operand, a name, a constant or a     *)
(* lambda; the condition of a loop is one instruction, and the update of a *)
(* FOR assigns the literal to the counter again; IF, TRY, BIND and the     *)
(* other statements, expressions among them, which change neither stacks   *)
(* nor tables in a way of their own, are left out (module Codegen has      *)
(* their code); a block that the end of the source closes is one that END  *)
(* closes; positions count from 0, chunks from 1, and native functions,    *)
(* which come before them, are left out.  A pointer into an array that has *)
(* moved reads what the old memory may hold.                               *)
(***************************************************************************)
EXTENDS Integers, Sequences, SequencesExt, FiniteSets

CONSTANTS
    Names,                      \* identifiers
    Routines,                   \* those of functions; no LET names one
    Literals,                   \* the lexemes of constants
    ParamLists, UsesLists,      \* tuples of names
    DEFAULT_SYMBOL_COUNT,       \* capacity of a new symbol table
    ANYVEC_DEFAULT_SIZE,        \* capacity of a new array of scopes or loops
    TBASIC_MAX_COMPILE_ERRORS,
    MaxConstructs,              \* bound on the length of the source
    MaxErrors                   \* bound on the syntax errors in it

ASSUME ScopesAssumption ==
    /\ DEFAULT_SYMBOL_COUNT \in Nat \ {0, 1} /\ ANYVEC_DEFAULT_SIZE \in Nat \ {0}
    /\ TBASIC_MAX_COMPILE_ERRORS \in Nat /\ MaxConstructs \in Nat /\ MaxErrors \in Nat
    /\ Routines \subseteq Names
    /\ ParamLists \subseteq Seq(Names) /\ UsesLists \subseteq Seq(Names)

VARIABLES
    chunks,         \* code, with the parameters and names of its function
    chunk_idx,      \* where code goes
    globals,        \* symbols of functions
    locals,         \* the array of open scopes; the first is the top level's
    loops,          \* the array of active loops
    saved_info,     \* the symbol on the left of the last := that was read
    errors,
    nest,           \* open constructs
    expr,           \* none, or a binding whose operand we want or have
    status,         \* open, returned, rejected or crashed
    left,           \* how many statements and lambdas the source may still begin
    stale,          \* history: an item of an array was read where it had been
    strayed,        \* history: a BREAK or CONTINUE of a lambda met a loop outside it
    exits           \* history: where the loops that have ended go on

stack_vars == <<chunk_idx, locals, loops, nest>>
history_vars == <<stale, strayed, exits>>
vars == <<chunks, globals, stack_vars, saved_info, errors, expr, status, left,
          history_vars>>

-----------------------------------------------------------------------------
(* Growing arrays: a push on a full one moves it                           *)

Array(items, capacity) == [items |-> items, capacity |-> capacity, moves |-> 0]

Full(array) == Len(array.items) >= array.capacity

Pushed(array, item, more) ==
    IF Full(array)
      THEN [items |-> Append(array.items, item), capacity |-> more,
            moves |-> array.moves + 1]
      ELSE [array EXCEPT !.items = Append(@, item)]

AnyVecPushed(array, item) == Pushed(array, item, 1 + (array.capacity * 3) \div 2)
Popped(array) == [array EXCEPT !.items = Front(@)]

(* The address of an item, as long as its array stays where it is.         *)
Address(array, pos) == [pos |-> pos, moves |-> array.moves]
Valid(array, address) == address.moves = array.moves

-----------------------------------------------------------------------------
(* Symbols and scopes                                                      *)

NoName == "-"
NoSymbol == [name |-> NoName, id |-> 0, domain |-> "none"]
Symbol(name, id, domain) == [name |-> name, id |-> id, domain |-> domain]

NewTable ==
    [infos |-> Array(<<>>, DEFAULT_SYMBOL_COUNT), local_argc |-> 0, next_local_id |-> 0]

(* The first symbol of a name in a domain.                                 *)
Places(symbols, name, domain) ==
    {pos \in DOMAIN symbols : symbols[pos].name = name /\ symbols[pos].domain = domain}
Find(symbols, name, domain) ==
    LET places == Places(symbols, name, domain)
    IN  IF places = {} THEN NoSymbol ELSE symbols[Min(places)]

SymbolPushed(table, symbol) ==
    LET infos == table.infos
    IN  [table EXCEPT !.infos = Pushed(infos, symbol, (infos.capacity * 3) \div 2)]

Scope == Last(locals.items)
Depth == Len(locals.items)
AtTopLevel == Depth <= 1

(* Functions first, then globals, and the names of the scope last.         *)
Resolve(name) ==
    LET func == Find(globals, name, "func")
        global_var == Find(locals.items[1].infos.items, name, "global_var")
        local == Find(Scope.infos.items, name, "local")
    IN  IF func # NoSymbol THEN func
        ELSE IF global_var # NoSymbol THEN global_var
        ELSE IF local # NoSymbol THEN local
        ELSE Find(Scope.infos.items, name, "upval")

(* A table after a name was recorded as a local of it.  The mutant forgets *)
(* to count it.                                                            *)
MutWithLocal(table, name) ==
    IF Find(table.infos.items, name, "local") # NoSymbol THEN table
    ELSE SymbolPushed(table, Symbol(name, table.next_local_id + 1, "local"))
WithLocal(table, name) ==
    LET id == table.next_local_id + 1
    IN  IF Find(table.infos.items, name, "local") # NoSymbol THEN table
        ELSE SymbolPushed([table EXCEPT !.next_local_id = id], Symbol(name, id, "local"))

WithGlobal(table, name) ==
    LET id == table.next_local_id
    IN  IF Find(table.infos.items, name, "global_var") # NoSymbol THEN table
        ELSE SymbolPushed([table EXCEPT !.next_local_id = id + 1],
                          Symbol(name, id, "global_var"))

WithParams(params) ==
    LET table[n \in 0 .. Len(params)] ==
            IF n = 0 THEN NewTable ELSE WithLocal(table[n - 1], params[n])
    IN  [table[Len(params)] EXCEPT !.local_argc = Len(params)]

Constants(table) == {pos \in DOMAIN table.infos.items : table.infos.items[pos].domain = "constant"}
WithConstant(table, literal) ==
    IF Find(table.infos.items, literal, "constant") # NoSymbol THEN table
    ELSE SymbolPushed(table, Symbol(literal, Cardinality(Constants(table)), "constant"))

(* The captures of a lambda, numbered in the order of its USES clause.     *)
(* The mutant numbers them from 1.                                         *)
MutWithCaptures(table, uses) ==
    LET with[n \in 0 .. Len(uses)] ==
            IF n = 0 THEN table ELSE SymbolPushed(with[n - 1], Symbol(uses[n], n, "upval"))
    IN  with[Len(uses)]
WithCaptures(table, uses) ==
    LET with[n \in 0 .. Len(uses)] ==
            IF n = 0 THEN table ELSE SymbolPushed(with[n - 1], Symbol(uses[n], n - 1, "upval"))
    IN  with[Len(uses)]

PositionOf(table, name, domain) == Min(Places(table.infos.items, name, domain))

-----------------------------------------------------------------------------
(* Code                                                                    *)

(* name and home are not in the code: what the source names here, and the  *)
(* loop that a BREAK or CONTINUE is written in; plain: not the store of an *)
(* assignment with another one on its right.                               *)
Ins(op, flag, wide, name) ==
    [op |-> op, flag |-> flag, wide |-> wide, name |-> name, home |-> <<>>,
     plain |-> TRUE]
Op(op, wide) == Ins(op, 0, wide, NoName)

LoadOp == [func |-> "load_imm_gid", global_var |-> "get_gvar",
           local |-> "load_local", upval |-> "get_upv"]
StoreOp == [global_var |-> "set_gvar", local |-> "store_local", upval |-> "set_upv"]
Load(symbol) == Ins(LoadOp[symbol.domain], 0, symbol.id, symbol.name)

NewChunk(table, uses) ==
    [code |-> <<Op("reserve", 0)>>, argc |-> table.local_argc, uses |-> uses,
     own |-> {}]

Code == chunks[chunk_idx].code
Here == Len(Code)

Emit(code) == chunks' = [chunks EXCEPT ![chunk_idx].code = @ \o code]

PatchedAt(code, pos, flag, wide) ==
    [n \in DOMAIN code |-> IF n = pos + 1 THEN [code[n] EXCEPT !.flag = flag, !.wide = wide]
                           ELSE code[n]]

(* All jumps that a loop has recorded, in the code of the chunk that the   *)
(* loop ends in.  The mutant sends a CONTINUE to where a BREAK goes.       *)
MutLoopPatched(code, breaks, continues, exit, repeat) ==
    LET at(pos, p) == p + 1 = pos
    IN  [pos \in DOMAIN code |->
            IF \E p \in breaks \cup continues : at(pos, p)
              THEN [code[pos] EXCEPT !.wide = exit - (pos - 1)]
            ELSE code[pos]]
LoopPatched(code, breaks, continues, exit, repeat) ==
    LET at(pos, p) == p + 1 = pos
    IN  [pos \in DOMAIN code |->
            IF \E p \in continues : at(pos, p)
              THEN [code[pos] EXCEPT !.wide = pos - 1 - repeat, !.flag = 1]
            ELSE IF \E p \in breaks : at(pos, p)
              THEN [code[pos] EXCEPT !.wide = exit - (pos - 1)]
            ELSE code[pos]]

-----------------------------------------------------------------------------
(* The top level                                                           *)

Init ==
    /\ chunks = <<NewChunk(NewTable, <<>>)>>
    /\ chunk_idx = 1
    /\ globals = <<>>
    /\ locals = AnyVecPushed(Array(<<>>, ANYVEC_DEFAULT_SIZE), NewTable)
    /\ loops = Array(<<>>, ANYVEC_DEFAULT_SIZE)
    /\ saved_info = NoSymbol
    /\ errors = 0
    /\ nest = <<>>
    /\ expr = "none"
    /\ status = "open"
    /\ left = MaxConstructs
    /\ stale = FALSE
    /\ strayed = FALSE
    /\ exits = {}

(* The next token is looked at by compiler_do_source or compiler_do_block; *)
(* only the former counts errors.                                          *)
InBlock ==
    /\ status = "open" /\ expr = "none"
    /\ nest = <<>> => errors <= TBASIC_MAX_COMPILE_ERRORS

Begins == InBlock /\ left > 0 /\ left' = left - 1

InBinding(state) == status = "open" /\ expr = state
Frame == Last(nest)
Open(frame) == nest' = Append(nest, frame)

Scoped(table) == locals' = [locals EXCEPT !.items[Depth] = table]

Reads(array, address) == stale' = (stale \/ ~Valid(array, address))

(* cgen_dead: every caller returns at once, and the code is thrown away.   *)
Dies ==
    /\ errors' = errors + 1
    /\ status' = "rejected"
    /\ chunks' = <<>> /\ nest' = <<>> /\ expr' = "none"
    /\ UNCHANGED <<chunk_idx, globals, locals, loops, saved_info, history_vars>>

-----------------------------------------------------------------------------
(* Bindings and expression statements                                      *)

(* LET of one name: its symbol is found before the initializer is read.    *)
BeginLet(name) ==
    LET domain == IF AtTopLevel THEN "global_var" ELSE "local"
        table == IF AtTopLevel THEN WithGlobal(Scope, name) ELSE WithLocal(Scope, name)
    IN  /\ Begins
        /\ Scoped(table)
        /\ Open([kind |-> "let", name |-> name, domain |-> domain, depth |-> Depth,
                 symbol |-> Address(table.infos, PositionOf(table, name, domain))])
        /\ expr' = "want"
        /\ UNCHANGED <<chunks, chunk_idx, globals, loops, saved_info, errors, status,
                       history_vars>>
    
(* The open constructs once an assignment inside them is in saved_info.    *)
Overwritten ==
    [n \in DOMAIN nest |-> IF nest[n].kind = "assign" THEN [nest[n] EXCEPT !.plain = FALSE]
                           ELSE nest[n]]

(* name := ...; the symbol is copied, to where the next one is, too.       *)
BeginAssign(name) ==
    LET symbol == Resolve(name)
        kept == symbol.domain # "func"
    IN  /\ Begins
        /\ symbol # NoSymbol
        /\ saved_info' = IF kept THEN symbol ELSE saved_info
        /\ nest' = Append(IF kept THEN Overwritten ELSE nest,
                          [kind |-> "assign", name |-> name, domain |-> symbol.domain,
                           plain |-> TRUE])
        /\ expr' = "want"
        /\ UNCHANGED <<chunks, chunk_idx, globals, locals, loops, errors, status,
                       history_vars>>

ReadName(name) ==
    /\ InBinding("want")
    /\ Resolve(name) # NoSymbol
    /\ Emit(<<Load(Resolve(name))>>)
    /\ expr' = "have"
    /\ UNCHANGED <<globals, stack_vars, saved_info, errors, status, left, history_vars>>

ReadConstant(literal) ==
    LET table == WithConstant(Scope, literal)
        symbol == Find(table.infos.items, literal, "constant")
    IN  /\ InBinding("want")
        /\ Scoped(table)
        /\ Emit(<<Op("put_k", symbol.id)>>)
        /\ expr' = "have"
        /\ UNCHANGED <<chunk_idx, globals, loops, nest, saved_info, errors, status, left,
                       history_vars>>
    
(* What the address of a symbol reads once its table has moved.            *)
IdsAt(table, address) ==
    IF Valid(table.infos, address) THEN {table.infos.items[address.pos].id}
    ELSE 0 .. table.next_local_id

StoreLet ==
    /\ InBinding("have") /\ Frame.kind = "let"
    /\ \E id \in IdsAt(locals.items[Frame.depth], Frame.symbol) :
         Emit(<<Ins(StoreOp[Frame.domain], 0, id, Frame.name)>>)
    /\ Reads(locals.items[Frame.depth].infos, Frame.symbol)
    /\ nest' = Front(nest)
    /\ expr' = "none"
    /\ UNCHANGED <<chunk_idx, globals, locals, loops, saved_info, errors, status, left,
                   strayed, exits>>

StoreAssigned ==
    /\ InBinding("have") /\ Frame.kind = "assign" /\ Frame.domain # "func"
    /\ Emit(<<[Ins(StoreOp[Frame.domain], 0, saved_info.id, Frame.name)
                 EXCEPT !.plain = Frame.plain]>>)
    /\ nest' = Front(nest)
    /\ expr' = "none"
    /\ UNCHANGED <<chunk_idx, globals, locals, loops, saved_info, errors, status, left,
                   history_vars>>

(* A name that nothing declares, or that no store can go to.               *)
BadName ==
    /\ \/ Begins /\ \E name \in Names : Resolve(name) = NoSymbol
       \/ /\ InBinding("want") /\ \E name \in Names : Resolve(name) = NoSymbol
          /\ UNCHANGED left
       \/ /\ InBinding("have") /\ Frame.kind = "assign" /\ Frame.domain = "func"
          /\ UNCHANGED left
    /\ Dies

-----------------------------------------------------------------------------
(* Lambdas and functions                                                   *)

IsRoutine(frame) == frame.kind \in {"lambda", "func"}
IsLoop(frame) == frame.kind \in {"while", "for"}

(* The frame of the innermost routine, 0 at the top level.                 *)
RoutineAt == SelectLastInSubSeq(nest, 1, Len(nest), IsRoutine)

(* A chunk and a scope for a routine; the scope is then kept by address.   *)
Enter(kind, old, ids, params, uses) ==
    LET table == WithCaptures(WithParams(params), uses)
        scopes == AnyVecPushed(locals, table)
    IN  /\ chunks' = Append(chunks, NewChunk(table, uses))
        /\ chunk_idx' = Len(chunks) + 1
        /\ locals' = scopes
        /\ Open([kind |-> kind, old |-> old, captured |-> uses, ids |-> ids,
                 chunk |-> Len(chunks) + 1, body |-> 1,
                 scope |-> Address(scopes, Depth + 1)])

(* A lambda may capture locals of the function it is in, and no other.     *)
IdsOf(uses) == [n \in DOMAIN uses |-> Find(Scope.infos.items, uses[n], "local")]
BeginLambda(params, uses) ==
    /\ InBinding("want") /\ left > 0 /\ left' = left - 1
    /\ \A n \in DOMAIN uses :
          IdsOf(uses)[n] # NoSymbol /\ uses[n] \notin {params[k] : k \in DOMAIN params}
    /\ Enter("lambda", chunk_idx, [n \in DOMAIN uses |-> IdsOf(uses)[n].id], params, uses)
    /\ expr' = "none"
    /\ UNCHANGED <<globals, loops, saved_info, errors, status, history_vars>>

BadUses(params, uses) ==
    /\ InBinding("want") /\ left > 0
    /\ \E n \in DOMAIN uses :
          IdsOf(uses)[n] = NoSymbol \/ uses[n] \in {params[k] : k \in DOMAIN params}
    /\ Dies
    /\ UNCHANGED left

(* A function is recorded before its body is read; a name that is one      *)
(* already keeps its chunk.                                                *)
BeginFunc(name, params) ==
    /\ Begins /\ nest = <<>>
    /\ globals' = IF Find(globals, name, "func") # NoSymbol THEN globals
                  ELSE Append(globals, Symbol(name, Len(chunks) + 1, "func"))
    /\ Enter("func", 1, <<>>, params, <<>>)
    /\ UNCHANGED <<loops, saved_info, errors, expr, status, history_vars>>

(* What compiler_patch_reserve_inst writes: locals beyond the parameters.  *)
MutReserveSize(table) == table.next_local_id - table.local_argc - 1
ReserveSize(table) == table.next_local_id - table.local_argc

SizesAt(address) ==
    LET table == locals.items[address.pos]
    IN  IF Valid(locals, address) THEN {ReserveSize(table)}
        ELSE {n - table.local_argc : n \in 0 .. table.next_local_id}

MutScopeEnded == locals
ScopeEnded == Popped(locals)

(* An empty block is filled by a nop, so that jumps over it go somewhere.  *)
Filler == IF Here = Frame.body THEN <<Op("nop", 0)>> ELSE <<>>
NamesOf(table) == {<<s.name, s.domain>> : s \in
                    {table.infos.items[pos] : pos \in DOMAIN table.infos.items}}

Closed(code, size) ==
    [chunks[chunk_idx] EXCEPT
        !.code = PatchedAt(code \o <<Ins("ret", 15, 0, NoName)>>, 0, 0, size),
        !.own = NamesOf(Scope)]

EndFunc ==
    /\ InBlock /\ nest # <<>> /\ Frame.kind = "func"
    /\ \E size \in SizesAt(Frame.scope) :
          chunks' = [chunks EXCEPT ![chunk_idx] = Closed(Code \o Filler, size)]
    /\ locals' = ScopeEnded
    /\ chunk_idx' = Frame.old
    /\ nest' = Front(nest)
    /\ Reads(locals, Frame.scope)
    /\ UNCHANGED <<globals, loops, saved_info, errors, expr, status, left, strayed, exits>>

(* The lambda is then a value of the code around it, its captures on top.  *)
Loads(frame) ==
    [n \in DOMAIN frame.ids |-> Ins("load_local", 0, frame.ids[n], frame.captured[n])]
Value(frame) ==
    <<Op("load_imm_gid", frame.chunk)>>
        \o (IF frame.ids = <<>> THEN <<>>
            ELSE Loads(frame) \o <<Op("mk_closure", Len(frame.ids))>>)

EndLambda ==
    /\ InBlock /\ nest # <<>> /\ Frame.kind = "lambda"
    /\ \E size \in SizesAt(Frame.scope) :
          chunks' = [chunks EXCEPT ![chunk_idx] = Closed(Code \o Filler, size),
                                   ![Frame.old].code = @ \o Value(Frame)]
    /\ locals' = ScopeEnded
    /\ chunk_idx' = Frame.old
    /\ nest' = Front(nest)
    /\ expr' = "have"
    /\ Reads(locals, Frame.scope)
    /\ UNCHANGED <<globals, loops, saved_info, errors, status, left, strayed, exits>>

-----------------------------------------------------------------------------
(* Loops                                                                   *)

NewLoop == [breaks |-> {}, continues |-> {}]

(* The loop a BREAK written here belongs to, if its function has one.      *)
HomeAt == SelectLastInSubSeq(nest, RoutineAt + 1, Len(nest), IsLoop)

EnterLoop(around, kind, out, again, body) ==
    LET active == AnyVecPushed(loops, NewLoop)
    IN  /\ loops' = active
        /\ nest' = Append(around, [kind |-> kind, out |-> out, again |-> again, body |-> body,
                                   id |-> <<chunk_idx, Here>>,
                                   loop |-> Address(active, Len(active.items))])

BeginWhile ==
    /\ Begins
    /\ EnterLoop(nest, "while", Here + 1, Here, Here + 2)
    /\ Emit(<<Op("put_bool", 0), Op("jmp_false", 0)>>)
    /\ UNCHANGED <<chunk_idx, globals, locals, saved_info, errors, expr, status,
                   history_vars>>

(* FOR name: literal, check, name := literal.  The symbol of the counter   *)
(* is found before the initializer and used after it, and found again for  *)
(* the update, an expression statement; only a local will do.              *)
ForCode(constant, id, name) ==
    <<Op("put_bool", 0), Op("jmp_false", 0), Op("jmp", 5), Op("nop", 0),
      Op("put_k", constant), Ins("store_local", 0, id, name), Ins("jmp", 1, 6, NoName)>>
BeginFor(name, literal) ==
    LET table == WithConstant(Scope, literal)
        constant == Find(table.infos.items, literal, "constant").id
        counter == Address(Scope.infos, PositionOf(Scope, name, "local"))
        check == Here + 2
    IN  /\ Begins
        /\ Resolve(name).domain = "local"
        /\ Scoped(table)
        /\ \E id \in IdsAt(table, counter) :
             Emit(<<Op("put_k", constant), Ins("store_local", 0, id, name)>>
                    \o ForCode(constant, Resolve(name).id, name))
        /\ EnterLoop(Overwritten, "for", check + 1, check + 3, check + 7)
        /\ saved_info' = Resolve(name)
        /\ Reads(table.infos, counter)
        /\ UNCHANGED <<chunk_idx, globals, errors, expr, status, strayed, exits>>
    
(* A counter that is no local ends the compiler, one that nothing declares *)
(* the process: the symbol is NULL where its domain is read.               *)
BadFor ==
    /\ Begins
    /\ \E name \in Names :
         \/ Resolve(name).domain \in {"func", "global_var", "upval"} /\ Dies
         \/ /\ Resolve(name) = NoSymbol
            /\ status' = "crashed"
            /\ UNCHANGED <<chunks, globals, stack_vars, saved_info, errors, expr,
                           history_vars>>

(* BREAK and CONTINUE are statements of blocks.  They are recorded with    *)
(* the innermost active loop, whichever function that one is in.           *)
Leave(kind, list) ==
    /\ Begins /\ nest # <<>>
    /\ loops.items # <<>>
    /\ loops' = [loops EXCEPT !.items[Len(loops.items)][list] = @ \cup {Here}]
    /\ IF HomeAt = 0
         THEN strayed' = TRUE /\ Emit(<<Op("jmp", 0)>>)
         ELSE /\ UNCHANGED strayed
              /\ Emit(<<[Op("jmp", 0) EXCEPT !.home = <<kind, nest[HomeAt].id>>]>>)
    /\ UNCHANGED <<chunk_idx, globals, locals, nest, saved_info, errors, expr, status,
                   stale, exits>>

Break == Leave("break", "breaks")
Continue == Leave("continue", "continues")
LeaveNoLoop == Begins /\ nest # <<>> /\ loops.items = <<>> /\ Dies

(* What the address of a loop reads once the array of loops has moved.     *)
LoopsAt(address) ==
    LET loop == Last(loops.items)
    IN  IF Valid(loops, address) THEN {loops.items[address.pos]}
        ELSE [breaks : SUBSET loop.breaks, continues : SUBSET loop.continues]

EndLoop(tail, exit, back) ==
    LET out == Frame.out
        code == Code \o Filler \o tail
    IN  /\ \E loop \in LoopsAt(Frame.loop) :
             chunks' = [chunks EXCEPT ![chunk_idx].code =
                LoopPatched(PatchedAt(PatchedAt(code, out, 0, exit - out),
                                      back, 1, back - Frame.again),
                            loop.breaks, loop.continues, exit, Frame.again)]
        /\ loops' = Popped(loops)
        /\ nest' = Front(nest)
        /\ exits' = exits \cup {[id |-> Frame.id, exit |-> exit, again |-> Frame.again]}
        /\ Reads(loops, Frame.loop)
        /\ UNCHANGED <<chunk_idx, globals, locals, saved_info, errors, expr, status, left,
                       strayed>>

EndWhile ==
    LET back == Here + Len(Filler)
    IN  /\ InBlock /\ nest # <<>> /\ Frame.kind = "while"
        /\ EndLoop(<<Op("jmp", 0)>>, back + 1, back)

EndFor ==
    LET back == Here + Len(Filler)
    IN  /\ InBlock /\ nest # <<>> /\ Frame.kind = "for"
        /\ EndLoop(<<Op("jmp", 0), Op("nop", 0)>>, back + 1, back)

-----------------------------------------------------------------------------
(* Syntax errors: counted, and what was begun is left as it is             *)

Fault == errors < MaxErrors /\ errors' = errors + 1

FaultyStatement ==
    /\ Begins /\ Fault
    /\ UNCHANGED <<chunks, globals, stack_vars, saved_info, expr, status, history_vars>>

FaultyBinding ==
    /\ InBinding("want") /\ Fault
    /\ nest' = Front(nest) /\ expr' = "none"
    /\ UNCHANGED <<chunks, chunk_idx, globals, locals, loops, saved_info, status, left,
                   history_vars>>

(* In a list of parameters: the chunk and the scope are there by then.     *)
EmptyChunk == [code |-> <<>>, argc |-> 0, uses |-> <<>>, own |-> {}]
FaultyRoutine ==
    /\ chunks' = Append(chunks, EmptyChunk)
    /\ chunk_idx' = Len(chunks) + 1
    /\ locals' = AnyVecPushed(locals, NewTable)
    /\ Fault
    /\ UNCHANGED <<loops, saved_info, status, history_vars>>

FaultyLambda ==
    /\ InBinding("want") /\ left > 0 /\ left' = left - 1
    /\ FaultyRoutine
    /\ nest' = Front(nest) /\ expr' = "none"
    /\ UNCHANGED globals

FaultyFunc(name) ==
    /\ Begins /\ nest = <<>>
    /\ FaultyRoutine
    /\ globals' = IF Find(globals, name, "func") # NoSymbol THEN globals
                  ELSE Append(globals, Symbol(name, Len(chunks) + 1, "func"))
    /\ UNCHANGED <<nest, expr>>

(* Past the initializer, the loop is not left either.                      *)
FaultyFor(name) ==
    /\ Begins /\ Fault
    /\ Resolve(name).domain = "local"
    /\ Emit(<<Op("put_bool", 0), Ins("store_local", 0, Resolve(name).id, name)>>)
    /\ loops' = AnyVecPushed(loops, NewLoop)
    /\ UNCHANGED <<chunk_idx, globals, locals, nest, saved_info, expr, status,
                   history_vars>>

-----------------------------------------------------------------------------
(* The end of the source: code that has errors is thrown away              *)

MainScope == [pos |-> 1, moves |-> 0]

Finish ==
    /\ \/ InBlock /\ nest = <<>>
       \/ status = "open" /\ nest = <<>> /\ errors > TBASIC_MAX_COMPILE_ERRORS
    /\ status' = IF errors > 0 THEN "rejected" ELSE "returned"
    /\ \E size \in SizesAt(MainScope) :
         chunks' = IF errors > 0 THEN <<>>
                   ELSE [chunks EXCEPT ![chunk_idx] = Closed(Code, size)]
    /\ locals' = ScopeEnded
    /\ Reads(locals, MainScope)
    /\ UNCHANGED <<chunk_idx, globals, loops, nest, saved_info, errors, expr, left,
                   strayed, exits>>

Over == status \in {"returned", "rejected", "crashed"} /\ UNCHANGED vars

Statement ==
    \/ \E name \in Names \ Routines : BeginLet(name)
    \/ \E name \in Names : BeginAssign(name)
    \/ StoreLet \/ StoreAssigned
    \/ BeginWhile \/ EndWhile \/ EndFor \/ Break \/ Continue
    \/ \E name \in Names, literal \in Literals : BeginFor(name, literal)

Operand ==
    \/ \E name \in Names : ReadName(name)
    \/ \E literal \in Literals : ReadConstant(literal)
    \/ \E params \in ParamLists, uses \in UsesLists : BeginLambda(params, uses)
    \/ EndLambda

Refused ==
    \/ BadName \/ BadFor \/ LeaveNoLoop
    \/ \E params \in ParamLists, uses \in UsesLists : BadUses(params, uses)
    \/ FaultyStatement \/ FaultyBinding \/ FaultyLambda
    \/ \E name \in Routines : FaultyFunc(name)
    \/ \E name \in Names : FaultyFor(name)

Next ==
    \/ Statement \/ Operand \/ Refused
    \/ \E name \in Routines, params \in ParamLists : BeginFunc(name, params)
    \/ EndFunc \/ Finish \/ Over

Spec == Init /\ [][Next]_vars

-----------------------------------------------------------------------------
(* Properties                                                              *)

(* The program that is returned is one that the source determines: no item *)
(* was read where its array had been, no BREAK took a loop of another      *)
(* routine.                                                                *)
Returned == status = "returned" /\ ~stale /\ ~strayed
CodeOf(c) == chunks[c].code

(* While the source has no error, code goes to the chunk of the routine    *)
(* that is being read, whatever routines were read inside it, and there is *)
(* one scope for each open routine and one active loop for each open loop. *)
ScopesFollowNesting ==
    status = "open" /\ errors = 0 =>
        /\ chunk_idx = IF RoutineAt = 0 THEN 1 ELSE nest[RoutineAt].chunk
        /\ Depth = 1 + Cardinality({n \in DOMAIN nest : IsRoutine(nest[n])})
        /\ Len(loops.items) = Cardinality({n \in DOMAIN nest : IsLoop(nest[n])})

(* In a program that is returned, every local slot that a chunk names is   *)
(* one of its parameters or of the slots its RESERVE makes room for (the   *)
(* stores of NameIsAssigned aside).                                        *)
FrameFits ==
    Returned =>
        \A c \in DOMAIN chunks : \A n \in DOMAIN CodeOf(c) :
            CodeOf(c)[n].op \in {"load_local", "store_local"} /\ CodeOf(c)[n].plain =>
                CodeOf(c)[n].wide \in 1 .. chunks[c].argc + CodeOf(c)[1].wide

Target(pos, ins) == IF ins.flag = 1 THEN pos - ins.wide ELSE pos + ins.wide

(* In a program that is returned, every BREAK goes past the end of the loop *)
(* it is written in and every CONTINUE to that loop's test or update: also *)
(* with loops inside each other, and loops of lambdas inside loops.        *)
JumpsLandInTheirLoop ==
    Returned =>
        \A c \in DOMAIN chunks : \A n \in DOMAIN CodeOf(c) :
            LET ins == CodeOf(c)[n]
            IN  ins.home # <<>> =>
                  \E loop \in exits :
                     /\ loop.id = ins.home[2] /\ loop.id[1] = c
                     /\ Target(n - 1, ins) =
                          IF ins.home[1] = "break" THEN loop.exit ELSE loop.again

Space == [load_local |-> "local", store_local |-> "local",
          get_upv |-> "upval", set_upv |-> "upval",
          get_gvar |-> "global_var", set_gvar |-> "global_var", load_imm_gid |-> "func"]

Meanings(c, name) ==
    {d \in {"local", "upval"} : <<name, d>> \in chunks[c].own}
    \cup {d \in {"global_var"} : <<name, d>> \in chunks[1].own}
    \cup {d \in {"func"} : Find(globals, name, d) # NoSymbol}

(* In a chunk of a program that is returned, all that the source says of   *)
(* one name goes to one slot, and of two names to two: the LET, every      *)
(* assignment, every use, the counter of a FOR and what a lambda captures. *)
(* Not so for a name that means two things there, and for the assignments  *)
(* of NameIsAssigned.                                                      *)
NamesKeepTheirSlot ==
    Returned =>
        \A c \in DOMAIN chunks :
            LET named == {n \in DOMAIN CodeOf(c) :
                            /\ CodeOf(c)[n].name # NoName /\ CodeOf(c)[n].plain
                            /\ Cardinality(Meanings(c, CodeOf(c)[n].name)) <= 1}
                slot(n) == <<Space[CodeOf(c)[n].op], CodeOf(c)[n].wide>>
            IN  \A n, k \in named :
                    CodeOf(c)[n].name = CodeOf(c)[k].name <=> slot(n) = slot(k)

(* A lambda of a program that is returned finds under the number of each   *)
(* of its captures the name it was captured as: the loads in front of      *)
(* mk_closure are those of its USES, in their order.                       *)
CapturesLineUp ==
    Returned =>
        \A c \in DOMAIN chunks : \A n \in DOMAIN CodeOf(c) :
            CodeOf(c)[n].op = "mk_closure" =>
                LET first == n - CodeOf(c)[n].wide
                    lambda == CodeOf(c)[first - 1].wide
                    uses == chunks[lambda].uses
                IN  /\ [k \in DOMAIN uses |-> CodeOf(c)[first + k - 1].name] = uses
                    /\ Len(uses) = n - first
                    /\ \A m \in DOMAIN CodeOf(lambda) :
                         LET ins == CodeOf(lambda)[m]
                         IN  ins.op \in {"get_upv", "set_upv"} /\ ins.plain =>
                                ins.wide + 1 \in DOMAIN uses /\ uses[ins.wide + 1] = ins.name

(* What the comment in compiler_do_expr_stmt says of `name := value`: it   *)
(* is an update of that name's slot, the one that a read of the name loads *)
(* in the same chunk.  It does not hold when the value is a lambda that    *)
(* has an assignment of its own: the inner name has taken the place of the *)
(* outer one in saved_info by the time of the store.                       *)
NameIsAssigned ==
    Returned =>
        \A c \in DOMAIN chunks : \A n, k \in DOMAIN CodeOf(c) :
            LET store == CodeOf(c)[n]
                other == CodeOf(c)[k]
            IN  /\ store.op = "store_local" /\ other.op = "load_local"
                /\ store.name = other.name
                => store.wide = other.wide
=============================================================================
