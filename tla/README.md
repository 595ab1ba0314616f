# A verification project for the TBasic interpreter

TBasic is a small dynamic language: a C program compiles a source file to
bytecode, optimizes it, and runs it on a stack machine with a fixed heap and a
mark-and-sweep collector. One thread runs it all. What makes it hard is not
concurrency but long sequences of legal steps over state that several parts
share: the operand stack, a global dispatcher pointer, one exception flag, one
pointer to the running closure's captures, ids of heap cells that are given
back and used again.

Paths below are relative to `src/` of the repository: `src/vm.c` and so on.

## 1. Inventory

| component | state | operations | used by | what makes it correct |
|---|---|---|---|---|
| object heap, `src/objects.c` | cell table, free list, bump pointer, tenure mark, cost | store, erase, get, tenure, is-ripe | VM, collector, natives | an id names one object at a time; accounts match the cells |
| collector, `src/gc.c` | bit set of reached ids, queue of ids, queue of dict nodes (local) | collect: roots, mark, sweep, clear | `MK_LIST`, `MK_DICT` | what is reached stays, what is not goes, it ends |
| virtual machine, `src/vm.c` | stack, `sp`, `bp`, `depth`, `status`, `trying_except`, `upvals`, `error_oid`, the global `dispatcher`, the C stack | one handler per opcode, `vm_run`, `restart_vm` | driver, API | calls, exceptions and failures leave the caller as it was; the status tells what happened |
| closures, `src/obj_closure.c` | captured values | create, invoke, read and write a capture | VM | a closure sees its own captures |
| exceptions, `src/obj_exception.c` | payload, line | create, read | VM | an exception reaches the CATCH of the TRY it is thrown in |
| compiler, `src/compiler.c` | current chunk, token, hints, error count, symbol tables | one function per grammar rule, emission, backpatching | driver | code of an expression leaves one value, of a statement none; jumps land where the source says |
| scopes and loops, `src/compile_utils.c` | symbol tables, arrays of open scopes and active loops, the addresses the parser keeps into them | enter, leave, record, find | compiler | a name keeps its slot; RESERVE makes room for every slot that is used; jumps are patched in their own loop; captures have the numbers the lambda uses |
| bytecode, `src/bytecode.c` | chunks, constants | build, dump | all | - |
| optimizer, `src/optimizer.c` | table state, position | one pass over a chunk | driver, after every compilation | optimized code computes what it computed before |
| loader, `src/load_bc.c` | position in a byte buffer, state, flags | read sections | API | a load gives all of the program or nothing |
| lists, `src/obj_list.c`, `src/tb_list_stdlib.c` | items, mutable flag | get, set, append, reverse, concatenate, clear, cut | VM, natives | frozen lists keep their items; a list is joined to itself as to another; a slice is inside its list |
| dicts, `src/obj_dict.c` | binary search tree by key hash | get, set | VM | a map of hashes; every node is freed once |
| iterators, `src/obj_iterator.c`, `src/tb_obj_stdlib.c` | cursor and end pointers into a list or string | make, move, peek, freeze, thaw | natives | the pointers stay inside until the memory moves or goes |
| strings, `src/obj_str.c`, `src/mystr.c` | characters, capacity, mutable flag | get, set, append | VM, natives, API | the terminator fits; frozen strings keep their text |
| file streams, `src/obj_fs.c`, `src/tb_io_stdlib.c` | a `FILE *` | open, close, get, put, read, write, console | natives | a `FILE` belongs to one stream and is closed once; no byte is skipped; only writers write |
| numeric functions, `src/tb_gen_stdlib.c` | - | pure | natives | - |
| values, containers, `src/value.c`, `src/includes/vec.h` | - | - | all | - |
| lexer, `src/lex.c` | position | next token | compiler | - |
| driver, command line, API, `src/driver.c`, `src/main.c`, `src/includes/tb_api.h` | compiler, natives, VM | compile, run, invoke | user | the result of a run reaches the user |
| demo, suite, benchmarks | - | - | - | - |

Interactions. The driver compiles a file to chunks, runs the optimizer on each
and gives them to a VM. The VM calls natives through a table and objects
through function pointers in the object's head (`get_v`, `set_v`, `invoke`,
`del`); a closure's `invoke` calls back into the dispatcher, so a call in
TBasic is a nested call in C. `MK_LIST` and `MK_DICT` call the collector, which
reads the stack and frees cells of the heap. Everything that creates an object
stores it in the heap and pushes the id.

Hard behaviours, each listed under `hazards` in `PROJECT.json` at its line:
collection against the objects the stack still uses; reuse of ids; queues that
fill; exceptions that unwind through functions which catch, return out of a
TRY, or fail; closures that call closures; values left on the stack by one
branch of a jump; failures that overwrite one another's status; a peephole pass
that does not see jumps; addresses into arrays that grow, kept by the parser
and by iterators; a machine that is invoked again; keys that share a hash.

## 2. Modules

| module | models | notes |
|---|---|---|
| `IdPool` | what a user of the heap relies on | abstract specification, no code |
| `Heap` | `src/objects.c` | refines `IdPool` |
| `RingQueue` | `IdQueue` and `PtrQueue` of `src/gc.c` | constant-level operators on a record |
| `QueueUse` | a queue under any order of pushes, pops, resets | history variables for what was pushed and got |
| `GC` | `src/gc.c` with the handlers that create, read and change objects | composes `Heap` and two `RingQueue`s |
| `Bytecode` | the instruction | shared by the next four |
| `Arithmetic` | what operators, comparisons and super-instructions compute | used by `VM` and as reference for the optimizer |
| `VM` | control of `src/vm.c` and `src/obj_closure.c` | runs any program given as chunks, and again when a host asks |
| `Codegen` | what each `compiler_do_*` function emits | operators from code to code |
| `Optimizer` | `src/optimizer.c` | one step per instruction scanned |
| `Scopes` | names, functions, loops and errors in `src/compiler.c`, `src/compile_utils.c` | one step per construct that begins or ends |
| `ListObjects` | lists and list iterators with their natives | memory that moves, frozen flag |
| `DictMap` | what a dict promises | abstract specification, no code |
| `DictTree` | `src/obj_dict.c` | refines `DictMap` |
| `Streams` | `src/obj_fs.c`, `src/tb_io_stdlib.c` | the FILEs of the C library are external |
| `Strings` | heap strings, `src/obj_str.c`, `src/mystr.c`, and their iterators | |
| `Loader` | `src/load_bc.c` | one step per turn of `tbl_dispatch` |
| `HeapProofs`, `QueueProofs`, `GCProofs`, `VMProofs`, `OptimizerProofs`, `ScopeProofs`, `NameProofs`, `LibraryProofs` | theorems | section 4; `NameProofs` goes on from `ScopeProofs`; `LibraryProofs` has those of the modules that `MCLibrary` runs side by side |
| `MC*` | instances for TLC | families of programs, of code, of images |

`MCVM` and `MCOptimizer` compose components: their programs are built with
`Codegen`, so a property of `VM` or `Optimizer` that they check is one of the
compiler as well. `MCStores` (heap and ring buffer) and `MCLibrary` (lists, dict,
streams, strings, loader) run components side by side that do not interact: a
behaviour moves one of them and leaves the others as they began.

### Heap

`cells`, `free_ids`, `next_cell_id`, `tenure_count` and `cost` are the fields
of `ObjHeap`. `heap_gen_id` and `heap_reserve_id` keep their names; `GenId` is
the id that `heap_gen_id` answers. `heap_erase` empties the cell before it
looks at what was there, so an empty cell or an object without `del` ends the
process: `crashed`. The environment (`Store`, `Erase`, `Tenure`) may erase any
id, also a stale one, a negative one and one past the bump pointer.

### RingQueue and QueueUse

`IdQueue_push` moves the tail and writes where it then points; `IdQueue_pop`
reads under the head and then moves it. So the first pop answers a dud, each
later pop the entry pushed one earlier, and the last entry never comes out.
`OneBehind` says exactly that; the collector's properties
depend on it. They hold until a push is refused: a refused push has moved the
tail onto the head, and the full queue then looks empty.

### GC

The heap's variables, the operand stack, `error_oid`, the bit set and the
queue. A handler is one step. `MkList` and `MkDict` enter the collector when
the heap is ripe; then `RootNext`, `MarkNext`, `QueueItem`, `MarkNode` and
`SweepNext` are one turn of a loop each, `RootsDone`, `ItemsDone`, `NodesDone` and
`MarkDone` leave their loops, and `Finish` clears the marks and does
the handler's own work. `pc` says where it is and `pending` what the handler
will make. A write past the bytes of the bit set is undefined in C: the process
may die there or go on (`SetBits`).

The loop over the roots reads the slot at `sp` at every turn. The model keeps
that (`RootNext`), so the marking properties are about what the top of the stack
reaches, and `FreesUnreachedOnly`, about what other slots reach and the top does not, is
violated: in the trace an object in the slot below the top goes. `ReachBy` is the least set
that holds the top and, with each list, its items. A value is the id of a cell, a
dud id, or `Prim`, which is no integer and stands for all that are no reference.

### VM and Codegen

`frames` holds the locals of the C activations of `fn_call` and
`closure_invoke_fn`. A handler that ends in a tail call of the dispatcher is a
step of `run = "exec"`; one that returns to C sets `run` to `"return"`, and
`Unwind` is the rest of the caller's C function. `lost` counts the calls that a
failing handler left without `RET`; `in_flight` remembers that an exception is
not caught yet, `unanswered` that a call left no result, `wrapped` that `depth`
has come round to 0. These are history variables: no action reads them.

Two assumptions say what a compiled chunk is, and TLC evaluates them for every
program of a run. `WellFormed`: it ends in the RET that is marked, the only one (or
is a native's trampoline), its jumps stay inside, a JMP stands above each CATCH and
no jump lands on one, and TRYs and CATCHes pair up. `Balanced`: by whichever way
control comes to an instruction, the operands it takes are there. `Heights` is the least number
of operands over the locals with which control can come: the compiler may leave
more (the condition of an IF without ELSE, the target of an assignment to
an item), never fewer, but for `&&` and `||`, which pop their left operand twice.
A chunk with one of them is exempt (`ShortCircuit`), and so are then the
properties that depend on it (`Sinks`): going round a loop over an `&&`, operands would sink
into the frame below. `Codegen` makes such chunks of
every source but those in which a BREAK strays out of a lambda; a program
image from elsewhere need not be one. A call of an id that is no chunk ends the
process: `crashed`.

When a program has ended a host may invoke it once more (`Invoke`:
`tbasic_invoke`, `restart_vm`). What `restart_vm` does not mention stays as it
was, the global dispatcher among it: `carried` remembers that the second
invocation began with the search of the first one still pending, and
`Dispatches` that such a search only starts after two instructions.

`BIND` (`BindLstmp`, `GbindLstmp`, `BadBind`) fails by returning a status it does
not set. `SetIdx` leaves its target on the stack and `SetItem` of `Codegen` does
not pop it. Operators, comparisons and bit operations are one action, `Compute`,
over `Result` of `Arithmetic`.

`Codegen` has an operator for each construct, from the code of its parts to its
own code, with the jump distances of the compiler. Names are the ids they
resolve to. BREAK and CONTINUE are placeholders until `Patched` makes jumps of
them, as the compiler does with recorded positions.

### Arithmetic and Optimizer

The optimizer's table is a function from states to functions from opcodes to
states. `Operands` has the order in which the two numbers of a
super-instruction are kept and `% 256` the width of its flag. `Results`
evaluates straight-line code with the semantics of the VM's handlers, before
and after. `MeaningKeptButForOrder` leaves out what the code gets wrong:
`ConstantFirst`, a constant minus or divided by a local, which `opt_order` shows, and
`Cut`, a first number above 255 (section 5).

### Scopes

The parser's C functions are open constructs: `nest` holds their locals, that
is the chunk to return to, the address of their scope, the positions to patch.
A step begins a LET, an assignment, a lambda, a FUN, a WHILE, a FOR, BREAK or
CONTINUE, reads an operand, or ends the innermost construct; the source is
whatever the steps spell out. The update of a FOR, which the compiler reads as an
expression statement, assigns its counter, and so takes the one `saved_info` from an
assignment that the loop is in the value of (`Overwritten`); an update that is no
assignment is code like any other and left out. An error
may come at each of the places where the compiler gives up. `locals` and `loops` are arrays with a capacity and a
count of moves, and so is the table of symbols in each scope. An address is a
position and the count of moves when it was taken; reading it later is reading
any old value (`IdsAt`), and `stale` remembers that this happened. `strayed`
remembers that a BREAK in a lambda was recorded with a loop outside it.
`chunks` remembers with each instruction the name it was compiled for (`name`)
and whether the source determines it (`plain`), for the properties.

### ListObjects, DictTree, Streams, Strings

Each has the objects of its kind by id, one action per native function or
assignment, and collection of an object as an action that may come at any time.

* `ListObjects`: an iterator is two positions and whether its memory is still
  there (`dangling`); what a dangling iterator reads is not modelled. The sum in
  `lscut` wraps at `SizeValues`, and the numbers of a program are below half of it, as
  an `int` is below half of a `size_t`. `lscat` is the one native whose loop may write to
  the list it reads from, so each turn of it is a step, `CatTurn`: `copy` has its locals, and
  an item is read from the memory in which the source is at that turn (`SourceMemory`,
  `ReadAt`), which the push of the turn before may have moved. A list that moves gets a
  greater capacity, so the capacity tells one memory from the other, and what is read
  through a pointer to an old one may be anything. `lscut` and `MK_LIST` fill a list that
  nothing refers to yet, and are one step (`Filled`).
* `DictTree`: nodes by the order of allocation, `HashValue` the sum over four
  bytes. The refinement `ActsAsMap` maps the tree to the function that reads
  every key, and says that keys of one hash are the `Same`.
* `Streams`: a FILE has a path, a position, a mode and the two marks of the C
  library; `Fread` and `Fwrite` apply `ReadTurns` and `WriteTurns`, the turns of the
  loops in the code one after another.
  `io` is a history variable with the last call and its result.
* `Strings`: `capacity` is what the code keeps, `room` what was allocated. The
  two differ by one for a string that a host passes. `Typed` are the turns of
  `readln`, a character each.

### Loader

A buffer is the image of a program or a prefix of one. `ld` has the position,
the state and the flags; each turn reads a section and goes to the next or
fails, and what a failed turn had pushed is dropped by `Returned`. A second load
by the same loader begins at the first byte of its buffer, but in the state and with the
flags that the first one ended with.

## 3. Runs

| run | instance | states | properties |
|---|---|---|---|
| `stores` | a heap of 5 cells with deletable and undeletable objects; a queue of 3 slots, 2 items, 6 pushes between resets | 32,635 | accounts, tenure, refinement of `IdPool`; `OneBehind` |
| `gc_lists` | 3 cells, 4 bits, `sp` up to 3, lists of one item and strings | 450,285 | `MarkComplete`, `SweepExact`, `HeapKept`, `CollectEnds` |
| `gc_kinds` | 2 cells, 4 bits, `sp` up to 3, every kind of object, dicts of two nodes | 5,106,039 | `TypeOK`, `MarkSound` |
| `gc_reached` | 3 cells | | violation: `FreesUnreachedOnly` |
| `vm` | four families of programs: exceptions, closures, statements, sessions | 561,000 | `TypeOK`, `DepthExact`, `OutcomeExact`, `CatchNeedsThrow`, `UpvalsOfInnermost`, `BaseIsCalleeSlot`, `OperandsInFrame`, `ArmedFindsHandler`, `BeginsAfresh`, `Ends` |
| `vm_uncaught` | one program | | violation: `FindsHandler` |
| `vm_lostcaptures` | one program | | violation: `CapturesAtHand` |
| `scopes` | every source of 5 constructs, 2 names of variables and one of functions, one parameter each, one syntax error, table capacities 3 | 1,665,124 | `ScopesFollowNesting`, `FrameFits`, `JumpsLandInTheirLoop`, `NamesKeepTheirSlot`, `CapturesLineUp` |
| `scopes_assign` | the same sources, shorter | | violation: `NameIsAssigned` |
| `library` | 2 lists of one item or NIL and an iterator; a dict of 6 keys with 4 hashes; 2 streams on 2 files; a string and an iterator; 2 images cut anywhere | 266,540 | per part: `IteratorsInside`, `FrozenStay`, `CatJoins`, `CutInside`; `ActsAsMap`, `TreeFreedOnce`; `HandlesOwned`, `BytesExact`; `TextInside`; `WholeOrNothing` |
| `optimizer` | about 11,300 pieces of code, 16 environments each | 91,156 | `JoinsKept`, `MeaningKeptButForOrder` |
| `opt_order` | `1 - a` | | violation: `MeaningKept` |

Bounds, and why they are enough.

* `stores`: five cells leave room for a free list of several ids in any order, a
  full heap, a tenure mark between live and empty cells, and both sides of the
  threshold. `MaxPushes` is twice the capacity of the queue, so positions wrap and
  stale entries come under the head again. The theorems below lift both to every
  capacity.
* `gc_*`: the real heap has 512 cells, 264 bits and 256 queue slots. The small
  ones keep the order of the sizes that matters for each run (ripe before full,
  a queue that can be refused, as many bits as cells). `MaxSp` bounds the stack
  (three slots above the first are what an assignment to an item needs),
  `MaxItems` the items of a list and `MaxNodes` the nodes of a dict. Three cells
  allow chains, shared items and cycles; with two cells every kind of object
  meets every other.
* `vm`: a program has at most six chunks, and choices come from a native function
  that answers with any of its results. `MaxSp` is 18, which only programs that
  loop and leave something on the stack reach. The families contain what the
  hazards need: TRYs inside and after TRYs, in caller and callee, with every way
  to leave them; closures that call closures inside and outside TRYs; every
  statement before every kind of statement; programs that fail, throw or return
  and are invoked again with and without an argument. `DepthValues` is 256, the
  width of `depth`.
* `scopes`: two names of variables are enough for a name to mean two things and for
  two names to compete for a slot; a third names functions, so that inside one both
  of the others can be locals. Every routine has one parameter; the top level is
  the case of none. Tables and arrays start at 3 (8 in the code), so that five
  constructs make each of them move while an address into it is kept.
  `MaxErrors` 1 with `TBASIC_MAX_COMPILE_ERRORS` 0 reaches both sides of the limit
  of errors. The names of variables are symmetric.
* `library`: `SizeValues` 16 lets the sum of `lscut` wrap with numbers near -1.
  `MaxItems` 4 allows a list of two items to be joined to itself and to move between the
  turns, and one item beside NIL is enough to tell what is copied from what is not: lists of
  both in any order come about by `lsclr`, `lsrev` and assignments. The keys of the
  dict have hashes 0, 0, 1, 3, 5, 5, which allow every shape of tree of four nodes.
  `MaxSize` 2 bounds positions and counts, one more than the old file needs to be
  read past its end. A capacity of 2 (8 in the code) lets a host's string grow.
  The two images have each kind of section, also empty. Ids and values are
  symmetric; no property tells them apart. The `VIEW` leaves out `call`, `io` and
  the like: no action reads them, and properties read only what the step itself
  put there.
* `optimizer`: expressions nest twice on either side, which is deeper than the
  table remembers. The environments contain 0 as a divisor and an operand of
  another type; comparisons and bit operations, for which the table has no edge,
  stand between the operations that it has. Constants 255 and 256 are on both sides of the
  width of the flag.

Deadlock is checked where the program itself is finite (`VM`, `Optimizer`,
`Scopes`, which stutter when they are over) and off for `GC`, `MCStores` and
`MCLibrary`, where the process may die or an object be at its bound.

Fairness. There is one thread, so a part that can go on does: weak fairness of
the collector's steps (`GC!FairSpec`; the handlers, which a program chooses, are
not fair) and of the interpreter's steps (`VM!FairSpec`). `CollectEnds` and
`Ends` are the properties that use it. `CollectEnds` is only claimed when no
list reached from the top of the stack contains itself, and `Ends` allows a
program to go round its own loops for ever, but not to seek a handler or to
unwind for ever. The library has no liveness of its own: every native function
is a loop over a list or a count, and but for `lscat` one step here.

What the properties do not claim. `OutcomeExact` excludes calls of lists and
natives that give up, both of which overwrite the status (below).
It also excludes an invocation that began with a search left behind
(`carried`), and one in which 256 calls were open at once (`wrapped`): `depth` has
eight bits, is 0 again, and the RET of an inner call is taken for the last one. `MarkComplete` needs two slots on the stack, because of the lost entry, and a
collection without a refused push. `ArmedFindsHandler` needs the flag to be
set. `MeaningKeptButForOrder` leaves out a constant in front of a local. The
properties of `Scopes` leave out programs in whose compilation memory was read
that had moved (`stale`), or a BREAK met a loop outside its lambda (`strayed`),
and the assignments of `NameIsAssigned`. `ScopesFollowNesting` speaks of sources
without an error so far. `CutInside` needs numbers that are not negative,
`IteratorsInside` and `TextInside` an iterator whose memory is still there,
`BytesExact` a count inside the list that `fwrite` gets. `FrozenStay` allows `lsrev` and `lsclr`.
Each of these conditions is the boundary of a disagreement, and each is met by
most states of its run.

Every property has a mutant in `PROJECT.json`: a `Mut...` operator next to the
definition it replaces, which is what a plausible slip in that line of C would
do, and which TLC refutes.

## 4. Proofs

Every theorem is about the specification that TLC checks, for all values of its
constants under the assumptions of its module. Each proof has the shape
`Init => Inv`, `Inv /\ [Next]_vars => Inv'`, `Inv => property`.

**`HeapProofs`** (every capacity, every set of objects, every set of deletable
ones). `CellsInv` is the type of the cells, the exactness and distinctness of the
free list, empty cells above the bump pointer, and the exact cost. None of them is
inductive alone: that a store does not overwrite needs the free list to hold only
empty cells; that this stays so needs the ids in it to be distinct; that an erase
does not add an id twice needs exactness again, since it acts on a cell that holds
an object. From it follow type correctness, the exact free list, that the unchecked
write of `heap_reserve_id` stays inside its buffer (an injection of the list into
the ids), the exact cost, the threshold at two thirds for every capacity (integer
division included), that tenured objects stay, and `HeapImplementsPool`: every
behaviour of the heap is one of `IdPool`. `CellsInv` speaks of the cells alone, so
that `GCProofs` takes its lemmas over by an instance.

**`QueueProofs`** (every capacity). The invariant `Placed` says which slot holds
which push, by position modulo the capacity; `OneBehind` follows.

**`GCProofs`** (every capacity of heap, queue and bit set up to the width of an id,
every set of kinds).
* `TypeInv`: the heap's `CellsInv`, well-formed stack and marks, children of dict
  nodes that lead to nodes, and `AtWork`: what the collector has in hand is still
  in its cell. Hence `GCTypeOK` and `GCHeapKept`.
* `SoundInv`: what is queued, marked or in hand is reached from the top. It needs
  that `Finish` leaves no bit and no entry behind, which is why a clean start is
  part of it. Hence `GCMarkSound`.
* `SweptInv`: behind the sweep, live cells are marked. `GCSweepFrees` says so of the
  whole heap at the end. `GCSweepExact` says that what is left is exactly what was
  marked; it supposes that programs make only lists and strings (`LiveMarks`), for a
  bit set by a dict or a closure may be that of a cell that is empty already.
* `CompleteInv`: there is a history of the ids that were queued, each with the entry
  it came from. `Trace` ties it to the ring; `Came`, `Dealt`, `RootsFirst` and
  `Ordered` say where entries come from and in which order. The ring never hands
  out its last entry. But the top is queued at least twice, hence so is all that it
  reaches, and of two entries of one id one is handed out (`EveryTwin`). Hence
  `GCMarkComplete`, for lists that share and nest to any depth.

**`VMProofs`** (every set of `WellFormed` and `Balanced` programs, every width of
`depth`, any nesting). `CodeInv`: control is inside a chunk, and every call returns behind
itself. `DepthInv`, `CountInv`: `depth` is the number of open calls and of those a
failure left, modulo its width, exactly so before it wraps. `BaseInv`: the base of
a call is the slot of the callee below. `CatchInv`, `SeekInv`: a search is under way
only while an exception is in flight and a caller is left. `OutcomeInv` says from
throw to CATCH what the status is, and needs all the others: that the outermost RET
is the end of the program is a fact about `depth`. `StepKinds` sorts the actions
into eleven kinds of step, so that each part is proved for kinds and not for every
handler.

The stack has an invariant of its own, `StackInv`, on top of these. A call has its
callee in a slot, over it its arguments, then its locals: that is its floor
(`FloorAt`). `OperandsInv`: over the floor there are at least as many operands as
`Heights` says for where control is. `SlotsInv`: the slot of a callee is over the
floor of its caller, by as much as the caller needs when the call returns; this is
what makes `OperandsInv` true again after a RET, a throw or a failure in the
callee. `UpvalsInv`: `upvals` is that of the innermost closure, whose slot still
holds it, since nothing is written below a floor but the locals of that frame.
`PlainMoves` sums up what each handler takes, leaves and writes. Hence
`OperandsStay` and `CapturesAreItsOwn`.

For `HandlersAreRight`, `Open` counts the TRYs that are open behind an instruction.
It goes up and down by one (`OpenSteps`), so that a TRY is closed by the first CATCH
at which it is back where it was (`CatchCloses`), and the last place before a throw
with a lower count is the innermost TRY around it (`InnermostTry`). `ScanIsRight`
compares this with the scan of `vm_locally_propagate_error`.

**`OptimizerProofs`** (code of any length, any tables of constants, any locals in
which the ids that are loaded occur). `OptimizerInv`: ahead of the scan the code is as it
was compiled; a state of the table says which loads are just behind it (`Behind`); and
the code computes what it computed. `LoadsCompute` is what two loads and an operation
leave on any stack, `TwoConstants`, `TwoLocals` and `ConstantAndLocal` what the
super-instructions do, and `ThreeAlike` that code in which three instructions are
exchanged for three of the same effect has the same results. The swap of a constant and a
local is `Commutes`, for sums and products only: hence `ConstantFirst` in the property. A
number that is cut to the flag is another number: hence `Cut`. `OptimizerKeepsJoins` is
about code with jumps: what is replaced are two loads and the operation behind them and
nothing else, and no jump is changed (`JumpsInv`). So `JoinsKept` holds if no jump of the
source lands between the three (`JoinsApart`), which is the compiler's part.

**`ScopeProofs`, `NameProofs`** (sources of any length, any names, parameters, captures and
literals, any nesting, any capacity of the arrays). The invariant has three layers,
each of which needs those before it.
* `NestInv`: as long as the source has no error, `Fit` relates the open constructs to
  the stacks of the compiler. The chunk of each frame is that of the routine around
  it (`ChunkAt`), its scope and its loop are the ones at its depth (`ScopeAt`,
  `PlaceAt`), routines inside have later chunks, and the symbol of an open LET is still
  where its address says. Hence `ScopesNest`: code goes to the right chunk
  after any number of routines inside each other have ended.
* `Jumped`: every jump of a BREAK or CONTINUE is in the record of the active loop it
  was written in, and of no other (`Waits`), or has landed (`Landed`). That a
  loop patches only its own jumps needs that records are of the chunk of their loop,
  hence `NestInv`, and that no jump was recorded with a loop of another routine, hence
  `~strayed`. `JumpsLand` follows, for no loop is open at the end.
* `Named`, in `NameProofs`: to every chunk, open or done, belongs one table of symbols. For an open one
  it is the scope (`Opened`), for one that is done its names and the size of
  its RESERVE were taken from it (`Sealed`). Each instruction that names
  something has the number under which its table has that name (`Meant`), each
  closure is behind the loads of what its lambda uses (`ClosureMeant`), and the frame
  of an assignment or a lambda still has what was found when it began. Tables only
  grow behind what they have, and in three domains a name is one symbol (`OneOfAName`),
  so that what was found is found again. In the end every chunk is sealed (`Ready`), and
  `LocalsHaveRoom`, `CapturesMatchUses` and `OneSlotOfAName` are consequences.

The history variables `stale` and `strayed` are used where the code has its
disagreements and nowhere else: with one of them true, `Jumped` or `Named` may be false.

**`LibraryProofs`, lists** (any number of lists, iterators, strings). The invariants are the types of
the objects with `IteratorsInside`, and with `Roomy`: a string has room for its
terminator. A list or string in use never gets shorter, and one that moves or goes
leaves its iterators dangling. `ListFrozenStay` and `ListCutInside` are action
properties from them. `CopyInv` is what the locals of `lscat` say between two turns: the
destination is what it was with the items copied so far behind it, or as it was
if it is frozen, and the source is that same list or what it was. A list joined to itself
has at each turn grown, and perhaps moved, but what it had is still in front
and the turns stop at the length it had; hence `TurnReads`, that each turn finds the
item that was there when `lscat` was called, and `ListCatJoins`.

**`LibraryProofs`, dicts** (any keys, values and hashes). Children come later than their
parents (`Trees`), so a descent ends within as many turns as there are nodes
(`EndExists`), and by counting up or down the nodes what holds of children is passed
on to parents. `EndGrown` compares, turn by turn, the descents before and after a
node is hung from an empty link: a hash that ended elsewhere still does. This gives
`DictIsMap`, the refinement of `DictMap`, without a word about the order of the
hashes: that every key finds its own end is enough. `Once` says that no node is
below both children of another and that all are below the root; `DictFreedOnce`
follows.

**`LibraryProofs`, streams and loader** (any number of streams and FILEs; any program to load). `Owned`: a
FILE belongs to one stream. `StreamBytesExact` describes the state after each turn
of the two loops (`AfterReads`, `AfterWrites`): what was read is a prefix of the rest of
the file and one mark of its end; what was written are the integers at the head of
the list. `LoaderInv`: a fresh loader stands between two sections, and what it has is all
that comes before (`Progress`); one that is not fresh is at its end or has failed, and
gives no program. `LoaderWhole` follows, wherever the buffer is cut off.

Loops over data. Where the model repeats a turn (`ReadTurns`, `WriteTurns`,
`Filled`, `Typed`, `Descent`) the definition is a recursive function on numbers. The
proofs show that the function exists and that a set indexed by the turn is kept,
from the least turn at which it would not be. So no theorem with an operator for a
parameter is needed.

Only model-checked:
* Liveness (`CollectEnds`, `Ends`) and violations.
* `TypeOK` of `VM`: that `sp` stays above 0 is false for arbitrary programs with `&&`
  in a loop, and that slots hold values needs the results of `Arithmetic`, folds over bits.
* That `Codegen` makes `WellFormed` and `Balanced` chunks, and code with `JoinsApart`, of
  every program: inductions over programs. TLC evaluates the first two on every chunk
  of the families, and checks `JoinsKept` on every piece of code. The theorem on what
  optimized code computes is about code without jumps.

## 5. Disagreements between code and comments

Five are runs with expected violations: `gc_reached`, `vm_uncaught`,
`vm_lostcaptures`, `opt_order`, `scopes_assign`. The models show more. Each line
below gives a formula that TLC refutes when it is added to the module and checked
with the constants given; those of `Streams`, `ListObjects` and `Loader` with the
constants of `MCLibrary.cfg`.

| code | disagrees with | formula and instance |
|---|---|---|
| the sweep erases cells that are empty, `gc.c:287`, and `heap_erase` calls `del` through NULL, `objects.c:136` | `gc.c:281` "free unreached ones..." | `pc.at = "sweep" => ~crashed` in `GC`, 4 cells, `HeapPopMax` 3, lists and strings |
| `alloc_closure` sets no `del`, `obj_closure.c:9` | `objects.h:46` "the GC will catch these anyhow" | `[][~crashed /\ crashed' /\ pc.at = "sweep" => cells[pc.slot] = NULL]_vars`, 4 cells, lists and closures; with lists and strings, 3 cells, it holds |
| unreached objects above the bit set stay, `gc.c:174` | `objects.h:46` | `Swept => H!Live \subseteq Reached`, 5 cells, `HeapPopMax` 3 |
| ids above the bit set are marked, `gc.c:174` | `gc.h:67` "MUST have at least the same bit count as the cell count" | `reach_bits \subseteq 0 .. BitCapacity - 1`, 5 cells, `HeapPopMax` 3, `MaxSp` 3 |
| marking a list that contains itself does not end, `gc.c:264` | `gc.c:248` "for those not in bitset" | `pc.at = "mark" ~> pc.at \in {"run", "sweep"}` under `FairSpec`, 3 cells, `MaxItems` 1, `MaxSp` 3 |
| what the top slot refers to is not marked when it is the only slot above the first, since the queue never gives its last entry, `gc.c:92` | `gc.c:281` | `Marked /\ ~dropped => ReachBy({"list"}, {Top}) \cap H!Live \subseteq reach_bits` in `GC`, with the constants of `MCGC_lists.cfg` |
| the last node of a dict is not marked, `gc.c:187` | `gc.c:201`, which allows for lost nodes only when the queue is full | with `Top` a live dict, two slots or more and nothing dropped: the references it holds are in `reach_bits` when `Marked`; 3 cells, lists and dicts, `MaxSp` 3 |
| the queue is not first-in first-out, `gc.c:92` | `gc.h:26` "simple ring buffer" | `~refused => \A k \in DOMAIN got : got[k] = pushed[k]` in `QueueUse` |
| a refused push forgets the queue, `gc.c:85` | `gc.c:201` "process what we can" | no push may make a queue that was not exhausted exhausted |
| the heap is ripe at 342 objects, `objects.c:28` | `suite/test_gc.tbasic:4` "VM heap's ripe population is 171+" | `3 * Cardinality(Live) > CellCapacity => heap_is_ripe` in `Heap` |
| `&&` pops its left operand twice, `compiler.c:1160` | its comment, "single result value" | `run = "exec" /\ ip > 1 /\ sp < Floor => unanswered` in `VM`, for a function of one parameter whose body is `Let(1, And(Local(1), Local(1)))` |
| the false condition of an IF without ELSE stays on the stack, `vm.c:863` | the same comment | in a loop, `sp` at the backward jump is not that of the round before |
| an assignment to an item leaves its target on the stack, `compiler.c:1692` | `compiler.c:1699` "pop unused temporary if needed" | the same, for a loop whose body is `SetItem` |
| BIND that fails leaves the status pending, `vm.c:187` | the "ABORTED" it prints, `vm.c:186` | `[][BadBind => status' = "err_abort"]_vars` for `Bind` of a parameter that is no list |
| RESERVE leaves the slots as they are, `vm.c:130` | `bytecode.h:44` "loads N NIL values" | `[][At("reserve") => \A slot \in sp + 1 .. sp' : stack'[slot] = Nil]_vars`, a function called twice |
| calling a list sets the status ok, `obj_list.c:89` | `driver.c:237`, success for that status | `OutcomeExact` for a program that calls a function whose ASSERT fails, then a list |
| the exit status is always 0, `main.c:84` | `run_suite.py:42`, which prints PASS for it | by reading: `main` never returns `main_status` |
| no limit on recursion, `vm.c:1404` | `driver.h:15` `CONFIG_DEFAULT_VM_RECUR_LIMIT` 64 | `depth <= 64` for a function that calls itself |
| the first number of a super-instruction is cut to 8 bits, `optimizer.c:20` | `optimizer.h:25` "Substitutions" | `MeaningKept` for `Binary("mul", Constant(256), Local(1))` and a table of 257 constants |
| a capture of a global's name is accepted, `compiler.c:1964` | its message, "or global name", `compiler.c:1965` | by reading: `compiler_record_capture` looks among the locals only |
| `fopen` gives a stream without a file when it fails, `tb_io_stdlib.c:109` | `docs/README.md:137` "`NIL` on failure" | `[][io'.native = "fopen" => \A s \in StreamIds : streams'[s] # streams[s] => streams'[s].f # NoFile]_stream_vars` |
| `fgetc` gives -1 at the end, `tb_io_stdlib.c:163` | `docs/README.md:144` "`NIL` on failure" | by reading: the result is that of `fgetc` in C |
| `fputc` is TRUE for the byte 0 only, `tb_io_stdlib.c:196` | `docs/README.md:145` "`TRUE` on success" | `[][io'.native = "fputc" /\ files' # files => io'.result]_stream_vars` |
| `fread` appends and counts the mark of the end, `tb_io_stdlib.c:261` | `docs/README.md:146` "bytes successfully read" | `[][io'.native = "fread" /\ io'.result > 0 => EOF \notin ToSet(io'.items)]_stream_vars` |
| `fwrite` counts a byte that a stream for reading refuses, `tb_io_stdlib.c:303` | `docs/README.md:147` "bytes successfully written" | `[][io'.native = "fwrite" /\ io'.result > 0 => handles[io'.on].writes]_stream_vars` |
| `lsrev` and `lsclr` change a frozen list, `tb_list_stdlib.c:25` | `docs/README.md:128` "disallowing mutation of any kind" | `FrozenStay` with `lists'[l].items = Items(l)` for its conclusion |
| a real is loaded as an integer, `load_bc.c:292` | `load_bc.c:274`, which reads it as "a float bit-pattern" | `~Loading /\ asked.fresh /\ ~asked.cut => prgm = asked.image` |

What a comment does not speak of, but a user may not expect: keys of a dict with
one hash are one key (NIL and 0, 5 and 256); `!=` of values of different types is
false; a string literal is false in IF and yet makes `||` jump; a LET in a
function of a name that is also global stores to a local, while reads find the
global; an array that moves under an address the parser keeps.

## 6. Not modelled, and the plan

Done: heap, queue, collector; calls, exceptions, closures,
sessions and the code they are compiled to; optimizer; scopes; lists, dicts,
streams, strings, iterators; loader; proofs of heap, queue, collector, control and
stack of the machine, optimizer, scopes, dicts, lists, strings, streams and loader.
What could follow: that `Codegen` makes `Balanced` chunks and code with `JoinsApart` of programs of
any depth, which needs an induction over them.

Left out for good:

* The lexer: a function of the text whose only state is a position; a model of
  it would be the program again.
* Numeric functions, float arithmetic and the parsers of numbers: pure functions
  of data TLC cannot enumerate. NAN stands for every float.
* Printing, reports, debug information of chunks, options of the command line,
  the clock: nothing that runs depends on them.
* What a native does with an object of another kind than it expects (`lscut`,
  `mviter`), and what a dangling pointer reads: it depends on the layout of
  memory. The models stop at the pointer.
* Three handlers of the machine that the compiler never emits code for: `DUP`,
  `PUT_CALLEE`, the failing arm of `MK_CLOSURE`.
* Build files, demo and benchmarks.
