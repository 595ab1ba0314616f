-------------------------- MODULE OptimizerProofs ---------------------------
(***************************************************************************)
(* The optimizer keeps what code without jumps computes, but where it      *)
(* swaps operands or cuts a number: for code of any length, any tables of  *)
(* constants and any locals.                                               *)
(***************************************************************************)
EXTENDS Optimizer, SequenceTheorems, WellFoundedInduction, TLAPS

(* A sequence of anything.                                                 *)
IsSeq(s) == s \in Seq({s[i] : i \in DOMAIN s})

(* The value that a load pushes.                                           *)
Loaded(ins, constants, locals) ==
    IF ins.op = "put_k" THEN constants[ins.wide] ELSE locals[ins.wide]

(* Stacks before and after each of the first n instructions.               *)
Run(after, chunk, constants, locals, n) ==
    after = [i \in 0 .. n |->
              IF i = 0 THEN <<>> ELSE Exec(chunk[i], after[i - 1], constants, locals)]

Same(chunk, other, constants, locals) ==
    Results(chunk, constants, locals) = Results(other, constants, locals)

(* What the scan has in hand: the two instructions before ip, as they were *)
(* compiled.                                                               *)
Behind(n, op) ==
    /\ ip > n
    /\ code[ip - n] = source[ip - n]
    /\ code[ip - n].op = op

OptimizerInv ==
    /\ source \in Codes
    /\ IsSeq(code) /\ Len(code) = Len(source)
    /\ ip \in 1 .. Len(code) + 1
    /\ \A pos \in ip .. Len(code) : code[pos] = source[pos]
    /\ sp \in {"start", "k", "l", "kl", "kk", "ll"}
    /\ sp = "k" => Behind(1, "put_k")
    /\ sp = "l" => Behind(1, "load_local")
    /\ sp = "kk" => Behind(2, "put_k") /\ Behind(1, "put_k")
    /\ sp = "ll" => Behind(2, "load_local") /\ Behind(1, "load_local")
    /\ sp = "kl" => \/ Behind(2, "put_k") /\ Behind(1, "load_local")
                    \/ Behind(2, "load_local") /\ Behind(1, "put_k")
    /\ ~ConstantFirst /\ ~Cut =>
          \A constants \in Constants, locals \in Locals : Same(code, source, constants, locals)

-----------------------------------------------------------------------------
(* The tables                                                              *)

(* The states that replace are named as their super-instructions are, and  *)
(* no two of them alike.                                                   *)
LEMMA SuperNames ==
    /\ Supers("kl") = {"mul_kl", "div_kl", "add_kl", "sub_kl"}
    /\ Supers("kk") = {"mul_kk", "div_kk", "add_kk", "sub_kk"}
    /\ Supers("ll") = {"mul_ll", "div_ll", "add_ll", "sub_ll"}
  BY DEF Supers, SuperOps, Operations

(* Each super-instruction has one operation.                               *)
LEMMA OperationIs ==
    ASSUME NEW op \in Operations
    PROVE  /\ SuperOps["kl"][op] \in Supers("kl") /\ OperationOf("kl", SuperOps["kl"][op]) = op
           /\ SuperOps["kk"][op] \in Supers("kk") /\ OperationOf("kk", SuperOps["kk"][op]) = op
           /\ SuperOps["ll"][op] \in Supers("ll") /\ OperationOf("ll", SuperOps["ll"][op]) = op
<1>1. \A p \in Operations :
        /\ SuperOps["kl"][p] = SuperOps["kl"][op] => p = op
        /\ SuperOps["kk"][p] = SuperOps["kk"][op] => p = op
        /\ SuperOps["ll"][p] = SuperOps["ll"][op] => p = op
  BY DEF SuperOps, Operations
<1>. QED  BY <1>1 DEF Supers, OperationOf

(* The edges of the table.                                                 *)
LEMMA TransitIs ==
    ASSUME NEW op
    PROVE  /\ sp = "start" => optimizer_transit(op) =
                IF op = "put_k" THEN "k" ELSE IF op = "load_local" THEN "l" ELSE "start"
           /\ sp = "k" => optimizer_transit(op) =
                IF op = "put_k" THEN "kk" ELSE IF op = "load_local" THEN "kl" ELSE "start"
           /\ sp = "l" => optimizer_transit(op) =
                IF op = "put_k" THEN "kl" ELSE IF op = "load_local" THEN "ll" ELSE "start"
           /\ sp = "kl" => optimizer_transit(op) =
                IF op \in Operations THEN SuperOps["kl"][op] ELSE "start"
           /\ sp = "kk" => optimizer_transit(op) =
                IF op \in Operations THEN SuperOps["kk"][op] ELSE "start"
           /\ sp = "ll" => optimizer_transit(op) =
                IF op \in Operations THEN SuperOps["ll"][op] ELSE "start"
  BY DEF optimizer_transit, tb_optimizer_states, SuperOps, Operations, Fallback

(* A state that replaces is no other state, and only those are the names   *)
(* of super-instructions.                                                  *)
LEMMA StatesAre ==
    /\ DOMAIN tb_optimizer_states = {"start", "k", "l", "kl", "kk", "ll"}
    /\ \A state \in DOMAIN tb_optimizer_states : state \notin AllSupers
  BY SuperNames DEF tb_optimizer_states, AllSupers

-----------------------------------------------------------------------------
(* Stacks                                                                  *)

(* A sequence of anything is a sequence of what is in it.                  *)
LEMMA SeqIsSeq ==
    ASSUME NEW T, NEW s \in Seq(T) PROVE IsSeq(s)
<1>1. Len(s) \in Nat /\ DOMAIN s = 1 .. Len(s) /\ s = [i \in 1 .. Len(s) |-> s[i]]
  BY LenProperties
<1>2. s \in [1 .. Len(s) -> {s[i] : i \in 1 .. Len(s)}]
  BY <1>1
<1>. QED  BY <1>1, <1>2, SeqDef DEF IsSeq

(* A push and a pop of two leave a stack.                                  *)
LEMMA StackSteps ==
    ASSUME NEW s, IsSeq(s), NEW v
    PROVE  /\ IsSeq(Append(s, v))
           /\ IsSeq(Append(SubSeq(s, 1, Len(s) - 2), v))
<1>. DEFINE T == {s[i] : i \in DOMAIN s} \cup {v}
<1>1. s \in Seq(T) /\ v \in T /\ Len(s) \in Nat
  <2>1. s \in Seq({s[i] : i \in DOMAIN s})
    BY DEF IsSeq
  <2>. QED  BY <2>1
<1>. HIDE DEF T
<1>2. SubSeq(s, 1, Len(s) - 2) \in Seq(T)
  BY <1>1
<1>3. Append(s, v) \in Seq(T) /\ Append(SubSeq(s, 1, Len(s) - 2), v) \in Seq(T)
  BY <1>1, <1>2
<1>. QED  BY <1>3, SeqIsSeq

(* What each kind of instruction does; no operator is of two kinds.        *)
LEMMA ExecIs ==
    ASSUME NEW ins, NEW s, NEW constants, NEW locals
    PROVE  LET base == SubSeq(s, 1, Len(s) - 2)
               new == Exec(ins, s, constants, locals)
           IN  /\ ins.op = "put_k" => new = Append(s, constants[ins.wide])
               /\ ins.op = "load_local" => new = Append(s, locals[ins.wide])
               /\ ins.op \in Computations =>
                     new = Append(base, Result(ins.op, s[Len(base) + 1], Last(s)))
               /\ ins.op \in Supers("kl") => new = Append(s, KL(ins, constants, locals))
               /\ ins.op \in Supers("kk") => new = Append(s, KK(ins, constants))
               /\ ins.op \in Supers("ll") => new = Append(s, LL(ins, locals))
               /\ ins.op \notin Loads \cup Computations \cup AllSupers => new = s
<1>1. \/ ins.op = "put_k" \/ ins.op = "load_local" \/ ins.op \in Computations
      \/ ins.op \in Supers("kl") \/ ins.op \in Supers("kk") \/ ins.op \in Supers("ll")
      \/ ins.op \notin Loads \cup Computations \cup AllSupers
  BY DEF AllSupers, Loads
<1>2. /\ "put_k" \notin Computations \cup AllSupers
      /\ "load_local" \notin Computations \cup AllSupers
      /\ Computations \cap AllSupers = {}
      /\ Supers("kl") \cap Supers("kk") = {} /\ Supers("kl") \cap Supers("ll") = {}
      /\ Supers("kk") \cap Supers("ll") = {}
  BY SuperNames
     DEF AllSupers, Computations, Operations, BitOperations, Comparisons
<1>. QED  BY <1>1, <1>2 DEF Exec, AllSupers, Loads

(* An instruction leaves a stack.                                          *)
LEMMA ExecStack ==
    ASSUME NEW ins, NEW s, IsSeq(s), NEW constants, NEW locals
    PROVE  IsSeq(Exec(ins, s, constants, locals))
<1>. DEFINE base == SubSeq(s, 1, Len(s) - 2)
            new == Exec(ins, s, constants, locals)
<1>1. \/ new = s
      \/ \E v : new = Append(s, v)
      \/ \E v : new = Append(base, v)
  BY ExecIs DEF Loads, AllSupers
<1>. QED  BY <1>1, StackSteps

(* Two loads and an operation: the operation on what was loaded.           *)
LEMMA LoadsCompute ==
    ASSUME NEW s, IsSeq(s), NEW one, NEW two, NEW ins, NEW constants, NEW locals,
           one.op \in Loads, two.op \in Loads, ins.op \in Operations
    PROVE  Exec(ins, Exec(two, Exec(one, s, constants, locals), constants, locals),
                constants, locals)
           = Append(s, Apply(ins.op, Loaded(one, constants, locals),
                             Loaded(two, constants, locals)))
<1>. DEFINE v == Loaded(one, constants, locals)
            w == Loaded(two, constants, locals)
            both == Append(Append(s, v), w)
            T == {s[i] : i \in DOMAIN s} \cup {v, w}
<1>1. Exec(one, s, constants, locals) = Append(s, v)
  BY ExecIs DEF Loads, Loaded
<1>2. Exec(two, Append(s, v), constants, locals) = both
  <2>. DEFINE top == Append(s, v)
  <2>. HIDE DEF top
  <2>1. Exec(two, top, constants, locals) = Append(top, w)
    BY ExecIs DEF Loads, Loaded
  <2>. QED  BY <2>1 DEF top
<1>3. s \in Seq(T) /\ v \in T /\ w \in T
  <2>1. s \in Seq({s[i] : i \in DOMAIN s})
    BY DEF IsSeq
  <2>. QED  BY <2>1
<1>. HIDE DEF v, w, T
<1>4. /\ Len(both) = Len(s) + 2 /\ Len(s) \in Nat
      /\ SubSeq(both, 1, Len(both) - 2) = s
      /\ both[Len(s) + 1] = v /\ Last(both) = w
  BY <1>3 DEF Last
<1>. HIDE DEF both
<1>5. ins.op # "put_k" /\ ins.op # "load_local" /\ ins.op \in Computations
      /\ ins.op \notin Comparisons
  BY DEF Operations, Computations, Comparisons
<1>6. Exec(ins, both, constants, locals) = Append(s, Result(ins.op, v, w))
  BY <1>4, <1>5, ExecIs
<1>. QED  BY <1>1, <1>2, <1>5, <1>6 DEF Result, v, w
(* A super-instruction does what the three that it replaces do: for two    *)
(* constants,                                                              *)
LEMMA TwoConstants ==
    ASSUME NEW s, NEW op \in Operations, NEW one, NEW two, NEW constants, NEW locals,
           one.op = "put_k", two.op = "put_k"
    PROVE  Exec(Ins(SuperOps["kk"][op], one.wide, two.wide), s, constants, locals)
           = Append(s, Apply(op, Loaded(one, constants, locals), Loaded(two, constants, locals)))
<1>. DEFINE super == Ins(SuperOps["kk"][op], one.wide, two.wide)
<1>1. super.op = SuperOps["kk"][op] /\ super.flag = one.wide /\ super.wide = two.wide
  BY DEF Ins
<1>. HIDE DEF super
<1>2. Exec(super, s, constants, locals) = Append(s, KK(super, constants))
  BY <1>1, OperationIs, ExecIs
<1>3. KK(super, constants) = Apply(op, constants[one.wide], constants[two.wide])
  BY <1>1, OperationIs DEF KK
<1>. QED  BY <1>2, <1>3 DEF Loaded, super

(* for two locals,                                                         *)
LEMMA TwoLocals ==
    ASSUME NEW s, NEW op \in Operations, NEW one, NEW two, NEW constants, NEW locals,
           one.op = "load_local", two.op = "load_local"
    PROVE  Exec(Ins(SuperOps["ll"][op], one.wide, two.wide), s, constants, locals)
           = Append(s, Apply(op, Loaded(one, constants, locals), Loaded(two, constants, locals)))
<1>. DEFINE super == Ins(SuperOps["ll"][op], one.wide, two.wide)
<1>1. super.op = SuperOps["ll"][op] /\ super.flag = one.wide /\ super.wide = two.wide
  BY DEF Ins
<1>. HIDE DEF super
<1>2. Exec(super, s, constants, locals) = Append(s, LL(super, locals))
  BY <1>1, OperationIs, ExecIs
<1>3. LL(super, locals) = Apply(op, locals[one.wide], locals[two.wide])
  BY <1>1, OperationIs DEF LL
<1>. QED  BY <1>2, <1>3 DEF Loaded, super

(* and for a constant and a local, with the local on the left.             *)
LEMMA ConstantAndLocal ==
    ASSUME NEW s, NEW op \in Operations, NEW one, NEW two, NEW constants, NEW locals,
           one.op = "put_k", two.op = "load_local"
    PROVE  Exec(Ins(SuperOps["kl"][op], one.wide, two.wide), s, constants, locals)
           = Append(s, Apply(op, Loaded(two, constants, locals), Loaded(one, constants, locals)))
<1>. DEFINE super == Ins(SuperOps["kl"][op], one.wide, two.wide)
<1>1. super.op = SuperOps["kl"][op] /\ super.flag = one.wide /\ super.wide = two.wide
  BY DEF Ins
<1>. HIDE DEF super
<1>2. Exec(super, s, constants, locals) = Append(s, KL(super, constants, locals))
  BY <1>1, OperationIs, ExecIs
<1>3. KL(super, constants, locals) = Apply(op, locals[two.wide], constants[one.wide])
  BY <1>1, OperationIs DEF KL
<1>. QED  BY <1>2, <1>3 DEF Loaded, super

(* Sums and products do not depend on the order of their operands.         *)
LEMMA Commutes ==
    ASSUME NEW op \in {"add", "mul"}, NEW v \in Value, NEW w \in Value
    PROVE  Apply(op, v, w) = Apply(op, w, v)
<1>1. v.data \in Int /\ w.data \in Int
  BY DEF Value
<1>2. v.data + w.data = w.data + v.data /\ v.data * w.data = w.data * v.data
  BY <1>1
<1>3. CASE v.tag = "int" /\ w.tag = "int"
  <2>1. op = "add" => /\ Apply(op, v, w) = Int_(v.data + w.data)
                      /\ Apply(op, w, v) = Int_(w.data + v.data)
    BY <1>3 DEF Apply
  <2>2. op = "mul" => /\ Apply(op, v, w) = Int_(v.data * w.data)
                      /\ Apply(op, w, v) = Int_(w.data * v.data)
    BY <1>3 DEF Apply
  <2>. QED  BY <1>2, <2>1, <2>2
<1>4. CASE ~(v.tag = "int" /\ w.tag = "int")
  <2>1. Apply(op, v, w) = Nan /\ Apply(op, w, v) = Nan
    BY <1>4 DEF Apply
  <2>. QED  BY <2>1
<1>. QED  BY <1>3, <1>4

-----------------------------------------------------------------------------
(* Runs                                                                    *)

(* No set of numbers without a least member is not empty.                  *)
LEMMA LeastTurn ==
    ASSUME NEW S, S \subseteq Nat, S # {}
    PROVE  \E least \in S : \A n \in S : least <= n
<1>. DEFINE Less == OpToRel(<, Nat)
<1>1. \E x \in S : \A y \in S : <<y, x>> \notin Less
  BY NatLessThanWellFounded, WFMin
<1>2. \A x, y \in Nat : <<y, x>> \in Less <=> y < x
  BY DEF OpToRel
<1>. HIDE DEF Less
<1>3. PICK x \in S : \A y \in S : <<y, x>> \notin Less
  BY <1>1
<1>4. ASSUME NEW y \in S PROVE x <= y
  <2>1. x \in Nat /\ y \in Nat /\ ~(y < x)
    BY <1>2, <1>3
  <2>. QED  BY <2>1
<1>. QED  BY <1>4

(* What holds of turn 0 and is kept by each turn up to n holds up to n.    *)
LEMMA EveryTurn ==
    ASSUME NEW S, NEW n \in Nat, 0 \in S, \A t \in 0 .. n - 1 : t \in S => t + 1 \in S
    PROVE  \A t \in 0 .. n : t \in S
<1>. DEFINE Bad == {t \in 0 .. n : t \notin S}
<1>. SUFFICES ASSUME Bad # {} PROVE FALSE
  OBVIOUS
<1>1. PICK t \in Bad : \A m \in Bad : t <= m
  <2>1. Bad \subseteq Nat
    OBVIOUS
  <2>. HIDE DEF Bad
  <2>. QED  BY <2>1, LeastTurn
<1>2. t # 0
  BY <1>1
<1>3. t - 1 \in 0 .. n - 1 /\ t - 1 \in 0 .. n /\ ~(t <= t - 1) /\ (t - 1) + 1 = t
  BY <1>1, <1>2
<1>4. t - 1 \in S
  BY <1>1, <1>3
<1>. QED  BY <1>1, <1>3, <1>4

(* One turn of a run.                                                      *)
LEMMA RunTurn ==
    ASSUME NEW after, NEW chunk, NEW constants, NEW locals, NEW n \in Nat,
           Run(after, chunk, constants, locals, n)
    PROVE  /\ after[0] = <<>>
           /\ \A i \in 0 .. n - 1 :
                 after[i + 1] = Exec(chunk[i + 1], after[i], constants, locals)
<1>1. after[0] = <<>>
  BY DEF Run
<1>2. ASSUME NEW i \in 0 .. n - 1
      PROVE  after[i + 1] = Exec(chunk[i + 1], after[i], constants, locals)
  <2>1. i + 1 \in 0 .. n /\ i + 1 # 0 /\ (i + 1) - 1 = i
    OBVIOUS
  <2>. QED  BY <2>1 DEF Run
<1>. QED  BY <1>1, <1>2

(* Runs exist, however long the code is.                                   *)
LEMMA RunExists ==
    ASSUME NEW chunk, NEW constants, NEW locals, NEW many \in Nat
    PROVE  \E after : Run(after, chunk, constants, locals, many)
<1>. DEFINE S == {n \in 0 .. many : \E after : Run(after, chunk, constants, locals, n)}
<1>1. 0 \in S
  <2>1. Run([i \in 0 .. 0 |-> <<>>], chunk, constants, locals, 0)
    BY DEF Run
  <2>. QED  BY <2>1
<1>2. ASSUME NEW n \in 0 .. many - 1, n \in S PROVE n + 1 \in S
  <2>1. PICK after : Run(after, chunk, constants, locals, n)
    BY <1>2
  <2>. DEFINE more == [i \in 0 .. n + 1 |->
                          IF i = n + 1 THEN Exec(chunk[n + 1], after[n], constants, locals)
                          ELSE after[i]]
  <2>2. ASSUME NEW i \in 0 .. n + 1
        PROVE  more[i] = IF i = 0 THEN <<>>
                         ELSE Exec(chunk[i], more[i - 1], constants, locals)
    <3>1. CASE i = 0
      BY <2>1, <3>1, RunTurn
    <3>2. CASE i = n + 1
      <4>1. i # 0 /\ i - 1 = n /\ n \in 0 .. n + 1 /\ n # n + 1
        BY <3>2
      <4>. QED  BY <3>2, <4>1
    <3>3. CASE i # 0 /\ i # n + 1
      <4>1. /\ i \in 0 .. n /\ i - 1 \in 0 .. n - 1 /\ i - 1 \in 0 .. n + 1
            /\ i - 1 # n + 1 /\ (i - 1) + 1 = i
        BY <3>3
      <4>2. after[i] = Exec(chunk[i], after[i - 1], constants, locals)
        BY <2>1, <4>1, RunTurn
      <4>. QED  BY <3>3, <4>1, <4>2
    <3>. QED  BY <3>1, <3>2, <3>3
  <2>3. Run(more, chunk, constants, locals, n + 1)
    BY <2>2 DEF Run
  <2>4. n + 1 \in 0 .. many
    OBVIOUS
  <2>. QED  BY <2>3, <2>4
<1>. HIDE DEF S
<1>3. many \in S
  BY <1>1, <1>2, EveryTurn
<1>. QED  BY <1>3 DEF S

(* Results is the last stack of one.                                       *)
LEMMA ResultsAre ==
    ASSUME NEW chunk, NEW constants, NEW locals, Len(chunk) \in Nat
    PROVE  \E after : /\ Run(after, chunk, constants, locals, Len(chunk))
                      /\ Results(chunk, constants, locals) = after[Len(chunk)]
<1>. DEFINE after ==
              CHOOSE f : f = [i \in 0 .. Len(chunk) |->
                                IF i = 0 THEN <<>>
                                ELSE Exec(chunk[i], f[i - 1], constants, locals)]
<1>1. Run(after, chunk, constants, locals, Len(chunk))
  BY RunExists DEF Run
<1>2. Results(chunk, constants, locals) = after[Len(chunk)]
  BY DEF Results
<1>. HIDE DEF after
<1>. QED  BY <1>1, <1>2

(* There is a stack at each turn.                                          *)
LEMMA RunStacks ==
    ASSUME NEW after, NEW chunk, NEW constants, NEW locals, NEW n \in Nat,
           Run(after, chunk, constants, locals, n)
    PROVE  \A i \in 0 .. n : IsSeq(after[i])
<1>. DEFINE S == {i \in 0 .. n : IsSeq(after[i])}
<1>1. 0 \in S
  <2>1. IsSeq(<<>>)
    <3>1. <<>> \in Seq({0})
      OBVIOUS
    <3>. QED  BY <3>1, SeqIsSeq
  <2>2. after[0] = <<>>
    BY RunTurn
  <2>. QED  BY <2>1, <2>2
<1>2. ASSUME NEW i \in 0 .. n - 1, i \in S PROVE i + 1 \in S
  <2>1. i + 1 \in 0 .. n
    OBVIOUS
  <2>. QED  BY <1>2, <2>1, RunTurn, ExecStack
<1>. HIDE DEF S
<1>3. \A i \in 0 .. n : i \in S
  BY <1>1, <1>2, EveryTurn
<1>. QED  BY <1>3 DEF S

(* Code that differs in three instructions which do the same on any stack  *)
(* leaves the same.                                                        *)
LEMMA ThreeAlike ==
    ASSUME NEW chunk, NEW other, NEW constants, NEW locals,
           Len(chunk) \in Nat, Len(other) = Len(chunk),
           NEW at \in 1 .. Len(chunk), at + 2 <= Len(chunk),
           \A i \in 1 .. Len(chunk) : i \notin at .. at + 2 => other[i] = chunk[i],
           \A s : IsSeq(s) =>
              Exec(other[at + 2],
                   Exec(other[at + 1], Exec(other[at], s, constants, locals), constants, locals),
                   constants, locals)
              = Exec(chunk[at + 2],
                     Exec(chunk[at + 1], Exec(chunk[at], s, constants, locals), constants, locals),
                     constants, locals)
    PROVE  Same(other, chunk, constants, locals)
<1>. DEFINE n == Len(chunk)
<1>1. PICK a : Run(a, chunk, constants, locals, n) /\ Results(chunk, constants, locals) = a[n]
  BY ResultsAre
<1>2. PICK b : Run(b, other, constants, locals, n) /\ Results(other, constants, locals) = b[n]
  BY ResultsAre
<1>3. /\ a[0] = <<>> /\ b[0] = <<>>
      /\ \A i \in 0 .. n - 1 : a[i + 1] = Exec(chunk[i + 1], a[i], constants, locals)
      /\ \A i \in 0 .. n - 1 : b[i + 1] = Exec(other[i + 1], b[i], constants, locals)
      /\ \A i \in 0 .. n : IsSeq(a[i])
  BY <1>1, <1>2, RunTurn, RunStacks, SMTT(40)
<1>. DEFINE S == {i \in 0 .. n : i \in at .. at + 1 \/ b[i] = a[i]}
<1>4. 0 \in S
  BY <1>3
<1>5. ASSUME NEW i \in 0 .. n - 1, i \in S PROVE i + 1 \in S
  <2>1. i + 1 \in 0 .. n /\ i + 1 \in 1 .. n
    OBVIOUS
  <2>2. CASE i + 1 \in at .. at + 1
    BY <2>1, <2>2
  <2>3. CASE i + 1 \notin at .. at + 2
    <3>1. i \notin at .. at + 1
      BY <2>3
    <3>2. b[i] = a[i] /\ other[i + 1] = chunk[i + 1]
      BY <1>5, <2>1, <2>3, <3>1
    <3>. QED  BY <1>3, <2>1, <3>2
  <2>4. CASE i + 1 = at + 2
    <3>1. /\ at - 1 \in 0 .. n - 1 /\ at \in 0 .. n - 1 /\ at + 1 \in 0 .. n - 1
          /\ at - 1 \in 0 .. n
          /\ (at - 1) + 1 = at /\ (at + 1) + 1 = at + 2
      OBVIOUS
    <3>2. b[at - 1] = a[at - 1]
      <4>. DEFINE T == {j \in 0 .. at - 1 : b[j] = a[j]}
      <4>1. 0 \in T
        BY <1>3
      <4>2. ASSUME NEW j \in 0 .. (at - 1) - 1, j \in T PROVE j + 1 \in T
        <5>1. /\ j + 1 \in 0 .. at - 1 /\ j \in 0 .. n - 1 /\ j + 1 \in 1 .. n
              /\ j + 1 \notin at .. at + 2
          OBVIOUS
        <5>. QED  BY <1>3, <4>2, <5>1
      <4>. HIDE DEF T
      <4>3. at - 1 \in T
        <5>1. at - 1 \in Nat /\ at - 1 \in 0 .. at - 1
          OBVIOUS
        <5>. QED  BY <4>1, <4>2, <5>1, EveryTurn
      <4>. QED  BY <4>3 DEF T
    <3>3. /\ a[at] = Exec(chunk[at], a[at - 1], constants, locals)
          /\ a[at + 1] = Exec(chunk[at + 1], a[at], constants, locals)
          /\ a[at + 2] = Exec(chunk[at + 2], a[at + 1], constants, locals)
          /\ b[at] = Exec(other[at], b[at - 1], constants, locals)
          /\ b[at + 1] = Exec(other[at + 1], b[at], constants, locals)
          /\ b[at + 2] = Exec(other[at + 2], b[at + 1], constants, locals)
      BY <1>3, <3>1
    <3>4. IsSeq(a[at - 1])
      BY <1>3, <3>1
    <3>5. b[at + 2] = a[at + 2]
      BY <3>2, <3>3, <3>4
    <3>. QED  BY <2>1, <2>4, <3>5
  <2>5. i + 1 \in at .. at + 1 \/ i + 1 \notin at .. at + 2 \/ i + 1 = at + 2
    OBVIOUS
  <2>. QED  BY <2>2, <2>3, <2>4, <2>5
<1>. HIDE DEF S
<1>6. n \in S
  BY <1>4, <1>5, EveryTurn, SMTT(90)
<1>7. n \notin at .. at + 1
  OBVIOUS
<1>. QED  BY <1>1, <1>2, <1>6, <1>7 DEF S, Same
-----------------------------------------------------------------------------
(* The scan                                                                *)

(* Where the scan begins, nothing is replaced.                             *)
LEMMA OptimizerBegins == Init => OptimizerInv
<1>. SUFFICES ASSUME Init PROVE OptimizerInv
  OBVIOUS
<1>1. code \in Seq(Instruction) /\ IsSeq(code) /\ Len(code) \in Nat
  BY OptimizerAssumption, SeqIsSeq DEF Init, OptimizerAssumption
<1>2. ip = 1 /\ code = source /\ sp = "start" /\ source \in Codes
  BY DEF Init
<1>. QED  BY <1>1, <1>2 DEF OptimizerInv, Same

(* An instruction that leads to a state of the table.                      *)
LEMMA FollowKeeps ==
    ASSUME OptimizerInv, Follow PROVE OptimizerInv'
<1>. DEFINE op == code[ip].op
<1>1. /\ ip \in 1 .. Len(code) /\ ip \in Nat /\ Len(code) \in Nat
      /\ code' = code /\ source' = source /\ ip' = ip + 1
      /\ sp' = optimizer_transit(op) /\ sp' \in DOMAIN tb_optimizer_states
  BY DEF Follow, OptimizerInv
<1>2. /\ sp' \in {"start", "k", "l", "kl", "kk", "ll"} /\ sp' \notin AllSupers
  BY <1>1, StatesAre
<1>3. code[ip] = source[ip]
  BY <1>1 DEF OptimizerInv
<1>. HIDE DEF op
<1>4. /\ sp' = "k" => sp = "start" /\ op = "put_k"
      /\ sp' = "l" => sp = "start" /\ op = "load_local"
      /\ sp' = "kk" => sp = "k" /\ op = "put_k"
      /\ sp' = "ll" => sp = "l" /\ op = "load_local"
      /\ sp' = "kl" => \/ sp = "k" /\ op = "load_local"
                       \/ sp = "l" /\ op = "put_k"
  <2>1. \A p \in Operations : /\ SuperOps["kl"][p] \in AllSupers
                              /\ SuperOps["kk"][p] \in AllSupers
                              /\ SuperOps["ll"][p] \in AllSupers
    BY OperationIs DEF AllSupers
  <2>2. sp \in {"start", "k", "l", "kl", "kk", "ll"}
    BY DEF OptimizerInv
  <2>. QED  BY <1>1, <1>2, <2>1, <2>2, TransitIs
<1>5. /\ ip' - 1 = ip /\ ip' - 2 = ip - 1 /\ ip' > 1 /\ (ip > 1 => ip' > 2)
  BY <1>1
<1>6. /\ op = "put_k" => Behind(1, "put_k")'
      /\ op = "load_local" => Behind(1, "load_local")'
  BY <1>1, <1>3, <1>5 DEF Behind, op
<1>7. /\ sp = "k" => Behind(2, "put_k")'
      /\ sp = "l" => Behind(2, "load_local")'
  BY <1>1, <1>5 DEF Behind, OptimizerInv
<1>8. /\ sp' = "k" => Behind(1, "put_k")'
      /\ sp' = "l" => Behind(1, "load_local")'
      /\ sp' = "kk" => Behind(2, "put_k")' /\ Behind(1, "put_k")'
      /\ sp' = "ll" => Behind(2, "load_local")' /\ Behind(1, "load_local")'
      /\ sp' = "kl" => \/ Behind(2, "put_k")' /\ Behind(1, "load_local")'
                       \/ Behind(2, "load_local")' /\ Behind(1, "put_k")'
  BY <1>4, <1>6, <1>7
<1>9. (~ConstantFirst /\ ~Cut)' =>
        \A constants \in Constants, locals \in Locals : Same(code', source', constants, locals)
  BY <1>1 DEF OptimizerInv, ConstantFirst, Cut
<1>10. \A pos \in ip' .. Len(code') : code'[pos] = source'[pos]
  BY <1>1 DEF OptimizerInv
<1>. QED  BY <1>1, <1>2, <1>8, <1>9, <1>10 DEF OptimizerInv

(* What the scan has in hand where it replaces: two loads and an           *)
(* operation, as they were compiled.                                       *)
LEMMA Found ==
    ASSUME OptimizerInv, Replace
    PROVE  LET at == ip - 2
               one == code[at]
               two == code[at + 1]
               op == code[at + 2].op
               super == optimizer_transit(code[ip].op)
           IN  /\ at \in 1 .. Len(code) /\ at + 2 = ip /\ at + 1 = ip - 1
               /\ at + 2 <= Len(code) /\ Len(code) \in Nat
               /\ one = source[at] /\ two = source[at + 1] /\ code[ip] = source[ip]
               /\ op \in Operations
               /\ \/ /\ one.op = "put_k" /\ two.op = "put_k"
                     /\ super = SuperOps["kk"][op] /\ super \notin Supers("kl")
                  \/ /\ one.op = "load_local" /\ two.op = "load_local"
                     /\ super = SuperOps["ll"][op] /\ super \notin Supers("kl")
                  \/ /\ one.op = "put_k" /\ two.op = "load_local"
                     /\ super = SuperOps["kl"][op] /\ super \in Supers("kl")
                  \/ /\ one.op = "load_local" /\ two.op = "put_k"
                     /\ super = SuperOps["kl"][op] /\ super \in Supers("kl")
<1>. DEFINE op == code[ip].op
            super == optimizer_transit(op)
<1>1. /\ ip \in 1 .. Len(code) /\ ip \in Nat /\ Len(code) \in Nat
      /\ super \in AllSupers /\ code[ip] = source[ip]
  BY DEF Replace, OptimizerInv
<1>2. super \notin {"start", "k", "l", "kl", "kk", "ll"}
  BY <1>1, StatesAre
<1>3. /\ \/ sp = "kk" /\ super = SuperOps["kk"][op]
         \/ sp = "ll" /\ super = SuperOps["ll"][op]
         \/ sp = "kl" /\ super = SuperOps["kl"][op]
      /\ op \in Operations
  <2>. HIDE DEF op
  <2>1. sp \in {"start", "k", "l", "kl", "kk", "ll"}
    BY DEF OptimizerInv
  <2>. QED  BY <1>2, <2>1, TransitIs
<1>4. /\ ip > 2
      /\ code[ip - 1] = source[ip - 1] /\ code[ip - 2] = source[ip - 2]
      /\ sp = "kk" => code[ip - 2].op = "put_k" /\ code[ip - 1].op = "put_k"
      /\ sp = "ll" => code[ip - 2].op = "load_local" /\ code[ip - 1].op = "load_local"
      /\ sp = "kl" => \/ code[ip - 2].op = "put_k" /\ code[ip - 1].op = "load_local"
                      \/ code[ip - 2].op = "load_local" /\ code[ip - 1].op = "put_k"
  <2>1. /\ sp = "kk" => Behind(2, "put_k") /\ Behind(1, "put_k")
        /\ sp = "ll" => Behind(2, "load_local") /\ Behind(1, "load_local")
        /\ sp = "kl" => \/ Behind(2, "put_k") /\ Behind(1, "load_local")
                        \/ Behind(2, "load_local") /\ Behind(1, "put_k")
    BY DEF OptimizerInv
  <2>. QED  BY <1>3, <2>1 DEF Behind
<1>5. /\ ip - 2 \in 1 .. Len(code) /\ (ip - 2) + 2 = ip /\ (ip - 2) + 1 = ip - 1
      /\ (ip - 2) + 2 <= Len(code)
  BY <1>1, <1>4
<1>6. /\ SuperOps["kl"][op] \in Supers("kl")
      /\ SuperOps["kk"][op] \notin Supers("kl") /\ SuperOps["ll"][op] \notin Supers("kl")
  <2>. HIDE DEF op
  <2>1. /\ SuperOps["kl"][op] \in Supers("kl") /\ SuperOps["kk"][op] \in Supers("kk")
        /\ SuperOps["ll"][op] \in Supers("ll")
    BY <1>3, OperationIs
  <2>. QED  BY <2>1, SuperNames
<1>. HIDE DEF op, super
<1>7. \/ /\ code[ip - 2].op = "put_k" /\ code[ip - 1].op = "put_k"
         /\ super = SuperOps["kk"][op] /\ super \notin Supers("kl")
      \/ /\ code[ip - 2].op = "load_local" /\ code[ip - 1].op = "load_local"
         /\ super = SuperOps["ll"][op] /\ super \notin Supers("kl")
      \/ /\ code[ip - 2].op = "put_k" /\ code[ip - 1].op = "load_local"
         /\ super = SuperOps["kl"][op] /\ super \in Supers("kl")
      \/ /\ code[ip - 2].op = "load_local" /\ code[ip - 1].op = "put_k"
         /\ super = SuperOps["kl"][op] /\ super \in Supers("kl")
  BY <1>3, <1>4, <1>6
<1>. QED  BY <1>1, <1>3, <1>4, <1>5, <1>7 DEF op, super
(* What replaces the three.                                                *)
LEMMA Replaced ==
    ASSUME OptimizerInv, Replace
    PROVE  LET at == ip - 2
               super == optimizer_transit(code[ip].op)
               operands == Operands(super, code[at], code[at + 1])
           IN  /\ IsSeq(code') /\ Len(code') = Len(code)
               /\ operands[1] \in Nat /\ operands[2] \in Nat
               /\ code'[at] = Ins(super, operands[1] % 256, operands[2])
               /\ code'[at + 1] = Ins("nop", 0, 0) /\ code'[at + 2] = Ins("nop", 0, 0)
               /\ \A i \in 1 .. Len(code) : i \notin at .. at + 2 => code'[i] = code[i]
<1>. DEFINE at == ip - 2
            super == optimizer_transit(code[ip].op)
            operands == Operands(super, code[at], code[at + 1])
            new == Ins(super, operands[1] % 256, operands[2])
            cleared == Ins("nop", 0, 0)
<1>1. /\ at \in 1 .. Len(code) /\ at + 1 \in 1 .. Len(code) /\ at + 2 \in 1 .. Len(code)
      /\ at + 1 = ip - 1 /\ at + 2 = ip /\ Len(code) \in Nat
      /\ IsSeq(code)
  <2>1. /\ at \in 1 .. Len(code) /\ at + 1 = ip - 1 /\ at + 2 = ip
        /\ at + 2 <= Len(code) /\ Len(code) \in Nat
    BY Found
  <2>. HIDE DEF at
  <2>2. at + 1 \in 1 .. Len(code) /\ at + 2 \in 1 .. Len(code)
    BY <2>1
  <2>. QED  BY <2>1, <2>2 DEF OptimizerInv
<1>2. operands[1] \in Nat /\ operands[2] \in Nat
  <2>1. code[at] = source[at] /\ code[at + 1] = source[at + 1]
    BY Found
  <2>2. source \in Seq(Instruction) /\ Len(source) = Len(code)
    BY OptimizerAssumption DEF OptimizerAssumption, OptimizerInv
  <2>. HIDE DEF at, super
  <2>3. source[at] \in Instruction /\ source[at + 1] \in Instruction
    BY <1>1, <2>2, ElementOfSeq
  <2>4. code[at].wide \in Nat /\ code[at + 1].wide \in Nat
    BY <2>1, <2>3 DEF Instruction
  <2>. QED  BY <2>4 DEF Operands
<1>3. code' = [code EXCEPT ![at] = new, ![at + 1] = cleared, ![at + 2] = cleared]
  BY <1>1 DEF Replace, replace_binary_inst
<1>. HIDE DEF at, super, operands, new, cleared
<1>. DEFINE T == {code[i] : i \in DOMAIN code} \cup {new, cleared}
<1>4. code \in Seq(T) /\ new \in T /\ cleared \in T
  <2>1. code \in Seq({code[i] : i \in DOMAIN code})
    BY <1>1 DEF IsSeq
  <2>. QED  BY <2>1
<1>. HIDE DEF T
<1>. DEFINE c1 == [code EXCEPT ![at] = new]
            c2 == [c1 EXCEPT ![at + 1] = cleared]
<1>5. c1 \in Seq(T) /\ Len(c1) = Len(code)
  BY <1>1, <1>4
<1>. HIDE DEF c1
<1>6. c2 \in Seq(T) /\ Len(c2) = Len(code)
  BY <1>1, <1>4, <1>5
<1>. HIDE DEF c2
<1>7. /\ [c2 EXCEPT ![at + 2] = cleared] \in Seq(T)
      /\ Len([c2 EXCEPT ![at + 2] = cleared]) = Len(code)
  BY <1>1, <1>4, <1>6
<1>8. code' = [c2 EXCEPT ![at + 2] = cleared] /\ IsSeq(code')
  <2>1. code' = [c2 EXCEPT ![at + 2] = cleared]
    BY <1>3 DEF c1, c2
  <2>. QED  BY <1>7, <2>1, SeqIsSeq
<1>9. /\ code'[at] = new /\ code'[at + 1] = cleared /\ code'[at + 2] = cleared
      /\ \A i \in 1 .. Len(code) : i \notin at .. at + 2 => code'[i] = code[i]
  <2>1. DOMAIN code = 1 .. Len(code)
    BY <1>4
  <2>2. at # at + 1 /\ at # at + 2 /\ at + 1 # at + 2
        /\ at \in at .. at + 2 /\ at + 1 \in at .. at + 2 /\ at + 2 \in at .. at + 2
    BY <1>1
  <2>. QED  BY <1>1, <1>3, <2>1, <2>2
<1>. QED  BY <1>2, <1>7, <1>8, <1>9 DEF at, super, operands, new, cleared

(* A load pushes a value of the tables.                                    *)
LEMMA LoadsValue ==
    ASSUME source \in Codes, NEW pos \in 1 .. Len(source), source[pos].op \in Loads,
           NEW constants \in Constants, NEW locals \in Locals
    PROVE  Loaded(source[pos], constants, locals) \in Value
<1>1. source \in Seq(Instruction) /\ pos \in DOMAIN source
  BY OptimizerAssumption DEF OptimizerAssumption
<1>2. /\ source[pos].op = "put_k" => source[pos].wide \in DOMAIN constants
      /\ source[pos].op = "load_local" => source[pos].wide \in DOMAIN locals
  BY <1>1, OptimizerAssumption DEF OptimizerAssumption
<1>3. /\ constants \in [DOMAIN constants -> Value]
      /\ locals \in [DOMAIN locals -> Value]
  BY OptimizerAssumption DEF OptimizerAssumption
<1>. QED  BY <1>2, <1>3 DEF Loaded, Loads

(* The super-instruction computes what the three did.                      *)
LEMMA ReplaceComputes ==
    ASSUME OptimizerInv, Replace, ~ConstantFirst, ~Cut,
           NEW constants \in Constants, NEW locals \in Locals, NEW s, IsSeq(s)
    PROVE  Exec(code'[ip - 2], s, constants, locals)
           = Exec(code[ip], Exec(code[ip - 1], Exec(code[ip - 2], s, constants, locals),
                                 constants, locals), constants, locals)
<1>. DEFINE at == ip - 2
            one == code[at]
            two == code[at + 1]
            op == code[at + 2].op
            super == optimizer_transit(code[ip].op)
            v == Loaded(one, constants, locals)
            w == Loaded(two, constants, locals)
            operands == Operands(super, one, two)
<1>1. /\ at \in 1 .. Len(code) /\ at + 2 = ip /\ at + 1 = ip - 1
      /\ at + 2 <= Len(code) /\ Len(code) \in Nat
      /\ one = source[at] /\ two = source[at + 1] /\ code[ip] = source[ip]
      /\ op \in Operations
  BY Found
<1>2. \/ /\ one.op = "put_k" /\ two.op = "put_k"
         /\ super = SuperOps["kk"][op] /\ super \notin Supers("kl")
      \/ /\ one.op = "load_local" /\ two.op = "load_local"
         /\ super = SuperOps["ll"][op] /\ super \notin Supers("kl")
      \/ /\ one.op = "put_k" /\ two.op = "load_local"
         /\ super = SuperOps["kl"][op] /\ super \in Supers("kl")
      \/ /\ one.op = "load_local" /\ two.op = "put_k"
         /\ super = SuperOps["kl"][op] /\ super \in Supers("kl")
  BY Found
<1>3. /\ operands[1] \in Nat /\ operands[2] \in Nat
      /\ code'[at] = Ins(super, operands[1] % 256, operands[2])
  BY Replaced
<1>4. /\ source \in Codes /\ source \in Seq(Instruction) /\ Len(code) = Len(source)
      /\ DOMAIN source = 1 .. Len(source)
  <2>1. source \in Codes /\ Len(code) = Len(source)
    BY DEF OptimizerInv
  <2>2. source \in Seq(Instruction)
    BY <2>1, OptimizerAssumption DEF OptimizerAssumption
  <2>. QED  BY <2>1, <2>2
<1>5. one.op \in Loads /\ two.op \in Loads
  BY <1>2 DEF Loads
<1>6. v \in Value /\ w \in Value
  <2>. HIDE DEF at
  <2>1. at + 1 \in 1 .. Len(source) /\ at \in 1 .. Len(source)
    BY <1>1, <1>4
  <2>. QED  BY <1>1, <1>4, <1>5, <2>1, LoadsValue
<1>7. Exec(code[ip], Exec(code[ip - 1], Exec(code[at], s, constants, locals),
                          constants, locals), constants, locals)
      = Append(s, Apply(op, v, w))
  <2>1. code[ip].op = op /\ code[ip - 1] = two
    BY <1>1
  <2>. HIDE DEF at, one, two, op
  <2>2. code[ip].op \in Operations
    BY <1>1, <2>1
  <2>. QED  BY <1>5, <2>1, <2>2, LoadsCompute DEF one
<1>8. operands[1] % 256 = operands[1]
  <2>. DEFINE swapped == one.op = "load_local" /\ two.op = "put_k"
              first == IF swapped THEN two ELSE one
  <2>1. operands[1] = first.wide
    <3>. HIDE DEF one, two, super, op
    <3>. QED  BY <1>2 DEF Operands
  <2>2. ~(first.wide > 255)
    <3>1. at \in DOMAIN source /\ at + 2 \in DOMAIN source
      BY <1>1, <1>4
    <3>2. /\ source[at].op \in Loads /\ source[at + 1].op \in Loads
          /\ source[at + 2].op \in Operations
      BY <1>1, <1>5
    <3>3. first = IF source[at].op = "load_local" /\ source[at + 1].op = "put_k"
                    THEN source[at + 1] ELSE source[at]
      <4>. HIDE DEF at
      <4>. QED  BY <1>1
    <3>. HIDE DEF at, first
    <3>. QED  BY <3>1, <3>2, <3>3 DEF Cut
  <2>. HIDE DEF first, operands
  <2>. QED  BY <1>3, <2>1, <2>2
<1>9. code'[at] = Ins(super, operands[1], operands[2])
  BY <1>3, <1>8
<1>. HIDE DEF at
<1>10. CASE one.op = "put_k" /\ two.op = "put_k"
  <2>1. super = SuperOps["kk"][op] /\ operands[1] = one.wide /\ operands[2] = two.wide
    <3>. HIDE DEF one, two, op, super
    <3>. QED  BY <1>2, <1>10 DEF Operands
  <2>. HIDE DEF one, two, op, super, operands
  <2>2. Exec(Ins(SuperOps["kk"][op], one.wide, two.wide), s, constants, locals)
        = Append(s, Apply(op, v, w))
    <3>1. \A o \in Operations : \A x, y : x.op = "put_k" /\ y.op = "put_k" =>
            Exec(Ins(SuperOps["kk"][o], x.wide, y.wide), s, constants, locals)
            = Append(s, Apply(o, Loaded(x, constants, locals), Loaded(y, constants, locals)))
      BY TwoConstants
    <3>. QED  BY <1>1, <1>10, <3>1
  <2>3. code'[at] = Ins(SuperOps["kk"][op], one.wide, two.wide)
    BY <1>9, <2>1
  <2>. QED  BY <1>7, <2>2, <2>3 DEF at
<1>11. CASE one.op = "load_local" /\ two.op = "load_local"
  <2>1. super = SuperOps["ll"][op] /\ operands[1] = one.wide /\ operands[2] = two.wide
    <3>. HIDE DEF one, two, op, super
    <3>. QED  BY <1>2, <1>11 DEF Operands
  <2>. HIDE DEF one, two, op, super, operands
  <2>2. Exec(Ins(SuperOps["ll"][op], one.wide, two.wide), s, constants, locals)
        = Append(s, Apply(op, v, w))
    <3>1. \A o \in Operations : \A x, y : x.op = "load_local" /\ y.op = "load_local" =>
            Exec(Ins(SuperOps["ll"][o], x.wide, y.wide), s, constants, locals)
            = Append(s, Apply(o, Loaded(x, constants, locals), Loaded(y, constants, locals)))
      BY TwoLocals
    <3>. QED  BY <1>1, <1>11, <3>1
  <2>3. code'[at] = Ins(SuperOps["ll"][op], one.wide, two.wide)
    BY <1>9, <2>1
  <2>. QED  BY <1>7, <2>2, <2>3 DEF at
<1>12. CASE one.op = "load_local" /\ two.op = "put_k"
  <2>1. super = SuperOps["kl"][op] /\ operands[1] = two.wide /\ operands[2] = one.wide
    <3>. HIDE DEF one, two, op, super
    <3>. QED  BY <1>2, <1>12 DEF Operands
  <2>. HIDE DEF one, two, op, super, operands
  <2>2. Exec(Ins(SuperOps["kl"][op], two.wide, one.wide), s, constants, locals)
        = Append(s, Apply(op, v, w))
    <3>1. \A o \in Operations : \A x, y : x.op = "put_k" /\ y.op = "load_local" =>
            Exec(Ins(SuperOps["kl"][o], x.wide, y.wide), s, constants, locals)
            = Append(s, Apply(o, Loaded(y, constants, locals), Loaded(x, constants, locals)))
      BY ConstantAndLocal
    <3>. QED  BY <1>1, <1>12, <3>1
  <2>3. code'[at] = Ins(SuperOps["kl"][op], two.wide, one.wide)
    BY <1>9, <2>1
  <2>. QED  BY <1>7, <2>2, <2>3 DEF at
<1>13. CASE one.op = "put_k" /\ two.op = "load_local"
  <2>1. super = SuperOps["kl"][op] /\ operands[1] = one.wide /\ operands[2] = two.wide
    <3>. HIDE DEF one, two, op, super
    <3>. QED  BY <1>2, <1>13 DEF Operands
  <2>2. op \in {"add", "mul"}
    <3>1. at \in DOMAIN source /\ at + 2 \in DOMAIN source
      BY <1>1, <1>4
    <3>2. op = source[at + 2].op /\ one = source[at] /\ two = source[at + 1]
      BY <1>1
    <3>. HIDE DEF one, two, op
    <3>3. op \notin {"sub", "div"}
      BY <1>13, <3>1, <3>2 DEF ConstantFirst
    <3>. QED  BY <1>1, <3>3 DEF Operations
  <2>. HIDE DEF one, two, op, super, operands
  <2>3. Exec(Ins(SuperOps["kl"][op], one.wide, two.wide), s, constants, locals)
        = Append(s, Apply(op, w, v))
    <3>1. \A o \in Operations : \A x, y : x.op = "put_k" /\ y.op = "load_local" =>
            Exec(Ins(SuperOps["kl"][o], x.wide, y.wide), s, constants, locals)
            = Append(s, Apply(o, Loaded(y, constants, locals), Loaded(x, constants, locals)))
      BY ConstantAndLocal
    <3>. QED  BY <1>1, <1>13, <3>1
  <2>4. code'[at] = Ins(SuperOps["kl"][op], one.wide, two.wide)
    BY <1>9, <2>1
  <2>. HIDE DEF v, w
  <2>5. Apply(op, v, w) = Apply(op, w, v)
    BY <1>6, <2>2, Commutes
  <2>. QED  BY <1>7, <2>3, <2>4, <2>5 DEF at
<1>. QED  BY <1>2, <1>10, <1>11, <1>12, <1>13

(* A replacement.                                                          *)
LEMMA ReplaceKeeps ==
    ASSUME OptimizerInv, Replace PROVE OptimizerInv'
<1>. DEFINE at == ip - 2
<1>1. /\ IsSeq(code') /\ Len(code') = Len(code)
      /\ code'[at + 1] = Ins("nop", 0, 0) /\ code'[at + 2] = Ins("nop", 0, 0)
      /\ \A i \in 1 .. Len(code) : i \notin at .. at + 2 => code'[i] = code[i]
  BY Replaced
<1>2. /\ at \in 1 .. Len(code) /\ at + 2 = ip /\ at + 1 = ip - 1
      /\ at + 2 <= Len(code) /\ Len(code) \in Nat
  BY Found
<1>3. source' = source /\ sp' = "start" /\ ip' = ip + 1
  BY DEF Replace
<1>4. source \in Codes /\ Len(code) = Len(source) /\ ip \in Nat
  BY DEF OptimizerInv
<1>5. \A pos \in ip' .. Len(code') : code'[pos] = source'[pos]
  <2>1. \A pos \in ip .. Len(code) : code[pos] = source[pos]
    BY DEF OptimizerInv
  <2>2. ASSUME NEW pos \in ip + 1 .. Len(code) PROVE code'[pos] = source[pos]
    <3>1. pos \in ip .. Len(code) /\ pos \in 1 .. Len(code) /\ pos \notin at .. at + 2
      BY <1>2, <1>4
    <3>. QED  BY <1>1, <2>1, <3>1
  <2>. QED  BY <1>1, <1>3, <2>2
<1>6. ASSUME ~ConstantFirst, ~Cut, NEW constants \in Constants, NEW locals \in Locals
      PROVE  Same(code', source, constants, locals)
  <2>1. \A x : Exec(Ins("nop", 0, 0), x, constants, locals) = x
    <3>1. Ins("nop", 0, 0).op = "nop"
      BY DEF Ins
    <3>2. "nop" \notin Loads \cup Computations \cup AllSupers
      BY SuperNames
         DEF AllSupers, Computations, Operations, BitOperations, Comparisons, Loads
    <3>. QED  BY <3>1, <3>2, ExecIs
  <2>2. \A s : IsSeq(s) =>
            Exec(code'[at + 2], Exec(code'[at + 1], Exec(code'[at], s, constants, locals),
                                     constants, locals), constants, locals)
            = Exec(code[at + 2], Exec(code[at + 1], Exec(code[at], s, constants, locals),
                                      constants, locals), constants, locals)
    <3>. SUFFICES ASSUME NEW s, IsSeq(s)
                  PROVE  Exec(code'[at], s, constants, locals)
                         = Exec(code[at + 2], Exec(code[at + 1],
                                Exec(code[at], s, constants, locals),
                                constants, locals), constants, locals)
      BY <1>1, <2>1
    <3>. QED  BY <1>2, <1>6, ReplaceComputes
  <2>. HIDE DEF at
  <2>3. Same(code', code, constants, locals)
    BY <1>1, <1>2, <2>2, ThreeAlike
  <2>4. Same(code, source, constants, locals)
    BY <1>6 DEF OptimizerInv
  <2>. QED  BY <2>3, <2>4 DEF Same
<1>7. (~ConstantFirst /\ ~Cut)' =>
        \A constants \in Constants, locals \in Locals : Same(code', source', constants, locals)
  BY <1>3, <1>6 DEF ConstantFirst, Cut
<1>8. ip' \in 1 .. Len(code') + 1
  BY <1>1, <1>2, <1>3, <1>4
<1>. QED  BY <1>1, <1>3, <1>4, <1>5, <1>7, <1>8 DEF OptimizerInv

(* Each step keeps the invariant.                                          *)
LEMMA OptimizerKeeps == OptimizerInv /\ [Next]_vars => OptimizerInv'
<1>. SUFFICES ASSUME OptimizerInv, [Next]_vars PROVE OptimizerInv'
  OBVIOUS
<1>1. CASE Follow
  BY <1>1, FollowKeeps
<1>2. CASE Replace
  BY <1>2, ReplaceKeeps
<1>3. CASE UNCHANGED vars
  BY <1>3 DEF vars, OptimizerInv, Behind, ConstantFirst, Cut, Same
<1>. QED  BY <1>1, <1>2, <1>3 DEF Next, Done

-----------------------------------------------------------------------------
(* Jumps                                                                   *)

(* Two loads and an operation, as the compiler made them.                  *)
Triple(pos) ==
    /\ pos \in DOMAIN source /\ pos + 2 \in DOMAIN source
    /\ source[pos].op \in Loads /\ source[pos + 1].op \in Loads
    /\ source[pos + 2].op \in Operations

(* What the compiler has to see to: nothing jumps between the three.       *)
JoinsApart == \A pos : Triple(pos) => {pos + 1, pos + 2} \cap TargetsIn(source) = {}

(* A super-instruction stands where three of the source stood, and no jump *)
(* was changed.                                                            *)
JumpsInv ==
    \A pos \in DOMAIN code :
        /\ code[pos].op \in AllSupers => Triple(pos)
        /\ code[pos].op \in {"jmp", "jmp_false", "jmp_if"} =>
             pos \in DOMAIN source /\ code[pos] = source[pos]

(* The compiler makes no super-instruction itself.                         *)
LEMMA JumpsBegin == Init => JumpsInv
<1>. SUFFICES ASSUME Init, NEW pos \in DOMAIN code
              PROVE  code[pos].op \notin AllSupers /\ pos \in DOMAIN source
                       /\ code[pos] = source[pos]
  BY DEF JumpsInv
<1>1. source \in Codes /\ code = source
  BY DEF Init
<1>. QED  BY <1>1, OptimizerAssumption DEF OptimizerAssumption

(* A replacement makes one of three, and takes no jump away.               *)
LEMMA JumpsReplaced ==
    ASSUME OptimizerInv, JumpsInv, Replace PROVE JumpsInv'
<1>. DEFINE at == ip - 2
            super == optimizer_transit(code[ip].op)
<1>1. /\ at \in 1 .. Len(code) /\ at + 2 <= Len(code) /\ Len(code) \in Nat
      /\ at + 1 = ip - 1 /\ at + 2 = ip
      /\ code[at] = source[at] /\ code[at + 1] = source[at + 1] /\ code[ip] = source[ip]
      /\ code[at].op \in Loads /\ code[at + 1].op \in Loads /\ code[ip].op \in Operations
  BY Found DEF Loads
<1>2. /\ IsSeq(code') /\ Len(code') = Len(code) /\ source' = source
      /\ \E n, m : code'[at] = Ins(super, n, m)
      /\ code'[at + 1] = Ins("nop", 0, 0) /\ code'[at + 2] = Ins("nop", 0, 0)
      /\ \A i \in 1 .. Len(code) : i \notin at .. at + 2 => code'[i] = code[i]
  BY Replaced DEF Replace
<1>3. super \in AllSupers
  BY DEF Replace
<1>. HIDE DEF at, super
<1>4. DOMAIN code = 1 .. Len(code) /\ DOMAIN code' = 1 .. Len(code)
      /\ DOMAIN source = 1 .. Len(code)
  <2>1. Len(source) = Len(code) /\ source \in Seq(Instruction) /\ IsSeq(code)
    BY OptimizerAssumption DEF OptimizerInv, OptimizerAssumption
  <2>. QED  BY <1>2, <2>1, LenProperties DEF IsSeq
<1>5. Triple(at)
  BY <1>1, <1>4 DEF Triple
<1>6. \A pos : Triple(pos)' <=> Triple(pos)
  BY <1>2 DEF Triple
<1>7. code'[at].op = super /\ code'[at + 1].op = "nop" /\ code'[at + 2].op = "nop"
  BY <1>2 DEF Ins
<1>8. \A op \in AllSupers : op \notin {"jmp", "jmp_false", "jmp_if", "nop"}
  BY SuperNames DEF AllSupers
<1>. SUFFICES ASSUME NEW pos \in 1 .. Len(code)
              PROVE  /\ code'[pos].op \in AllSupers => Triple(pos)
                     /\ code'[pos].op \in {"jmp", "jmp_false", "jmp_if"} =>
                          pos \in DOMAIN source /\ code'[pos] = source[pos]
  BY <1>2, <1>4, <1>6 DEF JumpsInv
<1>9. CASE pos = at
  BY <1>3, <1>5, <1>7, <1>8, <1>9
<1>10. CASE pos = at + 1 \/ pos = at + 2
  BY <1>7, <1>8, <1>10
<1>11. CASE pos \notin at .. at + 2
  BY <1>2, <1>4, <1>11 DEF JumpsInv
<1>12. pos \in at .. at + 2 => pos = at \/ pos = at + 1 \/ pos = at + 2
  BY <1>1
<1>. QED  BY <1>9, <1>10, <1>11, <1>12

(* Each step keeps it.                                                     *)
LEMMA JumpsKept == OptimizerInv /\ JumpsInv /\ [Next]_vars => JumpsInv'
<1>. SUFFICES ASSUME OptimizerInv, JumpsInv, [Next]_vars PROVE JumpsInv'
  OBVIOUS
<1>1. CASE Replace
  BY <1>1, JumpsReplaced
<1>2. CASE Follow \/ UNCHANGED vars
  BY <1>2 DEF Follow, vars, JumpsInv, Triple
<1>. QED  BY <1>1, <1>2 DEF Next, Done

-----------------------------------------------------------------------------
(* Theorems                                                                *)

(* The code that the scan leaves computes what the compiled code computes, *)
(* of any length, with any constants and locals, unless it subtracts a     *)
(* local from a constant or divides by one, or an id does not fit its      *)
(* flag: optimizer_apply and the replacers it calls.                       *)
THEOREM OptimizerKeepsMeaning == Spec => []MeaningKeptButForOrder
<1>1. OptimizerInv => MeaningKeptButForOrder
  BY DEF OptimizerInv, MeaningKeptButForOrder, MeaningKept, Same
<1>. QED  BY <1>1, OptimizerBegins, OptimizerKeeps, PTL DEF Spec

(* Replacing is safe for the jumps of any code in which none lands between *)
(* two loads and the operation on them; that is all that the compiler has  *)
(* to see to, with the NOP behind && and || (compiler.c:1147 to 1201).     *)
THEOREM OptimizerKeepsJoins == Spec => [](JoinsApart => JoinsKept)
<1>1. OptimizerInv /\ JumpsInv => (JoinsApart => JoinsKept)
  <2>. SUFFICES ASSUME JumpsInv, JoinsApart, NEW pos \in DOMAIN code,
                       code[pos].op \in AllSupers
                PROVE  {pos + 1, pos + 2} \cap Targets = {}
    BY DEF JoinsKept
  <2>1. Targets \subseteq TargetsIn(source)
    BY DEF Targets, TargetsIn, JumpsInv
  <2>. QED  BY <2>1 DEF JumpsInv, JoinsApart
<1>. QED  BY <1>1, OptimizerBegins, OptimizerKeeps, JumpsBegin, JumpsKept, PTL DEF Spec
=============================================================================
