------------------------------ MODULE VMProofs ------------------------------
(***************************************************************************)
(* Theorems about module VM, for every set of programs that the compiler   *)
(* may have made, every value of depth's width and every nesting of calls. *)
(***************************************************************************)
EXTENDS VM, FiniteSetTheorems, WellFoundedInduction, TLAPS

(* What the fields hold, as far as control depends on them.                *)
FrameSet == [kind : {"call", "closure"}, chunk : Nat, ip : Nat, bp : Int,
             slot : Int, argc : Int]
FieldsOK ==
    /\ prgm \in Programs
    /\ run \in {"exec", "return", "halted", "crashed"}
    /\ dispatcher \in {"vm_dispatch", "vm_seek_catch"}
    /\ sp \in Int /\ bp \in Int
    /\ frames \in Seq(FrameSet)
    /\ depth \in 0 .. DepthValues - 1 /\ lost \in Nat
    /\ wrapped \in BOOLEAN /\ unanswered \in BOOLEAN /\ in_flight \in BOOLEAN
    /\ carried \in BOOLEAN
    /\ invocation \in 1 .. 2 /\ (invocation = 1 => ~carried)
    /\ run = "halted" => frames = <<>>

(* Where control may be: inside a chunk, and a call returns behind itself, *)
(* never on a CATCH, nor to one of the two instructions of a chunk that    *)
(* are run whatever the dispatcher is.                                     *)
InChunk(c, k) == c \in DOMAIN prgm /\ k \in DOMAIN prgm[c]
ReturnsTo(frame) ==
    /\ InChunk(frame.chunk, frame.ip) /\ frame.ip > 2
    /\ prgm[frame.chunk][frame.ip].op # "catch_err"
CodeInv ==
    /\ InChunk(chunk, ip)
    /\ \A n \in DOMAIN frames : ReturnsTo(frames[n])

(* The bases of the calls on the C stack are the slots of the callees      *)
(* below them.                                                             *)
BaseInv ==
    /\ \A n \in DOMAIN frames :
         frames[n].bp = IF n = 1 THEN 0 ELSE frames[n - 1].slot
    /\ BaseIsCalleeSlot

(* A call that has returned to C took its own count with it, or is lost.   *)
DepthInv ==
    /\ DepthExact
    /\ run = "return" => depth = (Len(frames) + lost) % DepthValues

CatchInv ==
    /\ dispatcher = "vm_seek_catch" => in_flight
    /\ status = "err_throw" => in_flight
    /\ run = "return" /\ retval = "err_throw" => in_flight
    /\ run = "exec" /\ Code[ip].op = "catch_err" => in_flight

(* A search that this invocation began has a caller left to search, or was *)
(* begun with a count of calls that is too great.                          *)
SeekInv ==
    ~carried /\ dispatcher = "vm_seek_catch" =>
        /\ run = "exec" => ip > 2
        /\ run = "return" => frames # <<>> \/ lost > 0
        /\ run = "halted" => lost > 0

(* As long as depth does not wrap, it is the number of the open calls.     *)
CountInv ==
    ~wrapped =>
        /\ run = "exec" => depth = 1 + Len(frames) + lost
        /\ run = "return" => depth = Len(frames) + lost

(* From a throw to its CATCH nothing runs but searches and returns, and    *)
(* the status says so; success is set at the end of the program only.      *)
OutcomeInv ==
    ~unanswered /\ ~carried /\ ~wrapped =>
        /\ in_flight <=> status = "err_throw"
        /\ run = "exec" /\ in_flight /\ dispatcher = "vm_dispatch" =>
             Code[ip].op \in {"catch_err", "ret"}
        /\ run = "return" /\ in_flight =>
             /\ retval = "err_throw"
             /\ frames # <<>> => dispatcher = "vm_seek_catch"
        /\ run = "exec" => /\ status # "ok"
                           /\ ~in_flight /\ lost = 0 => status = "pending"
        /\ run = "return" /\ ~in_flight /\ lost = 0 =>
             /\ retval = status
             /\ status = IF frames = <<>> THEN "ok" ELSE "pending"
        /\ run = "return" /\ (status = "ok" \/ retval = "ok") => frames = <<>> /\ lost = 0
        /\ run = "halted" => (status = "ok" <=> lost = 0 /\ ~in_flight)

(* The stack.  Call n of the C stack has its callee in a slot, then its    *)
(* arguments, then its locals: that is its floor, over which its code has  *)
(* at least the operands that Heights counts.  Level 0 is the top level.   *)
Base(n) == IF n = 0 THEN 0 ELSE frames[n].slot
Argc(n) == IF n = 0 THEN 0 ELSE frames[n].argc
FloorAt(n, c) == Base(n) + Argc(n) + Reserved(prgm[c])
HeightAt(c, k) == Heights(prgm[c])[k]

BottomInv == IF frames = <<>> THEN chunk = 1 ELSE frames[1].chunk = 1

(* A callee lies over the floor of its caller, and leaves it the operands  *)
(* it needs when it returns; its own frame is above those of all callers.  *)
SlotsInv ==
    ~Sinks =>
        /\ \A n \in DOMAIN frames :
             /\ frames[n].argc \in Nat /\ frames[n].slot \in 0 .. MaxSp
             /\ frames[n].slot > FloorAt(n - 1, frames[n].chunk)
             /\ frames[n].slot >= FloorAt(n - 1, frames[n].chunk)
                                    + HeightAt(frames[n].chunk, frames[n].ip)
        /\ \A m, n \in DOMAIN frames : m < n => frames[m].slot < frames[n].slot

OperandsInv ==
    ~Sinks /\ run = "exec" =>
        /\ sp <= MaxSp
        /\ sp >= FloorAt(Len(frames), chunk) + HeightAt(chunk, ip)

Innermost(m) ==
    /\ frames[m].kind = "closure"
    /\ \A n \in DOMAIN frames : n > m => frames[n].kind # "closure"
Captured(m) ==
    stack[frames[m].slot].tag = "obj_id" /\ stack[frames[m].slot].data = upvals
UpvalsInv ==
    upvals # DUD_HEAP_ID =>
        \E m \in DOMAIN frames : Innermost(m) /\ (~Sinks => Captured(m))

StackInv ==
    /\ DOMAIN stack = 0 .. MaxSp
    /\ BottomInv /\ SlotsInv /\ OperandsInv /\ UpvalsInv

-----------------------------------------------------------------------------
(* Arithmetic modulo the width of depth, and least elements                *)

LEMMA ModUnique ==
    ASSUME NEW d \in Nat \ {0}, NEW a \in Int, NEW q \in Int, NEW r \in 0 .. d - 1,
           a = d * q + r
    PROVE  a % d = r
<1> DEFINE p == a \div d
           m == a % d
<1>1. p \in Int /\ m \in 0 .. d - 1 /\ a = d * p + m
  BY Z3
<1>2. d * (p - q) = r - m
  BY <1>1, Z3
<1>3. p - q = 0
  <2>1. CASE p - q >= 1
    <3>1. d * (p - q) >= d
      BY <1>1, <2>1, Z3
    <3> QED BY <1>1, <1>2, <3>1
  <2>2. CASE p - q <= -1
    <3>1. d * (p - q) <= -d
      BY <1>1, <2>2, Z3
    <3> QED BY <1>1, <1>2, <3>1
  <2> QED BY <1>1, <2>1, <2>2
<1> QED BY <1>1, <1>2, <1>3

(* Counting modulo the width of a counter.                                 *)
LEMMA ModSteps ==
    ASSUME NEW d \in Nat \ {0, 1}, NEW a \in Nat
    PROVE  /\ a % d \in 0 .. d - 1
           /\ ((a % d) + 1) % d = (a + 1) % d
           /\ (((a + 1) % d) - 1) % d = a % d
           /\ a < d => a % d = a
<1> DEFINE p == a \div d
           m == a % d
<1>1. p \in Int /\ m \in 0 .. d - 1 /\ a = d * p + m
  BY Z3
<1>2. a < d => a % d = a
  <2> SUFFICES ASSUME a < d PROVE a % d = a
    OBVIOUS
  <2>1. a = d * 0 + a
    BY Z3
  <2> QED BY <2>1, ModUnique
<1>3. CASE m + 1 < d
  <2>1. (a + 1) % d = m + 1
    <3>1. a + 1 = d * p + (m + 1)
      BY <1>1
    <3> QED BY <3>1, <1>1, <1>3, ModUnique
  <2>2. (m + 1) % d = m + 1
    <3>1. m + 1 = d * 0 + (m + 1)
      BY <1>1, Z3
    <3> QED BY <3>1, <1>1, <1>3, ModUnique
  <2>3. m % d = m
    <3>1. m = d * 0 + m
      BY <1>1, Z3
    <3> QED BY <3>1, <1>1, ModUnique
  <2> HIDE DEF p, m
  <2>4. (m + 1) - 1 = m
    BY <1>1
  <2>5. m = a % d
    BY DEF m
  <2> QED BY <1>1, <1>2, <2>1, <2>2, <2>3, <2>4, <2>5
<1>4. CASE m + 1 = d
  <2>1. (a + 1) % d = 0
    <3>1. a + 1 = d * (p + 1) + 0
      BY <1>1, <1>4, Z3
    <3>2. 0 \in 0 .. d - 1 /\ p + 1 \in Int /\ a + 1 \in Int
      BY <1>1
    <3> HIDE DEF p, m
    <3> QED BY <3>1, <3>2, ModUnique
  <2>2. (m + 1) % d = 0
    <3>1. m + 1 = d * 1 + 0
      BY <1>1, <1>4, Z3
    <3> QED BY <3>1, <1>1, ModUnique
  <2>3. (0 - 1) % d = m
    <3>1. 0 - 1 = d * (-1) + m
      BY <1>1, <1>4, Z3
    <3> QED BY <3>1, <1>1, ModUnique
  <2> QED BY <1>1, <1>2, <2>1, <2>2, <2>3
<1> QED BY <1>1, <1>3, <1>4

(* A set of numbers has a least element.                                   *)
LEMMA LeastExists ==
    ASSUME NEW S, S \subseteq Nat, S # {}
    PROVE  \E x \in S : \A y \in S : x <= y
<1> DEFINE Less == OpToRel(<, Nat)
<1>1. \E x \in S : \A y \in S : <<y, x>> \notin Less
  BY NatLessThanWellFounded, WFMin
<1>2. \A x, y \in Nat : <<y, x>> \in Less <=> y < x
  BY DEF OpToRel
<1> HIDE DEF Less
<1>3. \E x \in S : \A y \in S : x <= y
  <2>1. PICK x \in S : \A y \in S : <<y, x>> \notin Less
    BY <1>1
  <2>2. ASSUME NEW y \in S PROVE x <= y
    <3>1. x \in Nat /\ y \in Nat /\ ~(y < x)
      BY <1>2, <2>1
    <3> QED BY <3>1
  <2> QED BY <2>2
<1> QED BY <1>3

(* That is what Min chooses.                                               *)
LEMMA LeastElement ==
    ASSUME NEW S, S \subseteq Nat, S # {}
    PROVE  Min(S) \in S
<1>1. \E x \in S : \A y \in S : x <= y
  BY LeastExists
<1> QED BY <1>1 DEF Min

-----------------------------------------------------------------------------
(* The code of a chunk                                                     *)

(* Every chunk is what the compiler makes.                                 *)
LEMMA ChunkFormed ==
    ASSUME FieldsOK, NEW c \in DOMAIN prgm
    PROVE  /\ WellFormed(prgm[c])
           /\ ~ShortCircuits => Balanced(prgm[c])
           /\ DOMAIN prgm = 1 .. Len(prgm) /\ Len(prgm) \in Nat \ {0}
           /\ GlobalsInside(prgm)
<1>1. prgm[c] \in Chunks
  BY DEF FieldsOK, Chunks
<1>. QED  BY <1>1, VMAssumption DEF FieldsOK, ShortCircuits

(* What an instruction has in its fields.                                  *)
LEMMA CodeFacts ==
    ASSUME FieldsOK, NEW c, NEW k, InChunk(c, k)
    PROVE  /\ WellFormed(prgm[c])
           /\ DOMAIN prgm[c] = 1 .. Len(prgm[c]) /\ Len(prgm[c]) \in Nat
           /\ prgm[c][k].wide \in Int /\ prgm[c][k].flag \in Nat
           /\ c \in Nat /\ k \in Nat \ {0}
<1>1. WellFormed(prgm[c])
  BY ChunkFormed DEF InChunk
<1>2. c \in Nat
  BY VMAssumption DEF FieldsOK, InChunk
<1>3. prgm[c] \in Seq(Instructions)
  BY <1>1 DEF WellFormed
<1>4. DOMAIN prgm[c] = 1 .. Len(prgm[c]) /\ Len(prgm[c]) \in Nat
  BY <1>3
<1>5. k \in 1 .. Len(prgm[c])
  BY <1>4 DEF InChunk
<1>6. prgm[c][k] \in Instructions
  BY <1>3, <1>5
<1> QED BY <1>1, <1>2, <1>4, <1>5, <1>6 DEF Instructions

(* What goes on behind an instruction stays inside its chunk, and reaches  *)
(* no CATCH.                                                               *)
LEMMA NextInside ==
    ASSUME FieldsOK, NEW c, NEW k, InChunk(c, k),
           prgm[c][k].op \notin {"ret", "jmp"}
    PROVE  InChunk(c, k + 1) /\ prgm[c][k + 1].op # "catch_err"
<1>1. WellFormed(prgm[c]) /\ DOMAIN prgm[c] = 1 .. Len(prgm[c]) /\ Len(prgm[c]) \in Nat
  BY CodeFacts
<1>2. k \in 1 .. Len(prgm[c]) /\ k # Len(prgm[c])
  BY <1>1 DEF InChunk, WellFormed, Last
<1>3. k + 1 \in DOMAIN prgm[c] /\ (k + 1) - 1 = k
  BY <1>1, <1>2
<1> QED BY <1>1, <1>3 DEF InChunk, WellFormed

(* A call enters a chunk at an instruction that is there, and not at a     *)
(* CATCH_ERR.                                                              *)
LEMMA FirstInside ==
    ASSUME FieldsOK, NEW c \in DOMAIN prgm
    PROVE  InChunk(c, 1) /\ prgm[c][1].op # "catch_err"
<1>1. WellFormed(prgm[c])
  BY ChunkFormed
<1> QED BY <1>1 DEF WellFormed, InChunk

(* Where vm_locally_propagate_error stops there is a CATCH or a RET.       *)
LEMMA HandlerInside ==
    ASSUME FieldsOK, CodeInv, NEW from \in DOMAIN Code,
           Last(Code).flag = TBASIC_RET_MARK_LAST
    PROVE  /\ HandlerFrom(from) \in DOMAIN Code
           /\ Code[HandlerFrom(from)].op \in {"catch_err", "ret"}
           /\ IsHandler(Code[HandlerFrom(from)])
<1> DEFINE open(k) == (IF trying_except THEN 1 ELSE 0)
                        + Cardinality(Tries(from, k)) - Cardinality(Catches(from, k))
           stops == {LastRet} \cup {k \in Catches(from, Len(Code)) : open(k) = 0}
<1>1. WellFormed(Code) /\ DOMAIN Code = 1 .. Len(Code) /\ Len(Code) \in Nat
  BY CodeFacts DEF CodeInv, Code
<1>2. /\ LastRet \in DOMAIN Code /\ Code[LastRet].op = "ret"
      /\ Code[LastRet].flag = TBASIC_RET_MARK_LAST
  <2>1. Len(Code) \in DOMAIN Code /\ Code[Len(Code)].op = "ret"
        /\ Code[Len(Code)].flag = TBASIC_RET_MARK_LAST
    BY <1>1 DEF WellFormed, Last
  <2> QED BY <2>1 DEF LastRet
<1>3. \A k \in stops : /\ k \in DOMAIN Code /\ Code[k].op \in {"catch_err", "ret"}
                       /\ IsHandler(Code[k])
  BY <1>1, <1>2 DEF Catches, CatchesIn, IsHandler
<1>4. stops \subseteq Nat /\ stops # {}
  BY <1>1, <1>3
<1>5. Min(stops) \in stops
  BY <1>4, LeastElement
<1>6. HandlerFrom(from) = Min(stops)
  BY DEF HandlerFrom
<1> QED BY <1>3, <1>5, <1>6

-----------------------------------------------------------------------------
(* TRY and CATCH: the scan for a handler against the nesting in the source *)

(* The instructions of one kind on a stretch of code.                      *)
OfKind(op, a, b) == {k \in a .. b : Code[k].op = op}

(* Those up to its end are those before it and those on it.                *)
LEMMA CountGrows ==
    ASSUME NEW op, NEW a \in Nat \ {0}, NEW b \in Nat, a <= b + 1
    PROVE  /\ Cardinality(OfKind(op, a, b)) \in Nat
           /\ Cardinality(OfKind(op, 1, a - 1)) \in Nat
           /\ Cardinality(OfKind(op, 1, b))
                = Cardinality(OfKind(op, 1, a - 1)) + Cardinality(OfKind(op, a, b))
<1>1. ASSUME NEW m \in Nat, NEW n \in Nat
      PROVE  IsFiniteSet(OfKind(op, m, n)) /\ Cardinality(OfKind(op, m, n)) \in Nat
  <2>1. IsFiniteSet(m .. n)
    BY FS_Interval
  <2>2. OfKind(op, m, n) \in SUBSET (m .. n)
    BY DEF OfKind
  <2>3. IsFiniteSet(OfKind(op, m, n))
    BY <2>1, <2>2, FS_Subset
  <2>. QED  BY <2>3, FS_CardinalityType
<1>2. /\ OfKind(op, 1, b) = OfKind(op, 1, a - 1) \cup OfKind(op, a, b)
      /\ OfKind(op, 1, a - 1) \cap OfKind(op, a, b) = {}
  BY DEF OfKind
<1>3. /\ IsFiniteSet(OfKind(op, a, b)) /\ Cardinality(OfKind(op, a, b)) \in Nat
      /\ IsFiniteSet(OfKind(op, 1, a - 1)) /\ Cardinality(OfKind(op, 1, a - 1)) \in Nat
  <2>1. a - 1 \in Nat /\ 1 \in Nat
    OBVIOUS
  <2>. QED  BY <1>1, <2>1
<1>4. Cardinality(OfKind(op, 1, b))
        = Cardinality(OfKind(op, 1, a - 1)) + Cardinality(OfKind(op, a, b)) - Cardinality({})
  BY <1>2, <1>3, FS_Union
<1>. QED  BY <1>3, <1>4, FS_EmptySet

(* How many TRYs are open behind an instruction, as the source nests them. *)
Open(k) == Cardinality(Tries(1, k)) - Cardinality(Catches(1, k))

(* The TRYs and CATCHes of a stretch are the difference of its ends.       *)
LEMMA OpenBetween ==
    ASSUME NEW a \in Nat \ {0}, NEW b \in Nat, a <= b + 1
    PROVE  /\ Cardinality(Tries(a, b)) - Cardinality(Catches(a, b)) = Open(b) - Open(a - 1)
           /\ Cardinality(Tries(a, b)) \in Nat /\ Cardinality(Catches(a, b)) \in Nat
           /\ Open(b) \in Int /\ Open(a - 1) \in Int
<1>1. \A m, n : Tries(m, n) = OfKind("try", m, n) /\ Catches(m, n) = OfKind("catch_err", m, n)
  BY DEF Tries, Catches, TriesIn, CatchesIn, OfKind
<1>2. /\ Cardinality(OfKind("try", a, b)) \in Nat
      /\ Cardinality(OfKind("try", 1, a - 1)) \in Nat
      /\ Cardinality(OfKind("try", 1, b))
           = Cardinality(OfKind("try", 1, a - 1)) + Cardinality(OfKind("try", a, b))
  BY CountGrows
<1>3. /\ Cardinality(OfKind("catch_err", a, b)) \in Nat
      /\ Cardinality(OfKind("catch_err", 1, a - 1)) \in Nat
      /\ Cardinality(OfKind("catch_err", 1, b))
           = Cardinality(OfKind("catch_err", 1, a - 1)) + Cardinality(OfKind("catch_err", a, b))
  BY CountGrows
<1>. QED  BY <1>1, <1>2, <1>3 DEF Open

(* A TRY opens one, a CATCH closes one.                                    *)
LEMMA OpenSteps ==
    ASSUME NEW k \in Nat \ {0}
    PROVE  /\ Open(k) \in Int /\ Open(k - 1) \in Int
           /\ Open(k) = Open(k - 1) + (IF Code[k].op = "try" THEN 1 ELSE 0)
                                    - (IF Code[k].op = "catch_err" THEN 1 ELSE 0)
<1>1. /\ Cardinality(Tries(k, k)) - Cardinality(Catches(k, k)) = Open(k) - Open(k - 1)
      /\ Open(k) \in Int /\ Open(k - 1) \in Int
  <2>1. k \in Nat /\ k <= k + 1
    OBVIOUS
  <2>. QED  BY <2>1, OpenBetween
<1>2. /\ Tries(k, k) = IF Code[k].op = "try" THEN {k} ELSE {}
      /\ Catches(k, k) = IF Code[k].op = "catch_err" THEN {k} ELSE {}
  BY DEF Tries, Catches, TriesIn, CatchesIn
<1>3. Cardinality({}) = 0 /\ Cardinality({k}) = 1
  BY FS_EmptySet, FS_Singleton
<1>. QED  BY <1>1, <1>2, <1>3

(* What the nesting of a chunk is.                                         *)
LEMMA OpenFacts ==
    ASSUME FieldsOK, CodeInv
    PROVE  /\ Open(0) = 0 /\ Open(Len(Code)) = 0
           /\ DOMAIN Code = 1 .. Len(Code) /\ Len(Code) \in Nat \ {0}
           /\ Code[Len(Code)].op = "ret"
           /\ \A k \in 0 .. Len(Code) : Open(k) \in Nat
<1>1. WellFormed(Code) /\ DOMAIN Code = 1 .. Len(Code) /\ Len(Code) \in Nat
  BY CodeFacts DEF CodeInv, Code
<1>2. Len(Code) # 0 /\ Code[Len(Code)].op = "ret"
  BY <1>1 DEF WellFormed, Last
<1>3. Open(0) = 0
  <2>1. Tries(1, 0) = {} /\ Catches(1, 0) = {}
    BY DEF Tries, Catches, TriesIn, CatchesIn
  <2>2. Cardinality({}) = 0
    BY FS_EmptySet
  <2>. QED  BY <2>1, <2>2 DEF Open
<1>4. (\A k \in DOMAIN Code : Open(k) >= 0) /\ Open(Len(Code)) = 0
  BY <1>1 DEF WellFormed, TriesClosed, Open, Tries, Catches
<1>5. ASSUME NEW k \in 0 .. Len(Code) PROVE Open(k) \in Nat
  <2>1. CASE k = 0
    BY <1>3, <2>1
  <2>2. CASE k # 0
    <3>1. k \in Nat \ {0} /\ k \in DOMAIN Code
      BY <1>1, <2>2
    <3>. QED  BY <1>4, <3>1, OpenSteps
  <2>. QED  BY <2>1, <2>2
<1>. QED  BY <1>1, <1>2, <1>3, <1>4, <1>5

(* Min and Max are the elements below and above all others.                *)
LEMMA LeastIs ==
    ASSUME NEW S, S \subseteq Nat, NEW m \in S, \A y \in S : m <= y
    PROVE  Min(S) = m
<1>1. \A x \in S : (\A y \in S : x <= y) => x = m
  OBVIOUS
<1>. QED  BY <1>1 DEF Min

(* The same for the greatest.                                              *)
LEMMA GreatestIs ==
    ASSUME NEW S, S \subseteq Nat, NEW m \in S, \A y \in S : m >= y
    PROVE  Max(S) = m
<1>1. \A x \in S : (\A y \in S : x >= y) => x = m
  OBVIOUS
<1>. QED  BY <1>1 DEF Max

(* The CATCH of a TRY: from one to the other the TRY is open.              *)
LEMMA CatchCloses ==
    ASSUME FieldsOK, CodeInv, NEW t \in DOMAIN Code, Code[t].op = "try"
    PROVE  /\ CatchOf(t) \in DOMAIN Code /\ CatchOf(t) > t
           /\ Code[CatchOf(t)].op = "catch_err" /\ Open(CatchOf(t)) = Open(t - 1)
           /\ \A j \in t .. CatchOf(t) - 1 : Open(j) > Open(t - 1)
<1> DEFINE low == {k \in t .. Len(Code) : Open(k) <= Open(t - 1)}
           c == Min(low)
           closing == {k \in Catches(t, Len(Code)) :
                         Cardinality(Tries(t, k)) = Cardinality(Catches(t, k))}
<1>1. /\ DOMAIN Code = 1 .. Len(Code) /\ Len(Code) \in Nat \ {0}
      /\ \A k \in 0 .. Len(Code) : Open(k) \in Nat
      /\ Open(Len(Code)) = 0 /\ Code[Len(Code)].op = "ret"
  BY OpenFacts
<1>2. t \in 1 .. Len(Code) /\ t - 1 \in 0 .. Len(Code)
  BY <1>1
<1>3. Open(t) = Open(t - 1) + 1
  <2>1. t \in Nat \ {0}
    BY <1>2
  <2>2. Open(t) = Open(t - 1) + 1 - 0 /\ Open(t - 1) \in Int
    BY <2>1, OpenSteps
  <2>. QED  BY <2>2
<1>4. c \in low /\ \A k \in low : c <= k
  <2>1. Len(Code) \in low
    BY <1>1, <1>2
  <2>2. low \subseteq Nat
    BY <1>2, <1>1
  <2>3. PICK m \in low : \A k \in low : m <= k
    BY <2>1, <2>2, LeastExists
  <2>4. c = m
    BY <2>2, <2>3, LeastIs
  <2>. QED  BY <2>3, <2>4
<1> HIDE DEF c
<1>5. c \in t .. Len(Code) /\ c # t /\ Open(c) <= Open(t - 1)
  BY <1>1, <1>2, <1>3, <1>4
<1>6. \A j \in t .. c - 1 : Open(j) > Open(t - 1)
  <2> SUFFICES ASSUME NEW j \in t .. c - 1 PROVE Open(j) > Open(t - 1)
    OBVIOUS
  <2>1. j \in t .. Len(Code) /\ j \in 0 .. Len(Code) /\ j \notin low
    BY <1>1, <1>2, <1>4, <1>5
  <2>. QED  BY <1>1, <1>2, <2>1
<1>7. Open(c) = Open(t - 1) /\ Code[c].op = "catch_err"
  <2>1. c - 1 \in t .. c - 1 /\ c \in Nat \ {0} /\ c \in 0 .. Len(Code)
        /\ c - 1 \in 0 .. Len(Code)
    BY <1>1, <1>2, <1>5
  <2>2. Open(c - 1) > Open(t - 1)
    BY <1>6, <2>1
  <2>3. /\ Open(c) \in Nat /\ Open(c - 1) \in Nat /\ Open(t - 1) \in Nat
        /\ Open(c) = Open(c - 1) + (IF Code[c].op = "try" THEN 1 ELSE 0)
                                 - (IF Code[c].op = "catch_err" THEN 1 ELSE 0)
    BY <1>1, <1>2, <2>1, OpenSteps
  <2>. QED  BY <1>5, <2>2, <2>3
<1>8. \A k \in t .. Len(Code) :
        k \in closing <=> Code[k].op = "catch_err" /\ Open(k) = Open(t - 1)
  <2> SUFFICES ASSUME NEW k \in t .. Len(Code)
               PROVE  k \in closing <=> Code[k].op = "catch_err" /\ Open(k) = Open(t - 1)
    OBVIOUS
  <2>1. /\ Cardinality(Tries(t, k)) - Cardinality(Catches(t, k)) = Open(k) - Open(t - 1)
        /\ Cardinality(Tries(t, k)) \in Nat /\ Cardinality(Catches(t, k)) \in Nat
        /\ Open(k) \in Int /\ Open(t - 1) \in Int
    <3>1. t \in Nat \ {0} /\ k \in Nat /\ t <= k + 1
      BY <1>1, <1>2
    <3>. QED  BY <3>1, OpenBetween
  <2>2. k \in Catches(t, Len(Code)) <=> Code[k].op = "catch_err"
    BY DEF Catches, CatchesIn
  <2>. QED  BY <2>1, <2>2
<1>9. closing \subseteq t .. Len(Code)
  BY DEF Catches, CatchesIn
<1>10. CatchOf(t) = c
  <2>1. c \in closing /\ closing \subseteq Nat
    BY <1>1, <1>2, <1>5, <1>7, <1>8, <1>9
  <2>2. \A k \in closing : c <= k
    <3> SUFFICES ASSUME NEW k \in closing PROVE c <= k
      OBVIOUS
    <3>1. k \in t .. Len(Code) /\ Open(k) = Open(t - 1)
      BY <1>8, <1>9
    <3>2. k \in low
      BY <1>1, <1>2, <3>1
    <3>. QED  BY <1>4, <3>2
  <2>3. Min(closing) = c
    BY <2>1, <2>2, LeastIs
  <2>. QED  BY <2>3 DEF CatchOf
<1>. QED  BY <1>1, <1>2, <1>5, <1>6, <1>7, <1>10

(* Behind an instruction at which a TRY is open, that TRY is written       *)
(* around it, and it is the last one before it that is.                    *)
LEMMA InnermostTry ==
    ASSUME FieldsOK, CodeInv, NEW s \in DOMAIN Code, Open(s) > 0
    PROVE  \E t \in Tries(1, s) :
             /\ Open(t - 1) = Open(s) - 1 /\ s < CatchOf(t)
             /\ \A u \in Tries(1, s) : s < CatchOf(u) => u <= t
<1> DEFINE above == {n \in 0 .. s - 1 : Open(s - n - 1) < Open(s)}
<1>1. /\ DOMAIN Code = 1 .. Len(Code) /\ Len(Code) \in Nat \ {0} /\ Open(0) = 0
      /\ \A k \in 0 .. Len(Code) : Open(k) \in Nat
  BY OpenFacts
<1>2. s \in 1 .. Len(Code)
  BY <1>1
<1>3. PICK n \in above : \A m \in above : n <= m
  <2>1. s - 1 \in 0 .. s - 1 /\ s - (s - 1) - 1 = 0
    BY <1>2
  <2>2. s - 1 \in above
    BY <1>1, <2>1
  <2>3. above \subseteq Nat
    OBVIOUS
  <2>. QED  BY <2>2, <2>3, LeastExists
<1> DEFINE t == s - n
<1>4. t \in 1 .. s /\ n = s - t /\ Open(t - 1) < Open(s) /\ t \in DOMAIN Code
  BY <1>1, <1>2, <1>3
<1> HIDE DEF t
<1>5. \A j \in t .. s : Open(j) >= Open(s)
  <2> SUFFICES ASSUME NEW j \in t .. s PROVE Open(j) >= Open(s)
    OBVIOUS
  <2>1. CASE j = s
    BY <1>1, <1>2, <2>1
  <2>2. CASE j # s
    <3>1. /\ j \in Nat /\ s \in Nat /\ t \in Nat /\ Len(Code) \in Nat
          /\ t <= j /\ j < s /\ t >= 1 /\ s <= Len(Code)
      BY <1>1, <1>2, <1>4, <2>2
    <3>2. s - j - 1 \in 0 .. s - 1 /\ s - (s - j - 1) - 1 = j
      BY <3>1
    <3>3. ~(s - t <= s - j - 1)
      BY <3>1
    <3>4. s - j - 1 \notin above
      BY <1>3, <1>4, <3>3
    <3>5. ~(Open(j) < Open(s))
      BY <3>2, <3>4
    <3>6. j \in 0 .. Len(Code) /\ s \in 0 .. Len(Code)
      BY <3>1
    <3>. QED  BY <1>1, <3>5, <3>6
  <2>. QED  BY <2>1, <2>2
<1> HIDE DEF above
<1>6. Code[t].op = "try" /\ Open(t - 1) = Open(s) - 1
  <2>1. t \in Nat \ {0} /\ t \in t .. s /\ t - 1 \in 0 .. Len(Code) /\ t \in 0 .. Len(Code)
        /\ s \in 0 .. Len(Code)
    BY <1>1, <1>2, <1>4
  <2>2. Open(t) = Open(t - 1) + (IF Code[t].op = "try" THEN 1 ELSE 0)
                              - (IF Code[t].op = "catch_err" THEN 1 ELSE 0)
    BY <2>1, OpenSteps
  <2>3. Open(t) >= Open(s) /\ Open(t) \in Nat /\ Open(t - 1) \in Nat /\ Open(s) \in Nat
    BY <1>1, <1>5, <2>1
  <2>. QED  BY <1>4, <2>2, <2>3
<1>7. t \in Tries(1, s)
  BY <1>4, <1>6 DEF Tries, TriesIn
<1>8. /\ CatchOf(t) \in DOMAIN Code /\ CatchOf(t) > t /\ Open(CatchOf(t)) = Open(t - 1)
  BY <1>4, <1>6, CatchCloses
<1>9. s < CatchOf(t)
  <2>1. CatchOf(t) \notin t .. s
    BY <1>4, <1>5, <1>8, <1>1
  <2>. QED  BY <1>1, <1>2, <1>4, <1>8, <2>1
<1>10. ASSUME NEW u \in Tries(1, s), s < CatchOf(u) PROVE u <= t
  <2>1. u \in 1 .. s /\ Code[u].op = "try" /\ u \in DOMAIN Code
    BY <1>1, <1>2 DEF Tries, TriesIn
  <2>2. /\ CatchOf(u) \in 1 .. Len(Code)
        /\ \A j \in u .. CatchOf(u) - 1 : Open(j) > Open(u - 1)
    BY <1>1, <2>1, CatchCloses
  <2>3. s \in u .. CatchOf(u) - 1
    BY <1>2, <1>10, <2>1, <2>2
  <2>4. Open(s) > Open(u - 1)
    BY <2>2, <2>3
  <2>5. ~(u > t)
    <3> SUFFICES ASSUME u > t PROVE FALSE
      OBVIOUS
    <3>1. u - 1 \in t .. s
      BY <1>1, <1>2, <1>4, <2>1
    <3>2. Open(u - 1) >= Open(s) /\ Open(u - 1) \in Nat /\ Open(s) \in Nat
      BY <1>1, <1>2, <1>5, <2>1, <3>1
    <3>. QED  BY <2>4, <3>2
  <2>. QED  BY <1>4, <2>1, <2>5
<1>. QED  BY <1>6, <1>7, <1>9, <1>10

(* The marked RET of a function is its last instruction.                   *)
LEMMA LastRetIs ==
    ASSUME FieldsOK, CodeInv, Last(Code).flag = TBASIC_RET_MARK_LAST
    PROVE  LastRet = Len(Code)
<1>1. WellFormed(Code) /\ DOMAIN Code = 1 .. Len(Code) /\ Len(Code) \in Nat \ {0}
  BY CodeFacts, OpenFacts DEF CodeInv, Code
<1>2. /\ Len(Code) \in DOMAIN Code /\ Code[Len(Code)].op = "ret"
      /\ Code[Len(Code)].flag = TBASIC_RET_MARK_LAST
  BY <1>1 DEF WellFormed, Last
<1>3. \A k \in DOMAIN Code :
        Code[k].op = "ret" /\ Code[k].flag = TBASIC_RET_MARK_LAST => k = Len(Code)
  BY <1>1 DEF WellFormed
<1>. QED  BY <1>2, <1>3 DEF LastRet

(* The scan behind an instruction, with the flag set, ends where it should.*)
LEMMA ScanIsRight ==
    ASSUME FieldsOK, CodeInv, trying_except = TRUE,
           Last(Code).flag = TBASIC_RET_MARK_LAST,
           NEW s \in Nat \ {0}, s + 1 \in DOMAIN Code
    PROVE  HandlerFrom(s + 1) = RightHandler(s)
<1> DEFINE open(k) == (IF trying_except THEN 1 ELSE 0)
                        + Cardinality(Tries(s + 1, k)) - Cardinality(Catches(s + 1, k))
           closing == {k \in Catches(s + 1, Len(Code)) : open(k) = 0}
           enclosing == {t \in Tries(1, s) : s < CatchOf(t)}
<1>1. /\ DOMAIN Code = 1 .. Len(Code) /\ Len(Code) \in Nat \ {0} /\ Open(Len(Code)) = 0
      /\ \A k \in 0 .. Len(Code) : Open(k) \in Nat
      /\ LastRet = Len(Code) /\ Code[Len(Code)].op = "ret"
  BY OpenFacts, LastRetIs
<1>2. s \in 1 .. Len(Code) - 1 /\ s \in DOMAIN Code /\ Open(s) \in Nat
  BY <1>1
<1>3. \A k \in s + 1 .. Len(Code) :
        k \in closing <=> Code[k].op = "catch_err" /\ Open(k) = Open(s) - 1
  <2> SUFFICES ASSUME NEW k \in s + 1 .. Len(Code)
               PROVE  k \in closing <=> Code[k].op = "catch_err" /\ Open(k) = Open(s) - 1
    OBVIOUS
  <2>1. /\ Cardinality(Tries(s + 1, k)) - Cardinality(Catches(s + 1, k)) = Open(k) - Open(s)
        /\ Cardinality(Tries(s + 1, k)) \in Nat /\ Cardinality(Catches(s + 1, k)) \in Nat
        /\ Open(k) \in Int /\ Open(s) \in Int
    <3>1. s + 1 \in Nat \ {0} /\ k \in Nat /\ s + 1 <= k + 1 /\ (s + 1) - 1 = s
      BY <1>1, <1>2
    <3>2. /\ Cardinality(Tries(s + 1, k)) - Cardinality(Catches(s + 1, k))
               = Open(k) - Open((s + 1) - 1)
          /\ Cardinality(Tries(s + 1, k)) \in Nat /\ Cardinality(Catches(s + 1, k)) \in Nat
          /\ Open(k) \in Int /\ Open((s + 1) - 1) \in Int
      BY <3>1, OpenBetween
    <3>. QED  BY <3>1, <3>2
  <2>2. k \in Catches(s + 1, Len(Code)) <=> Code[k].op = "catch_err"
    BY DEF Catches, CatchesIn
  <2>. QED  BY <2>1, <2>2
<1>4. closing \subseteq s + 1 .. Len(Code)
  BY DEF Catches, CatchesIn
<1>5. HandlerFrom(s + 1) = Min({LastRet} \cup closing)
  BY DEF HandlerFrom
<1>6. RightHandler(s) = IF enclosing = {} THEN LastRet ELSE CatchOf(Max(enclosing))
  BY DEF RightHandler
<1> HIDE DEF closing, open
<1>7. CASE Open(s) = 0
  <2>1. closing = {}
    <3> SUFFICES ASSUME NEW k \in closing PROVE FALSE
      OBVIOUS
    <3>1. k \in s + 1 .. Len(Code) /\ Open(k) = 0 - 1
      BY <1>3, <1>4, <1>7
    <3>2. k \in 0 .. Len(Code)
      BY <1>2, <3>1
    <3>. QED  BY <1>1, <3>1, <3>2
  <2>2. enclosing = {}
    <3> SUFFICES ASSUME NEW t \in Tries(1, s), s < CatchOf(t) PROVE FALSE
      OBVIOUS
    <3>1. t \in 1 .. s /\ Code[t].op = "try" /\ t \in DOMAIN Code
      BY <1>1, <1>2 DEF Tries, TriesIn
    <3>2. /\ CatchOf(t) \in 1 .. Len(Code)
          /\ \A j \in t .. CatchOf(t) - 1 : Open(j) > Open(t - 1)
      BY <1>1, <3>1, CatchCloses
    <3>3. s \in t .. CatchOf(t) - 1 /\ t - 1 \in 0 .. Len(Code)
      BY <1>2, <3>1, <3>2
    <3>4. Open(s) > Open(t - 1) /\ Open(t - 1) \in Nat
      BY <1>1, <3>2, <3>3
    <3>. QED  BY <1>7, <3>4
  <2>3. Min({LastRet}) = LastRet
    <3>1. /\ {LastRet} \subseteq Nat /\ LastRet \in {LastRet}
          /\ \A y \in {LastRet} : LastRet <= y
      BY <1>1
    <3>. QED  BY <3>1, LeastIs
  <2>. QED  BY <1>5, <1>6, <2>1, <2>2, <2>3
<1>8. CASE Open(s) > 0
  <2>1. PICK t \in Tries(1, s) :
             /\ Open(t - 1) = Open(s) - 1 /\ s < CatchOf(t)
             /\ \A u \in Tries(1, s) : s < CatchOf(u) => u <= t
    BY <1>2, <1>8, InnermostTry
  <2>2. t \in 1 .. s /\ Code[t].op = "try" /\ t \in DOMAIN Code
    BY <1>1, <1>2, <2>1 DEF Tries, TriesIn
  <2>3. /\ CatchOf(t) \in 1 .. Len(Code) /\ Code[CatchOf(t)].op = "catch_err"
        /\ Open(CatchOf(t)) = Open(s) - 1
        /\ \A j \in t .. CatchOf(t) - 1 : Open(j) > Open(s) - 1
    BY <1>1, <2>1, <2>2, CatchCloses
  <2>4. RightHandler(s) = CatchOf(t)
    <3>1. t \in enclosing /\ enclosing \subseteq Nat
      BY <1>2, <2>1 DEF Tries, TriesIn
    <3>2. \A u \in enclosing : t >= u
      BY <2>1, <2>2, <3>1
    <3>3. Max(enclosing) = t
      BY <3>1, <3>2, GreatestIs
    <3>. QED  BY <1>6, <3>1, <3>3
  <2>5. CatchOf(t) \in closing
    BY <1>2, <1>3, <2>1, <2>3
  <2>6. ASSUME NEW k \in {LastRet} \cup closing PROVE CatchOf(t) <= k
    <3>1. CASE k = LastRet
      BY <1>1, <2>3, <3>1
    <3>2. CASE k \in closing
      <4>1. k \in s + 1 .. Len(Code) /\ Open(k) = Open(s) - 1
        BY <1>3, <1>4, <3>2
      <4>2. k \notin t .. CatchOf(t) - 1
        BY <1>2, <2>3, <4>1
      <4>. QED  BY <1>2, <2>2, <2>3, <4>1, <4>2
    <3>. QED  BY <3>1, <3>2
  <2>7. {LastRet} \cup closing \subseteq Nat
    <3>1. \A k \in s + 1 .. Len(Code) : k \in Nat
      BY <1>2
    <3>. QED  BY <1>1, <1>4, <3>1
  <2>8. Min({LastRet} \cup closing) = CatchOf(t)
    BY <2>5, <2>6, <2>7, LeastIs
  <2>. QED  BY <1>5, <2>4, <2>8
<1>. QED  BY <1>2, <1>7, <1>8

(* A THROW itself neither opens nor closes a TRY.                          *)
LEMMA ScanFromThrow ==
    ASSUME FieldsOK, CodeInv, ip \in Nat, Code[ip].op = "raise_err"
    PROVE  HandlerFrom(ip) = HandlerFrom(ip + 1)
<1>1. \A k : Tries(ip, k) = Tries(ip + 1, k) /\ Catches(ip, k) = Catches(ip + 1, k)
  <2> SUFFICES ASSUME NEW k
               PROVE  /\ \A j \in ip .. k : j # ip => j \in ip + 1 .. k
                      /\ ip + 1 .. k \subseteq ip .. k
    BY DEF Tries, TriesIn, Catches, CatchesIn
  <2>. QED  OBVIOUS
<1> DEFINE closing(from) ==
             {k \in Catches(from, Len(Code)) :
                (IF trying_except THEN 1 ELSE 0)
                  + Cardinality(Tries(from, k)) - Cardinality(Catches(from, k)) = 0}
<1>2. closing(ip) = closing(ip + 1)
  BY <1>1
<1>3. \A from : HandlerFrom(from) = Min({LastRet} \cup closing(from))
  BY DEF HandlerFrom
<1>. QED  BY <1>2, <1>3

-----------------------------------------------------------------------------
(* The kinds of steps: what each leaves of the control state               *)

Inside(k) == InChunk(chunk, k) /\ prgm[chunk][k].op # "catch_err"

(* A handler that goes on in the same code.                                *)
Advances ==
    /\ run = "exec" /\ Dispatches /\ Code[ip].op \notin {"catch_err", "ret"}
    /\ Inside(ip')
    /\ sp' \in Int
    /\ \/ status' \in {status, "pending"} /\ unanswered' = unanswered
       \/ status' = "ok" /\ unanswered' = TRUE
    /\ UNCHANGED <<frame_vars, mode_vars, lost, wrapped, in_flight>>

Throws ==
    /\ run = "exec" /\ Dispatches /\ Code[ip].op = "raise_err"
    /\ InChunk(chunk, ip') /\ prgm[chunk][ip'].op \in {"catch_err", "ret"}
    /\ IsHandler(prgm[chunk][ip'])
    /\ sp' \in Int
    /\ status' = "err_throw" /\ in_flight' = TRUE
    /\ UNCHANGED <<frame_vars, mode_vars, lost, wrapped, unanswered>>

Seeks_ ==
    /\ run = "exec" /\ dispatcher = "vm_seek_catch"
    /\ InChunk(chunk, ip') /\ prgm[chunk][ip'].op \in {"catch_err", "ret"}
    /\ IsHandler(prgm[chunk][ip'])
    /\ dispatcher' = "vm_dispatch"
    /\ UNCHANGED <<frame_vars, sp, status, in_flight, run, retval, history_vars>>

Catches_ ==
    /\ run = "exec" /\ Dispatches /\ Code[ip].op = "catch_err" /\ ip > 2
    /\ Inside(ip')
    /\ status' = "pending" /\ in_flight' = FALSE
    /\ UNCHANGED <<frame_vars, mode_vars, sp, lost, wrapped, unanswered>>

Enters ==
    /\ run = "exec" /\ Dispatches /\ Code[ip].op = "call"
    /\ \E frame \in FrameSet :
         /\ ReturnsTo(frame) /\ frame.bp = bp /\ frame.slot = bp'
         /\ frames' = Append(frames, frame)
    /\ chunk' \in DOMAIN prgm /\ ip' = 1 /\ bp' \in Int
    /\ depth' = (depth + 1) % DepthValues
    /\ wrapped' = (wrapped \/ depth' = 0)
    /\ UNCHANGED <<prgm, sp, status, in_flight, mode_vars, host_vars, lost, unanswered>>

Fails ==
    /\ run = "exec" /\ Dispatches /\ Code[ip].op \notin {"catch_err", "ret"}
    /\ run' = "return"
    /\ retval' \in {"err_bad_call", "err_bad_op", "err_abort"}
    /\ status' \in {status, "err_bad_op", "err_abort"}
    /\ lost' = lost + 1
    /\ sp' \in Int
    /\ UNCHANGED <<frame_vars, ip, dispatcher, in_flight, wrapped, unanswered>>

Crashes ==
    /\ run' = "crashed"
    /\ UNCHANGED <<frame_vars, ip, sp, status, in_flight, dispatcher, retval, history_vars>>

(* What follows an instruction, and where it jumps, is inside the chunk.   *)
LEMMA Onward ==
    ASSUME FieldsOK, CodeInv
    PROVE  /\ Code[ip].op \notin {"ret", "jmp"} => Inside(ip + 1)
           /\ Code[ip].op \in Jumps => Inside(Target(Code, ip))
           /\ ip \in Nat /\ Code[ip].wide \in Int /\ Code[ip].flag \in Int
<1>1. WellFormed(Code) /\ ip \in DOMAIN Code /\ InChunk(chunk, ip)
  BY CodeFacts DEF CodeInv, Code, InChunk
<1>2. ip \in Nat /\ Code[ip].wide \in Int /\ Code[ip].flag \in Int
  BY <1>1, CodeFacts DEF Code
<1>3. Code[ip].op \notin {"ret", "jmp"} => Inside(ip + 1)
  BY <1>1, NextInside DEF Code, Inside
<1>4. Code[ip].op \in Jumps => Inside(Target(Code, ip))
  BY <1>1 DEF WellFormed, Inside, InChunk, Code
<1> QED BY <1>2, <1>3, <1>4

(* The handlers that go on in the same code.                               *)
Plain ==
    \/ PutNone \/ PutBool \/ PutK \/ LoadImmGid \/ LoadLocal \/ GetGvar
    \/ LoadErrRef \/ LoadStringK \/ ChkNone \/ Compute \/ BitNot \/ Nop \/ Reserve
    \/ Pop \/ StoreLocal \/ SetGvar \/ Jmp \/ JmpFalse \/ JmpIf
    \/ MkClosure \/ GetUpv \/ SetUpv \/ MkList \/ GetIdx \/ SetIdx
    \/ BindLstmp \/ GbindLstmp \/ NativeCall \/ NativeGivesUp \/ Try
    \/ CallList \/ AssertHolds

(* The instructions that neither call, return nor throw only move the      *)
(* instruction pointer.                                                    *)
LEMMA PlainAdvances ==
    ASSUME FieldsOK, CodeInv, Plain
    PROVE  Advances
<1> USE Onward DEF Step, GoTo, At, Wide, error_vars
<1>0. sp \in Int
  BY DEF FieldsOK
<1>1. CASE PutNone
  BY <1>0, <1>1 DEF PutNone, Pushes, Push, Advances
<1>2. CASE PutBool
  BY <1>0, <1>2 DEF PutBool, Pushes, Push, Advances
<1>3. CASE PutK
  BY <1>0, <1>3 DEF PutK, Pushes, Push, Advances
<1>4. CASE LoadImmGid
  BY <1>0, <1>4 DEF LoadImmGid, Pushes, Push, Advances
<1>5. CASE LoadLocal
  BY <1>0, <1>5 DEF LoadLocal, Pushes, Push, Advances
<1>6. CASE GetGvar
  BY <1>0, <1>6 DEF GetGvar, Pushes, Push, Advances
<1>7. CASE LoadErrRef
  BY <1>0, <1>7 DEF LoadErrRef, Pushes, Push, Advances
<1>8. CASE LoadStringK
  BY <1>0, <1>8 DEF LoadStringK, Pushes, Push, Advances
<1>9. CASE ChkNone
  BY <1>0, <1>9 DEF ChkNone, Pushes, Push, Advances
<1>10. CASE Compute
  BY <1>0, <1>10 DEF Compute, Computations, Operations, BitOperations, Comparisons, Advances
<1>11. CASE BitNot
  BY <1>0, <1>11 DEF BitNot, Advances
<1>12. CASE Nop
  BY <1>0, <1>12 DEF Nop, Advances
<1>13. CASE Reserve
  BY <1>0, <1>13 DEF Reserve, Advances
<1>14. CASE Pop
  BY <1>0, <1>14 DEF Pop, Advances
<1>15. CASE StoreLocal
  BY <1>0, <1>15 DEF StoreLocal, Stores, Advances
<1>16. CASE SetGvar
  BY <1>0, <1>16 DEF SetGvar, Stores, Advances
<1>17. CASE Jmp
  BY <1>0, <1>17 DEF Jmp, Jumps, Target, Advances
<1>18. CASE JmpFalse
  BY <1>0, <1>18 DEF JmpFalse, Branch, Jumps, Target, Advances
<1>19. CASE JmpIf
  BY <1>0, <1>19 DEF JmpIf, Branch, Jumps, Target, Advances
<1>20. CASE MkClosure
  BY <1>0, <1>20 DEF MkClosure, Advances
<1>21. CASE GetUpv
  BY <1>0, <1>21 DEF GetUpv, Pushes, Push, Advances
<1>22. CASE SetUpv
  BY <1>0, <1>22 DEF SetUpv, Advances
<1>23. CASE MkList
  BY <1>0, <1>23 DEF MkList, Advances
<1>24. CASE GetIdx
  BY <1>0, <1>24 DEF GetIdx, Advances
<1>25. CASE SetIdx
  BY <1>0, <1>25 DEF SetIdx, Advances
<1>26. CASE BindLstmp
  BY <1>0, <1>26 DEF BindLstmp, Binds, Advances
<1>27. CASE GbindLstmp
  BY <1>0, <1>27 DEF GbindLstmp, Binds, Advances
<1>28. CASE NativeCall
  BY <1>0, <1>28 DEF NativeCall, Push, Advances
<1>29. CASE NativeGivesUp
  BY <1>0, <1>29 DEF NativeGivesUp, Advances
<1>30. CASE Try
  BY <1>0, <1>30 DEF Try, Advances
<1>31. CASE CallList
  BY <1>0, <1>31 DEF CallList, Advances
<1>32. CASE AssertHolds
  BY <1>0, <1>32 DEF AssertHolds, Advances
<1> QED
  BY <1>1, <1>2, <1>3, <1>4, <1>5, <1>6, <1>7, <1>8, <1>9, <1>10, <1>11, <1>12,
     <1>13, <1>14, <1>15, <1>16, <1>17, <1>18, <1>19, <1>20, <1>21, <1>22, <1>23,
     <1>24, <1>25, <1>26, <1>27, <1>28, <1>29, <1>30, <1>31, <1>32, Zenon
     DEF Plain

(* RAISE_ERR records an error.                                             *)
LEMMA RaiseErrThrows ==
    ASSUME FieldsOK, CodeInv, RaiseErr
    PROVE  Throws
<1>1. WellFormed(Code) /\ ip \in DOMAIN Code
  BY CodeFacts DEF CodeInv, Code, InChunk
<1>2. At("raise_err")
  BY DEF RaiseErr
<1>3. Last(Code).flag = TBASIC_RET_MARK_LAST
  <2>1. CASE Code[1].op = "native_call" /\ Len(Code) = 2
    <3>1. DOMAIN Code = 1 .. 2 /\ Code[2].op = "ret"
      BY <1>1, <2>1 DEF WellFormed, Last
    <3>2. ip \in 1 .. 2
      BY <1>1, <3>1
    <3> QED BY <1>2, <2>1, <3>1, <3>2 DEF At
  <2> QED BY <1>1, <2>1 DEF WellFormed
<1>4. /\ HandlerFrom(ip) \in DOMAIN Code
      /\ Code[HandlerFrom(ip)].op \in {"catch_err", "ret"}
      /\ IsHandler(Code[HandlerFrom(ip)])
  BY <1>1, <1>3, HandlerInside
<1>5. ip' = HandlerFrom(ip)
  BY DEF RaiseErr, Step, GoTo
<1>6. sp' \in Int
  BY DEF RaiseErr, FieldsOK
<1>7. /\ InChunk(chunk, ip') /\ prgm[chunk][ip'].op \in {"catch_err", "ret"}
      /\ IsHandler(prgm[chunk][ip'])
  BY <1>4, <1>5 DEF Code, InChunk, CodeInv
<1> QED BY <1>2, <1>6, <1>7 DEF RaiseErr, At, Step, GoTo, Throws

(* SEEK_CATCH begins a search.                                             *)
LEMMA SeekCatchSeeks ==
    ASSUME FieldsOK, CodeInv, SeekCatch
    PROVE  Seeks_
<1>1. WellFormed(Code) /\ ip \in DOMAIN Code
  BY CodeFacts DEF CodeInv, Code, InChunk
<1>2. dispatcher = "vm_seek_catch" /\ ip > 2
  <2>1. ip \in Nat
    BY Onward
  <2> QED BY <2>1 DEF SeekCatch, Dispatches, FieldsOK
<1>3. Last(Code).flag = TBASIC_RET_MARK_LAST
  <2>1. DOMAIN Code = 1 .. Len(Code) /\ Len(Code) \in Nat
    BY CodeFacts DEF CodeInv, Code
  <2>2. Len(Code) # 2
    BY <1>1, <1>2, <2>1
  <2> QED BY <1>1, <2>2 DEF WellFormed
<1>4. /\ HandlerFrom(ip) \in DOMAIN Code
      /\ Code[HandlerFrom(ip)].op \in {"catch_err", "ret"}
      /\ IsHandler(Code[HandlerFrom(ip)])
  BY <1>1, <1>3, HandlerInside
<1>5. /\ InChunk(chunk, ip') /\ prgm[chunk][ip'].op \in {"catch_err", "ret"}
      /\ IsHandler(prgm[chunk][ip'])
  BY <1>4 DEF Code, InChunk, CodeInv, SeekCatch
<1> QED BY <1>2, <1>5 DEF SeekCatch, Sought, error_vars, history_vars, Seeks_

(* CATCH_ERR ends one.                                                     *)
LEMMA CatchErrCatches ==
    ASSUME FieldsOK, CodeInv, CatchErr
    PROVE  Catches_
<1>1. WellFormed(Code) /\ ip \in DOMAIN Code
  BY CodeFacts DEF CodeInv, Code, InChunk
<1>2. At("catch_err")
  BY DEF CatchErr
<1>3. Inside(ip + 1) /\ ip \in Nat
  BY <1>2, Onward DEF At
<1>4. ip > 2
  <2>1. DOMAIN Code = 1 .. Len(Code) /\ Len(Code) \in Nat
    BY CodeFacts DEF CodeInv, Code
  <2>2. Code[1].op \in {"reserve", "native_call"}
    BY <1>1 DEF WellFormed
  <2>3. Code[ip].op = "catch_err" /\ Code[ip - 1].op = "jmp"
    BY <1>1, <1>2 DEF WellFormed, At
  <2>4. ip # 1
    BY <2>2, <2>3
  <2>5. ip # 2
    BY <2>2, <2>3
  <2>6. ip >= 1
    BY <1>1, <2>1
  <2> QED BY <1>3, <2>4, <2>5, <2>6
<1> QED BY <1>2, <1>3, <1>4 DEF CatchErr, CaughtStatus, At, Step, GoTo, Catches_

(* A call enters a chunk with a new frame.                                 *)
LEMMA CallEnters ==
    ASSUME FieldsOK, CodeInv, Call \/ CallClosure
    PROVE  Enters
<1>1. /\ At("call")
      /\ \E kind \in {"call", "closure"}, callee_chunk \in DOMAIN prgm :
           Enter(kind, callee_chunk)
  BY DEF Call, CallClosure, Enter
<1>2. PICK kind \in {"call", "closure"}, callee_chunk \in DOMAIN prgm :
        Enter(kind, callee_chunk)
  BY <1>1
<1>3. /\ Inside(ip + 1) /\ ip \in Nat \ {0} /\ Wide \in Int
      /\ chunk \in Nat /\ sp \in Int /\ bp \in Int
  BY <1>1, Onward, CodeFacts DEF At, CodeInv, FieldsOK, Wide
<1>4. ip + 1 > 2
  <2>1. Code[1].op \in {"reserve", "native_call"}
    BY CodeFacts DEF CodeInv, Code, WellFormed
  <2>2. ip # 1
    BY <1>1, <2>1 DEF At
  <2> QED BY <1>3, <2>2
<1>5. Frame(kind, Wide) \in FrameSet
  BY <1>3 DEF Frame, FrameSet, CalleeBp
<1>6. ReturnsTo(Frame(kind, Wide))
  BY <1>3, <1>4 DEF ReturnsTo, Frame, Inside
<1>7. Frame(kind, Wide).bp = bp /\ Frame(kind, Wide).slot = bp'
  BY <1>2 DEF Frame, Enter
<1>8. bp' \in Int
  BY <1>2, <1>3 DEF Enter, CalleeBp
<1> QED
  BY <1>1, <1>2, <1>5, <1>6, <1>7, <1>8
     DEF Enter, At, error_vars, Enters

(* A failed call, index or bind stops the program with its status.         *)
LEMMA FailureFails ==
    ASSUME FieldsOK, CodeInv, BadCall \/ BadIndex \/ BadBind \/ AbortFails
    PROVE  Fails
<1> USE DEF Fail, At, error_vars, FieldsOK
<1>1. CASE BadCall
  BY <1>1 DEF BadCall, Fails
<1>2. CASE BadIndex
  BY <1>2 DEF BadIndex, Fails
<1>3. CASE BadBind
  BY <1>3 DEF BadBind, Fails
<1>4. CASE AbortFails
  BY <1>4 DEF AbortFails, Fails
<1> QED BY <1>1, <1>2, <1>3, <1>4

(* A crash ends the behaviour.                                             *)
LEMMA CrashCrashes ==
    Crash => Crashes
BY DEF Crash, Crashes, error_vars

(* Every step is of one of these kinds.                                    *)
LEMMA StepKinds ==
    ASSUME FieldsOK, CodeInv, Next
    PROVE  \/ Advances \/ Throws \/ Seeks_ \/ Catches_ \/ Enters \/ Fails \/ Crashes
           \/ Ret \/ Unwind \/ Halt \/ Invoke \/ UNCHANGED vars
<1>1. \/ Plain \/ RaiseErr \/ SeekCatch \/ CatchErr \/ Call \/ CallClosure
      \/ BadCall \/ BadIndex \/ BadBind \/ AbortFails \/ Crash
      \/ Ret \/ Unwind \/ Halt \/ Invoke \/ Over
  BY Zenon DEF Next, Plain
<1> QED
  BY <1>1, PlainAdvances, RaiseErrThrows, SeekCatchSeeks, CatchErrCatches,
     CallEnters, FailureFails, CrashCrashes DEF Over

(* Only RAISE_ERR and SEEK_CATCH look for a handler.                       *)
LEMMA SeekersSeek ==
    ASSUME Next, Seeks
    PROVE  RaiseErr \/ SeekCatch
<1> USE DEF Seeks, At
<1>1. \/ Plain \/ RaiseErr \/ SeekCatch \/ CatchErr \/ Call \/ CallClosure
      \/ BadCall \/ BadIndex \/ BadBind \/ AbortFails \/ Crash
      \/ Ret \/ Unwind \/ Halt \/ Invoke \/ Over
  BY Zenon DEF Next, Plain
<1>2. ~Plain
  <2>1. ~(PutNone \/ PutBool \/ PutK \/ LoadImmGid \/ LoadLocal \/ GetGvar \/ LoadErrRef
            \/ LoadStringK \/ ChkNone)
    BY DEF PutNone, PutBool, PutK, LoadImmGid, LoadLocal, GetGvar, LoadErrRef, LoadStringK,
           ChkNone, Pushes
  <2>2. ~(Compute \/ BitNot \/ Nop \/ Reserve \/ Pop \/ StoreLocal \/ SetGvar)
    BY DEF Compute, Computations, Operations, BitOperations, Comparisons, BitNot, Nop,
           Reserve, Pop, StoreLocal, SetGvar, Stores
  <2>3. ~(Jmp \/ JmpFalse \/ JmpIf \/ MkClosure \/ GetUpv \/ SetUpv \/ MkList)
    <3>1. ~(Jmp \/ JmpFalse \/ JmpIf)
      BY DEF Jmp, JmpFalse, JmpIf, Branch
    <3>2. ~(MkClosure \/ MkList)
      BY DEF MkClosure, MkList
    <3>3. ~(GetUpv \/ SetUpv)
      BY DEF GetUpv, SetUpv, Pushes
    <3>. QED  BY <3>1, <3>2, <3>3
  <2>4. ~(GetIdx \/ SetIdx \/ BindLstmp \/ GbindLstmp \/ NativeCall \/ NativeGivesUp \/ Try)
    BY DEF GetIdx, SetIdx, BindLstmp, GbindLstmp, Binds, NativeCall, NativeGivesUp, Try
  <2>5. ~(CallList \/ AssertHolds)
    BY DEF CallList, AssertHolds
  <2>. QED  BY <2>1, <2>2, <2>3, <2>4, <2>5 DEF Plain
<1>3. ~(CatchErr \/ Call \/ CallClosure \/ BadCall \/ BadIndex \/ BadBind \/ AbortFails)
  BY DEF CatchErr, Call, CallClosure, BadCall, BadIndex, BadBind, AbortFails
<1>4. ~(Crash \/ Ret \/ Unwind \/ Halt \/ Invoke \/ Over)
  BY DEF Crash, Ret, Unwind, Halt, Invoke, Over
<1>. QED  BY <1>1, <1>2, <1>3, <1>4

-----------------------------------------------------------------------------
(* The calls on the C stack                                                *)

LEMMA FramesPushed ==
    ASSUME frames \in Seq(FrameSet), NEW frame \in FrameSet,
           frames' = Append(frames, frame)
    PROVE  /\ frames' \in Seq(FrameSet) /\ frames' # <<>>
           /\ Len(frames) \in Nat /\ Len(frames') = Len(frames) + 1
           /\ DOMAIN frames = 1 .. Len(frames) /\ DOMAIN frames' = 1 .. Len(frames) + 1
           /\ \A n \in DOMAIN frames : frames'[n] = frames[n]
           /\ Last(frames') = frame /\ frames'[Len(frames) + 1] = frame
BY DEF Last

(* What is left when a frame is popped.                                    *)
LEMMA FramesPopped ==
    ASSUME frames \in Seq(FrameSet), frames # <<>>, frames' = Front(frames)
    PROVE  /\ frames' \in Seq(FrameSet)
           /\ Len(frames) \in Nat \ {0} /\ Len(frames') = Len(frames) - 1
           /\ DOMAIN frames = 1 .. Len(frames) /\ DOMAIN frames' = 1 .. Len(frames) - 1
           /\ frames' = <<>> <=> Len(frames) = 1
           /\ \A n \in DOMAIN frames' : frames'[n] = frames[n]
           /\ Last(frames) = frames[Len(frames)] /\ Len(frames) \in DOMAIN frames
           /\ Last(frames) \in FrameSet
<1>1. Len(frames) \in Nat \ {0} /\ DOMAIN frames = 1 .. Len(frames)
  OBVIOUS
<1>2. /\ frames' \in Seq(FrameSet) /\ Len(frames') = Len(frames) - 1
      /\ \A n \in 1 .. Len(frames) - 1 : frames'[n] = frames[n]
  BY <1>1 DEF Front
<1>3. DOMAIN frames' = 1 .. Len(frames) - 1
  BY <1>1, <1>2
<1>4. frames' = <<>> <=> Len(frames) = 1
  BY <1>1, <1>2
<1>5. frames[Len(frames)] \in FrameSet
  BY <1>1
<1> QED BY <1>1, <1>2, <1>3, <1>4, <1>5 DEF Last

-----------------------------------------------------------------------------
(* The inductive invariant                                                 *)

IInv ==
    /\ FieldsOK /\ CodeInv /\ BaseInv /\ DepthInv /\ CatchInv /\ SeekInv
    /\ CountInv /\ OutcomeInv

(* Every step keeps the fields in range ...                                *)
LEMMA NextFieldsOK ==
    ASSUME FieldsOK, CodeInv, Next
    PROVE  FieldsOK'
<1> USE VMAssumption DEF FieldsOK
<1>1. CASE Advances
  BY <1>1 DEF Advances, frame_vars, mode_vars, host_vars
<1>2. CASE Throws
  BY <1>2 DEF Throws, frame_vars, mode_vars, host_vars
<1>3. CASE Seeks_
  BY <1>3 DEF Seeks_, frame_vars, history_vars, host_vars
<1>4. CASE Catches_
  BY <1>4 DEF Catches_, frame_vars, mode_vars, host_vars
<1>5. CASE Enters
  <2>1. PICK frame \in FrameSet : frames' = Append(frames, frame)
    BY <1>5 DEF Enters
  <2>2. frames' \in Seq(FrameSet)
    BY <2>1, FramesPushed
  <2>3. depth' \in 0 .. DepthValues - 1
    BY <1>5, ModSteps DEF Enters
  <2> QED BY <1>5, <2>2, <2>3 DEF Enters, mode_vars, host_vars
<1>6. CASE Fails
  BY <1>6 DEF Fails, frame_vars, host_vars
<1>7. CASE Crashes
  BY <1>7 DEF Crashes, frame_vars, history_vars, host_vars
<1>8. CASE Ret
  <2>1. depth' \in 0 .. DepthValues - 1
    <3>1. depth' = (depth - 1) % DepthValues
      BY <1>8 DEF Ret, Left
    <3> QED BY <3>1, Z3
  <2>2. sp' \in Int /\ bp' \in Int
    BY <1>8 DEF Ret
  <2> QED BY <1>8, <2>1, <2>2 DEF Ret, At, error_vars, history_vars, host_vars
<1>9. CASE Unwind
  <2>1. frames' \in Seq(FrameSet) /\ Last(frames) \in FrameSet
    BY <1>9, FramesPopped DEF Unwind
  <2>2. sp' \in Int /\ bp' \in Int
    BY <1>9, <2>1 DEF Unwind, CallerBp, FrameSet
  <2>3. run' \in {"exec", "return"} /\ lost' \in Nat
    BY <1>9 DEF Unwind
  <2> QED BY <1>9, <2>1, <2>2, <2>3 DEF Unwind, error_vars, host_vars
<1>10. CASE Halt
  BY <1>10 DEF Halt, frame_vars, error_vars, history_vars, host_vars
<1>11. CASE Invoke
  <2>1. sp' \in Int
    BY <1>11 DEF Invoke
  <2>2. depth' \in 0 .. DepthValues - 1
    BY <1>11 DEF Invoke, RestartDepth
  <2>3. /\ run' = "exec" /\ bp' = 0 /\ lost' = 0
        /\ UNCHANGED <<prgm, dispatcher, frames>>
    BY <1>11 DEF Invoke
  <2>4. invocation' = 2
    BY <1>11 DEF Invoke
  <2>5. /\ wrapped' \in BOOLEAN /\ unanswered' \in BOOLEAN
        /\ carried' \in BOOLEAN /\ in_flight' \in BOOLEAN
    BY <1>11 DEF Invoke
  <2>6. invocation' \in 1 .. 2 /\ invocation' # 1
    BY <2>4
  <2> QED BY <2>1, <2>2, <2>3, <2>5, <2>6
<1>12. CASE UNCHANGED vars
  BY <1>12 DEF vars, host_vars
<1> QED
  BY StepKinds, <1>1, <1>2, <1>3, <1>4, <1>5, <1>6, <1>7, <1>8, <1>9, <1>10, <1>11, <1>12

(* ... every instruction pointer inside its chunk ...                      *)
LEMMA NextCodeInv ==
    ASSUME FieldsOK, CodeInv, Next
    PROVE  CodeInv'
<1> USE DEF CodeInv, InChunk, ReturnsTo
<1>1. CASE Advances
  BY <1>1 DEF Advances, Inside, frame_vars
<1>2. CASE Throws
  BY <1>2 DEF Throws, frame_vars
<1>3. CASE Seeks_
  BY <1>3 DEF Seeks_, frame_vars
<1>4. CASE Catches_
  BY <1>4 DEF Catches_, Inside, frame_vars
<1>5. CASE Enters
  <2>1. PICK frame \in FrameSet : ReturnsTo(frame) /\ frames' = Append(frames, frame)
    BY <1>5 DEF Enters
  <2>2. \A n \in DOMAIN frames' : ReturnsTo(frames'[n])
    BY <2>1, FramesPushed DEF FieldsOK
  <2>3. InChunk(chunk', 1) /\ ip' = 1 /\ prgm' = prgm
    BY <1>5, FirstInside DEF Enters
  <2> QED BY <2>2, <2>3
<1>6. CASE Fails
  BY <1>6 DEF Fails, frame_vars
<1>7. CASE Crashes
  BY <1>7 DEF Crashes, frame_vars
<1>8. CASE Ret
  BY <1>8 DEF Ret
<1>9. CASE Unwind
  <2>1. /\ frames \in Seq(FrameSet) /\ frames # <<>> /\ frames' = Front(frames)
        /\ chunk' = Last(frames).chunk /\ ip' = Last(frames).ip /\ prgm' = prgm
    BY <1>9 DEF Unwind, FieldsOK
  <2>2. ReturnsTo(Last(frames))
    BY <2>1, FramesPopped
  <2>3. \A n \in DOMAIN frames' : ReturnsTo(frames'[n])
    BY <2>1, FramesPopped
  <2> QED BY <2>1, <2>2, <2>3
<1>10. CASE Halt
  BY <1>10 DEF Halt, frame_vars
<1>11. CASE Invoke
  <2>1. InChunk(1, 1)
    BY FirstInside, VMAssumption DEF FieldsOK
  <2> QED BY <1>11, <2>1 DEF Invoke
<1>12. CASE UNCHANGED vars
  BY <1>12 DEF vars
<1> QED
  BY StepKinds, <1>1, <1>2, <1>3, <1>4, <1>5, <1>6, <1>7, <1>8, <1>9, <1>10, <1>11, <1>12

(* ... every frame's base the callee slot of the frame below ...           *)
LEMMA NextBaseInv ==
    ASSUME FieldsOK, CodeInv, BaseInv, Next
    PROVE  BaseInv'
<1> USE DEF BaseInv, BaseIsCalleeSlot
<1>0. frames \in Seq(FrameSet)
  BY DEF FieldsOK
<1>1. CASE Advances
  BY <1>1 DEF Advances, frame_vars, mode_vars
<1>2. CASE Throws
  BY <1>2 DEF Throws, frame_vars, mode_vars
<1>3. CASE Seeks_
  BY <1>3 DEF Seeks_, frame_vars
<1>4. CASE Catches_
  BY <1>4 DEF Catches_, frame_vars, mode_vars
<1>5. CASE Enters
  <2>1. PICK frame \in FrameSet :
          frame.bp = bp /\ frame.slot = bp' /\ frames' = Append(frames, frame)
    BY <1>5 DEF Enters
  <2>2. frame.bp = IF Len(frames) = 0 THEN 0 ELSE frames[Len(frames)].slot
    BY <1>0, <1>5, <2>1 DEF Enters, Last
  <2>3. /\ Len(frames) \in Nat
        /\ DOMAIN frames = 1 .. Len(frames) /\ DOMAIN frames' = 1 .. Len(frames) + 1
        /\ \A n \in DOMAIN frames : frames'[n] = frames[n]
        /\ frames'[Len(frames) + 1] = frame /\ Last(frames') = frame
        /\ frames' # <<>>
    BY <1>0, <2>1, FramesPushed
  <2>4. ASSUME NEW n \in DOMAIN frames'
        PROVE  frames'[n].bp = IF n = 1 THEN 0 ELSE frames'[n - 1].slot
    <3>1. CASE n \in DOMAIN frames
      BY <2>3, <3>1
    <3>2. CASE n = Len(frames) + 1
      BY <2>2, <2>3, <3>2
    <3> QED BY <2>3, <2>4, <3>1, <3>2
  <2> QED BY <2>1, <2>3, <2>4
<1>6. CASE Fails
  BY <1>6 DEF Fails, frame_vars
<1>7. CASE Crashes
  BY <1>7 DEF Crashes, frame_vars
<1>8. CASE Ret
  BY <1>8 DEF Ret
<1>9. CASE Unwind
  <2>1. frames # <<>> /\ frames' = Front(frames) /\ bp' = Last(frames).bp
    BY <1>9 DEF Unwind, CallerBp
  <2>2. /\ Len(frames) \in Nat \ {0} /\ Len(frames') = Len(frames) - 1
        /\ DOMAIN frames = 1 .. Len(frames) /\ DOMAIN frames' = 1 .. Len(frames) - 1
        /\ frames' = <<>> <=> Len(frames) = 1
        /\ \A n \in DOMAIN frames' : frames'[n] = frames[n]
        /\ Last(frames) = frames[Len(frames)] /\ Len(frames) \in DOMAIN frames
    BY <1>0, <2>1, FramesPopped
  <2>3. bp' = IF frames' = <<>> THEN 0 ELSE Last(frames').slot
    <3>1. CASE Len(frames) = 1
      BY <2>1, <2>2, <3>1
    <3>2. CASE Len(frames) # 1
      BY <2>1, <2>2, <3>2 DEF Last
    <3> QED BY <3>1, <3>2
  <2> QED BY <2>2, <2>3
<1>10. CASE Halt
  BY <1>10 DEF Halt, frame_vars
<1>11. CASE Invoke
  BY <1>11 DEF Invoke, FieldsOK
<1>12. CASE UNCHANGED vars
  BY <1>12 DEF vars
<1> QED
  BY StepKinds, <1>1, <1>2, <1>3, <1>4, <1>5, <1>6, <1>7, <1>8, <1>9, <1>10, <1>11, <1>12

(* ... the depth exact, modulo its width ...                               *)
LEMMA NextDepthInv ==
    ASSUME FieldsOK, CodeInv, DepthInv, Next
    PROVE  DepthInv'
<1> DEFINE open == Len(frames) + lost
<1>0. frames \in Seq(FrameSet) /\ lost \in Nat /\ open \in Nat /\ Len(frames) \in Nat
  BY DEF FieldsOK
<1>m. /\ ((open % DepthValues) + 1) % DepthValues = (open + 1) % DepthValues
      /\ (((open + 1) % DepthValues) + 1) % DepthValues = (open + 2) % DepthValues
      /\ (((open + 1) % DepthValues) - 1) % DepthValues = open % DepthValues
  <2>1. open + 1 \in Nat /\ (open + 1) + 1 = open + 2
    BY <1>0
  <2> HIDE DEF open
  <2>2. DepthValues \in Nat \ {0, 1} /\ open \in Nat
    BY <1>0, VMAssumption
  <2>3. (((open + 1) % DepthValues) + 1) % DepthValues = ((open + 1) + 1) % DepthValues
    BY <2>1, <2>2, ModSteps
  <2> QED BY <2>1, <2>2, <2>3, ModSteps
<1>e. run = "exec" => depth = (open + 1) % DepthValues
  <2>1. open + 1 = 1 + Len(frames) + lost
    BY <1>0
  <2> QED BY <2>1 DEF DepthInv, DepthExact
<1>r. run = "return" => depth = open % DepthValues
  BY DEF DepthInv
<1>s. SUFFICES /\ run' = "exec" => depth' = (1 + Len(frames') + lost') % DepthValues
               /\ run' = "return" => depth' = (Len(frames') + lost') % DepthValues
  BY DEF DepthInv, DepthExact
<1>1. CASE Advances
  BY <1>1 DEF Advances, frame_vars, mode_vars, DepthInv, DepthExact
<1>2. CASE Throws
  BY <1>2 DEF Throws, frame_vars, mode_vars, DepthInv, DepthExact
<1>3. CASE Seeks_
  BY <1>3 DEF Seeks_, frame_vars, history_vars, DepthInv, DepthExact
<1>4. CASE Catches_
  BY <1>4 DEF Catches_, frame_vars, mode_vars, DepthInv, DepthExact
<1>5. CASE Enters
  <2>1. run = "exec" /\ run' = "exec" /\ lost' = lost /\ depth' = (depth + 1) % DepthValues
    BY <1>5 DEF Enters, mode_vars
  <2>2. Len(frames') = Len(frames) + 1
    BY <1>0, <1>5, FramesPushed DEF Enters
  <2>3. 1 + Len(frames') + lost' = open + 2
    BY <1>0, <2>1, <2>2
  <2> HIDE DEF open
  <2> QED BY <1>m, <1>e, <2>1, <2>3
<1>6. CASE Fails
  <2>1. /\ run = "exec" /\ run' = "return" /\ lost' = lost + 1
        /\ depth' = depth /\ frames' = frames
    BY <1>6 DEF Fails, frame_vars
  <2>2. Len(frames') + lost' = open + 1
    BY <1>0, <2>1
  <2> HIDE DEF open
  <2> QED BY <1>e, <2>1, <2>2
<1>7. CASE Crashes
  BY <1>7 DEF Crashes
<1>8. CASE Ret
  <2>1. /\ run = "exec" /\ run' = "return" /\ lost' = lost /\ frames' = frames
        /\ depth' = (depth - 1) % DepthValues
    BY <1>8 DEF Ret, At, Left, history_vars
  <2>2. Len(frames') + lost' = open
    BY <2>1
  <2> HIDE DEF open
  <2> QED BY <1>m, <1>e, <2>1, <2>2
<1>9. CASE Unwind
  <2>1. /\ run = "return" /\ depth' = depth /\ frames # <<>> /\ frames' = Front(frames)
        /\ \/ run' = "exec" /\ lost' = lost
           \/ run' = "return" /\ lost' = lost + 1
    BY <1>9 DEF Unwind
  <2>2. Len(frames') = Len(frames) - 1
    BY <1>0, <2>1, FramesPopped
  <2>3. run' = "exec" => 1 + Len(frames') + lost' = open
    BY <1>0, <2>1, <2>2
  <2>4. run' = "return" => Len(frames') + lost' = open
    BY <1>0, <2>1, <2>2
  <2> HIDE DEF open
  <2> QED BY <1>r, <2>1, <2>3, <2>4
<1>10. CASE Halt
  BY <1>10 DEF Halt
<1>11. CASE Invoke
  <2>1. run' = "exec" /\ depth' = 1 /\ lost' = 0 /\ frames' = <<>>
    BY <1>11 DEF Invoke, RestartDepth, FieldsOK
  <2>2. 1 % DepthValues = 1
    BY ModSteps, VMAssumption
  <2> QED BY <2>1, <2>2
<1>12. CASE UNCHANGED vars
  BY <1>12 DEF vars, DepthInv, DepthExact
<1> QED
  BY StepKinds, <1>1, <1>2, <1>3, <1>4, <1>5, <1>6, <1>7, <1>8, <1>9, <1>10, <1>11, <1>12

(* ... an exception in flight wherever one is said to be ...               *)
LEMMA NextCatchInv ==
    ASSUME FieldsOK, CodeInv, CatchInv, Next
    PROVE  CatchInv'
<1> USE DEF CatchInv, Code
<1>1. CASE Advances
  BY <1>1 DEF Advances, Inside, frame_vars, mode_vars
<1>2. CASE Throws
  BY <1>2 DEF Throws, frame_vars, mode_vars
<1>3. CASE Seeks_
  BY <1>3 DEF Seeks_, frame_vars
<1>4. CASE Catches_
  BY <1>4, Onward DEF Catches_, Inside, Dispatches, frame_vars, mode_vars, FieldsOK
<1>5. CASE Enters
  BY <1>5, FirstInside DEF Enters, mode_vars
<1>6. CASE Fails
  BY <1>6 DEF Fails
<1>7. CASE Crashes
  BY <1>7 DEF Crashes
<1>8. CASE Ret
  <2>1. in_flight' = in_flight /\ run' = "return" /\ retval' = status'
    BY <1>8 DEF Ret, error_vars
  <2>2. status' = "err_throw" => status = "err_throw"
    BY <1>8 DEF Ret
  <2>3. dispatcher' = "vm_seek_catch" => dispatcher = "vm_seek_catch" \/ status = "err_throw"
    BY <1>8 DEF Ret, SeeksOn
  <2> QED BY <2>1, <2>2, <2>3
<1>9. CASE Unwind
  <2>1. /\ in_flight' = in_flight /\ dispatcher' = dispatcher
        /\ run = "return" /\ retval' = status' /\ status' \in {status, retval}
    BY <1>9 DEF Unwind, error_vars
  <2>2. frames \in Seq(FrameSet) /\ frames # <<>> /\ frames' = Front(frames)
    BY <1>9 DEF Unwind, FieldsOK
  <2>3. Code'[ip'].op # "catch_err"
    <3>1. ReturnsTo(Last(frames))
      BY <2>2, FramesPopped DEF CodeInv
    <3> QED BY <1>9, <3>1 DEF Unwind, ReturnsTo
  <2> QED BY <2>1, <2>3
<1>10. CASE Halt
  BY <1>10 DEF Halt, error_vars
<1>11. CASE Invoke
  <2>1. prgm'[chunk'][ip'].op # "catch_err"
    BY <1>11, FirstInside, VMAssumption DEF Invoke, FieldsOK
  <2> QED BY <1>11, <2>1 DEF Invoke
<1>12. CASE UNCHANGED vars
  BY <1>12 DEF vars
<1> QED
  BY StepKinds, <1>1, <1>2, <1>3, <1>4, <1>5, <1>6, <1>7, <1>8, <1>9, <1>10, <1>11, <1>12

(* ... a search with a caller left to look in ...                          *)
LEMMA NextSeekInv ==
    ASSUME FieldsOK, CodeInv, DepthInv, SeekInv, Next
    PROVE  SeekInv'
<1> USE DEF SeekInv
<1>0. ip \in Nat
  BY Onward
<1>1. CASE Advances
  BY <1>0, <1>1 DEF Advances, Dispatches, frame_vars, host_vars, mode_vars
<1>2. CASE Throws
  BY <1>0, <1>2 DEF Throws, Dispatches, frame_vars, host_vars, mode_vars
<1>3. CASE Seeks_
  BY <1>3 DEF Seeks_, frame_vars, host_vars
<1>4. CASE Catches_
  BY <1>0, <1>4 DEF Catches_, Dispatches, frame_vars, host_vars, mode_vars
<1>5. CASE Enters
  BY <1>0, <1>5 DEF Enters, Dispatches, host_vars, mode_vars
<1>6. CASE Fails
  BY <1>6 DEF Fails, FieldsOK, frame_vars, host_vars
<1>7. CASE Crashes
  BY <1>7 DEF Crashes
<1>8. CASE Ret
  <2>1. /\ run = "exec" /\ Dispatches /\ run' = "return"
        /\ lost' = lost /\ frames' = frames /\ carried' = carried
        /\ dispatcher' = IF SeeksOn(Left) THEN "vm_seek_catch" ELSE dispatcher
    BY <1>8 DEF Ret, At, history_vars, host_vars
  <2>2. ~carried => dispatcher # "vm_seek_catch"
    BY <1>0, <2>1 DEF Dispatches
  <2>3. ASSUME SeeksOn(Left) PROVE frames # <<>> \/ lost > 0
    <3>1. SUFFICES ASSUME frames = <<>>, lost = 0 PROVE FALSE
      BY DEF FieldsOK
    <3>2. depth = 1 % DepthValues
      BY <2>1, <3>1 DEF DepthInv, DepthExact
    <3>3. 1 % DepthValues = 1 /\ 0 % DepthValues = 0
      BY ModSteps, VMAssumption
    <3>4. Left = 0
      BY <3>2, <3>3 DEF Left
    <3> QED BY <2>3, <3>4 DEF SeeksOn
  <2> QED BY <2>1, <2>2, <2>3
<1>9. CASE Unwind
  <2>1. /\ run = "return" /\ frames # <<>> /\ frames' = Front(frames)
        /\ ip' = Last(frames).ip /\ carried' = carried
        /\ \/ run' = "exec"
           \/ run' = "return" /\ lost' = lost + 1
    BY <1>9 DEF Unwind, host_vars
  <2>2. Last(frames).ip > 2
    BY <2>1, FramesPopped DEF FieldsOK, CodeInv, ReturnsTo
  <2>3. lost + 1 > 0
    BY DEF FieldsOK
  <2> QED BY <2>1, <2>2, <2>3
<1>10. CASE Halt
  BY <1>10 DEF Halt, frame_vars, host_vars, history_vars
<1>11. CASE Invoke
  BY <1>11 DEF Invoke
<1>12. CASE UNCHANGED vars
  BY <1>12 DEF vars, host_vars
<1> QED
  BY StepKinds, <1>1, <1>2, <1>3, <1>4, <1>5, <1>6, <1>7, <1>8, <1>9, <1>10, <1>11, <1>12

(* ... and, before depth wraps, the depth the number of open calls.        *)
LEMMA NextCountInv ==
    ASSUME FieldsOK, CodeInv, CountInv, Next
    PROVE  CountInv'
<1> USE VMAssumption DEF CountInv
<1>0. /\ frames \in Seq(FrameSet) /\ lost \in Nat /\ Len(frames) \in Nat
      /\ depth \in 0 .. DepthValues - 1 /\ wrapped \in BOOLEAN
  BY DEF FieldsOK
<1>1. CASE Advances
  BY <1>1 DEF Advances, frame_vars, mode_vars
<1>2. CASE Throws
  BY <1>2 DEF Throws, frame_vars, mode_vars
<1>3. CASE Seeks_
  BY <1>3 DEF Seeks_, frame_vars, history_vars
<1>4. CASE Catches_
  BY <1>4 DEF Catches_, frame_vars, mode_vars
<1>5. CASE Enters
  <2>1. /\ run = "exec" /\ run' = "exec" /\ lost' = lost
        /\ depth' = (depth + 1) % DepthValues /\ wrapped' = (wrapped \/ depth' = 0)
    BY <1>5 DEF Enters, mode_vars
  <2>2. Len(frames') = Len(frames) + 1
    BY <1>0, <1>5, FramesPushed DEF Enters
  <2>3. ~wrapped' => depth' = depth + 1
    <3>1. CASE depth + 1 = DepthValues
      <4>1. DepthValues = DepthValues * 1 + 0
        OBVIOUS
      <4>2. DepthValues % DepthValues = 0
        BY <4>1, ModUnique
      <4> QED BY <2>1, <3>1, <4>2
    <3>2. CASE depth + 1 < DepthValues
      <4>1. depth + 1 \in Nat
        BY <1>0
      <4>2. (depth + 1) % DepthValues = depth + 1
        BY <3>2, <4>1, ModSteps
      <4> QED BY <2>1, <4>2
    <3> QED BY <1>0, <3>1, <3>2
  <2>4. ~wrapped' => ~wrapped
    BY <2>1
  <2> QED BY <1>0, <2>1, <2>2, <2>3, <2>4
<1>6. CASE Fails
  BY <1>0, <1>6 DEF Fails, frame_vars
<1>7. CASE Crashes
  BY <1>7 DEF Crashes
<1>8. CASE Ret
  <2>1. /\ run = "exec" /\ run' = "return" /\ lost' = lost /\ frames' = frames
        /\ depth' = (depth - 1) % DepthValues /\ wrapped' = wrapped
    BY <1>8 DEF Ret, At, Left, history_vars
  <2>2. ASSUME ~wrapped PROVE depth' = depth - 1
    <3>1. depth - 1 \in Nat /\ depth - 1 < DepthValues
      BY <1>0, <2>1, <2>2
    <3> QED BY <2>1, <3>1, ModSteps
  <2> QED BY <1>0, <2>1, <2>2
<1>9. CASE Unwind
  <2>1. /\ run = "return" /\ depth' = depth /\ frames # <<>> /\ frames' = Front(frames)
        /\ wrapped' = wrapped
        /\ \/ run' = "exec" /\ lost' = lost
           \/ run' = "return" /\ lost' = lost + 1
    BY <1>9 DEF Unwind
  <2>2. Len(frames') = Len(frames) - 1
    BY <1>0, <2>1, FramesPopped
  <2> QED BY <1>0, <2>1, <2>2
<1>10. CASE Halt
  BY <1>10 DEF Halt
<1>11. CASE Invoke
  BY <1>11 DEF Invoke, RestartDepth, FieldsOK
<1>12. CASE UNCHANGED vars
  BY <1>12 DEF vars
<1> QED
  BY StepKinds, <1>1, <1>2, <1>3, <1>4, <1>5, <1>6, <1>7, <1>8, <1>9, <1>10, <1>11, <1>12

(* From here on the depth is exact, so that only the outermost RET is the  *)
(* end of the program, and only a failed handler makes a caller return.    *)
LEMMA NextOutcomeInv ==
    ASSUME IInv, Next
    PROVE  OutcomeInv'
<1> USE DEF OutcomeInv, Code
<1>0. /\ FieldsOK /\ CodeInv /\ CatchInv /\ CountInv /\ OutcomeInv
      /\ frames \in Seq(FrameSet) /\ lost \in Nat /\ Len(frames) \in Nat
      /\ ip \in Nat /\ depth \in 0 .. DepthValues - 1
      /\ in_flight \in BOOLEAN /\ dispatcher \in {"vm_dispatch", "vm_seek_catch"}
  BY Onward DEF IInv, FieldsOK
<1>s. ~carried /\ run = "exec" /\ Dispatches => dispatcher = "vm_dispatch"
  BY <1>0 DEF IInv, SeekInv, Dispatches
<1>1. CASE Advances
  BY <1>0, <1>s, <1>1 DEF Advances, frame_vars, mode_vars, host_vars
<1>2. CASE Throws
  BY <1>0, <1>s, <1>2 DEF Throws, frame_vars, mode_vars, host_vars
<1>3. CASE Seeks_
  BY <1>0, <1>3 DEF Seeks_, CatchInv, frame_vars, history_vars, host_vars
<1>4. CASE Catches_
  BY <1>0, <1>4 DEF Catches_, frame_vars, mode_vars, host_vars
<1>5. CASE Enters
  <2>1. /\ run = "exec" /\ run' = "exec" /\ Dispatches /\ Code[ip].op = "call"
        /\ wrapped' = (wrapped \/ depth' = 0)
        /\ UNCHANGED <<status, in_flight, dispatcher, carried, lost, unanswered>>
    BY <1>5 DEF Enters, mode_vars, host_vars
  <2> QED BY <1>0, <1>s, <2>1
<1>6. CASE Fails
  <2>1. /\ run = "exec" /\ run' = "return" /\ lost' = lost + 1 /\ Dispatches
        /\ Code[ip].op \notin {"catch_err", "ret"}
        /\ retval' \in {"err_bad_call", "err_bad_op", "err_abort"}
        /\ status' \in {status, "err_bad_op", "err_abort"}
        /\ UNCHANGED <<frames, in_flight, dispatcher, carried, wrapped, unanswered>>
    BY <1>6 DEF Fails, frame_vars, host_vars
  <2> QED BY <1>0, <1>s, <2>1
<1>7. CASE Crashes
  BY <1>0, <1>7 DEF Crashes, frame_vars, history_vars, host_vars
<1>8. CASE Ret
  <2>1. /\ run = "exec" /\ run' = "return" /\ Dispatches /\ retval' = status'
        /\ status' = IF Left = 0 /\ status = "pending" THEN "ok" ELSE status
        /\ dispatcher' = IF SeeksOn(Left) THEN "vm_seek_catch" ELSE dispatcher
        /\ UNCHANGED <<frames, in_flight, carried, lost, wrapped, unanswered>>
    BY <1>8 DEF Ret, At, error_vars, history_vars, host_vars
  <2>2. ASSUME ~wrapped
        PROVE  /\ frames = <<>> /\ lost = 0 => Left = 0
               /\ frames # <<>> \/ lost > 0 => Left # 0
    <3>1. depth = 1 + Len(frames) + lost
      BY <1>0, <2>1, <2>2 DEF CountInv
    <3>2. depth - 1 \in Nat /\ depth - 1 < DepthValues
      BY <1>0, <3>1, VMAssumption
    <3>3. (depth - 1) % DepthValues = depth - 1
      BY <3>2, ModSteps, VMAssumption
    <3>4. Left = Len(frames) + lost
      BY <1>0, <3>1, <3>3 DEF Left
    <3> QED BY <1>0, <3>4
  <2> QED BY <1>0, <1>s, <2>1, <2>2 DEF SeeksOn
<1>9. CASE Unwind
  <2>1. /\ run = "return" /\ frames # <<>> /\ frames' = Front(frames)
        /\ ip' = Last(frames).ip /\ chunk' = Last(frames).chunk /\ prgm' = prgm
        /\ run' = IF depth = 0 /\ Last(frames).kind = "call" THEN "return" ELSE "exec"
        /\ lost' = IF depth = 0 /\ Last(frames).kind = "call" THEN lost + 1 ELSE lost
        /\ status' = IF Last(frames).kind = "closure" /\ depth # 0 THEN retval ELSE status
        /\ UNCHANGED <<in_flight, dispatcher, carried, wrapped, unanswered>>
    BY <1>9 DEF Unwind, error_vars, host_vars
  <2>2. ~wrapped => depth # 0
    BY <1>0, <2>1 DEF CountInv
  <2> QED BY <1>0, <2>1, <2>2 DEF CatchInv
<1>10. CASE Halt
  BY <1>0, <1>10 DEF Halt, frame_vars, error_vars, history_vars, host_vars
<1>11. CASE Invoke
  <2>1. /\ run' = "exec" /\ status' = "pending" /\ in_flight' = carried'
        /\ carried' = (dispatcher = "vm_seek_catch") /\ dispatcher' = dispatcher
    BY <1>11 DEF Invoke
  <2> QED BY <1>0, <2>1
<1>12. CASE UNCHANGED vars
  BY <1>0, <1>12 DEF vars, host_vars
<1> QED
  BY <1>0, StepKinds, <1>1, <1>2, <1>3, <1>4, <1>5, <1>6, <1>7, <1>8, <1>9, <1>10, <1>11, <1>12

(* The invariant holds when the program starts.                            *)
LEMMA InitIInv == Init => IInv
<1> SUFFICES ASSUME Init PROVE IInv
  OBVIOUS
<1>1. FieldsOK
  <2>1. frames \in Seq(FrameSet) /\ frames = <<>>
    BY DEF Init
  <2>2. depth \in 0 .. DepthValues - 1 /\ lost \in Nat /\ sp \in Int /\ bp \in Int
    BY VMAssumption DEF Init
  <2>3. invocation \in 1 .. 2
    BY DEF Init
  <2>4. /\ wrapped \in BOOLEAN /\ unanswered \in BOOLEAN /\ in_flight \in BOOLEAN
        /\ carried \in BOOLEAN /\ ~carried /\ prgm \in Programs
        /\ run = "exec" /\ dispatcher = "vm_dispatch"
    BY DEF Init
  <2> QED BY <2>1, <2>2, <2>3, <2>4 DEF FieldsOK
<1>2. CodeInv
  BY <1>1, FirstInside, VMAssumption DEF Init, CodeInv, FieldsOK
<1>3. BaseInv
  BY DEF Init, BaseInv, BaseIsCalleeSlot
<1>4. DepthInv
  <2>1. 1 % DepthValues = 1
    BY ModSteps, VMAssumption
  <2> QED BY <2>1 DEF Init, DepthInv, DepthExact
<1>5. CatchInv
  <2>1. Code[ip].op # "catch_err"
    BY <1>1, FirstInside, VMAssumption DEF Init, Code, FieldsOK
  <2> QED BY <2>1 DEF Init, CatchInv
<1>6. SeekInv /\ CountInv /\ OutcomeInv
  BY DEF Init, SeekInv, CountInv, OutcomeInv
<1> QED BY <1>1, <1>2, <1>3, <1>4, <1>5, <1>6 DEF IInv

(* Every step keeps it.                                                    *)
LEMMA NextIInv == IInv /\ [Next]_vars => IInv'
<1> SUFFICES ASSUME IInv, [Next]_vars PROVE IInv'
  OBVIOUS
<1>1. CASE Next
  <2>1. /\ FieldsOK /\ CodeInv /\ BaseInv /\ DepthInv /\ CatchInv /\ SeekInv
        /\ CountInv
    BY DEF IInv
  <2> QED
    BY <1>1, <2>1, NextFieldsOK, NextCodeInv, NextBaseInv, NextDepthInv, NextCatchInv,
       NextSeekInv, NextCountInv, NextOutcomeInv DEF IInv
<1>2. CASE UNCHANGED vars
  BY <1>2 DEF vars, host_vars, IInv, FieldsOK, CodeInv, InChunk, ReturnsTo, BaseInv,
       BaseIsCalleeSlot, DepthInv, DepthExact, CatchInv, Code, SeekInv, CountInv, OutcomeInv
<1> QED BY <1>1, <1>2

(* It holds in every state.                                                *)
LEMMA SpecIInv == Spec => []IInv
BY InitIInv, NextIInv, PTL DEF Spec

-----------------------------------------------------------------------------
(* The stack: operands stay over the frames they belong to                 *)

(* What is known of the code of a program without && and ||.               *)
LEMMA HeightFacts ==
    ASSUME FieldsOK, NEW c, NEW k, InChunk(c, k), ~ShortCircuits
    PROVE  /\ HeightAt(c, 1) = -Reserved(prgm[c]) /\ Reserved(prgm[c]) \in Nat
           /\ HeightAt(c, k) \in Int
           /\ prgm[c][k].op \in {"reserve", "call", "mk_closure", "mk_list"} =>
                prgm[c][k].wide \in Nat
           /\ prgm[c][k].op \in {"store_local", "bind_lstmp"} => prgm[c][k].wide > 0
           /\ k > 1 => HeightAt(c, k) >= Needs(prgm[c][k]) /\ HeightAt(c, k) >= 0
           /\ IsHandler(prgm[c][k]) => HeightAt(c, k) <= 0
           /\ \A e \in After(prgm[c], k) :
                e.to > 1 /\ HeightAt(c, e.to) <= HeightAt(c, k) + e.change
<1>1. Balanced(prgm[c])
  BY ChunkFormed DEF InChunk
<1>2. 1 \in DOMAIN prgm[c]
  BY FirstInside DEF InChunk
<1>3. Reserved(prgm[c]) \in Nat
  BY <1>1, <1>2 DEF Balanced, Reserved
<1>. QED  BY <1>1, <1>3 DEF Balanced, HeightAt, InChunk

(* The first instruction of a chunk takes nothing off the stack and writes *)
(* no variable.                                                            *)
LEMMA FirstNeeds ==
    ASSUME FieldsOK, NEW c \in DOMAIN prgm
    PROVE  /\ prgm[c][1].op \in {"reserve", "native_call"} /\ Needs(prgm[c][1]) = 0
<1>1. prgm[c][1].op \in {"reserve", "native_call"}
  BY ChunkFormed DEF WellFormed
<1>. QED  BY <1>1 DEF Needs, Readers, Computations, Operations, BitOperations, Comparisons

(* What a handler that goes on in the same code does to the stack.         *)
Writes(slot) ==
    \/ slot > sp - Needs(Code[ip])
    \/ Code[ip].op \in {"store_local", "bind_lstmp"} /\ slot = bp + Wide
    \/ Code[ip].op \in {"set_gvar", "gbind_lstmp"} /\ slot = Wide
Moves ==
    /\ \E e \in After(Code, ip) : ip' = e.to /\ sp' = sp + e.change
    /\ DOMAIN stack' = DOMAIN stack
    /\ \A slot \in DOMAIN stack : stack'[slot] = stack[slot] \/ Writes(slot)
    /\ sp' <= MaxSp
    /\ upvals' = upvals

(* The table of the instructions' operands, row by row.                    *)
LEMMA OperandsOf ==
    ASSUME NEW ins
    PROVE  /\ ins.op \in Pushers => Change(ins) = 1 /\ Needs(ins) \in {0, 1}
           /\ ins.op \in Computations \cup {"get_idx"} =>
                Change(ins) = -1 /\ Needs(ins) = 2
           /\ ins.op \in {"store_local", "set_gvar", "set_upv"} =>
                Change(ins) = -1 /\ Needs(ins) = 1
           /\ ins.op = "set_idx" => Change(ins) = -2 /\ Needs(ins) = 3
           /\ ins.op = "abort_else" => Change(ins) = -2 /\ Needs(ins) = 2
           /\ ins.op = "reserve" => Change(ins) = ins.wide /\ Needs(ins) = 0
           /\ ins.op = "pop" => Change(ins) = -ins.flag /\ Needs(ins) = 0
           /\ ins.op \in {"call", "mk_closure"} =>
                Change(ins) = -ins.wide /\ Needs(ins) = ins.wide + 1
           /\ ins.op = "mk_list" => Change(ins) = 1 - ins.wide /\ Needs(ins) = ins.wide
           /\ ins.op \in {"bit_not", "bind_lstmp", "gbind_lstmp"} =>
                Change(ins) = 0 /\ Needs(ins) = 1
           /\ ins.op \in {"nop", "try", "catch_err"} => Change(ins) = 0 /\ Needs(ins) = 0
           /\ ins.op \in {"jmp_false", "jmp_if", "raise_err"} => Needs(ins) = 1
           /\ ins.op = "jmp" => Needs(ins) = 0
<1>. USE DEF Computations, Operations, BitOperations, Comparisons
<1>1. ins.op \in Pushers => Change(ins) = 1 /\ Needs(ins) \in {0, 1}
  BY DEF Change, Needs, Pushers, Readers
<1>2. /\ ins.op \in Computations \cup {"get_idx"} => Change(ins) = -1 /\ Needs(ins) = 2
      /\ ins.op \in {"store_local", "set_gvar", "set_upv"} =>
           Change(ins) = -1 /\ Needs(ins) = 1
      /\ ins.op = "set_idx" => Change(ins) = -2 /\ Needs(ins) = 3
      /\ ins.op = "abort_else" => Change(ins) = -2 /\ Needs(ins) = 2
  BY DEF Change, Needs, Pushers, Readers
<1>3. /\ ins.op = "reserve" => Change(ins) = ins.wide /\ Needs(ins) = 0
      /\ ins.op = "pop" => Change(ins) = -ins.flag /\ Needs(ins) = 0
      /\ ins.op \in {"call", "mk_closure"} =>
           Change(ins) = -ins.wide /\ Needs(ins) = ins.wide + 1
      /\ ins.op = "mk_list" => Change(ins) = 1 - ins.wide /\ Needs(ins) = ins.wide
  BY DEF Change, Needs, Pushers, Readers
<1>4. /\ ins.op \in {"bit_not", "bind_lstmp", "gbind_lstmp"} =>
           Change(ins) = 0 /\ Needs(ins) = 1
      /\ ins.op \in {"nop", "try", "catch_err"} => Change(ins) = 0 /\ Needs(ins) = 0
      /\ ins.op \in {"jmp_false", "jmp_if", "raise_err"} => Needs(ins) = 1
      /\ ins.op = "jmp" => Needs(ins) = 0
  BY DEF Change, Needs, Pushers, Readers
<1>. QED  BY <1>1, <1>2, <1>3, <1>4

(* These numbers are integers.                                             *)
LEMMA NeedsInt ==
    ASSUME NEW ins, ins.wide \in Int
    PROVE  /\ Needs(ins) \in Int
           /\ (ins.op \in {"call", "mk_closure", "mk_list"} => ins.wide \in Nat) =>
                Needs(ins) \in Nat
BY DEF Needs

(* So are the changes that code makes.                                     *)
LEMMA EdgeInt ==
    ASSUME NEW code, NEW k, code[k].wide \in Int, code[k].flag \in Int
    PROVE  \A e \in After(code, k) : e.change \in Int
<1>1. Change(code[k]) \in Int
  BY DEF Change
<1>. QED  BY <1>1 DEF After, Onto

(* No handler that goes on in the same code changes whose captures upvals  *)
(* points at.                                                              *)
LEMMA PlainFields ==
    ASSUME Plain
    PROVE  DOMAIN stack' = DOMAIN stack /\ upvals' = upvals
<1>1. CASE PutNone \/ PutBool \/ PutK \/ LoadImmGid \/ LoadLocal \/ GetGvar \/ LoadErrRef
           \/ LoadStringK \/ ChkNone \/ GetUpv
  BY <1>1 DEF PutNone, PutBool, PutK, LoadImmGid, LoadLocal, GetGvar, LoadErrRef,
              LoadStringK, ChkNone, GetUpv, Pushes, Push
<1>2. CASE Compute \/ BitNot \/ Nop \/ Reserve \/ Pop \/ StoreLocal \/ SetGvar \/ Jmp
           \/ JmpFalse \/ JmpIf \/ MkClosure \/ SetUpv
  BY <1>2 DEF Compute, BitNot, Nop, Reserve, Pop, StoreLocal, SetGvar, Stores, Jmp,
              JmpFalse, JmpIf, Branch, MkClosure, SetUpv
<1>3. CASE MkList \/ GetIdx \/ SetIdx \/ BindLstmp \/ GbindLstmp \/ NativeCall
           \/ NativeGivesUp \/ Try \/ CallList \/ AssertHolds
  BY <1>3 DEF MkList, GetIdx, SetIdx, BindLstmp, GbindLstmp, Binds, NativeCall, Push,
              NativeGivesUp, Try, CallList, AssertHolds
<1>. QED  BY <1>1, <1>2, <1>3, Zenon DEF Plain

(* Most instructions go on with the one behind them.                       *)
LEMMA GoesOn ==
    ASSUME Code[ip].op \notin {"jmp", "jmp_false", "jmp_if", "ret", "raise_err"},
           ip' = ip + 1, sp' = sp + Change(Code[ip])
    PROVE  \E e \in After(Code, ip) : ip' = e.to /\ sp' = sp + e.change
<1>1. After(Code, ip) = {Onto(ip + 1, Change(Code[ip]))}
  BY DEF After
<1>2. Onto(ip + 1, Change(Code[ip])).to = ip + 1
      /\ Onto(ip + 1, Change(Code[ip])).change = Change(Code[ip])
  BY DEF Onto
<1>. QED  BY <1>1, <1>2

(* The handlers that push one value.                                       *)
LEMMA PushesMoves ==
    ASSUME FieldsOK, NEW op \in Pushers, NEW v, Pushes(op, v)
    PROVE  Moves
<1>1. Code[ip].op = op /\ ip' = ip + 1 /\ sp < MaxSp /\ sp' = sp + 1 /\ upvals' = upvals
      /\ stack' = [stack EXCEPT ![sp + 1] = v]
  BY DEF Pushes, Push, At, Step, GoTo
<1>2. Change(Code[ip]) = 1 /\ Needs(Code[ip]) \in {0, 1}
  BY <1>1, OperandsOf
<1>3. \E e \in After(Code, ip) : ip' = e.to /\ sp' = sp + e.change
  BY <1>1, <1>2, GoesOn DEF Pushers
<1>4. \A slot \in DOMAIN stack : stack'[slot] = stack[slot] \/ slot = sp + 1
  BY <1>1
<1>5. sp \in Int /\ sp + 1 > sp - Needs(Code[ip])
  BY <1>2 DEF FieldsOK
<1>6. sp' <= MaxSp
  BY <1>1, <1>5, VMAssumption
<1>. QED  BY <1>1, <1>3, <1>4, <1>5, <1>6 DEF Moves, Writes

(* Every other handler that goes on in the same code.                      *)
LEMMA PlainMoves ==
    ASSUME FieldsOK, CodeInv, ~ShortCircuits, Plain, ~unanswered', sp <= MaxSp
    PROVE  Moves
<1>. DEFINE ins == Code[ip]
<1>1. /\ InChunk(chunk, ip) /\ sp \in Int /\ bp \in Int /\ MaxSp \in Nat
      /\ ip \in Nat /\ ins.wide \in Int /\ ins.flag \in Nat /\ Wide = ins.wide
      /\ ins.op \in {"reserve", "call", "mk_closure", "mk_list"} => ins.wide \in Nat
  BY CodeFacts, HeightFacts, VMAssumption DEF CodeInv, Code, FieldsOK, Wide
<1>. USE DEF At, Step, GoTo, Wide
<1>3. CASE PutNone \/ PutBool \/ PutK \/ LoadImmGid \/ LoadLocal \/ GetGvar \/ LoadErrRef
           \/ LoadStringK \/ ChkNone \/ GetUpv
  <2>1. \E op \in Pushers, v \in {Nil, Bool(Code[ip].flag = 1), Int_(Wide), StrId(Wide),
                 stack[bp + Wide], stack[Wide], ObjId(error_oid), Bool(Top.tag = "nil"),
                 objects[upvals].upvals[Wide + 1]} : Pushes(op, v)
    BY <1>3 DEF PutNone, PutBool, PutK, LoadImmGid, LoadLocal, GetGvar, LoadErrRef,
                LoadStringK, ChkNone, GetUpv, Pushers
  <2>. QED  BY <2>1, PushesMoves
<1>4. CASE Compute
  <2>1. /\ ins.op \in Computations /\ ip' = ip + 1 /\ sp' = sp - 1 /\ upvals' = upvals
        /\ stack' = [stack EXCEPT ![sp - 1] = Result(ins.op, stack[sp - 1], Top)]
    BY <1>4 DEF Compute
  <2>2. Change(ins) = -1 /\ Needs(ins) = 2
    BY <2>1, OperandsOf
  <2>3. \E e \in After(Code, ip) : ip' = e.to /\ sp' = sp + e.change
    BY <1>1, <2>1, <2>2, GoesOn DEF Computations, Operations, BitOperations, Comparisons
  <2>. QED  BY <1>1, <2>1, <2>2, <2>3 DEF Moves, Writes
<1>5. CASE BitNot
  <2>1. /\ ins.op = "bit_not" /\ ip' = ip + 1 /\ sp' = sp /\ upvals' = upvals
        /\ stack' = [stack EXCEPT ![sp] = Complement(Top)]
    BY <1>5 DEF BitNot
  <2>2. Change(ins) = 0 /\ Needs(ins) = 1
    BY <2>1, OperandsOf
  <2>3. \E e \in After(Code, ip) : ip' = e.to /\ sp' = sp + e.change
    BY <1>1, <2>1, <2>2, GoesOn
  <2>. QED  BY <1>1, <2>1, <2>2, <2>3 DEF Moves, Writes
<1>6. CASE Nop \/ Try \/ Reserve \/ Pop \/ AssertHolds \/ SetUpv \/ SetIdx
  <2>1. /\ ins.op \in {"nop", "try", "reserve", "pop", "abort_else", "set_upv", "set_idx"}
        /\ ip' = ip + 1 /\ sp' = sp + Change(ins) /\ sp' <= MaxSp
        /\ upvals' = upvals /\ stack' = stack
    <3>1. CASE Nop \/ Try
      BY <1>1, <3>1, OperandsOf DEF Nop, Try
    <3>2. CASE Reserve
      BY <1>1, <3>2, OperandsOf DEF Reserve
    <3>3. CASE Pop
      BY <1>1, <3>3, OperandsOf DEF Pop
    <3>4. CASE AssertHolds \/ SetUpv \/ SetIdx
      BY <1>1, <3>4, OperandsOf DEF AssertHolds, SetUpv, SetIdx
    <3>. QED  BY <1>6, <3>1, <3>2, <3>3, <3>4
  <2>2. \E e \in After(Code, ip) : ip' = e.to /\ sp' = sp + e.change
    BY <2>1, GoesOn
  <2>. QED  BY <2>1, <2>2 DEF Moves
<1>7. CASE StoreLocal \/ SetGvar
  <2>1. /\ ins.op \in {"store_local", "set_gvar"}
        /\ ip' = ip + 1 /\ sp' = sp - 1 /\ upvals' = upvals
        /\ stack' = [stack EXCEPT ![IF ins.op = "store_local" THEN bp + Wide ELSE Wide] = Top]
    BY <1>7 DEF StoreLocal, SetGvar, Stores
  <2>2. Change(ins) = -1
    BY <2>1, OperandsOf
  <2>3. \E e \in After(Code, ip) : ip' = e.to /\ sp' = sp + e.change
    BY <1>1, <2>1, <2>2, GoesOn
  <2>. QED  BY <1>1, <2>1, <2>3 DEF Moves, Writes
<1>8. CASE BindLstmp \/ GbindLstmp
  <2>1. /\ ins.op \in {"bind_lstmp", "gbind_lstmp"}
        /\ ip' = ip + 1 /\ sp' = sp /\ upvals' = upvals
        /\ stack' = [stack EXCEPT ![IF ins.op = "bind_lstmp" THEN bp + Wide ELSE Wide]
                                    = Item(objects[Top.data], Int_(Code[ip].flag))]
    BY <1>8 DEF BindLstmp, GbindLstmp, Binds
  <2>2. Change(ins) = 0
    BY <2>1, OperandsOf
  <2>3. \E e \in After(Code, ip) : ip' = e.to /\ sp' = sp + e.change
    BY <1>1, <2>1, <2>2, GoesOn
  <2>. QED  BY <1>1, <2>1, <2>3 DEF Moves, Writes
<1>9. CASE Jmp
  <2>1. ins.op = "jmp" /\ ip' = Target(Code, ip) /\ sp' = sp /\ upvals' = upvals /\ stack' = stack
    BY <1>9 DEF Jmp, Target
  <2>2. After(Code, ip) = {Onto(Target(Code, ip), 0)}
    BY <2>1 DEF After
  <2>3. \E e \in After(Code, ip) : ip' = e.to /\ sp' = sp + e.change
    BY <1>1, <2>1, <2>2 DEF Onto
  <2>. QED  BY <2>1, <2>3 DEF Moves
<1>10. CASE JmpFalse \/ JmpIf
  <2>1. /\ ins.op \in {"jmp_false", "jmp_if"}
        /\ \/ ip' = ip + 1 /\ sp' = sp - 1
           \/ ip' = ip + Wide /\ sp' = sp
        /\ upvals' = upvals /\ stack' = stack
    BY <1>10 DEF JmpFalse, JmpIf, Branch
  <2>2. /\ After(Code, ip) = {Onto(ip + 1, -1), Onto(Target(Code, ip), 0)}
        /\ Target(Code, ip) = ip + Wide
    BY <2>1 DEF After, Target
  <2>3. \E e \in After(Code, ip) : ip' = e.to /\ sp' = sp + e.change
    BY <1>1, <2>1, <2>2 DEF Onto
  <2>. QED  BY <1>1, <2>1, <2>3 DEF Moves
<1>11. CASE MkClosure
  <2>1. /\ ins.op = "mk_closure" /\ ip' = ip + 1 /\ sp' = sp - Wide /\ upvals' = upvals
        /\ stack' = [stack EXCEPT ![sp - Wide] = ObjId(Len(objects'))]
    BY <1>11 DEF MkClosure
  <2>2. Change(ins) = -ins.wide /\ Needs(ins) = ins.wide + 1
    BY <2>1, OperandsOf
  <2>3. \E e \in After(Code, ip) : ip' = e.to /\ sp' = sp + e.change
    BY <1>1, <2>1, <2>2, GoesOn
  <2>. QED  BY <1>1, <2>1, <2>2, <2>3, SMTT(40) DEF Moves, Writes
<1>12. CASE MkList
  <2>1. /\ ins.op = "mk_list" /\ ip' = ip + 1 /\ sp' = sp - Wide + 1 /\ upvals' = upvals
        /\ stack' = [stack EXCEPT ![sp - Wide + 1] = ObjId(Len(objects'))]
        /\ sp' <= MaxSp
    BY <1>12 DEF MkList
  <2>2. Change(ins) = 1 - ins.wide /\ Needs(ins) = ins.wide
    BY <2>1, OperandsOf
  <2>3. \E e \in After(Code, ip) : ip' = e.to /\ sp' = sp + e.change
    BY <1>1, <2>1, <2>2, GoesOn
  <2>. QED  BY <1>1, <2>1, <2>2, <2>3 DEF Moves, Writes
<1>13. CASE GetIdx
  <2>1. /\ ins.op = "get_idx" /\ ip' = ip + 1 /\ sp' = sp - 1 /\ upvals' = upvals
        /\ stack' = [stack EXCEPT ![sp - 1] = Item(objects[stack[sp - 1].data], Top)]
    BY <1>13 DEF GetIdx
  <2>2. Change(ins) = -1 /\ Needs(ins) = 2
    BY <2>1, OperandsOf
  <2>3. \E e \in After(Code, ip) : ip' = e.to /\ sp' = sp + e.change
    BY <1>1, <2>1, <2>2, GoesOn
  <2>. QED  BY <1>1, <2>1, <2>2, <2>3 DEF Moves, Writes
<1>14. CASE NativeCall
  <2>1. /\ ins.op = "native_call" /\ ip' = ip + 1 /\ sp' = sp + 1 /\ sp < MaxSp /\ upvals' = upvals
        /\ \E v : stack' = [stack EXCEPT ![sp + 1] = v]
    BY <1>14 DEF NativeCall, Push
  <2>2. Change(ins) = 1 /\ Needs(ins) \in {0, 1}
    BY <2>1, OperandsOf DEF Pushers
  <2>3. \E e \in After(Code, ip) : ip' = e.to /\ sp' = sp + e.change
    BY <1>1, <2>1, <2>2, GoesOn
  <2>4. sp + 1 > sp - Needs(ins) /\ sp' <= MaxSp
    BY <1>1, <2>1, <2>2
  <2>. QED  BY <2>1, <2>3, <2>4 DEF Moves, Writes
<1>15. CASE NativeGivesUp \/ CallList
  BY <1>15 DEF NativeGivesUp, CallList
<1>. QED
  BY <1>3, <1>4, <1>5, <1>6, <1>7, <1>8, <1>9, <1>10, <1>11, <1>12, <1>13, <1>14, <1>15, Zenon
     DEF Plain

(* The frames of the calls, in numbers.                                    *)
LEMMA FrameFacts ==
    ASSUME FieldsOK, CodeInv, BaseInv, StackInv, ~Sinks
    PROVE  /\ \A n \in DOMAIN frames :
                /\ n \in 1 .. Len(frames) /\ n - 1 \in 0 .. Len(frames)
                /\ frames[n].slot \in 0 .. MaxSp /\ frames[n].argc \in Nat
                /\ FloorAt(n - 1, frames[n].chunk) \in Nat
           /\ Len(frames) \in Nat /\ DOMAIN frames = 1 .. Len(frames)
           /\ Base(Len(frames)) \in Nat /\ Argc(Len(frames)) \in Nat
           /\ FloorAt(Len(frames), chunk) \in Nat
           /\ FloorAt(Len(frames), chunk)
                = Base(Len(frames)) + Argc(Len(frames)) + Reserved(Code)
           /\ run = "exec" => Base(Len(frames)) = bp
           /\ \A n \in DOMAIN frames : frames[n].slot <= Base(Len(frames))
           /\ \A n \in DOMAIN frames : frames[n].slot > Reserved(prgm[1])
           /\ 1 \in DOMAIN prgm
<1>1. frames \in Seq(FrameSet) /\ Len(frames) \in Nat /\ DOMAIN frames = 1 .. Len(frames)
  BY DEF FieldsOK
<1>2. /\ \A n \in 0 .. Len(frames) : Base(n) \in Nat /\ Argc(n) \in Nat
      /\ \A n \in DOMAIN frames : n \in 1 .. Len(frames) /\ n - 1 \in 0 .. Len(frames)
  BY <1>1, VMAssumption DEF StackInv, SlotsInv, Base, Argc
<1>3. InChunk(chunk, ip) /\ \A n \in DOMAIN frames : InChunk(frames[n].chunk, frames[n].ip)
  BY DEF CodeInv, ReturnsTo
<1>4. /\ Reserved(Code) \in Nat /\ \A n \in DOMAIN frames : Reserved(prgm[frames[n].chunk]) \in Nat
      /\ 1 \in DOMAIN prgm
  BY <1>3, HeightFacts, ChunkFormed DEF Sinks, Code, InChunk
<1>5. /\ \A n \in DOMAIN frames : FloorAt(n - 1, frames[n].chunk) \in Nat
      /\ FloorAt(Len(frames), chunk) \in Nat
      /\ FloorAt(Len(frames), chunk)
           = Base(Len(frames)) + Argc(Len(frames)) + Reserved(Code)
  BY <1>1, <1>2, <1>4, SMTT(40) DEF FloorAt, Code
<1>6. run = "exec" => Base(Len(frames)) = bp
  BY <1>1 DEF BaseInv, BaseIsCalleeSlot, Base, Last
<1>7. \A n \in DOMAIN frames : frames[n].slot \in 0 .. MaxSp /\ frames[n].argc \in Nat
  BY DEF StackInv, SlotsInv
<1>8. \A n \in DOMAIN frames : frames[n].slot <= Base(Len(frames))
  <2>. TAKE n \in DOMAIN frames
  <2>1. n = Len(frames) \/ n < Len(frames)
    BY <1>1
  <2>2. Len(frames) \in DOMAIN frames /\ Base(Len(frames)) = frames[Len(frames)].slot
    BY <1>1 DEF Base
  <2>. QED  BY <1>7, <2>1, <2>2, VMAssumption DEF StackInv, SlotsInv
<1>9. \A n \in DOMAIN frames : frames[n].slot > Reserved(prgm[1])
  <2>. TAKE n \in DOMAIN frames
  <2>1. 1 \in DOMAIN frames /\ frames[1].chunk = 1 /\ (n = 1 \/ 1 < n)
    BY <1>1 DEF StackInv, BottomInv
  <2>2. frames[1].slot > FloorAt(0, 1)
    BY <2>1 DEF StackInv, SlotsInv
  <2>3. FloorAt(0, 1) = Reserved(prgm[1]) /\ Reserved(prgm[1]) \in Nat
    BY <1>4, <2>1 DEF FloorAt, Base, Argc
  <2>4. n = 1 \/ frames[1].slot < frames[n].slot
    BY <2>1 DEF StackInv, SlotsInv
  <2>. QED  BY <1>7, <2>1, <2>2, <2>3, <2>4
<1>. QED  BY <1>1, <1>2, <1>4, <1>5, <1>6, <1>7, <1>8, <1>9

(* A step inside a call keeps the invariant when it does not write the     *)
(* slots of callees and leaves the operands that the next instruction has. *)
LEMMA StackStays ==
    ASSUME FieldsOK, StackInv, UNCHANGED <<prgm, chunk, frames, upvals>>,
           DOMAIN stack' = DOMAIN stack, ~Sinks' => ~Sinks,
           ~Sinks' => \A n \in DOMAIN frames : stack'[frames[n].slot] = stack[frames[n].slot],
           ~Sinks' /\ run' = "exec" =>
               /\ sp' <= MaxSp
               /\ sp' >= FloorAt(Len(frames), chunk) + HeightAt(chunk, ip')
    PROVE  StackInv'
<1>1. BottomInv'
  BY DEF StackInv, BottomInv
<1>2. SlotsInv'
  BY DEF StackInv, SlotsInv, FloorAt, Base, Argc, HeightAt
<1>3. OperandsInv'
  BY DEF OperandsInv, FloorAt, Base, Argc, HeightAt
<1>4. UpvalsInv'
  <2>1. SUFFICES ASSUME upvals # DUD_HEAP_ID
                 PROVE  \E m \in DOMAIN frames : Innermost(m)' /\ (~Sinks' => Captured(m)')
    BY DEF UpvalsInv
  <2>2. PICK m \in DOMAIN frames : Innermost(m) /\ (~Sinks => Captured(m))
    BY <2>1 DEF StackInv, UpvalsInv
  <2>3. Innermost(m)'
    BY <2>2 DEF Innermost
  <2>4. ~Sinks' => Captured(m)'
    BY <2>2 DEF Captured
  <2>. QED  BY <2>3, <2>4
<1>. QED  BY <1>1, <1>2, <1>3, <1>4 DEF StackInv

(* The handlers that go on in the same code.                               *)
LEMMA PlainStackInv ==
    ASSUME FieldsOK, CodeInv, BaseInv, StackInv, Plain
    PROVE  StackInv'
<1>1. Advances
  BY PlainAdvances
<1>2. /\ UNCHANGED <<prgm, chunk, frames>> /\ run = "exec" /\ run' = "exec"
      /\ ~Sinks' => ~Sinks
  BY <1>1 DEF Advances, frame_vars, mode_vars, Sinks, ShortCircuits
<1>3. DOMAIN stack' = DOMAIN stack /\ upvals' = upvals
  BY PlainFields
<1>4. ASSUME ~Sinks' PROVE Moves
  BY <1>2, <1>4, PlainMoves DEF Sinks, ShortCircuits, StackInv, OperandsInv
<1>5. ASSUME ~Sinks'
      PROVE  /\ \A n \in DOMAIN frames : stack'[frames[n].slot] = stack[frames[n].slot]
             /\ sp' <= MaxSp
             /\ sp' >= FloorAt(Len(frames), chunk) + HeightAt(chunk, ip')
  <2>. DEFINE floor == FloorAt(Len(frames), chunk)
              base == Base(Len(frames))
              argc == Argc(Len(frames))
              height == HeightAt(chunk, ip)
  <2>1. ~Sinks /\ Moves
    BY <1>2, <1>4, <1>5
  <2>2. /\ base \in Nat /\ argc \in Nat /\ floor = base + argc + Reserved(Code)
        /\ base = bp /\ Reserved(Code) \in Nat
        /\ \A n \in DOMAIN frames : /\ frames[n].slot \in 0 .. MaxSp
                                    /\ frames[n].slot <= base
                                    /\ frames[n].slot > Reserved(prgm[1])
    BY <1>2, <2>1, FrameFacts, HeightFacts DEF CodeInv, Code, Sinks
  <2>3. sp >= floor + height /\ height \in Int /\ sp \in Int
    BY <1>2, <2>1, HeightFacts DEF StackInv, OperandsInv, CodeInv, FieldsOK, Sinks
  <2>4. sp - Needs(Code[ip]) >= base
    <3>1. CASE ip = 1
      <4>1. height = -Reserved(Code) /\ Needs(Code[ip]) = 0
        BY <2>1, <3>1, HeightFacts, FirstNeeds DEF CodeInv, InChunk, Code, Sinks
      <4>. HIDE DEF base, argc, floor, height
      <4>. QED  BY <2>2, <2>3, <4>1
    <3>2. CASE ip # 1
      <4>1. height >= Needs(Code[ip]) /\ ip > 1
        BY <2>1, <3>2, HeightFacts, CodeFacts DEF CodeInv, Code, Sinks
      <4>2. Needs(Code[ip]) \in Int
        BY CodeFacts, NeedsInt DEF CodeInv, Code
      <4>. HIDE DEF base, argc, floor, height
      <4>. QED  BY <2>2, <2>3, <4>1, <4>2
    <3>. QED  BY <3>1, <3>2
  <2>5. ASSUME NEW n \in DOMAIN frames PROVE ~Writes(frames[n].slot)
    <3>1. ~(frames[n].slot > sp - Needs(Code[ip]))
      <4>1. Needs(Code[ip]) \in Int
        BY CodeFacts, NeedsInt DEF CodeInv, Code
      <4>. HIDE DEF base
      <4>. QED  BY <2>2, <2>3, <2>4, <2>5, <4>1
    <3>2. Code[ip].op \in {"store_local", "bind_lstmp"} => frames[n].slot # bp + Wide
      <4>1. /\ Wide \in Int
            /\ Code[ip].op \in {"store_local", "bind_lstmp"} => Wide > 0
        BY <2>1, HeightFacts, CodeFacts DEF CodeInv, Code, Wide, Sinks
      <4>. HIDE DEF base
      <4>. QED  BY <2>2, <2>5, <4>1
    <3>3. Code[ip].op \in {"set_gvar", "gbind_lstmp"} => frames[n].slot # Wide
      <4>1. /\ Wide \in Int /\ 1 \in DOMAIN prgm
            /\ Code[ip].op \in {"set_gvar", "gbind_lstmp"} => Wide \in 0 .. Reserved(prgm[1])
        BY CodeFacts, ChunkFormed DEF CodeInv, InChunk, Code, Wide, GlobalsInside
      <4>2. Reserved(prgm[1]) \in Nat
        BY <2>1, <4>1, FirstInside, HeightFacts DEF Sinks
      <4>. QED  BY <2>2, <2>5, <4>1, <4>2
    <3>. QED  BY <3>1, <3>2, <3>3 DEF Writes
  <2>6. \A n \in DOMAIN frames : frames[n].slot \in DOMAIN stack
    BY <2>2 DEF StackInv
  <2>7. sp' >= floor + HeightAt(chunk, ip')
    <3>1. PICK e \in After(Code, ip) : ip' = e.to /\ sp' = sp + e.change
      BY <2>1 DEF Moves
    <3>2. HeightAt(chunk, e.to) <= height + e.change
      BY <2>1, <3>1, HeightFacts DEF CodeInv, Code, Sinks
    <3>3. InChunk(chunk, ip')
      BY <1>1 DEF Advances, Inside
    <3>4. HeightAt(chunk, ip') \in Int
      BY <2>1, <3>3, HeightFacts DEF Sinks
    <3>5. floor \in Nat /\ sp' \in Int
      BY <1>1, <2>1, FrameFacts DEF Advances
    <3>6. e.change = sp' - sp
      <4>1. e.change \in Int
        BY <3>1, CodeFacts, EdgeInt DEF CodeInv, Code
      <4>. QED  BY <2>3, <3>1, <4>1
    <3>. HIDE DEF floor, height
    <3>. QED  BY <2>3, <3>1, <3>2, <3>4, <3>5, <3>6
  <2>. QED  BY <2>1, <2>5, <2>6, <2>7 DEF Moves
<1>. QED  BY <1>2, <1>3, <1>5, StackStays

(* THROW, the search for a handler and the CATCH that ends it.             *)
LEMMA ExceptionStackInv ==
    ASSUME FieldsOK, CodeInv, BaseInv, StackInv, RaiseErr \/ SeekCatch \/ CatchErr
    PROVE  StackInv'
<1>1. /\ UNCHANGED <<prgm, chunk, frames, upvals, stack, unanswered>>
      /\ run = "exec" /\ run' = "exec"
  BY DEF RaiseErr, SeekCatch, CatchErr, At, Step, GoTo, frame_vars, mode_vars, history_vars
<1>2. SUFFICES ASSUME ~Sinks
               PROVE  /\ sp' <= MaxSp
                      /\ sp' >= FloorAt(Len(frames), chunk) + HeightAt(chunk, ip')
  BY <1>1, StackStays DEF Sinks, ShortCircuits
<1>. DEFINE floor == FloorAt(Len(frames), chunk)
            height == HeightAt(chunk, ip)
<1>3. /\ floor \in Nat /\ sp >= floor + height /\ sp <= MaxSp
      /\ height \in Int /\ sp \in Int /\ MaxSp \in Nat /\ InChunk(chunk, ip)
      /\ ip > 1 => height >= 0 /\ height >= Needs(Code[ip])
  BY <1>1, <1>2, FrameFacts, HeightFacts, VMAssumption
     DEF StackInv, OperandsInv, CodeInv, FieldsOK, Sinks, Code
<1>4. CASE RaiseErr \/ SeekCatch
  <2>1. InChunk(chunk, ip') /\ IsHandler(Code[ip'])
    BY <1>4, RaiseErrThrows, SeekCatchSeeks DEF Throws, Seeks_, Code
  <2>2. HeightAt(chunk, ip') <= 0 /\ HeightAt(chunk, ip') \in Int
    BY <1>2, <2>1, HeightFacts DEF Sinks, Code
  <2>3. ip > 1 /\ sp' \in {sp, sp - Needs(Code[ip])}
    <3>1. CASE RaiseErr
      <4>1. Code[ip].op = "raise_err" /\ sp' = sp - 1
        BY <3>1 DEF RaiseErr, At
      <4>2. Needs(Code[ip]) = 1
        BY <4>1, OperandsOf
      <4>3. ip # 1
        BY <1>3, <4>1, FirstNeeds DEF InChunk, Code
      <4>. QED  BY <1>3, <4>1, <4>2, <4>3, CodeFacts DEF CodeInv
    <3>2. CASE SeekCatch
      BY <3>2, Onward DEF SeekCatch, Dispatches
    <3>. QED  BY <1>4, <3>1, <3>2
  <2>4. Needs(Code[ip]) \in Nat
    BY <1>3, CodeFacts, HeightFacts, NeedsInt, <1>2 DEF Code, Sinks
  <2>. QED  BY <1>3, <2>2, <2>3, <2>4
<1>5. CASE CatchErr
  <2>1. Code[ip].op = "catch_err" /\ ip' = ip + 1 /\ sp' = sp
    BY <1>5 DEF CatchErr, At, Step, GoTo
  <2>2. Change(Code[ip]) = 0
    BY <2>1, OperandsOf
  <2>3. PICK e \in After(Code, ip) : ip' = e.to /\ sp' = sp + e.change
    BY <1>3, <2>1, <2>2, GoesOn
  <2>4. HeightAt(chunk, e.to) <= height + e.change /\ InChunk(chunk, ip')
    BY <1>2, <1>3, <1>5, <2>3, HeightFacts, CatchErrCatches DEF Sinks, Code, Catches_, Inside
  <2>5. HeightAt(chunk, ip') \in Int /\ e.change = 0
    <3>1. e.change \in Int
      BY <2>3, <1>3, CodeFacts, EdgeInt DEF Code
    <3>2. HeightAt(chunk, ip') \in Int
      BY <1>2, <2>4, HeightFacts DEF Sinks
    <3>. QED  BY <1>3, <2>1, <2>3, <3>1, <3>2, SMTT(40)
  <2>. QED  BY <1>3, <2>1, <2>3, <2>4, <2>5 DEF floor, height
<1>. QED  BY <1>4, <1>5

(* What leaves a call for C only leaves the slots of callees alone.        *)
LEMMA LeavingStackInv ==
    ASSUME FieldsOK, CodeInv, BaseInv, StackInv,
           BadCall \/ BadIndex \/ BadBind \/ AbortFails \/ Crash \/ Ret \/ Halt
    PROVE  StackInv'
<1>1. /\ UNCHANGED <<prgm, chunk, frames, upvals, unanswered>>
      /\ run' \in {"return", "halted", "crashed"}
  BY DEF BadCall, BadIndex, BadBind, AbortFails, Fail, Crash, Ret, Halt, frame_vars, history_vars
<1>2. /\ DOMAIN stack' = DOMAIN stack
      /\ \A slot \in DOMAIN stack :
            stack'[slot] = stack[slot] \/ (Ret /\ slot \in {0, sp + 1})
  <2>1. CASE Ret
    <3>1. \/ stack' = [stack EXCEPT ![0] = Top]
          \/ stack' = [stack EXCEPT ![sp + 1] = Nil]
          \/ stack' = stack
      BY <2>1 DEF Ret
    <3>. QED  BY <2>1, <3>1
  <2>2. CASE ~Ret
    BY <2>2 DEF BadCall, BadIndex, BadBind, AbortFails, Fail, Crash, Halt
  <2>. QED  BY <2>1, <2>2
<1>3. ASSUME ~Sinks, NEW n \in DOMAIN frames
      PROVE  stack'[frames[n].slot] = stack[frames[n].slot]
  <2>1. /\ frames[n].slot \in DOMAIN stack /\ frames[n].slot \in Int
        /\ frames[n].slot > Reserved(prgm[1])
        /\ frames[n].slot <= Base(Len(frames)) /\ 1 \in DOMAIN prgm
    BY <1>3, FrameFacts DEF StackInv
  <2>2. Reserved(prgm[1]) \in Nat
    BY <1>3, <2>1, FirstInside, HeightFacts DEF Sinks
  <2>3. CASE Ret
    <3>1. run = "exec" /\ sp \in Int
      BY <2>3 DEF Ret, At, FieldsOK
    <3>2. /\ sp >= FloorAt(Len(frames), chunk) + HeightAt(chunk, ip)
          /\ FloorAt(Len(frames), chunk)
               = Base(Len(frames)) + Argc(Len(frames)) + Reserved(Code)
          /\ Base(Len(frames)) \in Nat /\ Argc(Len(frames)) \in Nat
      BY <1>3, <3>1, FrameFacts DEF StackInv, OperandsInv
    <3>3. HeightAt(chunk, ip) \in Int /\ HeightAt(chunk, ip) >= 0 /\ Reserved(Code) \in Nat
      <4>1. ip > 1
        <5>1. ip # 1 /\ ip \in Nat \ {0}
          BY <2>3, FirstNeeds, CodeFacts DEF Ret, At, CodeInv, InChunk, Code
        <5>. QED  BY <5>1
      <4>. QED  BY <1>3, <4>1, HeightFacts DEF CodeInv, Sinks, Code
    <3>. QED  BY <1>2, <2>1, <2>2, <3>1, <3>2, <3>3, SMTT(40)
  <2>. QED  BY <1>2, <2>1, <2>3
<1>. QED  BY <1>1, <1>2, <1>3, StackStays DEF Sinks, ShortCircuits

(* A call puts its callee's frame over the operands of the caller.         *)
LEMMA CallStackInv ==
    ASSUME FieldsOK, CodeInv, BaseInv, StackInv, Call \/ CallClosure
    PROVE  StackInv'
<1>1. /\ run = "exec" /\ run' = "exec" /\ Code[ip].op = "call"
      /\ ip' = 1 /\ chunk' \in DOMAIN prgm
      /\ UNCHANGED <<prgm, stack, sp, unanswered>>
  BY DEF Call, CallClosure, Enter, At, mode_vars
<1>2. PICK kind \in {"call", "closure"} :
        /\ frames' = Append(frames, Frame(kind, Wide))
        /\ kind = "call" => upvals' = upvals
        /\ kind = "closure" => /\ stack[sp - Wide].tag = "obj_id"
                               /\ stack[sp - Wide].data = upvals'
  BY DEF Call, CallClosure, Enter
<1>. DEFINE frame == Frame(kind, Wide)
<1>0. PICK size \in Nat : size = Len(frames)
  BY DEF FieldsOK
<1>3. /\ frame.kind = kind /\ frame.chunk = chunk /\ frame.ip = ip + 1 /\ frame.bp = bp
      /\ frame.slot = sp - Wide /\ frame.argc = Wide
  BY DEF Frame, CalleeBp
<1>4. frame \in FrameSet
  <2>1. /\ chunk \in Nat /\ ip \in Nat /\ sp \in Int /\ bp \in Int /\ Wide \in Int
    BY CodeFacts DEF CodeInv, FieldsOK, Wide, Code
  <2>. QED  BY <2>1 DEF Frame, FrameSet, CalleeBp
<1>. HIDE DEF frame
<1>5. /\ frames' \in Seq(FrameSet) /\ frames' # <<>> /\ size \in Nat
      /\ Len(frames') = size + 1
      /\ DOMAIN frames = 1 .. size /\ DOMAIN frames' = 1 .. size + 1
      /\ \A n \in DOMAIN frames : frames'[n] = frames[n]
      /\ frames'[size + 1] = frame
  BY <1>0, <1>2, <1>4, FramesPushed DEF FieldsOK, frame
<1>6. BottomInv'
  <2>1. frames = <<>> => chunk = 1 /\ size = 0
    BY <1>5 DEF StackInv, BottomInv
  <2>2. frames # <<>> => frames[1].chunk = 1 /\ 1 \in DOMAIN frames
    BY <1>5 DEF StackInv, BottomInv, FieldsOK
  <2>. QED  BY <1>3, <1>5, <2>1, <2>2 DEF BottomInv
<1>7. (Sinks' <=> Sinks) /\ DOMAIN stack' = 0 .. MaxSp
  BY <1>1 DEF Sinks, ShortCircuits, StackInv
<1>8. ASSUME ~Sinks
      PROVE  /\ Wide \in Nat /\ frame.slot \in 0 .. MaxSp /\ frame.slot > Base(size)
             /\ frame.slot > FloorAt(size, chunk)
             /\ frame.slot >= FloorAt(size, chunk) + HeightAt(chunk, ip + 1)
  <2>1. /\ sp >= FloorAt(size, chunk) + HeightAt(chunk, ip) /\ sp <= MaxSp
        /\ FloorAt(size, chunk) \in Nat /\ Base(size) \in Nat
        /\ FloorAt(size, chunk) = Base(size) + Argc(size) + Reserved(Code)
        /\ Argc(size) \in Nat /\ sp \in Int /\ MaxSp \in Nat
    BY <1>0, <1>1, <1>8, FrameFacts, VMAssumption DEF StackInv, OperandsInv, FieldsOK
  <2>2. InChunk(chunk, ip) /\ InChunk(chunk, ip + 1) /\ ip > 1
    <3>1. InChunk(chunk, ip) /\ InChunk(chunk, ip + 1)
      BY <1>1, Onward DEF CodeInv, Inside
    <3>2. ip # 1 /\ ip \in Nat \ {0}
      BY <1>1, <3>1, FirstNeeds, CodeFacts DEF InChunk, Code
    <3>. QED  BY <3>1, <3>2
  <2>3. /\ HeightAt(chunk, ip) \in Int /\ HeightAt(chunk, ip + 1) \in Int
        /\ Wide \in Nat /\ HeightAt(chunk, ip) >= Needs(Code[ip]) /\ Reserved(Code) \in Nat
    BY <1>1, <1>8, <2>2, HeightFacts DEF Sinks, Code, Wide
  <2>4. Needs(Code[ip]) = Wide + 1 /\ Change(Code[ip]) = -Wide
    BY <1>1, OperandsOf DEF Wide
  <2>5. HeightAt(chunk, ip + 1) <= HeightAt(chunk, ip) - Wide
    <3>1. Onto(ip + 1, -Wide) \in After(Code, ip)
      BY <1>1, <2>4 DEF After
    <3>2. HeightAt(chunk, Onto(ip + 1, -Wide).to)
             <= HeightAt(chunk, ip) + Onto(ip + 1, -Wide).change
      BY <1>8, <2>2, <3>1, HeightFacts DEF Sinks, Code
    <3>. QED  BY <2>3, <3>2 DEF Onto
  <2>. QED  BY <1>3, <2>1, <2>3, <2>4, <2>5
<1>9. SlotsInv'
  <2>1. SUFFICES ASSUME ~Sinks
        PROVE  /\ \A n \in DOMAIN frames' :
                    /\ frames'[n].argc \in Nat /\ frames'[n].slot \in 0 .. MaxSp
                    /\ frames'[n].slot > FloorAt(n - 1, frames[n].chunk)'
                    /\ frames'[n].slot >= FloorAt(n - 1, frames[n].chunk)'
                                            + HeightAt(frames[n].chunk, frames[n].ip)'
               /\ \A m, n \in DOMAIN frames' : m < n => frames'[m].slot < frames'[n].slot
    BY <1>7 DEF SlotsInv
  <2>2. \A n \in 0 .. size : \A c : FloorAt(n, c)' = (Base(n) + Argc(n) + Reserved(prgm[c]))
    BY <1>1, <1>5 DEF FloorAt, Base, Argc
  <2>3. ASSUME NEW n \in DOMAIN frames'
        PROVE  /\ frames'[n].argc \in Nat /\ frames'[n].slot \in 0 .. MaxSp
               /\ frames'[n].slot > FloorAt(n - 1, frames[n].chunk)'
               /\ frames'[n].slot >= FloorAt(n - 1, frames[n].chunk)'
                                       + HeightAt(frames[n].chunk, frames[n].ip)'
    <3>1. FloorAt(n - 1, frames[n].chunk)' = FloorAt(n - 1, frames'[n].chunk)
      BY <1>5, <2>2, <2>3 DEF FloorAt
    <3>2. HeightAt(frames[n].chunk, frames[n].ip)' = HeightAt(frames'[n].chunk, frames'[n].ip)
      BY <1>1 DEF HeightAt
    <3>3. CASE n \in DOMAIN frames
      BY <1>5, <2>1, <3>1, <3>2, <3>3 DEF StackInv, SlotsInv
    <3>4. CASE n = size + 1
      BY <1>3, <1>5, <1>8, <2>1, <3>1, <3>2, <3>4
    <3>. QED  BY <1>5, <3>3, <3>4
  <2>4. ASSUME NEW m \in DOMAIN frames', NEW n \in DOMAIN frames', m < n
        PROVE  frames'[m].slot < frames'[n].slot
    <3>1. m \in DOMAIN frames
      BY <1>5, <2>4
    <3>2. CASE n \in DOMAIN frames
      BY <1>5, <2>1, <2>4, <3>1, <3>2 DEF StackInv, SlotsInv
    <3>3. CASE n = size + 1
      <4>1. frames[m].slot <= Base(size) /\ frames[m].slot \in Nat /\ Base(size) \in Nat
        BY <1>0, <2>1, <3>1, FrameFacts
      <4>. QED  BY <1>5, <1>8, <2>1, <3>1, <3>3, <4>1
    <3>. QED  BY <1>5, <3>2, <3>3
  <2>. QED  BY <2>3, <2>4
<1>10. OperandsInv'
  <2>1. SUFFICES ASSUME ~Sinks
                 PROVE  sp <= MaxSp /\ sp >= FloorAt(Len(frames), chunk)' + HeightAt(chunk, 1)'
    BY <1>1, <1>7 DEF OperandsInv, HeightAt
  <2>2. FloorAt(Len(frames), chunk)' = frame.slot + Wide + Reserved(prgm[chunk'])
    BY <1>1, <1>3, <1>5 DEF FloorAt, Base, Argc
  <2>3. HeightAt(chunk, 1)' = -Reserved(prgm[chunk']) /\ Reserved(prgm[chunk']) \in Nat
    BY <1>1, <2>1, FirstInside, HeightFacts DEF Sinks, HeightAt
  <2>4. sp <= MaxSp /\ sp \in Int /\ Wide \in Nat /\ frame.slot = sp - Wide
    BY <1>1, <1>3, <1>8, <2>1 DEF StackInv, OperandsInv, FieldsOK
  <2>. QED  BY <2>2, <2>3, <2>4
<1>11. UpvalsInv'
  <2>1. SUFFICES ASSUME upvals' # DUD_HEAP_ID
                 PROVE  \E m \in DOMAIN frames' : Innermost(m)' /\ (~Sinks => Captured(m)')
    BY <1>7 DEF UpvalsInv
  <2>2. CASE kind = "closure"
    <3>1. size + 1 \in DOMAIN frames' /\ \A n \in DOMAIN frames' : ~(n > size + 1)
      BY <1>5
    <3>2. Innermost(size + 1)' /\ Captured(size + 1)'
      BY <1>1, <1>2, <1>3, <1>5, <2>2, <3>1 DEF Innermost, Captured
    <3>. QED  BY <3>1, <3>2
  <2>3. CASE kind = "call"
    <3>1. PICK m \in DOMAIN frames : Innermost(m) /\ (~Sinks => Captured(m))
      BY <1>2, <2>1, <2>3 DEF StackInv, UpvalsInv
    <3>2. m \in DOMAIN frames' /\ Innermost(m)'
      BY <1>3, <1>5, <2>3, <3>1 DEF Innermost
    <3>3. ~Sinks => Captured(m)'
      BY <1>1, <1>2, <1>5, <2>3, <3>1 DEF Captured
    <3>. QED  BY <3>2, <3>3
  <2>. QED  BY <2>2, <2>3
<1>. QED  BY <1>6, <1>7, <1>9, <1>10, <1>11 DEF StackInv

(* A call that has returned leaves its result over its caller's operands.  *)
LEMMA UnwindStackInv ==
    ASSUME FieldsOK, CodeInv, BaseInv, StackInv, Unwind
    PROVE  StackInv'
<1>. DEFINE frame == Last(frames)
<1>0. PICK size \in Nat : size = Len(frames)
  BY DEF FieldsOK
<1>1. /\ frames # <<>> /\ frames' = Front(frames)
      /\ stack' = [stack EXCEPT ![frame.slot] = Top] /\ sp' = frame.slot
      /\ chunk' = frame.chunk /\ ip' = frame.ip
      /\ upvals' = IF frame.kind = "closure" THEN DUD_HEAP_ID ELSE upvals
      /\ UNCHANGED <<prgm, unanswered>>
  BY DEF Unwind, UpvalsAfter, host_vars
<1>2. /\ frames' \in Seq(FrameSet) /\ size # 0 /\ Len(frames') = size - 1
      /\ DOMAIN frames = 1 .. size /\ DOMAIN frames' = 1 .. size - 1
      /\ frames' = <<>> <=> size = 1
      /\ \A n \in DOMAIN frames' : frames'[n] = frames[n]
      /\ frame = frames[size] /\ size \in DOMAIN frames
  BY <1>0, <1>1, FramesPopped DEF FieldsOK
<1>. HIDE DEF frame
<1>3. BottomInv'
  <2>1. frames[1].chunk = 1
    BY <1>1 DEF StackInv, BottomInv
  <2>2. CASE size = 1
    BY <1>1, <1>2, <2>1, <2>2 DEF BottomInv
  <2>3. CASE size # 1
    <3>1. 1 \in DOMAIN frames'
      BY <1>2, <2>3
    <3>. QED  BY <1>2, <2>1, <2>3, <3>1 DEF BottomInv
  <2>. QED  BY <2>2, <2>3
<1>4. (Sinks' <=> Sinks) /\ DOMAIN stack' = 0 .. MaxSp
  BY <1>1 DEF Sinks, ShortCircuits, StackInv
<1>5. \A n \in 0 .. size - 1 : Base(n)' = Base(n) /\ Argc(n)' = Argc(n)
  BY <1>2 DEF Base, Argc
<1>6. SlotsInv'
  <2>1. SUFFICES ASSUME ~Sinks
        PROVE  /\ \A n \in DOMAIN frames' :
                    /\ frames'[n].argc \in Nat /\ frames'[n].slot \in 0 .. MaxSp
                    /\ frames'[n].slot > FloorAt(n - 1, frames[n].chunk)'
                    /\ frames'[n].slot >= FloorAt(n - 1, frames[n].chunk)'
                                            + HeightAt(frames[n].chunk, frames[n].ip)'
               /\ \A m, n \in DOMAIN frames' : m < n => frames'[m].slot < frames'[n].slot
    BY <1>4 DEF SlotsInv
  <2>2. ASSUME NEW n \in DOMAIN frames'
        PROVE  /\ frames'[n].argc \in Nat /\ frames'[n].slot \in 0 .. MaxSp
               /\ frames'[n].slot > FloorAt(n - 1, frames[n].chunk)'
               /\ frames'[n].slot >= FloorAt(n - 1, frames[n].chunk)'
                                       + HeightAt(frames[n].chunk, frames[n].ip)'
    <3>1. /\ n \in DOMAIN frames /\ n - 1 \in 0 .. size - 1 /\ frames'[n] = frames[n]
      BY <1>2, <2>2
    <3>2. FloorAt(n - 1, frames[n].chunk)' = FloorAt(n - 1, frames[n].chunk)
      BY <1>1, <1>5, <3>1 DEF FloorAt
    <3>3. HeightAt(frames[n].chunk, frames[n].ip)' = HeightAt(frames[n].chunk, frames[n].ip)
      BY <1>1, <3>1 DEF HeightAt
    <3>. QED  BY <2>1, <3>1, <3>2, <3>3 DEF StackInv, SlotsInv
  <2>3. ASSUME NEW m \in DOMAIN frames', NEW n \in DOMAIN frames', m < n
        PROVE  frames'[m].slot < frames'[n].slot
    BY <1>2, <2>1, <2>3 DEF StackInv, SlotsInv
  <2>. QED  BY <2>2, <2>3
<1>7. OperandsInv'
  <2>1. SUFFICES ASSUME ~Sinks
                 PROVE  /\ frame.slot <= MaxSp
                        /\ frame.slot >= FloorAt(Len(frames), chunk)' + HeightAt(chunk, ip)'
    BY <1>1, <1>4 DEF OperandsInv
  <2>2. FloorAt(Len(frames), chunk)' = FloorAt(size - 1, frame.chunk)
    <3>1. size - 1 \in 0 .. size - 1
      BY <1>2
    <3>2. Base(size - 1)' = Base(size - 1) /\ Argc(size - 1)' = Argc(size - 1)
      BY <1>5, <3>1
    <3>3. Base(Len(frames))' = Base(size - 1)' /\ Argc(Len(frames))' = Argc(size - 1)'
      BY <1>2 DEF Base, Argc
    <3>. QED  BY <1>1, <3>2, <3>3 DEF FloorAt
  <2>3. HeightAt(chunk, ip)' = HeightAt(frame.chunk, frame.ip)
    BY <1>1 DEF HeightAt
  <2>4. /\ frame.slot \in 0 .. MaxSp
        /\ frame.slot >= FloorAt(size - 1, frame.chunk) + HeightAt(frame.chunk, frame.ip)
    BY <1>2, <2>1 DEF StackInv, SlotsInv
  <2>. QED  BY <2>2, <2>3, <2>4, VMAssumption
<1>8. UpvalsInv'
  <2>1. SUFFICES ASSUME upvals' # DUD_HEAP_ID
                 PROVE  \E m \in DOMAIN frames' : Innermost(m)' /\ (~Sinks => Captured(m)')
    BY <1>4 DEF UpvalsInv
  <2>2. upvals' = upvals /\ frame.kind # "closure"
    BY <1>1, <2>1
  <2>3. PICK m \in DOMAIN frames : Innermost(m) /\ (~Sinks => Captured(m))
    BY <2>1, <2>2 DEF StackInv, UpvalsInv
  <2>4. m # size /\ m \in DOMAIN frames' /\ m < size
    BY <1>2, <2>2, <2>3 DEF Innermost
  <2>5. Innermost(m)'
    BY <1>2, <2>3, <2>4 DEF Innermost
  <2>6. ASSUME ~Sinks PROVE Captured(m)'
    <3>1. /\ frames[m].slot < frames[size].slot /\ frames[m].slot \in DOMAIN stack
          /\ frames[m].slot \in Int /\ frames[size].slot \in Int
      BY <1>2, <2>4, <2>6 DEF StackInv, SlotsInv
    <3>2. stack'[frames[m].slot] = stack[frames[m].slot]
      BY <1>1, <1>2, <3>1
    <3>. QED  BY <1>2, <2>2, <2>3, <2>4, <2>6, <3>2 DEF Captured
  <2>. QED  BY <2>4, <2>5, <2>6
<1>. QED  BY <1>3, <1>4, <1>6, <1>7, <1>8 DEF StackInv

(* Before its RESERVE the entry has its arguments over its floor.          *)
LEMMA EntryFits ==
    ASSUME FieldsOK, ~ShortCircuits, frames = <<>>
    PROVE  FloorAt(Len(frames), 1) + HeightAt(1, 1) = 0
<1>1. 1 \in DOMAIN prgm
  BY VMAssumption DEF FieldsOK
<1>2. HeightAt(1, 1) = -Reserved(prgm[1]) /\ Reserved(prgm[1]) \in Nat
  BY <1>1, FirstInside, HeightFacts
<1>3. FloorAt(Len(frames), 1) = Reserved(prgm[1])
  BY <1>2 DEF FloorAt, Base, Argc
<1>. QED  BY <1>2, <1>3

(* The next invocation starts with an empty C stack.                       *)
LEMMA InvokeStackInv ==
    ASSUME FieldsOK, StackInv, Invoke
    PROVE  StackInv'
<1>1. /\ frames = <<>> /\ frames' = frames /\ chunk' = 1 /\ ip' = 1 /\ prgm' = prgm
      /\ sp' \in 0 .. MaxSp /\ DOMAIN stack' = DOMAIN stack /\ upvals' = upvals
  BY VMAssumption DEF Invoke, FieldsOK
<1>2. BottomInv' /\ SlotsInv'
  BY <1>1 DEF BottomInv, SlotsInv
<1>3. OperandsInv'
  <2>1. ASSUME ~ShortCircuits
        PROVE  FloorAt(Len(frames), chunk)' + HeightAt(chunk, ip)' = 0
    <3>1. FloorAt(Len(frames), 1) + HeightAt(1, 1) = 0
      BY <1>1, <2>1, EntryFits
    <3>2. /\ FloorAt(Len(frames), chunk)' = FloorAt(Len(frames), 1)
          /\ HeightAt(chunk, ip)' = HeightAt(1, 1)
      BY <1>1 DEF FloorAt, Base, Argc, HeightAt
    <3>. QED  BY <3>1, <3>2
  <2>2. ShortCircuits' = ShortCircuits
    BY <1>1 DEF ShortCircuits
  <2>. QED  BY <1>1, <2>1, <2>2, VMAssumption DEF OperandsInv, Sinks
<1>4. UpvalsInv'
  <2>1. upvals = DUD_HEAP_ID
    BY <1>1 DEF StackInv, UpvalsInv
  <2>. QED  BY <1>1, <2>1 DEF UpvalsInv
<1>. QED  BY <1>1, <1>2, <1>3, <1>4 DEF StackInv

(* So does the first.                                                      *)
LEMMA InitStackInv == Init => StackInv
<1>. SUFFICES ASSUME Init PROVE StackInv
  OBVIOUS
<1>1. FieldsOK
  BY InitIInv DEF IInv
<1>2. /\ frames = <<>> /\ chunk = 1 /\ ip = 1 /\ sp = 0 /\ DOMAIN stack = 0 .. MaxSp
      /\ upvals = DUD_HEAP_ID
  BY DEF Init
<1>3. OperandsInv
  BY <1>1, <1>2, EntryFits, VMAssumption DEF OperandsInv, Sinks
<1>. QED  BY <1>2, <1>3 DEF StackInv, BottomInv, SlotsInv, UpvalsInv

(* Every step keeps it.                                                    *)
LEMMA NextStackInv ==
    IInv /\ StackInv /\ [Next]_vars => StackInv'
<1>. SUFFICES ASSUME IInv, StackInv, [Next]_vars PROVE StackInv'
  OBVIOUS
<1>1. FieldsOK /\ CodeInv /\ BaseInv
  BY DEF IInv
<1>2. CASE Plain
  BY <1>1, <1>2, PlainStackInv
<1>3. CASE RaiseErr \/ SeekCatch \/ CatchErr
  BY <1>1, <1>3, ExceptionStackInv
<1>4. CASE BadCall \/ BadIndex \/ BadBind \/ AbortFails \/ Crash \/ Ret \/ Halt
  BY <1>1, <1>4, LeavingStackInv
<1>5. CASE Call \/ CallClosure
  BY <1>1, <1>5, CallStackInv
<1>6. CASE Unwind
  BY <1>1, <1>6, UnwindStackInv
<1>7. CASE Invoke
  BY <1>1, <1>7, InvokeStackInv
<1>8. CASE UNCHANGED vars
  <2>1. /\ UNCHANGED <<prgm, chunk, frames, upvals, stack, unanswered, run, sp, ip>>
    BY <1>8 DEF vars
  <2>. QED  BY <2>1 DEF StackInv, BottomInv, SlotsInv, OperandsInv, UpvalsInv, Sinks,
                 ShortCircuits, FloorAt, Base, Argc, HeightAt, Innermost, Captured
<1>9. Next \/ UNCHANGED vars
  OBVIOUS
<1>10. \/ Plain \/ RaiseErr \/ SeekCatch \/ CatchErr \/ Call \/ CallClosure
       \/ BadCall \/ BadIndex \/ BadBind \/ AbortFails \/ Crash
       \/ Ret \/ Unwind \/ Halt \/ Invoke \/ UNCHANGED vars
  BY <1>9, Zenon DEF Next, Plain, Over
<1>. QED  BY <1>2, <1>3, <1>4, <1>5, <1>6, <1>7, <1>8, <1>10

(* It holds in every state.                                                *)
LEMMA SpecStackInv == Spec => []StackInv
BY SpecIInv, InitStackInv, NextStackInv, PTL DEF Spec

-----------------------------------------------------------------------------
(* Theorems                                                                *)

(* Control never leaves the code of the program: the dispatcher reads an   *)
(* instruction of a chunk, and every C activation returns to one.          *)
THEOREM CodeNeverLeft == Spec => []CodeInv
<1>1. IInv => CodeInv
  BY DEF IInv
<1> QED BY <1>1, SpecIInv, PTL

(* vm.c:936 and 971: for any nesting of calls, closures and exceptions and *)
(* any failing handler, depth is the count of what is open, modulo the     *)
(* width of the field.                                                     *)
THEOREM DepthIsExact == Spec => []DepthExact
<1>1. IInv => DepthExact
  BY DEF IInv, DepthInv
<1> QED BY <1>1, SpecIInv, PTL

(* vm.c:930-942 and obj_closure.c:69-83: whatever leaves a call, the       *)
(* caller gets its own base back.                                          *)
THEOREM BasesReturn == Spec => []BaseIsCalleeSlot
<1>1. IInv => BaseIsCalleeSlot
  BY DEF IInv, BaseInv
<1> QED BY <1>1, SpecIInv, PTL

(* vm.c:1018 and 1482: no code of a program runs into a CATCH; it is only  *)
(* reached by an exception that nothing has caught.                        *)
THEOREM CatchOnlyThrown == Spec => []CatchNeedsThrow
<1>1. IInv => CatchNeedsThrow
  BY DEF IInv, CatchInv, CatchNeedsThrow, At
<1> QED BY <1>1, SpecIInv, PTL

(* driver.c:165, vm.c:971 and 1504: the exit status tells whether the      *)
(* program succeeded.                                                      *)
THEOREM OutcomeIsExact == Spec => []OutcomeExact
<1>1. IInv => OutcomeExact
  BY DEF IInv, OutcomeInv, OutcomeExact, DriverResult
<1> QED BY <1>1, SpecIInv, PTL

(* vm.c:981 and tb_api.h:138: an invocation that begins in a search was    *)
(* left one by an invocation in which a handler had failed.                *)
THEOREM SearchesEnd == Spec => BeginsAfresh
<1>1. IInv /\ [Next]_vars => [invocation' > invocation /\ carried' => lost > 0]_vars
  <2> SUFFICES ASSUME IInv, Next, invocation' > invocation, carried'
               PROVE  lost > 0
    BY DEF vars
  <2>1. FieldsOK /\ CodeInv /\ SeekInv /\ invocation \in 1 .. 2
    BY DEF IInv, FieldsOK
  <2>2. CASE Invoke
    <3>1. run = "halted" /\ invocation = 1 /\ dispatcher = "vm_seek_catch"
      BY <2>2 DEF Invoke
    <3> QED BY <2>1, <3>1 DEF SeekInv, FieldsOK
  <2>3. CASE ~Invoke
    <3>1. invocation' = invocation
      BY <2>1, <2>3, StepKinds
         DEF Advances, Throws, Seeks_, Catches_, Enters, Fails, Crashes, Ret, Unwind,
             Halt, vars, frame_vars, host_vars
    <3> QED BY <2>1, <3>1
  <2> QED BY <2>2, <2>3
<1> QED BY <1>1, SpecIInv, PTL DEF Spec, BeginsAfresh

(* vm.c:1394 and compiler.c:1634: with the flag set an exception goes to   *)
(* the CATCH of the innermost TRY it is written in, however TRYs nest in   *)
(* and follow each other, and out of the function when it is in none.      *)
THEOREM HandlersAreRight == Spec => ArmedFindsHandler
<1>1. IInv /\ [Next]_vars => [Seeks /\ trying_except => ip' = RightHandler(Site)]_vars
  <2> SUFFICES ASSUME IInv, Next, Seeks, trying_except PROVE ip' = RightHandler(Site)
    BY DEF vars
  <2>1. /\ FieldsOK /\ CodeInv /\ WellFormed(Code) /\ ip \in DOMAIN Code /\ ip \in Nat \ {0}
        /\ DOMAIN Code = 1 .. Len(Code) /\ Len(Code) \in Nat
    BY CodeFacts DEF IInv, CodeInv, InChunk, Code
  <2>2. CASE RaiseErr
    <3>1. Dispatches /\ Code[ip].op = "raise_err" /\ ip' = HandlerFrom(ip)
      BY <2>2 DEF RaiseErr, At, Step, GoTo
    <3>2. InChunk(chunk, ip + 1)
      BY <2>1, <3>1, NextInside DEF CodeInv, Code
    <3>3. Len(Code) # 2 \/ Code[1].op # "native_call"
      BY <2>1, <3>1 DEF WellFormed, Last
    <3>4. Last(Code).flag = TBASIC_RET_MARK_LAST
      BY <2>1, <3>3 DEF WellFormed
    <3>5. HandlerFrom(ip + 1) = RightHandler(ip)
      BY <2>1, <3>2, <3>4, ScanIsRight DEF InChunk, Code
    <3>. QED  BY <2>1, <3>1, <3>5, ScanFromThrow DEF Site
  <2>3. CASE SeekCatch
    <3>1. ~Dispatches /\ ip' = HandlerFrom(ip) /\ ip > 2
      BY <2>1, <2>3 DEF SeekCatch, Dispatches
    <3>2. Last(Code).flag = TBASIC_RET_MARK_LAST
      BY <2>1, <3>1 DEF WellFormed
    <3>3. ip - 1 \in Nat \ {0} /\ (ip - 1) + 1 = ip
      BY <2>1, <3>1
    <3>4. HandlerFrom((ip - 1) + 1) = RightHandler(ip - 1)
      BY <2>1, <3>2, <3>3, ScanIsRight
    <3>. QED  BY <3>1, <3>3, <3>4 DEF Site
  <2>. QED  BY <2>2, <2>3, SeekersSeek
<1>. QED  BY <1>1, SpecIInv, PTL DEF Spec, ArmedFindsHandler

(* vm.c:911 and compiler.c:228: whatever calls, exceptions and failed      *)
(* handlers come, code finds its operands over its arguments and locals,   *)
(* and never writes them by pushing, when every call has left its answer   *)
(* and the program has no && or ||.                                        *)
THEOREM OperandsStay == Spec => []OperandsInFrame
<1>1. IInv /\ StackInv => OperandsInFrame
  <2>. SUFFICES ASSUME IInv, StackInv, run = "exec", ip > 1, ~Sinks PROVE ~(sp < Floor)
    BY DEF OperandsInFrame
  <2>1. FieldsOK /\ CodeInv /\ BaseInv
    BY DEF IInv
  <2>2. /\ sp >= FloorAt(Len(frames), chunk) + HeightAt(chunk, ip) /\ sp \in Int
        /\ FloorAt(Len(frames), chunk) \in Nat
    BY <2>1, FrameFacts DEF StackInv, OperandsInv, FieldsOK
  <2>3. HeightAt(chunk, ip) \in Int /\ HeightAt(chunk, ip) >= 0
    BY <2>1, HeightFacts DEF CodeInv, Sinks
  <2>4. Floor = FloorAt(Len(frames), chunk)
    <3>1. Floor = bp + Argc(Len(frames)) + Reserved(Code)
      BY <2>1 DEF Floor, Argc, FieldsOK, Last
    <3>. QED  BY <2>1, <3>1, FrameFacts
  <2>. QED  BY <2>2, <2>3, <2>4
<1>. QED  BY <1>1, SpecIInv, SpecStackInv, PTL

(* obj_closure.c:69-83: while a closure runs, upvals points at its own     *)
(* captures or at none, for any nesting of calls and closures.             *)
THEOREM CapturesAreItsOwn == Spec => []UpvalsOfInnermost
<1>1. IInv /\ StackInv => UpvalsOfInnermost
  <2>. SUFFICES ASSUME IInv, StackInv, run = "exec", upvals # DUD_HEAP_ID
                PROVE  LET closures == {n \in DOMAIN frames : frames[n].kind = "closure"}
                           callee == stack[frames[Max(closures)].slot]
                       IN  /\ closures # {}
                           /\ \/ Sinks
                              \/ callee.tag = "obj_id" /\ callee.data = upvals
    BY DEF UpvalsOfInnermost
  <2>. DEFINE closures == {n \in DOMAIN frames : frames[n].kind = "closure"}
  <2>1. PICK m \in DOMAIN frames : Innermost(m) /\ (~Sinks => Captured(m))
    BY DEF StackInv, UpvalsInv
  <2>2. m \in closures /\ \A n \in closures : m >= n /\ (n >= m => n = m)
    BY <2>1 DEF Innermost, IInv, FieldsOK
  <2>3. Max(closures) = m
    BY <2>2 DEF Max
  <2>. QED  BY <2>1, <2>2, <2>3 DEF Captured
<1>. QED  BY <1>1, SpecIInv, SpecStackInv, PTL
=============================================================================
