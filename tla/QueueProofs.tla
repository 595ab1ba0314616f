---------------------------- MODULE QueueProofs ----------------------------
(***************************************************************************)
(* What a user of the collector's ring buffer can count on, for a ring of  *)
(* any capacity, any items and any order of pushes, pops and resets.       *)
(*                                                                         *)
(* The invariant places the entries: the head stands on the entry of push  *)
(* number Len(got), counting the dud of a fresh queue as push number 0,    *)
(* and the entries up to the last push follow it around the ring.          *)
(***************************************************************************)
EXTENDS QueueUse, TLAPS

Slots == 0 .. Capacity - 1

(* The slot j places after the head.                                       *)
After(head, j) == IF head + j < Capacity THEN head + j ELSE head + j - Capacity

Entry(k) == IF k = 0 THEN Dud ELSE pushed[k]

TypeInv ==
    /\ queue \in [items : [Slots -> Item \cup {Dud}], head : Slots, tail : Slots]
    /\ pushed \in Seq(Item)
    /\ got \in Seq(Item \cup {Dud})
    /\ refused \in BOOLEAN

Placed ==
    LET waiting == Len(pushed) - Len(got)
    IN  /\ waiting \in 0 .. Capacity - 1
        /\ queue.tail = After(queue.head, waiting)
        /\ \A j \in 0 .. waiting :
              queue.items[After(queue.head, j)] = Entry(Len(got) + j)

IInv == TypeInv /\ (~refused => Placed /\ LagsByOne)

-----------------------------------------------------------------------------

(* Moving a position by one, modulo the capacity.                          *)
LEMMA StepSlot ==
    ASSUME NEW s \in Slots
    PROVE  (s + 1) % Capacity = After(s, 1) /\ After(s, 1) \in Slots
<1>1. Capacity \in Nat \ {0}
  BY QueueAssumption
<1>2. CASE s + 1 < Capacity
  BY <1>1, <1>2 DEF Slots, After
<1>3. CASE s + 1 = Capacity
  BY <1>1, <1>3 DEF Slots, After
<1> QED
  BY <1>1, <1>2, <1>3 DEF Slots

(* Positions of a queue: places on the ring are distinct, and one step     *)
(* leads to the next place.                                                *)
LEMMA AfterFacts ==
    ASSUME NEW h \in Slots, NEW j \in 0 .. Capacity - 1
    PROVE  /\ After(h, j) \in Slots
           /\ After(h, 0) = h
           /\ \A i \in 0 .. Capacity - 1 : After(h, i) = After(h, j) => i = j
           /\ After(h, j) = h => j = 0
           /\ j + 1 < Capacity => After(After(h, j), 1) = After(h, j + 1)
           /\ j + 1 = Capacity => After(After(h, j), 1) = h
           /\ j + 1 < Capacity => After(After(h, 1), j) = After(h, j + 1)
  BY QueueAssumption DEF Slots, After

(* The fresh queue satisfies the invariant.                                *)
LEMMA FreshInv ==
    ASSUME queue = New, pushed = <<>>, got = <<>>, refused = FALSE
    PROVE  IInv
<1>1. Capacity \in Nat \ {0}
  BY QueueAssumption
<1>2. TypeInv
  <2>1. [slot \in 0 .. Capacity - 1 |-> Dud] \in [Slots -> Item \cup {Dud}]
    BY DEF Slots
  <2>2. 0 \in Slots
    BY <1>1 DEF Slots
  <2>3. queue \in [items : [Slots -> Item \cup {Dud}], head : Slots, tail : Slots]
    BY <2>1, <2>2 DEF New
  <2>4. pushed \in Seq(Item) /\ got \in Seq(Item \cup {Dud})
    OBVIOUS
  <2> QED
    BY <2>3, <2>4 DEF TypeInv
<1>3. Placed
  BY <1>1 DEF Placed, New, After, Entry
<1>4. LagsByOne
  BY DEF LagsByOne
<1> QED
  BY <1>2, <1>3, <1>4 DEF IInv

(* IdQueue_push preserves the invariant, also when it is refused.          *)
LEMMA PushInv ==
    ASSUME IInv, NEW x \in Item, Push(x)
    PROVE  IInv'
<1> DEFINE p == Len(pushed)
           d == Len(got)
           w == p - d
           h == queue.head
           t == queue.tail
           t1 == (t + 1) % Capacity
<1>1. /\ Capacity \in Nat \ {0}
      /\ TypeInv
      /\ h \in Slots /\ t \in Slots /\ p \in Nat /\ d \in Nat
  BY QueueAssumption DEF IInv, TypeInv
<1>2. t1 = After(t, 1) /\ t1 \in Slots
  BY <1>1, StepSlot
<1>3. /\ queue' = [queue EXCEPT !.items = [@ EXCEPT ![t1] = x], !.tail = t1]
      /\ pushed' = Append(pushed, x)
      /\ got' = got
      /\ refused' = (refused \/ ~PushOk(queue, x))
  BY DEF Push, Pushed
<1>4. /\ queue'.items = [queue.items EXCEPT ![t1] = x]
      /\ queue'.head = h
      /\ queue'.tail = t1
  BY <1>1, <1>3 DEF TypeInv
<1>5. TypeInv'
  <2>1. queue'.items \in [Slots -> Item \cup {Dud}]
    BY <1>1, <1>2, <1>4 DEF TypeInv
  <2>2. queue' \in [items : [Slots -> Item \cup {Dud}], head : Slots, tail : Slots]
    BY <1>1, <1>2, <1>3, <2>1 DEF TypeInv
  <2>3. pushed' \in Seq(Item) /\ refused' \in BOOLEAN
    BY <1>1, <1>3 DEF TypeInv, PushOk, Exhausted
  <2> QED
    BY <1>1, <1>3, <2>2, <2>3 DEF TypeInv
<1>6. ASSUME ~refused'
      PROVE  Placed' /\ LagsByOne'
  <2>1. /\ ~refused
        /\ Placed
        /\ LagsByOne
        /\ t1 # h
    BY <1>1, <1>3, <1>4, <1>6 DEF PushOk, Exhausted, IInv, Push
  <2>2. /\ w \in 0 .. Capacity - 1
        /\ t = After(h, w)
        /\ \A j \in 0 .. w : queue.items[After(h, j)] = Entry(d + j)
    BY <2>1 DEF Placed
  <2>3. w + 1 \in 0 .. Capacity - 1 /\ t1 = After(h, w + 1)
    <3>1. w + 1 \in 0 .. Capacity - 1 \/ w + 1 = Capacity
      BY <1>1, <2>2
    <3> QED
      BY <1>1, <1>2, <2>1, <2>2, <3>1, AfterFacts
  <2>4. /\ Len(pushed') = p + 1
        /\ pushed'[p + 1] = x
        /\ \A k \in 1 .. p : pushed'[k] = pushed[k]
    BY <1>1, <1>3 DEF TypeInv
  <2>5. Len(pushed') - Len(got') = w + 1
    BY <1>1, <1>3, <2>4
  <2>6. ASSUME NEW j \in 0 .. w + 1
        PROVE  queue'.items[After(h, j)] = Entry(d + j)'
    <3>1. After(h, j) \in Slots
      <4>1. j \in 0 .. Capacity - 1
        BY <1>1, <2>3
      <4> QED
        BY <1>1, <4>1, AfterFacts
    <3>2. CASE j = w + 1
      <4>1. queue'.items[After(h, j)] = x
        BY <1>1, <1>2, <1>4, <2>3, <3>2 DEF TypeInv
      <4>2. d + j = p + 1
        BY <1>1, <2>2, <3>2
      <4>3. Entry(d + j)' = x
        BY <1>1, <1>3, <2>4, <4>2 DEF Entry
      <4> QED
        BY <4>1, <4>3
    <3>3. CASE j # w + 1
      <4>1. After(h, j) # t1
        <5>1. j \in 0 .. Capacity - 1
          BY <1>1, <2>3
        <5> QED
          BY <1>1, <2>3, <3>3, <5>1, AfterFacts
      <4>2. queue'.items[After(h, j)] = queue.items[After(h, j)]
        BY <1>1, <1>4, <3>1, <4>1 DEF TypeInv
      <4>3. j \in 0 .. w
        BY <2>2, <3>3
      <4>4. d + j \in 0 .. p
        BY <1>1, <2>2, <4>3
      <4>5. Entry(d + j)' = Entry(d + j)
        BY <1>1, <1>3, <2>4, <4>4 DEF Entry
      <4> QED
        BY <2>2, <4>2, <4>3, <4>5
    <3> QED
      BY <3>2, <3>3
  <2>7. Placed'
    BY <1>4, <2>3, <2>5, <2>6, <1>3 DEF Placed
  <2>8. LagsByOne'
    <3>1. ASSUME NEW k \in DOMAIN got
          PROVE  got[k] = IF k = 1 THEN Dud ELSE pushed'[k - 1]
      <4>1. k \in 1 .. d /\ d <= p
        BY <1>1, <2>2 DEF TypeInv
      <4>2. got[k] = IF k = 1 THEN Dud ELSE pushed[k - 1]
        BY <2>1 DEF LagsByOne
      <4>3. k # 1 => k - 1 \in 1 .. p
        BY <1>1, <4>1
      <4> QED
        BY <2>4, <4>2, <4>3
    <3> QED
      BY <1>3, <3>1 DEF LagsByOne
  <2> QED
    BY <2>7, <2>8
<1> QED
  BY <1>5, <1>6 DEF IInv

(* IdQueue_pop preserves it when there is something to pop.                *)
LEMMA PopInv ==
    ASSUME IInv, Pop
    PROVE  IInv'
<1> DEFINE p == Len(pushed)
           d == Len(got)
           w == p - d
           h == queue.head
           t == queue.tail
           h1 == (h + 1) % Capacity
<1>1. /\ Capacity \in Nat \ {0}
      /\ TypeInv
      /\ h \in Slots /\ t \in Slots /\ p \in Nat /\ d \in Nat
  BY QueueAssumption DEF IInv, TypeInv
<1>2. h1 = After(h, 1) /\ h1 \in Slots
  BY <1>1, StepSlot
<1>3. /\ h # t
      /\ queue' = [queue EXCEPT !.head = h1]
      /\ got' = Append(got, queue.items[h])
      /\ pushed' = pushed
      /\ refused' = refused
  BY DEF Pop, Popped, PopValue, Exhausted
<1>4. /\ queue'.items = queue.items
      /\ queue'.head = h1
      /\ queue'.tail = t
  BY <1>1, <1>3 DEF TypeInv
<1>5. TypeInv'
  BY <1>1, <1>2, <1>3, <1>4 DEF TypeInv
<1>6. ASSUME ~refused'
      PROVE  Placed' /\ LagsByOne'
  <2>1. /\ Placed
        /\ LagsByOne
        /\ ~refused
    BY <1>3, <1>6 DEF IInv
  <2>2. /\ w \in 0 .. Capacity - 1
        /\ t = After(h, w)
        /\ \A j \in 0 .. w : queue.items[After(h, j)] = Entry(d + j)
    BY <2>1 DEF Placed
  <2>3. w >= 1
    <3>1. After(h, 0) = h
      BY <1>1, <2>2, AfterFacts
    <3>2. w # 0
      BY <1>3, <2>2, <3>1
    <3> QED
      BY <2>2, <3>2
  <2>4. /\ Len(got') = d + 1
        /\ got'[d + 1] = queue.items[h]
        /\ \A k \in 1 .. d : got'[k] = got[k]
        /\ DOMAIN got' = 1 .. d + 1
    BY <1>1, <1>3 DEF TypeInv
  <2>5. Len(pushed') - Len(got') = w - 1
    BY <1>1, <1>3, <2>4
  <2>6. t = After(h1, w - 1)
    <3>1. w - 1 \in 0 .. Capacity - 1 /\ (w - 1) + 1 = w /\ w < Capacity
      BY <1>1, <2>2, <2>3
    <3> QED
      BY <1>1, <1>2, <2>2, <3>1, AfterFacts
  <2>7. ASSUME NEW j \in 0 .. w - 1
        PROVE  queue.items[After(h1, j)] = Entry(d + 1 + j)
    <3>1. After(h1, j) = After(h, j + 1)
      <4>1. j \in 0 .. Capacity - 1 /\ j + 1 < Capacity
        BY <1>1, <2>2
      <4> QED
        BY <1>1, <1>2, <4>1, AfterFacts
    <3>2. j + 1 \in 0 .. w /\ d + (j + 1) = d + 1 + j
      BY <1>1, <2>2
    <3> QED
      BY <2>2, <3>1, <3>2
  <2>8. Placed'
    <3>1. \A j \in 0 .. w - 1 : Entry(Len(got) + j)' = Entry(d + 1 + j)
      BY <1>3, <2>4 DEF Entry
    <3>2. w - 1 \in 0 .. Capacity - 1
      BY <1>1, <2>2, <2>3
    <3> QED
      BY <1>3, <1>4, <2>4, <2>5, <2>6, <2>7, <3>1, <3>2 DEF Placed, Entry
  <2>9. LagsByOne'
    <3>1. queue.items[h] = Entry(d)
      <4>1. After(h, 0) = h /\ 0 \in 0 .. w /\ d + 0 = d
        BY <1>1, <2>2, AfterFacts
      <4> QED
        BY <2>2, <4>1
    <3>2. ASSUME NEW k \in 1 .. d + 1
          PROVE  got'[k] = IF k = 1 THEN Dud ELSE pushed[k - 1]
      <4>1. CASE k = d + 1
        BY <1>1, <2>4, <3>1, <4>1 DEF Entry
      <4>2. CASE k # d + 1
        <5>1. k \in 1 .. d /\ k \in DOMAIN got
          BY <1>1, <4>2 DEF TypeInv
        <5> QED
          BY <2>1, <2>4, <5>1 DEF LagsByOne
      <4> QED
        BY <4>1, <4>2
    <3> QED
      BY <1>3, <2>4, <3>2 DEF LagsByOne
  <2> QED
    BY <2>8, <2>9
<1> QED
  BY <1>5, <1>6 DEF IInv

(* IInv holds at the start and every step preserves it.                    *)
LEMMA NextIInv == IInv /\ [QueueNext]_queue_vars => IInv'
<1> SUFFICES ASSUME IInv, [QueueNext]_queue_vars
             PROVE  IInv'
  OBVIOUS
<1>1. CASE Pop
  BY <1>1, PopInv
<1>2. CASE Reset
  <2>1. queue' = New' /\ pushed' = <<>> /\ got' = <<>> /\ refused' = FALSE
    BY <1>2 DEF Reset, New
  <2>2. (queue = New /\ pushed = <<>> /\ got = <<>> /\ refused = FALSE => IInv)'
    BY FreshInv, PTL
  <2> QED
    BY <2>1, <2>2
<1>3. CASE \E x \in Item : Push(x)
  BY <1>3, PushInv
<1>4. CASE UNCHANGED queue_vars
  BY <1>4 DEF queue_vars, IInv, TypeInv, Placed, LagsByOne, Entry, After
<1> QED
  BY <1>1, <1>2, <1>3, <1>4 DEF QueueNext

(* It holds in every reachable state.                                      *)
LEMMA SpecIInv == QueueSpec => []IInv
<1>1. QueueInit => IInv
  BY FreshInv DEF QueueInit
<1> QED
  BY <1>1, NextIInv, PTL DEF QueueSpec

(* However large the ring: pops run one push behind until a push is        *)
(* refused, and a queue that was drained has kept one item.                *)
THEOREM QueueOneBehind == QueueSpec => []OneBehind
<1>1. IInv => LagsByOne
  BY DEF IInv, LagsByOne
<1>2. IInv => LastIsLost
  <2> SUFFICES ASSUME IInv, ~refused, Exhausted(queue)
               PROVE  Len(got) = Len(pushed)
    BY DEF LastIsLost
  <2>1. /\ Capacity \in Nat \ {0}
        /\ queue.head \in Slots
        /\ Len(pushed) \in Nat /\ Len(got) \in Nat
    BY QueueAssumption DEF IInv, TypeInv
  <2> QED
    BY <2>1 DEF IInv, Placed, After, Slots, Exhausted
<1>3. IInv => OneBehind
  BY <1>1, <1>2 DEF OneBehind
<1> QED
  BY <1>3, SpecIInv, PTL
=============================================================================
