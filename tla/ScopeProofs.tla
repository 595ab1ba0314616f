----------------------------- MODULE ScopeProofs -----------------------------
(***************************************************************************)
(* What holds of scopes, names and loops for every source, however long,   *)
(* and for every size of the arrays.                                       *)
(***************************************************************************)
EXTENDS Scopes, FiniteSetTheorems, SequenceTheorems, WellFoundedInduction, TLAPS

-----------------------------------------------------------------------------
(* Types                                                                   *)

Domains == {"func", "global_var", "local", "upval", "constant"}
SymbolType == [name : Names \cup Literals, id : Nat, domain : Domains]
VecOf(S) == [items : Seq(S), capacity : Nat, moves : Nat]
TableType == [infos : VecOf(SymbolType), local_argc : Nat, next_local_id : Nat]
AddressType == [pos : Nat, moves : Nat]
LoopType == [breaks : SUBSET Nat, continues : SUBSET Nat]

Ops == {"reserve", "put_k", "put_bool", "jmp", "jmp_false", "nop", "ret",
        "mk_closure", "load_imm_gid", "get_gvar", "load_local", "get_upv",
        "set_gvar", "store_local", "set_upv"}
Ids == Nat \X Nat
Homes == {"break", "continue"} \X Ids
InsType == [op : Ops, flag : Nat, wide : Int, name : Names \cup {NoName},
            home : Homes \cup {<<>>}, plain : BOOLEAN]
ChunkType == [code : Seq(InsType), argc : Nat, uses : Seq(Names),
              own : SUBSET ((Names \cup Literals) \X Domains)]

LetFrame == [kind : {"let"}, name : Names, domain : {"global_var", "local"}, depth : Nat,
             symbol : AddressType]
AssignFrame == [kind : {"assign"}, name : Names,
                domain : {"func", "global_var", "local", "upval"}, plain : BOOLEAN]
RoutineFrame ==
    {frame \in [kind : {"lambda", "func"}, old : Nat, captured : Seq(Names), ids : Seq(Nat),
                chunk : Nat, body : Nat, scope : AddressType] :
        Len(frame.ids) = Len(frame.captured)}
LoopFrame == [kind : {"while", "for"}, out : Nat, again : Nat, body : Nat, id : Ids,
              loop : AddressType]
FrameType == LetFrame \cup AssignFrame \cup RoutineFrame \cup LoopFrame

-----------------------------------------------------------------------------
(* Numbers and sequences                                                   *)

(* No set of numbers without a least member is not empty.                  *)
LEMMA LeastNumber ==
    ASSUME NEW S, S \subseteq Nat, S # {}
    PROVE  \E least \in S : \A n \in S : least <= n
<1>. DEFINE Less == OpToRel(<, Nat)
<1>1. \E x \in S : \A y \in S : <<y, x>> \notin Less
  BY NatLessThanWellFounded, WFMin
<1>2. \A x, y \in Nat : <<y, x>> \in Less <=> y < x
  BY DEF OpToRel
<1>. HIDE DEF Less
<1>3. PICK x \in S : \A y \in S : <<y, x>> \notin Less
  BY <1>1
<1>4. ASSUME NEW y \in S PROVE x <= y
  <2>1. x \in Nat /\ y \in Nat /\ ~(y < x)
    BY <1>2, <1>3
  <2>. QED  BY <2>1
<1>. QED  BY <1>4

(* Min is the least number of a set.                                       *)
LEMMA MinIs ==
    ASSUME NEW S, S \subseteq Nat, S # {}
    PROVE  Min(S) \in S /\ \A n \in S : Min(S) <= n
<1>1. PICK least \in S : \A n \in S : least <= n
  BY LeastNumber
<1>. QED  BY <1>1 DEF Min

(* Max is the greatest number of a set that has a bound.                   *)
LEMMA MaxIs ==
    ASSUME NEW n \in Nat, NEW S, S \subseteq 1 .. n, S # {}
    PROVE  Max(S) \in S /\ \A k \in S : k <= Max(S)
<1>. DEFINE gaps == {n - k : k \in S}
<1>1. gaps \subseteq Nat /\ gaps # {}
  <2>1. ASSUME NEW k \in S PROVE n - k \in Nat
    <3>1. k \in 1 .. n
      OBVIOUS
    <3>. QED  BY <3>1
  <2>. QED  BY <2>1
<1>2. PICK least \in gaps : \A gap \in gaps : least <= gap
  <2>. HIDE DEF gaps
  <2>. QED  BY <1>1, LeastNumber
<1>3. PICK top \in S : least = n - top
  OBVIOUS
<1>4. ASSUME NEW k \in S PROVE top >= k
  <2>1. n - k \in gaps
    OBVIOUS
  <2>2. n - top <= n - k
    BY <1>2, <1>3, <2>1
  <2>. QED  BY <2>2
<1>5. \E x \in S : \A y \in S : x >= y
  BY <1>4
<1>6. Max(S) \in S /\ \A y \in S : Max(S) >= y
  BY <1>5, Zenon DEF Max
<1>. QED  BY <1>6

(* A sequence with one more item.                                          *)
LEMMA AppendIs ==
    ASSUME NEW S, NEW s \in Seq(S), NEW item \in S
    PROVE  /\ Append(s, item) \in Seq(S) /\ Len(s) \in Nat
           /\ Len(Append(s, item)) = Len(s) + 1
           /\ DOMAIN s = 1 .. Len(s) /\ DOMAIN Append(s, item) = 1 .. Len(s) + 1
           /\ \A n \in 1 .. Len(s) : Append(s, item)[n] = s[n]
           /\ Append(s, item)[Len(s) + 1] = item
           /\ Append(s, item) # <<>>
  BY AppendProperties, LenProperties

(* A sequence without its last item.                                       *)
LEMMA FrontIs ==
    ASSUME NEW S, NEW s \in Seq(S), s # <<>>
    PROVE  /\ Len(s) \in Nat \ {0} /\ Last(s) = s[Len(s)] /\ Last(s) \in S
           /\ Front(s) \in Seq(S) /\ Len(Front(s)) = Len(s) - 1
           /\ DOMAIN Front(s) = 1 .. Len(s) - 1 /\ DOMAIN s = 1 .. Len(s)
           /\ \A n \in 1 .. Len(s) - 1 : Front(s)[n] = s[n]
<1>1. Len(s) \in Nat \ {0} /\ DOMAIN s = 1 .. Len(s) /\ \A n \in 1 .. Len(s) : s[n] \in S
  BY LenProperties, ElementOfSeq, EmptySeq
<1>2. Last(s) = s[Len(s)] /\ Last(s) \in S
  BY <1>1 DEF Last
<1>. DEFINE m == Len(s) - 1
<1>3. m \in Nat /\ 1 \in Int /\ m - 1 + 1 = m /\ \A n \in 1 .. m : s[n] \in S /\ 1 + n - 1 = n
  BY <1>1
<1>. HIDE DEF m
<1>4. /\ SubSeq(s, 1, m) \in Seq(S)
      /\ Len(SubSeq(s, 1, m)) = IF 1 <= m THEN m - 1 + 1 ELSE 0
      /\ \A n \in 1 .. m - 1 + 1 : SubSeq(s, 1, m)[n] = s[1 + n - 1]
  BY <1>3, SubSeqProperties
<1>5. Front(s) = SubSeq(s, 1, m)
  BY DEF Front, m
<1>. DEFINE front == Front(s)
<1>6. front \in Seq(S) /\ Len(front) = m /\ \A n \in 1 .. m : front[n] = s[n]
  BY <1>3, <1>4, <1>5
<1>. HIDE DEF front
<1>7. DOMAIN front = 1 .. m
  BY <1>6, LenProperties
<1>. QED  BY <1>1, <1>2, <1>6, <1>7 DEF front, m

(* An array with one more item, and without its last one.                  *)
LEMMA PushedIs ==
    ASSUME NEW S, NEW array \in VecOf(S), NEW item \in S, NEW more \in Nat
    PROVE  /\ Pushed(array, item, more) \in VecOf(S)
           /\ Pushed(array, item, more).items = Append(array.items, item)
<1>1. array.items \in Seq(S) /\ array.moves \in Nat /\ array.capacity \in Nat
  BY DEF VecOf
<1>2. Append(array.items, item) \in Seq(S)
  BY <1>1, AppendIs
<1>. QED  BY <1>1, <1>2, SMTT(40) DEF VecOf, Pushed

(* A push on an array of scopes or loops.                                  *)
LEMMA AnyVecPushedIs ==
    ASSUME NEW S, NEW array \in VecOf(S), NEW item \in S
    PROVE  /\ AnyVecPushed(array, item) \in VecOf(S)
           /\ AnyVecPushed(array, item).items = Append(array.items, item)
<1>. DEFINE more == 1 + (array.capacity * 3) \div 2
<1>1. array.capacity \in Nat
  BY DEF VecOf
<1>2. more \in Nat
  BY <1>1
<1>. HIDE DEF more
<1>3. AnyVecPushed(array, item) = Pushed(array, item, more)
  BY DEF AnyVecPushed, more
<1>. QED  BY <1>2, <1>3, PushedIs

(* A pop.                                                                  *)
LEMMA PoppedIs ==
    ASSUME NEW S, NEW array \in VecOf(S), array.items # <<>>
    PROVE  /\ Popped(array) \in VecOf(S)
           /\ Popped(array).items = Front(array.items)
<1>1. array.items \in Seq(S)
  BY DEF VecOf
<1>2. Front(array.items) \in Seq(S)
  BY <1>1, FrontIs
<1>. QED  BY <1>2 DEF VecOf, Popped

-----------------------------------------------------------------------------
(* Symbols and tables                                                      *)

Single == {"func", "global_var", "local"}

(* In the domains where one name is one symbol.                            *)
OneOfAName(items) ==
    \A p, q \in DOMAIN items :
        /\ items[p].domain = items[q].domain /\ items[p].domain \in Single
        /\ items[p].name = items[q].name \/ items[p].id = items[q].id
        => p = q

(* What the slots of a table mean in a chunk that captures uses.           *)
SlotsFit(table, uses) ==
    \A p \in DOMAIN table.infos.items :
        LET symbol == table.infos.items[p]
        IN  /\ symbol.domain = "local" => symbol.id \in 1 .. table.next_local_id
            /\ symbol.domain = "global_var" => symbol.id < table.next_local_id
            /\ symbol.domain = "upval" =>
                  symbol.id + 1 \in DOMAIN uses /\ uses[symbol.id + 1] = symbol.name
            /\ symbol.domain # "func"

GoodTable(table, uses) == OneOfAName(table.infos.items) /\ SlotsFit(table, uses)

(* s is at the head of t.                                                  *)
Longer(s, t) == Len(s) <= Len(t) /\ \A p \in 1 .. Len(s) : t[p] = s[p]

(* A table that has grown into another.                                    *)
Extends(table, grown) ==
    /\ Longer(table.infos.items, grown.infos.items)
    /\ grown.local_argc = table.local_argc
    /\ table.next_local_id <= grown.next_local_id

(* The symbols of a table are a sequence.                                  *)
LEMMA TableFields ==
    ASSUME NEW table \in TableType
    PROVE  /\ table.infos \in VecOf(SymbolType) /\ table.infos.items \in Seq(SymbolType)
           /\ table.local_argc \in Nat /\ table.next_local_id \in Nat
           /\ Len(table.infos.items) \in Nat
           /\ DOMAIN table.infos.items = 1 .. Len(table.infos.items)
           /\ \A p \in 1 .. Len(table.infos.items) : table.infos.items[p] \in SymbolType
<1>1. /\ table.infos \in VecOf(SymbolType) /\ table.local_argc \in Nat
      /\ table.next_local_id \in Nat
  BY DEF TableType
<1>2. table.infos.items \in Seq(SymbolType)
  BY <1>1 DEF VecOf
<1>. QED  BY <1>1, <1>2, LenProperties, ElementOfSeq

(* What is found is the first symbol of the name.                          *)
LEMMA FindIs ==
    ASSUME NEW items \in Seq(SymbolType), NEW name, NEW domain \in Domains
    PROVE  \/ /\ Find(items, name, domain) = NoSymbol
              /\ \A p \in 1 .. Len(items) :
                    ~(items[p].name = name /\ items[p].domain = domain)
           \/ \E p \in 1 .. Len(items) :
                 /\ p = Min(Places(items, name, domain))
                 /\ Find(items, name, domain) = items[p]
                 /\ items[p].name = name /\ items[p].domain = domain
                 /\ items[p] \in SymbolType /\ items[p] # NoSymbol
                 /\ \A q \in 1 .. Len(items) :
                       items[q].name = name /\ items[q].domain = domain => p <= q
<1>. DEFINE places == Places(items, name, domain)
<1>1. DOMAIN items = 1 .. Len(items) /\ Len(items) \in Nat
  BY LenProperties
<1>2. places = {p \in 1 .. Len(items) : items[p].name = name /\ items[p].domain = domain}
  BY <1>1 DEF Places
<1>3. CASE places = {}
  <2>1. Find(items, name, domain) = NoSymbol
    BY <1>3 DEF Find
  <2>. QED  BY <1>2, <1>3, <2>1
<1>4. CASE places # {}
  <2>1. places \subseteq Nat
    BY <1>1, <1>2
  <2>. DEFINE p == Min(places)
  <2>2. p \in places /\ \A q \in places : p <= q
    <3>. HIDE DEF places
    <3>. QED  BY <1>4, <2>1, MinIs
  <2>3. Find(items, name, domain) = items[p]
    BY <1>4 DEF Find
  <2>4. p \in 1 .. Len(items) /\ items[p].name = name /\ items[p].domain = domain
    <3>. HIDE DEF p
    <3>. QED  BY <1>2, <2>2
  <2>5. items[p] \in SymbolType
    <3>. HIDE DEF p
    <3>. QED  BY <2>4, ElementOfSeq
  <2>6. items[p] # NoSymbol
    <3>. HIDE DEF p
    <3>1. items[p].domain # "none"
      BY <2>4 DEF Domains
    <3>2. NoSymbol.domain = "none"
      BY DEF NoSymbol
    <3>. QED  BY <3>1, <3>2
  <2>7. \A q \in 1 .. Len(items) : items[q].name = name /\ items[q].domain = domain => p <= q
    <3>. HIDE DEF p
    <3>. QED  BY <1>2, <2>2
  <2>. HIDE DEF p
  <2>8. p = Min(Places(items, name, domain))
    BY DEF p
  <2>. QED  BY <2>3, <2>4, <2>5, <2>6, <2>7, <2>8
<1>. QED  BY <1>3, <1>4

(* A symbol of a table is not the one that stands for none.                *)
LEMMA SymbolIsSome ==
    ASSUME NEW name, NEW id, NEW domain \in Domains
    PROVE  Symbol(name, id, domain) # NoSymbol
<1>1. Symbol(name, id, domain).domain = domain /\ NoSymbol.domain = "none"
  BY DEF Symbol, NoSymbol
<1>. QED  BY <1>1 DEF Domains

(* What was found stays what is found, as symbols come behind it.          *)
LEMMA FindGrows ==
    ASSUME NEW items \in Seq(SymbolType), NEW more \in Seq(SymbolType), Longer(items, more),
           NEW name, NEW domain \in Domains, Find(items, name, domain) # NoSymbol
    PROVE  Find(more, name, domain) = Find(items, name, domain)
<1>1. Len(items) \in Nat /\ Len(more) \in Nat
  BY LenProperties
<1>2. PICK p \in 1 .. Len(items) :
          /\ Find(items, name, domain) = items[p]
          /\ items[p].name = name /\ items[p].domain = domain
          /\ \A q \in 1 .. Len(items) : items[q].name = name /\ items[q].domain = domain => p <= q
  BY FindIs
<1>3. p \in 1 .. Len(more) /\ more[p] = items[p]
  BY <1>1, <1>2 DEF Longer
<1>4. PICK first \in 1 .. Len(more) :
          /\ Find(more, name, domain) = more[first]
          /\ more[first].name = name /\ more[first].domain = domain
          /\ \A q \in 1 .. Len(more) : more[q].name = name /\ more[q].domain = domain => first <= q
  BY <1>2, <1>3, FindIs
<1>5. first <= p
  BY <1>2, <1>3, <1>4
<1>6. first \in 1 .. Len(items)
  BY <1>1, <1>5
<1>7. more[first] = items[first]
  BY <1>6 DEF Longer
<1>8. p <= first
  BY <1>2, <1>4, <1>6, <1>7
<1>9. p = first
  BY <1>5, <1>6, <1>8
<1>. QED  BY <1>2, <1>3, <1>4, <1>9

(* A table with one more symbol.                                           *)
LEMMA SymbolPushedIs ==
    ASSUME NEW table \in TableType, NEW symbol \in SymbolType
    PROVE  LET grown == SymbolPushed(table, symbol)
               n == Len(table.infos.items)
           IN  /\ grown \in TableType /\ Extends(table, grown)
               /\ grown.next_local_id = table.next_local_id
               /\ Len(grown.infos.items) = n + 1 /\ grown.infos.items[n + 1] = symbol
               /\ \A p \in 1 .. n : grown.infos.items[p] = table.infos.items[p]
<1>. DEFINE infos == table.infos
            more == (infos.capacity * 3) \div 2
            pushed == Pushed(infos, symbol, more)
            grown == SymbolPushed(table, symbol)
<1>1. infos \in VecOf(SymbolType) /\ infos.items \in Seq(SymbolType)
  BY TableFields
<1>2. infos.capacity \in Nat
  BY <1>1 DEF VecOf
<1>3. more \in Nat
  BY <1>2
<1>4. pushed \in VecOf(SymbolType) /\ pushed.items = Append(infos.items, symbol)
  <2>. HIDE DEF infos, more
  <2>. QED  BY <1>1, <1>3, PushedIs
<1>5. grown = [table EXCEPT !.infos = pushed]
  BY DEF SymbolPushed
<1>6. /\ grown \in TableType /\ grown.infos = pushed /\ grown.local_argc = table.local_argc
      /\ grown.next_local_id = table.next_local_id
  <2>. HIDE DEF pushed, grown
  <2>. QED  BY <1>4, <1>5 DEF TableType
<1>7. /\ grown.infos.items = Append(infos.items, symbol)
      /\ Len(grown.infos.items) = Len(infos.items) + 1
      /\ \A p \in 1 .. Len(infos.items) : grown.infos.items[p] = infos.items[p]
      /\ grown.infos.items[Len(infos.items) + 1] = symbol
      /\ Len(infos.items) \in Nat
  <2>. HIDE DEF pushed, grown, infos
  <2>. QED  BY <1>1, <1>4, <1>6, AppendIs
<1>8. table.next_local_id \in Nat
  BY DEF TableType
<1>9. Extends(table, grown)
  <2>. HIDE DEF pushed, grown
  <2>. QED  BY <1>6, <1>7, <1>8 DEF Extends, Longer
<1>. QED  BY <1>6, <1>7, <1>9

(* A table with one more symbol, of a name or a slot that it did not have. *)
LEMMA PushKeepsGood ==
    ASSUME NEW table \in TableType, NEW symbol \in SymbolType, NEW uses,
           GoodTable(table, uses), symbol.domain # "func",
           symbol.domain = "local" => symbol.id \in 1 .. table.next_local_id,
           symbol.domain = "global_var" => symbol.id < table.next_local_id,
           symbol.domain = "upval" =>
              symbol.id + 1 \in DOMAIN uses /\ uses[symbol.id + 1] = symbol.name,
           symbol.domain \in Single =>
              \A p \in 1 .. Len(table.infos.items) :
                 table.infos.items[p].domain = symbol.domain =>
                    table.infos.items[p].name # symbol.name /\ table.infos.items[p].id # symbol.id
    PROVE  GoodTable(SymbolPushed(table, symbol), uses)
<1>. DEFINE grown == SymbolPushed(table, symbol)
            items == table.infos.items
            more == grown.infos.items
            n == Len(items)
<1>1. /\ grown \in TableType /\ grown.next_local_id = table.next_local_id
      /\ Len(more) = n + 1 /\ more[n + 1] = symbol
      /\ \A p \in 1 .. n : more[p] = items[p]
  BY SymbolPushedIs
<1>2. n \in Nat /\ DOMAIN items = 1 .. n
  BY TableFields
<1>3. DOMAIN more = 1 .. n + 1
  <2>. HIDE DEF grown
  <2>. QED  BY <1>1, TableFields
<1>4. OneOfAName(items) /\ SlotsFit(table, uses)
  BY DEF GoodTable
<1>. HIDE DEF grown, items, more, n
<1>5. \A p \in 1 .. n + 1 :
          (p \in 1 .. n /\ more[p] = items[p]) \/ (p = n + 1 /\ more[p] = symbol)
  BY <1>1, <1>2
<1>6. OneOfAName(more)
  <2>. SUFFICES ASSUME NEW p \in 1 .. n + 1, NEW q \in 1 .. n + 1,
                       more[p].domain = more[q].domain, more[p].domain \in Single,
                       more[p].name = more[q].name \/ more[p].id = more[q].id
                PROVE  p = q
    BY <1>3 DEF OneOfAName
  <2>1. CASE p \in 1 .. n /\ q \in 1 .. n
    BY <1>1, <1>2, <1>4, <2>1 DEF OneOfAName
  <2>2. CASE p = n + 1 /\ q = n + 1
    BY <2>2
  <2>3. \A k \in 1 .. n : items[k].domain = symbol.domain /\ symbol.domain \in Single =>
                             items[k].name # symbol.name /\ items[k].id # symbol.id
    BY DEF items, n
  <2>4. CASE p \in 1 .. n /\ q = n + 1
    BY <1>1, <2>3, <2>4
  <2>5. CASE p = n + 1 /\ q \in 1 .. n
    BY <1>1, <2>3, <2>5
  <2>. QED  BY <1>5, <2>1, <2>2, <2>4, <2>5
<1>7. SlotsFit(grown, uses)
  <2>. DEFINE fits(s) == /\ s.domain = "local" => s.id \in 1 .. table.next_local_id
                         /\ s.domain = "global_var" => s.id < table.next_local_id
                         /\ s.domain = "upval" => s.id + 1 \in DOMAIN uses /\ uses[s.id + 1] = s.name
                         /\ s.domain # "func"
  <2>1. \A p \in 1 .. n : fits(items[p])
    BY <1>2, <1>4 DEF SlotsFit, items
  <2>2. fits(symbol)
    OBVIOUS
  <2>. HIDE DEF fits
  <2>3. \A p \in 1 .. n + 1 : fits(more[p])
    BY <1>5, <2>1, <2>2
  <2>. QED  BY <1>1, <1>3, <2>3 DEF SlotsFit, more, fits
<1>. QED  BY <1>6, <1>7 DEF GoodTable, grown, more

(* A table with room for more slots.                                       *)
LEMMA RaisedIs ==
    ASSUME NEW table \in TableType, NEW id \in Nat, table.next_local_id <= id
    PROVE  LET raised == [table EXCEPT !.next_local_id = id]
           IN  /\ raised \in TableType /\ raised.infos = table.infos
               /\ raised.next_local_id = id /\ Extends(table, raised)
               /\ \A uses : GoodTable(table, uses) => GoodTable(raised, uses)
<1>. DEFINE raised == [table EXCEPT !.next_local_id = id]
<1>1. /\ raised \in TableType /\ raised.infos = table.infos /\ raised.next_local_id = id
      /\ raised.local_argc = table.local_argc
  BY DEF TableType
<1>. HIDE DEF raised
<1>2. table.next_local_id \in Nat /\ Len(table.infos.items) \in Nat
  BY TableFields
<1>3. Extends(table, raised)
  BY <1>1, <1>2 DEF Extends, Longer
<1>4. ASSUME NEW uses, GoodTable(table, uses) PROVE GoodTable(raised, uses)
  <2>1. OneOfAName(raised.infos.items)
    BY <1>1, <1>4 DEF GoodTable
  <2>2. SlotsFit(raised, uses)
    <3>. SUFFICES ASSUME NEW p \in DOMAIN table.infos.items
                  PROVE  LET symbol == table.infos.items[p]
                         IN  /\ symbol.domain = "local" => symbol.id \in 1 .. id
                             /\ symbol.domain = "global_var" => symbol.id < id
                             /\ symbol.domain = "upval" =>
                                   symbol.id + 1 \in DOMAIN uses /\ uses[symbol.id + 1] = symbol.name
                             /\ symbol.domain # "func"
      BY <1>1 DEF SlotsFit
    <3>1. table.infos.items[p] \in SymbolType
      BY TableFields
    <3>2. table.infos.items[p].id \in Nat
      BY <3>1 DEF SymbolType
    <3>. QED  BY <1>2, <1>4, <3>2 DEF GoodTable, SlotsFit
  <2>. QED  BY <2>1, <2>2 DEF GoodTable
<1>. QED  BY <1>1, <1>3, <1>4 DEF raised

(* Growing is transitive.                                                  *)
LEMMA ExtendsTrans ==
    ASSUME NEW table \in TableType, NEW more \in TableType, NEW most \in TableType,
           Extends(table, more), Extends(more, most)
    PROVE  Extends(table, most)
<1>1. /\ Len(table.infos.items) \in Nat /\ Len(more.infos.items) \in Nat
      /\ Len(most.infos.items) \in Nat /\ table.next_local_id \in Nat
      /\ more.next_local_id \in Nat /\ most.next_local_id \in Nat
  BY TableFields
<1>2. \A p \in 1 .. Len(table.infos.items) : p \in 1 .. Len(more.infos.items)
  BY <1>1 DEF Extends, Longer
<1>3. Longer(table.infos.items, most.infos.items)
  BY <1>1, <1>2, SMTT(40) DEF Extends, Longer
<1>. QED  BY <1>1, <1>3 DEF Extends

(* A table is at the head of itself.                                       *)
LEMMA ExtendsItself ==
    ASSUME NEW table \in TableType
    PROVE  Extends(table, table)
  BY TableFields DEF Extends, Longer

(* A table that records one more symbol, behind slots that may be more.    *)
LEMMA RecordedIs ==
    ASSUME NEW table \in TableType, NEW id \in Nat, table.next_local_id <= id,
           NEW symbol \in SymbolType, symbol.domain # "func",
           Find(table.infos.items, symbol.name, symbol.domain) = NoSymbol
              \/ symbol.domain = "upval",
           symbol.domain = "local" => symbol.id = table.next_local_id + 1 /\ id = symbol.id,
           symbol.domain = "global_var" => symbol.id = table.next_local_id /\ id = symbol.id + 1
    PROVE  LET raised == [table EXCEPT !.next_local_id = id]
               grown == SymbolPushed(raised, symbol)
           IN  /\ grown \in TableType /\ Extends(table, grown)
               /\ Find(grown.infos.items, symbol.name, symbol.domain) # NoSymbol
               /\ \A uses : GoodTable(table, uses)
                            /\ (symbol.domain = "upval" =>
                                  symbol.id + 1 \in DOMAIN uses /\ uses[symbol.id + 1] = symbol.name)
                            => GoodTable(grown, uses)
<1>. DEFINE raised == [table EXCEPT !.next_local_id = id]
            grown == SymbolPushed(raised, symbol)
            n == Len(table.infos.items)
<1>1. /\ raised \in TableType /\ raised.infos = table.infos /\ raised.next_local_id = id
      /\ Extends(table, raised) /\ \A uses : GoodTable(table, uses) => GoodTable(raised, uses)
  BY RaisedIs, Zenon
<1>. HIDE DEF raised
<1>2. /\ grown \in TableType /\ Extends(raised, grown)
      /\ Len(grown.infos.items) = n + 1 /\ grown.infos.items[n + 1] = symbol
  BY <1>1, SymbolPushedIs
<1>3. n \in Nat
  BY TableFields
<1>. HIDE DEF grown
<1>4. Extends(table, grown)
  BY <1>1, <1>2, ExtendsTrans
<1>5. Find(grown.infos.items, symbol.name, symbol.domain) # NoSymbol
  <2>1. grown.infos.items \in Seq(SymbolType)
    BY <1>2, TableFields
  <2>2. symbol.domain \in Domains
    BY DEF SymbolType
  <2>3. n + 1 \in 1 .. Len(grown.infos.items)
    BY <1>2, <1>3
  <2>. QED  BY <1>2, <2>1, <2>2, <2>3, FindIs
<1>6. ASSUME NEW uses, GoodTable(table, uses),
             symbol.domain = "upval" =>
                symbol.id + 1 \in DOMAIN uses /\ uses[symbol.id + 1] = symbol.name
      PROVE  GoodTable(grown, uses)
  <2>1. GoodTable(raised, uses)
    BY <1>1, <1>6
  <2>2. symbol.id \in Nat /\ symbol.domain \in Domains /\ table.next_local_id \in Nat
    BY TableFields DEF SymbolType
  <2>3. symbol.domain = "local" => symbol.id \in 1 .. raised.next_local_id
    BY <1>1, <2>2
  <2>4. symbol.domain = "global_var" => symbol.id < raised.next_local_id
    BY <1>1, <2>2
  <2>5. ASSUME symbol.domain \in Single, NEW p \in 1 .. n,
               table.infos.items[p].domain = symbol.domain
        PROVE  table.infos.items[p].name # symbol.name /\ table.infos.items[p].id # symbol.id
    <3>1. table.infos.items \in Seq(SymbolType) /\ p \in DOMAIN table.infos.items
      BY TableFields
    <3>2. Find(table.infos.items, symbol.name, symbol.domain) = NoSymbol
      BY <2>5 DEF Single
    <3>3. \A q \in 1 .. n : ~(table.infos.items[q].name = symbol.name
                              /\ table.infos.items[q].domain = symbol.domain)
      BY <2>2, <3>1, <3>2, FindIs, SMTT(40)
    <3>4. symbol.domain = "local" \/ symbol.domain = "global_var"
      BY <2>5 DEF Single
    <3>5. /\ table.infos.items[p].domain = "local" =>
                table.infos.items[p].id \in 1 .. table.next_local_id
          /\ table.infos.items[p].domain = "global_var" =>
                table.infos.items[p].id < table.next_local_id
      BY <1>6, <3>1 DEF GoodTable, SlotsFit
    <3>6. table.infos.items[p].id # symbol.id
      BY <2>2, <2>5, <3>4, <3>5
    <3>. QED  BY <2>5, <3>3, <3>6
  <2>6. symbol.domain \in Single =>
           \A p \in 1 .. Len(raised.infos.items) :
              raised.infos.items[p].domain = symbol.domain =>
                 raised.infos.items[p].name # symbol.name /\ raised.infos.items[p].id # symbol.id
    BY <1>1, <2>5
  <2>. QED  BY <1>1, <1>6, <2>1, <2>3, <2>4, <2>6, PushKeepsGood, Zenon DEF grown
<1>. QED  BY <1>2, <1>4, <1>5, <1>6, Zenon DEF raised, grown

(* A name is a local of a table from then on, at a slot of its own.        *)
LEMMA WithLocalIs ==
    ASSUME NEW table \in TableType, NEW name \in Names
    PROVE  LET grown == WithLocal(table, name)
           IN  /\ grown \in TableType /\ Extends(table, grown)
               /\ Find(grown.infos.items, name, "local") # NoSymbol
               /\ \A uses : GoodTable(table, uses) => GoodTable(grown, uses)
<1>. DEFINE id == table.next_local_id + 1
            symbol == Symbol(name, id, "local")
<1>1. CASE Find(table.infos.items, name, "local") # NoSymbol
  <2>1. WithLocal(table, name) = table
    BY <1>1 DEF WithLocal
  <2>. QED  BY <1>1, <2>1, ExtendsItself
<1>2. CASE Find(table.infos.items, name, "local") = NoSymbol
  <2>1. table.next_local_id \in Nat
    BY TableFields
  <2>2. id \in Nat /\ table.next_local_id <= id
    BY <2>1
  <2>3. /\ symbol \in SymbolType /\ symbol.name = name /\ symbol.id = id
        /\ symbol.domain = "local"
    BY <2>2 DEF Symbol, SymbolType, Domains
  <2>4. WithLocal(table, name) = SymbolPushed([table EXCEPT !.next_local_id = id], symbol)
    BY <1>2 DEF WithLocal
  <2>. HIDE DEF symbol, id
  <2>5. id = table.next_local_id + 1
    BY DEF id
  <2>. QED  BY <1>2, <2>2, <2>3, <2>4, <2>5, RecordedIs
<1>. QED  BY <1>1, <1>2

(* A name is a global from then on, at a slot of its own.                  *)
LEMMA WithGlobalIs ==
    ASSUME NEW table \in TableType, NEW name \in Names
    PROVE  LET grown == WithGlobal(table, name)
           IN  /\ grown \in TableType /\ Extends(table, grown)
               /\ Find(grown.infos.items, name, "global_var") # NoSymbol
               /\ \A uses : GoodTable(table, uses) => GoodTable(grown, uses)
<1>. DEFINE id == table.next_local_id
            next == id + 1
            symbol == Symbol(name, id, "global_var")
<1>1. CASE Find(table.infos.items, name, "global_var") # NoSymbol
  <2>1. WithGlobal(table, name) = table
    BY <1>1 DEF WithGlobal
  <2>. QED  BY <1>1, <2>1, ExtendsItself
<1>2. CASE Find(table.infos.items, name, "global_var") = NoSymbol
  <2>1. id \in Nat
    BY TableFields
  <2>2. next \in Nat /\ table.next_local_id <= next
    BY <2>1
  <2>3. /\ symbol \in SymbolType /\ symbol.name = name /\ symbol.id = id
        /\ symbol.domain = "global_var"
    BY <2>1 DEF Symbol, SymbolType, Domains
  <2>4. WithGlobal(table, name) = SymbolPushed([table EXCEPT !.next_local_id = next], symbol)
    BY <1>2 DEF WithGlobal
  <2>5. symbol.id = table.next_local_id /\ next = symbol.id + 1
    BY <2>3
  <2>. HIDE DEF symbol, id, next
  <2>. QED  BY <1>2, <2>2, <2>3, <2>4, <2>5, RecordedIs
<1>. QED  BY <1>1, <1>2

(* So is a literal a constant.                                             *)
LEMMA WithConstantIs ==
    ASSUME NEW table \in TableType, NEW literal \in Literals
    PROVE  LET grown == WithConstant(table, literal)
           IN  /\ grown \in TableType /\ Extends(table, grown)
               /\ grown.next_local_id = table.next_local_id
               /\ Find(grown.infos.items, literal, "constant") # NoSymbol
               /\ \A uses : GoodTable(table, uses) => GoodTable(grown, uses)
<1>1. CASE Find(table.infos.items, literal, "constant") # NoSymbol
  <2>1. WithConstant(table, literal) = table
    BY <1>1 DEF WithConstant
  <2>. QED  BY <1>1, <2>1, ExtendsItself
<1>2. CASE Find(table.infos.items, literal, "constant") = NoSymbol
  <2>. DEFINE count == Cardinality(Constants(table))
              symbol == Symbol(literal, count, "constant")
              n == Len(table.infos.items)
  <2>1. n \in Nat /\ DOMAIN table.infos.items = 1 .. n /\ table.next_local_id \in Nat
    BY TableFields
  <2>2. Constants(table) \subseteq 1 .. n /\ IsFiniteSet(1 .. n)
    <3>. HIDE DEF n
    <3>1. 1 \in Int /\ n \in Int
      BY <2>1
    <3>. QED  BY <2>1, <3>1, FS_Interval DEF Constants
  <2>3. count \in Nat
    BY <2>2, FS_Subset, FS_CardinalityType
  <2>4. /\ symbol \in SymbolType /\ symbol.name = literal /\ symbol.domain = "constant"
    <3>. HIDE DEF count
    <3>. QED  BY <2>3 DEF Symbol, SymbolType, Domains
  <2>5. WithConstant(table, literal) = SymbolPushed(table, symbol)
    BY <1>2 DEF WithConstant
  <2>6. table = [table EXCEPT !.next_local_id = table.next_local_id]
    BY DEF TableType
  <2>7. table.next_local_id <= table.next_local_id
    BY <2>1
  <2>. HIDE DEF symbol, count
  <2>8. /\ symbol.domain # "func" /\ symbol.domain # "local" /\ symbol.domain # "global_var"
        /\ symbol.domain # "upval"
    BY <2>4
  <2>. DEFINE id == table.next_local_id
              grown == SymbolPushed([table EXCEPT !.next_local_id = id], symbol)
  <2>9. /\ grown \in TableType /\ Extends(table, grown)
        /\ Find(grown.infos.items, symbol.name, symbol.domain) # NoSymbol
        /\ \A uses : GoodTable(table, uses)
                     /\ (symbol.domain = "upval" =>
                           symbol.id + 1 \in DOMAIN uses /\ uses[symbol.id + 1] = symbol.name)
                     => GoodTable(grown, uses)
    <3>. HIDE DEF grown, id
    <3>1. id \in Nat /\ table.next_local_id <= id
      BY <2>1 DEF id
    <3>. QED  BY <1>2, <2>4, <2>8, <3>1, RecordedIs, Zenon DEF grown
  <2>10. SymbolPushed(table, symbol) = grown
    BY <2>6, Zenon
  <2>11. SymbolPushed(table, symbol).next_local_id = table.next_local_id
    BY <2>4, SymbolPushedIs
  <2>. HIDE DEF grown
  <2>. QED  BY <2>4, <2>5, <2>8, <2>9, <2>10, <2>11, Zenon
<1>. QED  BY <1>1, <1>2

(* The tables of a routine as its parameters are recorded, and as the      *)
(* names it captures are.                                                  *)
ParamTables(f, params, n) ==
    f = [i \in 0 .. n |-> IF i = 0 THEN NewTable ELSE WithLocal(f[i - 1], params[i])]
CaptureTables(f, table, uses, n) ==
    f = [i \in 0 .. n |-> IF i = 0 THEN table
                          ELSE SymbolPushed(f[i - 1], Symbol(uses[i], i - 1, "upval"))]

(* There are such tables, however many parameters there are.               *)
LEMMA ParamTablesExist ==
    ASSUME NEW params
    PROVE  \A n \in Nat : \E f : ParamTables(f, params, n)
<1>. DEFINE Bad == {n \in Nat : ~\E f : ParamTables(f, params, n)}
<1>. SUFFICES ASSUME Bad # {} PROVE FALSE
  OBVIOUS
<1>1. PICK n \in Bad : \A m \in Bad : n <= m
  <2>1. Bad \subseteq Nat
    OBVIOUS
  <2>. HIDE DEF Bad
  <2>. QED  BY <2>1, LeastNumber
<1>2. CASE n = 0
  <2>1. ParamTables([i \in 0 .. 0 |-> NewTable], params, 0)
    BY DEF ParamTables
  <2>. QED  BY <1>2, <2>1
<1>3. CASE n # 0
  <2>1. n - 1 \in Nat /\ n \in Nat /\ ~(n <= n - 1)
    BY <1>3
  <2>2. PICK f : ParamTables(f, params, n - 1)
    BY <1>1, <2>1
  <2>. DEFINE longer == [i \in 0 .. n |-> IF i < n THEN f[i] ELSE WithLocal(f[n - 1], params[n])]
  <2>3. \A i \in 0 .. n :
            longer[i] = IF i = 0 THEN NewTable ELSE WithLocal(longer[i - 1], params[i])
    <3>. TAKE i \in 0 .. n
    <3>1. CASE i = n
      BY <1>3, <2>1, <3>1
    <3>2. CASE i # n
      <4>1. i \in 0 .. n - 1 /\ i < n /\ (i # 0 => i - 1 \in 0 .. n /\ i - 1 < n)
        BY <2>1, <3>2
      <4>2. f[i] = IF i = 0 THEN NewTable ELSE WithLocal(f[i - 1], params[i])
        BY <2>2, <4>1 DEF ParamTables
      <4>. QED  BY <4>1, <4>2
    <3>. QED  BY <3>1, <3>2
  <2>4. ParamTables(longer, params, n)
    BY <2>3 DEF ParamTables
  <2>. QED  BY <2>4
<1>. QED  BY <1>2, <1>3

(* Nor how many names it captures.                                         *)
LEMMA CaptureTablesExist ==
    ASSUME NEW table, NEW uses
    PROVE  \A n \in Nat : \E f : CaptureTables(f, table, uses, n)
<1>. DEFINE Bad == {n \in Nat : ~\E f : CaptureTables(f, table, uses, n)}
            with(t, i) == SymbolPushed(t, Symbol(uses[i], i - 1, "upval"))
<1>. SUFFICES ASSUME Bad # {} PROVE FALSE
  OBVIOUS
<1>1. PICK n \in Bad : \A m \in Bad : n <= m
  <2>1. Bad \subseteq Nat
    OBVIOUS
  <2>. HIDE DEF Bad
  <2>. QED  BY <2>1, LeastNumber
<1>2. CASE n = 0
  <2>1. CaptureTables([i \in 0 .. 0 |-> table], table, uses, 0)
    BY DEF CaptureTables
  <2>. QED  BY <1>2, <2>1
<1>3. CASE n # 0
  <2>1. n - 1 \in Nat /\ n \in Nat /\ ~(n <= n - 1)
    BY <1>3
  <2>2. PICK f : CaptureTables(f, table, uses, n - 1)
    BY <1>1, <2>1
  <2>3. \A i \in 0 .. n - 1 : f[i] = IF i = 0 THEN table ELSE with(f[i - 1], i)
    BY <2>2 DEF CaptureTables
  <2>. HIDE DEF with
  <2>. DEFINE longer == [i \in 0 .. n |-> IF i < n THEN f[i] ELSE with(f[n - 1], n)]
  <2>4. \A i \in 0 .. n : longer[i] = IF i = 0 THEN table ELSE with(longer[i - 1], i)
    <3>. TAKE i \in 0 .. n
    <3>1. CASE i = n
      BY <1>3, <2>1, <3>1
    <3>2. CASE i # n
      <4>1. i \in 0 .. n - 1 /\ i < n /\ (i # 0 => i - 1 \in 0 .. n /\ i - 1 < n)
        BY <2>1, <3>2
      <4>. QED  BY <2>3, <4>1
    <3>. QED  BY <3>1, <3>2
  <2>5. longer = [i \in 0 .. n |-> IF i = 0 THEN table ELSE with(longer[i - 1], i)]
    BY <2>4
  <2>6. CaptureTables(longer, table, uses, n)
    <3>. HIDE DEF longer
    <3>. QED  BY <2>5, Zenon DEF CaptureTables, with
  <2>. QED  BY <2>6
<1>. QED  BY <1>2, <1>3

(* A new table holds nothing.                                              *)
LEMMA NewTableIs ==
    NewTable \in TableType /\ GoodTable(NewTable, <<>>)
<1>. DEFINE infos == Array(<<>>, DEFAULT_SYMBOL_COUNT)
<1>1. <<>> \in Seq(SymbolType) /\ DEFAULT_SYMBOL_COUNT \in Nat
  BY EmptySeq, ScopesAssumption
<1>2. infos \in VecOf(SymbolType) /\ infos.items = <<>>
  BY <1>1 DEF Array, VecOf
<1>. HIDE DEF infos
<1>3. NewTable \in TableType /\ NewTable.infos.items = <<>>
  BY <1>2 DEF NewTable, TableType, infos
<1>4. DOMAIN <<>> = {}
  OBVIOUS
<1>. QED  BY <1>3, <1>4 DEF GoodTable, OneOfAName, SlotsFit

(* The parameters of a routine are the locals of its table.                *)
LEMMA WithParamsIs ==
    ASSUME NEW params \in Seq(Names)
    PROVE  /\ WithParams(params) \in TableType /\ GoodTable(WithParams(params), <<>>)
           /\ WithParams(params).local_argc = Len(params)
<1>. DEFINE size == Len(params)
            f == CHOOSE g : g = [i \in 0 .. size |->
                    IF i = 0 THEN NewTable ELSE WithLocal(g[i - 1], params[i])]
<1>1. size \in Nat
  BY LenProperties
<1>2. f = [i \in 0 .. size |-> IF i = 0 THEN NewTable ELSE WithLocal(f[i - 1], params[i])]
  BY <1>1, ParamTablesExist DEF ParamTables
<1>3. WithParams(params) = [f[size] EXCEPT !.local_argc = size]
  BY DEF WithParams
<1>. HIDE DEF f
<1>. DEFINE fine(i) == f[i] \in TableType /\ GoodTable(f[i], <<>>)
            Bad == {i \in 0 .. size : ~fine(i)}
<1>4. Bad = {}
  <2>. SUFFICES ASSUME Bad # {} PROVE FALSE
    OBVIOUS
  <2>1. Bad \subseteq Nat
    BY <1>1
  <2>2. PICK i \in Bad : \A j \in Bad : i <= j
    <3>. HIDE DEF Bad
    <3>. QED  BY <2>1, LeastNumber
  <2>3. i \in 0 .. size /\ ~fine(i)
    OBVIOUS
  <2>4. CASE i = 0
    <3>1. f[0] = NewTable
      BY <1>1, <1>2
    <3>. QED  BY <2>3, <2>4, <3>1, NewTableIs
  <2>5. CASE i # 0
    <3>1. i - 1 \in 0 .. size /\ ~(i <= i - 1) /\ i \in 1 .. size
      BY <1>1, <2>3, <2>5
    <3>2. fine(i - 1)
      BY <2>2, <3>1
    <3>3. f[i] = WithLocal(f[i - 1], params[i])
      BY <1>2, <2>3, <2>5
    <3>4. params[i] \in Names
      BY <3>1, ElementOfSeq
    <3>. DEFINE last == f[i - 1]
    <3>5. WithLocal(last, params[i]) \in TableType /\ GoodTable(WithLocal(last, params[i]), <<>>)
      <4>. HIDE DEF last
      <4>1. last \in TableType /\ GoodTable(last, <<>>)
        BY <3>2 DEF last
      <4>. QED  BY <3>4, <4>1, WithLocalIs
    <3>. QED  BY <2>3, <3>3, <3>5
  <2>. QED  BY <2>4, <2>5
<1>5. fine(size)
  BY <1>1, <1>4
<1>. DEFINE last == f[size]
            table == [last EXCEPT !.local_argc = size]
<1>6. last \in TableType /\ GoodTable(last, <<>>)
  BY <1>5
<1>. HIDE DEF last, fine, Bad
<1>7. /\ table \in TableType /\ table.infos = last.infos /\ table.local_argc = size
      /\ table.next_local_id = last.next_local_id
  BY <1>1, <1>6 DEF TableType
<1>8. GoodTable(table, <<>>)
  <2>. HIDE DEF table
  <2>. QED  BY <1>6, <1>7 DEF GoodTable, SlotsFit
<1>. QED  BY <1>3, <1>7, <1>8 DEF last

(* The names it captures are there too, each under its number.             *)
LEMMA WithCapturesIs ==
    ASSUME NEW table \in TableType, GoodTable(table, <<>>), NEW uses \in Seq(Names)
    PROVE  LET full == WithCaptures(table, uses)
           IN  /\ full \in TableType /\ GoodTable(full, uses)
               /\ full.local_argc = table.local_argc
<1>. DEFINE size == Len(uses)
            f == CHOOSE g : g = [i \in 0 .. size |->
                    IF i = 0 THEN table
                    ELSE SymbolPushed(g[i - 1], Symbol(uses[i], i - 1, "upval"))]
<1>1. size \in Nat /\ DOMAIN uses = 1 .. size
  BY LenProperties
<1>2. f = [i \in 0 .. size |->
              IF i = 0 THEN table ELSE SymbolPushed(f[i - 1], Symbol(uses[i], i - 1, "upval"))]
  <2>. DEFINE P(g) == g = [i \in 0 .. size |->
                    IF i = 0 THEN table
                    ELSE SymbolPushed(g[i - 1], Symbol(uses[i], i - 1, "upval"))]
  <2>1. \E g : CaptureTables(g, table, uses, size)
    BY <1>1, CaptureTablesExist
  <2>2. \E g : P(g)
    BY <2>1, Zenon DEF CaptureTables
  <2>3. f = CHOOSE g : P(g)
    OBVIOUS
  <2>4. P(f)
    <3>. HIDE DEF P, f
    <3>. QED  BY <2>2, <2>3, Zenon
  <2>. QED  BY <2>4
<1>3. WithCaptures(table, uses) = f[size]
  BY DEF WithCaptures
<1>. HIDE DEF f
<1>. DEFINE fine(i) == /\ f[i] \in TableType /\ GoodTable(f[i], uses)
                       /\ f[i].local_argc = table.local_argc
            Bad == {i \in 0 .. size : ~fine(i)}
<1>4. GoodTable(table, uses)
  <2>1. DOMAIN <<>> = {}
    OBVIOUS
  <2>2. SlotsFit(table, <<>>)
    BY DEF GoodTable
  <2>3. SlotsFit(table, uses)
    BY <2>1, <2>2 DEF SlotsFit
  <2>. QED  BY <2>3 DEF GoodTable
<1>5. Bad = {}
  <2>. SUFFICES ASSUME Bad # {} PROVE FALSE
    OBVIOUS
  <2>1. Bad \subseteq Nat
    BY <1>1
  <2>2. PICK i \in Bad : \A j \in Bad : i <= j
    <3>. HIDE DEF Bad
    <3>. QED  BY <2>1, LeastNumber
  <2>3. i \in 0 .. size /\ ~fine(i)
    OBVIOUS
  <2>4. CASE i = 0
    <3>1. f[0] = table
      BY <1>1, <1>2
    <3>. QED  BY <1>4, <2>3, <2>4, <3>1
  <2>5. CASE i # 0
    <3>1. i - 1 \in 0 .. size /\ ~(i <= i - 1) /\ i \in 1 .. size /\ i - 1 \in Nat /\ i - 1 + 1 = i
      BY <1>1, <2>3, <2>5
    <3>2. fine(i - 1)
      BY <2>2, <3>1
    <3>. DEFINE last == f[i - 1]
                symbol == Symbol(uses[i], i - 1, "upval")
    <3>3. f[i] = SymbolPushed(last, symbol)
      BY <1>2, <2>3, <2>5
    <3>4. uses[i] \in Names
      BY <3>1, ElementOfSeq
    <3>5. symbol \in SymbolType /\ symbol.name = uses[i] /\ symbol.id = i - 1
          /\ symbol.domain = "upval"
      BY <3>1, <3>4 DEF Symbol, SymbolType, Domains
    <3>6. last \in TableType /\ GoodTable(last, uses) /\ last.local_argc = table.local_argc
      BY <3>2
    <3>7. symbol.id + 1 \in DOMAIN uses /\ uses[symbol.id + 1] = symbol.name
      <4>. HIDE DEF symbol
      <4>. QED  BY <1>1, <3>1, <3>5
    <3>. HIDE DEF last, symbol, fine, Bad
    <3>8. SymbolPushed(last, symbol) \in TableType /\ Extends(last, SymbolPushed(last, symbol))
      BY <3>5, <3>6, SymbolPushedIs
    <3>9. GoodTable(SymbolPushed(last, symbol), uses)
      BY <3>5, <3>6, <3>7, PushKeepsGood DEF Single
    <3>10. SymbolPushed(last, symbol).local_argc = table.local_argc
      BY <3>6, <3>8 DEF Extends
    <3>. QED  BY <2>3, <3>3, <3>8, <3>9, <3>10 DEF fine
  <2>. QED  BY <2>4, <2>5
<1>6. fine(size)
  BY <1>1, <1>5
<1>. QED  BY <1>3, <1>6

(* The table of a routine is one that fits what it captures.               *)
LEMMA EnteredIs ==
    ASSUME NEW params \in Seq(Names), NEW uses \in Seq(Names)
    PROVE  LET table == WithCaptures(WithParams(params), uses)
           IN  table \in TableType /\ GoodTable(table, uses)
  BY WithParamsIs, WithCapturesIs, Zenon
-----------------------------------------------------------------------------
(* Nesting.  The level of the first n frames is the last routine in them,  *)
(* or 0; it has a chunk and a scope, and the last loop has a place in the  *)
(* array of loops.                                                         *)

RoutinesIn(frames, n) == {k \in 1 .. n : IsRoutine(frames[k])}
ActiveIn(frames, n) == {k \in 1 .. n : IsLoop(frames[k])}
LevelIn(frames, n) == SelectLastInSubSeq(frames, 1, n, IsRoutine)
LoopIn(frames, n) == SelectLastInSubSeq(frames, 1, n, IsLoop)

ChunkAt(frames, n) == IF LevelIn(frames, n) = 0 THEN 1 ELSE frames[LevelIn(frames, n)].chunk
ScopeAt(frames, n) == IF LevelIn(frames, n) = 0 THEN 1 ELSE frames[LevelIn(frames, n)].scope.pos
PlaceAt(frames, n) == IF LoopIn(frames, n) = 0 THEN 0 ELSE frames[LoopIn(frames, n)].loop.pos

(* A routine is read in a scope and a chunk on top of those around it, and *)
(* goes back to the latter; a loop is on top of the loops around it.       *)
FrameNested(frames, n) ==
    /\ IsRoutine(frames[n]) =>
          /\ frames[n].old = ChunkAt(frames, n - 1)
          /\ frames[n].scope.pos = ScopeAt(frames, n - 1) + 1
          /\ ChunkAt(frames, n - 1) < frames[n].chunk
    /\ IsLoop(frames[n]) => frames[n].loop.pos = PlaceAt(frames, n - 1) + 1

NestOK(frames) == \A n \in 1 .. Len(frames) : FrameNested(frames, n)

(* Frames that differ at most in what assignments hold.                    *)
Agree(frames, others, n) ==
    \A k \in 1 .. n :
        frames[k] = others[k] \/ (frames[k].kind = "assign" /\ others[k].kind = "assign")

(* The last of the positions in a set, or 0.                               *)
LEMMA TopIs ==
    ASSUME NEW n \in Nat, NEW S, S \subseteq 1 .. n,
           NEW top, top = IF S # {} THEN Max(S) ELSE 0
    PROVE  \/ S = {} /\ top = 0
           \/ top \in S /\ top \in 1 .. n /\ \A k \in S : k <= top
<1>1. CASE S # {}
  <2>1. Max(S) \in S /\ \A k \in S : k <= Max(S)
    BY <1>1, MaxIs
  <2>. QED  BY <1>1, <2>1
<1>. QED  BY <1>1

(* The last routine and the last loop.                                     *)
LEMMA LevelIs ==
    ASSUME NEW frames, NEW n \in Nat
    PROVE  /\ \/ RoutinesIn(frames, n) = {} /\ LevelIn(frames, n) = 0
              \/ /\ LevelIn(frames, n) \in RoutinesIn(frames, n) /\ LevelIn(frames, n) \in 1 .. n
                 /\ \A k \in RoutinesIn(frames, n) : k <= LevelIn(frames, n)
           /\ \/ ActiveIn(frames, n) = {} /\ LoopIn(frames, n) = 0
              \/ /\ LoopIn(frames, n) \in ActiveIn(frames, n) /\ LoopIn(frames, n) \in 1 .. n
                 /\ \A k \in ActiveIn(frames, n) : k <= LoopIn(frames, n)
<1>1. RoutinesIn(frames, n) \subseteq 1 .. n /\ ActiveIn(frames, n) \subseteq 1 .. n
  BY DEF RoutinesIn, ActiveIn
<1>2. LevelIn(frames, n) = IF RoutinesIn(frames, n) # {} THEN Max(RoutinesIn(frames, n)) ELSE 0
  BY Zenon DEF LevelIn, RoutinesIn, SelectLastInSubSeq
<1>3. LoopIn(frames, n) = IF ActiveIn(frames, n) # {} THEN Max(ActiveIn(frames, n)) ELSE 0
  BY Zenon DEF LoopIn, ActiveIn, SelectLastInSubSeq
<1>4. \/ RoutinesIn(frames, n) = {} /\ LevelIn(frames, n) = 0
      \/ /\ LevelIn(frames, n) \in RoutinesIn(frames, n) /\ LevelIn(frames, n) \in 1 .. n
         /\ \A k \in RoutinesIn(frames, n) : k <= LevelIn(frames, n)
  BY <1>1, <1>2, TopIs
<1>5. \/ ActiveIn(frames, n) = {} /\ LoopIn(frames, n) = 0
      \/ /\ LoopIn(frames, n) \in ActiveIn(frames, n) /\ LoopIn(frames, n) \in 1 .. n
         /\ \A k \in ActiveIn(frames, n) : k <= LoopIn(frames, n)
  BY <1>1, <1>3, TopIs
<1>. QED  BY <1>4, <1>5

(* The last position of a set that gains the next one or does not.         *)
LEMMA TopStep ==
    ASSUME NEW n \in Nat \ {0}, NEW S, S \subseteq 1 .. n, NEW T, T \subseteq 1 .. n - 1,
           \A k \in 1 .. n - 1 : k \in S <=> k \in T,
           NEW top, (S = {} /\ top = 0) \/ (top \in S /\ \A k \in S : k <= top),
           NEW low, (T = {} /\ low = 0) \/ (low \in T /\ \A k \in T : k <= low)
    PROVE  top = IF n \in S THEN n ELSE low
<1>1. CASE n \in S
  <2>1. top \in S /\ n <= top
    BY <1>1
  <2>2. top \in 1 .. n
    BY <2>1
  <2>. QED  BY <1>1, <2>1, <2>2
<1>2. CASE n \notin S
  <2>1. ASSUME NEW k \in S PROVE k \in 1 .. n - 1
    <3>1. k \in 1 .. n /\ k # n
      BY <1>2
    <3>. QED  BY <3>1
  <2>2. S = T
    BY <2>1
  <2>3. CASE S = {}
    BY <1>2, <2>2, <2>3
  <2>4. CASE S # {}
    <3>1. /\ top \in T /\ low \in T /\ top <= low /\ low <= top
      BY <2>2, <2>4
    <3>2. top \in 1 .. n - 1 /\ low \in 1 .. n - 1
      BY <3>1
    <3>. QED  BY <1>2, <3>1, <3>2
  <2>. QED  BY <2>3, <2>4
<1>. QED  BY <1>1, <1>2

(* The level of one frame more.                                            *)
LEMMA LevelStep ==
    ASSUME NEW frames, NEW n \in Nat \ {0}
    PROVE  /\ LevelIn(frames, n) = IF IsRoutine(frames[n]) THEN n ELSE LevelIn(frames, n - 1)
           /\ LoopIn(frames, n) = IF IsLoop(frames[n]) THEN n ELSE LoopIn(frames, n - 1)
<1>1. n - 1 \in Nat
  OBVIOUS
<1>2. /\ n \in RoutinesIn(frames, n) <=> IsRoutine(frames[n])
      /\ n \in ActiveIn(frames, n) <=> IsLoop(frames[n])
  BY DEF RoutinesIn, ActiveIn
<1>3. /\ \A k \in 1 .. n - 1 : k \in RoutinesIn(frames, n) <=> k \in RoutinesIn(frames, n - 1)
      /\ \A k \in 1 .. n - 1 : k \in ActiveIn(frames, n) <=> k \in ActiveIn(frames, n - 1)
      /\ RoutinesIn(frames, n) \subseteq 1 .. n /\ RoutinesIn(frames, n - 1) \subseteq 1 .. n - 1
      /\ ActiveIn(frames, n) \subseteq 1 .. n /\ ActiveIn(frames, n - 1) \subseteq 1 .. n - 1
  BY DEF RoutinesIn, ActiveIn
<1>4. LevelIn(frames, n)
        = IF n \in RoutinesIn(frames, n) THEN n ELSE LevelIn(frames, n - 1)
  BY <1>1, <1>3, LevelIs, TopStep
<1>5. LoopIn(frames, n)
        = IF n \in ActiveIn(frames, n) THEN n ELSE LoopIn(frames, n - 1)
  BY <1>1, <1>3, LevelIs, TopStep
<1>. QED  BY <1>2, <1>4, <1>5

(* Nothing is nested at the top level.                                     *)
LEMMA LevelZero ==
    ASSUME NEW frames
    PROVE  /\ LevelIn(frames, 0) = 0 /\ LoopIn(frames, 0) = 0
           /\ ChunkAt(frames, 0) = 1 /\ ScopeAt(frames, 0) = 1 /\ PlaceAt(frames, 0) = 0
<1>1. RoutinesIn(frames, 0) = {} /\ ActiveIn(frames, 0) = {}
  BY DEF RoutinesIn, ActiveIn
<1>2. LevelIn(frames, 0) = 0 /\ LoopIn(frames, 0) = 0
  BY <1>1, LevelIs
<1>. QED  BY <1>2 DEF ChunkAt, ScopeAt, PlaceAt

(* The chunk, the scope and the place of one frame more.                   *)
LEMMA PlacesStep ==
    ASSUME NEW frames, NEW n \in Nat \ {0}
    PROVE  /\ ChunkAt(frames, n) = IF IsRoutine(frames[n]) THEN frames[n].chunk
                                   ELSE ChunkAt(frames, n - 1)
           /\ ScopeAt(frames, n) = IF IsRoutine(frames[n]) THEN frames[n].scope.pos
                                   ELSE ScopeAt(frames, n - 1)
           /\ PlaceAt(frames, n) = IF IsLoop(frames[n]) THEN frames[n].loop.pos
                                   ELSE PlaceAt(frames, n - 1)
  BY LevelStep DEF ChunkAt, ScopeAt, PlaceAt

(* Frames that agree are nested in the same way.                           *)
LEMMA AgreeSame ==
    ASSUME NEW frames, NEW others, NEW n \in Nat, Agree(frames, others, n)
    PROVE  \A m \in 0 .. n :
              /\ LevelIn(frames, m) = LevelIn(others, m) /\ LoopIn(frames, m) = LoopIn(others, m)
              /\ ChunkAt(frames, m) = ChunkAt(others, m)
              /\ ScopeAt(frames, m) = ScopeAt(others, m)
              /\ PlaceAt(frames, m) = PlaceAt(others, m)
              /\ m # 0 /\ FrameNested(frames, m) => FrameNested(others, m)
<1>1. \A k \in 1 .. n : /\ IsRoutine(frames[k]) <=> IsRoutine(others[k])
                        /\ IsLoop(frames[k]) <=> IsLoop(others[k])
                        /\ IsRoutine(frames[k]) => frames[k] = others[k]
                        /\ IsLoop(frames[k]) => frames[k] = others[k]
  BY DEF Agree, IsRoutine, IsLoop
<1>2. ASSUME NEW m \in 0 .. n
      PROVE  /\ LevelIn(frames, m) = LevelIn(others, m) /\ LoopIn(frames, m) = LoopIn(others, m)
             /\ ChunkAt(frames, m) = ChunkAt(others, m)
             /\ ScopeAt(frames, m) = ScopeAt(others, m)
             /\ PlaceAt(frames, m) = PlaceAt(others, m)
  <2>1. \A k \in 1 .. m : k \in 1 .. n
    OBVIOUS
  <2>2. RoutinesIn(frames, m) = RoutinesIn(others, m) /\ ActiveIn(frames, m) = ActiveIn(others, m)
    BY <1>1, <2>1 DEF RoutinesIn, ActiveIn
  <2>3. LevelIn(frames, m) = LevelIn(others, m) /\ LoopIn(frames, m) = LoopIn(others, m)
    <3>1. /\ LevelIn(frames, m) = IF RoutinesIn(frames, m) # {} THEN Max(RoutinesIn(frames, m)) ELSE 0
          /\ LevelIn(others, m) = IF RoutinesIn(others, m) # {} THEN Max(RoutinesIn(others, m)) ELSE 0
      BY Zenon DEF LevelIn, RoutinesIn, SelectLastInSubSeq
    <3>2. /\ LoopIn(frames, m) = IF ActiveIn(frames, m) # {} THEN Max(ActiveIn(frames, m)) ELSE 0
          /\ LoopIn(others, m) = IF ActiveIn(others, m) # {} THEN Max(ActiveIn(others, m)) ELSE 0
      BY Zenon DEF LoopIn, ActiveIn, SelectLastInSubSeq
    <3>. QED  BY <2>2, <3>1, <3>2
  <2>4. /\ LevelIn(frames, m) # 0 => /\ LevelIn(frames, m) \in 1 .. n
                                     /\ IsRoutine(frames[LevelIn(frames, m)])
        /\ LoopIn(frames, m) # 0 => /\ LoopIn(frames, m) \in 1 .. n
                                    /\ IsLoop(frames[LoopIn(frames, m)])
    <3>1. m \in Nat
      OBVIOUS
    <3>. QED  BY <2>1, <3>1, LevelIs DEF RoutinesIn, ActiveIn
  <2>5. /\ LevelIn(frames, m) # 0 => frames[LevelIn(frames, m)] = others[LevelIn(frames, m)]
        /\ LoopIn(frames, m) # 0 => frames[LoopIn(frames, m)] = others[LoopIn(frames, m)]
    BY <1>1, <2>4
  <2>. QED  BY <2>3, <2>5 DEF ChunkAt, ScopeAt, PlaceAt
<1>3. ASSUME NEW m \in 0 .. n, m # 0, FrameNested(frames, m) PROVE FrameNested(others, m)
  <2>1. m \in 1 .. n /\ m - 1 \in 0 .. n
    BY <1>3
  <2>2. /\ ChunkAt(frames, m - 1) = ChunkAt(others, m - 1)
        /\ ScopeAt(frames, m - 1) = ScopeAt(others, m - 1)
        /\ PlaceAt(frames, m - 1) = PlaceAt(others, m - 1)
    BY <1>2, <2>1
  <2>. QED  BY <1>1, <1>3, <2>1, <2>2 DEF FrameNested
<1>. QED  BY <1>2, <1>3

(* There is a scope for each routine, and a place for each loop.           *)
LEMMA Counted ==
    ASSUME NEW frames, Len(frames) \in Nat, NestOK(frames)
    PROVE  \A n \in 0 .. Len(frames) :
              /\ ScopeAt(frames, n) = 1 + Cardinality(RoutinesIn(frames, n))
              /\ PlaceAt(frames, n) = Cardinality(ActiveIn(frames, n))
<1>. DEFINE size == Len(frames)
            counted(n) == /\ ScopeAt(frames, n) = 1 + Cardinality(RoutinesIn(frames, n))
                          /\ PlaceAt(frames, n) = Cardinality(ActiveIn(frames, n))
            Bad == {n \in 0 .. size : ~counted(n)}
<1>. SUFFICES ASSUME Bad # {} PROVE FALSE
  OBVIOUS
<1>1. PICK n \in Bad : \A m \in Bad : n <= m
  <2>1. Bad \subseteq Nat
    OBVIOUS
  <2>. HIDE DEF Bad
  <2>. QED  BY <2>1, LeastNumber
<1>2. n \in 0 .. size /\ ~counted(n) /\ size \in Nat
  OBVIOUS
<1>3. CASE n = 0
  <2>1. RoutinesIn(frames, 0) = {} /\ ActiveIn(frames, 0) = {}
    BY DEF RoutinesIn, ActiveIn
  <2>2. ScopeAt(frames, 0) = 1 /\ PlaceAt(frames, 0) = 0
    BY LevelZero
  <2>3. Cardinality(RoutinesIn(frames, 0)) = 0 /\ Cardinality(ActiveIn(frames, 0)) = 0
    BY <2>1, FS_EmptySet
  <2>. HIDE DEF Bad
  <2>. QED  BY <1>2, <1>3, <2>2, <2>3
<1>4. CASE n # 0
  <2>. DEFINE m == n - 1
  <2>1. m \in 0 .. size /\ m \in Nat /\ ~(n <= m) /\ n \in 1 .. size /\ n \in Nat \ {0}
    BY <1>2, <1>4
  <2>2. counted(m)
    BY <1>1, <2>1
  <2>3. FrameNested(frames, n)
    BY <2>1 DEF NestOK
  <2>4. /\ IsFiniteSet(RoutinesIn(frames, m)) /\ IsFiniteSet(ActiveIn(frames, m))
        /\ n \notin RoutinesIn(frames, m) /\ n \notin ActiveIn(frames, m)
    <3>1. RoutinesIn(frames, m) \subseteq 1 .. m /\ ActiveIn(frames, m) \subseteq 1 .. m
      BY DEF RoutinesIn, ActiveIn
    <3>2. IsFiniteSet(1 .. m)
      <4>. HIDE DEF m
      <4>1. 1 \in Int /\ m \in Int
        BY <2>1
      <4>. QED  BY <4>1, FS_Interval
    <3>3. n \notin 1 .. m
      BY <2>1
    <3>. QED  BY <3>1, <3>2, <3>3, FS_Subset
  <2>5. /\ RoutinesIn(frames, n) = IF IsRoutine(frames[n]) THEN RoutinesIn(frames, m) \cup {n}
                                   ELSE RoutinesIn(frames, m)
        /\ ActiveIn(frames, n) = IF IsLoop(frames[n]) THEN ActiveIn(frames, m) \cup {n}
                                 ELSE ActiveIn(frames, m)
    <3>1. \A k : k \in 1 .. n <=> k \in 1 .. m \/ k = n
      BY <2>1
    <3>. QED  BY <3>1 DEF RoutinesIn, ActiveIn
  <2>6. /\ Cardinality(RoutinesIn(frames, n))
             = IF IsRoutine(frames[n]) THEN Cardinality(RoutinesIn(frames, m)) + 1
               ELSE Cardinality(RoutinesIn(frames, m))
        /\ Cardinality(ActiveIn(frames, n))
             = IF IsLoop(frames[n]) THEN Cardinality(ActiveIn(frames, m)) + 1
               ELSE Cardinality(ActiveIn(frames, m))
    BY <2>4, <2>5, FS_AddElement
  <2>7. /\ ScopeAt(frames, n) = IF IsRoutine(frames[n]) THEN ScopeAt(frames, m) + 1
                                ELSE ScopeAt(frames, m)
        /\ PlaceAt(frames, n) = IF IsLoop(frames[n]) THEN PlaceAt(frames, m) + 1
                                ELSE PlaceAt(frames, m)
    BY <2>1, <2>3, PlacesStep DEF FrameNested
  <2>8. Cardinality(RoutinesIn(frames, m)) \in Nat /\ Cardinality(ActiveIn(frames, m)) \in Nat
    BY <2>4, FS_CardinalityType
  <2>. HIDE DEF m, Bad
  <2>. QED  BY <1>2, <2>2, <2>6, <2>7, <2>8
<1>. QED  BY <1>3, <1>4
-----------------------------------------------------------------------------
(* What is open fits the chunks, the scopes and the active loops           *)

(* The symbol that a LET has found is one of its scope, which is the top   *)
(* level's or another.                                                     *)
LetMeant(frame, scope, tables) ==
    LET items == tables[scope].infos.items
    IN  /\ frame.depth = scope
        /\ frame.domain = IF scope = 1 THEN "global_var" ELSE "local"
        /\ frame.symbol.pos \in 1 .. Len(items)
        /\ items[frame.symbol.pos].name = frame.name
        /\ items[frame.symbol.pos].domain = frame.domain

LetsMeant(frames, tables) ==
    \A n \in 1 .. Len(frames) :
        frames[n].kind = "let" => LetMeant(frames[n], ScopeAt(frames, n), tables)

(* A lambda is the operand of a binding.                                   *)
IsBinding(frame) == frame.kind \in {"let", "assign"}
LambdasBound(frames) ==
    \A n \in 1 .. Len(frames) : frames[n].kind = "lambda" => n > 1 /\ IsBinding(frames[n - 1])

ChunksOpen(frames, size) == \A n \in 0 .. Len(frames) : ChunkAt(frames, n) \in 1 .. size

Fit(frames, size, idx, tables, places) ==
    /\ NestOK(frames) /\ ChunksOpen(frames, size)
    /\ idx = ChunkAt(frames, Len(frames))
    /\ Len(tables) = ScopeAt(frames, Len(frames))
    /\ places = PlaceAt(frames, Len(frames))
    /\ LetsMeant(frames, tables) /\ LambdasBound(frames)

(* The kinds of frames.                                                    *)
LEMMA FrameKinds ==
    ASSUME NEW frame \in FrameType
    PROVE  /\ IsRoutine(frame) => frame \in RoutineFrame /\ ~IsLoop(frame) /\ ~IsBinding(frame)
           /\ IsLoop(frame) => frame \in LoopFrame /\ ~IsBinding(frame)
           /\ frame.kind = "let" => frame \in LetFrame
           /\ frame.kind = "assign" => frame \in AssignFrame
           /\ IsBinding(frame) \/ IsRoutine(frame) \/ IsLoop(frame)
  BY DEF FrameType, LetFrame, AssignFrame, RoutineFrame, LoopFrame, IsRoutine, IsLoop, IsBinding

(* An inner level has a later chunk and a later scope.                     *)
LEMMA Ordered ==
    ASSUME NEW frames \in Seq(FrameType), NestOK(frames)
    PROVE  \A n \in 0 .. Len(frames) :
              /\ ChunkAt(frames, n) \in Nat \ {0} /\ ScopeAt(frames, n) \in Nat \ {0}
              /\ PlaceAt(frames, n) \in Nat
              /\ \A m \in 0 .. n :
                    /\ \/ /\ ScopeAt(frames, m) = ScopeAt(frames, n)
                          /\ ChunkAt(frames, m) = ChunkAt(frames, n)
                       \/ /\ ScopeAt(frames, m) < ScopeAt(frames, n)
                          /\ ChunkAt(frames, m) < ChunkAt(frames, n)
                    /\ PlaceAt(frames, m) <= PlaceAt(frames, n)
<1>. DEFINE size == Len(frames)
            ordered(n) ==
              /\ ChunkAt(frames, n) \in Nat \ {0} /\ ScopeAt(frames, n) \in Nat \ {0}
              /\ PlaceAt(frames, n) \in Nat
              /\ \A m \in 0 .. n :
                    /\ \/ /\ ScopeAt(frames, m) = ScopeAt(frames, n)
                          /\ ChunkAt(frames, m) = ChunkAt(frames, n)
                       \/ /\ ScopeAt(frames, m) < ScopeAt(frames, n)
                          /\ ChunkAt(frames, m) < ChunkAt(frames, n)
                    /\ PlaceAt(frames, m) <= PlaceAt(frames, n)
            Bad == {n \in 0 .. size : ~ordered(n)}
<1>. SUFFICES ASSUME Bad # {} PROVE FALSE
  OBVIOUS
<1>1. size \in Nat
  BY LenProperties
<1>2. PICK n \in Bad : \A m \in Bad : n <= m
  <2>1. Bad \subseteq Nat
    OBVIOUS
  <2>. HIDE DEF Bad
  <2>. QED  BY <2>1, LeastNumber
<1>3. n \in 0 .. size /\ ~ordered(n)
  OBVIOUS
<1>4. CASE n = 0
  <2>1. \A m \in 0 .. 0 : m = 0
    OBVIOUS
  <2>2. ChunkAt(frames, 0) = 1 /\ ScopeAt(frames, 0) = 1 /\ PlaceAt(frames, 0) = 0
    BY LevelZero
  <2>3. ordered(0)
    BY <2>1, <2>2
  <2>. QED  BY <1>3, <1>4, <2>3
<1>5. CASE n # 0
  <2>. DEFINE k == n - 1
  <2>1. k \in 0 .. size /\ ~(n <= k) /\ n \in 1 .. size /\ n \in Nat \ {0}
        /\ \A m \in 0 .. n : m = n \/ m \in 0 .. k
    BY <1>1, <1>3, <1>5
  <2>2. ordered(k)
    BY <1>2, <2>1
  <2>3. FrameNested(frames, n)
    BY <2>1 DEF NestOK
  <2>4. frames[n] \in FrameType
    BY <2>1, ElementOfSeq
  <2>5. /\ IsRoutine(frames[n]) => frames[n].chunk \in Nat
        /\ IsLoop(frames[n]) => frames[n].loop.pos \in Nat
    BY <2>4, FrameKinds DEF RoutineFrame, LoopFrame, AddressType
  <2>6. /\ ChunkAt(frames, n) \in Nat \ {0} /\ ScopeAt(frames, n) \in Nat \ {0}
        /\ PlaceAt(frames, n) \in Nat
        /\ \/ /\ ScopeAt(frames, k) = ScopeAt(frames, n)
              /\ ChunkAt(frames, k) = ChunkAt(frames, n)
           \/ /\ ScopeAt(frames, k) < ScopeAt(frames, n)
              /\ ChunkAt(frames, k) < ChunkAt(frames, n)
        /\ PlaceAt(frames, k) <= PlaceAt(frames, n)
    <3>1. /\ ChunkAt(frames, k) \in Nat \ {0} /\ ScopeAt(frames, k) \in Nat \ {0}
          /\ PlaceAt(frames, k) \in Nat
      BY <2>2
    <3>2. /\ ChunkAt(frames, n) = IF IsRoutine(frames[n]) THEN frames[n].chunk ELSE ChunkAt(frames, k)
          /\ ScopeAt(frames, n) = IF IsRoutine(frames[n]) THEN frames[n].scope.pos
                                  ELSE ScopeAt(frames, k)
          /\ PlaceAt(frames, n) = IF IsLoop(frames[n]) THEN frames[n].loop.pos
                                  ELSE PlaceAt(frames, k)
      BY <2>1, PlacesStep
    <3>3. /\ IsRoutine(frames[n]) => /\ frames[n].scope.pos = ScopeAt(frames, k) + 1
                                     /\ ChunkAt(frames, k) < frames[n].chunk
          /\ IsLoop(frames[n]) => frames[n].loop.pos = PlaceAt(frames, k) + 1
      BY <2>3 DEF FrameNested
    <3>. HIDE DEF k, Bad, ordered
    <3>. QED  BY <2>5, <3>1, <3>2, <3>3
  <2>7. ordered(n)
    <3>1. \A m \in 0 .. k :
             /\ ChunkAt(frames, m) \in Nat \ {0} /\ ScopeAt(frames, m) \in Nat \ {0}
             /\ PlaceAt(frames, m) \in Nat
      <4>. TAKE m \in 0 .. k
      <4>1. m \in 0 .. size /\ ~(n <= m)
        BY <2>1
      <4>2. ordered(m)
        BY <1>2, <4>1
      <4>. QED  BY <4>2
    <3>2. \A m \in 0 .. k :
             /\ \/ /\ ScopeAt(frames, m) = ScopeAt(frames, k)
                   /\ ChunkAt(frames, m) = ChunkAt(frames, k)
                \/ /\ ScopeAt(frames, m) < ScopeAt(frames, k)
                   /\ ChunkAt(frames, m) < ChunkAt(frames, k)
             /\ PlaceAt(frames, m) <= PlaceAt(frames, k)
      BY <2>2
    <3>3. /\ ChunkAt(frames, k) \in Nat \ {0} /\ ScopeAt(frames, k) \in Nat \ {0}
          /\ PlaceAt(frames, k) \in Nat
      BY <2>2
    <3>4. ASSUME NEW m \in 0 .. n
          PROVE  /\ \/ /\ ScopeAt(frames, m) = ScopeAt(frames, n)
                       /\ ChunkAt(frames, m) = ChunkAt(frames, n)
                    \/ /\ ScopeAt(frames, m) < ScopeAt(frames, n)
                       /\ ChunkAt(frames, m) < ChunkAt(frames, n)
                 /\ PlaceAt(frames, m) <= PlaceAt(frames, n)
      <4>1. CASE m = n
        BY <2>6, <4>1
      <4>2. CASE m \in 0 .. k
        <5>. HIDE DEF k, Bad, ordered
        <5>. QED  BY <2>6, <3>1, <3>2, <3>3, <4>2
      <4>. QED  BY <2>1, <4>1, <4>2
    <3>. QED  BY <2>6, <3>4
  <2>. QED  BY <1>3, <2>7
<1>. QED  BY <1>4, <1>5

(* A level has no scope beyond those of the levels inside it.              *)
LEMMA ScopesInside ==
    ASSUME NEW frames \in Seq(FrameType), NestOK(frames),
           NEW n \in 0 .. Len(frames), NEW m \in 0 .. n
    PROVE  /\ ScopeAt(frames, m) \in Nat \ {0} /\ ScopeAt(frames, n) \in Nat \ {0}
           /\ ScopeAt(frames, m) <= ScopeAt(frames, n)
           /\ ScopeAt(frames, m) \in 1 .. ScopeAt(frames, n)
<1>1. Len(frames) \in Nat
  BY LenProperties
<1>2. m \in 0 .. Len(frames)
  BY <1>1
<1>3. ScopeAt(frames, m) \in Nat \ {0} /\ ScopeAt(frames, n) \in Nat \ {0}
  BY <1>2, Ordered
<1>4. ScopeAt(frames, m) = ScopeAt(frames, n) \/ ScopeAt(frames, m) < ScopeAt(frames, n)
  BY Ordered, Zenon
<1>. QED  BY <1>3, <1>4

(* One frame more, on top of frames that agree with those before.          *)
LEMMA Opens ==
    ASSUME NEW frames \in Seq(FrameType), NestOK(frames),
           NEW others \in Seq(FrameType), Len(others) = Len(frames),
           Agree(frames, others, Len(frames)), NEW frame \in FrameType,
           IsRoutine(frame) => /\ frame.old = ChunkAt(frames, Len(frames))
                               /\ frame.scope.pos = ScopeAt(frames, Len(frames)) + 1
                               /\ ChunkAt(frames, Len(frames)) < frame.chunk,
           IsLoop(frame) => frame.loop.pos = PlaceAt(frames, Len(frames)) + 1
    PROVE  LET opened == Append(others, frame)
               n == Len(frames)
           IN  /\ opened \in Seq(FrameType) /\ Len(opened) = n + 1 /\ n \in Nat
               /\ NestOK(opened) /\ opened[n + 1] = frame /\ opened # <<>>
               /\ \A m \in 1 .. n : opened[m] = others[m]
               /\ \A m \in 0 .. n : /\ ChunkAt(opened, m) = ChunkAt(frames, m)
                                    /\ ScopeAt(opened, m) = ScopeAt(frames, m)
                                    /\ PlaceAt(opened, m) = PlaceAt(frames, m)
                                    /\ LevelIn(opened, m) = LevelIn(frames, m)
                                    /\ LoopIn(opened, m) = LoopIn(frames, m)
               /\ ChunkAt(opened, n + 1) = IF IsRoutine(frame) THEN frame.chunk
                                           ELSE ChunkAt(frames, n)
               /\ ScopeAt(opened, n + 1) = IF IsRoutine(frame) THEN frame.scope.pos
                                           ELSE ScopeAt(frames, n)
               /\ PlaceAt(opened, n + 1) = IF IsLoop(frame) THEN frame.loop.pos
                                           ELSE PlaceAt(frames, n)
<1>. DEFINE opened == Append(others, frame)
            n == Len(frames)
<1>1. /\ opened \in Seq(FrameType) /\ Len(opened) = n + 1 /\ n \in Nat
      /\ \A m \in 1 .. n : opened[m] = others[m]
      /\ opened[n + 1] = frame /\ opened # <<>>
  BY AppendIs
<1>. HIDE DEF opened, n
<1>2. Agree(frames, opened, n)
  BY <1>1 DEF Agree, n
<1>3. \A m \in 0 .. n :
          /\ LevelIn(frames, m) = LevelIn(opened, m) /\ LoopIn(frames, m) = LoopIn(opened, m)
          /\ ChunkAt(frames, m) = ChunkAt(opened, m)
          /\ ScopeAt(frames, m) = ScopeAt(opened, m)
          /\ PlaceAt(frames, m) = PlaceAt(opened, m)
          /\ m # 0 /\ FrameNested(frames, m) => FrameNested(opened, m)
  BY <1>1, <1>2, AgreeSame
<1>4. n + 1 \in Nat \ {0} /\ n + 1 - 1 = n /\ n \in 0 .. n
  BY <1>1
<1>5. /\ ChunkAt(opened, n + 1) = IF IsRoutine(frame) THEN frame.chunk ELSE ChunkAt(frames, n)
      /\ ScopeAt(opened, n + 1) = IF IsRoutine(frame) THEN frame.scope.pos ELSE ScopeAt(frames, n)
      /\ PlaceAt(opened, n + 1) = IF IsLoop(frame) THEN frame.loop.pos ELSE PlaceAt(frames, n)
  BY <1>1, <1>3, <1>4, PlacesStep
<1>6. FrameNested(opened, n + 1)
  BY <1>1, <1>3, <1>4 DEF FrameNested, n
<1>7. NestOK(opened)
  <2>. SUFFICES ASSUME NEW m \in 1 .. n + 1 PROVE FrameNested(opened, m)
    BY <1>1 DEF NestOK
  <2>1. CASE m = n + 1
    BY <1>6, <2>1
  <2>2. CASE m # n + 1
    <3>1. m \in 1 .. n /\ m \in 0 .. n /\ m # 0
      BY <1>1, <2>2
    <3>2. FrameNested(frames, m)
      BY <3>1 DEF NestOK, n
    <3>. QED  BY <1>3, <3>1, <3>2
  <2>. QED  BY <2>1, <2>2
<1>. QED  BY <1>1, <1>3, <1>5, <1>7 DEF opened, n

(* One frame less.                                                         *)
LEMMA Closes ==
    ASSUME NEW frames \in Seq(FrameType), NestOK(frames), frames # <<>>
    PROVE  LET closed == Front(frames)
               last == Last(frames)
               n == Len(frames) - 1
           IN  /\ closed \in Seq(FrameType) /\ Len(closed) = n /\ n \in Nat
               /\ Len(frames) = n + 1 /\ last = frames[n + 1] /\ last \in FrameType
               /\ NestOK(closed) /\ FrameNested(frames, n + 1)
               /\ \A m \in 1 .. n : closed[m] = frames[m]
               /\ \A m \in 0 .. n : /\ ChunkAt(closed, m) = ChunkAt(frames, m)
                                    /\ ScopeAt(closed, m) = ScopeAt(frames, m)
                                    /\ PlaceAt(closed, m) = PlaceAt(frames, m)
                                    /\ LevelIn(closed, m) = LevelIn(frames, m)
                                    /\ LoopIn(closed, m) = LoopIn(frames, m)
               /\ ChunkAt(frames, n + 1) = IF IsRoutine(last) THEN last.chunk
                                           ELSE ChunkAt(frames, n)
               /\ ScopeAt(frames, n + 1) = IF IsRoutine(last) THEN last.scope.pos
                                           ELSE ScopeAt(frames, n)
               /\ PlaceAt(frames, n + 1) = IF IsLoop(last) THEN last.loop.pos
                                           ELSE PlaceAt(frames, n)
<1>. DEFINE closed == Front(frames)
            last == Last(frames)
            n == Len(frames) - 1
<1>1. /\ Len(frames) \in Nat \ {0} /\ closed \in Seq(FrameType) /\ Len(closed) = n
      /\ last = frames[Len(frames)] /\ last \in FrameType
      /\ \A m \in 1 .. n : closed[m] = frames[m]
  BY FrontIs
<1>2. n \in Nat /\ Len(frames) = n + 1 /\ n + 1 \in Nat \ {0} /\ n + 1 - 1 = n
      /\ \A m \in 1 .. n : m \in 0 .. n /\ m # 0 /\ m \in 1 .. n + 1
      /\ n + 1 \in 1 .. n + 1
  BY <1>1
<1>. HIDE DEF closed, last, n
<1>3. Agree(frames, closed, n)
  BY <1>1 DEF Agree
<1>4. \A m \in 0 .. n :
          /\ LevelIn(frames, m) = LevelIn(closed, m) /\ LoopIn(frames, m) = LoopIn(closed, m)
          /\ ChunkAt(frames, m) = ChunkAt(closed, m)
          /\ ScopeAt(frames, m) = ScopeAt(closed, m)
          /\ PlaceAt(frames, m) = PlaceAt(closed, m)
          /\ m # 0 /\ FrameNested(frames, m) => FrameNested(closed, m)
  BY <1>2, <1>3, AgreeSame
<1>5. /\ ChunkAt(frames, n + 1) = IF IsRoutine(last) THEN last.chunk ELSE ChunkAt(frames, n)
      /\ ScopeAt(frames, n + 1) = IF IsRoutine(last) THEN last.scope.pos ELSE ScopeAt(frames, n)
      /\ PlaceAt(frames, n + 1) = IF IsLoop(last) THEN last.loop.pos ELSE PlaceAt(frames, n)
  BY <1>1, <1>2, PlacesStep
<1>6. NestOK(closed) /\ FrameNested(frames, n + 1)
  BY <1>1, <1>2, <1>4 DEF NestOK
<1>. QED  BY <1>1, <1>2, <1>4, <1>5, <1>6 DEF closed, last, n

(* Symbols that a table gains do not disturb a binding.                    *)
LEMMA FitGrows ==
    ASSUME NEW frames \in Seq(FrameType), NEW size, NEW idx, NEW places,
           NEW tables \in Seq(TableType), NEW more \in Seq(TableType),
           Fit(frames, size, idx, tables, places), Len(more) = Len(tables),
           \A s \in 1 .. Len(tables) : Extends(tables[s], more[s])
    PROVE  Fit(frames, size, idx, more, places)
<1>1. Len(frames) \in Nat /\ Len(tables) \in Nat
  BY LenProperties
<1>2. ASSUME NEW n \in 1 .. Len(frames), frames[n].kind = "let"
      PROVE  LetMeant(frames[n], ScopeAt(frames, n), more)
  <2>. DEFINE scope == ScopeAt(frames, n)
              pos == frames[n].symbol.pos
  <2>1. LetMeant(frames[n], scope, tables)
    BY <1>2 DEF Fit, LetsMeant
  <2>2. scope \in 1 .. Len(tables)
    <3>1. n \in 0 .. Len(frames) /\ Len(frames) \in 0 .. Len(frames)
      BY <1>1
    <3>2. ScopeAt(frames, n) \in 1 .. ScopeAt(frames, Len(frames))
      BY <3>1, ScopesInside DEF Fit
    <3>. QED  BY <3>2 DEF Fit
  <2>. HIDE DEF scope
  <2>3. tables[scope] \in TableType /\ more[scope] \in TableType
    BY <2>2, ElementOfSeq
  <2>4. Extends(tables[scope], more[scope])
    BY <2>2
  <2>5. pos \in 1 .. Len(tables[scope].infos.items)
    BY <2>1 DEF LetMeant
  <2>6. /\ pos \in 1 .. Len(more[scope].infos.items)
        /\ more[scope].infos.items[pos] = tables[scope].infos.items[pos]
    <3>. HIDE DEF pos
    <3>. DEFINE few == tables[scope].infos.items
                many == more[scope].infos.items
    <3>1. Len(few) \in Nat /\ Len(many) \in Nat
      BY <2>3, TableFields
    <3>2. Longer(few, many) /\ pos \in 1 .. Len(few)
      BY <2>4, <2>5 DEF Extends
    <3>. HIDE DEF few, many
    <3>3. pos \in 1 .. Len(many) /\ many[pos] = few[pos]
      BY <3>1, <3>2 DEF Longer
    <3>. QED  BY <3>3 DEF few, many
  <2>7. LetMeant(frames[n], scope, more)
    BY <2>1, <2>6 DEF LetMeant
  <2>. QED  BY <2>7 DEF scope
<1>. QED  BY <1>2 DEF Fit, LetsMeant

(* A binding begins.                                                       *)
LEMMA FitOpensBinding ==
    ASSUME NEW frames \in Seq(FrameType), NEW size \in Nat, NEW idx, NEW places,
           NEW tables \in Seq(TableType), Fit(frames, size, idx, tables, places),
           NEW others \in Seq(FrameType), Len(others) = Len(frames),
           Agree(frames, others, Len(frames)), NEW frame \in FrameType, IsBinding(frame),
           frame.kind = "let" => LetMeant(frame, Len(tables), tables)
    PROVE  Fit(Append(others, frame), size, idx, tables, places)
<1>. DEFINE opened == Append(others, frame)
            n == Len(frames)
<1>1. ~IsRoutine(frame) /\ ~IsLoop(frame)
  BY FrameKinds
<1>2. /\ opened \in Seq(FrameType) /\ Len(opened) = n + 1 /\ n \in Nat
      /\ NestOK(opened) /\ opened[n + 1] = frame
      /\ \A m \in 1 .. n : opened[m] = others[m]
      /\ \A m \in 0 .. n : /\ ChunkAt(opened, m) = ChunkAt(frames, m)
                           /\ ScopeAt(opened, m) = ScopeAt(frames, m)
      /\ ChunkAt(opened, n + 1) = ChunkAt(frames, n)
      /\ ScopeAt(opened, n + 1) = ScopeAt(frames, n)
      /\ PlaceAt(opened, n + 1) = PlaceAt(frames, n)
  BY <1>1, Opens DEF Fit
<1>3. \A m \in 1 .. n + 1 : m = n + 1 \/ (m \in 1 .. n /\ m \in 0 .. n)
  BY <1>2
<1>4. \A m \in 1 .. n : frames[m] = others[m] \/ (frames[m].kind = "assign" /\ others[m].kind = "assign")
  BY DEF Agree
<1>. HIDE DEF opened, n
<1>5. ChunksOpen(opened, size)
  <2>. SUFFICES ASSUME NEW m \in 0 .. n + 1 PROVE ChunkAt(opened, m) \in 1 .. size
    BY <1>2 DEF ChunksOpen
  <2>1. m = n + 1 \/ m \in 0 .. n
    BY <1>2
  <2>2. \A k \in 0 .. n : ChunkAt(frames, k) \in 1 .. size
    BY DEF Fit, ChunksOpen, n
  <2>3. n \in 0 .. n
    BY <1>2
  <2>. QED  BY <1>2, <2>1, <2>2, <2>3
<1>6. LetsMeant(opened, tables)
  <2>. SUFFICES ASSUME NEW m \in 1 .. n + 1, opened[m].kind = "let"
                PROVE  LetMeant(opened[m], ScopeAt(opened, m), tables)
    BY <1>2 DEF LetsMeant
  <2>1. CASE m = n + 1
    BY <1>2, <2>1 DEF Fit, n
  <2>2. CASE m \in 1 .. n /\ m \in 0 .. n
    <3>1. opened[m] = frames[m]
      BY <1>2, <1>4, <2>2
    <3>2. LetMeant(frames[m], ScopeAt(frames, m), tables)
      BY <2>2, <3>1 DEF Fit, LetsMeant, n
    <3>. QED  BY <1>2, <2>2, <3>1, <3>2
  <2>. QED  BY <1>3, <2>1, <2>2
<1>7. LambdasBound(opened)
  <2>. SUFFICES ASSUME NEW m \in 1 .. n + 1, opened[m].kind = "lambda"
                PROVE  m > 1 /\ IsBinding(opened[m - 1])
    BY <1>2 DEF LambdasBound
  <2>1. m # n + 1
    BY <1>2 DEF IsBinding
  <2>2. m \in 1 .. n
    BY <1>3, <2>1
  <2>3. opened[m] = frames[m]
    BY <1>2, <1>4, <2>2
  <2>4. m > 1 /\ IsBinding(frames[m - 1])
    BY <2>2, <2>3 DEF Fit, LambdasBound, n
  <2>5. m - 1 \in 1 .. n
    BY <1>2, <2>2, <2>4
  <2>6. IsBinding(opened[m - 1])
    BY <1>2, <1>4, <2>4, <2>5 DEF IsBinding
  <2>. QED  BY <2>4, <2>6
<1>. QED  BY <1>2, <1>5, <1>6, <1>7 DEF Fit, opened, n

(* A loop begins.                                                          *)
LEMMA FitOpensLoop ==
    ASSUME NEW frames \in Seq(FrameType), NEW size \in Nat, NEW idx, NEW places,
           NEW tables \in Seq(TableType), Fit(frames, size, idx, tables, places),
           NEW others \in Seq(FrameType), Len(others) = Len(frames),
           Agree(frames, others, Len(frames)),
           NEW frame \in FrameType, IsLoop(frame), frame.loop.pos = places + 1
    PROVE  Fit(Append(others, frame), size, idx, tables, places + 1)
<1>. DEFINE opened == Append(others, frame)
            n == Len(frames)
<1>1. ~IsRoutine(frame) /\ ~IsBinding(frame)
  BY FrameKinds
<1>3. /\ opened \in Seq(FrameType) /\ Len(opened) = n + 1 /\ n \in Nat
      /\ NestOK(opened) /\ opened[n + 1] = frame
      /\ \A m \in 1 .. n : opened[m] = others[m]
      /\ \A m \in 0 .. n : /\ ChunkAt(opened, m) = ChunkAt(frames, m)
                           /\ ScopeAt(opened, m) = ScopeAt(frames, m)
      /\ ChunkAt(opened, n + 1) = ChunkAt(frames, n)
      /\ ScopeAt(opened, n + 1) = ScopeAt(frames, n)
      /\ PlaceAt(opened, n + 1) = places + 1
  BY <1>1, Opens DEF Fit
<1>4. \A m \in 1 .. n + 1 : m = n + 1 \/ (m \in 1 .. n /\ m \in 0 .. n)
  BY <1>3
<1>2. \A m \in 1 .. n :
          frames[m] = others[m] \/ (frames[m].kind = "assign" /\ others[m].kind = "assign")
  BY DEF Agree
<1>. HIDE DEF opened, n
<1>5. ChunksOpen(opened, size)
  <2>. SUFFICES ASSUME NEW m \in 0 .. n + 1 PROVE ChunkAt(opened, m) \in 1 .. size
    BY <1>3 DEF ChunksOpen
  <2>1. m = n + 1 \/ m \in 0 .. n
    BY <1>3
  <2>2. \A k \in 0 .. n : ChunkAt(frames, k) \in 1 .. size
    BY DEF Fit, ChunksOpen, n
  <2>3. n \in 0 .. n
    BY <1>3
  <2>. QED  BY <1>3, <2>1, <2>2, <2>3
<1>6. LetsMeant(opened, tables)
  <2>. SUFFICES ASSUME NEW m \in 1 .. n + 1, opened[m].kind = "let"
                PROVE  LetMeant(opened[m], ScopeAt(opened, m), tables)
    BY <1>3 DEF LetsMeant
  <2>1. m # n + 1
    BY <1>1, <1>3 DEF IsBinding
  <2>2. m \in 1 .. n /\ m \in 0 .. n
    BY <1>4, <2>1
  <2>3. opened[m] = frames[m]
    BY <1>2, <1>3, <2>2
  <2>4. LetMeant(frames[m], ScopeAt(frames, m), tables)
    BY <2>2, <2>3 DEF Fit, LetsMeant, n
  <2>. QED  BY <1>3, <2>2, <2>3, <2>4
<1>7. LambdasBound(opened)
  <2>. SUFFICES ASSUME NEW m \in 1 .. n + 1, opened[m].kind = "lambda"
                PROVE  m > 1 /\ IsBinding(opened[m - 1])
    BY <1>3 DEF LambdasBound
  <2>1. m # n + 1
    BY <1>1, <1>3 DEF IsRoutine
  <2>2. m \in 1 .. n
    BY <1>4, <2>1
  <2>3. opened[m] = frames[m]
    BY <1>2, <1>3, <2>2
  <2>4. m > 1 /\ IsBinding(frames[m - 1])
    BY <2>2, <2>3 DEF Fit, LambdasBound, n
  <2>5. m - 1 \in 1 .. n
    BY <1>3, <2>2, <2>4
  <2>6. IsBinding(opened[m - 1])
    BY <1>2, <1>3, <2>4, <2>5 DEF IsBinding
  <2>. QED  BY <2>4, <2>6
<1>. QED  BY <1>3, <1>5, <1>6, <1>7 DEF Fit, opened, n

(* A routine begins, in a chunk and a scope of its own.                    *)
LEMMA FitOpensRoutine ==
    ASSUME NEW frames \in Seq(FrameType), NEW size \in Nat, NEW idx, NEW places,
           NEW tables \in Seq(TableType), Fit(frames, size, idx, tables, places),
           NEW table \in TableType,
           NEW frame \in FrameType, IsRoutine(frame), frame.old = idx,
           frame.scope.pos = Len(tables) + 1, frame.chunk = size + 1,
           frame.kind = "lambda" => frames # <<>> /\ IsBinding(Last(frames))
    PROVE  Fit(Append(frames, frame), size + 1, size + 1, Append(tables, table), places)
<1>. DEFINE opened == Append(frames, frame)
            n == Len(frames)
            more == Append(tables, table)
<1>1. ~IsLoop(frame) /\ ~IsBinding(frame)
  BY FrameKinds
<1>2. Agree(frames, frames, Len(frames))
  BY DEF Agree
<1>3. n \in Nat /\ n \in 0 .. n
  BY LenProperties
<1>4. idx = ChunkAt(frames, n) /\ Len(tables) = ScopeAt(frames, n) /\ places = PlaceAt(frames, n)
      /\ idx \in 1 .. size
  BY <1>3 DEF Fit, ChunksOpen
<1>5. ChunkAt(frames, n) < frame.chunk
  BY <1>4
<1>6. /\ opened \in Seq(FrameType) /\ Len(opened) = n + 1
      /\ NestOK(opened) /\ opened[n + 1] = frame
      /\ \A m \in 1 .. n : opened[m] = frames[m]
      /\ \A m \in 0 .. n : /\ ChunkAt(opened, m) = ChunkAt(frames, m)
                           /\ ScopeAt(opened, m) = ScopeAt(frames, m)
      /\ ChunkAt(opened, n + 1) = size + 1
      /\ ScopeAt(opened, n + 1) = Len(tables) + 1
      /\ PlaceAt(opened, n + 1) = places
  BY <1>1, <1>2, <1>4, <1>5, Opens DEF Fit
<1>7. \A m \in 1 .. n + 1 : m = n + 1 \/ (m \in 1 .. n /\ m \in 0 .. n)
  BY <1>3
<1>8. /\ more \in Seq(TableType) /\ Len(more) = Len(tables) + 1 /\ Len(tables) \in Nat
      /\ \A s \in 1 .. Len(tables) : more[s] = tables[s]
  BY AppendIs
<1>. HIDE DEF opened, n, more
<1>9. ChunksOpen(opened, size + 1)
  <2>. SUFFICES ASSUME NEW m \in 0 .. n + 1 PROVE ChunkAt(opened, m) \in 1 .. size + 1
    BY <1>6 DEF ChunksOpen
  <2>1. m = n + 1 \/ m \in 0 .. n
    BY <1>3
  <2>2. \A k \in 0 .. n : ChunkAt(frames, k) \in 1 .. size + 1
    <3>1. \A k \in 0 .. n : ChunkAt(frames, k) \in 1 .. size
      BY DEF Fit, ChunksOpen, n
    <3>. QED  BY <3>1
  <2>3. size + 1 \in 1 .. size + 1
    OBVIOUS
  <2>. QED  BY <1>6, <2>1, <2>2, <2>3
<1>10. LetsMeant(opened, more)
  <2>. SUFFICES ASSUME NEW m \in 1 .. n + 1, opened[m].kind = "let"
                PROVE  LetMeant(opened[m], ScopeAt(opened, m), more)
    BY <1>6 DEF LetsMeant
  <2>1. m # n + 1
    BY <1>1, <1>6 DEF IsBinding
  <2>2. m \in 1 .. n /\ m \in 0 .. n
    BY <1>7, <2>1
  <2>3. LetMeant(frames[m], ScopeAt(frames, m), tables)
    BY <1>6, <2>2 DEF Fit, LetsMeant, n
  <2>4. ScopeAt(frames, m) \in 1 .. Len(tables)
    <3>1. m \in 0 .. Len(frames) /\ Len(frames) \in 0 .. Len(frames) /\ m \in 0 .. Len(frames)
      BY <1>3, <2>2 DEF n
    <3>2. ScopeAt(frames, m) \in 1 .. ScopeAt(frames, Len(frames))
      BY <3>1, ScopesInside DEF Fit
    <3>. QED  BY <1>4, <3>2 DEF n
  <2>5. LetMeant(frames[m], ScopeAt(frames, m), more)
    BY <1>8, <2>3, <2>4 DEF LetMeant
  <2>. QED  BY <1>6, <2>2, <2>5
<1>11. LambdasBound(opened)
  <2>. SUFFICES ASSUME NEW m \in 1 .. n + 1, opened[m].kind = "lambda"
                PROVE  m > 1 /\ IsBinding(opened[m - 1])
    BY <1>6 DEF LambdasBound
  <2>1. CASE m = n + 1
    <3>1. frames # <<>> /\ IsBinding(Last(frames))
      BY <1>6, <2>1
    <3>2. Len(frames) \in Nat \ {0} /\ Last(frames) = frames[Len(frames)]
      BY <3>1, FrontIs
    <3>3. m - 1 = n /\ n \in 1 .. n /\ m > 1
      BY <1>3, <2>1, <3>2 DEF n
    <3>. QED  BY <1>6, <3>1, <3>2, <3>3 DEF n
  <2>2. CASE m \in 1 .. n
    <3>1. m > 1 /\ IsBinding(frames[m - 1])
      BY <1>6, <2>2 DEF Fit, LambdasBound, n
    <3>2. m - 1 \in 1 .. n
      BY <1>3, <2>2, <3>1
    <3>. QED  BY <1>6, <3>1, <3>2
  <2>. QED  BY <1>7, <2>1, <2>2
<1>. QED  BY <1>6, <1>8, <1>9, <1>10, <1>11 DEF Fit, opened, more

(* What was begun last ends.                                               *)
LEMMA FitCloses ==
    ASSUME NEW frames \in Seq(FrameType), NEW size \in Nat, NEW idx, NEW places,
           NEW tables \in Seq(TableType), Fit(frames, size, idx, tables, places), frames # <<>>
    PROVE  LET last == Last(frames)
           IN  /\ Fit(Front(frames), size, IF IsRoutine(last) THEN last.old ELSE idx,
                      IF IsRoutine(last) THEN Front(tables) ELSE tables,
                      IF IsLoop(last) THEN places - 1 ELSE places)
               /\ tables # <<>>
               /\ IsRoutine(last) => /\ last.chunk = idx /\ last.scope.pos = Len(tables)
                                     /\ last.old \in 1 .. size /\ last.old < idx
               /\ IsLoop(last) => last.loop.pos = places
<1>. DEFINE closed == Front(frames)
            last == Last(frames)
            n == Len(frames) - 1
            fewer == IF IsRoutine(last) THEN Front(tables) ELSE tables
<1>1. /\ closed \in Seq(FrameType) /\ Len(closed) = n /\ n \in Nat
      /\ Len(frames) = n + 1 /\ last = frames[n + 1] /\ last \in FrameType
      /\ NestOK(closed) /\ FrameNested(frames, n + 1)
      /\ \A m \in 1 .. n : closed[m] = frames[m]
      /\ \A m \in 0 .. n : /\ ChunkAt(closed, m) = ChunkAt(frames, m)
                           /\ ScopeAt(closed, m) = ScopeAt(frames, m)
                           /\ PlaceAt(closed, m) = PlaceAt(frames, m)
      /\ ChunkAt(frames, n + 1) = IF IsRoutine(last) THEN last.chunk ELSE ChunkAt(frames, n)
      /\ ScopeAt(frames, n + 1) = IF IsRoutine(last) THEN last.scope.pos ELSE ScopeAt(frames, n)
      /\ PlaceAt(frames, n + 1) = IF IsLoop(last) THEN last.loop.pos ELSE PlaceAt(frames, n)
  BY Closes, Zenon DEF Fit
<1>. HIDE DEF closed, last, n
<1>2. n + 1 - 1 = n /\ n \in 0 .. n /\ n \in 0 .. n + 1 /\ n + 1 \in 0 .. n + 1
  BY <1>1
<1>3. /\ ChunkAt(frames, n) \in Nat \ {0} /\ ScopeAt(frames, n) \in Nat \ {0}
      /\ PlaceAt(frames, n) \in Nat
      /\ ScopeAt(frames, n + 1) \in Nat \ {0} /\ PlaceAt(frames, n + 1) \in Nat
  BY <1>1, <1>2, Ordered DEF Fit
<1>4. /\ idx = ChunkAt(frames, n + 1) /\ Len(tables) = ScopeAt(frames, n + 1)
      /\ places = PlaceAt(frames, n + 1)
      /\ ChunkAt(frames, n) \in 1 .. size
  BY <1>1, <1>2 DEF Fit, ChunksOpen
<1>5. /\ IsRoutine(last) => /\ last.old = ChunkAt(frames, n)
                            /\ last.scope.pos = ScopeAt(frames, n) + 1
                            /\ ChunkAt(frames, n) < last.chunk
      /\ IsLoop(last) => last.loop.pos = PlaceAt(frames, n) + 1
  BY <1>1, <1>2 DEF FrameNested
<1>6. IsLoop(last) => ~IsRoutine(last)
  BY <1>1, FrameKinds
<1>7. tables # <<>> /\ Len(tables) \in Nat \ {0}
  BY <1>3, <1>4
<1>8. /\ fewer \in Seq(TableType)
      /\ Len(fewer) = IF IsRoutine(last) THEN Len(tables) - 1 ELSE Len(tables)
      /\ \A s \in 1 .. Len(fewer) : fewer[s] = tables[s]
  BY <1>7, FrontIs
<1>. HIDE DEF fewer
<1>9. Len(fewer) = ScopeAt(frames, n)
  BY <1>1, <1>3, <1>4, <1>5, <1>8
<1>10. (IF IsLoop(last) THEN places - 1 ELSE places) = PlaceAt(frames, n)
  BY <1>1, <1>3, <1>4, <1>5
<1>11. (IF IsRoutine(last) THEN last.old ELSE idx) = ChunkAt(frames, n)
  BY <1>1, <1>4, <1>5
<1>12. ChunksOpen(closed, size)
  <2>1. \A m \in 0 .. n : m \in 0 .. n + 1
    BY <1>1
  <2>. QED  BY <1>1, <2>1 DEF Fit, ChunksOpen
<1>13. LetsMeant(closed, fewer)
  <2>. SUFFICES ASSUME NEW m \in 1 .. n, closed[m].kind = "let"
                PROVE  LetMeant(closed[m], ScopeAt(closed, m), fewer)
    BY <1>1 DEF LetsMeant
  <2>1. m \in 1 .. n + 1 /\ m \in 0 .. n /\ m \in 0 .. n + 1
    BY <1>1
  <2>2. LetMeant(frames[m], ScopeAt(frames, m), tables)
    BY <1>1, <2>1 DEF Fit, LetsMeant
  <2>3. ScopeAt(frames, m) \in 1 .. Len(fewer)
    <3>1. ScopeAt(frames, m) \in 1 .. ScopeAt(frames, n)
      BY <1>1, <1>2, <2>1, ScopesInside DEF Fit
    <3>. QED  BY <1>9, <3>1
  <2>4. LetMeant(frames[m], ScopeAt(frames, m), fewer)
    BY <1>8, <2>2, <2>3 DEF LetMeant
  <2>. QED  BY <1>1, <2>1, <2>4
<1>14. LambdasBound(closed)
  <2>. SUFFICES ASSUME NEW m \in 1 .. n, closed[m].kind = "lambda"
                PROVE  m > 1 /\ IsBinding(closed[m - 1])
    BY <1>1 DEF LambdasBound
  <2>1. m \in 1 .. n + 1
    BY <1>1
  <2>2. m > 1 /\ IsBinding(frames[m - 1])
    BY <1>1, <2>1 DEF Fit, LambdasBound
  <2>3. m - 1 \in 1 .. n
    BY <1>1, <2>2
  <2>. QED  BY <1>1, <2>2, <2>3
<1>15. Fit(closed, size, ChunkAt(frames, n), fewer, PlaceAt(frames, n))
  BY <1>1, <1>2, <1>9, <1>12, <1>13, <1>14 DEF Fit
<1>16. IsRoutine(last) => /\ last.chunk = idx /\ last.scope.pos = Len(tables)
                          /\ last.old \in 1 .. size /\ last.old < idx
  BY <1>1, <1>4, <1>5
<1>17. IsLoop(last) => last.loop.pos = places
  BY <1>1, <1>4
<1>. QED  BY <1>7, <1>10, <1>11, <1>15, <1>16, <1>17, Zenon DEF closed, last, fewer
-----------------------------------------------------------------------------
(* Code                                                                    *)

(* A sequence with one item set.                                           *)
LEMMA SeqSet ==
    ASSUME NEW S, NEW s \in Seq(S), NEW i \in 1 .. Len(s), NEW x \in S
    PROVE  LET t == [s EXCEPT ![i] = x]
           IN  /\ t \in Seq(S) /\ Len(t) = Len(s) /\ t[i] = x
               /\ \A k \in 1 .. Len(s) : k # i => t[k] = s[k]
<1>1. DOMAIN s = 1 .. Len(s) /\ Len(s) \in Nat
  BY LenProperties
<1>. QED  BY <1>1, ExceptSeq

(* Two sequences in a row.                                                 *)
LEMMA ConcatIs ==
    ASSUME NEW S, NEW s \in Seq(S), NEW t \in Seq(S)
    PROVE  /\ s \o t \in Seq(S) /\ Len(s \o t) = Len(s) + Len(t)
           /\ Len(s) \in Nat /\ Len(t) \in Nat
           /\ \A k \in 1 .. Len(s) : (s \o t)[k] = s[k]
           /\ \A k \in 1 .. Len(t) : (s \o t)[Len(s) + k] = t[k]
<1>1. Len(s) \in Nat /\ Len(t) \in Nat
  BY LenProperties
<1>2. s \o t \in Seq(S) /\ Len(s \o t) = Len(s) + Len(t)
  BY ConcatProperties
<1>3. \A k \in 1 .. Len(s) + Len(t) :
          (s \o t)[k] = IF k <= Len(s) THEN s[k] ELSE t[k - Len(s)]
  BY ConcatProperties
<1>4. \A k \in 1 .. Len(s) : (s \o t)[k] = s[k]
  BY <1>1, <1>3
<1>5. ASSUME NEW k \in 1 .. Len(t) PROVE (s \o t)[Len(s) + k] = t[k]
  <2>1. Len(s) + k \in 1 .. Len(s) + Len(t) /\ ~(Len(s) + k <= Len(s)) /\ Len(s) + k - Len(s) = k
    BY <1>1
  <2>. QED  BY <1>3, <2>1
<1>. QED  BY <1>1, <1>2, <1>4, <1>5

(* An instruction.                                                         *)
LEMMA InsIs ==
    ASSUME NEW op \in Ops, NEW flag \in Nat, NEW wide \in Int, NEW name \in Names \cup {NoName}
    PROVE  LET ins == Ins(op, flag, wide, name)
           IN  /\ ins \in InsType /\ ins.op = op /\ ins.flag = flag /\ ins.wide = wide
               /\ ins.name = name /\ ins.home = <<>> /\ ins.plain = TRUE
  BY DEF Ins, InsType

(* One that names nothing.                                                 *)
LEMMA OpIs ==
    ASSUME NEW op \in Ops, NEW wide \in Int
    PROVE  /\ Op(op, wide) \in InsType /\ Op(op, wide).op = op /\ Op(op, wide).wide = wide
           /\ Op(op, wide).name = NoName /\ Op(op, wide).home = <<>>
           /\ Op(op, wide).flag = 0 /\ Op(op, wide).plain = TRUE
  BY DEF Op, Ins, InsType

(* The parts of a chunk.                                                   *)
LEMMA ChunkFields ==
    ASSUME NEW chunk \in ChunkType
    PROVE  /\ chunk.code \in Seq(InsType) /\ chunk.argc \in Nat /\ chunk.uses \in Seq(Names)
           /\ chunk.own \in SUBSET ((Names \cup Literals) \X Domains)
           /\ Len(chunk.code) \in Nat /\ DOMAIN chunk.code = 1 .. Len(chunk.code)
           /\ \A n \in 1 .. Len(chunk.code) : chunk.code[n] \in InsType
<1>1. /\ chunk.code \in Seq(InsType) /\ chunk.argc \in Nat /\ chunk.uses \in Seq(Names)
      /\ chunk.own \in SUBSET ((Names \cup Literals) \X Domains)
  BY DEF ChunkType
<1>. QED  BY <1>1, LenProperties, ElementOfSeq

(* Other code in a chunk.                                                  *)
LEMMA RecodedIs ==
    ASSUME NEW chs \in Seq(ChunkType), NEW idx \in 1 .. Len(chs), NEW code \in Seq(InsType)
    PROVE  LET after == [chs EXCEPT ![idx].code = code]
           IN  /\ after \in Seq(ChunkType) /\ Len(after) = Len(chs)
               /\ after[idx].code = code /\ after[idx].argc = chs[idx].argc
               /\ after[idx].uses = chs[idx].uses /\ after[idx].own = chs[idx].own
               /\ \A c \in 1 .. Len(chs) : c # idx => after[c] = chs[c]
<1>. DEFINE chunk == [chs[idx] EXCEPT !.code = code]
<1>1. chs[idx] \in ChunkType
  BY ElementOfSeq
<1>2. /\ chunk \in ChunkType /\ chunk.code = code /\ chunk.argc = chs[idx].argc
      /\ chunk.uses = chs[idx].uses /\ chunk.own = chs[idx].own
  BY <1>1 DEF ChunkType
<1>3. [chs EXCEPT ![idx].code = code] = [chs EXCEPT ![idx] = chunk]
  OBVIOUS
<1>. HIDE DEF chunk
<1>4. LET after == [chs EXCEPT ![idx] = chunk]
      IN  /\ after \in Seq(ChunkType) /\ Len(after) = Len(chs) /\ after[idx] = chunk
          /\ \A c \in 1 .. Len(chs) : c # idx => after[c] = chs[c]
  BY <1>2, SeqSet
<1>. QED  BY <1>2, <1>3, <1>4

(* A patch changes one instruction, and only where it goes.                *)
LEMMA PatchedIs ==
    ASSUME NEW code \in Seq(InsType), NEW pos \in Nat, NEW flag \in Nat, NEW wide \in Int
    PROVE  LET after == PatchedAt(code, pos, flag, wide)
           IN  /\ after \in Seq(InsType) /\ Len(after) = Len(code)
               /\ \A n \in 1 .. Len(code) :
                     /\ n # pos + 1 => after[n] = code[n]
                     /\ n = pos + 1 => after[n].flag = flag /\ after[n].wide = wide
                     /\ after[n] \in InsType /\ after[n].op = code[n].op
                     /\ after[n].name = code[n].name /\ after[n].home = code[n].home
                     /\ after[n].plain = code[n].plain
<1>. DEFINE after == PatchedAt(code, pos, flag, wide)
            size == Len(code)
<1>1. size \in Nat /\ DOMAIN code = 1 .. size /\ \A n \in 1 .. size : code[n] \in InsType
  BY LenProperties, ElementOfSeq
<1>2. after = [n \in 1 .. size |-> IF n = pos + 1
                                     THEN [code[n] EXCEPT !.flag = flag, !.wide = wide]
                                   ELSE code[n]]
  BY <1>1 DEF PatchedAt
<1>3. ASSUME NEW ins \in InsType
      PROVE  LET new == [ins EXCEPT !.flag = flag, !.wide = wide]
             IN  /\ new \in InsType /\ new.op = ins.op /\ new.name = ins.name
                 /\ new.home = ins.home /\ new.plain = ins.plain
                 /\ new.flag = flag /\ new.wide = wide
  BY DEF InsType
<1>. HIDE DEF size
<1>4. \A n \in 1 .. size :
          /\ n # pos + 1 => after[n] = code[n]
          /\ n = pos + 1 => after[n] = [code[n] EXCEPT !.flag = flag, !.wide = wide]
  BY <1>2
<1>. HIDE DEF after
<1>5. ASSUME NEW n \in 1 .. size
      PROVE  /\ after[n] \in InsType /\ after[n].op = code[n].op
             /\ after[n].name = code[n].name /\ after[n].home = code[n].home
             /\ after[n].plain = code[n].plain
             /\ n = pos + 1 => after[n].flag = flag /\ after[n].wide = wide
  <2>1. CASE n = pos + 1
    <3>1. code[n] \in InsType /\ after[n] = [code[n] EXCEPT !.flag = flag, !.wide = wide]
      BY <1>1, <1>4, <2>1, Zenon
    <3>. QED  BY <1>3, <3>1, Zenon
  <2>2. CASE n # pos + 1
    BY <1>1, <1>4, <2>2
  <2>. QED  BY <2>1, <2>2
<1>6. after \in [1 .. size -> InsType]
  BY <1>2, <1>5
<1>7. after \in Seq(InsType) /\ Len(after) = size
  BY <1>1, <1>6, SeqDef, LenProperties
<1>. QED  BY <1>4, <1>5, <1>7 DEF after, size

(* So do the patches of a loop, of the jumps it has recorded.              *)
LEMMA LoopPatchedIs ==
    ASSUME NEW code \in Seq(InsType), NEW breaks \in SUBSET Nat, NEW continues \in SUBSET Nat,
           NEW exit \in Nat, NEW again \in Nat
    PROVE  LET after == LoopPatched(code, breaks, continues, exit, again)
           IN  /\ after \in Seq(InsType) /\ Len(after) = Len(code)
               /\ \A n \in 1 .. Len(code) :
                     /\ n - 1 \notin breaks \cup continues => after[n] = code[n]
                     /\ n - 1 \in continues =>
                           after[n].wide = n - 1 - again /\ after[n].flag = 1
                     /\ n - 1 \in breaks \ continues =>
                           after[n].wide = exit - (n - 1) /\ after[n].flag = code[n].flag
                     /\ after[n] \in InsType /\ after[n].op = code[n].op
                     /\ after[n].name = code[n].name /\ after[n].home = code[n].home
                     /\ after[n].plain = code[n].plain
<1>. DEFINE after == LoopPatched(code, breaks, continues, exit, again)
            size == Len(code)
<1>1. size \in Nat /\ DOMAIN code = 1 .. size /\ \A n \in 1 .. size : code[n] \in InsType
  BY LenProperties, ElementOfSeq
<1>2. \A n \in 1 .. size : /\ (\E p \in continues : p + 1 = n) <=> n - 1 \in continues
                           /\ (\E p \in breaks : p + 1 = n) <=> n - 1 \in breaks
  <2>1. ASSUME NEW S \in SUBSET Nat, NEW n \in 1 .. size
        PROVE  (\E p \in S : p + 1 = n) <=> n - 1 \in S
    <3>1. ASSUME NEW p \in S, p + 1 = n PROVE n - 1 \in S
      <4>1. p \in Nat
        OBVIOUS
      <4>2. n - 1 = p
        BY <3>1, <4>1
      <4>. QED  BY <4>2
    <3>2. n - 1 + 1 = n
      BY <1>1
    <3>. QED  BY <3>1, <3>2
  <2>. QED  BY <2>1
<1>3. after = [n \in 1 .. size |->
                  IF \E p \in continues : p + 1 = n
                    THEN [code[n] EXCEPT !.wide = n - 1 - again, !.flag = 1]
                  ELSE IF \E p \in breaks : p + 1 = n
                    THEN [code[n] EXCEPT !.wide = exit - (n - 1)]
                  ELSE code[n]]
  BY <1>1 DEF LoopPatched
<1>. HIDE DEF size
<1>4. \A n \in 1 .. size :
          /\ n - 1 \notin breaks \cup continues => after[n] = code[n]
          /\ n - 1 \in continues =>
                after[n] = [code[n] EXCEPT !.wide = n - 1 - again, !.flag = 1]
          /\ n - 1 \in breaks \ continues =>
                after[n] = [code[n] EXCEPT !.wide = exit - (n - 1)]
  BY <1>2, <1>3
<1>. HIDE DEF after
<1>5. ASSUME NEW n \in 1 .. size
      PROVE  /\ after[n] \in InsType /\ after[n].op = code[n].op
             /\ after[n].name = code[n].name /\ after[n].home = code[n].home
             /\ after[n].plain = code[n].plain
  <2>1. code[n] \in InsType /\ n - 1 - again \in Int /\ exit - (n - 1) \in Int
    BY <1>1
  <2>2. \/ after[n] = code[n]
        \/ after[n] = [code[n] EXCEPT !.wide = n - 1 - again, !.flag = 1]
        \/ after[n] = [code[n] EXCEPT !.wide = exit - (n - 1)]
    BY <1>4
  <2>3. CASE after[n] = code[n]
    BY <2>1, <2>3
  <2>. DEFINE ins == code[n]
              near == n - 1 - again
              far == exit - (n - 1)
  <2>4. CASE after[n] = [ins EXCEPT !.wide = near, !.flag = 1]
    <3>. HIDE DEF ins, near
    <3>1. ins \in InsType /\ near \in Int
      BY <2>1 DEF ins, near
    <3>. DEFINE mid == [ins EXCEPT !.wide = near]
    <3>2. /\ mid \in InsType /\ mid.op = ins.op /\ mid.name = ins.name
          /\ mid.home = ins.home /\ mid.plain = ins.plain
      BY <3>1 DEF InsType
    <3>3. after[n] = [mid EXCEPT !.flag = 1]
      BY <2>4
    <3>. HIDE DEF mid
    <3>4. /\ after[n] \in InsType /\ after[n].op = ins.op /\ after[n].name = ins.name
          /\ after[n].home = ins.home /\ after[n].plain = ins.plain
      BY <3>2, <3>3 DEF InsType
    <3>. QED  BY <3>4 DEF ins
  <2>5. CASE after[n] = [ins EXCEPT !.wide = far]
    <3>. HIDE DEF ins, far
    <3>1. ins \in InsType /\ far \in Int
      BY <2>1 DEF ins, far
    <3>2. /\ after[n] \in InsType /\ after[n].op = ins.op /\ after[n].name = ins.name
          /\ after[n].home = ins.home /\ after[n].plain = ins.plain
      BY <2>5, <3>1 DEF InsType
    <3>. QED  BY <3>2 DEF ins
  <2>. QED  BY <2>2, <2>3, <2>4, <2>5
<1>6. after \in [1 .. size -> InsType]
  BY <1>3, <1>5
<1>7. after \in Seq(InsType) /\ Len(after) = size
  BY <1>1, <1>6, SeqDef, LenProperties
<1>8. ASSUME NEW n \in 1 .. size, n - 1 \in continues
      PROVE  after[n].wide = n - 1 - again /\ after[n].flag = 1
  <2>. DEFINE ins == code[n]
              near == n - 1 - again
              mid == [ins EXCEPT !.wide = near]
  <2>0. ins \in InsType /\ near \in Int
    BY <1>1
  <2>1. after[n] = [ins EXCEPT !.wide = near, !.flag = 1]
    BY <1>4, <1>8, Zenon
  <2>. HIDE DEF ins, near
  <2>2. mid \in InsType /\ mid.wide = near
    BY <2>0 DEF InsType
  <2>3. after[n] = [mid EXCEPT !.flag = 1]
    BY <2>1
  <2>. HIDE DEF mid
  <2>4. after[n].wide = near /\ after[n].flag = 1
    BY <2>2, <2>3 DEF InsType
  <2>. QED  BY <2>4 DEF near
<1>9. ASSUME NEW n \in 1 .. size, n - 1 \in breaks \ continues
      PROVE  after[n].wide = exit - (n - 1) /\ after[n].flag = code[n].flag
  <2>. DEFINE ins == code[n]
              far == exit - (n - 1)
  <2>0. ins \in InsType /\ far \in Int
    BY <1>1
  <2>1. after[n] = [ins EXCEPT !.wide = far]
    BY <1>4, <1>9, Zenon
  <2>. HIDE DEF ins, far
  <2>2. after[n].wide = far /\ after[n].flag = ins.flag
    BY <2>0, <2>1 DEF InsType
  <2>. QED  BY <2>2 DEF far, ins
<1>. QED  BY <1>4, <1>5, <1>7, <1>8, <1>9 DEF after, size
-----------------------------------------------------------------------------
(* Where code goes, however the source goes on                             *)

Sound == status = "open" /\ errors = 0

ScopeTypes ==
    /\ chunks \in Seq(ChunkType) /\ globals \in Seq(SymbolType)
    /\ locals \in VecOf(TableType) /\ loops \in VecOf(LoopType)
    /\ saved_info \in SymbolType \cup {NoSymbol}
    /\ nest \in Seq(FrameType) /\ expr \in {"none", "want", "have"}

Nested ==
    /\ Fit(nest, Len(chunks), chunk_idx, locals.items, Len(loops.items))
    /\ expr # "none" => nest # <<>> /\ IsBinding(Frame)

NestInv == errors \in Nat /\ (Sound => ScopeTypes /\ Nested)

(* What a name of a domain is looked up in.                                *)
SymbolsOf(domain, funcs, top, own) ==
    IF domain = "func" THEN funcs ELSE IF domain = "global_var" THEN top ELSE own

(* What is open is there.                                                  *)
LEMMA OpenIs ==
    ASSUME ScopeTypes, Nested
    PROVE  /\ chunk_idx \in 1 .. Len(chunks) /\ Len(chunks) \in Nat
           /\ chunks[chunk_idx] \in ChunkType /\ Code = chunks[chunk_idx].code
           /\ Code \in Seq(InsType) /\ Here = Len(Code) /\ Here \in Nat
           /\ locals.items \in Seq(TableType) /\ Depth = Len(locals.items)
           /\ Depth \in Nat \ {0} /\ Scope = locals.items[Depth] /\ locals.items # <<>>
           /\ Scope \in TableType /\ locals.items[1] \in TableType
           /\ loops.items \in Seq(LoopType) /\ Len(loops.items) \in Nat
           /\ Len(nest) \in Nat
<1>1. /\ locals.items \in Seq(TableType) /\ loops.items \in Seq(LoopType)
      /\ chunks \in Seq(ChunkType) /\ nest \in Seq(FrameType)
  BY DEF ScopeTypes, VecOf
<1>2. Len(nest) \in Nat /\ Len(chunks) \in Nat /\ Len(loops.items) \in Nat
      /\ Len(locals.items) \in Nat
  BY <1>1, LenProperties
<1>3. Len(nest) \in 0 .. Len(nest)
  BY <1>2
<1>4. chunk_idx \in 1 .. Len(chunks)
  BY <1>3 DEF Nested, Fit, ChunksOpen
<1>5. Len(locals.items) \in Nat \ {0}
  BY <1>1, <1>3, ScopesInside DEF Nested, Fit
<1>6. chunks[chunk_idx] \in ChunkType
  BY <1>1, <1>4, ElementOfSeq
<1>7. Code \in Seq(InsType) /\ Len(Code) \in Nat
  BY <1>6, ChunkFields DEF Code
<1>8. locals.items[1] \in TableType /\ locals.items[Len(locals.items)] \in TableType
  <2>1. 1 \in 1 .. Len(locals.items) /\ Len(locals.items) \in 1 .. Len(locals.items)
    BY <1>5
  <2>. QED  BY <1>1, <2>1, ElementOfSeq
<1>9. locals.items # <<>>
  BY <1>5
<1>. QED  BY <1>1, <1>2, <1>4, <1>5, <1>6, <1>7, <1>8, <1>9 DEF Code, Here, Scope, Depth, Last

(* What a name is resolved to.                                             *)
LEMMA ResolveIs ==
    ASSUME ScopeTypes, Nested, NEW name \in Names, Resolve(name) # NoSymbol
    PROVE  LET symbol == Resolve(name)
               items == SymbolsOf(symbol.domain, globals, locals.items[1].infos.items,
                                  Scope.infos.items)
           IN  /\ symbol \in SymbolType /\ symbol.name = name
               /\ symbol.domain \in {"func", "global_var", "local", "upval"}
               /\ items \in Seq(SymbolType) /\ symbol = Find(items, name, symbol.domain)
<1>1. /\ globals \in Seq(SymbolType) /\ locals.items[1].infos.items \in Seq(SymbolType)
      /\ Scope.infos.items \in Seq(SymbolType)
  BY OpenIs, TableFields DEF ScopeTypes
<1>. DEFINE func == Find(globals, name, "func")
            global_var == Find(locals.items[1].infos.items, name, "global_var")
            local == Find(Scope.infos.items, name, "local")
            upval == Find(Scope.infos.items, name, "upval")
<1>2. \A items \in Seq(SymbolType), domain \in Domains :
          Find(items, name, domain) = NoSymbol
          \/ /\ Find(items, name, domain) \in SymbolType
             /\ Find(items, name, domain).name = name
             /\ Find(items, name, domain).domain = domain
  BY FindIs
<1>3. /\ func = NoSymbol \/ (func \in SymbolType /\ func.name = name /\ func.domain = "func")
      /\ global_var = NoSymbol
            \/ (global_var \in SymbolType /\ global_var.name = name
                 /\ global_var.domain = "global_var")
      /\ local = NoSymbol
            \/ (local \in SymbolType /\ local.name = name /\ local.domain = "local")
      /\ upval = NoSymbol
            \/ (upval \in SymbolType /\ upval.name = name /\ upval.domain = "upval")
  BY <1>1, <1>2 DEF Domains
<1>4. Resolve(name) = IF func # NoSymbol THEN func
                      ELSE IF global_var # NoSymbol THEN global_var
                      ELSE IF local # NoSymbol THEN local ELSE upval
  BY DEF Resolve
<1>5. \/ Resolve(name) = func /\ func # NoSymbol
      \/ Resolve(name) = global_var /\ global_var # NoSymbol
      \/ Resolve(name) = local /\ local # NoSymbol
      \/ Resolve(name) = upval /\ upval # NoSymbol
  BY <1>4
<1>. QED  BY <1>1, <1>3, <1>5 DEF SymbolsOf

(* The load of a symbol.                                                   *)
LEMMA LoadIs ==
    ASSUME NEW symbol \in SymbolType, symbol.name \in Names,
           symbol.domain \in {"func", "global_var", "local", "upval"}
    PROVE  LET ins == Load(symbol)
           IN  /\ ins \in InsType /\ ins.op \in DOMAIN Space /\ Space[ins.op] = symbol.domain
               /\ ins.name = symbol.name /\ ins.wide = symbol.id /\ ins.home = <<>>
               /\ ins.plain = TRUE /\ ins.op # "mk_closure"
<1>1. /\ symbol.id \in Nat /\ LoadOp[symbol.domain] \in Ops
      /\ LoadOp[symbol.domain] \in DOMAIN Space
      /\ Space[LoadOp[symbol.domain]] = symbol.domain
      /\ LoadOp[symbol.domain] # "mk_closure"
  BY DEF SymbolType, LoadOp, Ops, Space
<1>. DEFINE op == LoadOp[symbol.domain]
            id == symbol.id
            name == symbol.name
<1>2. Load(symbol) = Ins(op, 0, id, name)
  BY DEF Load
<1>3. op \in Ops /\ 0 \in Nat /\ id \in Int /\ name \in Names \cup {NoName}
  BY <1>1
<1>. HIDE DEF op, id, name
<1>4. LET ins == Ins(op, 0, id, name)
      IN  /\ ins \in InsType /\ ins.op = op /\ ins.wide = id
          /\ ins.name = name /\ ins.home = <<>> /\ ins.plain = TRUE
  BY <1>3 DEF Ins, InsType
<1>. QED  BY <1>1, <1>2, <1>4 DEF op, id, name

(* The store to one.                                                       *)
LEMMA StoreIs ==
    ASSUME NEW domain \in {"global_var", "local", "upval"}, NEW id \in Nat, NEW name \in Names
    PROVE  LET ins == Ins(StoreOp[domain], 0, id, name)
           IN  /\ ins \in InsType /\ ins.op \in DOMAIN Space /\ Space[ins.op] = domain
               /\ ins.name = name /\ ins.wide = id /\ ins.home = <<>> /\ ins.plain = TRUE
               /\ ins.op # "mk_closure" /\ ins.op # "load_imm_gid" /\ ins.flag = 0
<1>1. /\ StoreOp[domain] \in Ops /\ StoreOp[domain] \in DOMAIN Space
      /\ Space[StoreOp[domain]] = domain
      /\ StoreOp[domain] # "mk_closure" /\ StoreOp[domain] # "load_imm_gid"
  BY DEF StoreOp, Ops, Space
<1>. DEFINE op == StoreOp[domain]
<1>2. op \in Ops /\ 0 \in Nat /\ id \in Int /\ name \in Names \cup {NoName}
  BY <1>1
<1>. HIDE DEF op
<1>3. LET ins == Ins(op, 0, id, name)
      IN  /\ ins \in InsType /\ ins.op = op /\ ins.flag = 0 /\ ins.wide = id
          /\ ins.name = name /\ ins.home = <<>> /\ ins.plain = TRUE
  BY <1>2, InsIs
<1>. QED  BY <1>1, <1>3 DEF op

(* One instruction is a sequence of instructions.                          *)
LEMMA OneIs ==
    ASSUME NEW S, NEW x \in S
    PROVE  <<x>> \in Seq(S) /\ Len(<<x>>) = 1 /\ <<x>>[1] = x
  OBVIOUS

(* A scope that has gained symbols.                                        *)
LEMMA ScopedIs ==
    ASSUME ScopeTypes, Nested, NEW table \in TableType, Extends(Scope, table), Scoped(table)
    PROVE  /\ locals' \in VecOf(TableType) /\ Len(locals'.items) = Depth
           /\ locals'.items[Depth] = table /\ locals'.moves = locals.moves
           /\ \A s \in 1 .. Depth : s # Depth => locals'.items[s] = locals.items[s]
           /\ \A s \in 1 .. Depth : Extends(locals.items[s], locals'.items[s])
           /\ Fit(nest, Len(chunks), chunk_idx, locals'.items, Len(loops.items))
<1>. DEFINE items == locals.items
            more == [items EXCEPT ![Depth] = table]
<1>1. items \in Seq(TableType) /\ Depth = Len(items) /\ Depth \in Nat \ {0}
      /\ Scope = items[Depth]
  BY OpenIs
<1>2. Depth \in 1 .. Len(items)
  BY <1>1
<1>3. /\ more \in Seq(TableType) /\ Len(more) = Len(items) /\ more[Depth] = table
      /\ \A s \in 1 .. Len(items) : s # Depth => more[s] = items[s]
  BY <1>1, <1>2, SeqSet
<1>4. locals' = [locals EXCEPT !.items = more]
  BY DEF Scoped
<1>. HIDE DEF more
<1>5. locals' \in VecOf(TableType) /\ locals'.items = more /\ locals'.moves = locals.moves
  BY <1>3, <1>4 DEF VecOf, ScopeTypes
<1>6. \A s \in 1 .. Len(items) : Extends(items[s], more[s])
  <2>. TAKE s \in 1 .. Len(items)
  <2>1. items[s] \in TableType
    BY <1>1, ElementOfSeq
  <2>2. CASE s = Depth
    BY <1>1, <1>3, <2>2
  <2>3. CASE s # Depth
    BY <1>3, <2>1, <2>3, ExtendsItself
  <2>. QED  BY <2>2, <2>3
<1>7. Fit(nest, Len(chunks), chunk_idx, more, Len(loops.items))
  <2>1. nest \in Seq(FrameType)
    BY DEF ScopeTypes
  <2>2. Fit(nest, Len(chunks), chunk_idx, items, Len(loops.items))
    BY DEF Nested
  <2>. HIDE DEF items
  <2>. QED  BY <1>1, <1>3, <1>6, <2>1, <2>2, FitGrows
<1>. QED  BY <1>1, <1>3, <1>5, <1>6, <1>7

(* A LET.                                                                  *)
LEMMA BeginLetFits ==
    ASSUME ScopeTypes, Nested, NEW name \in Names, BeginLet(name)
    PROVE  /\ ScopeTypes' /\ Nested'
           /\ \E table \in TableType, frame \in FrameType :
                 /\ Scoped(table) /\ Extends(Scope, table)
                 /\ \A uses : GoodTable(Scope, uses) => GoodTable(table, uses)
                 /\ IsBinding(frame) /\ frame.kind = "let" /\ nest' = Append(nest, frame)
<1>. DEFINE domain == IF AtTopLevel THEN "global_var" ELSE "local"
            table == IF AtTopLevel THEN WithGlobal(Scope, name) ELSE WithLocal(Scope, name)
            pos == PositionOf(table, name, domain)
            frame == [kind |-> "let", name |-> name, domain |-> domain, depth |-> Depth,
                      symbol |-> Address(table.infos, pos)]
<1>1. /\ Scoped(table) /\ Open(frame) /\ expr' = "want"
      /\ chunks' = chunks /\ chunk_idx' = chunk_idx /\ globals' = globals /\ loops' = loops
      /\ saved_info' = saved_info
  BY DEF BeginLet
<1>2. Scope \in TableType /\ Depth \in Nat \ {0} /\ nest \in Seq(FrameType)
      /\ locals.items \in Seq(TableType) /\ Depth = Len(locals.items)
      /\ Len(chunks) \in Nat
  BY OpenIs DEF ScopeTypes
<1>3. /\ table \in TableType /\ Extends(Scope, table)
      /\ Find(table.infos.items, name, domain) # NoSymbol
      /\ domain \in {"global_var", "local"}
      /\ domain = IF Depth = 1 THEN "global_var" ELSE "local"
      /\ \A uses : GoodTable(Scope, uses) => GoodTable(table, uses)
  <2>1. AtTopLevel <=> Depth = 1
    <3>1. Depth \in Nat \ {0}
      BY <1>2
    <3>. QED  BY <3>1 DEF AtTopLevel
  <2>2. CASE AtTopLevel
    BY <1>2, <2>1, <2>2, WithGlobalIs
  <2>3. CASE ~AtTopLevel
    BY <1>2, <2>1, <2>3, WithLocalIs
  <2>. QED  BY <2>2, <2>3
<1>. HIDE DEF table, domain
<1>4. /\ table.infos.items \in Seq(SymbolType) /\ table.infos \in VecOf(SymbolType)
  BY <1>3, TableFields
<1>5. /\ pos \in 1 .. Len(table.infos.items)
      /\ table.infos.items[pos].name = name /\ table.infos.items[pos].domain = domain
  <2>1. domain \in Domains
    BY <1>3 DEF Domains
  <2>. QED  BY <1>3, <1>4, <2>1, FindIs DEF PositionOf
<1>. HIDE DEF pos
<1>6. frame \in FrameType /\ IsBinding(frame) /\ frame.kind = "let"
  <2>1. Len(table.infos.items) \in Nat
    BY <1>4, LenProperties
  <2>2. pos \in Nat /\ table.infos.moves \in Nat
    BY <1>4, <1>5, <2>1 DEF VecOf
  <2>3. Address(table.infos, pos) \in AddressType
    BY <2>2 DEF Address, AddressType
  <2>4. frame \in LetFrame
    BY <1>2, <1>3, <2>3 DEF LetFrame
  <2>. QED  BY <2>4 DEF FrameType, IsBinding
<1>7. /\ frame.depth = Depth /\ frame.domain = domain /\ frame.name = name
      /\ frame.symbol.pos = pos
  BY DEF Address
<1>. HIDE DEF frame
<1>8. /\ locals' \in VecOf(TableType) /\ Len(locals'.items) = Depth
      /\ locals'.items[Depth] = table
      /\ Fit(nest, Len(chunks), chunk_idx, locals'.items, Len(loops.items))
  BY <1>1, <1>3, ScopedIs
<1>9. LetMeant(frame, Len(locals'.items), locals'.items)
  BY <1>3, <1>5, <1>7, <1>8 DEF LetMeant
<1>10. nest' = Append(nest, frame)
  BY <1>1 DEF Open
<1>11. locals'.items \in Seq(TableType) /\ Agree(nest, nest, Len(nest))
  BY <1>8 DEF VecOf, Agree
<1>12. Fit(nest', Len(chunks), chunk_idx, locals'.items, Len(loops.items))
  BY <1>2, <1>6, <1>8, <1>9, <1>10, <1>11, FitOpensBinding
<1>13. /\ nest' \in Seq(FrameType) /\ nest' # <<>> /\ Last(nest') = frame
  BY <1>2, <1>6, <1>10, AppendIs DEF Last
<1>14. ScopeTypes'
  BY <1>1, <1>8, <1>13 DEF ScopeTypes
<1>15. Nested'
  BY <1>1, <1>6, <1>12, <1>13 DEF Nested, Frame
<1>. QED  BY <1>1, <1>3, <1>6, <1>10, <1>14, <1>15

(* What an assignment inside the open constructs leaves of them.           *)
LEMMA OverwrittenIs ==
    ASSUME ScopeTypes
    PROVE  /\ Overwritten \in Seq(FrameType) /\ Len(Overwritten) = Len(nest)
           /\ Agree(nest, Overwritten, Len(nest))
           /\ \A n \in 1 .. Len(nest) :
                 Overwritten[n].kind = "assign" => ~Overwritten[n].plain
<1>. DEFINE others == Overwritten
<1>1. nest \in Seq(FrameType) /\ Len(nest) \in Nat /\ DOMAIN nest = 1 .. Len(nest)
      /\ \A n \in 1 .. Len(nest) : nest[n] \in FrameType
  BY LenProperties, ElementOfSeq DEF ScopeTypes
<1>2. others = [n \in 1 .. Len(nest) |->
                   IF nest[n].kind = "assign" THEN [nest[n] EXCEPT !.plain = FALSE]
                   ELSE nest[n]]
  BY <1>1 DEF Overwritten
<1>. HIDE DEF others
<1>3. \A n \in 1 .. Len(nest) :
          /\ others[n] \in FrameType /\ (others[n].kind = "assign" => ~others[n].plain)
          /\ nest[n] = others[n] \/ (nest[n].kind = "assign" /\ others[n].kind = "assign")
  <2>. TAKE n \in 1 .. Len(nest)
  <2>1. CASE nest[n].kind = "assign"
    <3>1. nest[n] \in AssignFrame
      BY <1>1, <2>1, FrameKinds
    <3>2. others[n] = [nest[n] EXCEPT !.plain = FALSE]
      BY <1>2, <2>1
    <3>3. others[n] \in AssignFrame
      BY <3>1, <3>2, ZenonT(40) DEF AssignFrame
    <3>4. ~others[n].plain
      BY <3>1, <3>2 DEF AssignFrame
    <3>. QED  BY <2>1, <3>3, <3>4 DEF FrameType, AssignFrame
  <2>2. CASE nest[n].kind # "assign"
    BY <1>1, <1>2, <2>2
  <2>. QED  BY <2>1, <2>2
<1>4. others \in [1 .. Len(nest) -> FrameType]
  BY <1>2, <1>3
<1>5. others \in Seq(FrameType) /\ Len(others) = Len(nest)
  BY <1>1, <1>4, SeqDef, LenProperties
<1>6. Agree(nest, others, Len(nest))
  BY <1>3 DEF Agree
<1>. QED  BY <1>3, <1>5, <1>6 DEF others

(* An assignment.                                                          *)
LEMMA BeginAssignFits ==
    ASSUME ScopeTypes, Nested, NEW name \in Names, BeginAssign(name)
    PROVE  /\ ScopeTypes' /\ Nested'
           /\ \E others \in Seq(FrameType), frame \in FrameType :
                 /\ Len(others) = Len(nest) /\ Agree(nest, others, Len(nest))
                 /\ \A n \in 1 .. Len(nest) :
                       others[n].kind = "assign" /\ others[n].plain =>
                           others[n] = nest[n] /\ Resolve(name).domain = "func"
                 /\ IsBinding(frame) /\ frame.kind = "assign" /\ frame.name = name
                 /\ frame.domain = Resolve(name).domain /\ nest' = Append(others, frame)
<1>. DEFINE symbol == Resolve(name)
            kept == symbol.domain # "func"
            others == IF kept THEN Overwritten ELSE nest
            frame == [kind |-> "assign", name |-> name, domain |-> symbol.domain,
                      plain |-> TRUE]
<1>1. /\ symbol # NoSymbol /\ saved_info' = (IF kept THEN symbol ELSE saved_info)
      /\ nest' = Append(others, frame) /\ expr' = "want"
      /\ chunks' = chunks /\ chunk_idx' = chunk_idx /\ globals' = globals /\ loops' = loops
      /\ locals' = locals
  BY DEF BeginAssign
<1>2. nest \in Seq(FrameType) /\ locals.items \in Seq(TableType) /\ Len(chunks) \in Nat
  BY OpenIs DEF ScopeTypes
<1>3. /\ symbol \in SymbolType
      /\ symbol.domain \in {"func", "global_var", "local", "upval"}
  BY <1>1, ResolveIs
<1>. HIDE DEF symbol, kept
<1>4. frame \in FrameType /\ IsBinding(frame) /\ frame.kind = "assign"
  <2>1. frame \in AssignFrame
    BY <1>3 DEF AssignFrame
  <2>. QED  BY <2>1 DEF FrameType, IsBinding
<1>5. /\ others \in Seq(FrameType) /\ Len(others) = Len(nest)
      /\ Agree(nest, others, Len(nest))
  <2>1. CASE kept
    BY <2>1, OverwrittenIs
  <2>2. CASE ~kept
    BY <1>2, <2>2 DEF Agree
  <2>. QED  BY <2>1, <2>2
<1>6. \A n \in 1 .. Len(nest) :
          others[n].kind = "assign" /\ others[n].plain =>
              others[n] = nest[n] /\ symbol.domain = "func"
  <2>1. CASE kept
    BY <2>1, OverwrittenIs
  <2>2. CASE ~kept
    BY <2>2 DEF kept
  <2>. QED  BY <2>1, <2>2
<1>7. frame.name = name /\ frame.domain = symbol.domain
  OBVIOUS
<1>. HIDE DEF others, frame
<1>8. Fit(nest, Len(chunks), chunk_idx, locals.items, Len(loops.items))
  BY DEF Nested
<1>9. Fit(nest', Len(chunks), chunk_idx, locals.items, Len(loops.items))
  <2>1. frame.kind # "let"
    BY <1>4
  <2>. QED  BY <1>1, <1>2, <1>4, <1>5, <1>8, <2>1, FitOpensBinding
<1>10. nest' \in Seq(FrameType) /\ nest' # <<>> /\ Last(nest') = frame
  BY <1>1, <1>4, <1>5, AppendIs DEF Last
<1>11. saved_info' \in SymbolType \cup {NoSymbol}
  BY <1>1, <1>3 DEF ScopeTypes
<1>12. ScopeTypes'
  BY <1>1, <1>10, <1>11 DEF ScopeTypes
<1>13. Nested'
  BY <1>1, <1>4, <1>9, <1>10 DEF Nested, Frame
<1>. QED  BY <1>1, <1>4, <1>5, <1>6, <1>7, <1>12, <1>13 DEF symbol

(* Code goes behind the code that is there.                                *)
LEMMA EmitIs ==
    ASSUME ScopeTypes, Nested, NEW more \in Seq(InsType), Emit(more)
    PROVE  /\ chunks' \in Seq(ChunkType) /\ Len(chunks') = Len(chunks)
           /\ chunks'[chunk_idx].code = Code \o more
           /\ chunks'[chunk_idx].argc = chunks[chunk_idx].argc
           /\ chunks'[chunk_idx].uses = chunks[chunk_idx].uses
           /\ chunks'[chunk_idx].own = chunks[chunk_idx].own
           /\ \A c \in 1 .. Len(chunks) : c # chunk_idx => chunks'[c] = chunks[c]
<1>1. chunk_idx \in 1 .. Len(chunks) /\ chunks \in Seq(ChunkType)
      /\ Code = chunks[chunk_idx].code
  BY OpenIs DEF ScopeTypes
<1>. DEFINE code == Code \o more
<1>2. code \in Seq(InsType)
  BY OpenIs, ConcatIs
<1>3. chunks' = [chunks EXCEPT ![chunk_idx].code = code]
  BY DEF Emit, Code
<1>. HIDE DEF code
<1>4. LET after == [chunks EXCEPT ![chunk_idx].code = code]
      IN  /\ after \in Seq(ChunkType) /\ Len(after) = Len(chunks)
          /\ after[chunk_idx].code = code
          /\ after[chunk_idx].argc = chunks[chunk_idx].argc
          /\ after[chunk_idx].uses = chunks[chunk_idx].uses
          /\ after[chunk_idx].own = chunks[chunk_idx].own
          /\ \A c \in 1 .. Len(chunks) : c # chunk_idx => after[c] = chunks[c]
  BY <1>1, <1>2, RecodedIs
<1>. QED  BY <1>3, <1>4 DEF code

(* A name is read.                                                         *)
LEMMA ReadNameFits ==
    ASSUME ScopeTypes, Nested, NEW name \in Names, ReadName(name)
    PROVE  ScopeTypes' /\ Nested'
<1>1. /\ Resolve(name) # NoSymbol /\ Emit(<<Load(Resolve(name))>>) /\ expr = "want"
      /\ expr' = "have"
      /\ chunk_idx' = chunk_idx /\ globals' = globals /\ loops' = loops
      /\ locals' = locals /\ nest' = nest /\ saved_info' = saved_info
  BY DEF ReadName, InBinding, stack_vars
<1>2. /\ Resolve(name) \in SymbolType /\ Resolve(name).name \in Names
      /\ Resolve(name).domain \in {"func", "global_var", "local", "upval"}
  BY <1>1, ResolveIs
<1>3. Load(Resolve(name)) \in InsType
  BY <1>2, LoadIs
<1>4. <<Load(Resolve(name))>> \in Seq(InsType)
  BY <1>3
<1>5. chunks' \in Seq(ChunkType) /\ Len(chunks') = Len(chunks)
  BY <1>1, <1>4, EmitIs
<1>6. ScopeTypes'
  BY <1>1, <1>5 DEF ScopeTypes
<1>7. Nested'
  BY <1>1, <1>5 DEF Nested, Frame
<1>. QED  BY <1>6, <1>7

(* What a constant is recorded as.                                         *)
LEMMA ConstantIs ==
    ASSUME ScopeTypes, Nested, NEW literal \in Literals
    PROVE  LET table == WithConstant(Scope, literal)
               symbol == Find(table.infos.items, literal, "constant")
           IN  /\ table \in TableType /\ Extends(Scope, table) /\ symbol.id \in Nat
               /\ table.next_local_id = Scope.next_local_id
               /\ Op("put_k", symbol.id) \in InsType
               /\ \A uses : GoodTable(Scope, uses) => GoodTable(table, uses)
<1>. DEFINE table == WithConstant(Scope, literal)
            symbol == Find(table.infos.items, literal, "constant")
<1>1. Scope \in TableType
  BY OpenIs
<1>2. /\ table \in TableType /\ Extends(Scope, table) /\ symbol # NoSymbol
      /\ table.next_local_id = Scope.next_local_id
      /\ \A uses : GoodTable(Scope, uses) => GoodTable(table, uses)
  BY <1>1, WithConstantIs
<1>. HIDE DEF table
<1>3. table.infos.items \in Seq(SymbolType) /\ "constant" \in Domains
  BY <1>2, TableFields DEF Domains
<1>4. symbol \in SymbolType
  BY <1>2, <1>3, FindIs
<1>. HIDE DEF symbol
<1>5. symbol.id \in Nat
  BY <1>4 DEF SymbolType
<1>6. Op("put_k", symbol.id) \in InsType
  <2>. DEFINE id == symbol.id
  <2>1. "put_k" \in Ops /\ id \in Int
    BY <1>5 DEF Ops
  <2>. HIDE DEF id
  <2>2. Op("put_k", id) \in InsType
    BY <2>1, OpIs
  <2>. QED  BY <2>2 DEF id
<1>. QED  BY <1>2, <1>5, <1>6 DEF table, symbol

(* A constant is read.                                                     *)
LEMMA ReadConstantFits ==
    ASSUME ScopeTypes, Nested, NEW literal \in Literals, ReadConstant(literal)
    PROVE  ScopeTypes' /\ Nested'
<1>. DEFINE table == WithConstant(Scope, literal)
            ins == Op("put_k", Find(table.infos.items, literal, "constant").id)
<1>1. /\ Scoped(table) /\ Emit(<<ins>>) /\ expr = "want" /\ expr' = "have"
      /\ chunk_idx' = chunk_idx /\ globals' = globals /\ loops' = loops
      /\ nest' = nest /\ saved_info' = saved_info
  BY DEF ReadConstant, InBinding
<1>2. table \in TableType /\ Extends(Scope, table) /\ ins \in InsType
  BY ConstantIs
<1>. HIDE DEF table, ins
<1>3. /\ locals' \in VecOf(TableType)
      /\ Fit(nest, Len(chunks), chunk_idx, locals'.items, Len(loops.items))
  BY <1>1, <1>2, ScopedIs
<1>4. chunks' \in Seq(ChunkType) /\ Len(chunks') = Len(chunks)
  <2>1. <<ins>> \in Seq(InsType)
    BY <1>2
  <2>. QED  BY <1>1, <2>1, EmitIs
<1>5. ScopeTypes'
  BY <1>1, <1>3, <1>4 DEF ScopeTypes
<1>6. Nested'
  BY <1>1, <1>3, <1>4 DEF Nested, Frame
<1>. QED  BY <1>5, <1>6

(* What was begun last, when it is a binding or a loop, ends in the chunk  *)
(* and the scope that it began in.                                         *)
LEMMA EndsIs ==
    ASSUME ScopeTypes, Nested, nest # <<>>
    PROVE  /\ Frame \in FrameType /\ Len(nest) \in Nat \ {0} /\ Frame = nest[Len(nest)]
           /\ Front(nest) \in Seq(FrameType)
           /\ ~IsRoutine(Frame) /\ ~IsLoop(Frame) =>
                 Fit(Front(nest), Len(chunks), chunk_idx, locals.items, Len(loops.items))
           /\ IsLoop(Frame) =>
                 /\ Fit(Front(nest), Len(chunks), chunk_idx, locals.items, Len(loops.items) - 1)
                 /\ Frame.loop.pos = Len(loops.items) /\ loops.items # <<>>
                 /\ Frame \in LoopFrame
           /\ IsRoutine(Frame) =>
                 /\ Fit(Front(nest), Len(chunks), Frame.old, Front(locals.items),
                        Len(loops.items))
                 /\ Frame.chunk = chunk_idx /\ Frame.scope.pos = Depth
                 /\ Frame.old \in 1 .. Len(chunks) /\ Frame.old < chunk_idx
                 /\ Frame \in RoutineFrame
           /\ Frame.kind = "let" => Frame \in LetFrame /\ LetMeant(Frame, Depth, locals.items)
           /\ Frame.kind = "assign" => Frame \in AssignFrame
<1>1. nest \in Seq(FrameType) /\ locals.items \in Seq(TableType) /\ Len(loops.items) \in Nat
      /\ Depth = Len(locals.items) /\ Len(chunks) \in Nat
  BY OpenIs DEF ScopeTypes
<1>2. Fit(nest, Len(chunks), chunk_idx, locals.items, Len(loops.items))
  BY DEF Nested
<1>3. /\ Frame \in FrameType /\ Len(nest) \in Nat \ {0} /\ Frame = nest[Len(nest)]
      /\ Front(nest) \in Seq(FrameType)
  BY <1>1, FrontIs DEF Frame
<1>. DEFINE idx == IF IsRoutine(Frame) THEN Frame.old ELSE chunk_idx
            tables == IF IsRoutine(Frame) THEN Front(locals.items) ELSE locals.items
            places == IF IsLoop(Frame) THEN Len(loops.items) - 1 ELSE Len(loops.items)
<1>4. /\ Fit(Front(nest), Len(chunks), idx, tables, places)
      /\ IsRoutine(Frame) => /\ Frame.chunk = chunk_idx /\ Frame.scope.pos = Len(locals.items)
                             /\ Frame.old \in 1 .. Len(chunks) /\ Frame.old < chunk_idx
      /\ IsLoop(Frame) => Frame.loop.pos = Len(loops.items)
  BY <1>1, <1>2, FitCloses DEF Frame
<1>5. /\ IsRoutine(Frame) => Frame \in RoutineFrame /\ ~IsLoop(Frame)
      /\ IsLoop(Frame) => Frame \in LoopFrame /\ ~IsRoutine(Frame)
      /\ Frame.kind = "let" => Frame \in LetFrame
      /\ Frame.kind = "assign" => Frame \in AssignFrame
  BY <1>3, FrameKinds
<1>6. ASSUME IsLoop(Frame) PROVE loops.items # <<>>
  <2>1. ScopeTypes => nest[Len(nest)] \in FrameType
    BY <1>3
  <2>2. FrameNested(nest, Len(nest)) /\ Len(nest) - 1 \in 0 .. Len(nest)
    BY <1>2, <1>3 DEF Fit, NestOK
  <2>3. Frame.loop.pos = PlaceAt(nest, Len(nest) - 1) + 1
    BY <1>3, <1>6, <2>2 DEF FrameNested
  <2>4. PlaceAt(nest, Len(nest) - 1) \in Nat
    BY <1>1, <1>2, <2>2, Ordered DEF Fit
  <2>5. Len(loops.items) # 0
    BY <1>4, <1>6, <2>3, <2>4
  <2>. QED  BY <2>5
<1>7. Frame.kind = "let" => LetMeant(Frame, Depth, locals.items)
  <2>1. Len(nest) \in 1 .. Len(nest)
    BY <1>3
  <2>. QED  BY <1>1, <1>2, <1>3, <2>1 DEF Fit, LetsMeant
<1>8. IsRoutine(Frame) =>
         /\ Fit(Front(nest), Len(chunks), Frame.old, Front(locals.items), Len(loops.items))
         /\ Frame.scope.pos = Depth
  BY <1>1, <1>4, <1>5
<1>9. IsLoop(Frame) =>
         Fit(Front(nest), Len(chunks), chunk_idx, locals.items, Len(loops.items) - 1)
  BY <1>4, <1>5
<1>10. ~IsRoutine(Frame) /\ ~IsLoop(Frame) =>
          Fit(Front(nest), Len(chunks), chunk_idx, locals.items, Len(loops.items))
  BY <1>4
<1>. QED  BY <1>3, <1>4, <1>5, <1>6, <1>7, <1>8, <1>9, <1>10

(* The store of a LET goes to a slot of its scope.                         *)
LEMMA LetSlotIs ==
    ASSUME ScopeTypes, Nested, InBinding("have"), Frame.kind = "let",
           NEW id \in IdsAt(locals.items[Frame.depth], Frame.symbol)
    PROVE  /\ id \in Nat /\ Ins(StoreOp[Frame.domain], 0, id, Frame.name) \in InsType
           /\ Frame.depth = Depth
<1>1. nest # <<>>
  BY DEF InBinding, Nested
<1>2. Frame \in LetFrame /\ LetMeant(Frame, Depth, locals.items)
  BY <1>1, EndsIs
<1>3. /\ Frame.depth = Depth /\ Scope \in TableType /\ Scope = locals.items[Depth]
      /\ Frame.symbol.pos \in 1 .. Len(Scope.infos.items)
  BY <1>2, OpenIs DEF LetMeant
<1>4. Scope.infos.items[Frame.symbol.pos].id \in Nat /\ Scope.next_local_id \in Nat
  <2>1. Scope.infos.items[Frame.symbol.pos] \in SymbolType
    BY <1>3, TableFields
  <2>. QED  BY <1>3, <2>1, TableFields DEF SymbolType
<1>5. id \in Nat
  BY <1>3, <1>4, SMTT(40) DEF IdsAt
<1>6. Frame.domain \in {"global_var", "local", "upval"} /\ Frame.name \in Names
  BY <1>2 DEF LetFrame
<1>7. Ins(StoreOp[Frame.domain], 0, id, Frame.name) \in InsType
  BY <1>5, <1>6, StoreIs
<1>. QED  BY <1>3, <1>5, <1>7

(* The store of a LET.                                                     *)
LEMMA StoreLetFits ==
    ASSUME ScopeTypes, Nested, StoreLet
    PROVE  ScopeTypes' /\ Nested'
<1>1. /\ InBinding("have") /\ Frame.kind = "let" /\ expr' = "none" /\ nest' = Front(nest)
      /\ chunk_idx' = chunk_idx /\ globals' = globals /\ loops' = loops
      /\ locals' = locals /\ saved_info' = saved_info
  BY DEF StoreLet
<1>2. PICK id \in IdsAt(locals.items[Frame.depth], Frame.symbol) :
          Emit(<<Ins(StoreOp[Frame.domain], 0, id, Frame.name)>>)
  BY DEF StoreLet
<1>3. Ins(StoreOp[Frame.domain], 0, id, Frame.name) \in InsType
  BY <1>1, LetSlotIs
<1>4. chunks' \in Seq(ChunkType) /\ Len(chunks') = Len(chunks)
  <2>1. <<Ins(StoreOp[Frame.domain], 0, id, Frame.name)>> \in Seq(InsType)
    BY <1>3
  <2>. QED  BY <1>2, <2>1, EmitIs
<1>5. nest # <<>>
  BY <1>1 DEF InBinding, Nested
<1>6. /\ Fit(Front(nest), Len(chunks), chunk_idx, locals.items, Len(loops.items))
      /\ Front(nest) \in Seq(FrameType)
  <2>1. ~IsRoutine(Frame) /\ ~IsLoop(Frame)
    BY <1>1 DEF IsRoutine, IsLoop
  <2>. QED  BY <1>5, <2>1, EndsIs
<1>7. ScopeTypes'
  BY <1>1, <1>4, <1>6 DEF ScopeTypes
<1>8. Nested'
  BY <1>1, <1>4, <1>6 DEF Nested
<1>. QED  BY <1>7, <1>8

(* The store of an assignment.                                             *)
LEMMA StoreAssignedFits ==
    ASSUME ScopeTypes, Nested, StoreAssigned
    PROVE  /\ ScopeTypes' /\ Nested'
           /\ [Ins(StoreOp[Frame.domain], 0, saved_info.id, Frame.name)
                 EXCEPT !.plain = Frame.plain] \in InsType
<1>. DEFINE ins == Ins(StoreOp[Frame.domain], 0, saved_info.id, Frame.name)
            last == [ins EXCEPT !.plain = Frame.plain]
<1>1. /\ InBinding("have") /\ Frame.kind = "assign" /\ Frame.domain # "func"
      /\ expr' = "none" /\ nest' = Front(nest) /\ Emit(<<last>>)
      /\ chunk_idx' = chunk_idx /\ globals' = globals /\ loops' = loops
      /\ locals' = locals /\ saved_info' = saved_info
  BY DEF StoreAssigned
<1>2. nest # <<>>
  BY <1>1 DEF InBinding, Nested
<1>3. /\ Frame \in AssignFrame /\ Front(nest) \in Seq(FrameType)
      /\ Fit(Front(nest), Len(chunks), chunk_idx, locals.items, Len(loops.items))
  <2>1. ~IsRoutine(Frame) /\ ~IsLoop(Frame)
    BY <1>1 DEF IsRoutine, IsLoop
  <2>. QED  BY <1>1, <1>2, <2>1, EndsIs
<1>4. /\ Frame.domain \in {"global_var", "local", "upval"} /\ Frame.name \in Names
      /\ Frame.plain \in BOOLEAN /\ saved_info.id \in Nat
  <2>1. saved_info \in SymbolType \/ saved_info = NoSymbol
    BY DEF ScopeTypes
  <2>2. saved_info.id \in Nat
    BY <2>1 DEF SymbolType, NoSymbol
  <2>. QED  BY <1>1, <1>3, <2>2 DEF AssignFrame
<1>5. ins \in InsType
  BY <1>4, StoreIs
<1>. HIDE DEF ins
<1>6. last \in InsType
  BY <1>4, <1>5 DEF InsType
<1>. HIDE DEF last
<1>7. chunks' \in Seq(ChunkType) /\ Len(chunks') = Len(chunks)
  <2>1. <<last>> \in Seq(InsType)
    BY <1>6
  <2>. QED  BY <1>1, <2>1, EmitIs
<1>8. ScopeTypes'
  BY <1>1, <1>3, <1>7 DEF ScopeTypes
<1>9. Nested'
  BY <1>1, <1>3, <1>7 DEF Nested
<1>. QED  BY <1>6, <1>8, <1>9 DEF last, ins

(* A routine begins.                                                       *)
LEMMA EnterFits ==
    ASSUME ScopeTypes, Nested, NEW kind \in {"lambda", "func"}, NEW ids \in Seq(Nat),
           NEW params \in Seq(Names), NEW uses \in Seq(Names), Len(ids) = Len(uses),
           Enter(kind, chunk_idx, ids, params, uses),
           kind = "lambda" => nest # <<>> /\ IsBinding(Frame)
    PROVE  LET table == WithCaptures(WithParams(params), uses)
               frame == [kind |-> kind, old |-> chunk_idx, captured |-> uses, ids |-> ids,
                         chunk |-> Len(chunks) + 1, body |-> 1,
                         scope |-> Address(AnyVecPushed(locals, table), Depth + 1)]
           IN  /\ chunks' \in Seq(ChunkType) /\ Len(chunks') = Len(chunks) + 1
               /\ chunks'[Len(chunks) + 1] = NewChunk(table, uses)
               /\ \A c \in 1 .. Len(chunks) : chunks'[c] = chunks[c]
               /\ table \in TableType /\ GoodTable(table, uses)
               /\ locals' \in VecOf(TableType) /\ locals'.items = Append(locals.items, table)
               /\ nest' = Append(nest, frame) /\ frame \in FrameType /\ IsRoutine(frame)
               /\ nest' \in Seq(FrameType)
               /\ Fit(nest', Len(chunks'), chunk_idx', locals'.items, Len(loops.items))
               /\ chunk_idx' = Len(chunks) + 1
<1>. DEFINE table == WithCaptures(WithParams(params), uses)
            scopes == AnyVecPushed(locals, table)
            frame == [kind |-> kind, old |-> chunk_idx, captured |-> uses, ids |-> ids,
                      chunk |-> Len(chunks) + 1, body |-> 1,
                      scope |-> Address(scopes, Depth + 1)]
<1>1. /\ chunks' = Append(chunks, NewChunk(table, uses)) /\ chunk_idx' = Len(chunks) + 1
      /\ locals' = scopes /\ nest' = Append(nest, frame)
  BY DEF Enter, Open
<1>2. table \in TableType /\ GoodTable(table, uses)
  BY EnteredIs
<1>. HIDE DEF table
<1>3. /\ locals \in VecOf(TableType) /\ chunks \in Seq(ChunkType) /\ nest \in Seq(FrameType)
      /\ Len(chunks) \in Nat /\ chunk_idx \in 1 .. Len(chunks) /\ Depth = Len(locals.items)
      /\ Depth \in Nat \ {0} /\ locals.items \in Seq(TableType)
  BY OpenIs DEF ScopeTypes
<1>4. scopes \in VecOf(TableType) /\ scopes.items = Append(locals.items, table)
  BY <1>2, <1>3, AnyVecPushedIs
<1>5. NewChunk(table, uses) \in ChunkType
  <2>1. table.local_argc \in Nat
    BY <1>2, TableFields
  <2>2. Op("reserve", 0) \in InsType
    BY DEF Op, Ins, InsType, Ops
  <2>3. <<Op("reserve", 0)>> \in Seq(InsType)
    BY <2>2
  <2>. QED  BY <2>1, <2>3 DEF NewChunk, ChunkType
<1>6. /\ chunks' \in Seq(ChunkType) /\ Len(chunks') = Len(chunks) + 1
      /\ chunks'[Len(chunks) + 1] = NewChunk(table, uses)
      /\ \A c \in 1 .. Len(chunks) : chunks'[c] = chunks[c]
  BY <1>1, <1>3, <1>5, AppendIs
<1>7. frame \in RoutineFrame
  <2>1. scopes.moves \in Nat
    BY <1>4 DEF VecOf
  <2>2. Address(scopes, Depth + 1) \in AddressType
    BY <1>3, <2>1 DEF Address, AddressType
  <2>3. chunk_idx \in Nat /\ Len(chunks) + 1 \in Nat /\ 1 \in Nat
    BY <1>3
  <2>. QED  BY <2>2, <2>3 DEF RoutineFrame
<1>8. frame \in FrameType /\ IsRoutine(frame)
  BY <1>7 DEF FrameType, IsRoutine
<1>9. /\ frame.old = chunk_idx /\ frame.scope.pos = Len(locals.items) + 1
      /\ frame.chunk = Len(chunks) + 1 /\ frame.kind = kind
  BY <1>3 DEF Address
<1>. HIDE DEF frame, scopes
<1>10. Fit(nest, Len(chunks), chunk_idx, locals.items, Len(loops.items))
  BY DEF Nested
<1>11. Fit(Append(nest, frame), Len(chunks) + 1, Len(chunks) + 1,
           Append(locals.items, table), Len(loops.items))
  BY <1>2, <1>3, <1>8, <1>9, <1>10, FitOpensRoutine DEF Frame
<1>12. nest' \in Seq(FrameType)
  BY <1>1, <1>3, <1>8, AppendIs
<1>13. Fit(nest', Len(chunks'), chunk_idx', locals'.items, Len(loops.items))
  BY <1>1, <1>4, <1>6, <1>11
<1>. QED  BY <1>1, <1>2, <1>4, <1>6, <1>8, <1>12, <1>13 DEF frame, table, scopes

(* The slots that a lambda captures.                                       *)
LEMMA IdsOfIs ==
    ASSUME ScopeTypes, Nested, NEW uses \in Seq(Names),
           \A n \in DOMAIN uses : IdsOf(uses)[n] # NoSymbol
    PROVE  LET ids == [n \in DOMAIN uses |-> IdsOf(uses)[n].id]
           IN  /\ ids \in Seq(Nat) /\ Len(ids) = Len(uses)
               /\ \A n \in 1 .. Len(uses) :
                     /\ Find(Scope.infos.items, uses[n], "local") = Symbol(uses[n], ids[n], "local")
                     /\ ids[n] = IdsOf(uses)[n].id
<1>. DEFINE size == Len(uses)
            ids == [n \in DOMAIN uses |-> IdsOf(uses)[n].id]
<1>1. size \in Nat /\ DOMAIN uses = 1 .. size
  BY LenProperties
<1>2. Scope.infos.items \in Seq(SymbolType) /\ "local" \in Domains
  BY OpenIs, TableFields DEF Domains
<1>3. ASSUME NEW n \in 1 .. size
      PROVE  /\ IdsOf(uses)[n].id \in Nat
             /\ Find(Scope.infos.items, uses[n], "local")
                  = Symbol(uses[n], IdsOf(uses)[n].id, "local")
  <2>. DEFINE symbol == Find(Scope.infos.items, uses[n], "local")
  <2>1. IdsOf(uses)[n] = symbol /\ symbol # NoSymbol
    BY <1>1 DEF IdsOf
  <2>2. symbol \in SymbolType /\ symbol.name = uses[n] /\ symbol.domain = "local"
    BY <1>2, <2>1, FindIs
  <2>. HIDE DEF symbol
  <2>3. symbol.id \in Nat /\ symbol = Symbol(symbol.name, symbol.id, symbol.domain)
    BY <2>2 DEF SymbolType, Symbol
  <2>. QED  BY <2>1, <2>2, <2>3 DEF symbol
<1>. HIDE DEF size
<1>4. \A n \in 1 .. size : ids[n] = IdsOf(uses)[n].id
  BY <1>1
<1>5. ids = [n \in 1 .. size |-> IdsOf(uses)[n].id]
  BY <1>1
<1>6. ids \in [1 .. size -> Nat]
  BY <1>3, <1>5
<1>. HIDE DEF ids
<1>7. ids \in Seq(Nat) /\ Len(ids) = size
  BY <1>1, <1>6, SeqDef, LenProperties
<1>. QED  BY <1>3, <1>4, <1>7 DEF ids, size

(* A lambda.                                                               *)
LEMMA BeginLambdaFits ==
    ASSUME ScopeTypes, Nested, NEW params \in ParamLists, NEW uses \in UsesLists,
           BeginLambda(params, uses)
    PROVE  ScopeTypes' /\ Nested'
<1>. DEFINE ids == [n \in DOMAIN uses |-> IdsOf(uses)[n].id]
<1>1. /\ Enter("lambda", chunk_idx, ids, params, uses) /\ expr = "want" /\ expr' = "none"
      /\ \A n \in DOMAIN uses : IdsOf(uses)[n] # NoSymbol
      /\ globals' = globals /\ loops' = loops /\ saved_info' = saved_info
  BY DEF BeginLambda, InBinding
<1>2. params \in Seq(Names) /\ uses \in Seq(Names)
  BY ScopesAssumption
<1>3. ids \in Seq(Nat) /\ Len(ids) = Len(uses)
  BY <1>1, <1>2, IdsOfIs
<1>. HIDE DEF ids
<1>4. nest # <<>> /\ IsBinding(Frame)
  BY <1>1 DEF Nested
<1>5. /\ chunks' \in Seq(ChunkType) /\ locals' \in VecOf(TableType) /\ nest' \in Seq(FrameType)
      /\ Fit(nest', Len(chunks'), chunk_idx', locals'.items, Len(loops.items))
  BY <1>1, <1>2, <1>3, <1>4, EnterFits
<1>6. ScopeTypes'
  BY <1>1, <1>5 DEF ScopeTypes
<1>7. Nested'
  BY <1>1, <1>5 DEF Nested
<1>. QED  BY <1>6, <1>7

(* A function.                                                             *)
LEMMA BeginFuncFits ==
    ASSUME ScopeTypes, Nested, NEW name \in Routines, NEW params \in ParamLists,
           BeginFunc(name, params)
    PROVE  ScopeTypes' /\ Nested' /\ Enter("func", chunk_idx, <<>>, params, <<>>)
<1>1. /\ Enter("func", 1, <<>>, params, <<>>) /\ nest = <<>> /\ expr = "none"
      /\ globals' = IF Find(globals, name, "func") # NoSymbol THEN globals
                    ELSE Append(globals, Symbol(name, Len(chunks) + 1, "func"))
      /\ loops' = loops /\ saved_info' = saved_info /\ expr' = expr
  BY DEF BeginFunc, Begins, InBlock
<1>2. params \in Seq(Names) /\ name \in Names /\ globals \in Seq(SymbolType)
      /\ Len(chunks) \in Nat
  BY ScopesAssumption, OpenIs DEF ScopeTypes
<1>3. chunk_idx = 1
  <2>1. Len(nest) = 0
    BY <1>1
  <2>. QED  BY <2>1, LevelZero DEF Nested, Fit
<1>4. <<>> \in Seq(Nat) /\ <<>> \in Seq(Names)
  BY EmptySeq
<1>5. Enter("func", chunk_idx, <<>>, params, <<>>)
  BY <1>1, <1>3
<1>6. /\ chunks' \in Seq(ChunkType) /\ locals' \in VecOf(TableType) /\ nest' \in Seq(FrameType)
      /\ Fit(nest', Len(chunks'), chunk_idx', locals'.items, Len(loops.items))
  BY <1>2, <1>4, <1>5, EnterFits
<1>7. globals' \in Seq(SymbolType)
  <2>. DEFINE symbol == Symbol(name, Len(chunks) + 1, "func")
  <2>1. symbol \in SymbolType
    BY <1>2 DEF Symbol, SymbolType, Domains
  <2>. HIDE DEF symbol
  <2>2. Append(globals, symbol) \in Seq(SymbolType)
    BY <1>2, <2>1, AppendIs
  <2>. QED  BY <1>1, <1>2, <2>2 DEF symbol
<1>8. ScopeTypes'
  BY <1>1, <1>6, <1>7 DEF ScopeTypes
<1>9. Nested'
  BY <1>1, <1>6 DEF Nested
<1>. QED  BY <1>5, <1>8, <1>9

(* How much room is reserved.                                              *)
LEMMA SizesAre ==
    ASSUME ScopeTypes, Nested, NEW address, address.pos \in 1 .. Depth,
           NEW size \in SizesAt(address)
    PROVE  size \in Int /\ (Valid(locals, address) => size = ReserveSize(locals.items[address.pos]))
<1>. DEFINE table == locals.items[address.pos]
<1>1. table \in TableType
  BY OpenIs, ElementOfSeq
<1>2. table.next_local_id \in Nat /\ table.local_argc \in Nat
  BY <1>1, TableFields
<1>. HIDE DEF table
<1>3. size \in IF Valid(locals, address) THEN {ReserveSize(table)}
              ELSE {n - table.local_argc : n \in 0 .. table.next_local_id}
  BY DEF SizesAt, table
<1>. QED  BY <1>2, <1>3 DEF ReserveSize, table

(* What a chunk is when its code ends.                                     *)
LEMMA ClosedIs ==
    ASSUME ScopeTypes, Nested, NEW code \in Seq(InsType), NEW size \in Int
    PROVE  LET closed == Closed(code, size)
               ended == code \o <<Ins("ret", 15, 0, NoName)>>
           IN  /\ closed \in ChunkType /\ closed.code = PatchedAt(ended, 0, 0, size)
               /\ ended \in Seq(InsType) /\ Ins("ret", 15, 0, NoName) \in InsType
               /\ closed.own = NamesOf(Scope) /\ closed.argc = chunks[chunk_idx].argc
               /\ closed.uses = chunks[chunk_idx].uses
<1>. DEFINE ret == Ins("ret", 15, 0, NoName)
            ended == code \o <<ret>>
            patched == PatchedAt(ended, 0, 0, size)
            own == NamesOf(Scope)
<1>1. ret \in InsType
  BY DEF Ins, InsType, Ops
<1>. HIDE DEF ret
<1>2. ended \in Seq(InsType)
  <2>1. <<ret>> \in Seq(InsType)
    BY <1>1
  <2>. QED  BY <2>1, ConcatIs
<1>. HIDE DEF ended
<1>3. patched \in Seq(InsType)
  BY <1>2, PatchedIs
<1>4. own \in SUBSET ((Names \cup Literals) \X Domains)
  <2>1. Scope \in TableType
    BY OpenIs
  <2>2. ASSUME NEW pos \in DOMAIN Scope.infos.items
        PROVE  Scope.infos.items[pos] \in SymbolType
    BY <2>1, TableFields
  <2>. QED  BY <2>2 DEF NamesOf, SymbolType
<1>. HIDE DEF patched, own
<1>5. chunks[chunk_idx] \in ChunkType
  BY OpenIs
<1>6. Closed(code, size) = [chunks[chunk_idx] EXCEPT !.code = patched, !.own = own]
  BY DEF Closed, patched, own, ended, ret
<1>. DEFINE chunk == chunks[chunk_idx]
<1>7. chunk = [code |-> chunk.code, argc |-> chunk.argc, uses |-> chunk.uses, own |-> chunk.own]
  BY <1>5 DEF ChunkType
<1>8. Closed(code, size) = [code |-> patched, argc |-> chunk.argc, uses |-> chunk.uses, own |-> own]
  <2>. HIDE DEF chunk
  <2>1. Closed(code, size) = [chunk EXCEPT !.code = patched, !.own = own]
    BY <1>6 DEF chunk
  <2>. QED  BY <1>7, <2>1
<1>9. Closed(code, size) \in ChunkType
  BY <1>3, <1>4, <1>5, <1>8 DEF ChunkType
<1>. QED  BY <1>1, <1>2, <1>8, <1>9 DEF patched, own, ended, ret

(* The nop of an empty block.                                              *)
LEMMA FillerIs ==
    ASSUME ScopeTypes, Nested
    PROVE  /\ Filler \in Seq(InsType) /\ Len(Filler) \in Nat
           /\ \A n \in 1 .. Len(Filler) : Filler[n] = Op("nop", 0)
           /\ Op("nop", 0) \in InsType
           /\ Code \o Filler \in Seq(InsType)
<1>1. Op("nop", 0) \in InsType
  BY DEF Op, Ins, InsType, Ops
<1>2. <<Op("nop", 0)>> \in Seq(InsType) /\ <<>> \in Seq(InsType)
  BY <1>1
<1>3. Filler = <<Op("nop", 0)>> \/ Filler = <<>>
  BY DEF Filler
<1>4. /\ Filler \in Seq(InsType) /\ Len(Filler) \in Nat
      /\ \A n \in 1 .. Len(Filler) : Filler[n] = Op("nop", 0)
  <2>1. CASE Filler = <<Op("nop", 0)>>
    BY <1>2, <2>1
  <2>2. CASE Filler = <<>>
    BY <1>2, <2>2
  <2>. QED  BY <1>3, <2>1, <2>2
<1>5. Code \in Seq(InsType)
  BY OpenIs
<1>6. Code \o Filler \in Seq(InsType)
  BY <1>4, <1>5, ConcatIs
<1>. QED  BY <1>1, <1>4, <1>6

(* The end of a function.                                                  *)
LEMMA EndFuncFits ==
    ASSUME ScopeTypes, Nested, EndFunc
    PROVE  ScopeTypes' /\ Nested'
<1>1. /\ nest # <<>> /\ IsRoutine(Frame) /\ expr = "none"
      /\ locals' = Popped(locals) /\ chunk_idx' = Frame.old /\ nest' = Front(nest)
      /\ globals' = globals /\ loops' = loops /\ saved_info' = saved_info /\ expr' = expr
  BY DEF EndFunc, IsRoutine, InBlock, ScopeEnded
<1>2. PICK size \in SizesAt(Frame.scope) :
          chunks' = [chunks EXCEPT ![chunk_idx] = Closed(Code \o Filler, size)]
  BY DEF EndFunc
<1>3. /\ Fit(Front(nest), Len(chunks), Frame.old, Front(locals.items), Len(loops.items))
      /\ Frame.scope.pos = Depth /\ Front(nest) \in Seq(FrameType)
  BY <1>1, EndsIs
<1>4. /\ Depth \in Nat \ {0} /\ chunk_idx \in 1 .. Len(chunks) /\ chunks \in Seq(ChunkType)
      /\ locals \in VecOf(TableType) /\ locals.items # <<>>
  BY OpenIs DEF ScopeTypes
<1>5. size \in Int
  <2>1. Frame.scope.pos \in 1 .. Depth
    BY <1>3, <1>4
  <2>. QED  BY <1>2, <2>1, SizesAre
<1>6. Closed(Code \o Filler, size) \in ChunkType
  BY <1>5, FillerIs, ClosedIs
<1>7. chunks' \in Seq(ChunkType) /\ Len(chunks') = Len(chunks)
  BY <1>2, <1>4, <1>6, SeqSet
<1>8. locals' \in VecOf(TableType) /\ locals'.items = Front(locals.items)
  BY <1>1, <1>4, PoppedIs
<1>9. ScopeTypes'
  BY <1>1, <1>3, <1>7, <1>8 DEF ScopeTypes
<1>10. Nested'
  BY <1>1, <1>3, <1>7, <1>8 DEF Nested
<1>. QED  BY <1>9, <1>10

(* The value of a lambda is code: the lambda, what it captures and their   *)
(* closure.                                                                *)
LEMMA ValueIs ==
    ASSUME NEW frame \in RoutineFrame
    PROVE  LET size == Len(frame.ids)
               value == Value(frame)
           IN  /\ value \in Seq(InsType) /\ size \in Nat /\ Len(frame.captured) = size
               /\ Len(value) = IF size = 0 THEN 1 ELSE size + 2
               /\ value[1] = Op("load_imm_gid", frame.chunk)
               /\ value[1] \in InsType
               /\ \A n \in 1 .. size :
                     /\ value[1 + n] = Ins("load_local", 0, frame.ids[n], frame.captured[n])
                     /\ value[1 + n] \in InsType
                     /\ frame.ids[n] \in Nat /\ frame.captured[n] \in Names
               /\ size # 0 => /\ value[size + 2] = Op("mk_closure", size)
                              /\ value[size + 2] \in InsType
<1>. DEFINE size == Len(frame.ids)
            loads == Loads(frame)
            gid == Op("load_imm_gid", frame.chunk)
            make == Op("mk_closure", size)
<1>1. /\ frame.ids \in Seq(Nat) /\ frame.captured \in Seq(Names) /\ frame.chunk \in Nat
      /\ Len(frame.ids) = Len(frame.captured)
  BY DEF RoutineFrame
<1>2. size \in Nat /\ DOMAIN frame.ids = 1 .. size
      /\ \A n \in 1 .. size : frame.ids[n] \in Nat /\ frame.captured[n] \in Names
  BY <1>1, LenProperties, ElementOfSeq
<1>3. gid \in InsType /\ make \in InsType
  BY <1>1, <1>2 DEF Op, Ins, InsType, Ops
<1>. HIDE DEF size, gid, make
<1>4. ASSUME NEW n \in 1 .. size
      PROVE  Ins("load_local", 0, frame.ids[n], frame.captured[n]) \in InsType
  BY <1>2 DEF Ins, InsType, Ops
<1>5. loads = [n \in 1 .. size |-> Ins("load_local", 0, frame.ids[n], frame.captured[n])]
  BY <1>2 DEF Loads
<1>. HIDE DEF loads
<1>6. loads \in [1 .. size -> InsType]
  BY <1>4, <1>5
<1>7. /\ loads \in Seq(InsType) /\ Len(loads) = size
      /\ \A n \in 1 .. size : loads[n] = Ins("load_local", 0, frame.ids[n], frame.captured[n])
  BY <1>2, <1>5, <1>6, SeqDef, LenProperties
<1>8. <<gid>> \in Seq(InsType) /\ <<make>> \in Seq(InsType) /\ <<>> \in Seq(InsType)
      /\ Len(<<gid>>) = 1 /\ Len(<<make>>) = 1 /\ <<gid>>[1] = gid /\ <<make>>[1] = make
  BY <1>3
<1>9. frame.ids = <<>> <=> size = 0
  BY <1>1, EmptySeq DEF size
<1>10. CASE size = 0
  <2>1. Value(frame) = <<gid>> \o <<>>
    BY <1>9, <1>10 DEF Value, gid
  <2>2. Value(frame) = <<gid>>
    BY <1>8, <2>1, ConcatEmptySeq
  <2>. QED  BY <1>1, <1>2, <1>3, <1>8, <1>10, <2>2 DEF size, gid
<1>11. CASE size # 0
  <2>. DEFINE tail == loads \o <<make>>
  <2>1. /\ tail \in Seq(InsType) /\ Len(tail) = size + 1
        /\ \A n \in 1 .. size : tail[n] = loads[n]
        /\ tail[size + 1] = make
    <3>1. /\ tail \in Seq(InsType) /\ Len(tail) = Len(loads) + Len(<<make>>)
          /\ \A n \in 1 .. Len(loads) : tail[n] = loads[n]
          /\ \A n \in 1 .. Len(<<make>>) : tail[Len(loads) + n] = <<make>>[n]
      BY <1>7, <1>8, ConcatIs
    <3>. HIDE DEF tail
    <3>2. 1 \in 1 .. Len(<<make>>)
      BY <1>8
    <3>. QED  BY <1>7, <1>8, <3>1, <3>2
  <2>. HIDE DEF tail
  <2>2. Value(frame) = <<gid>> \o tail
    BY <1>9, <1>11 DEF Value, gid, tail, loads, make, size
  <2>3. /\ Value(frame) \in Seq(InsType) /\ Len(Value(frame)) = 1 + (size + 1)
        /\ Value(frame)[1] = gid
        /\ \A n \in 1 .. size + 1 : Value(frame)[1 + n] = tail[n]
    <3>1. /\ Value(frame) \in Seq(InsType) /\ Len(Value(frame)) = Len(<<gid>>) + Len(tail)
          /\ \A n \in 1 .. Len(<<gid>>) : Value(frame)[n] = <<gid>>[n]
          /\ \A n \in 1 .. Len(tail) : Value(frame)[Len(<<gid>>) + n] = tail[n]
      BY <1>8, <2>1, <2>2, ConcatIs
    <3>2. 1 \in 1 .. Len(<<gid>>)
      BY <1>8
    <3>. QED  BY <1>8, <2>1, <3>1, <3>2
  <2>4. size + 1 \in 1 .. size + 1 /\ 1 + (size + 1) = size + 2
        /\ \A n \in 1 .. size : n \in 1 .. size + 1
    BY <1>2
  <2>5. Value(frame)[size + 2] = make
    BY <2>1, <2>3, <2>4
  <2>6. \A n \in 1 .. size :
            Value(frame)[1 + n] = Ins("load_local", 0, frame.ids[n], frame.captured[n])
    BY <1>7, <2>1, <2>3, <2>4
  <2>. QED  BY <1>1, <1>2, <1>3, <1>4, <1>11, <2>3, <2>4, <2>5, <2>6 DEF size, gid, make
<1>. QED  BY <1>10, <1>11

(* The chunks after the end of a lambda.                                   *)
LEMMA EndLambdaIs ==
    ASSUME ScopeTypes, Nested, EndLambda
    PROVE  \E size \in SizesAt(Frame.scope) :
              LET closed == Closed(Code \o Filler, size)
              IN  /\ size \in Int /\ closed \in ChunkType
                  /\ chunks' \in Seq(ChunkType) /\ Len(chunks') = Len(chunks)
                  /\ chunks'[chunk_idx] = closed
                  /\ chunks'[Frame.old].code = chunks[Frame.old].code \o Value(Frame)
                  /\ chunks'[Frame.old].argc = chunks[Frame.old].argc
                  /\ chunks'[Frame.old].uses = chunks[Frame.old].uses
                  /\ chunks'[Frame.old].own = chunks[Frame.old].own
                  /\ \A c \in 1 .. Len(chunks) :
                        c # chunk_idx /\ c # Frame.old => chunks'[c] = chunks[c]
<1>1. nest # <<>> /\ IsRoutine(Frame)
  BY DEF EndLambda, IsRoutine
<1>2. PICK size \in SizesAt(Frame.scope) :
          chunks' = [chunks EXCEPT ![chunk_idx] = Closed(Code \o Filler, size),
                                   ![Frame.old].code = @ \o Value(Frame)]
  BY DEF EndLambda
<1>3. /\ Frame.scope.pos = Depth /\ Frame.old \in 1 .. Len(chunks) /\ Frame.old < chunk_idx
      /\ Frame \in RoutineFrame
  BY <1>1, EndsIs
<1>4. Depth \in Nat \ {0} /\ chunk_idx \in 1 .. Len(chunks) /\ chunks \in Seq(ChunkType)
  BY OpenIs DEF ScopeTypes
<1>5. size \in Int
  <2>1. Frame.scope.pos \in 1 .. Depth
    BY <1>3, <1>4
  <2>. QED  BY <1>2, <2>1, SizesAre
<1>. DEFINE closed == Closed(Code \o Filler, size)
            mid == [chunks EXCEPT ![chunk_idx] = closed]
            old == Frame.old
            code == chunks[old].code \o Value(Frame)
<1>6. closed \in ChunkType
  BY <1>5, FillerIs, ClosedIs
<1>. HIDE DEF closed
<1>7. /\ mid \in Seq(ChunkType) /\ Len(mid) = Len(chunks) /\ mid[chunk_idx] = closed
      /\ \A c \in 1 .. Len(chunks) : c # chunk_idx => mid[c] = chunks[c]
  BY <1>4, <1>6, SeqSet
<1>8. old \in 1 .. Len(chunks) /\ old # chunk_idx
  BY <1>3, <1>4
<1>9. code \in Seq(InsType)
  <2>1. chunks[old] \in ChunkType
    BY <1>4, <1>8, ElementOfSeq
  <2>2. chunks[old].code \in Seq(InsType) /\ Value(Frame) \in Seq(InsType)
    BY <1>3, <2>1, ChunkFields, ValueIs
  <2>. QED  BY <2>2, ConcatIs
<1>10. chunks' = [mid EXCEPT ![old].code = code]
  BY <1>2 DEF closed
<1>. HIDE DEF mid, code, old
<1>11. old \in 1 .. Len(mid)
  BY <1>7, <1>8
<1>12. LET after == [mid EXCEPT ![old].code = code]
       IN  /\ after \in Seq(ChunkType) /\ Len(after) = Len(mid)
           /\ after[old].code = code /\ after[old].argc = mid[old].argc
           /\ after[old].uses = mid[old].uses /\ after[old].own = mid[old].own
           /\ \A c \in 1 .. Len(mid) : c # old => after[c] = mid[c]
  BY <1>7, <1>9, <1>11, RecodedIs
<1>13. /\ chunks' \in Seq(ChunkType) /\ Len(chunks') = Len(chunks)
       /\ chunks'[chunk_idx] = closed
       /\ chunks'[old].code = code /\ chunks'[old].argc = chunks[old].argc
       /\ chunks'[old].uses = chunks[old].uses /\ chunks'[old].own = chunks[old].own
       /\ \A c \in 1 .. Len(chunks) : c # chunk_idx /\ c # old => chunks'[c] = chunks[c]
  BY <1>4, <1>7, <1>8, <1>10, <1>12
<1>. QED  BY <1>5, <1>6, <1>13 DEF closed, old, code

(* The end of a lambda.                                                    *)
LEMMA EndLambdaFits ==
    ASSUME ScopeTypes, Nested, EndLambda
    PROVE  ScopeTypes' /\ Nested'
<1>1. /\ nest # <<>> /\ Frame.kind = "lambda" /\ IsRoutine(Frame) /\ expr' = "have"
      /\ locals' = Popped(locals) /\ chunk_idx' = Frame.old /\ nest' = Front(nest)
      /\ globals' = globals /\ loops' = loops /\ saved_info' = saved_info
  BY DEF EndLambda, IsRoutine, ScopeEnded
<1>2. /\ Fit(Front(nest), Len(chunks), Frame.old, Front(locals.items), Len(loops.items))
      /\ Front(nest) \in Seq(FrameType) /\ Len(nest) \in Nat \ {0}
      /\ Frame = nest[Len(nest)]
  BY <1>1, EndsIs
<1>3. chunks' \in Seq(ChunkType) /\ Len(chunks') = Len(chunks)
  BY EndLambdaIs
<1>4. locals' \in VecOf(TableType) /\ locals'.items = Front(locals.items)
  BY <1>1, OpenIs, PoppedIs DEF ScopeTypes
<1>5. nest' # <<>> /\ IsBinding(Last(nest'))
  <2>1. Len(nest) > 1 /\ IsBinding(nest[Len(nest) - 1])
    <3>1. Len(nest) \in 1 .. Len(nest)
      BY <1>2
    <3>. QED  BY <1>1, <1>2, <3>1 DEF Nested, Fit, LambdasBound
  <2>2. Len(nest') = Len(nest) - 1 /\ nest'[Len(nest) - 1] = nest[Len(nest) - 1]
        /\ nest' \in Seq(FrameType)
    <3>1. nest \in Seq(FrameType) /\ Len(nest) - 1 \in 1 .. Len(nest) - 1
      BY <1>2, <2>1 DEF ScopeTypes
    <3>. QED  BY <1>1, <3>1, FrontIs
  <2>3. nest' # <<>>
    <3>1. Len(nest') # 0
      BY <1>2, <2>1, <2>2
    <3>. QED  BY <3>1
  <2>4. Last(nest') = nest'[Len(nest')]
    BY DEF Last
  <2>. QED  BY <2>1, <2>2, <2>3, <2>4
<1>6. ScopeTypes'
  BY <1>1, <1>2, <1>3, <1>4 DEF ScopeTypes
<1>7. Nested'
  BY <1>1, <1>2, <1>3, <1>4, <1>5 DEF Nested, Frame
<1>. QED  BY <1>6, <1>7

(* A loop begins.                                                          *)
LoopEntered(around, kind, out, again, tables, frame) ==
    /\ loops' \in VecOf(LoopType) /\ loops'.items = Append(loops.items, NewLoop)
    /\ Len(loops'.items) = Len(loops.items) + 1
    /\ nest' = Append(around, frame) /\ nest' # <<>> /\ nest' \in Seq(FrameType)
    /\ frame \in LoopFrame /\ frame \in FrameType /\ IsLoop(frame)
    /\ frame.kind = kind /\ frame.out = out /\ frame.again = again
    /\ frame.id = <<chunk_idx, Here>> /\ frame.loop.pos = Len(loops.items) + 1
    /\ Fit(nest', Len(chunks), chunk_idx, tables, Len(loops'.items))

(* The frame of a loop that begins is the one on top.                      *)
LEMMA EnterLoopFits ==
    ASSUME ScopeTypes, Nested, NEW tables \in Seq(TableType),
           Fit(nest, Len(chunks), chunk_idx, tables, Len(loops.items)),
           NEW around \in Seq(FrameType), Len(around) = Len(nest),
           Agree(nest, around, Len(nest)),
           NEW kind \in {"while", "for"}, NEW out \in Nat, NEW again \in Nat, NEW body \in Nat,
           EnterLoop(around, kind, out, again, body)
    PROVE  LoopEntered(around, kind, out, again, tables, Last(nest'))
<1>. DEFINE active == AnyVecPushed(loops, NewLoop)
            frame == [kind |-> kind, out |-> out, again |-> again, body |-> body,
                      id |-> <<chunk_idx, Here>>,
                      loop |-> Address(active, Len(active.items))]
<1>1. loops' = active /\ nest' = Append(around, frame)
  BY DEF EnterLoop
<1>2. /\ loops \in VecOf(LoopType) /\ nest \in Seq(FrameType) /\ loops.items \in Seq(LoopType)
      /\ Len(loops.items) \in Nat /\ Len(chunks) \in Nat /\ chunk_idx \in Nat /\ Here \in Nat
  BY OpenIs DEF ScopeTypes
<1>3. NewLoop \in LoopType
  BY DEF NewLoop, LoopType
<1>4. active \in VecOf(LoopType) /\ active.items = Append(loops.items, NewLoop)
  BY <1>2, <1>3, AnyVecPushedIs
<1>5. Len(active.items) = Len(loops.items) + 1
  BY <1>2, <1>3, <1>4, AppendIs
<1>. HIDE DEF active
<1>6. frame \in LoopFrame
  <2>1. active.moves \in Nat /\ Len(active.items) \in Nat
    BY <1>2, <1>4, <1>5 DEF VecOf
  <2>2. Address(active, Len(active.items)) \in AddressType
    BY <2>1 DEF Address, AddressType
  <2>3. <<chunk_idx, Here>> \in Ids
    BY <1>2 DEF Ids
  <2>. QED  BY <2>2, <2>3 DEF LoopFrame
<1>7. frame \in FrameType /\ IsLoop(frame)
  BY <1>6 DEF FrameType, IsLoop
<1>8. /\ frame.kind = kind /\ frame.out = out /\ frame.again = again
      /\ frame.id = <<chunk_idx, Here>> /\ frame.loop.pos = Len(loops.items) + 1
  BY <1>5 DEF Address
<1>. HIDE DEF frame
<1>9. Fit(Append(around, frame), Len(chunks), chunk_idx, tables, Len(loops.items) + 1)
  BY <1>2, <1>7, <1>8, FitOpensLoop
<1>10. /\ Append(around, frame) \in Seq(FrameType) /\ Append(around, frame) # <<>>
       /\ Last(Append(around, frame)) = frame
  BY <1>2, <1>7, AppendIs DEF Last
<1>. QED  BY <1>1, <1>4, <1>5, <1>6, <1>7, <1>8, <1>9, <1>10 DEF LoopEntered

(* WHILE.                                                                  *)
LEMMA BeginWhileFits ==
    ASSUME ScopeTypes, Nested, BeginWhile
    PROVE  ScopeTypes' /\ Nested'
<1>. DEFINE code == <<Op("put_bool", 0), Op("jmp_false", 0)>>
<1>1. /\ EnterLoop(nest, "while", Here + 1, Here, Here + 2) /\ Emit(code) /\ expr = "none"
      /\ chunk_idx' = chunk_idx /\ globals' = globals /\ locals' = locals
      /\ saved_info' = saved_info /\ expr' = expr
  BY DEF BeginWhile, Begins, InBlock
<1>2. code \in Seq(InsType)
  <2>1. Op("put_bool", 0) \in InsType /\ Op("jmp_false", 0) \in InsType
    BY DEF Op, Ins, InsType, Ops
  <2>. QED  BY <2>1
<1>. HIDE DEF code
<1>3. Here \in Nat /\ locals.items \in Seq(TableType)
  BY OpenIs
<1>4. Here + 1 \in Nat /\ Here + 2 \in Nat
  BY <1>3
<1>5. /\ Fit(nest, Len(chunks), chunk_idx, locals.items, Len(loops.items))
      /\ nest \in Seq(FrameType) /\ Agree(nest, nest, Len(nest))
  BY DEF Nested, ScopeTypes, Agree
<1>6. /\ loops' \in VecOf(LoopType) /\ nest' # <<>> /\ nest' \in Seq(FrameType)
      /\ Fit(nest', Len(chunks), chunk_idx, locals.items, Len(loops'.items))
  <2>1. EnterLoop(nest, "while", Here + 1, Here, Here + 2)
    BY <1>1
  <2>2. "while" \in {"while", "for"} /\ Len(nest) = Len(nest)
    OBVIOUS
  <2>3. LoopEntered(nest, "while", Here + 1, Here, locals.items, Last(nest'))
    BY <1>3, <1>4, <1>5, <2>1, <2>2, EnterLoopFits
  <2>. QED  BY <2>3 DEF LoopEntered
<1>7. chunks' \in Seq(ChunkType) /\ Len(chunks') = Len(chunks)
  BY <1>1, <1>2, EmitIs
<1>8. ScopeTypes'
  BY <1>1, <1>6, <1>7 DEF ScopeTypes
<1>9. Nested'
  BY <1>1, <1>6, <1>7 DEF Nested
<1>. QED  BY <1>8, <1>9

(* The slot of the counter of a FOR.                                       *)
LEMMA CounterIs ==
    ASSUME ScopeTypes, Nested, NEW name \in Names, NEW literal \in Literals,
           Resolve(name).domain = "local"
    PROVE  LET table == WithConstant(Scope, literal)
               pos == PositionOf(Scope, name, "local")
               counter == Address(Scope.infos, pos)
           IN  /\ pos \in 1 .. Len(Scope.infos.items)
               /\ Scope.infos.items[pos] = Find(Scope.infos.items, name, "local")
               /\ Scope.infos.items[pos] \in SymbolType
               /\ Scope.infos.items[pos].name = name
               /\ Scope.infos.items[pos].domain = "local"
               /\ table.infos.items[pos] = Scope.infos.items[pos]
               /\ \A id \in IdsAt(table, counter) :
                     /\ id \in Nat
                     /\ Valid(table.infos, counter) => id = Scope.infos.items[pos].id
<1>. DEFINE table == WithConstant(Scope, literal)
            items == Scope.infos.items
            pos == PositionOf(Scope, name, "local")
            counter == Address(Scope.infos, pos)
<1>1. Scope \in TableType /\ items \in Seq(SymbolType) /\ Len(items) \in Nat
  BY OpenIs, TableFields
<1>2. Find(items, name, "local") # NoSymbol
  <2>1. Resolve(name) # NoSymbol
    BY DEF NoSymbol
  <2>2. /\ Resolve(name).domain \in {"func", "global_var", "local", "upval"}
        /\ Resolve(name) = Find(SymbolsOf(Resolve(name).domain, globals,
                                          locals.items[1].infos.items, items),
                                name, Resolve(name).domain)
    BY <2>1, ResolveIs
  <2>3. Resolve(name) = Find(SymbolsOf("local", globals, locals.items[1].infos.items, items),
                             name, "local")
    BY <2>2
  <2>. QED  BY <2>1, <2>3 DEF SymbolsOf
<1>3. /\ pos \in 1 .. Len(items) /\ items[pos] = Find(items, name, "local")
      /\ items[pos] \in SymbolType /\ items[pos].name = name /\ items[pos].domain = "local"
  <2>1. "local" \in Domains
    BY DEF Domains
  <2>. QED  BY <1>1, <1>2, <2>1, FindIs DEF PositionOf
<1>4. table \in TableType /\ Extends(Scope, table)
  BY ConstantIs
<1>. HIDE DEF table, pos
<1>5. table.infos.items[pos] = items[pos]
  BY <1>3, <1>4 DEF Extends, Longer
<1>6. table.next_local_id \in Nat
  BY <1>4, TableFields
<1>7. items[pos].id \in Nat
  BY <1>3 DEF SymbolType
<1>8. ASSUME NEW id \in IdsAt(table, counter)
      PROVE  id \in Nat /\ (Valid(table.infos, counter) => id = items[pos].id)
  <2>1. counter.pos = pos
    BY DEF Address
  <2>. HIDE DEF counter, items
  <2>. QED  BY <1>5, <1>6, <1>7, <2>1 DEF IdsAt
<1>. QED  BY <1>3, <1>5, <1>8 DEF table, pos

(* The code of FOR.                                                        *)
WholeFor(k, id, now, name) ==
    <<Op("put_k", k), Ins("store_local", 0, id, name)>> \o ForCode(k, now, name)

ForIs(more, k, id, now, name) ==
    /\ more \in Seq(InsType) /\ Len(more) = 9
    /\ more[1] = Op("put_k", k) /\ more[2] = Ins("store_local", 0, id, name)
    /\ more[3] = Op("put_bool", 0) /\ more[4] = Op("jmp_false", 0)
    /\ more[5] = Op("jmp", 5) /\ more[6] = Op("nop", 0) /\ more[7] = Op("put_k", k)
    /\ more[8] = Ins("store_local", 0, now, name) /\ more[9] = Ins("jmp", 1, 6, NoName)

(* A FOR is nine instructions.                                             *)
LEMMA ForCodeIs ==
    ASSUME NEW name \in Names, NEW k \in Nat, NEW id \in Nat, NEW now \in Nat
    PROVE  ForIs(WholeFor(k, id, now, name), k, id, now, name)
<1>. DEFINE one == Op("put_k", k)
            two == Ins("store_local", 0, id, name)
            three == Op("put_bool", 0)
            four == Op("jmp_false", 0)
            five == Op("jmp", 5)
            six == Op("nop", 0)
            eight == Ins("store_local", 0, now, name)
            nine == Ins("jmp", 1, 6, NoName)
<1>1. /\ one \in InsType /\ two \in InsType /\ three \in InsType /\ four \in InsType
      /\ five \in InsType /\ six \in InsType /\ eight \in InsType /\ nine \in InsType
  BY DEF Op, Ins, InsType, Ops
<1>2. ForCode(k, now, name) = <<three, four, five, six, one, eight, nine>>
  BY DEF ForCode
<1>. HIDE DEF one, two, three, four, five, six, eight, nine
<1>. DEFINE head == <<one, two>>
            tail == <<three, four, five, six, one, eight, nine>>
            code == head \o tail
<1>3. /\ head \in Seq(InsType) /\ Len(head) = 2 /\ head[1] = one /\ head[2] = two
      /\ tail \in Seq(InsType) /\ Len(tail) = 7 /\ tail[1] = three /\ tail[2] = four
      /\ tail[3] = five /\ tail[4] = six /\ tail[5] = one /\ tail[6] = eight
      /\ tail[7] = nine
  BY <1>1
<1>. HIDE DEF head, tail
<1>3a. head \in Seq(InsType) /\ tail \in Seq(InsType)
  BY <1>3
<1>4. /\ code \in Seq(InsType) /\ Len(code) = Len(head) + Len(tail)
      /\ \A n \in 1 .. Len(head) : code[n] = head[n]
      /\ \A n \in 1 .. Len(tail) : code[Len(head) + n] = tail[n]
  BY ONLY <1>3a, ConcatIs
<1>. HIDE DEF code
<1>5. /\ Len(code) = 9 /\ code[1] = head[1] /\ code[2] = head[2]
      /\ code[2 + 1] = tail[1] /\ code[2 + 2] = tail[2] /\ code[2 + 3] = tail[3]
      /\ code[2 + 4] = tail[4] /\ code[2 + 5] = tail[5] /\ code[2 + 6] = tail[6]
      /\ code[2 + 7] = tail[7]
  BY <1>3, <1>4
<1>6. code = WholeFor(k, id, now, name)
  BY <1>2 DEF WholeFor, code, head, tail, one, two
<1>7. /\ code[1] = one /\ code[2] = two /\ code[3] = three /\ code[4] = four /\ code[5] = five
      /\ code[6] = six /\ code[7] = one /\ code[8] = eight /\ code[9] = nine
  BY <1>3, <1>5
<1>. QED  BY <1>4, <1>5, <1>6, <1>7 DEF ForIs, one, two, three, four, five, six, eight, nine

(* FOR.                                                                    *)
LEMMA BeginForFits ==
    ASSUME ScopeTypes, Nested, NEW name \in Names, NEW literal \in Literals,
           BeginFor(name, literal)
    PROVE  ScopeTypes' /\ Nested'
<1>. DEFINE table == WithConstant(Scope, literal)
            k == Find(table.infos.items, literal, "constant").id
            counter == Address(Scope.infos, PositionOf(Scope, name, "local"))
            now == Resolve(name).id
            code(id) == <<Op("put_k", k), Ins("store_local", 0, id, name)>>
                            \o ForCode(k, now, name)
<1>1. /\ Resolve(name).domain = "local" /\ Scoped(table) /\ expr = "none" /\ expr' = expr
      /\ EnterLoop(Overwritten, "for", Here + 2 + 1, Here + 2 + 3, Here + 2 + 7)
      /\ chunk_idx' = chunk_idx /\ globals' = globals /\ saved_info' = Resolve(name)
  BY DEF BeginFor, Begins, InBlock
<1>2. PICK id \in IdsAt(table, counter) : Emit(code(id))
  BY DEF BeginFor
<1>3. id \in Nat /\ now \in Nat /\ saved_info' \in SymbolType
  <2>1. Resolve(name) # NoSymbol
    BY <1>1 DEF NoSymbol
  <2>2. Resolve(name) \in SymbolType
    BY <2>1, ResolveIs
  <2>. QED  BY <1>1, <1>2, <2>2, CounterIs DEF SymbolType
<1>4. table \in TableType /\ Extends(Scope, table) /\ k \in Nat
  BY ConstantIs
<1>. HIDE DEF table, k, now
<1>5. code(id) \in Seq(InsType)
  <2>. DEFINE more == code(id)
  <2>1. more = WholeFor(k, id, now, name)
    BY DEF WholeFor
  <2>. HIDE DEF more
  <2>2. more \in Seq(InsType)
    BY <1>3, <1>4, <2>1, ForCodeIs DEF ForIs
  <2>. QED  BY <2>2 DEF more
<1>. HIDE DEF code
<1>6. chunks' \in Seq(ChunkType) /\ Len(chunks') = Len(chunks)
  BY <1>2, <1>5, EmitIs
<1>7. /\ locals' \in VecOf(TableType)
      /\ Fit(nest, Len(chunks), chunk_idx, locals'.items, Len(loops.items))
  BY <1>1, <1>4, ScopedIs
<1>8. Here \in Nat
  BY OpenIs
<1>9. Here + 2 + 1 \in Nat /\ Here + 2 + 3 \in Nat /\ Here + 2 + 7 \in Nat
  BY <1>8
<1>10. locals'.items \in Seq(TableType)
  BY <1>7 DEF VecOf
<1>11. /\ loops' \in VecOf(LoopType) /\ nest' # <<>> /\ nest' \in Seq(FrameType)
       /\ Fit(nest', Len(chunks), chunk_idx, locals'.items, Len(loops'.items))
  <2>1. LoopEntered(Overwritten, "for", Here + 2 + 1, Here + 2 + 3, locals'.items, Last(nest'))
    BY <1>1, <1>7, <1>9, <1>10, OverwrittenIs, EnterLoopFits
  <2>. QED  BY <2>1 DEF LoopEntered
<1>12. ScopeTypes'
  BY <1>1, <1>3, <1>6, <1>7, <1>11 DEF ScopeTypes
<1>13. Nested'
  BY <1>1, <1>6, <1>11 DEF Nested
<1>. QED  BY <1>12, <1>13

(* The loop that a BREAK or CONTINUE is written in.                        *)
LEMMA HomeIs ==
    ASSUME ScopeTypes, Nested
    PROVE  /\ RoutineAt \in Nat /\ RoutineAt = LevelIn(nest, Len(nest))
           /\ \/ HomeAt = 0
              \/ /\ HomeAt \in RoutineAt + 1 .. Len(nest) /\ IsLoop(nest[HomeAt])
                 /\ HomeAt = LoopIn(nest, Len(nest)) /\ nest[HomeAt] \in LoopFrame
<1>1. nest \in Seq(FrameType) /\ Len(nest) \in Nat
  BY OpenIs DEF ScopeTypes
<1>. DEFINE n == Len(nest)
            S == {k \in RoutineAt + 1 .. n : IsLoop(nest[k])}
<1>2. RoutineAt = LevelIn(nest, n)
  BY DEF RoutineAt, LevelIn
<1>3. RoutineAt \in Nat /\ RoutineAt >= 0
  BY <1>1, <1>2, LevelIs
<1>4. HomeAt = IF S # {} THEN Max(S) ELSE 0
  BY Zenon DEF HomeAt, SelectLastInSubSeq
<1>5. S \subseteq 1 .. n /\ S \subseteq ActiveIn(nest, n)
  BY <1>3 DEF ActiveIn
<1>5a. n \in Nat
  BY <1>1
<1>. HIDE DEF S, n
<1>6. \/ S = {} /\ HomeAt = 0
      \/ HomeAt \in S /\ HomeAt \in 1 .. n /\ \A k \in S : k <= HomeAt
  BY <1>4, <1>5, <1>5a, TopIs
<1>. USE DEF S, n
<1>7. ASSUME HomeAt \in S, HomeAt \in 1 .. n, \A k \in S : k <= HomeAt
      PROVE  /\ HomeAt \in RoutineAt + 1 .. n /\ IsLoop(nest[HomeAt])
             /\ HomeAt = LoopIn(nest, n) /\ nest[HomeAt] \in LoopFrame
  <2>1. HomeAt \in RoutineAt + 1 .. n /\ IsLoop(nest[HomeAt])
    BY <1>7
  <2>2. nest[HomeAt] \in FrameType
    BY <1>1, <1>7, ElementOfSeq
  <2>3. /\ LoopIn(nest, n) \in ActiveIn(nest, n) /\ LoopIn(nest, n) \in 1 .. n
        /\ HomeAt <= LoopIn(nest, n)
    BY <1>1, <1>5, <1>7, LevelIs
  <2>4. LoopIn(nest, n) \in S
    <3>1. IsLoop(nest[LoopIn(nest, n)])
      BY <2>3 DEF ActiveIn
    <3>. HIDE DEF n
    <3>2. LoopIn(nest, n) \in RoutineAt + 1 .. n
      BY <1>3, <2>1, <2>3
    <3>. QED  BY <3>1, <3>2
  <2>5. LoopIn(nest, n) <= HomeAt
    BY <1>7, <2>4
  <2>. HIDE DEF S, n
  <2>6. HomeAt = LoopIn(nest, n)
    BY <2>3, <2>5, <1>7
  <2>. QED  BY <2>1, <2>2, <2>6, FrameKinds DEF n
<1>. QED  BY <1>2, <1>3, <1>6, <1>7

(* What a BREAK or CONTINUE records, and the jump it leaves.               *)
LEMMA LeaveIs ==
    ASSUME ScopeTypes, Nested, NEW kind \in {"break", "continue"},
           NEW list \in {"breaks", "continues"}, Leave(kind, list)
    PROVE  LET last == Len(loops.items)
               jump == IF HomeAt = 0 THEN Op("jmp", 0)
                       ELSE [Op("jmp", 0) EXCEPT !.home = <<kind, nest[HomeAt].id>>]
           IN  /\ loops.items # <<>> /\ last \in 1 .. last
               /\ loops' \in VecOf(LoopType) /\ Len(loops'.items) = last
               /\ loops'.moves = loops.moves
               /\ loops'.items[last][list] = loops.items[last][list] \cup {Here}
               /\ \A other \in {"breaks", "continues"} : other # list =>
                     loops'.items[last][other] = loops.items[last][other]
               /\ \A k \in 1 .. last : k # last => loops'.items[k] = loops.items[k]
               /\ jump \in InsType /\ Emit(<<jump>>)
               /\ jump.op = "jmp" /\ jump.name = NoName
               /\ jump.home = IF HomeAt = 0 THEN <<>> ELSE <<kind, nest[HomeAt].id>>
               /\ IF HomeAt = 0 THEN strayed' ELSE strayed' = strayed
<1>. DEFINE last == Len(loops.items)
            loop == loops.items[last]
            new == [loop EXCEPT ![list] = loop[list] \cup {Here}]
            items == [loops.items EXCEPT ![last] = new]
            jump == IF HomeAt = 0 THEN Op("jmp", 0)
                    ELSE [Op("jmp", 0) EXCEPT !.home = <<kind, nest[HomeAt].id>>]
<1>1. /\ loops.items # <<>>
      /\ loops' = [loops EXCEPT !.items[Len(loops.items)][list] = @ \cup {Here}]
      /\ IF HomeAt = 0 THEN strayed' ELSE strayed' = strayed
      /\ Emit(<<jump>>)
  BY DEF Leave
<1>2. /\ loops.items \in Seq(LoopType) /\ last \in Nat /\ Here \in Nat
      /\ loops \in VecOf(LoopType)
  BY OpenIs DEF ScopeTypes
<1>3. last \in 1 .. last
  <2>1. last # 0
    BY <1>1, <1>2, EmptySeq
  <2>. HIDE DEF last
  <2>. QED  BY <1>2, <2>1
<1>4. loop \in LoopType
  BY <1>2, <1>3, ElementOfSeq
<1>5. loops' = [loops EXCEPT !.items = items]
  BY <1>1, <1>2, <1>4 DEF VecOf
<1>. HIDE DEF loop
<1>6. /\ new \in LoopType /\ new[list] = loop[list] \cup {Here}
      /\ \A other \in {"breaks", "continues"} : other # list => new[other] = loop[other]
  <2>1. CASE list = "breaks"
    BY <1>2, <1>4, <2>1 DEF LoopType
  <2>2. CASE list = "continues"
    BY <1>2, <1>4, <2>2 DEF LoopType
  <2>. QED  BY <2>1, <2>2
<1>. HIDE DEF new
<1>7. /\ items \in Seq(LoopType) /\ Len(items) = last /\ items[last] = new
      /\ \A k \in 1 .. last : k # last => items[k] = loops.items[k]
  BY <1>2, <1>3, <1>6, SeqSet
<1>. HIDE DEF items
<1>8. loops' \in VecOf(LoopType) /\ loops'.items = items /\ loops'.moves = loops.moves
  BY <1>2, <1>5, <1>7 DEF VecOf
<1>9. /\ jump \in InsType /\ jump.op = "jmp" /\ jump.name = NoName
      /\ jump.home = IF HomeAt = 0 THEN <<>> ELSE <<kind, nest[HomeAt].id>>
  <2>1. CASE HomeAt = 0
    BY <2>1 DEF Op, Ins, InsType, Ops
  <2>2. CASE HomeAt # 0
    <3>. DEFINE id == nest[HomeAt].id
    <3>1. id \in Ids
      BY <2>2, HomeIs DEF LoopFrame
    <3>. HIDE DEF id
    <3>2. <<kind, id>> \in Homes
      BY <3>1 DEF Homes
    <3>. DEFINE home == <<kind, id>>
    <3>. HIDE DEF home
    <3>. DEFINE plain == Op("jmp", 0)
    <3>3. home \in Homes /\ plain \in InsType /\ plain.op = "jmp" /\ plain.name = NoName
      BY <3>2 DEF Op, Ins, InsType, Ops, home
    <3>. HIDE DEF plain
    <3>4. LET j == [plain EXCEPT !.home = home]
          IN  j \in InsType /\ j.op = "jmp" /\ j.name = NoName /\ j.home = home
      BY <3>3 DEF InsType
    <3>. QED  BY <2>2, <3>4 DEF home, id, plain
  <2>. QED  BY <2>1, <2>2
<1>. HIDE DEF jump
<1>10. \A other \in {"breaks", "continues"} : other # list =>
          loops'.items[last][other] = loops.items[last][other]
  BY <1>6, <1>7, <1>8 DEF loop
<1>11. loops'.items[last][list] = loops.items[last][list] \cup {Here}
  BY <1>6, <1>7, <1>8 DEF loop
<1>. QED  BY <1>1, <1>3, <1>7, <1>8, <1>9, <1>10, <1>11 DEF jump

(* BREAK and CONTINUE.                                                     *)
LEMMA LeaveFits ==
    ASSUME ScopeTypes, Nested, NEW kind \in {"break", "continue"},
           NEW list \in {"breaks", "continues"}, Leave(kind, list)
    PROVE  ScopeTypes' /\ Nested'
<1>1. /\ chunk_idx' = chunk_idx /\ globals' = globals /\ locals' = locals
      /\ nest' = nest /\ saved_info' = saved_info /\ expr' = expr
  BY DEF Leave
<1>. DEFINE jump == IF HomeAt = 0 THEN Op("jmp", 0)
                    ELSE [Op("jmp", 0) EXCEPT !.home = <<kind, nest[HomeAt].id>>]
<1>2. /\ loops' \in VecOf(LoopType) /\ Len(loops'.items) = Len(loops.items)
      /\ jump \in InsType /\ Emit(<<jump>>)
  BY LeaveIs
<1>. HIDE DEF jump
<1>3. <<jump>> \in Seq(InsType)
  BY <1>2
<1>4. chunks' \in Seq(ChunkType) /\ Len(chunks') = Len(chunks)
  BY <1>2, <1>3, EmitIs
<1>5. ScopeTypes'
  BY <1>1, <1>2, <1>4 DEF ScopeTypes
<1>6. Nested'
  BY <1>1, <1>2, <1>4 DEF Nested, Frame
<1>. QED  BY <1>5, <1>6

(* The chunks after the end of a loop.                                     *)
LEMMA EndLoopIs ==
    ASSUME ScopeTypes, Nested, nest # <<>>, IsLoop(Frame), NEW tail \in Seq(InsType),
           NEW exit \in Nat, NEW back \in Nat, EndLoop(tail, exit, back)
    PROVE  \E loop \in LoopsAt(Frame.loop) :
              LET code == Code \o Filler \o tail
                  bent == PatchedAt(PatchedAt(code, Frame.out, 0, exit - Frame.out),
                                    back, 1, back - Frame.again)
              IN  /\ loop.breaks \in SUBSET Nat /\ loop.continues \in SUBSET Nat
                  /\ Valid(loops, Frame.loop) => loop = Last(loops.items)
                  /\ code \in Seq(InsType) /\ bent \in Seq(InsType)
                  /\ chunks' \in Seq(ChunkType) /\ Len(chunks') = Len(chunks)
                  /\ chunks'[chunk_idx].code =
                        LoopPatched(bent, loop.breaks, loop.continues, exit, Frame.again)
                  /\ chunks'[chunk_idx].argc = chunks[chunk_idx].argc
                  /\ chunks'[chunk_idx].uses = chunks[chunk_idx].uses
                  /\ chunks'[chunk_idx].own = chunks[chunk_idx].own
                  /\ \A c \in 1 .. Len(chunks) : c # chunk_idx => chunks'[c] = chunks[c]
<1>1. /\ loops.items \in Seq(LoopType) /\ loops.items # <<>> /\ chunk_idx \in 1 .. Len(chunks)
      /\ chunks \in Seq(ChunkType) /\ Code = chunks[chunk_idx].code
      /\ Frame \in LoopFrame /\ Frame.loop.pos = Len(loops.items)
  BY OpenIs, EndsIs DEF ScopeTypes
<1>. DEFINE code == Code \o Filler \o tail
            bent == PatchedAt(PatchedAt(code, Frame.out, 0, exit - Frame.out),
                              back, 1, back - Frame.again)
            over(loop) == LoopPatched(bent, loop.breaks, loop.continues, exit, Frame.again)
<1>2. PICK loop \in LoopsAt(Frame.loop) : chunks' = [chunks EXCEPT ![chunk_idx].code = over(loop)]
  BY DEF EndLoop
<1>3. /\ Frame.out \in Nat /\ Frame.again \in Nat
      /\ exit - Frame.out \in Int /\ back - Frame.again \in Int
  BY <1>1 DEF LoopFrame
<1>4. code \in Seq(InsType)
  BY FillerIs, ConcatIs
<1>. HIDE DEF code
<1>5. PatchedAt(code, Frame.out, 0, exit - Frame.out) \in Seq(InsType)
  BY <1>3, <1>4, PatchedIs, Zenon
<1>6. bent \in Seq(InsType)
  BY <1>3, <1>5, PatchedIs, Zenon
<1>7. /\ loop.breaks \in SUBSET Nat /\ loop.continues \in SUBSET Nat
      /\ Valid(loops, Frame.loop) => loop = Last(loops.items)
  <2>. DEFINE last == Last(loops.items)
  <2>1. last \in LoopType /\ last = loops.items[Frame.loop.pos]
    <3>1. Len(loops.items) \in Nat /\ Len(loops.items) # 0
      BY <1>1, EmptySeq, LenProperties
    <3>2. Len(loops.items) \in 1 .. Len(loops.items)
      BY <3>1
    <3>. QED  BY <1>1, <3>2, ElementOfSeq DEF Last
  <2>2. CASE Valid(loops, Frame.loop)
    <3>1. loop = last
      BY <2>1, <2>2, <1>2 DEF LoopsAt
    <3>. QED  BY <2>1, <3>1 DEF LoopType
  <2>3. CASE ~Valid(loops, Frame.loop)
    <3>1. loop \in [breaks : SUBSET last.breaks, continues : SUBSET last.continues]
      BY <2>3, <1>2 DEF LoopsAt
    <3>. HIDE DEF last
    <3>2. last.breaks \in SUBSET Nat /\ last.continues \in SUBSET Nat
      BY <2>1 DEF LoopType
    <3>. QED  BY <2>3, <3>1, <3>2
  <2>. QED  BY <2>2, <2>3
<1>. HIDE DEF bent
<1>8. over(loop) \in Seq(InsType)
  BY <1>3, <1>6, <1>7, LoopPatchedIs, Zenon
<1>. DEFINE after == over(loop)
<1>. HIDE DEF over
<1>9. after \in Seq(InsType) /\ chunks' = [chunks EXCEPT ![chunk_idx].code = after]
  BY <1>2, <1>8
<1>. HIDE DEF after
<1>10. LET new == [chunks EXCEPT ![chunk_idx].code = after]
       IN  /\ new \in Seq(ChunkType) /\ Len(new) = Len(chunks)
           /\ new[chunk_idx].code = after
           /\ new[chunk_idx].argc = chunks[chunk_idx].argc
           /\ new[chunk_idx].uses = chunks[chunk_idx].uses
           /\ new[chunk_idx].own = chunks[chunk_idx].own
           /\ \A c \in 1 .. Len(chunks) : c # chunk_idx => new[c] = chunks[c]
  BY <1>1, <1>9, RecodedIs
<1>11. /\ chunks' \in Seq(ChunkType) /\ Len(chunks') = Len(chunks)
       /\ chunks'[chunk_idx].code = after
       /\ chunks'[chunk_idx].argc = chunks[chunk_idx].argc
       /\ chunks'[chunk_idx].uses = chunks[chunk_idx].uses
       /\ chunks'[chunk_idx].own = chunks[chunk_idx].own
       /\ \A c \in 1 .. Len(chunks) : c # chunk_idx => chunks'[c] = chunks[c]
  BY <1>9, <1>10
<1>. QED  BY <1>4, <1>6, <1>7, <1>11 DEF after, over, bent, code

(* The end of a loop.                                                      *)
LEMMA EndLoopFits ==
    ASSUME ScopeTypes, Nested, nest # <<>>, IsLoop(Frame), expr = "none",
           NEW tail \in Seq(InsType), NEW exit \in Nat, NEW back \in Nat,
           EndLoop(tail, exit, back)
    PROVE  ScopeTypes' /\ Nested'
<1>1. /\ loops' = Popped(loops) /\ nest' = Front(nest) /\ chunk_idx' = chunk_idx
      /\ globals' = globals /\ locals' = locals /\ saved_info' = saved_info /\ expr' = expr
  BY DEF EndLoop
<1>2. chunks' \in Seq(ChunkType) /\ Len(chunks') = Len(chunks)
  BY EndLoopIs
<1>3. /\ Front(nest) \in Seq(FrameType) /\ loops.items # <<>>
      /\ Fit(Front(nest), Len(chunks), chunk_idx, locals.items, Len(loops.items) - 1)
  BY EndsIs
<1>4. /\ loops' \in VecOf(LoopType) /\ loops'.items = Front(loops.items)
      /\ Len(loops'.items) = Len(loops.items) - 1
  BY <1>1, <1>3, PoppedIs, FrontIs, OpenIs, ZenonT(40) DEF ScopeTypes
<1>5. ScopeTypes'
  BY <1>1, <1>2, <1>3, <1>4 DEF ScopeTypes
<1>6. Nested'
  BY <1>1, <1>2, <1>3, <1>4 DEF Nested
<1>. QED  BY <1>5, <1>6

(* Where the jump back of a loop is, and what follows it.                  *)
LEMMA BackIs ==
    ASSUME ScopeTypes, Nested
    PROVE  LET back == Here + Len(Filler)
           IN  /\ back \in Nat /\ back + 1 \in Nat
               /\ <<Op("jmp", 0)>> \in Seq(InsType)
               /\ <<Op("jmp", 0), Op("nop", 0)>> \in Seq(InsType)
<1>1. Here \in Nat /\ Len(Filler) \in Nat
  BY OpenIs, FillerIs
<1>2. Op("jmp", 0) \in InsType /\ Op("nop", 0) \in InsType
  BY DEF Op, Ins, InsType, Ops
<1>3. Here + Len(Filler) \in Nat /\ Here + Len(Filler) + 1 \in Nat
  BY <1>1
<1>. QED  BY <1>2, <1>3

(* The end of a WHILE.                                                     *)
LEMMA EndWhileFits ==
    ASSUME ScopeTypes, Nested, EndWhile
    PROVE  ScopeTypes' /\ Nested'
<1>. DEFINE back == Here + Len(Filler)
            tail == <<Op("jmp", 0)>>
<1>1. /\ EndLoop(tail, back + 1, back) /\ nest # <<>> /\ IsLoop(Frame) /\ expr = "none"
  BY DEF EndWhile, IsLoop, InBlock
<1>2. back \in Nat /\ back + 1 \in Nat /\ tail \in Seq(InsType)
  BY BackIs
<1>. HIDE DEF back, tail
<1>. QED  BY <1>1, <1>2, EndLoopFits

(* The end of a FOR.                                                       *)
LEMMA EndForFits ==
    ASSUME ScopeTypes, Nested, EndFor
    PROVE  ScopeTypes' /\ Nested'
<1>. DEFINE back == Here + Len(Filler)
            tail == <<Op("jmp", 0), Op("nop", 0)>>
<1>1. /\ EndLoop(tail, back + 1, back) /\ nest # <<>> /\ IsLoop(Frame) /\ expr = "none"
  BY DEF EndFor, IsLoop, InBlock
<1>2. back \in Nat /\ back + 1 \in Nat /\ tail \in Seq(InsType)
  BY BackIs
<1>. HIDE DEF back, tail
<1>. QED  BY <1>1, <1>2, EndLoopFits

(* The steps of a source that has no error.                                *)
Good ==
    \/ Statement \/ Operand \/ EndFunc
    \/ \E name \in Routines, params \in ParamLists : BeginFunc(name, params)

(* They leave errors and status as they are.                               *)
LEMMA GoodGoesOn ==
    ASSUME Good
    PROVE  errors' = errors /\ status = "open" /\ status' = status
<1>1. ASSUME NEW name, BeginLet(name) \/ BeginAssign(name)
      PROVE  errors' = errors /\ status = "open" /\ status' = status
  BY <1>1 DEF BeginLet, BeginAssign, Begins, InBlock
<1>2. ASSUME StoreLet \/ StoreAssigned \/ EndWhile \/ EndFor
      PROVE  errors' = errors /\ status = "open" /\ status' = status
  BY <1>2 DEF StoreLet, StoreAssigned, EndWhile, EndFor, EndLoop, InBinding, InBlock
<1>3. ASSUME NEW name, NEW literal,
             BeginWhile \/ Break \/ Continue \/ BeginFor(name, literal)
      PROVE  errors' = errors /\ status = "open" /\ status' = status
  BY <1>3 DEF BeginWhile, Break, Continue, Leave, BeginFor, Begins, InBlock
<1>4. ASSUME NEW name, NEW literal,
             ReadName(name) \/ ReadConstant(literal) \/ EndLambda \/ EndFunc
      PROVE  errors' = errors /\ status = "open" /\ status' = status
  BY <1>4 DEF ReadName, ReadConstant, EndLambda, EndFunc, InBinding, InBlock
<1>5. ASSUME NEW name, NEW params, NEW uses,
             BeginLambda(params, uses) \/ BeginFunc(name, params)
      PROVE  errors' = errors /\ status = "open" /\ status' = status
  BY <1>5 DEF BeginLambda, BeginFunc, InBinding, Begins, InBlock
<1>. QED  BY <1>1, <1>2, <1>3, <1>4, <1>5, Zenon DEF Good, Statement, Operand

(* Whatever else happens counts an error, or the compiler stops.           *)
LEMMA OthersStop ==
    ASSUME errors \in Nat, Refused \/ Finish \/ Over
    PROVE  errors' \in Nat /\ (errors' # 0 \/ status' # "open")
<1>1. ASSUME Dies PROVE errors' \in Nat /\ status' # "open"
  BY <1>1 DEF Dies
<1>2. ASSUME BadFor PROVE errors' \in Nat /\ status' # "open"
  BY <1>1, <1>2 DEF BadFor
<1>3. ASSUME NEW params, NEW uses, BadName \/ LeaveNoLoop \/ BadUses(params, uses)
      PROVE  errors' \in Nat /\ status' # "open"
  BY <1>1, <1>3 DEF BadName, LeaveNoLoop, BadUses
<1>4. ASSUME Fault PROVE errors' \in Nat /\ errors' # 0
  BY <1>4 DEF Fault
<1>5. ASSUME NEW name,
             FaultyStatement \/ FaultyBinding \/ FaultyLambda \/ FaultyFunc(name) \/ FaultyFor(name)
      PROVE  errors' \in Nat /\ errors' # 0
  BY <1>4, <1>5 DEF FaultyStatement, FaultyBinding, FaultyLambda, FaultyFunc, FaultyFor,
                    FaultyRoutine
<1>6. ASSUME Finish PROVE errors' \in Nat /\ status' # "open"
  BY <1>6 DEF Finish
<1>7. ASSUME Over PROVE errors' \in Nat /\ status' # "open"
  BY <1>7 DEF Over, vars
<1>. QED  BY <1>2, <1>3, <1>5, <1>6, <1>7, Zenon DEF Refused

(* The top level, with nothing read yet.                                   *)
LEMMA NestBegins == Init => NestInv
<1>. SUFFICES ASSUME Init PROVE NestInv
  OBVIOUS
<1>1. /\ chunks = <<NewChunk(NewTable, <<>>)>> /\ chunk_idx = 1 /\ globals = <<>>
      /\ locals = AnyVecPushed(Array(<<>>, ANYVEC_DEFAULT_SIZE), NewTable)
      /\ loops = Array(<<>>, ANYVEC_DEFAULT_SIZE) /\ saved_info = NoSymbol /\ errors = 0
      /\ nest = <<>> /\ expr = "none"
  BY DEF Init
<1>2. NewTable \in TableType
  BY NewTableIs
<1>3. \A S : Array(<<>>, ANYVEC_DEFAULT_SIZE) \in VecOf(S)
  BY ScopesAssumption DEF Array, VecOf
<1>4. locals \in VecOf(TableType) /\ locals.items = Append(<<>>, NewTable)
  <2>. DEFINE array == Array(<<>>, ANYVEC_DEFAULT_SIZE)
  <2>1. array \in VecOf(TableType) /\ array.items = <<>>
    BY <1>3 DEF Array
  <2>. HIDE DEF array
  <2>2. AnyVecPushed(array, NewTable) \in VecOf(TableType)
        /\ AnyVecPushed(array, NewTable).items = Append(array.items, NewTable)
    BY <1>2, <2>1, AnyVecPushedIs
  <2>. QED  BY <1>1, <2>1, <2>2 DEF array
<1>5. Len(locals.items) = 1 /\ Len(loops.items) = 0
  BY <1>1, <1>4 DEF Array
<1>6. NewChunk(NewTable, <<>>) \in ChunkType
  <2>1. NewTable.local_argc \in Nat
    BY <1>2, TableFields
  <2>2. Op("reserve", 0) \in InsType
    BY DEF Op, Ins, InsType, Ops
  <2>. QED  BY <2>1, <2>2 DEF NewChunk, ChunkType
<1>7. chunks \in Seq(ChunkType) /\ Len(chunks) = 1
  BY <1>1, <1>6
<1>8. ScopeTypes
  BY <1>1, <1>3, <1>4, <1>7 DEF ScopeTypes
<1>9. LevelIn(nest, 0) = 0 /\ LoopIn(nest, 0) = 0 /\ Len(nest) = 0
  <2>1. RoutinesIn(nest, 0) = {} /\ ActiveIn(nest, 0) = {}
    BY DEF RoutinesIn, ActiveIn
  <2>2. LevelIn(nest, 0) \notin 1 .. 0 /\ LoopIn(nest, 0) \notin 1 .. 0
    OBVIOUS
  <2>. QED  BY <1>1, <2>1, <2>2, LevelIs
<1>10. Fit(nest, Len(chunks), chunk_idx, locals.items, Len(loops.items))
  <2>1. ChunkAt(nest, 0) = 1 /\ ScopeAt(nest, 0) = 1 /\ PlaceAt(nest, 0) = 0
    BY <1>9 DEF ChunkAt, ScopeAt, PlaceAt
  <2>2. NestOK(nest) /\ LetsMeant(nest, locals.items) /\ LambdasBound(nest)
    BY <1>9 DEF NestOK, LetsMeant, LambdasBound
  <2>3. ChunksOpen(nest, Len(chunks))
    <3>. SUFFICES ASSUME NEW n \in 0 .. Len(nest) PROVE ChunkAt(nest, n) \in 1 .. Len(chunks)
      BY DEF ChunksOpen
    <3>1. n = 0
      BY <1>9
    <3>. QED  BY <1>7, <2>1, <3>1
  <2>. QED  BY <1>1, <1>5, <1>7, <1>9, <2>1, <2>2, <2>3 DEF Fit
<1>. QED  BY <1>1, <1>8, <1>10 DEF NestInv, Nested

(* A step of a source that has no error keeps what is open in its place.   *)
LEMMA GoodFits ==
    ASSUME ScopeTypes, Nested, Good
    PROVE  ScopeTypes' /\ Nested'
<1>1. ASSUME NEW name \in Names, BeginLet(name) PROVE ScopeTypes' /\ Nested'
  BY <1>1, BeginLetFits
<1>2. ASSUME NEW name \in Names, BeginAssign(name) PROVE ScopeTypes' /\ Nested'
  BY <1>2, BeginAssignFits
<1>3. ASSUME NEW name \in Names, ReadName(name) PROVE ScopeTypes' /\ Nested'
  BY <1>3, ReadNameFits
<1>4. ASSUME NEW literal \in Literals, ReadConstant(literal) PROVE ScopeTypes' /\ Nested'
  BY <1>4, ReadConstantFits
<1>5. CASE StoreLet
  BY <1>5, StoreLetFits
<1>6. CASE StoreAssigned
  BY <1>6, StoreAssignedFits
<1>7. ASSUME NEW params \in ParamLists, NEW uses \in UsesLists, BeginLambda(params, uses)
      PROVE  ScopeTypes' /\ Nested'
  BY <1>7, BeginLambdaFits
<1>8. ASSUME NEW name \in Routines, NEW params \in ParamLists, BeginFunc(name, params)
      PROVE  ScopeTypes' /\ Nested'
  BY <1>8, BeginFuncFits
<1>9. CASE EndFunc
  BY <1>9, EndFuncFits
<1>10. CASE EndLambda
  BY <1>10, EndLambdaFits
<1>11. CASE BeginWhile
  BY <1>11, BeginWhileFits
<1>12. ASSUME NEW name \in Names, NEW literal \in Literals, BeginFor(name, literal)
       PROVE  ScopeTypes' /\ Nested'
  BY <1>12, BeginForFits
<1>13. CASE Break \/ Continue
  BY <1>13, LeaveFits DEF Break, Continue
<1>14. CASE EndWhile
  BY <1>14, EndWhileFits
<1>15. CASE EndFor
  BY <1>15, EndForFits
<1>. QED  BY <1>1, <1>2, <1>3, <1>4, <1>5, <1>6, <1>7, <1>8, <1>9, <1>10, <1>11, <1>12,
             <1>13, <1>14, <1>15, Zenon DEF Good, Statement, Operand

(* Every step does.                                                        *)
LEMMA NestStep == NestInv /\ [Next]_vars => NestInv'
<1>. SUFFICES ASSUME NestInv, [Next]_vars PROVE NestInv'
  OBVIOUS
<1>1. CASE Good
  BY <1>1, GoodGoesOn, GoodFits DEF NestInv, Sound
<1>2. CASE Refused \/ Finish \/ Over
  BY <1>2, OthersStop DEF NestInv, Sound
<1>3. CASE UNCHANGED vars
  BY <1>3 DEF NestInv, Sound, ScopeTypes, Nested, Frame, vars, stack_vars
<1>. QED  BY <1>1, <1>2, <1>3, Zenon DEF Next, Good

(* At every moment of the compilation of any source, as long as it has no  *)
(* error, the open routines have one scope each, on top of each other, and *)
(* chunks of their own, the open loops one place each, and every binding   *)
(* that waits for its operand is one of the scope that it began in.        *)
THEOREM WhatIsOpenFits == Spec => []NestInv
<1>. QED  BY NestBegins, NestStep, PTL DEF Spec

(* So code goes to the chunk of the routine that is being read, whatever   *)
(* routines were read inside it, and there are as many scopes as open      *)
(* routines, the top level one, and as many active loops as open loops.    *)
THEOREM ScopesNest == Spec => []ScopesFollowNesting
<1>1. NestInv => ScopesFollowNesting
  <2>. SUFFICES ASSUME NestInv, status = "open", errors = 0
                PROVE  /\ chunk_idx = IF RoutineAt = 0 THEN 1 ELSE nest[RoutineAt].chunk
                       /\ Depth = 1 + Cardinality({n \in DOMAIN nest : IsRoutine(nest[n])})
                       /\ Len(loops.items) = Cardinality({n \in DOMAIN nest : IsLoop(nest[n])})
    BY DEF ScopesFollowNesting
  <2>1. ScopeTypes /\ Nested
    BY DEF NestInv, Sound
  <2>2. nest \in Seq(FrameType) /\ Len(nest) \in Nat /\ DOMAIN nest = 1 .. Len(nest)
    BY <2>1, LenProperties DEF ScopeTypes
  <2>3. RoutineAt = LevelIn(nest, Len(nest))
    BY DEF RoutineAt, LevelIn
  <2>4. /\ NestOK(nest) /\ chunk_idx = ChunkAt(nest, Len(nest))
        /\ Len(locals.items) = ScopeAt(nest, Len(nest))
        /\ Len(loops.items) = PlaceAt(nest, Len(nest))
    BY <2>1 DEF Nested, Fit
  <2>5. /\ RoutinesIn(nest, Len(nest)) = {n \in DOMAIN nest : IsRoutine(nest[n])}
        /\ ActiveIn(nest, Len(nest)) = {n \in DOMAIN nest : IsLoop(nest[n])}
    BY <2>2 DEF RoutinesIn, ActiveIn
  <2>6. Len(nest) \in 0 .. Len(nest)
    BY <2>2
  <2>7. /\ ScopeAt(nest, Len(nest)) = 1 + Cardinality(RoutinesIn(nest, Len(nest)))
        /\ PlaceAt(nest, Len(nest)) = Cardinality(ActiveIn(nest, Len(nest)))
    BY <2>2, <2>4, <2>6, Counted, Zenon
  <2>. QED  BY <2>3, <2>4, <2>5, <2>7 DEF ChunkAt, Depth
<1>. QED  BY <1>1, WhatIsOpenFits, PTL
-----------------------------------------------------------------------------
(* What code means.  tabs has the symbol table of every chunk, those of    *)
(* routines that have ended too.                                           *)

(* An instruction of the source's goes to the slot of the symbol that its  *)
(* name is found as; the store of an assignment with another one on its    *)
(* right need not.                                                         *)
Meant(ins, funcs, top, own) ==
    /\ ins.name # NoName => ins.op \in DOMAIN Space
    /\ ins.op \in DOMAIN Space /\ ins.plain /\ (ins.op = "load_imm_gid" => ins.name # NoName)
       => Find(SymbolsOf(Space[ins.op], funcs, top, own), ins.name, Space[ins.op])
             = Symbol(ins.name, ins.wide, Space[ins.op])

ChunkMeant(chunk, funcs, top, table) ==
    /\ GoodTable(table, chunk.uses) /\ chunk.argc = table.local_argc
    /\ \A n \in 1 .. Len(chunk.code) : Meant(chunk.code[n], funcs, top, table.infos.items)

CodeMeant(chs, funcs, tabs) ==
    \A c \in 1 .. Len(chs) : ChunkMeant(chs[c], funcs, tabs[1].infos.items, tabs[c])

(* What a closure captures is loaded in front of it, behind its lambda.    *)
ClosureMeant(chs, code, n) ==
    LET size == code[n].wide
        lambda == code[n - size - 1].wide
    IN  /\ size \in Nat /\ n - size > 1
        /\ code[n - size - 1].op = "load_imm_gid" /\ lambda \in 1 .. Len(chs)
        /\ Len(chs[lambda].uses) = size
        /\ \A k \in 1 .. size : code[n - size + k - 1].name = chs[lambda].uses[k]

ClosuresMeant(chs) ==
    \A c \in 1 .. Len(chs) : \A n \in 1 .. Len(chs[c].code) :
        chs[c].code[n].op = "mk_closure" => ClosureMeant(chs, chs[c].code, n)

(* An instruction that may have been patched.                              *)
SameMeaning(ins, new) ==
    /\ new.op = ins.op /\ new.name = ins.name /\ new.plain = ins.plain
    /\ ins.op \in DOMAIN Space \cup {"mk_closure"} => new.wide = ins.wide

(* Chunks to which code was added, or in which some was patched.           *)
Recoded(chs, after) ==
    /\ Len(after) = Len(chs)
    /\ \A c \in 1 .. Len(chs) :
          /\ after[c].argc = chs[c].argc /\ after[c].uses = chs[c].uses
          /\ Len(chs[c].code) <= Len(after[c].code)
          /\ \A n \in 1 .. Len(chs[c].code) : SameMeaning(chs[c].code[n], after[c].code[n])

(* Symbols that come behind others change no meaning.                      *)
LEMMA MeantGrows ==
    ASSUME NEW ins, NEW funcs \in Seq(SymbolType), NEW top \in Seq(SymbolType),
           NEW own \in Seq(SymbolType), Meant(ins, funcs, top, own),
           NEW funcs2 \in Seq(SymbolType), NEW top2 \in Seq(SymbolType),
           NEW own2 \in Seq(SymbolType),
           Longer(funcs, funcs2), Longer(top, top2), Longer(own, own2)
    PROVE  Meant(ins, funcs2, top2, own2)
<1>1. CASE ins.op \in DOMAIN Space
  <2>. DEFINE domain == Space[ins.op]
              items == SymbolsOf(domain, funcs, top, own)
              more == SymbolsOf(domain, funcs2, top2, own2)
              symbol == Symbol(ins.name, ins.wide, domain)
  <2>1. domain \in Domains
    BY <1>1 DEF Space, Domains
  <2>. HIDE DEF domain
  <2>2. /\ items \in Seq(SymbolType) /\ more \in Seq(SymbolType) /\ Longer(items, more)
    BY DEF SymbolsOf
  <2>3. symbol # NoSymbol
    BY <2>1, SymbolIsSome
  <2>. HIDE DEF items, more, symbol
  <2>4. Find(items, ins.name, domain) = symbol => Find(more, ins.name, domain) = symbol
    BY <2>1, <2>2, <2>3, FindGrows
  <2>. QED  BY <1>1, <2>4 DEF Meant, items, more, symbol, domain
<1>. QED  BY <1>1 DEF Meant

(* Nor does what comes behind in tables that stay good.                    *)
LEMMA CodeGrows ==
    ASSUME NEW chs \in Seq(ChunkType), Len(chs) # 0,
           NEW funcs \in Seq(SymbolType), NEW tabs \in Seq(TableType),
           Len(tabs) = Len(chs), CodeMeant(chs, funcs, tabs),
           NEW funcs2 \in Seq(SymbolType), NEW tabs2 \in Seq(TableType),
           Len(tabs2) = Len(tabs), Longer(funcs, funcs2),
           \A c \in 1 .. Len(tabs) : Extends(tabs[c], tabs2[c]),
           \A c \in 1 .. Len(tabs) : GoodTable(tabs2[c], chs[c].uses)
    PROVE  CodeMeant(chs, funcs2, tabs2)
<1>. SUFFICES ASSUME NEW c \in 1 .. Len(chs)
              PROVE  ChunkMeant(chs[c], funcs2, tabs2[1].infos.items, tabs2[c])
  BY DEF CodeMeant
<1>. DEFINE top == tabs[1].infos.items
            own == tabs[c].infos.items
            top2 == tabs2[1].infos.items
            own2 == tabs2[c].infos.items
<1>1. 1 \in 1 .. Len(tabs) /\ c \in 1 .. Len(tabs)
  BY LenProperties
<1>2. tabs[1] \in TableType /\ tabs[c] \in TableType /\ tabs2[1] \in TableType
      /\ tabs2[c] \in TableType
  BY <1>1, ElementOfSeq
<1>3. top \in Seq(SymbolType) /\ own \in Seq(SymbolType) /\ top2 \in Seq(SymbolType)
      /\ own2 \in Seq(SymbolType)
  BY <1>2, TableFields
<1>4. Longer(top, top2) /\ Longer(own, own2) /\ tabs2[c].local_argc = tabs[c].local_argc
  BY <1>1 DEF Extends
<1>5. ChunkMeant(chs[c], funcs, top, tabs[c])
  BY DEF CodeMeant
<1>. HIDE DEF top, own, top2, own2
<1>6. ASSUME NEW n \in 1 .. Len(chs[c].code)
      PROVE  Meant(chs[c].code[n], funcs2, top2, own2)
  <2>1. Meant(chs[c].code[n], funcs, top, own)
    BY <1>5 DEF ChunkMeant, own
  <2>. QED  BY <1>3, <1>4, <2>1, MeantGrows
<1>. QED  BY <1>1, <1>4, <1>5, <1>6 DEF ChunkMeant, top2, own2

(* Code that was added has to mean something, what was patched does.       *)
LEMMA CodeRecoded ==
    ASSUME NEW chs \in Seq(ChunkType), NEW after \in Seq(ChunkType), Recoded(chs, after),
           NEW funcs, NEW tabs, CodeMeant(chs, funcs, tabs),
           \A c \in 1 .. Len(chs) : \A n \in 1 .. Len(after[c].code) :
               Len(chs[c].code) < n =>
                   Meant(after[c].code[n], funcs, tabs[1].infos.items, tabs[c].infos.items)
    PROVE  CodeMeant(after, funcs, tabs)
<1>. SUFFICES ASSUME NEW c \in 1 .. Len(chs)
              PROVE  ChunkMeant(after[c], funcs, tabs[1].infos.items, tabs[c])
  BY DEF CodeMeant, Recoded
<1>. DEFINE code == chs[c].code
            new == after[c].code
            top == tabs[1].infos.items
            own == tabs[c].infos.items
<1>1. chs[c] \in ChunkType /\ after[c] \in ChunkType
  BY ElementOfSeq DEF Recoded
<1>2. code \in Seq(InsType) /\ new \in Seq(InsType) /\ Len(code) \in Nat /\ Len(new) \in Nat
  BY <1>1, ChunkFields
<1>3. ChunkMeant(chs[c], funcs, top, tabs[c])
  BY DEF CodeMeant
<1>4. /\ after[c].argc = chs[c].argc /\ after[c].uses = chs[c].uses
      /\ Len(code) <= Len(new) /\ \A n \in 1 .. Len(code) : SameMeaning(code[n], new[n])
  BY DEF Recoded
<1>. HIDE DEF top, own
<1>5. ASSUME NEW n \in 1 .. Len(new) PROVE Meant(new[n], funcs, top, own)
  <2>1. CASE Len(code) < n
    BY <2>1 DEF top, own
  <2>2. CASE ~(Len(code) < n)
    <3>1. n \in 1 .. Len(code)
      BY <1>2, <2>2
    <3>2. Meant(code[n], funcs, top, own) /\ SameMeaning(code[n], new[n])
      BY <1>3, <1>4, <3>1 DEF ChunkMeant, own
    <3>. HIDE DEF code, new
    <3>. QED  BY <3>2 DEF Meant, SameMeaning
  <2>. QED  BY <2>1, <2>2
<1>. QED  BY <1>3, <1>4, <1>5 DEF ChunkMeant, own, top

(* A closure, part by part.                                                *)
LEMMA ClosureIs ==
    ASSUME NEW chs, NEW code, NEW n, NEW size \in Nat, code[n].wide = size, n - size > 1,
           code[n - size - 1].op = "load_imm_gid",
           NEW lambda \in 1 .. Len(chs), code[n - size - 1].wide = lambda,
           Len(chs[lambda].uses) = size,
           \A k \in 1 .. size : code[n - size + k - 1].name = chs[lambda].uses[k]
    PROVE  ClosureMeant(chs, code, n)
  BY Zenon DEF ClosureMeant

(* The same of closures.                                                   *)
LEMMA ClosuresRecoded ==
    ASSUME NEW chs \in Seq(ChunkType), NEW after \in Seq(ChunkType), Recoded(chs, after),
           ClosuresMeant(chs),
           \A c \in 1 .. Len(chs) : \A n \in 1 .. Len(after[c].code) :
               Len(chs[c].code) < n /\ after[c].code[n].op = "mk_closure" =>
                   ClosureMeant(after, after[c].code, n)
    PROVE  ClosuresMeant(after)
<1>. SUFFICES ASSUME NEW c \in 1 .. Len(chs), NEW n \in 1 .. Len(after[c].code),
                     after[c].code[n].op = "mk_closure"
              PROVE  ClosureMeant(after, after[c].code, n)
  BY DEF ClosuresMeant, Recoded
<1>. DEFINE code == chs[c].code
            new == after[c].code
<1>1. chs[c] \in ChunkType /\ after[c] \in ChunkType
  BY ElementOfSeq DEF Recoded
<1>2. code \in Seq(InsType) /\ new \in Seq(InsType) /\ Len(code) \in Nat /\ Len(new) \in Nat
  BY <1>1, ChunkFields
<1>3. /\ Len(code) <= Len(new) /\ \A k \in 1 .. Len(code) : SameMeaning(code[k], new[k])
  BY DEF Recoded
<1>4. CASE Len(code) < n
  BY <1>4
<1>5. CASE ~(Len(code) < n)
  <2>1. n \in 1 .. Len(code)
    BY <1>2, <1>5
  <2>2. code[n].op = "mk_closure" /\ new[n].wide = code[n].wide
    BY <1>3, <2>1 DEF SameMeaning
  <2>. DEFINE size == code[n].wide
              first == n - size
              lambda == code[first - 1].wide
  <2>3. /\ size \in Nat /\ first > 1 /\ code[first - 1].op = "load_imm_gid"
        /\ lambda \in 1 .. Len(chs) /\ Len(chs[lambda].uses) = size
        /\ \A k \in 1 .. size : code[first + k - 1].name = chs[lambda].uses[k]
    BY <2>1, <2>2 DEF ClosuresMeant, ClosureMeant
  <2>4. first - 1 \in 1 .. Len(code)
        /\ \A k \in 1 .. size : first + k - 1 \in 1 .. Len(code)
    <3>. HIDE DEF size
    <3>. QED  BY <1>2, <2>1, <2>3, SMTT(40)
  <2>5. new[first - 1].op = "load_imm_gid" /\ new[first - 1].wide = lambda
    <3>1. SameMeaning(code[first - 1], new[first - 1])
      BY <1>3, <2>4
    <3>. QED  BY <2>3, <3>1 DEF SameMeaning, Space
  <2>6. \A k \in 1 .. size : new[first + k - 1].name = code[first + k - 1].name
    BY <1>3, <2>4 DEF SameMeaning
  <2>7. after[lambda].uses = chs[lambda].uses /\ Len(after) = Len(chs)
    BY <2>3 DEF Recoded
  <2>8. /\ n - size > 1 /\ new[n - size - 1].op = "load_imm_gid"
        /\ new[n - size - 1].wide = lambda
        /\ \A k \in 1 .. size : new[n - size + k - 1].name = after[lambda].uses[k]
    BY <2>3, <2>5, <2>6, <2>7
  <2>. HIDE DEF code, new, lambda, size
  <2>9. new[n].wide = size
    BY <2>2 DEF size
  <2>10. ClosureMeant(after, new, n)
    <3>1. lambda \in 1 .. Len(after) /\ Len(after[lambda].uses) = size
      BY <2>3, <2>7
    <3>. QED  BY <2>3, <2>8, <2>9, <3>1, ClosureIs, Zenon
  <2>. QED  BY <2>10 DEF new
<1>. QED  BY <1>4, <1>5
-----------------------------------------------------------------------------
(* Where jumps go                                                          *)

(* The code of a chunk begins with its RESERVE.                            *)
Reserved(chs) ==
    \A c \in 1 .. Len(chs) : Len(chs[c].code) # 0 /\ chs[c].code[1].op = "reserve"

Recorded(loop, kind) == IF kind = "break" THEN loop.breaks ELSE loop.continues

(* What a loop has recorded are jumps of its chunk that are written in it. *)
LoopMeant(chs, frames, items, n) ==
    LET frame == frames[n]
        code == chs[ChunkAt(frames, n)].code
    IN  /\ frame.id[1] = ChunkAt(frames, n) /\ frame.id[2] < Len(code)
        /\ frame.out + 1 \in 1 .. Len(code) /\ code[frame.out + 1].op = "jmp_false"
        /\ \A kind \in {"break", "continue"} : \A p \in Recorded(items[frame.loop.pos], kind) :
              /\ p + 1 \in 1 .. Len(code) /\ code[p + 1].op = "jmp"
              /\ code[p + 1].flag = 0 /\ code[p + 1].home = <<kind, frame.id>>

LoopsMeant(chs, frames, items) ==
    /\ \A n \in 1 .. Len(frames) : IsLoop(frames[n]) => LoopMeant(chs, frames, items, n)
    /\ \A n, m \in 1 .. Len(frames) :
          IsLoop(frames[n]) /\ IsLoop(frames[m]) /\ frames[n].id = frames[m].id => n = m

(* A jump that is written in a loop is recorded with it, or goes where     *)
(* that loop went on.                                                      *)
Waits(frames, items, c, ins, n) ==
    \E m \in 1 .. Len(frames) :
        /\ IsLoop(frames[m]) /\ frames[m].id = ins.home[2] /\ ChunkAt(frames, m) = c
        /\ n - 1 \in Recorded(items[frames[m].loop.pos], ins.home[1])

Landed(ended, c, ins, n) ==
    \E loop \in ended :
        /\ loop.id = ins.home[2] /\ loop.id[1] = c
        /\ Target(n - 1, ins) = IF ins.home[1] = "break" THEN loop.exit ELSE loop.again

HomesMeant(chs, frames, items, ended) ==
    \A c \in 1 .. Len(chs) : \A n \in 1 .. Len(chs[c].code) :
        LET ins == chs[c].code[n]
        IN  ins.home # <<>> =>
               ins.op = "jmp" /\ (Waits(frames, items, c, ins, n) \/ Landed(ended, c, ins, n))

(* Chunks to which code was added, and in which at most the first          *)
(* instruction was patched.                                                *)
Added(chs, after) ==
    /\ Len(chs) <= Len(after)
    /\ \A c \in 1 .. Len(chs) :
          /\ after[c].argc = chs[c].argc /\ after[c].uses = chs[c].uses
          /\ Len(chs[c].code) <= Len(after[c].code)
          /\ \A n \in 1 .. Len(chs[c].code) :
                \/ after[c].code[n] = chs[c].code[n]
                \/ /\ n = 1 /\ SameMeaning(chs[c].code[n], after[c].code[n])
                   /\ after[c].code[n].home = chs[c].code[n].home

(* Frames with the same loops.                                             *)
SameLoops(frames, more) ==
    /\ \A m \in 1 .. Len(more) : IsLoop(more[m]) =>
          /\ m \in 1 .. Len(frames) /\ more[m] = frames[m]
          /\ ChunkAt(more, m) = ChunkAt(frames, m)
    /\ \A m \in 1 .. Len(frames) : IsLoop(frames[m]) =>
          m \in 1 .. Len(more) /\ more[m] = frames[m]

(* Code that was added leaves the jumps of loops where they were.          *)
LEMMA JumpsAdded ==
    ASSUME NEW chs \in Seq(ChunkType), NEW after \in Seq(ChunkType), Added(chs, after),
           NEW frames \in Seq(FrameType), NEW more \in Seq(FrameType), NEW items, NEW items2,
           NEW ended, Reserved(chs), LoopsMeant(chs, frames, items), HomesMeant(chs, frames, items, ended),
           ChunksOpen(frames, Len(chs)),
           SameLoops(frames, more),
           \A m \in 1 .. Len(frames) : IsLoop(frames[m]) => \A kind :
               Recorded(items[frames[m].loop.pos], kind)
                   \subseteq Recorded(items2[frames[m].loop.pos], kind),
           \A c \in 1 .. Len(after) :
               /\ Len(chs) < c => Len(after[c].code) # 0 /\ after[c].code[1].op = "reserve"
               /\ \A n \in 1 .. Len(after[c].code) :
                     Len(chs) < c \/ Len(chs[c].code) < n =>
                         LET ins == after[c].code[n]
                         IN  ins.home # <<>> => ins.op = "jmp" /\ Waits(more, items2, c, ins, n)
    PROVE  /\ Reserved(after) /\ LoopsMeant(after, more, items)
           /\ HomesMeant(after, more, items2, ended)
<1>1. Len(chs) \in Nat /\ Len(after) \in Nat /\ Len(frames) \in Nat /\ Len(more) \in Nat
  BY LenProperties
<1>2. \A c \in 1 .. Len(chs) :
          /\ c \in 1 .. Len(after) /\ Len(chs[c].code) \in Nat /\ Len(after[c].code) \in Nat
          /\ Len(chs[c].code) <= Len(after[c].code) /\ 1 \in 1 .. Len(chs[c].code)
  <2>. TAKE c \in 1 .. Len(chs)
  <2>1. c \in 1 .. Len(after) /\ Len(chs[c].code) <= Len(after[c].code)
    <3>1. Len(chs) <= Len(after) /\ Len(chs[c].code) <= Len(after[c].code)
      BY DEF Added
    <3>2. c \in 1 .. Len(after)
      BY ONLY <1>1, <3>1, c \in 1 .. Len(chs)
    <3>. QED  BY <3>1, <3>2
  <2>2. chs[c] \in ChunkType /\ after[c] \in ChunkType
    BY <2>1, ElementOfSeq
  <2>3. Len(chs[c].code) \in Nat /\ Len(after[c].code) \in Nat /\ Len(chs[c].code) # 0
    BY <2>2, ChunkFields DEF Reserved
  <2>. QED  BY <2>1, <2>3
<1>3. ASSUME NEW c \in 1 .. Len(chs), NEW n \in 1 .. Len(chs[c].code),
             chs[c].code[n].op # "reserve"
      PROVE  after[c].code[n] = chs[c].code[n]
  <2>1. n # 1
    BY <1>3 DEF Reserved
  <2>. QED  BY <2>1 DEF Added
<1>4. Reserved(after)
  <2>. SUFFICES ASSUME NEW c \in 1 .. Len(after)
                PROVE  Len(after[c].code) # 0 /\ after[c].code[1].op = "reserve"
    BY DEF Reserved
  <2>1. CASE Len(chs) < c
    BY <2>1
  <2>2. CASE ~(Len(chs) < c)
    <3>1. c \in 1 .. Len(chs)
      BY <1>1, <2>2
    <3>2. after[c].code[1].op = chs[c].code[1].op
      BY <1>2, <3>1 DEF Added, SameMeaning
    <3>3. Len(after[c].code) # 0
      BY <1>2, <3>1, SMTT(40)
    <3>. QED  BY <3>1, <3>2, <3>3 DEF Reserved
  <2>. QED  BY <2>1, <2>2
<1>5. LoopsMeant(after, more, items)
  <2>1. ASSUME NEW n \in 1 .. Len(more), IsLoop(more[n]) PROVE LoopMeant(after, more, items, n)
    <3>1. /\ n \in 1 .. Len(frames) /\ more[n] = frames[n] /\ IsLoop(frames[n])
          /\ ChunkAt(more, n) = ChunkAt(frames, n) /\ n \in 0 .. Len(frames)
      BY <1>1, <2>1 DEF SameLoops
    <3>. DEFINE c == ChunkAt(frames, n)
                code == chs[c].code
                new == after[c].code
                frame == frames[n]
                loop == items[frame.loop.pos]
    <3>2. LoopMeant(chs, frames, items, n)
      BY <3>1 DEF LoopsMeant
    <3>3. c \in 1 .. Len(chs)
      BY <3>1 DEF ChunksOpen
    <3>. HIDE DEF c
    <3>4. Len(code) \in Nat /\ Len(new) \in Nat /\ Len(code) <= Len(new)
      BY <1>2, <3>3
    <3>5. \A k \in 1 .. Len(code) : code[k].op # "reserve" => new[k] = code[k] /\ k \in 1 .. Len(new)
      BY <1>3, <3>3, <3>4, SMTT(40)
    <3>6. /\ frame.id[1] = c /\ frame.id[2] < Len(code)
          /\ frame.out + 1 \in 1 .. Len(code) /\ code[frame.out + 1].op = "jmp_false"
          /\ \A kind \in {"break", "continue"} : \A p \in Recorded(loop, kind) :
                /\ p + 1 \in 1 .. Len(code) /\ code[p + 1].op = "jmp"
                /\ code[p + 1].flag = 0 /\ code[p + 1].home = <<kind, frame.id>>
      BY <3>2 DEF LoopMeant, c
    <3>7. frame.id[2] < Len(new)
      <4>1. frame \in LoopFrame
        BY <3>1, ElementOfSeq, FrameKinds
      <4>2. frame.id[2] \in Nat
        BY <4>1 DEF LoopFrame, Ids
      <4>. HIDE DEF frame, code, new
      <4>. QED  BY <3>4, <3>6, <4>2
    <3>8. frame.out + 1 \in 1 .. Len(new) /\ new[frame.out + 1].op = "jmp_false"
      BY <3>5, <3>6
    <3>9. \A kind \in {"break", "continue"} : \A p \in Recorded(loop, kind) :
                /\ p + 1 \in 1 .. Len(new) /\ new[p + 1].op = "jmp"
                /\ new[p + 1].flag = 0 /\ new[p + 1].home = <<kind, frame.id>>
      <4>. HIDE DEF loop, code, new, frame
      <4>. TAKE kind \in {"break", "continue"}
      <4>. TAKE p \in Recorded(loop, kind)
      <4>. DEFINE k == p + 1
      <4>1. /\ k \in 1 .. Len(code) /\ code[k].op = "jmp"
            /\ code[k].flag = 0 /\ code[k].home = <<kind, frame.id>>
        BY <3>6
      <4>. HIDE DEF k
      <4>2. new[k] = code[k] /\ k \in 1 .. Len(new)
        BY <3>5, <4>1
      <4>. QED  BY <4>1, <4>2 DEF k
    <3>10. more[n] = frame /\ ChunkAt(more, n) = c
      BY <3>1 DEF c
    <3>. HIDE DEF frame, code
    <3>. QED  BY <3>6, <3>7, <3>8, <3>9, <3>10, SMTT(40) DEF LoopMeant
  <2>2. ASSUME NEW n \in 1 .. Len(more), NEW m \in 1 .. Len(more),
               IsLoop(more[n]), IsLoop(more[m]), more[n].id = more[m].id
        PROVE  n = m
    BY <2>2 DEF LoopsMeant, SameLoops
  <2>. QED  BY <2>1, <2>2 DEF LoopsMeant
<1>6. HomesMeant(after, more, items2, ended)
  <2>. SUFFICES ASSUME NEW c \in 1 .. Len(after), NEW n \in 1 .. Len(after[c].code),
                       after[c].code[n].home # <<>>
                PROVE  /\ after[c].code[n].op = "jmp"
                       /\ \/ Waits(more, items2, c, after[c].code[n], n)
                          \/ Landed(ended, c, after[c].code[n], n)
    BY DEF HomesMeant
  <2>. SUFFICES ASSUME ~(Len(chs) < c \/ Len(chs[c].code) < n)
                PROVE  /\ after[c].code[n].op = "jmp"
                       /\ \/ Waits(more, items2, c, after[c].code[n], n)
                          \/ Landed(ended, c, after[c].code[n], n)
    BY Zenon
  <2>1. c \in 1 .. Len(chs)
    BY <1>1
  <2>2. n \in 1 .. Len(chs[c].code)
    BY <1>2, <2>1
  <2>3. chs[c].code[n].home # <<>>
    BY <2>1, <2>2 DEF Added
  <2>4. /\ chs[c].code[n].op = "jmp"
        /\ \/ Waits(frames, items, c, chs[c].code[n], n)
           \/ Landed(ended, c, chs[c].code[n], n)
    BY <2>1, <2>2, <2>3 DEF HomesMeant
  <2>5. after[c].code[n] = chs[c].code[n]
    BY <1>3, <2>1, <2>2, <2>4
  <2>6. Waits(frames, items, c, chs[c].code[n], n) => Waits(more, items2, c, chs[c].code[n], n)
    BY ZenonT(40) DEF Waits, SameLoops
  <2>. QED  BY <2>4, <2>5, <2>6
<1>. QED  BY <1>4, <1>5, <1>6

(* What is no loop opens and closes without a change to those that are.    *)
LEMMA LoopsStay ==
    ASSUME NEW frames \in Seq(FrameType), NestOK(frames)
    PROVE  /\ SameLoops(frames, frames)
           /\ \A others \in Seq(FrameType), frame \in FrameType :
                 /\ Len(others) = Len(frames) /\ Agree(frames, others, Len(frames))
                 /\ ~IsLoop(frame)
                 /\ IsRoutine(frame) =>
                       /\ frame.old = ChunkAt(frames, Len(frames))
                       /\ frame.scope.pos = ScopeAt(frames, Len(frames)) + 1
                       /\ ChunkAt(frames, Len(frames)) < frame.chunk
                 => SameLoops(frames, Append(others, frame))
           /\ frames # <<>> /\ ~IsLoop(Last(frames)) => SameLoops(frames, Front(frames))
<1>. DEFINE size == Len(frames)
<1>1. size \in Nat
  BY LenProperties
<1>2. SameLoops(frames, frames)
  BY DEF SameLoops
<1>3. ASSUME NEW others \in Seq(FrameType), NEW frame \in FrameType, Len(others) = size,
             Agree(frames, others, size), ~IsLoop(frame),
             IsRoutine(frame) => /\ frame.old = ChunkAt(frames, size)
                                 /\ frame.scope.pos = ScopeAt(frames, size) + 1
                                 /\ ChunkAt(frames, size) < frame.chunk
      PROVE  SameLoops(frames, Append(others, frame))
  <2>. DEFINE opened == Append(others, frame)
  <2>1. /\ Len(opened) = size + 1 /\ opened[size + 1] = frame
        /\ \A m \in 1 .. size : opened[m] = others[m]
        /\ \A m \in 0 .. size : ChunkAt(opened, m) = ChunkAt(frames, m)
    BY <1>3, Opens
  <2>2. \A m \in 1 .. size : IsLoop(frames[m]) \/ IsLoop(others[m]) => others[m] = frames[m]
    BY <1>3 DEF Agree, IsLoop
  <2>. HIDE DEF opened, size
  <2>3. \A m \in 1 .. size + 1 : IsLoop(opened[m]) => m \in 1 .. size
    <3>. TAKE m \in 1 .. size + 1
    <3>1. m = size + 1 \/ m \in 1 .. size
      BY <1>1
    <3>. QED  BY <1>3, <2>1, <3>1
  <2>4. \A m \in 1 .. size : m \in 1 .. size + 1 /\ m \in 0 .. size
    BY <1>1
  <2>5. ASSUME NEW m \in 1 .. Len(opened), IsLoop(opened[m])
        PROVE  m \in 1 .. size /\ opened[m] = frames[m] /\ ChunkAt(opened, m) = ChunkAt(frames, m)
    BY <2>1, <2>2, <2>3, <2>4, <2>5
  <2>6. ASSUME NEW m \in 1 .. size, IsLoop(frames[m])
        PROVE  m \in 1 .. Len(opened) /\ opened[m] = frames[m]
    BY <2>1, <2>2, <2>4, <2>6
  <2>. QED  BY <2>5, <2>6 DEF SameLoops, size, opened
<1>4. ASSUME frames # <<>>, ~IsLoop(Last(frames)) PROVE SameLoops(frames, Front(frames))
  <2>. DEFINE closed == Front(frames)
              n == size - 1
  <2>1. /\ Len(closed) = n /\ n \in Nat /\ Last(frames) = frames[n + 1]
        /\ \A m \in 1 .. n : closed[m] = frames[m]
        /\ \A m \in 0 .. n : ChunkAt(closed, m) = ChunkAt(frames, m)
    BY <1>4, Closes
  <2>2. size = n + 1
    BY <1>1
  <2>. HIDE DEF closed, n, size
  <2>3. \A m \in 1 .. n : m \in 1 .. size /\ m \in 0 .. n
    BY <2>1, <2>2
  <2>4. \A m \in 1 .. size : IsLoop(frames[m]) => m \in 1 .. n
    <3>. TAKE m \in 1 .. size
    <3>1. m = n + 1 \/ m \in 1 .. n
      BY <2>1, <2>2
    <3>. QED  BY <1>4, <2>1, <3>1
  <2>5. ASSUME NEW m \in 1 .. Len(closed), IsLoop(closed[m])
        PROVE  m \in 1 .. size /\ closed[m] = frames[m] /\ ChunkAt(closed, m) = ChunkAt(frames, m)
    BY <2>1, <2>3, <2>5
  <2>6. ASSUME NEW m \in 1 .. size, IsLoop(frames[m])
        PROVE  m \in 1 .. Len(closed) /\ closed[m] = frames[m]
    BY <2>1, <2>4, <2>6
  <2>. QED  BY <2>5, <2>6 DEF SameLoops, size, closed
<1>. QED  BY <1>2, <1>3, <1>4

(* Chunks that stay, or only one of which has more code.                   *)
LEMMA EmitAdds ==
    ASSUME ScopeTypes, Nested, NEW more \in Seq(InsType), Emit(more)
    PROVE  /\ chunks' \in Seq(ChunkType) /\ Len(chunks') = Len(chunks)
           /\ Added(chunks, chunks') /\ Recoded(chunks, chunks')
           /\ \A c \in 1 .. Len(chunks) :
                 chunks'[c].own = chunks[c].own
           /\ \A c \in 1 .. Len(chunks) : \A n \in 1 .. Len(chunks[c].code) :
                 chunks'[c].code[n] = chunks[c].code[n]
           /\ \A c \in 1 .. Len(chunks) : \A n \in 1 .. Len(chunks'[c].code) :
                 Len(chunks[c].code) < n =>
                    /\ c = chunk_idx /\ n - Len(chunks[c].code) \in 1 .. Len(more)
                    /\ chunks'[c].code[n] = more[n - Len(chunks[c].code)]
           /\ Len(chunks'[chunk_idx].code) = Here + Len(more)
           /\ \A k \in 1 .. Len(more) : chunks'[chunk_idx].code[Here + k] = more[k]
<1>. DEFINE idx == chunk_idx
            code == chunks[idx].code
            new == code \o more
<1>1. /\ idx \in 1 .. Len(chunks) /\ chunks \in Seq(ChunkType) /\ Code = code
      /\ code \in Seq(InsType) /\ Here = Len(code) /\ Len(code) \in Nat
  BY OpenIs DEF ScopeTypes
<1>2. /\ chunks' \in Seq(ChunkType) /\ Len(chunks') = Len(chunks)
      /\ chunks'[idx].code = new
      /\ chunks'[idx].argc = chunks[idx].argc
      /\ chunks'[idx].uses = chunks[idx].uses
      /\ chunks'[idx].own = chunks[idx].own
      /\ \A c \in 1 .. Len(chunks) : c # idx => chunks'[c] = chunks[c]
  BY <1>1, EmitIs
<1>. HIDE DEF code
<1>3. /\ Len(new) = Len(code) + Len(more) /\ Len(more) \in Nat
      /\ \A k \in 1 .. Len(code) : new[k] = code[k]
      /\ \A k \in 1 .. Len(more) : new[Len(code) + k] = more[k]
  BY <1>1, ConcatIs
<1>. HIDE DEF new
<1>4. \A c \in 1 .. Len(chunks) : chunks'[c].argc = chunks[c].argc
         /\ chunks'[c].uses = chunks[c].uses /\ chunks'[c].own = chunks[c].own
  BY <1>2
<1>5. ASSUME NEW c \in 1 .. Len(chunks)
      PROVE  /\ Len(chunks[c].code) <= Len(chunks'[c].code)
             /\ \A n \in 1 .. Len(chunks[c].code) : chunks'[c].code[n] = chunks[c].code[n]
             /\ \A n \in 1 .. Len(chunks'[c].code) :
                   Len(chunks[c].code) < n =>
                      /\ c = idx /\ n - Len(chunks[c].code) \in 1 .. Len(more)
                      /\ chunks'[c].code[n] = more[n - Len(chunks[c].code)]
  <2>1. CASE c = idx
    <3>1. chunks'[c].code = new /\ chunks[c].code = code
      BY <1>2, <2>1 DEF code
    <3>2. Len(code) <= Len(new)
      BY <1>1, <1>3
    <3>3. ASSUME NEW n \in 1 .. Len(new), Len(code) < n
          PROVE  n - Len(code) \in 1 .. Len(more) /\ new[n] = more[n - Len(code)]
      <4>1. n - Len(code) \in 1 .. Len(more) /\ Len(code) + (n - Len(code)) = n
        BY <1>1, <1>3, <3>3
      <4>. QED  BY <1>3, <4>1
    <3>. HIDE DEF idx
    <3>. QED  BY <1>3, <2>1, <3>1, <3>2, <3>3
  <2>2. CASE c # idx
    <3>1. chunks'[c] = chunks[c] /\ chunks[c] \in ChunkType
      BY <1>1, <1>2, <2>2, ElementOfSeq
    <3>2. Len(chunks[c].code) \in Nat
      BY <3>1, ChunkFields
    <3>. QED  BY <3>1, <3>2
  <2>. QED  BY <2>1, <2>2
<1>6. Len(chunks') \in Nat /\ Len(chunks) <= Len(chunks')
  BY <1>2, LenProperties
<1>7. Added(chunks, chunks')
  BY <1>4, <1>5, <1>6 DEF Added
<1>8. Recoded(chunks, chunks')
  BY <1>2, <1>4, <1>5 DEF Recoded, SameMeaning
<1>9. /\ Len(chunks'[chunk_idx].code) = Here + Len(more)
      /\ \A k \in 1 .. Len(more) : chunks'[chunk_idx].code[Here + k] = more[k]
  BY <1>1, <1>2, <1>3
<1>. QED  BY <1>2, <1>4, <1>5, <1>7, <1>8, <1>9

(* Every jump that has a home waits for it, or has landed.                 *)
Jumped ==
    /\ Reserved(chunks) /\ LoopsMeant(chunks, nest, loops.items)
    /\ HomesMeant(chunks, nest, loops.items, exits)

(* A step that opens or closes no loop and writes no BREAK or CONTINUE.    *)
LEMMA QuietStep ==
    ASSUME ScopeTypes, Nested, Jumped, ScopeTypes', Added(chunks, chunks'),
           SameLoops(nest, nest'), loops' = loops, exits' = exits,
           \A c \in 1 .. Len(chunks') :
               /\ Len(chunks) < c =>
                     Len(chunks'[c].code) # 0 /\ chunks'[c].code[1].op = "reserve"
               /\ \A n \in 1 .. Len(chunks'[c].code) :
                     Len(chunks) < c \/ Len(chunks[c].code) < n =>
                         chunks'[c].code[n].home = <<>>
    PROVE  Jumped'
<1>1. /\ chunks \in Seq(ChunkType) /\ chunks' \in Seq(ChunkType)
      /\ nest \in Seq(FrameType) /\ nest' \in Seq(FrameType)
  BY DEF ScopeTypes
<1>2. ChunksOpen(nest, Len(chunks))
  BY DEF Nested, Fit
<1>3. \A c \in 1 .. Len(chunks') :
          /\ Len(chunks) < c =>
                Len(chunks'[c].code) # 0 /\ chunks'[c].code[1].op = "reserve"
          /\ \A n \in 1 .. Len(chunks'[c].code) :
                Len(chunks) < c \/ Len(chunks[c].code) < n =>
                    LET ins == chunks'[c].code[n]
                    IN  ins.home # <<>> =>
                            ins.op = "jmp" /\ Waits(nest', loops.items, c, ins, n)
  BY Zenon
<1>4. /\ Reserved(chunks') /\ LoopsMeant(chunks', nest', loops.items)
      /\ HomesMeant(chunks', nest', loops.items, exits)
  BY <1>1, <1>2, <1>3, JumpsAdded, Zenon DEF Jumped
<1>. QED  BY <1>4 DEF Jumped

(* Chunks that are left alone.                                             *)
LEMMA NothingAdds ==
    ASSUME ScopeTypes, Nested, chunks' = chunks
    PROVE  /\ Added(chunks, chunks') /\ Recoded(chunks, chunks')
           /\ \A c \in 1 .. Len(chunks') :
                 /\ ~(Len(chunks) < c)
                 /\ \A n \in 1 .. Len(chunks'[c].code) : ~(Len(chunks[c].code) < n)
<1>1. chunks \in Seq(ChunkType) /\ Len(chunks) \in Nat
  BY OpenIs DEF ScopeTypes
<1>2. \A c \in 1 .. Len(chunks) : Len(chunks[c].code) \in Nat
  BY <1>1, ElementOfSeq, ChunkFields
<1>3. /\ Len(chunks) <= Len(chunks)
      /\ \A c \in 1 .. Len(chunks) :
            /\ Len(chunks[c].code) <= Len(chunks[c].code) /\ ~(Len(chunks) < c)
            /\ \A n \in 1 .. Len(chunks[c].code) : ~(Len(chunks[c].code) < n)
  BY <1>1, <1>2
<1>. QED  BY <1>3 DEF Added, Recoded, SameMeaning

(* The same of code that has no BREAK or CONTINUE in it.                   *)
LEMMA QuietEmit ==
    ASSUME ScopeTypes, Nested, Jumped, ScopeTypes', NEW more \in Seq(InsType), Emit(more),
           \A k \in 1 .. Len(more) : more[k].home = <<>>,
           SameLoops(nest, nest'), loops' = loops, exits' = exits
    PROVE  Jumped'
<1>1. Len(chunks') = Len(chunks) /\ Added(chunks, chunks') /\ Len(chunks) \in Nat
  BY EmitAdds, OpenIs
<1>2. ASSUME NEW c \in 1 .. Len(chunks'),
             NEW n \in 1 .. Len(chunks'[c].code), Len(chunks[c].code) < n
      PROVE  chunks'[c].code[n].home = <<>>
  <2>1. /\ n - Len(chunks[c].code) \in 1 .. Len(more)
        /\ chunks'[c].code[n] = more[n - Len(chunks[c].code)]
    BY <1>1, <1>2, EmitAdds
  <2>. QED  BY <2>1
<1>3. \A c \in 1 .. Len(chunks') : ~(Len(chunks) < c)
  BY <1>1
<1>. QED  BY <1>1, <1>2, <1>3, QuietStep

(* The frames of a binding.                                                *)
LEMMA BindingOpensNoLoop ==
    ASSUME ScopeTypes, Nested, NEW others \in Seq(FrameType), NEW frame \in FrameType,
           Len(others) = Len(nest), Agree(nest, others, Len(nest)), IsBinding(frame),
           nest' = Append(others, frame)
    PROVE  SameLoops(nest, nest')
<1>1. nest \in Seq(FrameType) /\ NestOK(nest)
  BY DEF ScopeTypes, Nested, Fit
<1>2. ~IsLoop(frame) /\ ~IsRoutine(frame)
  BY FrameKinds
<1>3. SameLoops(nest, Append(others, frame))
  BY <1>1, <1>2, LoopsStay
<1>. QED  BY <1>3

(* A construct that ends and is no loop closes none.                       *)
LEMMA NoLoopCloses ==
    ASSUME ScopeTypes, Nested, nest # <<>>, ~IsLoop(Frame), nest' = Front(nest)
    PROVE  SameLoops(nest, nest')
<1>1. nest \in Seq(FrameType) /\ NestOK(nest)
  BY DEF ScopeTypes, Nested, Fit
<1>. QED  BY <1>1, LoopsStay DEF Frame

(* Bindings.                                                               *)
LEMMA BindingJumps ==
    ASSUME ScopeTypes, Nested, Jumped,
           \/ \E name \in Names : BeginLet(name) \/ BeginAssign(name) \/ ReadName(name)
           \/ \E literal \in Literals : ReadConstant(literal)
           \/ StoreLet \/ StoreAssigned
    PROVE  Jumped'
<1>1. ASSUME NEW name \in Names, BeginLet(name) PROVE Jumped'
  <2>1. chunks' = chunks /\ loops' = loops /\ exits' = exits
    BY <1>1 DEF BeginLet, history_vars
  <2>2. PICK table \in TableType, frame \in FrameType :
            IsBinding(frame) /\ nest' = Append(nest, frame)
    BY <1>1, BeginLetFits
  <2>3. ScopeTypes'
    BY <1>1, BeginLetFits
  <2>4. nest \in Seq(FrameType) /\ Agree(nest, nest, Len(nest))
    BY DEF ScopeTypes, Agree
  <2>5. SameLoops(nest, nest')
    BY <2>2, <2>4, BindingOpensNoLoop
  <2>. QED  BY <2>1, <2>3, <2>5, NothingAdds, QuietStep
<1>2. ASSUME NEW name \in Names, BeginAssign(name) PROVE Jumped'
  <2>1. chunks' = chunks /\ loops' = loops /\ exits' = exits
    BY <1>2 DEF BeginAssign, history_vars
  <2>2. PICK others \in Seq(FrameType), frame \in FrameType :
            /\ Len(others) = Len(nest) /\ Agree(nest, others, Len(nest)) /\ IsBinding(frame)
            /\ nest' = Append(others, frame)
    BY <1>2, BeginAssignFits
  <2>3. ScopeTypes'
    BY <1>2, BeginAssignFits
  <2>4. SameLoops(nest, nest')
    BY <2>2, BindingOpensNoLoop
  <2>. QED  BY <2>1, <2>3, <2>4, NothingAdds, QuietStep
<1>3. SameLoops(nest, nest)
  BY LoopsStay DEF ScopeTypes, Nested, Fit
<1>4. ASSUME NEW name \in Names, ReadName(name) PROVE Jumped'
  <2>. DEFINE ins == Load(Resolve(name))
  <2>1. /\ Resolve(name) # NoSymbol /\ Emit(<<ins>>)
        /\ loops' = loops /\ nest' = nest /\ exits' = exits
    BY <1>4 DEF ReadName, stack_vars, history_vars
  <2>2. /\ Resolve(name) \in SymbolType /\ Resolve(name).name \in Names
        /\ Resolve(name).domain \in {"func", "global_var", "local", "upval"}
    BY <2>1, ResolveIs
  <2>3. ins \in InsType /\ ins.home = <<>>
    BY <2>2, LoadIs
  <2>4. ScopeTypes'
    BY <1>4, ReadNameFits
  <2>. HIDE DEF ins
  <2>5. /\ <<ins>> \in Seq(InsType) /\ \A k \in 1 .. Len(<<ins>>) : <<ins>>[k].home = <<>>
    BY <2>3, OneIs
  <2>. QED  BY <1>3, <2>1, <2>4, <2>5, QuietEmit
<1>5. ASSUME NEW literal \in Literals, ReadConstant(literal) PROVE Jumped'
  <2>. DEFINE id == Find(WithConstant(Scope, literal).infos.items, literal, "constant").id
              ins == Op("put_k", id)
  <2>1. Emit(<<ins>>) /\ loops' = loops /\ nest' = nest /\ exits' = exits
    BY <1>5 DEF ReadConstant, history_vars
  <2>2. ins \in InsType /\ id \in Nat
    BY ConstantIs
  <2>3. ins.home = <<>>
    BY DEF Op, Ins
  <2>4. ScopeTypes'
    BY <1>5, ReadConstantFits
  <2>. HIDE DEF ins
  <2>5. /\ <<ins>> \in Seq(InsType) /\ \A k \in 1 .. Len(<<ins>>) : <<ins>>[k].home = <<>>
    BY <2>2, <2>3, OneIs
  <2>. QED  BY <1>3, <2>1, <2>4, <2>5, QuietEmit
<1>6. ASSUME StoreLet PROVE Jumped'
  <2>1. PICK id \in IdsAt(locals.items[Frame.depth], Frame.symbol) :
            Emit(<<Ins(StoreOp[Frame.domain], 0, id, Frame.name)>>)
    BY <1>6 DEF StoreLet
  <2>. DEFINE ins == Ins(StoreOp[Frame.domain], 0, id, Frame.name)
  <2>2. /\ InBinding("have") /\ Frame.kind = "let" /\ nest' = Front(nest)
        /\ loops' = loops /\ exits' = exits
    BY <1>6 DEF StoreLet
  <2>3. ins \in InsType
    BY <2>1, <2>2, LetSlotIs
  <2>4. ins.home = <<>>
    BY DEF Ins
  <2>5. ScopeTypes'
    BY <1>6, StoreLetFits
  <2>6. nest # <<>>
    BY <2>2 DEF InBinding, Nested
  <2>7. SameLoops(nest, nest')
    BY <2>2, <2>6, NoLoopCloses DEF IsLoop
  <2>. HIDE DEF ins
  <2>8. /\ <<ins>> \in Seq(InsType) /\ \A k \in 1 .. Len(<<ins>>) : <<ins>>[k].home = <<>>
    BY <2>3, <2>4, OneIs
  <2>. QED  BY <2>1, <2>2, <2>5, <2>7, <2>8, QuietEmit DEF ins
<1>7. ASSUME StoreAssigned PROVE Jumped'
  <2>. DEFINE store == Ins(StoreOp[Frame.domain], 0, saved_info.id, Frame.name)
              ins == [store EXCEPT !.plain = Frame.plain]
  <2>1. /\ Emit(<<ins>>) /\ InBinding("have") /\ Frame.kind = "assign" /\ nest' = Front(nest)
        /\ loops' = loops /\ exits' = exits
    BY <1>7 DEF StoreAssigned, history_vars
  <2>2. ins \in InsType /\ ScopeTypes'
    BY <1>7, StoreAssignedFits
  <2>3. ins.home = <<>>
    BY DEF Ins
  <2>4. nest # <<>>
    BY <2>1 DEF InBinding, Nested
  <2>5. SameLoops(nest, nest')
    BY <2>1, <2>4, NoLoopCloses DEF IsLoop
  <2>. HIDE DEF ins
  <2>6. /\ <<ins>> \in Seq(InsType) /\ \A k \in 1 .. Len(<<ins>>) : <<ins>>[k].home = <<>>
    BY <2>2, <2>3, OneIs
  <2>. QED  BY <2>1, <2>2, <2>5, <2>6, QuietEmit
<1>. QED  BY <1>1, <1>2, <1>4, <1>5, <1>6, <1>7

(* The code of a routine that ends, perhaps with a nop behind it.          *)
Filled(code) ==
    /\ code \in Seq(InsType) /\ Here <= Len(code)
    /\ \A n \in 1 .. Len(code) : code[n] = IF n <= Here THEN Code[n] ELSE Op("nop", 0)

(* The code of a routine at its end is such code.                          *)
LEMMA FilledIs ==
    ASSUME ScopeTypes, Nested
    PROVE  Filled(Code) /\ Filled(Code \o Filler)
<1>1. Code \in Seq(InsType) /\ Here = Len(Code) /\ Here \in Nat
  BY OpenIs
<1>2. /\ Filler \in Seq(InsType) /\ Len(Filler) \in Nat
      /\ \A n \in 1 .. Len(Filler) : Filler[n] = Op("nop", 0)
  BY FillerIs
<1>3. Filled(Code)
  BY <1>1 DEF Filled
<1>. DEFINE code == Code \o Filler
<1>4. /\ code \in Seq(InsType) /\ Len(code) = Len(Code) + Len(Filler)
      /\ \A k \in 1 .. Len(Code) : code[k] = Code[k]
      /\ \A k \in 1 .. Len(Filler) : code[Len(Code) + k] = Filler[k]
  BY <1>1, <1>2, ConcatIs
<1>. HIDE DEF code
<1>5. ASSUME NEW n \in 1 .. Len(code)
      PROVE  code[n] = IF n <= Here THEN Code[n] ELSE Op("nop", 0)
  <2>1. CASE n <= Here
    BY <1>1, <1>4, <2>1
  <2>2. CASE ~(n <= Here)
    <3>1. n - Here \in 1 .. Len(Filler) /\ Here + (n - Here) = n
      BY <1>1, <1>2, <1>4, <2>2
    <3>2. code[n] = Filler[n - Here]
      BY <1>1, <1>4, <3>1
    <3>. QED  BY <1>2, <2>2, <3>1, <3>2
  <2>. QED  BY <2>1, <2>2
<1>6. Filled(code)
  BY <1>1, <1>2, <1>4, <1>5 DEF Filled
<1>. QED  BY <1>3, <1>6 DEF code

(* The same of the first instruction, the one that reserves the locals.    *)
LEMMA FirstPatched ==
    ASSUME NEW code \in Seq(InsType), NEW wide \in Int, NEW after,
           after = PatchedAt(code, 0, 0, wide)
    PROVE  /\ Len(after) = Len(code)
           /\ \A n \in 1 .. Len(code) :
                 /\ n # 1 => after[n] = code[n]
                 /\ n = 1 => after[n].wide = wide
                 /\ after[n] \in InsType /\ after[n].op = code[n].op
                 /\ after[n].name = code[n].name /\ after[n].home = code[n].home
                 /\ after[n].plain = code[n].plain
<1>1. 0 \in Nat /\ 0 + 1 = 1
  OBVIOUS
<1>2. /\ Len(after) = Len(code)
      /\ \A n \in 1 .. Len(code) :
            /\ n # 0 + 1 => after[n] = code[n]
            /\ n = 0 + 1 => after[n].flag = 0 /\ after[n].wide = wide
            /\ after[n] \in InsType /\ after[n].op = code[n].op
            /\ after[n].name = code[n].name /\ after[n].home = code[n].home
            /\ after[n].plain = code[n].plain
  BY <1>1, PatchedIs, SMTT(40)
<1>. QED  BY <1>1, <1>2, Zenon

(* The chunk that it is then: its RESERVE is patched, a RET is behind.     *)
LEMMA ClosedCode ==
    ASSUME ScopeTypes, Nested, Here # 0, NEW code, Filled(code), NEW size \in Int
    PROVE  LET closed == Closed(code, size)
           IN  /\ closed \in ChunkType /\ closed.argc = chunks[chunk_idx].argc
               /\ closed.uses = chunks[chunk_idx].uses /\ closed.own = NamesOf(Scope)
               /\ Here < Len(closed.code) /\ closed.code[1].wide = size
               /\ \A n \in 1 .. Here :
                     /\ n # 1 => closed.code[n] = Code[n]
                     /\ closed.code[n].op = Code[n].op /\ closed.code[n].name = Code[n].name
                     /\ closed.code[n].home = Code[n].home
                     /\ closed.code[n].plain = Code[n].plain
               /\ \A n \in 1 .. Len(closed.code) : Here < n =>
                     closed.code[n] \in {Op("nop", 0), Ins("ret", 15, 0, NoName)}
<1>. DEFINE closed == Closed(code, size)
            ret == Ins("ret", 15, 0, NoName)
            ended == code \o <<ret>>
<1>1. /\ Here \in Nat /\ code \in Seq(InsType) /\ Here <= Len(code) /\ Len(code) \in Nat
      /\ \A n \in 1 .. Len(code) : code[n] = IF n <= Here THEN Code[n] ELSE Op("nop", 0)
  BY OpenIs, LenProperties DEF Filled
<1>2. /\ closed \in ChunkType /\ closed.code = PatchedAt(ended, 0, 0, size)
      /\ ended \in Seq(InsType) /\ ret \in InsType
      /\ closed.own = NamesOf(Scope) /\ closed.argc = chunks[chunk_idx].argc
      /\ closed.uses = chunks[chunk_idx].uses
  BY <1>1, ClosedIs
<1>. HIDE DEF closed, ret
<1>3. /\ Len(ended) = Len(code) + 1 /\ ended[Len(code) + 1] = ret
      /\ \A n \in 1 .. Len(code) : ended[n] = code[n]
  <2>1. <<ret>> \in Seq(InsType) /\ Len(<<ret>>) = 1 /\ <<ret>>[1] = ret
    BY <1>2, OneIs
  <2>2. /\ Len(ended) = Len(code) + Len(<<ret>>)
        /\ \A n \in 1 .. Len(code) : ended[n] = code[n]
        /\ \A n \in 1 .. Len(<<ret>>) : ended[Len(code) + n] = <<ret>>[n]
    BY <1>1, <2>1, ConcatIs
  <2>3. 1 \in 1 .. Len(<<ret>>)
    BY <2>1
  <2>. QED  BY <2>1, <2>2, <2>3
<1>. HIDE DEF ended
<1>4. /\ Len(closed.code) = Len(ended)
      /\ \A n \in 1 .. Len(ended) :
            /\ n # 1 => closed.code[n] = ended[n]
            /\ n = 1 => closed.code[n].wide = size
            /\ closed.code[n] \in InsType /\ closed.code[n].op = ended[n].op
            /\ closed.code[n].name = ended[n].name /\ closed.code[n].home = ended[n].home
            /\ closed.code[n].plain = ended[n].plain
  <2>. DEFINE after == PatchedAt(ended, 0, 0, size)
  <2>1. Len(after) = Len(ended)
    BY <1>2, PatchedIs
  <2>2. ASSUME NEW n \in 1 .. Len(ended)
        PROVE  /\ n # 1 => after[n] = ended[n]
               /\ n = 1 => after[n].wide = size
               /\ after[n] \in InsType /\ after[n].op = ended[n].op
               /\ after[n].name = ended[n].name /\ after[n].home = ended[n].home
               /\ after[n].plain = ended[n].plain
    <3>1. ended \in Seq(InsType) /\ size \in Int
      BY <1>2
    <3>. QED  BY <2>2, <3>1, FirstPatched, SMTT(40)
  <2>3. closed.code = after
    BY <1>2
  <2>. HIDE DEF after
  <2>. QED  BY <2>1, <2>2, <2>3
<1>5. Here < Len(closed.code) /\ 1 \in 1 .. Len(ended)
  <2>1. Len(closed.code) = Len(ended)
    BY <1>4
  <2>2. Here < Len(ended) /\ 1 \in 1 .. Len(ended)
    BY <1>1, <1>3
  <2>. QED  BY <2>1, <2>2
<1>6. closed.code[1].wide = size
  BY <1>4, <1>5
<1>7. ASSUME NEW n \in 1 .. Here
      PROVE  n \in 1 .. Len(ended) /\ ended[n] = Code[n]
  <2>1. n \in 1 .. Len(code) /\ n <= Here /\ n \in 1 .. Len(ended)
    BY <1>1, <1>3
  <2>. QED  BY <1>1, <1>3, <2>1
<1>8. ASSUME NEW n \in 1 .. Len(ended), Here < n
      PROVE  n # 1 /\ ended[n] \in {Op("nop", 0), ret}
  <2>1. n # 1 /\ ~(n <= Here) /\ (n = Len(code) + 1 \/ n \in 1 .. Len(code))
    BY <1>1, <1>3, <1>8
  <2>. QED  BY <1>1, <1>3, <2>1
<1>. QED  BY <1>2, <1>4, <1>5, <1>6, <1>7, <1>8 DEF closed, ret

(* The chunks after a routine has ended, the value of a lambda in the one  *)
(* around it.                                                              *)
Ended(after, size, old, value) ==
    /\ Len(after) = Len(chunks) /\ Added(chunks, after) /\ Recoded(chunks, after)
    /\ after[chunk_idx].own = NamesOf(Scope) /\ after[chunk_idx].code[1].wide = size
    /\ \A c \in 1 .. Len(chunks) : c # chunk_idx =>
          /\ after[c].own = chunks[c].own
          /\ \A n \in 1 .. Len(chunks[c].code) : after[c].code[n] = chunks[c].code[n]
    /\ \A c \in 1 .. Len(chunks) : \A n \in 1 .. Len(after[c].code) :
          Len(chunks[c].code) < n =>
             \/ /\ c = chunk_idx
                /\ after[c].code[n] \in {Op("nop", 0), Ins("ret", 15, 0, NoName)}
             \/ /\ c # chunk_idx /\ c = old /\ after[c].code = chunks[c].code \o value
                /\ n - Len(chunks[c].code) \in 1 .. Len(value)
                /\ after[c].code[n] = value[n - Len(chunks[c].code)]

(* What a routine or the source adds when it ends.                         *)
LEMMA EndAdds ==
    ASSUME ScopeTypes, Nested, Reserved(chunks), NEW code, Filled(code), NEW size \in Int,
           NEW old, NEW value \in Seq(InsType),
           NEW after \in Seq(ChunkType), Len(after) = Len(chunks),
           after[chunk_idx] = Closed(code, size),
           \A c \in 1 .. Len(chunks) : c # chunk_idx =>
               \/ after[c] = chunks[c]
               \/ /\ c = old /\ after[c].code = chunks[c].code \o value
                  /\ after[c].argc = chunks[c].argc /\ after[c].uses = chunks[c].uses
                  /\ after[c].own = chunks[c].own
    PROVE  Ended(after, size, old, value)
<1>1. /\ chunk_idx \in 1 .. Len(chunks) /\ Code = chunks[chunk_idx].code
      /\ Here = Len(Code) /\ Here \in Nat /\ chunks \in Seq(ChunkType) /\ Len(chunks) \in Nat
  BY OpenIs DEF ScopeTypes
<1>2. Here # 0 /\ Code[1].op = "reserve"
  BY <1>1 DEF Reserved
<1>3. /\ after[chunk_idx].argc = chunks[chunk_idx].argc
      /\ after[chunk_idx].uses = chunks[chunk_idx].uses
      /\ after[chunk_idx].own = NamesOf(Scope)
      /\ Here < Len(after[chunk_idx].code) /\ after[chunk_idx].code[1].wide = size
      /\ \A n \in 1 .. Here :
            /\ n # 1 => after[chunk_idx].code[n] = Code[n]
            /\ after[chunk_idx].code[n].op = Code[n].op
            /\ after[chunk_idx].code[n].name = Code[n].name
            /\ after[chunk_idx].code[n].home = Code[n].home
            /\ after[chunk_idx].code[n].plain = Code[n].plain
      /\ \A n \in 1 .. Len(after[chunk_idx].code) : Here < n =>
            after[chunk_idx].code[n] \in {Op("nop", 0), Ins("ret", 15, 0, NoName)}
  BY <1>2, ClosedCode
<1>4. ASSUME NEW c \in 1 .. Len(chunks), c # chunk_idx
      PROVE  /\ after[c].argc = chunks[c].argc /\ after[c].uses = chunks[c].uses
             /\ after[c].own = chunks[c].own
             /\ Len(chunks[c].code) <= Len(after[c].code)
             /\ \A n \in 1 .. Len(chunks[c].code) : after[c].code[n] = chunks[c].code[n]
             /\ \A n \in 1 .. Len(after[c].code) : Len(chunks[c].code) < n =>
                   /\ c = old /\ after[c].code = chunks[c].code \o value
                   /\ n - Len(chunks[c].code) \in 1 .. Len(value)
                   /\ after[c].code[n] = value[n - Len(chunks[c].code)]
  <2>1. chunks[c].code \in Seq(InsType) /\ Len(chunks[c].code) \in Nat
    BY <1>1, ElementOfSeq, ChunkFields
  <2>2. CASE after[c] = chunks[c]
    BY <2>1, <2>2
  <2>3. CASE after[c] # chunks[c]
    <3>1. /\ c = old /\ after[c].code = chunks[c].code \o value
          /\ after[c].argc = chunks[c].argc /\ after[c].uses = chunks[c].uses
          /\ after[c].own = chunks[c].own
      BY <1>4, <2>3
    <3>. DEFINE had == chunks[c].code
                new == had \o value
    <3>2. /\ Len(new) = Len(had) + Len(value) /\ Len(value) \in Nat
          /\ \A n \in 1 .. Len(had) : new[n] = had[n]
          /\ \A n \in 1 .. Len(value) : new[Len(had) + n] = value[n]
      BY <2>1, ConcatIs
    <3>3. after[c].code = new
      BY <3>1
    <3>. HIDE DEF new
    <3>4. ASSUME NEW n \in 1 .. Len(new), Len(had) < n
          PROVE  n - Len(had) \in 1 .. Len(value) /\ new[n] = value[n - Len(had)]
      <4>1. n - Len(had) \in 1 .. Len(value) /\ Len(had) + (n - Len(had)) = n
        BY <2>1, <3>2, <3>4
      <4>. QED  BY <3>2, <4>1
    <3>5. Len(had) <= Len(new)
      BY <2>1, <3>2
    <3>. QED  BY <3>1, <3>2, <3>3, <3>4, <3>5
  <2>. QED  BY <2>2, <2>3
<1>5. Added(chunks, after)
  <2>1. Len(chunks) <= Len(after)
    BY <1>1
  <2>. SUFFICES ASSUME NEW c \in 1 .. Len(chunks)
                PROVE  /\ after[c].argc = chunks[c].argc /\ after[c].uses = chunks[c].uses
                       /\ Len(chunks[c].code) <= Len(after[c].code)
                       /\ \A n \in 1 .. Len(chunks[c].code) :
                             \/ after[c].code[n] = chunks[c].code[n]
                             \/ /\ n = 1 /\ SameMeaning(chunks[c].code[n], after[c].code[n])
                                /\ after[c].code[n].home = chunks[c].code[n].home
    BY <2>1 DEF Added
  <2>2. CASE c # chunk_idx
    BY <1>4, <2>2
  <2>3. CASE c = chunk_idx
    <3>1. Len(chunks[c].code) <= Len(after[c].code)
      <4>. HIDE DEF Here
      <4>1. Len(after[c].code) \in Nat
        BY ElementOfSeq, ChunkFields
      <4>. QED  BY <1>1, <1>3, <2>3, <4>1
    <3>2. ASSUME NEW n \in 1 .. Len(chunks[c].code), n = 1
          PROVE  SameMeaning(chunks[c].code[n], after[c].code[n])
      BY <1>1, <1>2, <1>3, <2>3, <3>2 DEF SameMeaning, Space
    <3>. QED  BY <1>1, <1>3, <2>3, <3>1, <3>2
  <2>. QED  BY <2>2, <2>3
<1>6. Recoded(chunks, after)
  BY <1>5 DEF Added, Recoded, SameMeaning
<1>7. ASSUME NEW c \in 1 .. Len(chunks), NEW n \in 1 .. Len(after[c].code),
             Len(chunks[c].code) < n
      PROVE  \/ /\ c = chunk_idx
                /\ after[c].code[n] \in {Op("nop", 0), Ins("ret", 15, 0, NoName)}
             \/ /\ c # chunk_idx /\ c = old /\ after[c].code = chunks[c].code \o value
                /\ n - Len(chunks[c].code) \in 1 .. Len(value)
                /\ after[c].code[n] = value[n - Len(chunks[c].code)]
  <2>1. CASE c = chunk_idx
    BY <1>1, <1>3, <1>7, <2>1
  <2>2. CASE c # chunk_idx
    BY <1>4, <1>7, <2>2
  <2>. QED  BY <2>1, <2>2
<1>. QED  BY <1>3, <1>4, <1>5, <1>6, <1>7 DEF Ended

(* A function or a lambda that ends.                                       *)
LEMMA RoutineEnds ==
    ASSUME ScopeTypes, Nested, Reserved(chunks), EndFunc \/ EndLambda
    PROVE  \E size \in SizesAt(Frame.scope), value \in Seq(InsType) :
              /\ Ended(chunks', size, Frame.old, value)
              /\ IF Frame.kind = "lambda" THEN value = Value(Frame) ELSE value = <<>>
<1>1. /\ nest # <<>> /\ IsRoutine(Frame) /\ chunks \in Seq(ChunkType)
      /\ chunk_idx \in 1 .. Len(chunks)
  BY OpenIs DEF EndFunc, EndLambda, IsRoutine, ScopeTypes
<1>2. /\ Frame \in RoutineFrame /\ Frame.scope.pos \in 1 .. Depth
      /\ Frame.old \in 1 .. Len(chunks)
  <2>1. Frame \in RoutineFrame /\ Frame.scope.pos = Depth /\ Frame.old \in 1 .. Len(chunks)
    BY <1>1, EndsIs
  <2>2. Depth \in Nat \ {0}
    BY OpenIs
  <2>. QED  BY <2>1, <2>2
<1>3. Filled(Code \o Filler)
  BY FilledIs
<1>4. CASE EndFunc
  <2>1. PICK size \in SizesAt(Frame.scope) :
            chunks' = [chunks EXCEPT ![chunk_idx] = Closed(Code \o Filler, size)]
    BY <1>4 DEF EndFunc
  <2>2. size \in Int
    BY <1>2, <2>1, SizesAre
  <2>. DEFINE closed == Closed(Code \o Filler, size)
  <2>3. closed \in ChunkType
    BY <2>2, FillerIs, ClosedIs
  <2>. HIDE DEF closed
  <2>4. /\ chunks' \in Seq(ChunkType) /\ Len(chunks') = Len(chunks)
        /\ chunks'[chunk_idx] = closed
        /\ \A c \in 1 .. Len(chunks) : c # chunk_idx => chunks'[c] = chunks[c]
    BY <1>1, <2>1, <2>3, SeqSet DEF closed
  <2>5. <<>> \in Seq(InsType)
    BY EmptySeq
  <2>6. Ended(chunks', size, Frame.old, <<>>)
    BY <1>3, <2>2, <2>4, <2>5, EndAdds DEF closed
  <2>7. Frame.kind # "lambda"
    BY <1>4 DEF EndFunc
  <2>. QED  BY <2>1, <2>5, <2>6, <2>7
<1>5. CASE EndLambda
  <2>1. PICK size \in SizesAt(Frame.scope) :
            LET closed == Closed(Code \o Filler, size)
            IN  /\ size \in Int /\ closed \in ChunkType
                /\ chunks' \in Seq(ChunkType) /\ Len(chunks') = Len(chunks)
                /\ chunks'[chunk_idx] = closed
                /\ chunks'[Frame.old].code = chunks[Frame.old].code \o Value(Frame)
                /\ chunks'[Frame.old].argc = chunks[Frame.old].argc
                /\ chunks'[Frame.old].uses = chunks[Frame.old].uses
                /\ chunks'[Frame.old].own = chunks[Frame.old].own
                /\ \A c \in 1 .. Len(chunks) :
                      c # chunk_idx /\ c # Frame.old => chunks'[c] = chunks[c]
    BY <1>5, EndLambdaIs
  <2>2. Value(Frame) \in Seq(InsType)
    BY <1>2, ValueIs
  <2>3. Ended(chunks', size, Frame.old, Value(Frame))
    BY <1>3, <2>1, <2>2, EndAdds
  <2>4. Frame.kind = "lambda"
    BY <1>5 DEF EndLambda
  <2>. QED  BY <2>1, <2>2, <2>3, <2>4
<1>. QED  BY <1>4, <1>5

(* The end of the source.                                                  *)
LEMMA SourceEnds ==
    ASSUME ScopeTypes, Nested, Reserved(chunks), Finish, errors = 0, nest = <<>>
    PROVE  /\ chunks' \in Seq(ChunkType)
           /\ \E size \in SizesAt(MainScope) : size \in Int /\ Ended(chunks', size, 0, <<>>)
<1>1. /\ chunks \in Seq(ChunkType) /\ chunk_idx \in 1 .. Len(chunks)
      /\ Code \in Seq(InsType) /\ Depth \in Nat \ {0}
  BY OpenIs DEF ScopeTypes
<1>2. PICK size \in SizesAt(MainScope) :
          chunks' = [chunks EXCEPT ![chunk_idx] = Closed(Code, size)]
  <2>1. ~(errors > 0)
    OBVIOUS
  <2>. QED  BY <2>1, Zenon DEF Finish
<1>3. MainScope.pos \in 1 .. Depth
  BY <1>1 DEF MainScope
<1>4. size \in Int
  BY <1>2, <1>3, SizesAre
<1>. DEFINE closed == Closed(Code, size)
<1>5. closed \in ChunkType
  BY <1>1, <1>4, ClosedIs
<1>. HIDE DEF closed
<1>6. /\ chunks' \in Seq(ChunkType) /\ Len(chunks') = Len(chunks)
      /\ chunks'[chunk_idx] = closed
      /\ \A c \in 1 .. Len(chunks) : c # chunk_idx => chunks'[c] = chunks[c]
  BY <1>1, <1>2, <1>5, SeqSet DEF closed
<1>7. <<>> \in Seq(InsType) /\ Filled(Code)
  BY EmptySeq, FilledIs
<1>8. Ended(chunks', size, 0, <<>>)
  BY <1>4, <1>6, <1>7, EndAdds DEF closed
<1>. QED  BY <1>2, <1>4, <1>6, <1>8

(* What the end of a routine adds has no home.                             *)
LEMMA ValueHasNoHome ==
    ASSUME NEW frame \in RoutineFrame, NEW k \in 1 .. Len(Value(frame))
    PROVE  Value(frame)[k].home = <<>>
<1>. DEFINE size == Len(frame.ids)
            value == Value(frame)
<1>1. /\ size \in Nat /\ Len(value) = IF size = 0 THEN 1 ELSE size + 2
      /\ value[1] = Op("load_imm_gid", frame.chunk)
      /\ \A n \in 1 .. size :
            value[1 + n] = Ins("load_local", 0, frame.ids[n], frame.captured[n])
      /\ size # 0 => value[size + 2] = Op("mk_closure", size)
  BY ValueIs
<1>. HIDE DEF value, size
<1>2. k = 1 \/ (size # 0 /\ k = size + 2) \/ (k - 1 \in 1 .. size /\ 1 + (k - 1) = k)
  BY <1>1 DEF value
<1>3. CASE k = 1
  BY <1>1, <1>3 DEF value, Op, Ins
<1>4. CASE size # 0 /\ k = size + 2
  BY <1>1, <1>4 DEF value, Op, Ins
<1>5. CASE k - 1 \in 1 .. size /\ 1 + (k - 1) = k
  <2>1. value[k] = Ins("load_local", 0, frame.ids[k - 1], frame.captured[k - 1])
    BY <1>1, <1>5
  <2>. QED  BY <2>1 DEF value, Ins
<1>. QED  BY <1>2, <1>3, <1>4, <1>5

(* Routines.                                                               *)
LEMMA RoutineJumps ==
    ASSUME ScopeTypes, Nested, Jumped,
           \/ \E params \in ParamLists, uses \in UsesLists : BeginLambda(params, uses)
           \/ \E name \in Routines, params \in ParamLists : BeginFunc(name, params)
           \/ EndFunc \/ EndLambda
    PROVE  Jumped'
<1>1. ASSUME NEW kind \in {"lambda", "func"}, NEW ids \in Seq(Nat),
             NEW params \in Seq(Names), NEW uses \in Seq(Names), Len(ids) = Len(uses),
             Enter(kind, chunk_idx, ids, params, uses),
             kind = "lambda" => nest # <<>> /\ IsBinding(Frame),
             ScopeTypes', loops' = loops, exits' = exits
      PROVE  Jumped'
  <2>. DEFINE table == WithCaptures(WithParams(params), uses)
              frame == [kind |-> kind, old |-> chunk_idx, captured |-> uses, ids |-> ids,
                        chunk |-> Len(chunks) + 1, body |-> 1,
                        scope |-> Address(AnyVecPushed(locals, table), Depth + 1)]
  <2>1. /\ chunks' \in Seq(ChunkType) /\ Len(chunks') = Len(chunks) + 1
        /\ chunks'[Len(chunks) + 1] = NewChunk(table, uses)
        /\ \A c \in 1 .. Len(chunks) : chunks'[c] = chunks[c]
        /\ nest' = Append(nest, frame) /\ frame \in FrameType /\ IsRoutine(frame)
    BY <1>1, EnterFits
  <2>2. /\ chunks \in Seq(ChunkType) /\ Len(chunks) \in Nat /\ Depth \in Nat
        /\ nest \in Seq(FrameType)
    BY OpenIs DEF ScopeTypes
  <2>3. /\ frame.old = ChunkAt(nest, Len(nest)) /\ frame.scope.pos = ScopeAt(nest, Len(nest)) + 1
        /\ ChunkAt(nest, Len(nest)) < frame.chunk
    <3>1. /\ chunk_idx = ChunkAt(nest, Len(nest)) /\ Depth = ScopeAt(nest, Len(nest))
          /\ chunk_idx \in 1 .. Len(chunks)
      BY OpenIs DEF Nested, Fit, Depth
    <3>. HIDE DEF table
    <3>2. frame.old = chunk_idx /\ frame.chunk = Len(chunks) + 1 /\ frame.scope.pos = Depth + 1
      BY DEF Address
    <3>. HIDE DEF frame
    <3>. QED  BY <2>2, <3>1, <3>2
  <2>. HIDE DEF frame
  <2>4. SameLoops(nest, nest')
    <3>1. /\ NestOK(nest) /\ Agree(nest, nest, Len(nest)) /\ ~IsLoop(frame)
      BY <2>1, FrameKinds DEF Nested, Fit, Agree
    <3>. QED  BY <2>1, <2>2, <2>3, <3>1, LoopsStay
  <2>5. Added(chunks, chunks')
    <3>1. \A c \in 1 .. Len(chunks) : Len(chunks[c].code) \in Nat
      BY <2>2, ElementOfSeq, ChunkFields
    <3>2. Len(chunks) <= Len(chunks')
      BY <2>1, <2>2
    <3>3. \A c \in 1 .. Len(chunks) : Len(chunks[c].code) <= Len(chunks'[c].code)
      BY <2>1, <3>1
    <3>. QED  BY <2>1, <3>2, <3>3 DEF Added
  <2>6. ASSUME NEW c \in 1 .. Len(chunks'), Len(chunks) < c
        PROVE  /\ Len(chunks'[c].code) # 0 /\ chunks'[c].code[1].op = "reserve"
               /\ \A n \in 1 .. Len(chunks'[c].code) : chunks'[c].code[n].home = <<>>
    <3>1. c = Len(chunks) + 1
      BY <2>1, <2>2, <2>6
    <3>. DEFINE ins == Op("reserve", 0)
    <3>2. chunks'[c].code = <<ins>>
      BY <2>1, <3>1 DEF NewChunk
    <3>3. ins.op = "reserve" /\ ins.home = <<>>
      BY DEF Op, Ins
    <3>. HIDE DEF ins
    <3>. QED  BY <3>2, <3>3
  <2>7. ASSUME NEW c \in 1 .. Len(chunks'), NEW n \in 1 .. Len(chunks'[c].code),
               ~(Len(chunks) < c)
        PROVE  ~(Len(chunks[c].code) < n)
    <3>1. c \in 1 .. Len(chunks)
      BY <2>1, <2>2, <2>7
    <3>2. chunks'[c] = chunks[c] /\ Len(chunks[c].code) \in Nat
      BY <2>1, <2>2, <3>1, ElementOfSeq, ChunkFields
    <3>. QED  BY <3>2
  <2>. QED  BY <1>1, <2>4, <2>5, <2>6, <2>7, QuietStep
<1>2. ASSUME NEW params \in ParamLists, NEW uses \in UsesLists, BeginLambda(params, uses)
      PROVE  Jumped'
  <2>. DEFINE ids == [n \in DOMAIN uses |-> IdsOf(uses)[n].id]
  <2>1. /\ Enter("lambda", chunk_idx, ids, params, uses) /\ expr = "want"
        /\ \A n \in DOMAIN uses : IdsOf(uses)[n] # NoSymbol
        /\ loops' = loops /\ exits' = exits
    BY <1>2 DEF BeginLambda, InBinding, history_vars
  <2>2. params \in Seq(Names) /\ uses \in Seq(Names)
    BY ScopesAssumption
  <2>3. ids \in Seq(Nat) /\ Len(ids) = Len(uses)
    BY <2>1, <2>2, IdsOfIs
  <2>4. nest # <<>> /\ IsBinding(Frame) /\ ScopeTypes'
    BY <1>2, <2>1, BeginLambdaFits DEF Nested
  <2>. HIDE DEF ids
  <2>. QED  BY <1>1, <2>1, <2>2, <2>3, <2>4
<1>3. ASSUME NEW name \in Routines, NEW params \in ParamLists, BeginFunc(name, params)
      PROVE  Jumped'
  <2>1. Enter("func", chunk_idx, <<>>, params, <<>>) /\ ScopeTypes'
    BY <1>3, BeginFuncFits
  <2>2. loops' = loops /\ exits' = exits
    BY <1>3 DEF BeginFunc, history_vars
  <2>3. params \in Seq(Names) /\ <<>> \in Seq(Nat) /\ <<>> \in Seq(Names)
    BY ScopesAssumption, EmptySeq
  <2>. QED  BY <1>1, <2>1, <2>2, <2>3
<1>4. CASE EndFunc \/ EndLambda
  <2>1. PICK size \in SizesAt(Frame.scope), value \in Seq(InsType) :
            /\ Ended(chunks', size, Frame.old, value)
            /\ IF Frame.kind = "lambda" THEN value = Value(Frame) ELSE value = <<>>
    BY <1>4, RoutineEnds DEF Jumped
  <2>2. /\ nest # <<>> /\ IsRoutine(Frame) /\ nest' = Front(nest) /\ loops' = loops
        /\ exits' = exits
    BY <1>4 DEF EndFunc, EndLambda, IsRoutine
  <2>3. ScopeTypes'
    BY <1>4, EndFuncFits, EndLambdaFits
  <2>4. SameLoops(nest, nest')
    BY <2>2, NoLoopCloses DEF IsLoop, IsRoutine
  <2>5. ASSUME NEW k \in 1 .. Len(value) PROVE value[k].home = <<>>
    <3>1. Frame.kind = "lambda"
      BY <2>1, <2>5
    <3>2. Frame \in RoutineFrame
      BY <2>2, EndsIs
    <3>. QED  BY <2>1, <2>5, <3>1, <3>2, ValueHasNoHome
  <2>6. Op("nop", 0).home = <<>> /\ Ins("ret", 15, 0, NoName).home = <<>>
    BY DEF Op, Ins
  <2>7. Len(chunks') = Len(chunks) /\ Len(chunks) \in Nat
    BY <2>1, OpenIs DEF Ended
  <2>8. ASSUME NEW c \in 1 .. Len(chunks'), NEW n \in 1 .. Len(chunks'[c].code),
               Len(chunks[c].code) < n
        PROVE  chunks'[c].code[n].home = <<>>
    <3>1. \/ chunks'[c].code[n] \in {Op("nop", 0), Ins("ret", 15, 0, NoName)}
          \/ /\ n - Len(chunks[c].code) \in 1 .. Len(value)
             /\ chunks'[c].code[n] = value[n - Len(chunks[c].code)]
      BY <2>1, <2>7, <2>8 DEF Ended
    <3>. QED  BY <2>5, <2>6, <3>1
  <2>9. \A c \in 1 .. Len(chunks') : ~(Len(chunks) < c)
    BY <2>7
  <2>10. Added(chunks, chunks')
    BY <2>1 DEF Ended
  <2>. QED  BY <2>2, <2>3, <2>4, <2>8, <2>9, <2>10, QuietStep
<1>. QED  BY <1>2, <1>3, <1>4

(* A loop inside another is active behind it.                              *)
LEMMA LoopPlaces ==
    ASSUME ScopeTypes, Nested
    PROVE  \A m \in 1 .. Len(nest) : IsLoop(nest[m]) =>
              /\ nest[m] \in LoopFrame /\ nest[m].loop.pos \in 1 .. Len(loops.items)
              /\ m = LoopIn(nest, Len(nest)) => nest[m].loop.pos = Len(loops.items)
              /\ \A k \in 1 .. Len(nest) : IsLoop(nest[k]) /\ m < k =>
                    nest[m].loop.pos < nest[k].loop.pos
<1>1. /\ nest \in Seq(FrameType) /\ NestOK(nest) /\ Len(nest) \in Nat
      /\ Len(loops.items) = PlaceAt(nest, Len(nest)) /\ Len(loops.items) \in Nat
  BY OpenIs DEF ScopeTypes, Nested, Fit
<1>2. ASSUME NEW m \in 1 .. Len(nest), IsLoop(nest[m])
      PROVE  /\ nest[m] \in LoopFrame /\ m \in 0 .. Len(nest) /\ m - 1 \in 0 .. Len(nest)
             /\ nest[m].loop.pos = PlaceAt(nest, m - 1) + 1
             /\ nest[m].loop.pos = PlaceAt(nest, m) /\ PlaceAt(nest, m - 1) \in Nat
             /\ \A k \in m .. Len(nest) :
                   PlaceAt(nest, k) \in Nat /\ PlaceAt(nest, m) <= PlaceAt(nest, k)
  <2>1. m \in Nat \ {0} /\ m \in 0 .. Len(nest) /\ m - 1 \in 0 .. Len(nest)
    BY <1>1
  <2>2. nest[m] \in LoopFrame /\ nest[m].loop.pos = PlaceAt(nest, m - 1) + 1
    BY <1>1, <1>2, ElementOfSeq, FrameKinds DEF NestOK, FrameNested
  <2>3. nest[m].loop.pos = PlaceAt(nest, m)
    BY <1>2, <2>1, PlacesStep
  <2>4. \A k \in 0 .. Len(nest) :
            PlaceAt(nest, k) \in Nat /\ \A l \in 0 .. k : PlaceAt(nest, l) <= PlaceAt(nest, k)
    BY <1>1, Ordered
  <2>5. \A k \in m .. Len(nest) : k \in 0 .. Len(nest) /\ m \in 0 .. k
    BY <1>1
  <2>. QED  BY <2>1, <2>2, <2>3, <2>4, <2>5
<1>. TAKE m \in 1 .. Len(nest)
<1>. HAVE IsLoop(nest[m])
<1>3. nest[m].loop.pos \in 1 .. Len(loops.items)
  <2>. DEFINE low == PlaceAt(nest, m - 1)
              pos == nest[m].loop.pos
              size == Len(loops.items)
  <2>1. low \in Nat /\ pos = low + 1 /\ size \in Nat
    BY <1>1, <1>2
  <2>2. pos <= size
    <3>1. Len(nest) \in m .. Len(nest)
      BY <1>1
    <3>. QED  BY <1>1, <1>2, <3>1
  <2>. HIDE DEF low, pos, size
  <2>3. pos \in 1 .. size
    BY <2>1, <2>2
  <2>. QED  BY <2>3 DEF pos, size
<1>4. ASSUME m = LoopIn(nest, Len(nest)) PROVE nest[m].loop.pos = Len(loops.items)
  <2>1. m # 0
    BY <1>1
  <2>. QED  BY <1>1, <1>4, <2>1 DEF PlaceAt
<1>5. ASSUME NEW k \in 1 .. Len(nest), IsLoop(nest[k]), m < k
      PROVE  nest[m].loop.pos < nest[k].loop.pos
  <2>1. k - 1 \in m .. Len(nest)
    BY <1>1, <1>5
  <2>2. /\ nest[m].loop.pos = PlaceAt(nest, m) /\ PlaceAt(nest, m) <= PlaceAt(nest, k - 1)
        /\ nest[m].loop.pos \in Nat
    BY <1>1, <1>2, <1>3, <2>1
  <2>3. PlaceAt(nest, k - 1) \in Nat /\ nest[k].loop.pos = PlaceAt(nest, k - 1) + 1
    BY <1>2, <1>5
  <2>. QED  BY <2>2, <2>3
<1>. QED  BY <1>2, <1>3, <1>4, <1>5

(* The code of chunks to which an emission has added.                      *)
LEMMA EmitKeepsJumps ==
    ASSUME ScopeTypes, Nested, Jumped, NEW more \in Seq(InsType), Emit(more), NEW items,
           \A m \in 1 .. Len(nest) : IsLoop(nest[m]) => \A kind :
               Recorded(loops.items[nest[m].loop.pos], kind)
                   \subseteq Recorded(items[nest[m].loop.pos], kind),
           \A k \in 1 .. Len(more) : more[k].home # <<>> =>
               more[k].op = "jmp" /\ Waits(nest, items, chunk_idx, more[k], Here + k)
    PROVE  /\ Reserved(chunks') /\ LoopsMeant(chunks', nest, loops.items)
           /\ HomesMeant(chunks', nest, items, exits)
<1>1. /\ chunks' \in Seq(ChunkType) /\ Len(chunks') = Len(chunks) /\ Len(chunks) \in Nat
      /\ Added(chunks, chunks') /\ chunk_idx \in 1 .. Len(chunks)
      /\ Here = Len(chunks[chunk_idx].code) /\ Here \in Nat
      /\ chunks \in Seq(ChunkType) /\ nest \in Seq(FrameType)
  BY EmitAdds, OpenIs DEF ScopeTypes
<1>2. SameLoops(nest, nest) /\ ChunksOpen(nest, Len(chunks))
  BY <1>1, LoopsStay DEF Nested, Fit
<1>3. \A c \in 1 .. Len(chunks') : ~(Len(chunks) < c)
  BY <1>1
<1>4. ASSUME NEW c \in 1 .. Len(chunks'), NEW n \in 1 .. Len(chunks'[c].code),
             Len(chunks) < c \/ Len(chunks[c].code) < n, chunks'[c].code[n].home # <<>>
      PROVE  chunks'[c].code[n].op = "jmp" /\ Waits(nest, items, c, chunks'[c].code[n], n)
  <2>1. c \in 1 .. Len(chunks) /\ Len(chunks[c].code) < n
    BY <1>1, <1>3, <1>4
  <2>. DEFINE k == n - Here
  <2>2. c = chunk_idx /\ k \in 1 .. Len(more) /\ chunks'[c].code[n] = more[k]
    BY <1>1, <2>1, EmitAdds, SMTT(40)
  <2>3. Here + k = n
    <3>1. Len(chunks'[c].code) \in Nat
      BY <1>1, ElementOfSeq, ChunkFields
    <3>. QED  BY <1>1, <3>1
  <2>. HIDE DEF k
  <2>. QED  BY <1>4, <2>2, <2>3
<1>5. \A c \in 1 .. Len(chunks') :
          /\ Len(chunks) < c =>
                Len(chunks'[c].code) # 0 /\ chunks'[c].code[1].op = "reserve"
          /\ \A n \in 1 .. Len(chunks'[c].code) :
                Len(chunks) < c \/ Len(chunks[c].code) < n =>
                    LET ins == chunks'[c].code[n]
                    IN  ins.home # <<>> =>
                            ins.op = "jmp" /\ Waits(nest, items, c, ins, n)
  BY <1>3, <1>4, Zenon
<1>. QED  BY <1>1, <1>2, <1>5, JumpsAdded, Zenon DEF Jumped

(* A loop begins.                                                          *)
LEMMA LoopOpens ==
    ASSUME ScopeTypes, Nested, Jumped, NEW more \in Seq(InsType), Emit(more),
           \A k \in 1 .. Len(more) : more[k].home = <<>>,
           NEW around \in Seq(FrameType), Len(around) = Len(nest),
           Agree(nest, around, Len(nest)),
           NEW frame \in LoopFrame, IsLoop(frame), nest' = Append(around, frame),
           frame.id = <<chunk_idx, Here>>, frame.loop.pos = Len(loops.items) + 1,
           loops'.items = Append(loops.items, NewLoop), exits' = exits,
           NEW test \in 1 .. Len(more), more[test].op = "jmp_false",
           frame.out + 1 = Here + test
    PROVE  Jumped'
<1>. DEFINE items == loops.items
            size == Len(nest)
            opened == Append(around, frame)
            after == Append(items, NewLoop)
<1>1. /\ items \in Seq(LoopType) /\ Len(items) \in Nat /\ Here \in Nat
      /\ chunk_idx \in 1 .. Len(chunks) /\ Here = Len(chunks[chunk_idx].code)
      /\ nest \in Seq(FrameType) /\ size \in Nat /\ NestOK(nest)
      /\ Len(items) = PlaceAt(nest, size) /\ chunk_idx = ChunkAt(nest, size)
  BY OpenIs DEF ScopeTypes, Nested, Fit
<1>2. /\ Reserved(chunks') /\ LoopsMeant(chunks', nest, items)
      /\ HomesMeant(chunks', nest, items, exits)
  BY EmitKeepsJumps
<1>3. /\ opened \in Seq(FrameType) /\ Len(opened) = size + 1 /\ opened[size + 1] = frame
      /\ \A m \in 1 .. size :
            IsLoop(opened[m]) \/ IsLoop(nest[m]) => opened[m] = nest[m]
      /\ \A m \in 0 .. size : ChunkAt(opened, m) = ChunkAt(nest, m)
      /\ ChunkAt(opened, size + 1) = ChunkAt(nest, size)
  <2>1. frame \in FrameType /\ ~IsRoutine(frame)
    BY FrameKinds DEF FrameType, IsRoutine, IsLoop
  <2>. HIDE DEF items
  <2>2. /\ opened \in Seq(FrameType) /\ Len(opened) = size + 1 /\ opened[size + 1] = frame
        /\ \A m \in 1 .. size : opened[m] = around[m]
        /\ \A m \in 0 .. size : ChunkAt(opened, m) = ChunkAt(nest, m)
        /\ ChunkAt(opened, size + 1) = ChunkAt(nest, size)
    BY <1>1, <2>1, Opens, SMTT(60) DEF items
  <2>3. \A m \in 1 .. size : IsLoop(around[m]) \/ IsLoop(nest[m]) => around[m] = nest[m]
    BY DEF Agree, IsLoop
  <2>. QED  BY <2>2, <2>3
<1>4. NewLoop \in LoopType
  BY DEF NewLoop, LoopType
<1>5. /\ after[Len(items) + 1] = NewLoop
      /\ \A p \in 1 .. Len(items) : after[p] = items[p]
  BY <1>1, <1>4, AppendIs, SMTT(40)
<1>. HIDE DEF opened, after
<1>6. \A m \in 1 .. size : IsLoop(nest[m]) =>
          after[nest[m].loop.pos] = items[nest[m].loop.pos]
  BY <1>5, LoopPlaces
<1>7. Len(chunks'[chunk_idx].code) = Here + Len(more)
      /\ chunks'[chunk_idx].code[Here + test] = more[test]
  BY EmitAdds
<1>8. \A m \in 1 .. size + 1 : m = size + 1 \/ m \in 1 .. size
  BY <1>1, SMTT(40)
<1>9. \A m \in 1 .. size : m \in 1 .. size + 1 /\ m \in 0 .. size
  BY <1>1
<1>10. LoopMeant(chunks', opened, after, size + 1)
  <2>1. /\ frame.id[1] = chunk_idx /\ frame.id[2] = Here
    OBVIOUS
  <2>2. Here < Len(chunks'[chunk_idx].code) /\ Here + test \in 1 .. Len(chunks'[chunk_idx].code)
    BY <1>1, <1>7, LenProperties, SMTT(60)
  <2>3. chunks'[chunk_idx].code[Here + test].op = "jmp_false"
    BY <1>7
  <2>4. \A kind \in {"break", "continue"} : Recorded(after[frame.loop.pos], kind) = {}
    BY <1>5 DEF Recorded, NewLoop
  <2>5. ChunkAt(opened, size + 1) = chunk_idx /\ opened[size + 1] = frame
    BY <1>1, <1>3
  <2>. QED  BY <2>1, <2>2, <2>3, <2>4, <2>5 DEF LoopMeant
<1>11. ASSUME NEW m \in 1 .. size, IsLoop(nest[m]) PROVE LoopMeant(chunks', opened, after, m)
  <2>1. LoopMeant(chunks', nest, items, m)
    BY <1>2, <1>11 DEF LoopsMeant
  <2>2. /\ opened[m] = nest[m] /\ ChunkAt(opened, m) = ChunkAt(nest, m)
        /\ after[nest[m].loop.pos] = items[nest[m].loop.pos]
    BY <1>3, <1>6, <1>9, <1>11, SMTT(60)
  <2>. QED  BY <2>1, <2>2, ZenonT(60) DEF LoopMeant
<1>12. ASSUME NEW m \in 1 .. size, IsLoop(nest[m]) PROVE nest[m].id # frame.id
  <2>1. LoopMeant(chunks, nest, items, m)
    BY <1>12 DEF Jumped, LoopsMeant
  <2>2. nest[m].id[1] = ChunkAt(nest, m) /\ nest[m].id[2] < Len(chunks[ChunkAt(nest, m)].code)
    BY <2>1 DEF LoopMeant
  <2>3. SUFFICES ASSUME nest[m].id = frame.id PROVE FALSE
    OBVIOUS
  <2>4. nest[m].id[1] = chunk_idx /\ nest[m].id[2] = Here
    BY <2>3
  <2>5. Here < Len(chunks[chunk_idx].code)
    BY <2>2, <2>4
  <2>. QED  BY <1>1, <2>5
<1>13. LoopsMeant(chunks', opened, after)
  <2>1. ASSUME NEW m \in 1 .. size + 1, IsLoop(opened[m]) PROVE LoopMeant(chunks', opened, after, m)
    BY <1>3, <1>8, <1>10, <1>11, <2>1
  <2>2. ASSUME NEW m \in 1 .. size + 1, NEW k \in 1 .. size + 1,
               IsLoop(opened[m]), IsLoop(opened[k]), opened[m].id = opened[k].id
        PROVE  m = k
    <3>1. \A i, j \in 1 .. size : IsLoop(nest[i]) /\ IsLoop(nest[j]) /\ nest[i].id = nest[j].id
                                     => i = j
      BY <1>2 DEF LoopsMeant
    <3>2. CASE m \in 1 .. size /\ k \in 1 .. size
      BY <1>3, <2>2, <3>1, <3>2
    <3>3. CASE m = size + 1 /\ k \in 1 .. size
      BY <1>3, <1>12, <2>2, <3>3
    <3>4. CASE k = size + 1 /\ m \in 1 .. size
      BY <1>3, <1>12, <2>2, <3>4
    <3>. QED  BY <1>8, <3>2, <3>3, <3>4
  <2>. QED  BY <1>3, <2>1, <2>2 DEF LoopsMeant
<1>14. HomesMeant(chunks', opened, after, exits)
  <2>. SUFFICES ASSUME NEW c \in 1 .. Len(chunks'), NEW n \in 1 .. Len(chunks'[c].code),
                       NEW ins, ins = chunks'[c].code[n], Waits(nest, items, c, ins, n)
                PROVE  Waits(opened, after, c, ins, n)
    BY <1>2, Zenon DEF HomesMeant
  <2>. PICK m \in 1 .. size :
            /\ IsLoop(nest[m]) /\ nest[m].id = ins.home[2] /\ ChunkAt(nest, m) = c
            /\ n - 1 \in Recorded(items[nest[m].loop.pos], ins.home[1])
    BY DEF Waits
  <2>1. /\ m \in 1 .. Len(opened) /\ opened[m] = nest[m]
        /\ ChunkAt(opened, m) = ChunkAt(nest, m)
        /\ after[nest[m].loop.pos] = items[nest[m].loop.pos]
    BY <1>3, <1>6, <1>9
  <2>. QED  BY <2>1 DEF Waits
<1>. QED  BY <1>2, <1>13, <1>14 DEF Jumped, opened, after, items

(* WHILE and FOR.                                                          *)
LEMMA LoopBegins ==
    ASSUME ScopeTypes, Nested, Jumped,
           BeginWhile \/ \E name \in Names, literal \in Literals : BeginFor(name, literal)
    PROVE  Jumped'
<1>1. Here \in Nat /\ locals.items \in Seq(TableType)
  BY OpenIs
<1>2. CASE BeginWhile
  <2>. DEFINE test == Op("put_bool", 0)
              jump == Op("jmp_false", 0)
              code == <<test, jump>>
  <2>1. /\ EnterLoop(nest, "while", Here + 1, Here, Here + 2) /\ Emit(code) /\ exits' = exits
    BY <1>2 DEF BeginWhile, history_vars
  <2>2. test \in InsType /\ jump \in InsType
    BY DEF Op, Ins, InsType, Ops
  <2>3. test.home = <<>> /\ jump.home = <<>> /\ jump.op = "jmp_false"
    BY DEF Op, Ins
  <2>. HIDE DEF test, jump
  <2>4. /\ code \in Seq(InsType) /\ Len(code) = 2 /\ code[2].op = "jmp_false"
        /\ \A k \in 1 .. Len(code) : code[k].home = <<>>
    BY <2>2, <2>3
  <2>. HIDE DEF code
  <2>5. Here + 1 \in Nat /\ Here + 2 \in Nat /\ Here + 1 + 1 = Here + 2 /\ 2 \in 1 .. Len(code)
    BY <1>1, <2>4
  <2>6. /\ Fit(nest, Len(chunks), chunk_idx, locals.items, Len(loops.items))
        /\ nest \in Seq(FrameType) /\ Agree(nest, nest, Len(nest))
    BY DEF Nested, ScopeTypes, Agree
  <2>7. LET frame == Last(nest')
        IN  /\ loops'.items = Append(loops.items, NewLoop) /\ nest' = Append(nest, frame)
            /\ frame \in LoopFrame /\ IsLoop(frame) /\ frame.out = Here + 1
            /\ frame.id = <<chunk_idx, Here>> /\ frame.loop.pos = Len(loops.items) + 1
    <3>1. LoopEntered(nest, "while", Here + 1, Here, locals.items, Last(nest'))
      BY <1>1, <2>1, <2>5, <2>6, EnterLoopFits
    <3>. QED  BY <3>1 DEF LoopEntered
  <2>. QED  BY <2>1, <2>4, <2>5, <2>6, <2>7, LoopOpens
<1>3. ASSUME NEW name \in Names, NEW literal \in Literals, BeginFor(name, literal)
      PROVE  Jumped'
  <2>. DEFINE table == WithConstant(Scope, literal)
              k == Find(table.infos.items, literal, "constant").id
              counter == Address(Scope.infos, PositionOf(Scope, name, "local"))
              now == Resolve(name).id
              code(id) == <<Op("put_k", k), Ins("store_local", 0, id, name)>>
                              \o ForCode(k, now, name)
  <2>1. /\ Resolve(name).domain = "local" /\ Scoped(table) /\ exits' = exits
        /\ EnterLoop(Overwritten, "for", Here + 2 + 1, Here + 2 + 3, Here + 2 + 7)
    BY <1>3 DEF BeginFor
  <2>2. PICK id \in IdsAt(table, counter) : Emit(code(id))
    BY <1>3 DEF BeginFor
  <2>3. id \in Nat /\ now \in Nat
    <3>1. Resolve(name) # NoSymbol
      BY <2>1 DEF NoSymbol
    <3>2. Resolve(name) \in SymbolType
      BY <3>1, ResolveIs
    <3>. QED  BY <2>1, <2>2, <3>2, CounterIs DEF SymbolType
  <2>4. table \in TableType /\ Extends(Scope, table) /\ k \in Nat
    BY ConstantIs
  <2>. HIDE DEF table, k, now
  <2>. DEFINE more == code(id)
  <2>5. /\ more \in Seq(InsType) /\ Len(more) = 9
        /\ more[1] = Op("put_k", k) /\ more[2] = Ins("store_local", 0, id, name)
        /\ more[3] = Op("put_bool", 0) /\ more[4] = Op("jmp_false", 0)
        /\ more[5] = Op("jmp", 5) /\ more[6] = Op("nop", 0) /\ more[7] = Op("put_k", k)
        /\ more[8] = Ins("store_local", 0, now, name) /\ more[9] = Ins("jmp", 1, 6, NoName)
    <3>1. more = WholeFor(k, id, now, name)
      BY DEF WholeFor
    <3>. HIDE DEF more
    <3>2. ForIs(more, k, id, now, name)
      BY <2>3, <2>4, <3>1, ForCodeIs
    <3>. QED  BY <3>2 DEF ForIs
  <2>6. Emit(more)
    BY <2>2
  <2>. HIDE DEF more
  <2>7. more[4].op = "jmp_false"
    BY <2>5 DEF Op, Ins
  <2>8. ASSUME NEW n \in 1 .. Len(more) PROVE more[n].home = <<>>
    <3>1. n \in {1, 2, 3, 4, 5, 6, 7, 8, 9}
      BY <2>5
    <3>2. \A i \in {1, 2, 3, 4, 5, 6, 7, 8, 9} : more[i].home = <<>>
      BY <2>5 DEF Op, Ins
    <3>. QED  BY <3>1, <3>2
  <2>9. /\ locals' \in VecOf(TableType)
        /\ Fit(nest, Len(chunks), chunk_idx, locals'.items, Len(loops.items))
    BY <2>1, <2>4, ScopedIs
  <2>10. /\ Here + 2 + 1 \in Nat /\ Here + 2 + 3 \in Nat /\ Here + 2 + 7 \in Nat
         /\ Here + 2 + 1 + 1 = Here + 4 /\ 4 \in 1 .. Len(more)
    BY <1>1, <2>5
  <2>11. locals'.items \in Seq(TableType)
    BY <2>9 DEF VecOf
  <2>12. LET frame == Last(nest')
         IN  /\ loops'.items = Append(loops.items, NewLoop) /\ nest' = Append(Overwritten, frame)
             /\ frame \in LoopFrame /\ IsLoop(frame) /\ frame.out = Here + 2 + 1
             /\ frame.id = <<chunk_idx, Here>> /\ frame.loop.pos = Len(loops.items) + 1
    <3>1. LoopEntered(Overwritten, "for", Here + 2 + 1, Here + 2 + 3, locals'.items,
                      Last(nest'))
      BY <2>1, <2>9, <2>10, <2>11, OverwrittenIs, EnterLoopFits
    <3>. QED  BY <3>1 DEF LoopEntered
  <2>. QED  BY <2>1, <2>5, <2>6, <2>7, <2>8, <2>10, <2>12, OverwrittenIs, LoopOpens
<1>. QED  BY <1>2, <1>3

(* Between a routine's beginning and here, code goes to the same chunk.    *)
LEMMA SameChunk ==
    ASSUME NEW frames, NEW n \in Nat, NEW m \in 0 .. n, LevelIn(frames, n) <= m
    PROVE  ChunkAt(frames, m) = ChunkAt(frames, n)
<1>1. m \in Nat /\ \A k \in 1 .. m : k \in 1 .. n
  OBVIOUS
<1>2. /\ \/ RoutinesIn(frames, n) = {} /\ LevelIn(frames, n) = 0
         \/ /\ LevelIn(frames, n) \in RoutinesIn(frames, n) /\ LevelIn(frames, n) \in 1 .. n
            /\ \A k \in RoutinesIn(frames, n) : k <= LevelIn(frames, n)
      /\ \/ RoutinesIn(frames, m) = {} /\ LevelIn(frames, m) = 0
         \/ /\ LevelIn(frames, m) \in RoutinesIn(frames, m) /\ LevelIn(frames, m) \in 1 .. m
            /\ \A k \in RoutinesIn(frames, m) : k <= LevelIn(frames, m)
  BY <1>1, LevelIs
<1>3. /\ RoutinesIn(frames, m) \subseteq RoutinesIn(frames, n)
      /\ \A k \in RoutinesIn(frames, n) : k <= m => k \in RoutinesIn(frames, m)
  BY <1>1 DEF RoutinesIn
<1>4. LevelIn(frames, m) = LevelIn(frames, n)
  <2>. DEFINE high == LevelIn(frames, n)
              low == LevelIn(frames, m)
  <2>1. CASE RoutinesIn(frames, n) = {}
    BY <1>2, <1>3, <2>1
  <2>2. CASE RoutinesIn(frames, n) # {}
    <3>1. high \in RoutinesIn(frames, n) /\ high \in 1 .. n
      BY <1>2, <2>2
    <3>2. high \in RoutinesIn(frames, m)
      BY <1>3, <3>1
    <3>3. low \in RoutinesIn(frames, m) /\ low \in 1 .. m /\ high <= low
      BY <1>2, <3>2
    <3>4. low <= high
      BY <1>2, <1>3, <2>2, <3>3
    <3>. HIDE DEF low, high
    <3>5. low = high
      BY <3>1, <3>3, <3>4
    <3>. QED  BY <3>5 DEF low, high
  <2>. QED  BY <2>1, <2>2
<1>. QED  BY <1>4 DEF ChunkAt

(* A BREAK or CONTINUE of a loop of this routine's.                        *)
LEMMA LeaveJumps ==
    ASSUME ScopeTypes, Nested, Jumped, Break \/ Continue, ~strayed'
    PROVE  Jumped'
<1>. SUFFICES ASSUME NEW kind \in {"break", "continue"}, NEW list \in {"breaks", "continues"},
                     kind = "break" <=> list = "breaks", Leave(kind, list)
              PROVE  Jumped'
  BY DEF Break, Continue
<1>. DEFINE items == loops.items
            last == Len(items)
            jump == IF HomeAt = 0 THEN Op("jmp", 0)
                    ELSE [Op("jmp", 0) EXCEPT !.home = <<kind, nest[HomeAt].id>>]
<1>1. /\ last \in 1 .. last /\ loops'.items[last][list] = items[last][list] \cup {Here}
      /\ \A other \in {"breaks", "continues"} : other # list =>
            loops'.items[last][other] = items[last][other]
      /\ \A k \in 1 .. last : k # last => loops'.items[k] = items[k]
      /\ jump \in InsType /\ Emit(<<jump>>) /\ jump.op = "jmp"
      /\ jump.home = IF HomeAt = 0 THEN <<>> ELSE <<kind, nest[HomeAt].id>>
      /\ IF HomeAt = 0 THEN strayed' ELSE strayed' = strayed
  BY LeaveIs
<1>2. jump.flag = 0
  BY DEF Op, Ins
<1>. HIDE DEF jump
<1>3. /\ HomeAt # 0 /\ HomeAt \in RoutineAt + 1 .. Len(nest) /\ IsLoop(nest[HomeAt])
      /\ HomeAt = LoopIn(nest, Len(nest)) /\ nest[HomeAt] \in LoopFrame
      /\ RoutineAt \in Nat /\ RoutineAt = LevelIn(nest, Len(nest))
  BY <1>1, HomeIs
<1>. DEFINE home == HomeAt
            frame == nest[home]
            size == Len(nest)
<1>4. /\ size \in Nat /\ nest \in Seq(FrameType) /\ Here \in Nat
      /\ Here = Len(chunks[chunk_idx].code) /\ chunk_idx = ChunkAt(nest, size)
      /\ chunk_idx \in 1 .. Len(chunks)
  BY OpenIs DEF ScopeTypes, Nested, Fit
<1>5. home \in 1 .. size /\ home \in 0 .. size /\ LevelIn(nest, size) <= home
  BY <1>3, <1>4
<1>6. ChunkAt(nest, home) = chunk_idx
  BY <1>4, <1>5, SameChunk
<1>. HIDE DEF home
<1>7. IsLoop(frame) /\ frame.loop.pos = last /\ frame \in LoopFrame
  BY <1>3, <1>5, LoopPlaces DEF home
<1>8. \A m \in 1 .. size : IsLoop(nest[m]) /\ m # home =>
          nest[m].loop.pos \in 1 .. last /\ nest[m].loop.pos # last
  <2>. TAKE m \in 1 .. size
  <2>. HAVE IsLoop(nest[m]) /\ m # home
  <2>1. nest[m].loop.pos \in 1 .. last
    BY LoopPlaces
  <2>2. m < home
    <3>1. m \in ActiveIn(nest, size)
      BY DEF ActiveIn
    <3>2. m <= LoopIn(nest, size)
      BY <1>4, <3>1, LevelIs
    <3>. QED  BY <1>3, <1>5, <3>2 DEF home
  <2>3. nest[m].loop.pos < frame.loop.pos
    BY <1>5, <1>7, <2>2, LoopPlaces
  <2>. HIDE DEF items
  <2>. QED  BY <1>7, <2>1, <2>3
<1>9. \A other \in {"break", "continue"} :
          Recorded(loops'.items[last], other)
             = Recorded(items[last], other) \cup (IF other = kind THEN {Here} ELSE {})
  BY <1>1 DEF Recorded
<1>10. \A m \in 1 .. size : IsLoop(nest[m]) => \A other :
          Recorded(items[nest[m].loop.pos], other)
              \subseteq Recorded(loops'.items[nest[m].loop.pos], other)
  <2>1. \A other : Recorded(items[last], other) \subseteq Recorded(loops'.items[last], other)
    BY <1>1 DEF Recorded
  <2>. TAKE m \in 1 .. size
  <2>. HAVE IsLoop(nest[m])
  <2>2. CASE m = home
    BY <1>7, <2>1, <2>2
  <2>3. CASE m # home
    BY <1>1, <1>8, <2>3
  <2>. QED  BY <2>2, <2>3
<1>11. <<jump>> \in Seq(InsType) /\ Len(<<jump>>) = 1 /\ <<jump>>[1] = jump
  BY <1>1, OneIs
<1>12. jump.home = <<kind, frame.id>>
  BY <1>1, <1>3 DEF home
<1>13. ASSUME NEW k \in 1 .. Len(<<jump>>)
       PROVE  /\ <<jump>>[k].op = "jmp"
              /\ Waits(nest, loops'.items, chunk_idx, <<jump>>[k], Here + k)
  <2>1. k = 1 /\ <<jump>>[k] = jump
    BY <1>11
  <2>2. Here \in Recorded(loops'.items[frame.loop.pos], kind)
    BY <1>7, <1>9
  <2>3. jump.home[1] = kind /\ jump.home[2] = frame.id
    BY <1>12
  <2>. DEFINE n == Here + k
  <2>4. n - 1 = Here
    BY <1>4, <2>1
  <2>. HIDE DEF n
  <2>5. Waits(nest, loops'.items, chunk_idx, jump, n)
    BY <1>5, <1>6, <1>7, <2>2, <2>3, <2>4 DEF Waits
  <2>. QED  BY <1>1, <2>1, <2>5 DEF n
<1>14. /\ Reserved(chunks') /\ LoopsMeant(chunks', nest, items)
       /\ HomesMeant(chunks', nest, loops'.items, exits)
  BY <1>1, <1>10, <1>11, <1>13, EmitKeepsJumps
<1>15. /\ Len(chunks'[chunk_idx].code) = Here + 1
       /\ chunks'[chunk_idx].code[Here + 1] = jump
  <2>1. 1 \in 1 .. Len(<<jump>>)
    BY <1>11
  <2>. QED  BY <1>1, <1>11, <2>1, EmitAdds
<1>16. ASSUME NEW m \in 1 .. size, IsLoop(nest[m])
       PROVE  LoopMeant(chunks', nest, loops'.items, m)
  <2>1. LoopMeant(chunks', nest, items, m)
    BY <1>14, <1>16 DEF LoopsMeant
  <2>2. CASE m # home
    <3>1. loops'.items[nest[m].loop.pos] = items[nest[m].loop.pos]
      BY <1>1, <1>8, <1>16, <2>2
    <3>. HIDE DEF items
    <3>. QED  BY <2>1, <3>1 DEF LoopMeant
  <2>3. CASE m = home
    <3>. DEFINE code == chunks'[chunk_idx].code
                Waiting(p, other) == /\ p + 1 \in 1 .. Len(code) /\ code[p + 1].op = "jmp"
                                     /\ code[p + 1].flag = 0
                                     /\ code[p + 1].home = <<other, frame.id>>
    <3>1. /\ frame.id[1] = chunk_idx /\ frame.id[2] < Len(code)
          /\ frame.out + 1 \in 1 .. Len(code) /\ code[frame.out + 1].op = "jmp_false"
          /\ \A other \in {"break", "continue"} : \A p \in Recorded(items[last], other) :
                Waiting(p, other)
      BY <1>6, <1>7, <2>1, <2>3 DEF LoopMeant
    <3>2. Waiting(Here, kind)
      <4>1. Here + 1 \in 1 .. Len(code)
        BY <1>4, <1>15
      <4>. QED  BY <1>1, <1>2, <1>12, <1>15, <4>1
    <3>. HIDE DEF Waiting, items
    <3>3. \A other \in {"break", "continue"} : \A p \in Recorded(loops'.items[last], other) :
              Waiting(p, other)
      BY <1>9, <3>1, <3>2
    <3>. QED  BY <1>6, <1>7, <2>3, <3>1, <3>3, ZenonT(60) DEF LoopMeant, Waiting
  <2>. QED  BY <2>2, <2>3
<1>17. LoopsMeant(chunks', nest, loops'.items)
  BY <1>14, <1>16 DEF LoopsMeant
<1>18. nest' = nest /\ exits' = exits
  BY DEF Leave
<1>. QED  BY <1>14, <1>17, <1>18 DEF Jumped

(* The code of a loop that has ended.                                      *)
LEMMA LoopCode ==
    ASSUME ScopeTypes, Nested, nest # <<>>, IsLoop(Frame), NEW tail \in Seq(InsType),
           \A k \in 1 .. Len(tail) : tail[k] \in {Op("jmp", 0), Op("nop", 0)},
           NEW exit \in Nat, NEW back \in Nat, Here <= back, EndLoop(tail, exit, back), ~stale'
    PROVE  LET new == chunks'[chunk_idx].code
               loop == loops.items[Len(loops.items)]
           IN  /\ Here <= Len(new)
               /\ \A n \in 1 .. Here :
                     /\ new[n].op = Code[n].op /\ new[n].name = Code[n].name
                     /\ new[n].home = Code[n].home /\ new[n].plain = Code[n].plain
                     /\ n - 1 \in loop.continues =>
                           new[n].wide = n - 1 - Frame.again /\ new[n].flag = 1
                     /\ n - 1 \in loop.breaks \ loop.continues /\ n # Frame.out + 1 =>
                           new[n].wide = exit - (n - 1) /\ new[n].flag = Code[n].flag
                     /\ n - 1 \notin loop.breaks \cup loop.continues /\ n # Frame.out + 1 =>
                           new[n] = Code[n]
               /\ \A n \in 1 .. Len(new) : Here < n =>
                     /\ new[n].op \in {"jmp", "nop"} /\ new[n].name = NoName
                     /\ new[n].home = <<>>
<1>. DEFINE code == Code \o Filler \o tail
            out == Frame.out
            again == Frame.again
            near == exit - out
            far == back - again
            mid == PatchedAt(code, out, 0, near)
            bent == PatchedAt(mid, back, 1, far)
            new == chunks'[chunk_idx].code
            over == loops.items[Len(loops.items)]
<1>1. PICK loop \in LoopsAt(Frame.loop) :
          /\ loop.breaks \in SUBSET Nat /\ loop.continues \in SUBSET Nat
          /\ Valid(loops, Frame.loop) => loop = Last(loops.items)
          /\ code \in Seq(InsType) /\ bent \in Seq(InsType)
          /\ new = LoopPatched(bent, loop.breaks, loop.continues, exit, again)
  BY EndLoopIs
<1>2. loop = over
  <2>1. Valid(loops, Frame.loop)
    BY DEF EndLoop, Reads
  <2>. QED  BY <1>1, <2>1 DEF Last
<1>3. /\ Code \in Seq(InsType) /\ Here = Len(Code) /\ Here \in Nat
      /\ Filler \in Seq(InsType) /\ Len(Filler) \in Nat
      /\ \A n \in 1 .. Len(Filler) : Filler[n] = Op("nop", 0)
      /\ out \in Nat /\ again \in Nat /\ near \in Int /\ far \in Int
  <2>1. Frame \in LoopFrame
    BY EndsIs
  <2>2. out \in Nat /\ again \in Nat
    BY <2>1 DEF LoopFrame
  <2>. HIDE DEF out, again
  <2>3. near \in Int /\ far \in Int
    BY <2>2
  <2>. QED  BY <2>2, <2>3, OpenIs, FillerIs
<1>. HIDE DEF out, again, near, far
<1>4. /\ Len(code) \in Nat /\ Here <= Len(code)
      /\ \A n \in 1 .. Here : n \in 1 .. Len(code) /\ code[n] = Code[n]
      /\ \A n \in 1 .. Len(code) : Here < n => code[n] \in {Op("jmp", 0), Op("nop", 0)}
  <2>. DEFINE filled == Code \o Filler
  <2>1. /\ filled \in Seq(InsType) /\ Len(filled) = Here + Len(Filler)
        /\ \A k \in 1 .. Here : filled[k] = Code[k]
        /\ \A k \in 1 .. Len(Filler) : filled[Here + k] = Filler[k]
    BY <1>3, ConcatIs
  <2>. HIDE DEF filled
  <2>2. /\ code = filled \o tail
        /\ Len(code) = Len(filled) + Len(tail) /\ Len(tail) \in Nat
        /\ \A k \in 1 .. Len(filled) : code[k] = filled[k]
        /\ \A k \in 1 .. Len(tail) : code[Len(filled) + k] = tail[k]
    <3>1. code = filled \o tail
      BY DEF filled
    <3>. HIDE DEF code
    <3>. QED  BY <2>1, <3>1, ConcatIs, SMTT(40)
  <2>. HIDE DEF code
  <2>3. Len(code) \in Nat /\ Here <= Len(code) /\ Here <= Len(filled)
    BY <1>3, <2>1, <2>2
  <2>4. \A n \in 1 .. Here : n \in 1 .. Len(code) /\ code[n] = Code[n]
    <3>. TAKE n \in 1 .. Here
    <3>1. n \in 1 .. Len(code) /\ n \in 1 .. Len(filled)
      BY <1>3, <2>1, <2>2
    <3>. QED  BY <2>1, <2>2, <3>1
  <2>5. ASSUME NEW n \in 1 .. Len(code), Here < n
        PROVE  code[n] \in {Op("jmp", 0), Op("nop", 0)}
    <3>1. CASE n <= Len(filled)
      <4>1. n \in 1 .. Len(filled) /\ n - Here \in 1 .. Len(Filler) /\ Here + (n - Here) = n
        BY <1>3, <2>1, <2>5, <3>1
      <4>2. code[n] = Filler[n - Here]
        BY <2>1, <2>2, <4>1
      <4>. QED  BY <1>3, <4>1, <4>2
    <3>2. CASE ~(n <= Len(filled))
      <4>. DEFINE k == n - Len(filled)
      <4>1. k \in 1 .. Len(tail) /\ Len(filled) + k = n
        BY <1>3, <2>1, <2>2, <3>2
      <4>. HIDE DEF k
      <4>2. code[n] = tail[k]
        BY <2>2, <4>1
      <4>. QED  BY <4>1, <4>2
    <3>. QED  BY <3>1, <3>2
  <2>. QED  BY <2>3, <2>4, <2>5
<1>. HIDE DEF code
<1>5. /\ mid \in Seq(InsType) /\ Len(mid) = Len(code)
      /\ \A n \in 1 .. Len(code) :
            /\ n # out + 1 => mid[n] = code[n]
            /\ mid[n].op = code[n].op /\ mid[n].name = code[n].name
            /\ mid[n].home = code[n].home /\ mid[n].plain = code[n].plain
  <2>1. code \in Seq(InsType) /\ 0 \in Nat
    BY <1>1
  <2>. QED  BY ONLY <2>1, <1>3, PatchedIs
<1>. HIDE DEF mid
<1>6. /\ Len(bent) = Len(code)
      /\ \A n \in 1 .. Len(code) :
            /\ n # back + 1 => bent[n] = mid[n]
            /\ bent[n].op = mid[n].op /\ bent[n].name = mid[n].name
            /\ bent[n].home = mid[n].home /\ bent[n].plain = mid[n].plain
  <2>1. mid \in Seq(InsType) /\ 1 \in Nat /\ Len(mid) = Len(code)
    BY <1>5
  <2>2. back \in Nat
    OBVIOUS
  <2>. QED  BY ONLY <2>1, <2>2, <1>3, PatchedIs
<1>. HIDE DEF bent
<1>7. /\ Len(new) = Len(bent)
      /\ \A n \in 1 .. Len(bent) :
            /\ n - 1 \notin over.breaks \cup over.continues => new[n] = bent[n]
            /\ n - 1 \in over.continues => new[n].wide = n - 1 - again /\ new[n].flag = 1
            /\ n - 1 \in over.breaks \ over.continues =>
                  new[n].wide = exit - (n - 1) /\ new[n].flag = bent[n].flag
            /\ new[n].op = bent[n].op /\ new[n].name = bent[n].name
            /\ new[n].home = bent[n].home /\ new[n].plain = bent[n].plain
  <2>. HIDE DEF new, over
  <2>1. /\ over.breaks \in SUBSET Nat /\ over.continues \in SUBSET Nat /\ bent \in Seq(InsType)
        /\ new = LoopPatched(bent, over.breaks, over.continues, exit, again)
    BY <1>1, <1>2
  <2>2. exit \in Nat /\ again \in Nat
    BY <1>3
  <2>. DEFINE breaks == over.breaks
              continues == over.continues
  <2>3. breaks \in SUBSET Nat /\ continues \in SUBSET Nat /\ bent \in Seq(InsType)
    BY <2>1
  <2>4. new = LoopPatched(bent, breaks, continues, exit, again)
    BY <2>1
  <2>5. breaks = over.breaks /\ continues = over.continues
    OBVIOUS
  <2>. HIDE DEF breaks, continues
  <2>6. LET after == LoopPatched(bent, breaks, continues, exit, again)
        IN  /\ after \in Seq(InsType) /\ Len(after) = Len(bent)
            /\ \A n \in 1 .. Len(bent) :
                  /\ n - 1 \notin breaks \cup continues => after[n] = bent[n]
                  /\ n - 1 \in continues => after[n].wide = n - 1 - again /\ after[n].flag = 1
                  /\ n - 1 \in breaks \ continues =>
                        after[n].wide = exit - (n - 1) /\ after[n].flag = bent[n].flag
                  /\ after[n] \in InsType /\ after[n].op = bent[n].op
                  /\ after[n].name = bent[n].name /\ after[n].home = bent[n].home
                  /\ after[n].plain = bent[n].plain
    BY ONLY <2>2, <2>3, LoopPatchedIs
  <2>. QED  BY ONLY <2>4, <2>5, <2>6, Zenon
<1>. HIDE DEF new, over
<1>8. Len(new) = Len(code) /\ Here <= Len(new)
  BY <1>4, <1>6, <1>7
<1>9. ASSUME NEW n \in 1 .. Here
      PROVE  /\ new[n].op = Code[n].op /\ new[n].name = Code[n].name
             /\ new[n].home = Code[n].home /\ new[n].plain = Code[n].plain
             /\ n - 1 \in over.continues =>
                   new[n].wide = n - 1 - again /\ new[n].flag = 1
             /\ n - 1 \in over.breaks \ over.continues /\ n # out + 1 =>
                   new[n].wide = exit - (n - 1) /\ new[n].flag = Code[n].flag
             /\ n - 1 \notin over.breaks \cup over.continues /\ n # out + 1 =>
                   new[n] = Code[n]
  <2>1. n \in 1 .. Len(code) /\ n \in 1 .. Len(bent) /\ code[n] = Code[n]
    BY <1>4, <1>6
  <2>2. n # back + 1
    BY <1>3
  <2>3. /\ bent[n] = mid[n] /\ mid[n].op = code[n].op /\ mid[n].name = code[n].name
        /\ mid[n].home = code[n].home /\ mid[n].plain = code[n].plain
        /\ n # out + 1 => mid[n] = code[n]
    BY <1>5, <1>6, <2>1, <2>2
  <2>. QED  BY <1>7, <2>1, <2>3
<1>10. ASSUME NEW n \in 1 .. Len(new), Here < n
       PROVE  /\ new[n].op \in {"jmp", "nop"} /\ new[n].name = NoName /\ new[n].home = <<>>
  <2>1. n \in 1 .. Len(code) /\ n \in 1 .. Len(bent) /\ code[n] \in {Op("jmp", 0), Op("nop", 0)}
    BY <1>4, <1>6, <1>8, <1>10
  <2>2. /\ code[n].op \in {"jmp", "nop"} /\ code[n].name = NoName /\ code[n].home = <<>>
    BY <2>1 DEF Op, Ins
  <2>3. /\ new[n].op = code[n].op /\ new[n].name = code[n].name /\ new[n].home = code[n].home
    BY <1>5, <1>6, <1>7, <2>1
  <2>. QED  BY <2>2, <2>3
<1>. QED  BY <1>8, <1>9, <1>10 DEF new, over, out, again

(* When a loop ends, what it has recorded is sent to where its entry says, *)
(* and the jumps of the loops around it are left alone.                    *)
LEMMA LoopEnds ==
    ASSUME ScopeTypes, Nested, Jumped, nest # <<>>, IsLoop(Frame), NEW tail \in Seq(InsType),
           \A k \in 1 .. Len(tail) : tail[k] \in {Op("jmp", 0), Op("nop", 0)},
           NEW exit \in Nat, NEW back \in Nat, Here <= back, EndLoop(tail, exit, back), ~stale'
    PROVE  Jumped'
<1>. DEFINE items == loops.items
            last == Len(items)
            size == Len(nest)
            frame == nest[size]
            over == items[last]
            new == chunks'[chunk_idx].code
            entry == [id |-> frame.id, exit |-> exit, again |-> frame.again]
            Recorder(p) == p \in over.breaks \cup over.continues
<1>1. /\ items \in Seq(LoopType) /\ items # <<>> /\ Frame.loop.pos = last
      /\ frame \in LoopFrame /\ Frame = frame /\ IsLoop(frame) /\ size \in Nat \ {0}
      /\ nest \in Seq(FrameType) /\ NestOK(nest)
  BY EndsIs, OpenIs DEF ScopeTypes, Nested, Fit
<1>2. /\ nest' = Front(nest) /\ loops'.items = Front(items) /\ exits' = exits \cup {entry}
  <2>1. loops' = Popped(loops)
    BY DEF EndLoop
  <2>2. loops'.items = Front(items)
    BY <1>1, <2>1, PoppedIs DEF ScopeTypes
  <2>3. nest' = Front(nest)
    BY DEF EndLoop
  <2>4. exits' = exits \cup {[id |-> Frame.id, exit |-> exit, again |-> Frame.again]}
    BY DEF EndLoop
  <2>. QED  BY <1>1, <2>2, <2>3, <2>4
<1>3. /\ Len(chunks') = Len(chunks) /\ chunks'[chunk_idx].code \in Seq(InsType)
      /\ \A c \in 1 .. Len(chunks) : c # chunk_idx => chunks'[c] = chunks[c]
  <2>1. /\ Len(chunks') = Len(chunks) /\ chunks' \in Seq(ChunkType)
        /\ \A c \in 1 .. Len(chunks) : c # chunk_idx => chunks'[c] = chunks[c]
    BY EndLoopIs
  <2>2. chunk_idx \in 1 .. Len(chunks')
    BY <2>1, OpenIs
  <2>3. chunks'[chunk_idx] \in ChunkType
    BY <2>1, <2>2, ElementOfSeq
  <2>. QED  BY <2>1, <2>3, ChunkFields
<1>4. /\ chunk_idx = ChunkAt(nest, size) /\ chunk_idx \in 1 .. Len(chunks)
      /\ Code = chunks[chunk_idx].code /\ Here = Len(Code) /\ Here \in Nat
      /\ Code \in Seq(InsType)
  BY OpenIs DEF Nested, Fit
<1>5. /\ Here <= Len(new)
      /\ \A n \in 1 .. Here :
            /\ new[n].op = Code[n].op /\ new[n].name = Code[n].name
            /\ new[n].home = Code[n].home /\ new[n].plain = Code[n].plain
            /\ n - 1 \in over.continues =>
                  new[n].wide = n - 1 - frame.again /\ new[n].flag = 1
            /\ n - 1 \in over.breaks \ over.continues /\ n # frame.out + 1 =>
                  new[n].wide = exit - (n - 1) /\ new[n].flag = Code[n].flag
            /\ ~Recorder(n - 1) /\ n # frame.out + 1 => new[n] = Code[n]
      /\ \A n \in 1 .. Len(new) : Here < n => new[n].home = <<>>
  BY <1>1, LoopCode
<1>6. /\ Len(nest') = size - 1
      /\ \A m \in 1 .. size - 1 : nest'[m] = nest[m] /\ ChunkAt(nest', m) = ChunkAt(nest, m)
  <2>. DEFINE closed == Front(nest)
  <2>1. /\ Len(closed) = Len(nest) - 1
        /\ \A m \in 1 .. Len(nest) - 1 : closed[m] = nest[m]
        /\ \A m \in 0 .. Len(nest) - 1 : ChunkAt(closed, m) = ChunkAt(nest, m)
    BY <1>1, Closes
  <2>. HIDE DEF closed
  <2>2. \A m \in 1 .. Len(nest) - 1 : m \in 0 .. Len(nest) - 1
    BY <1>1
  <2>. QED  BY <1>2, <2>1, <2>2 DEF closed
<1>7. ASSUME NEW m \in 1 .. size - 1, IsLoop(nest[m])
      PROVE  loops'.items[nest[m].loop.pos] = items[nest[m].loop.pos]
  <2>1. m \in 1 .. size /\ size \in 1 .. size /\ m < size
    BY <1>1
  <2>2. nest[m].loop.pos \in 1 .. last /\ nest[m].loop.pos < last
    BY <1>1, <1>7, <2>1, LoopPlaces
  <2>3. nest[m].loop.pos \in 1 .. last - 1
    BY <2>2
  <2>. HIDE DEF items
  <2>4. Front(items)[nest[m].loop.pos] = items[nest[m].loop.pos]
    BY <1>1, <2>3, FrontIs
  <2>. QED  BY <1>2, <2>4
<1>8. /\ LoopMeant(chunks, nest, items, size)
      /\ \A m \in 1 .. size - 1 : IsLoop(nest[m]) =>
            LoopMeant(chunks, nest, items, m) /\ nest[m].id # frame.id
  <2>1. size \in 1 .. size /\ \A m \in 1 .. size - 1 : m \in 1 .. size /\ m # size
    BY <1>1
  <2>2. /\ \A m \in 1 .. Len(nest) : IsLoop(nest[m]) => LoopMeant(chunks, nest, items, m)
        /\ \A n, m \in 1 .. Len(nest) :
              IsLoop(nest[n]) /\ IsLoop(nest[m]) /\ nest[n].id = nest[m].id => n = m
    BY DEF Jumped, LoopsMeant
  <2>3. LoopMeant(chunks, nest, items, size)
    BY <1>1, <2>1, <2>2
  <2>4. ASSUME NEW m \in 1 .. size - 1, IsLoop(nest[m])
        PROVE  LoopMeant(chunks, nest, items, m) /\ nest[m].id # frame.id
    <3>. HIDE DEF items
    <3>. QED  BY <1>1, <2>1, <2>2, <2>4, Zenon
  <2>. QED  BY <2>3, <2>4
<1>9. /\ frame.out + 1 \in 1 .. Here /\ Code[frame.out + 1].op = "jmp_false"
      /\ frame.id[1] = chunk_idx
      /\ \A p \in over.breaks : /\ Code[p + 1].flag = 0
                                /\ Code[p + 1].home = <<"break", frame.id>>
      /\ \A p \in over.continues : Code[p + 1].home = <<"continue", frame.id>>
  BY <1>1, <1>4, <1>8 DEF LoopMeant, Recorded
<1>. HIDE DEF items, size, frame, over, new
<1>10. ASSUME NEW n \in 1 .. Here, Code[n].op = "jmp"
       PROVE  /\ n # frame.out + 1
              /\ Recorder(n - 1) => Code[n].home[2] = frame.id
              /\ ~Recorder(n - 1) => new[n] = Code[n]
  <2>1. n # frame.out + 1
    BY <1>9, <1>10
  <2>2. n - 1 + 1 = n
    OBVIOUS
  <2>3. ~Recorder(n - 1) => new[n] = Code[n]
    BY <1>5, <2>1
  <2>4. ASSUME Recorder(n - 1) PROVE Code[n].home[2] = frame.id
    BY <1>9, <2>2, <2>4
  <2>. QED  BY <2>1, <2>3, <2>4
<1>11. Reserved(chunks')
  <2>. SUFFICES ASSUME NEW c \in 1 .. Len(chunks')
                PROVE  Len(chunks'[c].code) # 0 /\ chunks'[c].code[1].op = "reserve"
    BY DEF Reserved
  <2>1. Len(chunks[c].code) # 0 /\ chunks[c].code[1].op = "reserve"
    BY <1>3 DEF Jumped, Reserved
  <2>2. CASE c # chunk_idx
    BY <1>3, <2>1, <2>2
  <2>3. CASE c = chunk_idx
    <3>1. Here # 0 /\ Code[1].op = "reserve"
      BY <1>4, <2>1, <2>3
    <3>2. 1 \in 1 .. Here
      BY <1>4, <3>1
    <3>3. new[1].op = "reserve" /\ Here <= Len(new)
      BY <1>5, <3>1, <3>2
    <3>4. Len(new) # 0
      BY <1>4, <3>1, <3>3
    <3>. QED  BY <2>3, <3>3, <3>4 DEF new
  <2>. QED  BY <2>2, <2>3
<1>12. ASSUME NEW m \in 1 .. Len(nest'), IsLoop(nest'[m])
       PROVE  LoopMeant(chunks', nest', loops'.items, m)
  <2>1. /\ m \in 1 .. size - 1 /\ nest'[m] = nest[m] /\ ChunkAt(nest', m) = ChunkAt(nest, m)
        /\ IsLoop(nest[m]) /\ LoopMeant(chunks, nest, items, m) /\ nest[m].id # frame.id
        /\ loops'.items[nest[m].loop.pos] = items[nest[m].loop.pos]
    BY <1>6, <1>7, <1>8, <1>12
  <2>. DEFINE c == ChunkAt(nest, m)
              loop == items[nest[m].loop.pos]
              Fits(code) ==
                 /\ nest[m].id[1] = c /\ nest[m].id[2] < Len(code)
                 /\ nest[m].out + 1 \in 1 .. Len(code)
                 /\ code[nest[m].out + 1].op = "jmp_false"
                 /\ \A kind \in {"break", "continue"} : \A p \in Recorded(loop, kind) :
                       /\ p + 1 \in 1 .. Len(code) /\ code[p + 1].op = "jmp"
                       /\ code[p + 1].flag = 0 /\ code[p + 1].home = <<kind, nest[m].id>>
  <2>2. Fits(chunks[c].code)
    BY <2>1 DEF LoopMeant
  <2>3. c \in 1 .. Len(chunks)
    <3>1. m \in 0 .. Len(nest)
      BY <1>1, <2>1 DEF size
    <3>. QED  BY <3>1 DEF Nested, Fit, ChunksOpen
  <2>4. Fits(chunks'[c].code)
    <3>1. CASE c # chunk_idx
      <4>1. chunks'[c] = chunks[c]
        BY <1>3, <2>3, <3>1
      <4>. HIDE DEF Fits
      <4>. QED  BY <2>2, <4>1
    <3>2. CASE c = chunk_idx
      <4>1. Fits(Code) /\ nest[m] \in LoopFrame
        <5>1. m \in 1 .. Len(nest)
          BY <1>1, <2>1 DEF size
        <5>. HIDE DEF Fits
        <5>. QED  BY <1>4, <2>1, <2>2, <3>2, <5>1, LoopPlaces
      <4>2. nest[m].id[2] \in Nat
        BY <4>1 DEF LoopFrame, Ids
      <4>3. nest[m].id[2] < Len(new)
        <5>. DEFINE from == nest[m].id[2]
        <5>1. from \in Nat /\ from < Here
          BY <1>4, <4>1, <4>2
        <5>2. Len(new) \in Nat
          BY <1>3, LenProperties DEF new
        <5>. HIDE DEF from
        <5>3. from < Len(new)
          BY <1>4, <1>5, <5>1, <5>2
        <5>. QED  BY <5>3 DEF from
      <4>4. \A n \in 1 .. Here : n \in 1 .. Len(new)
        BY <1>4, <1>5
      <4>5. nest[m].out + 1 \in 1 .. Len(new) /\ new[nest[m].out + 1].op = "jmp_false"
        BY <1>4, <1>5, <4>1, <4>4
      <4>6. ASSUME NEW kind \in {"break", "continue"}, NEW p \in Recorded(loop, kind)
            PROVE  /\ p + 1 \in 1 .. Len(new) /\ new[p + 1].op = "jmp"
                   /\ new[p + 1].flag = 0 /\ new[p + 1].home = <<kind, nest[m].id>>
        <5>. DEFINE n == p + 1
        <5>1. /\ n \in 1 .. Here /\ Code[n].op = "jmp" /\ Code[n].flag = 0
              /\ Code[n].home = <<kind, nest[m].id>>
          BY <1>4, <4>1
        <5>. HIDE DEF n
        <5>2. Code[n].home[2] # frame.id
          BY <2>1, <5>1
        <5>3. new[n] = Code[n]
          BY <1>10, <5>1, <5>2
        <5>. QED  BY <4>4, <5>1, <5>3 DEF n
      <4>. QED  BY <3>2, <4>1, <4>3, <4>5, <4>6 DEF new
    <3>. QED  BY <3>1, <3>2
  <2>5. /\ nest'[m] = nest[m] /\ ChunkAt(nest', m) = c
        /\ loops'.items[nest[m].loop.pos] = loop
    BY <2>1
  <2>. HIDE DEF c, loop
  <2>. QED  BY ONLY <2>4, <2>5, ZenonT(60) DEF LoopMeant
<1>13. LoopsMeant(chunks', nest', loops'.items)
  <2>1. ASSUME NEW n \in 1 .. Len(nest'), NEW m \in 1 .. Len(nest'),
               IsLoop(nest'[n]), IsLoop(nest'[m]), nest'[n].id = nest'[m].id
        PROVE  n = m
    <3>1. /\ n \in 1 .. Len(nest) /\ m \in 1 .. Len(nest)
          /\ nest'[n] = nest[n] /\ nest'[m] = nest[m]
      BY <1>1, <1>6 DEF size
    <3>. QED  BY <2>1, <3>1 DEF Jumped, LoopsMeant
  <2>. QED  BY <1>12, <2>1 DEF LoopsMeant
<1>14. ASSUME NEW c, NEW ins, NEW n, Landed(exits, c, ins, n) PROVE Landed(exits', c, ins, n)
  BY <1>2, <1>14 DEF Landed
<1>15. ASSUME NEW c, NEW ins, NEW n, Waits(nest, items, c, ins, n),
              c # chunk_idx \/ (~Recorder(n - 1) /\ ins.home[1] \in {"break", "continue"})
       PROVE  Waits(nest', loops'.items, c, ins, n)
  <2>1. PICK m \in 1 .. Len(nest) :
            /\ IsLoop(nest[m]) /\ nest[m].id = ins.home[2] /\ ChunkAt(nest, m) = c
            /\ n - 1 \in Recorded(items[nest[m].loop.pos], ins.home[1])
    BY <1>15 DEF Waits
  <2>2. m # size
    <3>. SUFFICES ASSUME m = size PROVE FALSE
      OBVIOUS
    <3>1. c = chunk_idx
      BY <1>4, <2>1
    <3>2. nest[m].loop.pos = last
      BY <1>1 DEF frame
    <3>3. n - 1 \in Recorded(over, ins.home[1])
      BY <2>1, <3>2 DEF over
    <3>. QED  BY <1>15, <3>1, <3>3 DEF Recorded
  <2>3. m \in 1 .. size - 1
    BY <1>1, <2>2 DEF size
  <2>4. /\ m \in 1 .. Len(nest') /\ nest'[m] = nest[m] /\ ChunkAt(nest', m) = ChunkAt(nest, m)
        /\ loops'.items[nest[m].loop.pos] = items[nest[m].loop.pos]
    BY <1>6, <1>7, <2>1, <2>3
  <2>. QED  BY <2>1, <2>4 DEF Waits
<1>16. ASSUME NEW c \in 1 .. Len(chunks'), NEW n \in 1 .. Len(chunks'[c].code),
              chunks'[c].code[n].home # <<>>
       PROVE  /\ chunks'[c].code[n].op = "jmp"
              /\ \/ Waits(nest', loops'.items, c, chunks'[c].code[n], n)
                 \/ Landed(exits', c, chunks'[c].code[n], n)
  <2>1. CASE c # chunk_idx
    <3>1. c \in 1 .. Len(chunks) /\ chunks'[c] = chunks[c]
      BY <1>3, <2>1
    <3>. DEFINE ins == chunks[c].code[n]
    <3>2. ins.op = "jmp" /\ (Waits(nest, items, c, ins, n) \/ Landed(exits, c, ins, n))
      BY <1>16, <3>1 DEF Jumped, HomesMeant, items
    <3>. QED  BY <1>14, <1>15, <2>1, <3>1, <3>2
  <2>2. CASE c = chunk_idx
    <3>. DEFINE ins == Code[n]
    <3>1. n \in 1 .. Len(new) /\ chunks'[c].code[n] = new[n] /\ new[n].home # <<>>
      BY <1>16, <2>2 DEF new
    <3>2. n \in 1 .. Here
      <4>1. ~(Here < n)
        BY <1>5, <3>1
      <4>. QED  BY <1>4, <3>1, <4>1
    <3>3. /\ new[n].op = ins.op /\ new[n].home = ins.home /\ ins.home # <<>>
          /\ ins \in InsType
      <4>1. ins \in InsType
        BY <1>4, <3>2, ElementOfSeq
      <4>. QED  BY <1>5, <3>1, <3>2, <4>1
    <3>4. ins.op = "jmp" /\ (Waits(nest, items, c, ins, n) \/ Landed(exits, c, ins, n))
      <4>1. n \in 1 .. Len(chunks[c].code) /\ ins = chunks[c].code[n] /\ c \in 1 .. Len(chunks)
        BY <1>4, <2>2, <3>2
      <4>. QED  BY <3>3, <4>1 DEF Jumped, HomesMeant, items
    <3>5. ins.home[1] \in {"break", "continue"}
      BY <3>3 DEF InsType, Homes
    <3>6. CASE ~Recorder(n - 1)
      <4>1. new[n] = ins
        BY <1>10, <3>2, <3>4, <3>6
      <4>. QED  BY <1>14, <1>15, <3>1, <3>4, <3>5, <3>6, <4>1
    <3>7. CASE Recorder(n - 1)
      <4>1. n # frame.out + 1 /\ n - 1 + 1 = n
        BY <1>10, <3>2, <3>4
      <4>2. Target(n - 1, new[n]) = IF new[n].home[1] = "break" THEN exit ELSE frame.again
        <5>1. CASE n - 1 \in over.continues
          <6>1. new[n].wide = n - 1 - frame.again /\ new[n].flag = 1
            BY <1>5, <3>2, <5>1
          <6>2. new[n].home[1] = "continue"
            BY <1>9, <3>3, <4>1, <5>1
          <6>3. frame.again \in Nat
            BY <1>1 DEF LoopFrame
          <6>. DEFINE again == frame.again
          <6>4. again \in Nat /\ new[n].wide = n - 1 - again
            BY <6>1, <6>3
          <6>. HIDE DEF again
          <6>5. n - 1 - new[n].wide = again
            BY <6>4
          <6>. QED  BY <6>1, <6>2, <6>5 DEF Target, again
        <5>2. CASE n - 1 \in over.breaks \ over.continues
          <6>1. new[n].wide = exit - (n - 1) /\ new[n].flag = ins.flag
            BY <1>5, <3>2, <4>1, <5>2
          <6>2. ins.flag = 0 /\ new[n].home[1] = "break"
            BY <1>9, <3>3, <4>1, <5>2
          <6>3. n - 1 + new[n].wide = exit
            BY <6>1
          <6>. QED  BY <6>1, <6>2, <6>3 DEF Target
        <5>. QED  BY <3>7, <5>1, <5>2
      <4>3. new[n].home[2] = frame.id
        BY <1>10, <3>2, <3>3, <3>4, <3>7
      <4>4. /\ entry \in exits' /\ entry.id = new[n].home[2] /\ entry.id[1] = c
            /\ entry.exit = exit /\ entry.again = frame.again
        BY <1>2, <1>9, <2>2, <4>3
      <4>. HIDE DEF entry
      <4>5. Landed(exits', c, new[n], n)
        BY <4>2, <4>4, Zenon DEF Landed
      <4>. QED  BY <3>1, <3>3, <3>4, <4>5
    <3>. QED  BY <3>6, <3>7
  <2>. QED  BY <2>1, <2>2
<1>17. HomesMeant(chunks', nest', loops'.items, exits')
  BY <1>16, Zenon DEF HomesMeant
<1>. QED  BY <1>11, <1>13, <1>17 DEF Jumped

(* A WHILE or a FOR that ends.                                             *)
LEMMA LoopCloses ==
    ASSUME ScopeTypes, Nested, Jumped, EndWhile \/ EndFor, ~stale'
    PROVE  Jumped'
<1>. DEFINE back == Here + Len(Filler)
<1>1. /\ back \in Nat /\ back + 1 \in Nat /\ Here <= back
      /\ <<Op("jmp", 0)>> \in Seq(InsType) /\ <<Op("jmp", 0), Op("nop", 0)>> \in Seq(InsType)
  BY BackIs, FillerIs, OpenIs
<1>2. CASE EndWhile
  <2>. DEFINE tail == <<Op("jmp", 0)>>
  <2>1. nest # <<>> /\ IsLoop(Frame) /\ EndLoop(tail, back + 1, back)
    BY <1>2 DEF EndWhile, IsLoop
  <2>2. \A k \in 1 .. Len(tail) : tail[k] \in {Op("jmp", 0), Op("nop", 0)}
    OBVIOUS
  <2>. HIDE DEF tail, back
  <2>. QED  BY <1>1, <2>1, <2>2, LoopEnds DEF tail
<1>3. CASE EndFor
  <2>. DEFINE tail == <<Op("jmp", 0), Op("nop", 0)>>
  <2>1. nest # <<>> /\ IsLoop(Frame) /\ EndLoop(tail, back + 1, back)
    BY <1>3 DEF EndFor, IsLoop
  <2>2. \A k \in 1 .. Len(tail) : tail[k] \in {Op("jmp", 0), Op("nop", 0)}
    OBVIOUS
  <2>. HIDE DEF tail, back
  <2>. QED  BY <1>1, <2>1, <2>2, LoopEnds DEF tail
<1>. QED  BY <1>2, <1>3

(* What was read where it was no more, or strayed, is not forgotten.       *)
LEMMA HistoryStays ==
    ASSUME Good
    PROVE  (stale => stale') /\ (strayed => strayed')
<1>. DEFINE Stays == (stale => stale') /\ (strayed => strayed')
<1>1. ASSUME NEW name, BeginLet(name) \/ BeginAssign(name) \/ ReadName(name)
      PROVE  Stays
  BY <1>1 DEF BeginLet, BeginAssign, ReadName, history_vars
<1>. DEFINE Read == \E array, address : Reads(array, address)
<1>0. ASSUME Read, strayed' = strayed PROVE Stays
  <2>1. PICK array, address : Reads(array, address)
    BY <1>0
  <2>. DEFINE valid == Valid(array, address)
  <2>2. stale' = (stale \/ ~valid)
    BY <2>1 DEF Reads
  <2>. HIDE DEF valid
  <2>3. stale => stale'
    BY <2>2, Zenon
  <2>. QED  BY <1>0, <2>3
<1>2. ASSUME StoreLet \/ EndFunc \/ EndLambda PROVE Stays
  <2>1. Read /\ strayed' = strayed
    BY <1>2, Zenon DEF StoreLet, EndFunc, EndLambda
  <2>. HIDE DEF Read, Stays
  <2>. QED  BY <2>1, <1>0
<1>3. ASSUME EndWhile \/ EndFor PROVE Stays
  <2>1. PICK tail, exit, back : EndLoop(tail, exit, back)
    BY <1>3, Zenon DEF EndWhile, EndFor
  <2>2. Read /\ strayed' = strayed
    BY <2>1, Zenon DEF EndLoop
  <2>. HIDE DEF Read, Stays
  <2>. QED  BY <2>2, <1>0
<1>4. ASSUME NEW name, NEW literal,
             BeginWhile \/ BeginFor(name, literal) \/ ReadConstant(literal) \/ StoreAssigned
      PROVE  Stays
  <2>1. CASE BeginFor(name, literal)
    <3>1. Read /\ strayed' = strayed
      BY <2>1, Zenon DEF BeginFor
    <3>. HIDE DEF Read, Stays
    <3>. QED  BY <3>1, <1>0
  <2>2. CASE BeginWhile \/ ReadConstant(literal) \/ StoreAssigned
    BY <2>2 DEF BeginWhile, ReadConstant, StoreAssigned, history_vars
  <2>. QED  BY <1>4, <2>1, <2>2
<1>5. ASSUME Break \/ Continue PROVE Stays
  BY <1>5 DEF Break, Continue, Leave
<1>6. ASSUME NEW name, NEW params, NEW uses,
             BeginLambda(params, uses) \/ BeginFunc(name, params)
      PROVE  Stays
  BY <1>6 DEF BeginLambda, BeginFunc, history_vars
<1>. QED  BY <1>1, <1>2, <1>3, <1>4, <1>5, <1>6, Zenon DEF Good, Statement, Operand

(* A program that has an error is not returned.                            *)
LEMMA RefusedIsNotReturned ==
    ASSUME Refused
    PROVE  status' # "returned"
<1>1. ASSUME Dies PROVE status' # "returned"
  BY <1>1 DEF Dies
<1>2. ASSUME BadFor PROVE status' # "returned"
  BY <1>1, <1>2 DEF BadFor
<1>3. ASSUME NEW params, NEW uses, BadName \/ LeaveNoLoop \/ BadUses(params, uses)
      PROVE  status' # "returned"
  BY <1>1, <1>3 DEF BadName, LeaveNoLoop, BadUses
<1>4. ASSUME NEW name,
             FaultyStatement \/ FaultyBinding \/ FaultyLambda \/ FaultyFunc(name) \/ FaultyFor(name)
      PROVE  status' # "returned"
  BY <1>4 DEF FaultyStatement, FaultyBinding, FaultyLambda, FaultyFunc, FaultyFor,
              FaultyRoutine, Begins, InBlock, InBinding
<1>. QED  BY <1>2, <1>3, <1>4, Zenon DEF Refused

(* The source ends outside all loops: no jump waits any more.              *)
LEMMA SourceLands ==
    ASSUME ScopeTypes, Nested, Jumped, Finish, errors = 0
    PROVE  JumpsLandInTheirLoop'
<1>1. nest = <<>> /\ exits' = exits
  BY DEF Finish
<1>2. Reserved(chunks)
  BY DEF Jumped
<1>3. chunks' \in Seq(ChunkType) /\ chunks \in Seq(ChunkType)
  BY <1>1, <1>2, SourceEnds DEF ScopeTypes
<1>4. PICK size : Ended(chunks', size, 0, <<>>)
  BY <1>1, <1>2, SourceEnds
<1>5. Len(chunks') = Len(chunks) /\ Added(chunks, chunks') /\ Len(chunks) \in Nat
  BY <1>4, OpenIs DEF Ended
<1>6. ASSUME NEW c \in 1 .. Len(chunks'), NEW n \in 1 .. Len(chunks'[c].code),
             Len(chunks) < c \/ Len(chunks[c].code) < n
      PROVE  chunks'[c].code[n].home = <<>>
  <2>1. c \in 1 .. Len(chunks) /\ Len(chunks[c].code) < n
    BY <1>5, <1>6
  <2>. DEFINE ins == chunks'[c].code[n]
  <2>2. ins \in {Op("nop", 0), Ins("ret", 15, 0, NoName)}
    <3>1. ~(n - Len(chunks[c].code) \in 1 .. Len(<<>>))
      OBVIOUS
    <3>. HIDE DEF ins
    <3>. QED  BY <1>4, <2>1, <3>1 DEF Ended, ins
  <2>. HIDE DEF ins
  <2>3. ins.home = <<>>
    BY <2>2 DEF Op, Ins
  <2>. QED  BY <2>3 DEF ins
<1>7. HomesMeant(chunks', nest, loops.items, exits)
  <2>1. nest \in Seq(FrameType) /\ ChunksOpen(nest, Len(chunks)) /\ NestOK(nest)
    BY DEF ScopeTypes, Nested, Fit
  <2>2. SameLoops(nest, nest)
    BY <2>1, LoopsStay
  <2>3. \A c \in 1 .. Len(chunks') :
            /\ Len(chunks) < c =>
                  Len(chunks'[c].code) # 0 /\ chunks'[c].code[1].op = "reserve"
            /\ \A n \in 1 .. Len(chunks'[c].code) :
                  Len(chunks) < c \/ Len(chunks[c].code) < n =>
                      LET ins == chunks'[c].code[n]
                      IN  ins.home # <<>> =>
                              ins.op = "jmp" /\ Waits(nest, loops.items, c, ins, n)
    <3>1. \A c \in 1 .. Len(chunks') : ~(Len(chunks) < c)
      BY <1>5
    <3>. QED  BY <1>6, <3>1
  <2>. QED  BY <1>3, <1>5, <2>1, <2>2, <2>3, JumpsAdded, Zenon DEF Jumped
<1>8. ASSUME NEW c, NEW ins, NEW n PROVE ~Waits(nest, loops.items, c, ins, n)
  <2>1. Len(nest) = 0
    BY <1>1
  <2>. QED  BY <2>1 DEF Waits
<1>9. ASSUME NEW c \in 1 .. Len(chunks'), NEW n \in 1 .. Len(chunks'[c].code),
             chunks'[c].code[n].home # <<>>
      PROVE  Landed(exits, c, chunks'[c].code[n], n)
  BY <1>7, <1>8, <1>9 DEF HomesMeant
<1>10. /\ DOMAIN chunks' = 1 .. Len(chunks')
       /\ \A c \in 1 .. Len(chunks') :
             DOMAIN chunks'[c].code = 1 .. Len(chunks'[c].code)
  <2>1. \A c \in 1 .. Len(chunks') : chunks'[c] \in ChunkType
    BY <1>3, ElementOfSeq
  <2>. QED  BY <1>3, <2>1, LenProperties, ChunkFields
<1>11. ASSUME NEW c \in DOMAIN chunks', NEW n \in DOMAIN CodeOf(c)',
              CodeOf(c)'[n].home # <<>>
       PROVE  \E loop \in exits' :
                 /\ loop.id = CodeOf(c)'[n].home[2] /\ loop.id[1] = c
                 /\ Target(n - 1, CodeOf(c)'[n]) =
                       IF CodeOf(c)'[n].home[1] = "break" THEN loop.exit ELSE loop.again
  <2>1. CodeOf(c)' = chunks'[c].code
    BY DEF CodeOf
  <2>2. c \in 1 .. Len(chunks') /\ n \in 1 .. Len(chunks'[c].code)
    BY <1>10, <1>11, <2>1
  <2>3. Landed(exits, c, chunks'[c].code[n], n)
    BY <1>9, <1>11, <2>1, <2>2
  <2>. QED  BY <1>1, <2>1, <2>3, Zenon DEF Landed
<1>. QED  BY <1>11, Zenon DEF JumpsLandInTheirLoop

(* While the source has no error, and no address or jump has gone astray,  *)
(* every BREAK and CONTINUE waits for its loop or has landed.              *)
JumpInv ==
    /\ NestInv
    /\ Sound /\ ~stale /\ ~strayed => Jumped
    /\ JumpsLandInTheirLoop

(* Nothing is read yet.                                                    *)
LEMMA JumpsBegin == Init => JumpInv
<1>. SUFFICES ASSUME Init PROVE JumpInv
  OBVIOUS
<1>1. /\ chunks = <<NewChunk(NewTable, <<>>)>> /\ nest = <<>> /\ status = "open"
  BY DEF Init
<1>2. JumpsLandInTheirLoop
  BY <1>1 DEF JumpsLandInTheirLoop, Returned
<1>3. /\ Len(chunks) = 1 /\ chunks[1].code = <<Op("reserve", 0)>> /\ Len(nest) = 0
  BY <1>1 DEF NewChunk
<1>4. Op("reserve", 0).op = "reserve" /\ Op("reserve", 0).home = <<>>
  BY DEF Op, Ins
<1>5. Len(chunks[1].code) = 1 /\ chunks[1].code[1] = Op("reserve", 0)
  BY <1>3
<1>6. Reserved(chunks)
  BY <1>3, <1>4, <1>5 DEF Reserved
<1>7. LoopsMeant(chunks, nest, loops.items)
  BY <1>3 DEF LoopsMeant
<1>8. HomesMeant(chunks, nest, loops.items, exits)
  BY <1>3, <1>4, <1>5 DEF HomesMeant
<1>. QED  BY <1>2, <1>6, <1>7, <1>8, NestBegins DEF JumpInv, Jumped

(* Every step keeps it.                                                    *)
LEMMA JumpStep == JumpInv /\ [Next]_vars => JumpInv'
<1>. SUFFICES ASSUME JumpInv, [Next]_vars PROVE JumpInv'
  OBVIOUS
<1>1. NestInv'
  BY NestStep DEF JumpInv
<1>2. CASE Good
  <2>1. errors' = errors /\ status = "open" /\ status' = "open"
    BY <1>2, GoodGoesOn
  <2>2. JumpsLandInTheirLoop'
    BY <2>1 DEF JumpsLandInTheirLoop, Returned
  <2>3. ASSUME Sound', ~stale', ~strayed' PROVE Jumped'
    <3>1. ScopeTypes /\ Nested /\ Jumped
      BY <1>2, <2>1, <2>3, HistoryStays DEF Sound, JumpInv, NestInv
    <3>2. CASE \/ \E name \in Names : BeginLet(name) \/ BeginAssign(name) \/ ReadName(name)
               \/ \E literal \in Literals : ReadConstant(literal)
               \/ StoreLet \/ StoreAssigned
      BY <3>1, <3>2, BindingJumps
    <3>3. CASE \/ \E params \in ParamLists, uses \in UsesLists : BeginLambda(params, uses)
               \/ \E name \in Routines, params \in ParamLists : BeginFunc(name, params)
               \/ EndFunc \/ EndLambda
      BY <3>1, <3>3, RoutineJumps
    <3>4. CASE BeginWhile \/ \E name \in Names, literal \in Literals : BeginFor(name, literal)
      BY <3>1, <3>4, LoopBegins
    <3>5. CASE Break \/ Continue
      BY <2>3, <3>1, <3>5, LeaveJumps
    <3>6. CASE EndWhile \/ EndFor
      BY <2>3, <3>1, <3>6, LoopCloses
    <3>. QED  BY <1>2, <3>2, <3>3, <3>4, <3>5, <3>6, Zenon DEF Good, Statement, Operand
  <2>. QED  BY <1>1, <2>2, <2>3 DEF JumpInv
<1>3. CASE Refused
  <2>1. ~Sound' /\ status' # "returned"
    BY <1>3, OthersStop, RefusedIsNotReturned DEF JumpInv, NestInv, Sound
  <2>. QED  BY <1>1, <2>1 DEF JumpInv, JumpsLandInTheirLoop, Returned
<1>4. CASE Finish
  <2>1. ~Sound'
    BY <1>4, OthersStop DEF JumpInv, NestInv, Sound
  <2>2. ASSUME Returned' PROVE JumpsLandInTheirLoop'
    <3>1. ~(errors > 0) /\ status = "open"
      BY <1>4, <2>2 DEF Finish, Returned, InBlock
    <3>2. errors = 0
      BY <3>1 DEF JumpInv, NestInv
    <3>3. ~stale /\ ~strayed
      BY <1>4, <2>2 DEF Finish, Returned, Reads
    <3>4. ScopeTypes /\ Nested /\ Jumped
      BY <3>1, <3>2, <3>3 DEF JumpInv, NestInv, Sound
    <3>. QED  BY <1>4, <3>2, <3>4, SourceLands
  <2>3. JumpsLandInTheirLoop'
    BY <2>2 DEF JumpsLandInTheirLoop
  <2>. QED  BY <1>1, <2>1, <2>3 DEF JumpInv
<1>5. CASE Over \/ UNCHANGED vars
  BY <1>1, <1>5 DEF Over, JumpInv, Sound, Jumped, JumpsLandInTheirLoop, Returned, CodeOf, vars,
                    stack_vars, history_vars
<1>. QED  BY <1>2, <1>3, <1>4, <1>5, Zenon DEF Next, Good

(* In every program that is returned, whatever loops are inside each other *)
(* and wherever lambdas are in them, a BREAK goes past the end of the loop *)
(* that it is written in, and a CONTINUE to that loop's test or update.    *)
THEOREM JumpsLand == Spec => []JumpsLandInTheirLoop
<1>1. JumpInv => JumpsLandInTheirLoop
  BY DEF JumpInv
<1>. QED  BY <1>1, JumpsBegin, JumpStep, PTL DEF Spec
=============================================================================
