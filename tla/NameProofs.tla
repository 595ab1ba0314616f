----------------------------- MODULE NameProofs -----------------------------
(***************************************************************************)
(* What the names of a program mean, for every program and every nesting:  *)
(* the local variables of a function fit its frame, the captures of a      *)
(* lambda line up with the uses of its free names, and a name that is      *)
(* declared twice keeps its slot.  All three rest on the nesting of scopes *)
(* that ScopeProofs shows.                                                 *)
(***************************************************************************)
EXTENDS ScopeProofs

-----------------------------------------------------------------------------
(* What names mean                                                         *)

IsOpen(frames, c) == \E n \in 0 .. Len(frames) : ChunkAt(frames, n) = c

(* The table of an open routine's chunk is its scope.                      *)
Opened(frames, tables, tabs) ==
    \A n \in 0 .. Len(frames) : tabs[ChunkAt(frames, n)] = tables[ScopeAt(frames, n)]

(* Once the routine has ended, its chunk has the names of the table, and   *)
(* its RESERVE the size.                                                   *)
Fixed(chunk, table) ==
    chunk.own = NamesOf(table) /\ chunk.code[1].wide = ReserveSize(table)
Sealed(chs, frames, tabs) ==
    \A c \in 1 .. Len(chs) : IsOpen(frames, c) \/ Fixed(chs[c], tabs[c])

FunctionsMeant(funcs, size) ==
    /\ OneOfAName(funcs)
    /\ \A p \in 1 .. Len(funcs) : funcs[p].domain = "func" /\ funcs[p].id \in 1 .. size

(* An assignment stores to the symbol that its name was found as.          *)
AssignMeant(frame, c, funcs, info, tabs) ==
    frame.plain /\ frame.domain # "func" =>
        /\ info # NoSymbol
        /\ info = Find(SymbolsOf(frame.domain, funcs, tabs[1].infos.items, tabs[c].infos.items),
                       frame.name, frame.domain)
AssignsMeant(frames, funcs, info, tabs) ==
    \A n \in 1 .. Len(frames) : frames[n].kind = "assign" =>
        AssignMeant(frames[n], ChunkAt(frames, n), funcs, info, tabs)

(* A lambda captures locals of the routine around it.                      *)
CaptureMeant(frame, chs, tabs) ==
    /\ chs[frame.chunk].uses = frame.captured
    /\ \A k \in 1 .. Len(frame.ids) :
          Find(tabs[frame.old].infos.items, frame.captured[k], "local")
             = Symbol(frame.captured[k], frame.ids[k], "local")
CapturesMeant(chs, frames, tabs) ==
    \A n \in 1 .. Len(frames) : IsRoutine(frames[n]) => CaptureMeant(frames[n], chs, tabs)

Named(chs, frames, tables, funcs, info, tabs) ==
    /\ tabs \in Seq(TableType) /\ Len(tabs) = Len(chs)
    /\ Opened(frames, tables, tabs) /\ Sealed(chs, frames, tabs)
    /\ CodeMeant(chs, funcs, tabs) /\ ClosuresMeant(chs)
    /\ FunctionsMeant(funcs, Len(chs))
    /\ AssignsMeant(frames, funcs, info, tabs) /\ CapturesMeant(chs, frames, tabs)

(* Frames with the same routines.                                          *)
SameRoutines(frames, more) ==
    /\ \A m \in 0 .. Len(more) : \E n \in 0 .. Len(frames) :
          ChunkAt(more, m) = ChunkAt(frames, n) /\ ScopeAt(more, m) = ScopeAt(frames, n)
    /\ \A n \in 0 .. Len(frames) : \E m \in 0 .. Len(more) :
          ChunkAt(more, m) = ChunkAt(frames, n)
    /\ \A m \in 1 .. Len(more) : IsRoutine(more[m]) =>
          m \in 1 .. Len(frames) /\ more[m] = frames[m]

(* A binding or a loop that begins or ends leaves the routines in place.   *)
LEMMA RoutinesStay ==
    ASSUME NEW frames \in Seq(FrameType), NestOK(frames)
    PROVE  /\ SameRoutines(frames, frames)
           /\ \A others \in Seq(FrameType), frame \in FrameType :
                 /\ Len(others) = Len(frames) /\ Agree(frames, others, Len(frames))
                 /\ ~IsRoutine(frame)
                 /\ IsLoop(frame) => frame.loop.pos = PlaceAt(frames, Len(frames)) + 1
                 => SameRoutines(frames, Append(others, frame))
           /\ frames # <<>> /\ ~IsRoutine(Last(frames)) => SameRoutines(frames, Front(frames))
<1>0. Len(frames) \in Nat
  BY LenProperties
<1>1. SameRoutines(frames, frames)
  BY DEF SameRoutines
<1>2. ASSUME NEW others \in Seq(FrameType), NEW frame \in FrameType,
             Len(others) = Len(frames), Agree(frames, others, Len(frames)), ~IsRoutine(frame),
             IsLoop(frame) => frame.loop.pos = PlaceAt(frames, Len(frames)) + 1
      PROVE  SameRoutines(frames, Append(others, frame))
  <2>. DEFINE n == Len(frames)
              opened == Append(others, frame)
  <2>1. /\ opened \in Seq(FrameType) /\ Len(opened) = n + 1 /\ opened[n + 1] = frame
        /\ \A m \in 1 .. n : opened[m] = others[m]
        /\ \A m \in 0 .. n : ChunkAt(opened, m) = ChunkAt(frames, m)
                             /\ ScopeAt(opened, m) = ScopeAt(frames, m)
        /\ ChunkAt(opened, n + 1) = ChunkAt(frames, n)
        /\ ScopeAt(opened, n + 1) = ScopeAt(frames, n)
    BY <1>2, Opens
  <2>. HIDE DEF opened
  <2>2. ASSUME NEW m \in 0 .. Len(opened)
        PROVE  \E k \in 0 .. n : ChunkAt(opened, m) = ChunkAt(frames, k)
                                 /\ ScopeAt(opened, m) = ScopeAt(frames, k)
    <3>1. m \in 0 .. n \/ m = n + 1
      BY <1>0, <2>1
    <3>2. n \in 0 .. n
      BY <1>0
    <3>. HIDE DEF n
    <3>. QED  BY <2>1, <3>1, <3>2
  <2>3. \A k \in 0 .. n : k \in 0 .. Len(opened) /\ ChunkAt(opened, k) = ChunkAt(frames, k)
    BY <1>0, <2>1
  <2>4. ASSUME NEW m \in 1 .. Len(opened), IsRoutine(opened[m])
        PROVE  m \in 1 .. n /\ opened[m] = frames[m]
    <3>1. m \in 1 .. n \/ m = n + 1
      BY <1>0, <2>1
    <3>2. m # n + 1
      BY <1>2, <2>1, <2>4
    <3>3. m \in 1 .. n /\ opened[m] = others[m]
      BY <2>1, <3>1, <3>2
    <3>4. others[m].kind # "assign"
      BY <2>4, <3>3 DEF IsRoutine
    <3>. QED  BY <1>2, <3>3, <3>4 DEF Agree
  <2>. QED  BY <2>2, <2>3, <2>4 DEF SameRoutines, opened
<1>3. ASSUME frames # <<>>, ~IsRoutine(Last(frames)) PROVE SameRoutines(frames, Front(frames))
  <2>. DEFINE closed == Front(frames)
              n == Len(frames) - 1
  <2>1. /\ Len(closed) = n /\ n \in Nat /\ Len(frames) = n + 1
        /\ \A m \in 1 .. n : closed[m] = frames[m]
        /\ \A m \in 0 .. n : ChunkAt(closed, m) = ChunkAt(frames, m)
                             /\ ScopeAt(closed, m) = ScopeAt(frames, m)
        /\ ChunkAt(frames, n + 1) = ChunkAt(frames, n)
    BY <1>3, Closes
  <2>. HIDE DEF closed, n
  <2>2. \A m \in 0 .. n : m \in 0 .. n + 1
    BY <2>1
  <2>3. ASSUME NEW k \in 0 .. n + 1 PROVE \E m \in 0 .. n : ChunkAt(closed, m) = ChunkAt(frames, k)
    <3>1. k \in 0 .. n \/ k = n + 1
      BY <2>1
    <3>2. n \in 0 .. n
      BY <2>1
    <3>. QED  BY <2>1, <3>1, <3>2
  <2>4. \A m \in 1 .. n : m \in 1 .. n + 1 /\ closed[m] = frames[m]
    BY <2>1
  <2>. QED  BY <2>1, <2>2, <2>3, <2>4 DEF SameRoutines, closed
<1>. QED  BY <1>1, <1>2, <1>3

(* So names mean what they did; assignments are looked at one by one.      *)
LEMMA NamesFollow ==
    ASSUME NEW chs, NEW frames, NEW more, NEW tables, NEW funcs, NEW info, NEW info2, NEW tabs,
           Named(chs, frames, tables, funcs, info, tabs), SameRoutines(frames, more),
           AssignsMeant(more, funcs, info2, tabs)
    PROVE  Named(chs, more, tables, funcs, info2, tabs)
<1>1. Opened(more, tables, tabs)
  BY DEF Named, Opened, SameRoutines
<1>2. Sealed(chs, more, tabs)
  BY DEF Named, Sealed, SameRoutines, IsOpen
<1>3. CapturesMeant(chs, more, tabs)
  BY DEF Named, CapturesMeant, SameRoutines
<1>. QED  BY <1>1, <1>2, <1>3 DEF Named

(* Code that was added has to mean something.                              *)
LEMMA NamesRecoded ==
    ASSUME NEW chs \in Seq(ChunkType), NEW after \in Seq(ChunkType), Recoded(chs, after),
           NEW frames \in Seq(FrameType), NEW tables, NEW funcs, NEW info, NEW tabs,
           NestOK(frames), ChunksOpen(frames, Len(chs)),
           Named(chs, frames, tables, funcs, info, tabs),
           \A c \in 1 .. Len(chs) :
               \/ IsOpen(frames, c)
               \/ after[c].own = chs[c].own /\ after[c].code[1].wide = chs[c].code[1].wide,
           \A c \in 1 .. Len(chs) : \A n \in 1 .. Len(after[c].code) :
               Len(chs[c].code) < n =>
                   /\ Meant(after[c].code[n], funcs, tabs[1].infos.items, tabs[c].infos.items)
                   /\ after[c].code[n].op = "mk_closure" => ClosureMeant(after, after[c].code, n)
    PROVE  Named(after, frames, tables, funcs, info, tabs)
<1>1. CodeMeant(after, funcs, tabs)
  BY CodeRecoded DEF Named
<1>2. ClosuresMeant(after)
  BY ClosuresRecoded DEF Named
<1>3. Len(after) = Len(chs)
  BY DEF Recoded
<1>4. Sealed(after, frames, tabs)
  <2>. SUFFICES ASSUME NEW c \in 1 .. Len(after), ~IsOpen(frames, c)
                PROVE  Fixed(after[c], tabs[c])
    BY DEF Sealed
  <2>1. Fixed(chs[c], tabs[c])
    BY <1>3 DEF Named, Sealed
  <2>. QED  BY <1>3, <2>1 DEF Fixed
<1>5. CapturesMeant(after, frames, tabs)
  <2>. SUFFICES ASSUME NEW n \in 1 .. Len(frames), IsRoutine(frames[n])
                PROVE  CaptureMeant(frames[n], after, tabs)
    BY DEF CapturesMeant
  <2>1. CaptureMeant(frames[n], chs, tabs)
    BY DEF Named, CapturesMeant
  <2>2. n \in 0 .. Len(frames) /\ ChunkAt(frames, n) = frames[n].chunk
    <3>1. n \in RoutinesIn(frames, n) /\ n \in Nat
      BY DEF RoutinesIn
    <3>2. LevelIn(frames, n) = n
      BY <3>1, LevelIs
    <3>. QED  BY <3>1, <3>2 DEF ChunkAt
  <2>3. frames[n].chunk \in 1 .. Len(chs)
    BY <2>2 DEF ChunksOpen
  <2>4. after[frames[n].chunk].uses = chs[frames[n].chunk].uses
    BY <2>3 DEF Recoded
  <2>. QED  BY <2>1, <2>4 DEF CaptureMeant
<1>. QED  BY <1>1, <1>2, <1>3, <1>4, <1>5 DEF Named

(* The chunks of an open routine and of the code around it.                *)
LEMMA RoutineChunks ==
    ASSUME NEW frames \in Seq(FrameType), NestOK(frames), NEW size, ChunksOpen(frames, size),
           NEW n \in 1 .. Len(frames), IsRoutine(frames[n])
    PROVE  /\ ChunkAt(frames, n) = frames[n].chunk /\ ScopeAt(frames, n) = frames[n].scope.pos
           /\ frames[n].old = ChunkAt(frames, n - 1)
           /\ frames[n].scope.pos = ScopeAt(frames, n - 1) + 1
           /\ frames[n].chunk \in 1 .. size /\ frames[n].old \in 1 .. size
           /\ frames[n] \in RoutineFrame
<1>1. n \in Nat \ {0} /\ n \in 0 .. Len(frames) /\ n - 1 \in 0 .. Len(frames)
  BY LenProperties
<1>2. LevelIn(frames, n) = n
  BY <1>1, LevelStep
<1>3. ChunkAt(frames, n) = frames[n].chunk /\ ScopeAt(frames, n) = frames[n].scope.pos
  BY <1>1, <1>2 DEF ChunkAt, ScopeAt
<1>4. /\ frames[n].old = ChunkAt(frames, n - 1)
      /\ frames[n].scope.pos = ScopeAt(frames, n - 1) + 1
  BY DEF NestOK, FrameNested
<1>5. frames[n].chunk \in 1 .. size /\ frames[n].old \in 1 .. size
  BY <1>1, <1>3, <1>4 DEF ChunksOpen
<1>6. frames[n] \in RoutineFrame
  <2>1. frames[n] \in FrameType
    BY ElementOfSeq
  <2>. QED  BY <2>1, FrameKinds
<1>. QED  BY <1>3, <1>4, <1>5, <1>6

(* Symbols that come behind others leave what was found.                   *)
LEMMA NamesGrow ==
    ASSUME NEW chs \in Seq(ChunkType), NEW frames \in Seq(FrameType), NestOK(frames),
           ChunksOpen(frames, Len(chs)), NEW tables \in Seq(TableType),
           Len(tables) = ScopeAt(frames, Len(frames)),
           NEW funcs \in Seq(SymbolType), NEW info,
           NEW tabs, Named(chs, frames, tables, funcs, info, tabs),
           NEW idx, idx = ChunkAt(frames, Len(frames)),
           NEW table \in TableType, Extends(tables[Len(tables)], table),
           GoodTable(table, chs[idx].uses),
           NEW tables2, tables2[Len(tables)] = table,
           \A s \in 1 .. Len(tables) : s # Len(tables) => tables2[s] = tables[s]
    PROVE  Named(chs, frames, tables2, funcs, info, [tabs EXCEPT ![idx] = table])
<1>. DEFINE tabs2 == [tabs EXCEPT ![idx] = table]
            top == tabs[1].infos.items
            top2 == tabs2[1].infos.items
            size == Len(frames)
<1>1. /\ tabs \in Seq(TableType) /\ Len(tabs) = Len(chs) /\ Len(chs) \in Nat /\ size \in Nat
      /\ Opened(frames, tables, tabs) /\ Sealed(chs, frames, tabs)
      /\ CodeMeant(chs, funcs, tabs) /\ ClosuresMeant(chs) /\ FunctionsMeant(funcs, Len(chs))
      /\ AssignsMeant(frames, funcs, info, tabs) /\ CapturesMeant(chs, frames, tabs)
  BY LenProperties DEF Named
<1>2. /\ idx \in 1 .. Len(tabs) /\ Len(tables) \in Nat
      /\ tabs[idx] = tables[Len(tables)] /\ size \in 0 .. size
  <2>1. size \in 0 .. size
    BY <1>1
  <2>2. idx \in 1 .. Len(chs)
    BY <2>1 DEF ChunksOpen
  <2>. QED  BY <1>1, <2>1, <2>2, LenProperties DEF Opened
<1>3. /\ tabs2 \in Seq(TableType) /\ Len(tabs2) = Len(tabs) /\ tabs2[idx] = table
      /\ \A c \in 1 .. Len(tabs) : c # idx => tabs2[c] = tabs[c]
  BY <1>1, <1>2, SeqSet
<1>. HIDE DEF tabs2
<1>4. \A c \in 1 .. Len(tabs) : tabs[c] \in TableType /\ tabs2[c] \in TableType
  BY <1>1, <1>3, ElementOfSeq
<1>5. ASSUME NEW c \in 1 .. Len(tabs)
      PROVE  Extends(tabs[c], tabs2[c])
  <2>1. CASE c = idx
    BY <1>2, <1>3, <2>1
  <2>2. CASE c # idx
    BY <1>3, <1>4, <2>2, ExtendsItself
  <2>. QED  BY <2>1, <2>2
<1>6. ASSUME NEW c \in 1 .. Len(tabs)
      PROVE  /\ tabs[c].infos.items \in Seq(SymbolType)
             /\ tabs2[c].infos.items \in Seq(SymbolType)
             /\ Longer(tabs[c].infos.items, tabs2[c].infos.items)
  BY <1>4, <1>5, TableFields DEF Extends
<1>7. 1 \in 1 .. Len(tabs)
  BY <1>1, <1>2
<1>8. CodeMeant(chs, funcs, tabs2)
  <2>1. \A c \in 1 .. Len(tabs) : GoodTable(tabs2[c], chs[c].uses)
    BY <1>1, <1>3 DEF CodeMeant, ChunkMeant
  <2>2. Len(chs) # 0 /\ Longer(funcs, funcs)
    BY <1>1, <1>7, LenProperties DEF Longer
  <2>. QED  BY <1>1, <1>3, <1>5, <2>1, <2>2, CodeGrows
<1>9. Opened(frames, tables2, tabs2)
  <2>. SUFFICES ASSUME NEW n \in 0 .. size
                PROVE  tabs2[ChunkAt(frames, n)] = tables2[ScopeAt(frames, n)]
    BY DEF Opened
  <2>1. tabs[ChunkAt(frames, n)] = tables[ScopeAt(frames, n)]
    BY <1>1 DEF Opened
  <2>2. ChunkAt(frames, n) \in 1 .. Len(tabs)
    BY <1>1 DEF ChunksOpen
  <2>3. \/ ScopeAt(frames, n) = Len(tables) /\ ChunkAt(frames, n) = idx
        \/ ScopeAt(frames, n) < Len(tables) /\ ChunkAt(frames, n) < idx
    BY <1>2, Ordered
  <2>4. ScopeAt(frames, n) \in Nat \ {0}
    BY Ordered
  <2>5. CASE ScopeAt(frames, n) = Len(tables) /\ ChunkAt(frames, n) = idx
    BY <1>3, <2>5
  <2>6. CASE ScopeAt(frames, n) < Len(tables) /\ ChunkAt(frames, n) < idx
    <3>1. ChunkAt(frames, n) # idx /\ ScopeAt(frames, n) \in 1 .. Len(tables)
          /\ ScopeAt(frames, n) # Len(tables)
      BY <1>2, <2>2, <2>4, <2>6
    <3>. QED  BY <1>3, <2>1, <2>2, <3>1
  <2>. QED  BY <2>3, <2>5, <2>6
<1>10. Sealed(chs, frames, tabs2)
  <2>. SUFFICES ASSUME NEW c \in 1 .. Len(chs), ~IsOpen(frames, c)
                PROVE  Fixed(chs[c], tabs2[c])
    BY DEF Sealed
  <2>1. c # idx
    BY <1>2 DEF IsOpen
  <2>2. Fixed(chs[c], tabs[c])
    BY <1>1 DEF Sealed
  <2>. QED  BY <1>1, <1>3, <2>1, <2>2
<1>11. AssignsMeant(frames, funcs, info, tabs2)
  <2>. SUFFICES ASSUME NEW n \in 1 .. size, frames[n].kind = "assign"
                PROVE  AssignMeant(frames[n], ChunkAt(frames, n), funcs, info, tabs2)
    BY DEF AssignsMeant
  <2>. SUFFICES ASSUME frames[n].plain, frames[n].domain # "func"
                PROVE  /\ info # NoSymbol
                       /\ info = Find(SymbolsOf(frames[n].domain, funcs, top2,
                                                tabs2[ChunkAt(frames, n)].infos.items),
                                      frames[n].name, frames[n].domain)
    BY DEF AssignMeant
  <2>. DEFINE domain == frames[n].domain
              c == ChunkAt(frames, n)
              items == SymbolsOf(domain, funcs, top, tabs[c].infos.items)
              more == SymbolsOf(domain, funcs, top2, tabs2[c].infos.items)
  <2>1. n \in 0 .. size
    OBVIOUS
  <2>2. c \in 1 .. Len(tabs)
    BY <1>1, <2>1 DEF ChunksOpen
  <2>3. info # NoSymbol /\ info = Find(items, frames[n].name, domain)
    BY <1>1 DEF AssignsMeant, AssignMeant
  <2>4. domain \in Domains
    <3>1. frames[n] \in FrameType
      BY ElementOfSeq
    <3>2. frames[n] \in AssignFrame
      BY <3>1, FrameKinds
    <3>. QED  BY <3>2 DEF AssignFrame, Domains
  <2>5. items \in Seq(SymbolType) /\ more \in Seq(SymbolType) /\ Longer(items, more)
    <3>1. Longer(funcs, funcs)
      BY LenProperties DEF Longer
    <3>. QED  BY <1>6, <1>7, <2>2, <3>1 DEF SymbolsOf
  <2>. HIDE DEF items, more, domain
  <2>6. Find(more, frames[n].name, domain) = Find(items, frames[n].name, domain)
    BY <2>3, <2>4, <2>5, FindGrows
  <2>. QED  BY <2>3, <2>6 DEF more, domain
<1>12. CapturesMeant(chs, frames, tabs2)
  <2>. SUFFICES ASSUME NEW n \in 1 .. size, IsRoutine(frames[n])
                PROVE  CaptureMeant(frames[n], chs, tabs2)
    BY DEF CapturesMeant
  <2>1. CaptureMeant(frames[n], chs, tabs)
    BY <1>1 DEF CapturesMeant
  <2>2. frames[n].old \in 1 .. Len(tabs) /\ frames[n] \in RoutineFrame
    BY <1>1, RoutineChunks
  <2>3. ASSUME NEW k \in 1 .. Len(frames[n].ids)
        PROVE  Find(tabs2[frames[n].old].infos.items, frames[n].captured[k], "local")
                  = Symbol(frames[n].captured[k], frames[n].ids[k], "local")
    <3>. DEFINE items == tabs[frames[n].old].infos.items
                more == tabs2[frames[n].old].infos.items
                symbol == Symbol(frames[n].captured[k], frames[n].ids[k], "local")
    <3>1. Find(items, frames[n].captured[k], "local") = symbol
      BY <2>1 DEF CaptureMeant
    <3>2. "local" \in Domains
      BY DEF Domains
    <3>3. symbol # NoSymbol
      BY <3>2, SymbolIsSome
    <3>4. items \in Seq(SymbolType) /\ more \in Seq(SymbolType) /\ Longer(items, more)
      BY <1>6, <2>2
    <3>. HIDE DEF items, more, symbol
    <3>5. Find(more, frames[n].captured[k], "local") = Find(items, frames[n].captured[k], "local")
      BY <3>1, <3>2, <3>3, <3>4, FindGrows
    <3>. QED  BY <3>1, <3>5 DEF more, symbol
  <2>. QED  BY <2>1, <2>3 DEF CaptureMeant
<1>. QED  BY <1>1, <1>3, <1>8, <1>9, <1>10, <1>11, <1>12 DEF Named, tabs2

(* A routine begins: its chunk and its scope are new, and what it captures *)
(* was found in the scope around it.                                       *)
LEMMA NamesEnter ==
    ASSUME NEW chs \in Seq(ChunkType), NEW frames \in Seq(FrameType), NestOK(frames),
           ChunksOpen(frames, Len(chs)), NEW tables \in Seq(TableType),
           Len(tables) = ScopeAt(frames, Len(frames)),
           NEW funcs \in Seq(SymbolType), NEW info,
           NEW tabs, Named(chs, frames, tables, funcs, info, tabs),
           NEW funcs2 \in Seq(SymbolType), Longer(funcs, funcs2),
           FunctionsMeant(funcs2, Len(chs) + 1),
           NEW uses \in Seq(Names), NEW table \in TableType, GoodTable(table, uses),
           NEW after \in Seq(ChunkType), Len(after) = Len(chs) + 1,
           after[Len(chs) + 1] = NewChunk(table, uses),
           \A c \in 1 .. Len(chs) : after[c] = chs[c],
           NEW frame \in FrameType, IsRoutine(frame),
           frame.old = ChunkAt(frames, Len(frames)), frame.scope.pos = Len(tables) + 1,
           frame.chunk = Len(chs) + 1, frame.captured = uses,
           \A k \in 1 .. Len(frame.ids) :
               Find(tables[Len(tables)].infos.items, uses[k], "local")
                  = Symbol(uses[k], frame.ids[k], "local")
    PROVE  Named(after, Append(frames, frame), Append(tables, table), funcs2, info,
                 Append(tabs, table))
<1>. DEFINE size == Len(chs)
            last == Len(frames)
            depth == Len(tables)
            opened == Append(frames, frame)
            tables2 == Append(tables, table)
            tabs2 == Append(tabs, table)
<1>1. /\ tabs \in Seq(TableType) /\ Len(tabs) = size /\ size \in Nat /\ last \in Nat
      /\ depth \in Nat
      /\ Opened(frames, tables, tabs) /\ Sealed(chs, frames, tabs)
      /\ CodeMeant(chs, funcs, tabs) /\ ClosuresMeant(chs)
      /\ AssignsMeant(frames, funcs, info, tabs) /\ CapturesMeant(chs, frames, tabs)
  BY LenProperties DEF Named
<1>2. ChunkAt(frames, last) \in 1 .. size
  BY <1>1 DEF ChunksOpen
<1>3. /\ tabs2 \in Seq(TableType) /\ Len(tabs2) = size + 1 /\ tabs2[size + 1] = table
      /\ \A c \in 1 .. size : tabs2[c] = tabs[c]
  BY <1>1, AppendIs
<1>4. /\ tables2[depth + 1] = table
      /\ \A s \in 1 .. depth : tables2[s] = tables[s]
  BY <1>1, AppendIs
<1>5. /\ Len(opened) = last + 1 /\ opened[last + 1] = frame
      /\ \A m \in 1 .. last : opened[m] = frames[m]
      /\ \A m \in 0 .. last : /\ ChunkAt(opened, m) = ChunkAt(frames, m)
                              /\ ScopeAt(opened, m) = ScopeAt(frames, m)
      /\ ChunkAt(opened, last + 1) = size + 1
      /\ ScopeAt(opened, last + 1) = depth + 1
  <2>1. Agree(frames, frames, last)
    BY DEF Agree
  <2>2. ~IsLoop(frame)
    BY FrameKinds
  <2>3. ChunkAt(frames, last) < frame.chunk
    BY <1>1, <1>2
  <2>4. /\ frame.scope.pos = ScopeAt(frames, last) + 1 /\ frame.old = ChunkAt(frames, last)
        /\ frame.scope.pos = depth + 1 /\ frame.chunk = size + 1
    OBVIOUS
  <2>. HIDE DEF depth, size
  <2>5. /\ Len(opened) = last + 1 /\ opened[last + 1] = frame
        /\ \A m \in 1 .. last : opened[m] = frames[m]
        /\ \A m \in 0 .. last : /\ ChunkAt(opened, m) = ChunkAt(frames, m)
                                /\ ScopeAt(opened, m) = ScopeAt(frames, m)
        /\ ChunkAt(opened, last + 1) = frame.chunk
        /\ ScopeAt(opened, last + 1) = frame.scope.pos
    BY <2>1, <2>2, <2>3, <2>4, Opens
  <2>. QED  BY <2>4, <2>5
<1>. HIDE DEF size, last, depth, opened, tables2, tabs2
<1>6. /\ \A m \in 1 .. last : m \in 0 .. last
      /\ \A m \in 0 .. last + 1 : m \in 0 .. last \/ m = last + 1
      /\ \A m \in 1 .. last + 1 : m \in 1 .. last \/ m = last + 1
      /\ \A c \in 1 .. size + 1 : c \in 1 .. size \/ c = size + 1
      /\ \A c \in 1 .. size : c \in 1 .. size + 1
      /\ 1 \in 1 .. size /\ last \in 0 .. last
      /\ \A m \in 0 .. last : m \in 0 .. last + 1
      /\ last + 1 \in 0 .. last + 1
  <2>1. last \in Nat /\ size \in Nat
    BY <1>1
  <2>2. /\ \A m \in 1 .. last : m \in 0 .. last
        /\ \A m \in 0 .. last + 1 : m \in 0 .. last \/ m = last + 1
        /\ \A m \in 1 .. last + 1 : m \in 1 .. last \/ m = last + 1
        /\ \A m \in 0 .. last : m \in 0 .. last + 1
        /\ last \in 0 .. last /\ last + 1 \in 0 .. last + 1
    BY ONLY <2>1
  <2>3. /\ \A c \in 1 .. size + 1 : c \in 1 .. size \/ c = size + 1
        /\ \A c \in 1 .. size : c \in 1 .. size + 1
    BY ONLY <2>1
  <2>4. 1 \in 1 .. size
    <3>. DEFINE c == ChunkAt(frames, Len(frames))
    <3>1. c \in 1 .. size
      BY <1>2 DEF size, last
    <3>. HIDE DEF c
    <3>. QED  BY <2>1, <3>1
  <2>. QED  BY <2>2, <2>3, <2>4
<1>7. Opened(opened, tables2, tabs2)
  <2>. SUFFICES ASSUME NEW m \in 0 .. last + 1
                PROVE  tabs2[ChunkAt(opened, m)] = tables2[ScopeAt(opened, m)]
    BY <1>5 DEF Opened
  <2>1. CASE m = last + 1
    BY <1>3, <1>4, <1>5, <2>1
  <2>2. CASE m \in 0 .. last
    <3>1. ChunkAt(frames, m) \in 1 .. size
      BY <2>2 DEF ChunksOpen, size, last
    <3>2. ScopeAt(frames, m) \in 1 .. depth
      <4>1. last \in 0 .. Len(frames) /\ m \in 0 .. last
        BY <1>6, <2>2 DEF last
      <4>. QED  BY <4>1, ScopesInside DEF depth, last
    <3>3. tabs[ChunkAt(frames, m)] = tables[ScopeAt(frames, m)]
      BY <1>1, <2>2 DEF Opened, last
    <3>. QED  BY <1>3, <1>4, <1>5, <2>2, <3>1, <3>2, <3>3
  <2>. QED  BY <1>6, <2>1, <2>2
<1>8. Sealed(after, opened, tabs2)
  <2>. SUFFICES ASSUME NEW c \in 1 .. size + 1, ~IsOpen(opened, c)
                PROVE  Fixed(after[c], tabs2[c])
    BY DEF Sealed, size
  <2>1. c # size + 1
    BY <1>5, <1>6 DEF IsOpen
  <2>2. c \in 1 .. size /\ ~IsOpen(frames, c)
    BY <1>5, <1>6, <2>1 DEF IsOpen, last
  <2>3. Fixed(chs[c], tabs[c])
    BY <1>1, <2>2 DEF Sealed, size
  <2>4. after[c] = chs[c]
    BY <2>2 DEF size
  <2>. QED  BY <1>3, <2>2, <2>3, <2>4
<1>9. CodeMeant(after, funcs2, tabs2)
  <2>1. CodeMeant(chs, funcs2, tabs)
    <3>1. \A c \in 1 .. Len(tabs) : Extends(tabs[c], tabs[c])
      BY <1>1, ElementOfSeq, ExtendsItself
    <3>2. \A c \in 1 .. Len(tabs) : GoodTable(tabs[c], chs[c].uses)
      BY <1>1 DEF CodeMeant, ChunkMeant, size
    <3>3. Len(chs) # 0
      BY <1>6 DEF size
    <3>. QED  BY <1>1, <3>1, <3>2, <3>3, CodeGrows DEF size
  <2>. SUFFICES ASSUME NEW c \in 1 .. size + 1
                PROVE  ChunkMeant(after[c], funcs2, tabs2[1].infos.items, tabs2[c])
    BY DEF CodeMeant, size
  <2>2. CASE c \in 1 .. size
    <3>1. ChunkMeant(chs[c], funcs2, tabs[1].infos.items, tabs[c])
      BY <2>1, <2>2 DEF CodeMeant, size
    <3>2. after[c] = chs[c] /\ tabs2[c] = tabs[c] /\ tabs2[1] = tabs[1]
      BY <1>3, <1>6, <2>2 DEF size
    <3>. QED  BY <3>1, <3>2
  <2>3. CASE c = size + 1
    <3>1. after[c] = NewChunk(table, uses) /\ tabs2[c] = table
      BY <1>3, <2>3 DEF size
    <3>. DEFINE ins == Op("reserve", 0)
    <3>2. ins.name = NoName /\ ins.op = "reserve" /\ "reserve" \notin DOMAIN Space
      BY DEF Op, Ins, Space
    <3>. HIDE DEF ins
    <3>3. /\ after[c].code = <<ins>> /\ after[c].argc = table.local_argc
          /\ after[c].uses = uses
      BY <3>1 DEF NewChunk, ins
    <3>4. \A n \in 1 .. Len(after[c].code) : after[c].code[n] = ins
      BY <3>3
    <3>. QED  BY <3>1, <3>2, <3>3, <3>4 DEF ChunkMeant, Meant
  <2>. QED  BY <1>6, <2>2, <2>3
<1>10. ClosuresMeant(after)
  <2>. SUFFICES ASSUME NEW c \in 1 .. size + 1, NEW n \in 1 .. Len(after[c].code),
                       after[c].code[n].op = "mk_closure"
                PROVE  ClosureMeant(after, after[c].code, n)
    BY DEF ClosuresMeant, size
  <2>1. CASE c = size + 1
    <3>1. after[c].code = <<Op("reserve", 0)>>
      BY <2>1 DEF NewChunk, size
    <3>2. after[c].code[n].op = "reserve"
      BY <3>1 DEF Op, Ins
    <3>. QED  BY <3>2
  <2>2. CASE c \in 1 .. size
    <3>. DEFINE code == chs[c].code
    <3>1. after[c].code = code
      BY <2>2 DEF size
    <3>. DEFINE wide == code[n].wide
                lambda == code[n - wide - 1].wide
    <3>0. ClosureMeant(chs, code, n)
      BY <1>1, <2>2, <3>1 DEF ClosuresMeant, size
    <3>2. /\ wide \in Nat /\ n - wide > 1 /\ code[n - wide - 1].op = "load_imm_gid"
          /\ lambda \in 1 .. size /\ Len(chs[lambda].uses) = wide
          /\ \A k \in 1 .. wide : code[n - wide + k - 1].name = chs[lambda].uses[k]
      BY <3>0 DEF ClosureMeant, size
    <3>3. after[lambda] = chs[lambda] /\ lambda \in 1 .. Len(after)
      BY <1>6, <3>2 DEF size
    <3>4. wide = code[n].wide /\ lambda = code[n - wide - 1].wide
      OBVIOUS
    <3>. HIDE DEF code, wide, lambda
    <3>5. ClosureMeant(after, code, n)
      <4>1. Len(after[lambda].uses) = wide
            /\ \A k \in 1 .. wide : code[n - wide + k - 1].name = after[lambda].uses[k]
        BY <3>2, <3>3
      <4>. QED  BY ONLY <3>2, <3>3, <3>4, <4>1, ClosureIs, Zenon
    <3>. QED  BY <3>1, <3>5
  <2>. QED  BY <1>6, <2>1, <2>2
<1>11. AssignsMeant(opened, funcs2, info, tabs2)
  <2>. SUFFICES ASSUME NEW m \in 1 .. last + 1, opened[m].kind = "assign"
                PROVE  AssignMeant(opened[m], ChunkAt(opened, m), funcs2, info, tabs2)
    BY <1>5 DEF AssignsMeant
  <2>1. m # last + 1
    BY <1>5 DEF IsRoutine
  <2>2. /\ m \in 1 .. last /\ opened[m] = frames[m] /\ ChunkAt(opened, m) = ChunkAt(frames, m)
    BY <1>5, <1>6, <2>1
  <2>3. AssignMeant(frames[m], ChunkAt(frames, m), funcs, info, tabs)
    BY <1>1, <2>2 DEF AssignsMeant, last
  <2>4. ChunkAt(frames, m) \in 1 .. size
    BY <1>6, <2>2 DEF ChunksOpen, size, last
  <2>5. tabs2[ChunkAt(frames, m)] = tabs[ChunkAt(frames, m)] /\ tabs2[1] = tabs[1]
    BY <1>3, <1>6, <2>4
  <2>. QED  BY <2>2, <2>3, <2>5 DEF AssignMeant, SymbolsOf
<1>12. CapturesMeant(after, opened, tabs2)
  <2>. SUFFICES ASSUME NEW m \in 1 .. last + 1, IsRoutine(opened[m])
                PROVE  CaptureMeant(opened[m], after, tabs2)
    BY <1>5 DEF CapturesMeant
  <2>1. CASE m = last + 1
    <3>1. opened[m] = frame /\ after[frame.chunk] = NewChunk(table, uses)
      BY <1>5, <2>1
    <3>2. after[frame.chunk].uses = uses
      BY <3>1 DEF NewChunk
    <3>3. tabs2[frame.old] = tables[depth]
      <4>1. tabs[ChunkAt(frames, last)] = tables[ScopeAt(frames, last)]
        BY <1>1, <1>6 DEF Opened, last
      <4>. QED  BY <1>2, <1>3, <4>1 DEF last, depth
    <3>. QED  BY <3>1, <3>2, <3>3 DEF CaptureMeant, depth
  <2>2. CASE m \in 1 .. last
    <3>1. opened[m] = frames[m] /\ IsRoutine(frames[m])
      BY <1>5, <2>2
    <3>2. CaptureMeant(frames[m], chs, tabs)
      BY <1>1, <2>2, <3>1 DEF CapturesMeant, last
    <3>3. frames[m].chunk \in 1 .. size /\ frames[m].old \in 1 .. size
      BY <2>2, <3>1, RoutineChunks DEF last, size
    <3>4. after[frames[m].chunk] = chs[frames[m].chunk]
          /\ tabs2[frames[m].old] = tabs[frames[m].old]
      BY <1>3, <3>3 DEF size
    <3>. QED  BY <3>1, <3>2, <3>4 DEF CaptureMeant
  <2>. QED  BY <1>6, <2>1, <2>2
<1>13. Len(tabs2) = Len(after) /\ FunctionsMeant(funcs2, Len(after))
  BY <1>3 DEF size
<1>. QED  BY <1>3, <1>7, <1>8, <1>9, <1>10, <1>11, <1>12, <1>13 DEF Named, opened, tables2, tabs2

(* A routine ends, its chunk with the names and the size of its scope.     *)
LEMMA NamesLeave ==
    ASSUME NEW chs \in Seq(ChunkType), NEW frames \in Seq(FrameType), NestOK(frames),
           ChunksOpen(frames, Len(chs)), NEW tables \in Seq(TableType),
           Len(tables) = ScopeAt(frames, Len(frames)),
           NEW funcs, NEW info, NEW tabs, Named(chs, frames, tables, funcs, info, tabs),
           frames # <<>>, IsRoutine(Last(frames)),
           Fixed(chs[Last(frames).chunk], tabs[Last(frames).chunk])
    PROVE  Named(chs, Front(frames), Front(tables), funcs, info, tabs)
<1>. DEFINE closed == Front(frames)
            front == Front(tables)
            n == Len(frames) - 1
            last == Last(frames)
<1>1. /\ Opened(frames, tables, tabs) /\ Sealed(chs, frames, tabs)
      /\ AssignsMeant(frames, funcs, info, tabs) /\ CapturesMeant(chs, frames, tabs)
  BY DEF Named
<1>2. /\ Len(closed) = n /\ n \in Nat /\ Len(frames) = n + 1 /\ last = frames[n + 1]
      /\ \A m \in 1 .. n : closed[m] = frames[m]
      /\ \A m \in 0 .. n : ChunkAt(closed, m) = ChunkAt(frames, m)
                           /\ ScopeAt(closed, m) = ScopeAt(frames, m)
  BY Closes
<1>3. /\ ChunkAt(frames, n + 1) = last.chunk /\ ScopeAt(frames, n + 1) = ScopeAt(frames, n) + 1
  <2>1. n + 1 \in 1 .. Len(frames) /\ n + 1 - 1 = n
    BY <1>2
  <2>. QED  BY <1>2, <2>1, RoutineChunks, SMTT(60)
<1>. HIDE DEF closed, n, last
<1>4. /\ \A m \in 0 .. n : m \in 0 .. n + 1
      /\ \A m \in 1 .. n : m \in 1 .. n + 1 /\ m \in 0 .. n
      /\ \A m \in 0 .. n + 1 : m \in 0 .. n \/ m = n + 1
      /\ n \in 0 .. n
  BY <1>2
<1>5. /\ Len(tables) = ScopeAt(frames, n) + 1 /\ ScopeAt(frames, n) \in Nat
  <2>1. n \in 0 .. Len(frames)
    BY <1>2
  <2>. QED  BY <1>2, <1>3, <2>1, Ordered
<1>6. \A s \in 1 .. ScopeAt(frames, n) : front[s] = tables[s]
  <2>1. tables # <<>>
    BY <1>5
  <2>2. Len(tables) - 1 = ScopeAt(frames, n)
    BY <1>5
  <2>. QED  BY <2>1, <2>2, FrontIs
<1>. HIDE DEF front
<1>7. Opened(closed, front, tabs)
  <2>. SUFFICES ASSUME NEW m \in 0 .. n
                PROVE  tabs[ChunkAt(closed, m)] = front[ScopeAt(closed, m)]
    BY <1>2 DEF Opened
  <2>1. tabs[ChunkAt(frames, m)] = tables[ScopeAt(frames, m)]
    BY <1>1, <1>2, <1>4 DEF Opened
  <2>2. ScopeAt(frames, m) \in 1 .. ScopeAt(frames, n)
    <3>1. n \in 0 .. Len(frames)
      BY <1>2
    <3>. QED  BY <3>1, ScopesInside
  <2>. QED  BY <1>2, <1>6, <2>1, <2>2
<1>8. Sealed(chs, closed, tabs)
  <2>. SUFFICES ASSUME NEW c \in 1 .. Len(chs), ~IsOpen(closed, c)
                PROVE  Fixed(chs[c], tabs[c])
    BY DEF Sealed
  <2>1. CASE c = last.chunk
    BY <2>1 DEF last
  <2>2. CASE c # last.chunk
    <3>1. ~IsOpen(frames, c)
      BY <1>2, <1>3, <1>4, <2>2 DEF IsOpen
    <3>. QED  BY <1>1, <3>1 DEF Sealed
  <2>. QED  BY <2>1, <2>2
<1>9. AssignsMeant(closed, funcs, info, tabs)
  BY <1>1, <1>2, <1>4 DEF AssignsMeant
<1>10. CapturesMeant(chs, closed, tabs)
  BY <1>1, <1>2, <1>4 DEF CapturesMeant
<1>. QED  BY <1>7, <1>8, <1>9, <1>10 DEF Named, closed, front

(* A symbol of a domain in which names are unique is what its name finds.  *)
LEMMA FoundOnce ==
    ASSUME NEW items \in Seq(SymbolType), OneOfAName(items), NEW p \in 1 .. Len(items),
           items[p].domain \in Single
    PROVE  Find(items, items[p].name, items[p].domain)
              = Symbol(items[p].name, items[p].id, items[p].domain)
<1>. DEFINE name == items[p].name
            domain == items[p].domain
<1>1. items[p] \in SymbolType /\ domain \in Domains /\ DOMAIN items = 1 .. Len(items)
  <2>1. items[p] \in SymbolType /\ DOMAIN items = 1 .. Len(items)
    BY ElementOfSeq, LenProperties
  <2>. QED  BY <2>1 DEF Single, Domains
<1>2. PICK q \in 1 .. Len(items) :
          Find(items, name, domain) = items[q] /\ items[q].name = name /\ items[q].domain = domain
  <2>1. items[p].name = name /\ items[p].domain = domain
    OBVIOUS
  <2>. HIDE DEF name, domain
  <2>. QED  BY <1>1, <2>1, FindIs
<1>3. q = p
  BY <1>1, <1>2 DEF OneOfAName
<1>4. items[p] = Symbol(items[p].name, items[p].id, items[p].domain)
  BY <1>1 DEF SymbolType, Symbol
<1>. QED  BY <1>2, <1>3, <1>4

(* What was found is there.                                                *)
LEMMA FoundIs ==
    ASSUME NEW items \in Seq(SymbolType), NEW name, NEW id, NEW domain \in Domains,
           Find(items, name, domain) = Symbol(name, id, domain)
    PROVE  \E p \in 1 .. Len(items) :
              items[p].name = name /\ items[p].id = id /\ items[p].domain = domain
<1>1. Symbol(name, id, domain) # NoSymbol
  BY SymbolIsSome
<1>2. PICK p \in 1 .. Len(items) : Find(items, name, domain) = items[p]
  BY <1>1, FindIs
<1>3. items[p] = Symbol(name, id, domain)
  BY <1>2
<1>. QED  BY <1>3 DEF Symbol

-----------------------------------------------------------------------------
(* What is so of the program that is returned                              *)

Ready(chs, funcs, tabs) ==
    /\ chs \in Seq(ChunkType) /\ Len(chs) # 0 /\ funcs \in Seq(SymbolType)
    /\ tabs \in Seq(TableType) /\ Len(tabs) = Len(chs)
    /\ CodeMeant(chs, funcs, tabs) /\ ClosuresMeant(chs) /\ OneOfAName(funcs)
    /\ \A c \in 1 .. Len(chs) : Fixed(chs[c], tabs[c])

(* An instruction that means a name has the slot of its symbol.            *)
LEMMA SlotMeant ==
    ASSUME NEW items \in Seq(SymbolType), NEW ins, NEW domain \in Domains,
           Find(items, ins.name, domain) = Symbol(ins.name, ins.wide, domain)
    PROVE  \E p \in 1 .. Len(items) : /\ items[p].name = ins.name /\ items[p].id = ins.wide
                                      /\ items[p].domain = domain
<1>. DEFINE name == ins.name
            id == ins.wide
<1>1. Find(items, name, domain) = Symbol(name, id, domain)
  OBVIOUS
<1>. HIDE DEF name, id
<1>2. \E p \in 1 .. Len(items) :
          items[p].name = name /\ items[p].id = id /\ items[p].domain = domain
  BY ONLY items \in Seq(SymbolType), domain \in Domains, <1>1, FoundIs
<1>. QED  BY <1>2 DEF name, id

(* The parts of a program that is ready.                                   *)
LEMMA ReadyParts ==
    ASSUME NEW tabs, Ready(chunks, globals, tabs)
    PROVE  /\ DOMAIN chunks = 1 .. Len(chunks) /\ 1 \in 1 .. Len(chunks)
           /\ \A c \in 1 .. Len(chunks) :
                 /\ CodeOf(c) = chunks[c].code /\ DOMAIN CodeOf(c) = 1 .. Len(CodeOf(c))
                 /\ CodeOf(c) \in Seq(InsType) /\ Len(CodeOf(c)) \in Nat
                 /\ chunks[c].uses \in Seq(Names)
                 /\ tabs[c] \in TableType /\ SlotsFit(tabs[c], chunks[c].uses)
                 /\ OneOfAName(tabs[c].infos.items)
                 /\ chunks[c].argc = tabs[c].local_argc /\ Fixed(chunks[c], tabs[c])
                 /\ DOMAIN tabs[c].infos.items = 1 .. Len(tabs[c].infos.items)
                 /\ tabs[c].infos.items \in Seq(SymbolType)
                 /\ \A n \in 1 .. Len(chunks[c].code) :
                       Meant(chunks[c].code[n], globals, tabs[1].infos.items,
                             tabs[c].infos.items)
<1>1. DOMAIN chunks = 1 .. Len(chunks) /\ 1 \in 1 .. Len(chunks)
  BY LenProperties DEF Ready
<1>. SUFFICES ASSUME NEW c \in 1 .. Len(chunks)
              PROVE  /\ CodeOf(c) = chunks[c].code /\ DOMAIN CodeOf(c) = 1 .. Len(CodeOf(c))
                     /\ CodeOf(c) \in Seq(InsType) /\ Len(CodeOf(c)) \in Nat
                     /\ chunks[c].uses \in Seq(Names)
                     /\ tabs[c] \in TableType /\ SlotsFit(tabs[c], chunks[c].uses)
                     /\ OneOfAName(tabs[c].infos.items)
                     /\ chunks[c].argc = tabs[c].local_argc /\ Fixed(chunks[c], tabs[c])
                     /\ DOMAIN tabs[c].infos.items = 1 .. Len(tabs[c].infos.items)
                     /\ tabs[c].infos.items \in Seq(SymbolType)
                     /\ \A n \in 1 .. Len(chunks[c].code) :
                           Meant(chunks[c].code[n], globals, tabs[1].infos.items,
                                 tabs[c].infos.items)
  BY <1>1
<1>2. chunks[c] \in ChunkType /\ tabs[c] \in TableType
  BY ElementOfSeq DEF Ready
<1>3. ChunkMeant(chunks[c], globals, tabs[1].infos.items, tabs[c])
  BY DEF Ready, CodeMeant
<1>4. /\ SlotsFit(tabs[c], chunks[c].uses) /\ OneOfAName(tabs[c].infos.items)
      /\ chunks[c].argc = tabs[c].local_argc
      /\ \A n \in 1 .. Len(chunks[c].code) :
            Meant(chunks[c].code[n], globals, tabs[1].infos.items, tabs[c].infos.items)
  BY <1>3 DEF ChunkMeant, GoodTable
<1>. QED  BY <1>2, <1>4, ChunkFields, TableFields DEF Ready, CodeOf

(* So locals have room.                                                    *)
LEMMA ReadyFits ==
    ASSUME NEW tabs, Ready(chunks, globals, tabs)
    PROVE  FrameFits
<1>. SUFFICES ASSUME NEW c \in DOMAIN chunks, NEW n \in DOMAIN CodeOf(c),
                     CodeOf(c)[n].op \in {"load_local", "store_local"}, CodeOf(c)[n].plain
              PROVE  CodeOf(c)[n].wide \in 1 .. chunks[c].argc + CodeOf(c)[1].wide
  BY DEF FrameFits
<1>. DEFINE ins == CodeOf(c)[n]
            items == tabs[c].infos.items
            argc == tabs[c].local_argc
            next == tabs[c].next_local_id
<1>1. /\ c \in 1 .. Len(chunks) /\ CodeOf(c) = chunks[c].code
      /\ n \in 1 .. Len(chunks[c].code) /\ SlotsFit(tabs[c], chunks[c].uses)
      /\ chunks[c].argc = argc /\ CodeOf(c)[1].wide = ReserveSize(tabs[c])
      /\ argc \in Nat /\ next \in Nat /\ DOMAIN items = 1 .. Len(items)
  BY ReadyParts, TableFields DEF Fixed
<1>2. ins.op \in DOMAIN Space /\ Space[ins.op] = "local" /\ ins.op # "load_imm_gid"
  BY DEF Space
<1>3. PICK p \in 1 .. Len(items) : items[p].id = ins.wide /\ items[p].domain = "local"
  <2>1. /\ items \in Seq(SymbolType) /\ "local" \in Domains
        /\ Meant(ins, globals, tabs[1].infos.items, items) /\ ins.plain
    BY <1>1, ReadyParts DEF Domains
  <2>2. Find(items, ins.name, "local") = Symbol(ins.name, ins.wide, "local")
    BY <1>2, <2>1 DEF Meant, SymbolsOf
  <2>. HIDE DEF ins, items
  <2>3. \E p \in 1 .. Len(items) : /\ items[p].name = ins.name /\ items[p].id = ins.wide
                                  /\ items[p].domain = "local"
    BY ONLY <2>1, <2>2, SlotMeant
  <2>. QED  BY <2>3
<1>4. ins.wide \in 1 .. next
  BY <1>1, <1>3 DEF SlotsFit
<1>5. CodeOf(c)[1].wide = next - argc
  BY <1>1 DEF ReserveSize
<1>. HIDE DEF ins, argc, next
<1>6. argc + (next - argc) = next
  BY <1>1
<1>. QED  BY <1>1, <1>4, <1>5, <1>6 DEF ins

(* Captures are where their names say.                                     *)
LEMMA ReadyLinesUp ==
    ASSUME NEW tabs, Ready(chunks, globals, tabs)
    PROVE  CapturesLineUp
<1>. SUFFICES ASSUME NEW c \in DOMAIN chunks, NEW n \in DOMAIN CodeOf(c),
                     CodeOf(c)[n].op = "mk_closure"
              PROVE  LET first == n - CodeOf(c)[n].wide
                         lambda == CodeOf(c)[first - 1].wide
                         uses == chunks[lambda].uses
                     IN  /\ [k \in DOMAIN uses |-> CodeOf(c)[first + k - 1].name] = uses
                         /\ Len(uses) = n - first
                         /\ \A m \in DOMAIN CodeOf(lambda) :
                              LET ins == CodeOf(lambda)[m]
                              IN  ins.op \in {"get_upv", "set_upv"} /\ ins.plain =>
                                    ins.wide + 1 \in DOMAIN uses /\ uses[ins.wide + 1] = ins.name
  BY DEF CapturesLineUp
<1>. DEFINE code == chunks[c].code
            size == code[n].wide
            first == n - size
            lambda == code[first - 1].wide
            uses == chunks[lambda].uses
<1>1. c \in 1 .. Len(chunks) /\ CodeOf(c) = code /\ n \in 1 .. Len(code)
  BY ReadyParts
<1>2. /\ size \in Nat /\ lambda \in 1 .. Len(chunks) /\ Len(uses) = size
      /\ \A k \in 1 .. size : code[first + k - 1].name = uses[k]
  BY <1>1 DEF Ready, ClosuresMeant, ClosureMeant
<1>3. /\ uses \in Seq(Names) /\ SlotsFit(tabs[lambda], uses)
      /\ CodeOf(lambda) = chunks[lambda].code
      /\ DOMAIN CodeOf(lambda) = 1 .. Len(chunks[lambda].code)
      /\ DOMAIN tabs[lambda].infos.items = 1 .. Len(tabs[lambda].infos.items)
  BY <1>2, ReadyParts
<1>4. DOMAIN uses = 1 .. size /\ uses = [k \in 1 .. size |-> uses[k]]
  <2>. HIDE DEF uses, size
  <2>1. DOMAIN uses = 1 .. size
    BY <1>2, <1>3, LenProperties
  <2>2. uses = [k \in DOMAIN uses |-> uses[k]]
    BY <1>3, LenProperties
  <2>. QED  BY <2>1, <2>2
<1>5. [k \in DOMAIN uses |-> code[first + k - 1].name] = uses
  <2>. HIDE DEF uses, size, first, code
  <2>1. [k \in 1 .. size |-> code[first + k - 1].name] = [k \in 1 .. size |-> uses[k]]
    BY <1>2
  <2>. QED  BY <1>4, <2>1
<1>6. Len(uses) = n - first
  <2>. HIDE DEF uses, size
  <2>1. n \in Int
    BY <1>1
  <2>. QED  BY <1>2, <2>1 DEF first
<1>7. ASSUME NEW m \in DOMAIN CodeOf(lambda),
             CodeOf(lambda)[m].op \in {"get_upv", "set_upv"}, CodeOf(lambda)[m].plain
      PROVE  /\ CodeOf(lambda)[m].wide + 1 \in DOMAIN uses
             /\ uses[CodeOf(lambda)[m].wide + 1] = CodeOf(lambda)[m].name
  <2>. HIDE DEF code, size, lambda
  <2>. DEFINE ins == CodeOf(lambda)[m]
              items == tabs[lambda].infos.items
  <2>1. m \in 1 .. Len(chunks[lambda].code) /\ ins = chunks[lambda].code[m]
    BY <1>3
  <2>2. ins.op \in DOMAIN Space /\ Space[ins.op] = "upval" /\ ins.op # "load_imm_gid"
    BY <1>7 DEF Space
  <2>3. /\ items \in Seq(SymbolType) /\ "upval" \in Domains
        /\ Meant(ins, globals, tabs[1].infos.items, items)
    BY <1>2, <2>1, ReadyParts DEF Domains
  <2>4. Find(items, ins.name, "upval") = Symbol(ins.name, ins.wide, "upval")
    BY <1>7, <2>2, <2>3 DEF Meant, SymbolsOf
  <2>5. PICK p \in 1 .. Len(items) :
            items[p].name = ins.name /\ items[p].id = ins.wide /\ items[p].domain = "upval"
    <3>. HIDE DEF ins, items
    <3>1. \E p \in 1 .. Len(items) : /\ items[p].name = ins.name /\ items[p].id = ins.wide
                                    /\ items[p].domain = "upval"
      BY ONLY <2>3, <2>4, SlotMeant
    <3>. QED  BY <3>1
  <2>6. items[p].id + 1 \in DOMAIN uses /\ uses[items[p].id + 1] = items[p].name
    BY <1>3, <2>5 DEF SlotsFit
  <2>. QED  BY <2>5, <2>6
<1>8. /\ size = CodeOf(c)[n].wide /\ lambda = CodeOf(c)[first - 1].wide
      /\ [k \in DOMAIN uses |-> CodeOf(c)[first + k - 1].name] = uses
  BY <1>1, <1>5
<1>. HIDE DEF lambda, size, code
<1>. QED  BY <1>6, <1>7, <1>8, Zenon

(* What an instruction of chunk c goes to is what its name means there.    *)
NameMeant(c, ins, tabs) ==
    LET domain == Space[ins.op]
        items == SymbolsOf(domain, globals, tabs[1].infos.items, tabs[c].infos.items)
    IN  /\ domain \in {"func", "global_var", "local", "upval"}
        /\ Find(items, ins.name, domain) = Symbol(ins.name, ins.wide, domain)
        /\ domain \in Meanings(c, ins.name)
        /\ \E p \in 1 .. Len(items) : /\ items[p].name = ins.name /\ items[p].id = ins.wide
                                      /\ items[p].domain = domain

(* A name that is used means what its instruction goes to.                 *)
LEMMA NameMeans ==
    ASSUME NEW tabs, Ready(chunks, globals, tabs)
    PROVE  \A c \in 1 .. Len(chunks) : \A n \in 1 .. Len(chunks[c].code) :
              chunks[c].code[n].name # NoName /\ chunks[c].code[n].plain =>
                 NameMeant(c, chunks[c].code[n], tabs)
<1>. SUFFICES ASSUME NEW c \in 1 .. Len(chunks), NEW n \in 1 .. Len(chunks[c].code),
                     chunks[c].code[n].name # NoName, chunks[c].code[n].plain
              PROVE  NameMeant(c, chunks[c].code[n], tabs)
  OBVIOUS
<1>. DEFINE ins == chunks[c].code[n]
            name == ins.name
            wide == ins.wide
            domain == Space[ins.op]
            top == tabs[1].infos.items
            own == tabs[c].infos.items
            items == SymbolsOf(domain, globals, top, own)
<1>1. /\ globals \in Seq(SymbolType) /\ top \in Seq(SymbolType) /\ own \in Seq(SymbolType)
      /\ Meant(ins, globals, top, own) /\ DOMAIN own = 1 .. Len(own)
      /\ DOMAIN top = 1 .. Len(top) /\ chunks[c].own = NamesOf(tabs[c])
      /\ chunks[1].own = NamesOf(tabs[1])
  BY ReadyParts DEF Ready, Fixed
<1>2. ins.op \in DOMAIN Space
  BY <1>1 DEF Meant
<1>3. domain \in {"func", "global_var", "local", "upval"} /\ domain \in Domains
  BY <1>2 DEF Space, Domains
<1>4. items \in Seq(SymbolType)
  BY <1>1 DEF SymbolsOf
<1>5. Find(items, name, domain) = Symbol(name, wide, domain)
  BY <1>1, <1>2 DEF Meant
<1>6. \E p \in 1 .. Len(items) :
          items[p].name = name /\ items[p].id = wide /\ items[p].domain = domain
  <2>. HIDE DEF name, wide, items, domain
  <2>. QED  BY ONLY <1>3, <1>4, <1>5, FoundIs
<1>7. domain \in Meanings(c, name)
  <2>1. CASE domain \in {"local", "upval"}
    <3>1. items = own
      BY <2>1 DEF SymbolsOf
    <3>2. PICK p \in 1 .. Len(own) : own[p].name = name /\ own[p].domain = domain
      <4>. HIDE DEF name, wide, items, domain, own
      <4>. QED  BY <1>6, <3>1
    <3>3. <<name, domain>> \in NamesOf(tabs[c])
      <4>. HIDE DEF name, domain
      <4>. QED  BY <1>1, <3>2 DEF NamesOf
    <3>. HIDE DEF name, domain
    <3>. QED  BY <1>1, <2>1, <3>3 DEF Meanings
  <2>2. CASE domain = "global_var"
    <3>1. items = top
      BY <2>2 DEF SymbolsOf
    <3>2. PICK p \in 1 .. Len(top) : top[p].name = name /\ top[p].domain = domain
      <4>. HIDE DEF name, wide, items, domain, top
      <4>. QED  BY <1>6, <3>1
    <3>3. <<name, domain>> \in NamesOf(tabs[1])
      <4>. HIDE DEF name, domain
      <4>. QED  BY <1>1, <3>2 DEF NamesOf
    <3>. HIDE DEF name, domain
    <3>. QED  BY <1>1, <2>2, <3>3 DEF Meanings
  <2>3. CASE domain = "func"
    <3>1. items = globals
      BY <2>3 DEF SymbolsOf
    <3>2. Find(globals, name, domain) # NoSymbol
      <4>. HIDE DEF name, wide, items, domain
      <4>. QED  BY <1>3, <1>5, <3>1, SymbolIsSome
    <3>. HIDE DEF name, domain
    <3>. QED  BY <2>3, <3>2 DEF Meanings
  <2>. HIDE DEF domain
  <2>. QED  BY <1>3, <2>1, <2>2, <2>3
<1>. HIDE DEF items
<1>8. /\ domain \in {"func", "global_var", "local", "upval"}
      /\ Find(items, ins.name, domain) = Symbol(ins.name, ins.wide, domain)
      /\ domain \in Meanings(c, ins.name)
      /\ \E p \in 1 .. Len(items) : /\ items[p].name = ins.name
                                    /\ items[p].id = ins.wide
                                    /\ items[p].domain = domain
  BY <1>3, <1>5, <1>6, <1>7
<1>. QED  BY <1>8 DEF items, NameMeant

(* Names and slots are one to one in the program that is returned.         *)
LEMMA ReadyKeeps ==
    ASSUME NEW tabs, Ready(chunks, globals, tabs)
    PROVE  NamesKeepTheirSlot
<1>. SUFFICES ASSUME NEW c \in DOMAIN chunks, NEW n \in DOMAIN CodeOf(c),
                     NEW k \in DOMAIN CodeOf(c),
                     CodeOf(c)[n].name # NoName, CodeOf(c)[n].plain,
                     Cardinality(Meanings(c, CodeOf(c)[n].name)) <= 1,
                     CodeOf(c)[k].name # NoName, CodeOf(c)[k].plain,
                     Cardinality(Meanings(c, CodeOf(c)[k].name)) <= 1
              PROVE  CodeOf(c)[n].name = CodeOf(c)[k].name
                        <=> <<Space[CodeOf(c)[n].op], CodeOf(c)[n].wide>>
                              = <<Space[CodeOf(c)[k].op], CodeOf(c)[k].wide>>
  BY DEF NamesKeepTheirSlot
<1>. DEFINE one == chunks[c].code[n]
            two == chunks[c].code[k]
            top == tabs[1].infos.items
            own == tabs[c].infos.items
            domain1 == Space[one.op]
            domain2 == Space[two.op]
            items1 == SymbolsOf(domain1, globals, top, own)
            items2 == SymbolsOf(domain2, globals, top, own)
<1>1. /\ c \in 1 .. Len(chunks) /\ CodeOf(c) = chunks[c].code
      /\ n \in 1 .. Len(chunks[c].code) /\ k \in 1 .. Len(chunks[c].code)
      /\ one.name # NoName /\ one.plain /\ two.name # NoName /\ two.plain
      /\ Cardinality(Meanings(c, one.name)) <= 1
  BY ReadyParts
<1>0. NameMeant(c, one, tabs) /\ NameMeant(c, two, tabs)
  <2>1. \A d \in 1 .. Len(chunks) : \A m \in 1 .. Len(chunks[d].code) :
              chunks[d].code[m].name # NoName /\ chunks[d].code[m].plain =>
                 NameMeant(d, chunks[d].code[m], tabs)
    BY NameMeans
  <2>. QED  BY <1>1, <2>1
<1>2. /\ domain1 \in {"func", "global_var", "local", "upval"}
      /\ Find(items1, one.name, domain1) = Symbol(one.name, one.wide, domain1)
      /\ domain1 \in Meanings(c, one.name)
      /\ \E p \in 1 .. Len(items1) : /\ items1[p].name = one.name /\ items1[p].id = one.wide
                                     /\ items1[p].domain = domain1
  BY <1>0 DEF NameMeant
<1>3. /\ domain2 \in {"func", "global_var", "local", "upval"}
      /\ Find(items2, two.name, domain2) = Symbol(two.name, two.wide, domain2)
      /\ domain2 \in Meanings(c, two.name)
      /\ \E p \in 1 .. Len(items2) : /\ items2[p].name = two.name /\ items2[p].id = two.wide
                                     /\ items2[p].domain = domain2
  BY <1>0 DEF NameMeant
<1>4. ASSUME one.name = two.name
      PROVE  domain1 = domain2 /\ one.wide = two.wide
  <2>. DEFINE meanings == Meanings(c, one.name)
  <2>1. domain1 = domain2
    <3>1. meanings \subseteq {"func", "global_var", "local", "upval"}
      BY DEF Meanings
    <3>2. IsFiniteSet(meanings)
      <4>1. IsFiniteSet({"func", "global_var", "local", "upval"})
        <5>1. \A S, x : IsFiniteSet(S) => IsFiniteSet(S \cup {x})
          BY FS_AddElement
        <5>. DEFINE pair == {"func", "global_var"}
                    triple == pair \cup {"local"}
        <5>2. IsFiniteSet({"func"} \cup {"global_var"})
          BY <5>1, FS_Singleton
        <5>3. pair = {"func"} \cup {"global_var"}
              /\ triple \cup {"upval"} = {"func", "global_var", "local", "upval"}
          OBVIOUS
        <5>4. IsFiniteSet(pair)
          BY <5>2, <5>3
        <5>. HIDE DEF pair
        <5>5. IsFiniteSet(triple)
          BY <5>1, <5>4
        <5>. HIDE DEF triple
        <5>6. IsFiniteSet(triple \cup {"upval"})
          BY <5>1, <5>5
        <5>. QED  BY <5>3, <5>6
      <4>. HIDE DEF meanings
      <4>. QED  BY <3>1, <4>1, FS_Subset
    <3>3. domain1 \in meanings /\ domain2 \in meanings /\ Cardinality(meanings) <= 1
      BY <1>1, <1>2, <1>3, <1>4
    <3>. HIDE DEF meanings, domain1, domain2
    <3>4. Cardinality(meanings) \in Nat /\ Cardinality(meanings) # 0
      BY <3>2, <3>3, FS_CardinalityType, FS_EmptySet
    <3>5. Cardinality(meanings) = 1
      BY <3>3, <3>4
    <3>6. \E x : meanings = {x}
      BY <3>2, <3>5, FS_Singleton
    <3>. QED  BY <3>3, <3>6
  <2>2. Symbol(one.name, one.wide, domain1) = Symbol(two.name, two.wide, domain2)
    <3>1. items1 = items2
      BY <2>1
    <3>. HIDE DEF items1, items2, domain1, domain2, one, two
    <3>. QED  BY <1>2, <1>3, <1>4, <2>1, <3>1
  <2>. QED  BY <2>1, <2>2 DEF Symbol
<1>5. ASSUME domain1 = domain2, one.wide = two.wide
      PROVE  one.name = two.name
  <2>1. items1 = items2
    BY <1>5
  <2>2. /\ own \in Seq(SymbolType) /\ SlotsFit(tabs[c], chunks[c].uses)
        /\ OneOfAName(own) /\ OneOfAName(top) /\ OneOfAName(globals)
        /\ DOMAIN own = 1 .. Len(own) /\ DOMAIN top = 1 .. Len(top)
        /\ DOMAIN globals = 1 .. Len(globals)
    BY <1>1, ReadyParts, LenProperties DEF Ready
  <2>. HIDE DEF one, two
  <2>3. PICK p \in 1 .. Len(items1) : items1[p].name = one.name /\ items1[p].id = one.wide
                                      /\ items1[p].domain = domain1
    BY <1>2
  <2>4. PICK q \in 1 .. Len(items1) : items1[q].name = two.name /\ items1[q].id = one.wide
                                      /\ items1[q].domain = domain1
    <3>. HIDE DEF items1, items2, domain1, domain2
    <3>. QED  BY <1>3, <1>5, <2>1
  <2>5. CASE domain1 = "upval"
    <3>1. items1 = own
      BY <2>5 DEF SymbolsOf
    <3>2. own[p].name = chunks[c].uses[own[p].id + 1] /\ own[q].name = chunks[c].uses[own[q].id + 1]
      BY <2>2, <2>3, <2>4, <2>5, <3>1 DEF SlotsFit
    <3>. HIDE DEF own, items1, domain1
    <3>. QED  BY <2>3, <2>4, <3>1, <3>2
  <2>6. CASE domain1 # "upval"
    <3>1. domain1 \in Single
      BY <1>2, <2>6 DEF Single
    <3>2. items1 \in {own, top, globals}
      BY <1>2 DEF SymbolsOf
    <3>3. OneOfAName(items1) /\ DOMAIN items1 = 1 .. Len(items1)
      <4>. HIDE DEF own, top, items1
      <4>. QED  BY <2>2, <3>2
    <3>. HIDE DEF items1, domain1
    <3>4. p = q
      BY <2>3, <2>4, <3>1, <3>3 DEF OneOfAName
    <3>. QED  BY <2>3, <2>4, <3>4
  <2>. QED  BY <2>5, <2>6
<1>. HIDE DEF domain1, domain2
<1>6. one.name = two.name <=> <<domain1, one.wide>> = <<domain2, two.wide>>
  BY <1>4, <1>5
<1>. QED  BY <1>1, <1>6 DEF domain1, domain2
-----------------------------------------------------------------------------
(* What each step leaves of what names mean                                *)

(* What the tables of the top level and of the open routine are.           *)
LEMMA TablesAre ==
    ASSUME ScopeTypes, Nested, NEW chs, Len(chs) = Len(chunks), NEW tables,
           Len(tables) = Depth, NEW info, NEW tabs,
           Named(chs, nest, tables, globals, info, tabs)
    PROVE  /\ tabs[1] = tables[1] /\ tabs[chunk_idx] = tables[Depth]
           /\ tabs \in Seq(TableType) /\ Len(tabs) = Len(chunks)
           /\ 1 \in 1 .. Len(chunks) /\ tabs[1] \in TableType
           /\ chunk_idx \in 1 .. Len(chunks) /\ tabs[chunk_idx] \in TableType
           /\ tabs[1].infos.items \in Seq(SymbolType)
           /\ tabs[chunk_idx].infos.items \in Seq(SymbolType)
           /\ IsOpen(nest, chunk_idx)
<1>1. /\ Opened(nest, tables, tabs) /\ tabs \in Seq(TableType) /\ Len(tabs) = Len(chunks)
  BY DEF Named
<1>2. /\ chunk_idx = ChunkAt(nest, Len(nest)) /\ Depth = ScopeAt(nest, Len(nest))
      /\ Len(nest) \in Nat /\ ChunksOpen(nest, Len(chunks)) /\ chunk_idx \in 1 .. Len(chunks)
  BY OpenIs DEF Nested, Fit
<1>3. 0 \in 0 .. Len(nest) /\ Len(nest) \in 0 .. Len(nest)
  BY <1>2
<1>4. ChunkAt(nest, 0) = 1 /\ ScopeAt(nest, 0) = 1
  BY LevelZero
<1>5. 1 \in 1 .. Len(chunks)
  BY <1>2, <1>3, <1>4 DEF ChunksOpen
<1>6. tabs[1] = tables[1] /\ tabs[chunk_idx] = tables[Depth]
  <2>1. \A n \in 0 .. Len(nest) : tabs[ChunkAt(nest, n)] = tables[ScopeAt(nest, n)]
    BY <1>1 DEF Opened
  <2>2. /\ tabs[ChunkAt(nest, 0)] = tables[ScopeAt(nest, 0)]
        /\ tabs[ChunkAt(nest, Len(nest))] = tables[ScopeAt(nest, Len(nest))]
    BY <1>3, <2>1
  <2>. QED  BY <1>2, <1>4, <2>2
<1>7. tabs[1] \in TableType /\ tabs[chunk_idx] \in TableType
  BY <1>1, <1>2, <1>5, ElementOfSeq
<1>8. IsOpen(nest, chunk_idx)
  BY <1>2, <1>3 DEF IsOpen
<1>. QED  BY <1>1, <1>2, <1>5, <1>6, <1>7, <1>8, TableFields

(* Code that means what its names say.                                     *)
LEMMA NamesEmitted ==
    ASSUME ScopeTypes, Nested, NEW tables, Len(tables) = Depth, NEW info, NEW tabs,
           Named(chunks, nest, tables, globals, info, tabs),
           NEW more \in Seq(InsType), Emit(more),
           \A k \in 1 .. Len(more) :
               /\ Meant(more[k], globals, tabs[1].infos.items, tabs[chunk_idx].infos.items)
               /\ more[k].op # "mk_closure"
    PROVE  Named(chunks', nest, tables, globals, info, tabs)
<1>1. /\ chunks \in Seq(ChunkType) /\ chunks' \in Seq(ChunkType) /\ Recoded(chunks, chunks')
      /\ nest \in Seq(FrameType) /\ NestOK(nest) /\ ChunksOpen(nest, Len(chunks))
  BY EmitAdds DEF ScopeTypes, Nested, Fit
<1>2. \A c \in 1 .. Len(chunks) :
          \/ IsOpen(nest, c)
          \/ /\ chunks'[c].own = chunks[c].own
             /\ chunks'[c].code[1].wide = chunks[c].code[1].wide
  <2>1. IsOpen(nest, chunk_idx)
    BY TablesAre
  <2>2. \A c \in 1 .. Len(chunks) : c # chunk_idx => chunks'[c] = chunks[c]
    BY EmitIs
  <2>. QED  BY <2>1, <2>2
<1>3. \A c \in 1 .. Len(chunks) : \A n \in 1 .. Len(chunks'[c].code) :
          Len(chunks[c].code) < n =>
              /\ Meant(chunks'[c].code[n], globals, tabs[1].infos.items, tabs[c].infos.items)
              /\ chunks'[c].code[n].op = "mk_closure" =>
                    ClosureMeant(chunks', chunks'[c].code, n)
  <2>. SUFFICES ASSUME NEW c \in 1 .. Len(chunks), NEW n \in 1 .. Len(chunks'[c].code),
                       Len(chunks[c].code) < n
                PROVE  /\ Meant(chunks'[c].code[n], globals, tabs[1].infos.items,
                                tabs[c].infos.items)
                       /\ chunks'[c].code[n].op # "mk_closure"
    OBVIOUS
  <2>1. /\ c = chunk_idx /\ n - Len(chunks[c].code) \in 1 .. Len(more)
        /\ chunks'[c].code[n] = more[n - Len(chunks[c].code)]
    BY EmitAdds
  <2>. QED  BY <2>1
<1>. QED  BY <1>1, <1>2, <1>3, NamesRecoded

(* A scope that has grown.                                                 *)
LEMMA NamesScoped ==
    ASSUME ScopeTypes, Nested, NEW tabs,
           Named(chunks, nest, locals.items, globals, saved_info, tabs),
           NEW table \in TableType, Extends(Scope, table), Scoped(table),
           \A uses : GoodTable(Scope, uses) => GoodTable(table, uses)
    PROVE  LET grown == [tabs EXCEPT ![chunk_idx] = table]
           IN  /\ Named(chunks, nest, locals'.items, globals, saved_info, grown)
               /\ grown[1] = locals'.items[1] /\ grown[chunk_idx] = table
               /\ Len(locals'.items) = Depth
<1>. DEFINE tables == locals.items
            tables2 == locals'.items
            grown == [tabs EXCEPT ![chunk_idx] = table]
<1>1. /\ chunks \in Seq(ChunkType) /\ nest \in Seq(FrameType) /\ NestOK(nest)
      /\ ChunksOpen(nest, Len(chunks)) /\ tables \in Seq(TableType)
      /\ Len(tables) = ScopeAt(nest, Len(nest)) /\ globals \in Seq(SymbolType)
      /\ chunk_idx = ChunkAt(nest, Len(nest)) /\ Len(tables) = Depth /\ Scope = tables[Depth]
  BY OpenIs DEF ScopeTypes, Nested, Fit
<1>2. /\ Len(tables2) = Depth /\ tables2[Depth] = table
      /\ \A s \in 1 .. Depth : s # Depth => tables2[s] = tables[s]
  BY ScopedIs
<1>3. GoodTable(table, chunks[chunk_idx].uses)
  <2>1. tabs[chunk_idx] = tables[Depth] /\ chunk_idx \in 1 .. Len(chunks)
    BY <1>1, TablesAre
  <2>2. GoodTable(tabs[chunk_idx], chunks[chunk_idx].uses)
    BY <2>1 DEF Named, CodeMeant, ChunkMeant
  <2>. QED  BY <1>1, <2>1, <2>2
<1>. HIDE DEF tables, tables2
<1>4. Named(chunks, nest, tables2, globals, saved_info, grown)
  <2>1. /\ Named(chunks, nest, tables, globals, saved_info, tabs)
        /\ Extends(tables[Len(tables)], table) /\ tables2[Len(tables)] = table
        /\ \A s \in 1 .. Len(tables) : s # Len(tables) => tables2[s] = tables[s]
    BY <1>1, <1>2 DEF tables
  <2>. QED  BY <1>1, <1>3, <2>1, NamesGrow
<1>5. grown[1] = tables2[1] /\ grown[chunk_idx] = tables2[Depth]
  BY <1>2, <1>4, TablesAre
<1>. QED  BY <1>2, <1>4, <1>5 DEF tables2

(* A binding or a loop begins.                                             *)
LEMMA NamesOpen ==
    ASSUME ScopeTypes, Nested, NEW chs, NEW tables, NEW info, NEW info2, NEW tabs,
           Named(chs, nest, tables, globals, info, tabs),
           NEW others \in Seq(FrameType), NEW frame \in FrameType,
           Len(others) = Len(nest), Agree(nest, others, Len(nest)), ~IsRoutine(frame),
           IsLoop(frame) => frame.loop.pos = Len(loops.items) + 1,
           \A n \in 1 .. Len(nest) : others[n].kind = "assign" =>
               AssignMeant(others[n], ChunkAt(nest, n), globals, info2, tabs),
           frame.kind = "assign" => AssignMeant(frame, chunk_idx, globals, info2, tabs)
    PROVE  Named(chs, Append(others, frame), tables, globals, info2, tabs)
<1>. DEFINE size == Len(nest)
            opened == Append(others, frame)
<1>1. /\ nest \in Seq(FrameType) /\ NestOK(nest) /\ size \in Nat
      /\ Len(loops.items) = PlaceAt(nest, size) /\ chunk_idx = ChunkAt(nest, size)
  BY OpenIs DEF ScopeTypes, Nested, Fit
<1>2. SameRoutines(nest, opened)
  BY <1>1, RoutinesStay
<1>3. /\ Len(opened) = size + 1 /\ opened[size + 1] = frame
      /\ \A m \in 1 .. size : opened[m] = others[m]
      /\ \A m \in 0 .. size : ChunkAt(opened, m) = ChunkAt(nest, m)
      /\ ChunkAt(opened, size + 1) = ChunkAt(nest, size)
  BY <1>1, Opens
<1>. HIDE DEF opened, size
<1>4. AssignsMeant(opened, globals, info2, tabs)
  <2>. SUFFICES ASSUME NEW n \in 1 .. size + 1, opened[n].kind = "assign"
                PROVE  AssignMeant(opened[n], ChunkAt(opened, n), globals, info2, tabs)
    BY <1>3 DEF AssignsMeant
  <2>1. CASE n = size + 1
    BY <1>1, <1>3, <2>1
  <2>2. CASE n # size + 1
    <3>1. n \in 1 .. size /\ n \in 0 .. size
      BY <1>1, <2>2
    <3>. QED  BY <1>3, <3>1 DEF size
  <2>. QED  BY <2>1, <2>2
<1>5. Named(chs, opened, tables, globals, info2, tabs)
  BY <1>2, <1>4, NamesFollow
<1>. QED  BY <1>5 DEF opened

(* A binding or a loop ends.                                               *)
LEMMA NamesClose ==
    ASSUME ScopeTypes, Nested, nest # <<>>, ~IsRoutine(Frame),
           NEW chs, NEW tables, NEW info, NEW tabs,
           Named(chs, nest, tables, globals, info, tabs)
    PROVE  Named(chs, Front(nest), tables, globals, info, tabs)
<1>1. nest \in Seq(FrameType) /\ NestOK(nest)
  BY DEF ScopeTypes, Nested, Fit
<1>2. SameRoutines(nest, Front(nest))
  BY <1>1, RoutinesStay DEF Frame
<1>. DEFINE closed == Front(nest)
            n == Len(nest) - 1
<1>3. /\ Len(closed) = n /\ n \in Nat /\ Len(nest) = n + 1
      /\ \A m \in 1 .. n : closed[m] = nest[m]
      /\ \A m \in 0 .. n : ChunkAt(closed, m) = ChunkAt(nest, m)
  BY <1>1, Closes
<1>. HIDE DEF closed, n
<1>4. AssignsMeant(closed, globals, info, tabs)
  <2>. SUFFICES ASSUME NEW m \in 1 .. n, closed[m].kind = "assign"
                PROVE  AssignMeant(closed[m], ChunkAt(closed, m), globals, info, tabs)
    BY <1>3 DEF AssignsMeant
  <2>1. m \in 1 .. Len(nest) /\ m \in 0 .. n
    BY <1>3
  <2>. QED  BY <1>3, <2>1 DEF Named, AssignsMeant
<1>5. Named(chs, closed, tables, globals, info, tabs)
  BY <1>2, <1>4, NamesFollow DEF closed
<1>. QED  BY <1>5 DEF closed

(* Code means its names, with tables for the chunks that are open or done. *)
NamesMeant == \E tabs : Named(chunks, nest, locals.items, globals, saved_info, tabs)

(* An instruction that names nothing.                                      *)
LEMMA MeansNothing ==
    ASSUME NEW ins, ins.name = NoName, ins.op \notin DOMAIN Space, NEW funcs, NEW top, NEW own
    PROVE  Meant(ins, funcs, top, own)
  BY DEF Meant

(* What Find returns is a symbol of that name and domain.                  *)
LEMMA FoundNamed ==
    ASSUME NEW items \in Seq(SymbolType), NEW name, NEW domain \in Domains, NEW info,
           info = Find(items, name, domain), info # NoSymbol
    PROVE  info \in SymbolType /\ info = Symbol(name, info.id, domain)
<1>1. PICK p \in 1 .. Len(items) :
          /\ Find(items, name, domain) = items[p] /\ items[p] \in SymbolType
          /\ items[p].name = name /\ items[p].domain = domain
  BY FindIs
<1>2. items[p] = Symbol(items[p].name, items[p].id, items[p].domain)
  BY <1>1 DEF SymbolType, Symbol
<1>. QED  BY <1>1, <1>2

(* The load of what a name stands for.                                     *)
LEMMA LoadMeant ==
    ASSUME ScopeTypes, Nested, NEW name \in Names, Resolve(name) # NoSymbol
    PROVE  LET ins == Load(Resolve(name))
           IN  /\ ins \in InsType /\ ins.op # "mk_closure"
               /\ Meant(ins, globals, locals.items[1].infos.items, Scope.infos.items)
<1>. DEFINE symbol == Resolve(name)
            ins == Load(symbol)
            domain == symbol.domain
            items == SymbolsOf(domain, globals, locals.items[1].infos.items, Scope.infos.items)
<1>1. /\ symbol \in SymbolType /\ symbol.name = name
      /\ domain \in {"func", "global_var", "local", "upval"}
      /\ symbol = Find(items, name, domain)
  BY ResolveIs
<1>2. symbol = Symbol(name, symbol.id, domain)
  BY <1>1 DEF SymbolType, Symbol
<1>. HIDE DEF symbol, domain
<1>3. /\ ins \in InsType /\ ins.op \in DOMAIN Space /\ Space[ins.op] = domain
      /\ ins.name = name /\ ins.wide = symbol.id /\ ins.op # "mk_closure"
  BY <1>1, LoadIs DEF domain
<1>4. Find(items, name, domain) = Symbol(name, symbol.id, domain)
  BY <1>1, <1>2
<1>. HIDE DEF ins
<1>5. Meant(ins, globals, locals.items[1].infos.items, Scope.infos.items)
  BY <1>3, <1>4 DEF Meant
<1>. QED  BY <1>3, <1>5 DEF ins, symbol

(* A name that is read.                                                    *)
LEMMA ReadNameMeans ==
    ASSUME ScopeTypes, Nested, NamesMeant, NEW name \in Names, ReadName(name)
    PROVE  NamesMeant'
<1>. DEFINE ins == Load(Resolve(name))
            more == <<ins>>
<1>1. /\ Resolve(name) # NoSymbol /\ Emit(more) /\ nest' = nest /\ locals' = locals
      /\ globals' = globals /\ saved_info' = saved_info
  BY DEF ReadName, stack_vars
<1>2. PICK tabs : Named(chunks, nest, locals.items, globals, saved_info, tabs)
  BY DEF NamesMeant
<1>3. /\ ins \in InsType /\ ins.op # "mk_closure"
      /\ Meant(ins, globals, locals.items[1].infos.items, Scope.infos.items)
  BY <1>1, LoadMeant
<1>4. tabs[1] = locals.items[1] /\ tabs[chunk_idx] = Scope
  BY <1>2, TablesAre, OpenIs
<1>. HIDE DEF ins
<1>5. more \in Seq(InsType) /\ Len(more) = 1 /\ more[1] = ins
  BY <1>3, OneIs
<1>. HIDE DEF more
<1>6. Named(chunks', nest, locals.items, globals, saved_info, tabs)
  <2>1. Len(locals.items) = Depth
    BY OpenIs
  <2>2. \A k \in 1 .. Len(more) :
            /\ Meant(more[k], globals, tabs[1].infos.items, tabs[chunk_idx].infos.items)
            /\ more[k].op # "mk_closure"
    <3>1. \A k \in 1 .. Len(more) : more[k] = ins
      BY <1>5
    <3>. QED  BY <1>3, <1>4, <3>1
  <2>. QED  BY <1>1, <1>2, <1>5, <2>1, <2>2, NamesEmitted
<1>. QED  BY <1>1, <1>6 DEF NamesMeant

(* A constant that is read.                                                *)
LEMMA ReadConstantMeans ==
    ASSUME ScopeTypes, Nested, NamesMeant, NEW literal \in Literals, ReadConstant(literal)
    PROVE  NamesMeant'
<1>. DEFINE table == WithConstant(Scope, literal)
            symbol == Find(table.infos.items, literal, "constant")
            ins == Op("put_k", symbol.id)
            more == <<ins>>
<1>1. /\ Scoped(table) /\ Emit(more) /\ nest' = nest
      /\ globals' = globals /\ saved_info' = saved_info
  BY DEF ReadConstant
<1>2. PICK tabs : Named(chunks, nest, locals.items, globals, saved_info, tabs)
  BY DEF NamesMeant
<1>3. /\ table \in TableType /\ Extends(Scope, table) /\ ins \in InsType
      /\ \A uses : GoodTable(Scope, uses) => GoodTable(table, uses)
  BY ConstantIs
<1>4. ins.name = NoName /\ ins.op = "put_k"
  BY DEF Op, Ins
<1>5. ins.op \notin DOMAIN Space /\ ins.op # "mk_closure"
  BY <1>4 DEF Space
<1>. HIDE DEF ins, table
<1>6. more \in Seq(InsType) /\ Len(more) = 1 /\ more[1] = ins
  BY <1>3, OneIs
<1>. HIDE DEF more
<1>. DEFINE grown == [tabs EXCEPT ![chunk_idx] = table]
<1>7. Named(chunks, nest, locals'.items, globals, saved_info, grown) /\ Len(locals'.items) = Depth
  BY <1>1, <1>2, <1>3, NamesScoped
<1>. HIDE DEF grown
<1>8. \A k \in 1 .. Len(more) :
          /\ Meant(more[k], globals, grown[1].infos.items, grown[chunk_idx].infos.items)
          /\ more[k].op # "mk_closure"
  <2>1. \A k \in 1 .. Len(more) : more[k] = ins
    BY <1>6
  <2>. QED  BY <1>4, <1>5, <2>1, MeansNothing
<1>9. Named(chunks', nest, locals'.items, globals, saved_info, grown)
  BY <1>1, <1>6, <1>7, <1>8, NamesEmitted
<1>. QED  BY <1>1, <1>9 DEF NamesMeant

(* LET.                                                                    *)
LEMMA BeginLetMeans ==
    ASSUME ScopeTypes, Nested, NamesMeant, NEW name \in Names, BeginLet(name)
    PROVE  NamesMeant'
<1>1. chunks' = chunks /\ globals' = globals /\ saved_info' = saved_info
  BY DEF BeginLet
<1>2. PICK tabs : Named(chunks, nest, locals.items, globals, saved_info, tabs)
  BY DEF NamesMeant
<1>3. PICK table \in TableType, frame \in FrameType :
          /\ Scoped(table) /\ Extends(Scope, table)
          /\ \A uses : GoodTable(Scope, uses) => GoodTable(table, uses)
          /\ IsBinding(frame) /\ frame.kind = "let" /\ nest' = Append(nest, frame)
  BY BeginLetFits
<1>. DEFINE grown == [tabs EXCEPT ![chunk_idx] = table]
<1>4. Named(chunks, nest, locals'.items, globals, saved_info, grown)
  BY <1>2, <1>3, NamesScoped
<1>. HIDE DEF grown
<1>5. ~IsRoutine(frame) /\ ~IsLoop(frame) /\ frame.kind # "assign"
  BY <1>3, FrameKinds
<1>6. nest \in Seq(FrameType) /\ Agree(nest, nest, Len(nest))
  BY DEF ScopeTypes, Agree
<1>7. \A n \in 1 .. Len(nest) : nest[n].kind = "assign" =>
          AssignMeant(nest[n], ChunkAt(nest, n), globals, saved_info, grown)
  BY <1>4 DEF Named, AssignsMeant
<1>8. Named(chunks, Append(nest, frame), locals'.items, globals, saved_info, grown)
  BY <1>4, <1>5, <1>6, <1>7, NamesOpen
<1>. QED  BY <1>1, <1>3, <1>8 DEF NamesMeant

(* An assignment, which takes the place of those that it is the value of.  *)
LEMMA BeginAssignMeans ==
    ASSUME ScopeTypes, Nested, NamesMeant, NEW name \in Names, BeginAssign(name)
    PROVE  NamesMeant'
<1>. DEFINE symbol == Resolve(name)
            domain == symbol.domain
<1>1. /\ chunks' = chunks /\ globals' = globals /\ locals' = locals /\ symbol # NoSymbol
      /\ saved_info' = IF domain # "func" THEN symbol ELSE saved_info
  BY DEF BeginAssign
<1>2. PICK tabs : Named(chunks, nest, locals.items, globals, saved_info, tabs)
  BY DEF NamesMeant
<1>3. PICK others \in Seq(FrameType), frame \in FrameType :
          /\ Len(others) = Len(nest) /\ Agree(nest, others, Len(nest))
          /\ \A n \in 1 .. Len(nest) :
                others[n].kind = "assign" /\ others[n].plain =>
                    others[n] = nest[n] /\ domain = "func"
          /\ IsBinding(frame) /\ frame.kind = "assign" /\ frame.name = name
          /\ frame.domain = domain /\ nest' = Append(others, frame)
  BY BeginAssignFits
<1>4. ~IsRoutine(frame) /\ ~IsLoop(frame)
  BY <1>3, FrameKinds
<1>5. ASSUME NEW n \in 1 .. Len(nest), others[n].kind = "assign"
      PROVE  AssignMeant(others[n], ChunkAt(nest, n), globals, saved_info', tabs)
  <2>1. CASE others[n].plain
    <3>1. others[n] = nest[n] /\ saved_info' = saved_info
      BY <1>1, <1>3, <1>5, <2>1
    <3>. QED  BY <1>2, <1>5, <3>1 DEF Named, AssignsMeant
  <2>2. CASE ~others[n].plain
    BY <2>2 DEF AssignMeant
  <2>. QED  BY <2>1, <2>2
<1>6. AssignMeant(frame, chunk_idx, globals, saved_info', tabs)
  <2>. SUFFICES ASSUME frame.domain # "func"
                PROVE  /\ saved_info' # NoSymbol
                       /\ saved_info' = Find(SymbolsOf(frame.domain, globals,
                                                       tabs[1].infos.items,
                                                       tabs[chunk_idx].infos.items),
                                             frame.name, frame.domain)
    BY DEF AssignMeant
  <2>1. saved_info' = symbol
    BY <1>1, <1>3
  <2>2. symbol = Find(SymbolsOf(domain, globals, locals.items[1].infos.items,
                                Scope.infos.items), name, domain)
    BY <1>1, ResolveIs
  <2>3. tabs[1] = locals.items[1] /\ tabs[chunk_idx] = Scope
    BY <1>2, TablesAre, OpenIs
  <2>. HIDE DEF symbol, domain
  <2>. QED  BY <1>1, <1>3, <2>1, <2>2, <2>3
<1>7. Named(chunks, Append(others, frame), locals.items, globals, saved_info', tabs)
  BY <1>2, <1>3, <1>4, <1>5, <1>6, NamesOpen
<1>. QED  BY <1>1, <1>3, <1>7 DEF NamesMeant

(* The store of what a table has one symbol for.                           *)
LEMMA StoreMeant ==
    ASSUME NEW domain \in {"global_var", "local", "upval"}, NEW id \in Nat, NEW name \in Names,
           NEW funcs, NEW top, NEW own,
           Find(SymbolsOf(domain, funcs, top, own), name, domain) = Symbol(name, id, domain)
    PROVE  Meant(Ins(StoreOp[domain], 0, id, name), funcs, top, own)
<1>. DEFINE ins == Ins(StoreOp[domain], 0, id, name)
<1>1. /\ ins.op \in DOMAIN Space /\ Space[ins.op] = domain /\ ins.name = name /\ ins.wide = id
  BY DEF Ins, StoreOp, Space
<1>. HIDE DEF ins
<1>2. Meant(ins, funcs, top, own)
  BY <1>1 DEF Meant
<1>. QED  BY <1>2 DEF ins

(* One instruction that means its name, at the end of a binding.           *)
LEMMA NamesStored ==
    ASSUME ScopeTypes, Nested, nest # <<>>, ~IsRoutine(Frame), NEW tabs,
           Named(chunks, nest, locals.items, globals, saved_info, tabs),
           NEW ins \in InsType, ins.op # "mk_closure", Emit(<<ins>>),
           Meant(ins, globals, tabs[1].infos.items, tabs[chunk_idx].infos.items)
    PROVE  Named(chunks', Front(nest), locals.items, globals, saved_info, tabs)
<1>. DEFINE more == <<ins>>
<1>1. more \in Seq(InsType) /\ Len(more) = 1 /\ more[1] = ins /\ Emit(more)
  BY OneIs
<1>. HIDE DEF more
<1>2. Len(locals.items) = Depth
  BY OpenIs
<1>3. \A k \in 1 .. Len(more) :
          /\ Meant(more[k], globals, tabs[1].infos.items, tabs[chunk_idx].infos.items)
          /\ more[k].op # "mk_closure"
  <2>1. \A k \in 1 .. Len(more) : more[k] = ins
    BY <1>1
  <2>. QED  BY <2>1
<1>4. Named(chunks', nest, locals.items, globals, saved_info, tabs)
  BY <1>1, <1>2, <1>3, NamesEmitted
<1>. QED  BY <1>4, NamesClose

(* The store of a LET whose symbol is where it was.                        *)
LEMMA StoreLetMeans ==
    ASSUME ScopeTypes, Nested, NamesMeant, StoreLet, ~stale'
    PROVE  NamesMeant'
<1>. DEFINE domain == Frame.domain
            name == Frame.name
            pos == Frame.symbol.pos
            items == Scope.infos.items
<1>1. /\ InBinding("have") /\ Frame.kind = "let" /\ nest' = Front(nest) /\ globals' = globals
      /\ locals' = locals /\ saved_info' = saved_info
      /\ Reads(locals.items[Frame.depth].infos, Frame.symbol)
  BY DEF StoreLet
<1>2. PICK id \in IdsAt(locals.items[Frame.depth], Frame.symbol) :
          Emit(<<Ins(StoreOp[domain], 0, id, name)>>)
  BY DEF StoreLet
<1>3. PICK tabs : Named(chunks, nest, locals.items, globals, saved_info, tabs)
  BY DEF NamesMeant
<1>4. nest # <<>> /\ ~IsRoutine(Frame)
  BY <1>1 DEF InBinding, Nested, IsRoutine
<1>5. id \in Nat /\ Frame.depth = Depth
  BY <1>1, <1>2, LetSlotIs
<1>6. Frame \in LetFrame /\ LetMeant(Frame, Depth, locals.items)
  BY <1>1, <1>4, EndsIs
<1>7. /\ domain \in {"global_var", "local"} /\ name \in Names
      /\ domain = IF Depth = 1 THEN "global_var" ELSE "local"
      /\ pos \in 1 .. Len(items) /\ items[pos].name = name /\ items[pos].domain = domain
  BY <1>6, OpenIs DEF LetMeant, LetFrame
<1>8. id = items[pos].id
  <2>. DEFINE table == locals.items[Frame.depth]
  <2>1. Valid(table.infos, Frame.symbol)
    BY <1>1 DEF Reads
  <2>2. table = Scope
    BY <1>5, OpenIs
  <2>. QED  BY <1>2, <2>1, <2>2 DEF IdsAt
<1>9. /\ tabs[1] = locals.items[1] /\ tabs[chunk_idx] = Scope /\ chunk_idx \in 1 .. Len(chunks)
  BY <1>3, TablesAre, OpenIs
<1>10. Find(items, name, domain) = Symbol(name, id, domain)
  <2>1. GoodTable(Scope, chunks[chunk_idx].uses)
    <3>1. GoodTable(tabs[chunk_idx], chunks[chunk_idx].uses)
      BY <1>3, <1>9 DEF Named, CodeMeant, ChunkMeant
    <3>. QED  BY <1>9, <3>1
  <2>2. OneOfAName(items) /\ items \in Seq(SymbolType)
    BY <2>1, OpenIs, TableFields DEF GoodTable
  <2>3. items[pos].domain \in Single
    BY <1>7 DEF Single
  <2>. HIDE DEF items, pos, name, domain
  <2>4. Find(items, items[pos].name, items[pos].domain)
          = Symbol(items[pos].name, items[pos].id, items[pos].domain)
    BY <1>7, <2>2, <2>3, FoundOnce
  <2>. QED  BY <1>7, <1>8, <2>4
<1>11. SymbolsOf(domain, globals, tabs[1].infos.items, tabs[chunk_idx].infos.items) = items
  <2>1. Depth = 1 => locals.items[1] = Scope
    BY OpenIs
  <2>. HIDE DEF domain
  <2>. QED  BY <1>7, <1>9, <2>1 DEF SymbolsOf
<1>. HIDE DEF domain, name, items, pos
<1>. DEFINE ins == Ins(StoreOp[domain], 0, id, name)
<1>12. /\ ins \in InsType /\ ins.op # "mk_closure"
       /\ Meant(ins, globals, tabs[1].infos.items, tabs[chunk_idx].infos.items)
  <2>1. domain \in {"global_var", "local", "upval"}
    BY <1>7
  <2>2. ins \in InsType
    BY <1>1, <1>2, LetSlotIs DEF domain, name
  <2>3. ins.op # "mk_closure"
    BY <2>1 DEF Ins, StoreOp
  <2>. HIDE DEF ins
  <2>4. Find(SymbolsOf(domain, globals, tabs[1].infos.items, tabs[chunk_idx].infos.items),
             name, domain) = Symbol(name, id, domain)
    BY <1>10, <1>11
  <2>5. Meant(Ins(StoreOp[domain], 0, id, name), globals, tabs[1].infos.items,
              tabs[chunk_idx].infos.items)
    BY <1>5, <1>7, <2>1, <2>4, StoreMeant
  <2>. QED  BY <2>2, <2>3, <2>5 DEF ins
<1>. HIDE DEF ins
<1>13. Emit(<<ins>>)
  BY <1>2 DEF ins
<1>14. Named(chunks', Front(nest), locals.items, globals, saved_info, tabs)
  BY <1>3, <1>4, <1>12, <1>13, NamesStored
<1>. QED  BY <1>1, <1>14 DEF NamesMeant

(* The store of an assignment.                                             *)
LEMMA StoreAssignedMeans ==
    ASSUME ScopeTypes, Nested, NamesMeant, StoreAssigned
    PROVE  NamesMeant'
<1>. DEFINE domain == Frame.domain
            name == Frame.name
            id == saved_info.id
            ins == Ins(StoreOp[domain], 0, id, name)
            last == [ins EXCEPT !.plain = Frame.plain]
<1>1. /\ InBinding("have") /\ Frame.kind = "assign" /\ domain # "func"
      /\ nest' = Front(nest) /\ globals' = globals /\ locals' = locals
      /\ saved_info' = saved_info /\ Emit(<<last>>)
  BY DEF StoreAssigned
<1>2. PICK tabs : Named(chunks, nest, locals.items, globals, saved_info, tabs)
  BY DEF NamesMeant
<1>3. nest # <<>> /\ ~IsRoutine(Frame)
  BY <1>1 DEF InBinding, Nested, IsRoutine
<1>4. Frame \in AssignFrame /\ Len(nest) \in Nat \ {0} /\ Frame = nest[Len(nest)]
  BY <1>1, <1>3, EndsIs
<1>5. domain \in {"global_var", "local", "upval"} /\ name \in Names /\ Frame.plain \in BOOLEAN
  BY <1>1, <1>4 DEF AssignFrame
<1>6. id \in Nat
  <2>1. saved_info \in SymbolType \/ saved_info = NoSymbol
    BY DEF ScopeTypes
  <2>. QED  BY <2>1 DEF SymbolType, NoSymbol
<1>7. last \in InsType
  BY StoreAssignedFits
<1>8. /\ ins \in InsType /\ ins.op \in DOMAIN Space /\ Space[ins.op] = domain
      /\ ins.name = name /\ ins.wide = id /\ ins.op # "mk_closure"
      /\ ins.op # "load_imm_gid"
  <2>1. ins \in InsType
    BY <1>5, <1>6, StoreIs
  <2>. QED  BY <1>5, <2>1 DEF Ins, StoreOp, Space
<1>9. /\ last.op = ins.op /\ last.name = ins.name /\ last.wide = ins.wide
      /\ last.plain = Frame.plain
  <2>. HIDE DEF ins
  <2>. QED  BY <1>8 DEF InsType
<1>10. Frame.plain =>
          Find(SymbolsOf(domain, globals, tabs[1].infos.items, tabs[chunk_idx].infos.items),
               name, domain) = Symbol(name, id, domain)
  <2>. SUFFICES ASSUME Frame.plain
                PROVE  Find(SymbolsOf(domain, globals, tabs[1].infos.items,
                                      tabs[chunk_idx].infos.items), name, domain)
                          = Symbol(name, id, domain)
    OBVIOUS
  <2>. DEFINE items == SymbolsOf(domain, globals, tabs[1].infos.items,
                                 tabs[chunk_idx].infos.items)
  <2>1. AssignMeant(Frame, chunk_idx, globals, saved_info, tabs)
    <3>1. Len(nest) \in 1 .. Len(nest) /\ chunk_idx = ChunkAt(nest, Len(nest))
      BY <1>4 DEF Nested, Fit
    <3>2. AssignMeant(nest[Len(nest)], ChunkAt(nest, Len(nest)), globals, saved_info, tabs)
      BY <1>1, <1>2, <1>4, <3>1 DEF Named, AssignsMeant
    <3>. QED  BY <1>4, <3>1, <3>2
  <2>2. saved_info # NoSymbol /\ saved_info = Find(items, name, domain)
    BY <1>1, <2>1 DEF AssignMeant
  <2>3. items \in Seq(SymbolType)
    <3>1. Len(locals.items) = Depth
      BY OpenIs
    <3>2. /\ tabs[1].infos.items \in Seq(SymbolType)
          /\ tabs[chunk_idx].infos.items \in Seq(SymbolType)
      BY <1>2, <3>1, TablesAre
    <3>. QED  BY <3>2 DEF SymbolsOf, ScopeTypes
  <2>4. domain \in Domains
    BY <1>5 DEF Domains
  <2>. HIDE DEF items, domain, name
  <2>5. saved_info = Symbol(name, saved_info.id, domain)
    BY <2>2, <2>3, <2>4, FoundNamed
  <2>. QED  BY <2>2, <2>5 DEF items
<1>11. last.op # "load_imm_gid"
  BY <1>8, <1>9
<1>. HIDE DEF ins, last
<1>12. Meant(last, globals, tabs[1].infos.items, tabs[chunk_idx].infos.items)
  BY <1>8, <1>9, <1>10 DEF Meant
<1>13. Named(chunks', Front(nest), locals.items, globals, saved_info, tabs)
  BY <1>1, <1>2, <1>3, <1>7, <1>8, <1>9, <1>12, NamesStored
<1>. QED  BY <1>1, <1>13 DEF NamesMeant

(* A BREAK or CONTINUE names nothing.                                      *)
LEMMA LeaveMeans ==
    ASSUME ScopeTypes, Nested, NamesMeant, Break \/ Continue
    PROVE  NamesMeant'
<1>1. PICK kind \in {"break", "continue"}, list \in {"breaks", "continues"} : Leave(kind, list)
  BY DEF Break, Continue
<1>2. nest' = nest /\ globals' = globals /\ locals' = locals /\ saved_info' = saved_info
  BY <1>1 DEF Leave
<1>3. PICK tabs : Named(chunks, nest, locals.items, globals, saved_info, tabs)
  BY DEF NamesMeant
<1>4. \E ins \in InsType : Emit(<<ins>>) /\ ins.op = "jmp" /\ ins.name = NoName
  BY <1>1, LeaveIs
<1>5. PICK ins \in InsType : Emit(<<ins>>) /\ ins.op = "jmp" /\ ins.name = NoName
  BY <1>4
<1>6. ins.op \notin DOMAIN Space /\ ins.op # "mk_closure"
  BY <1>5 DEF Space
<1>. DEFINE more == <<ins>>
<1>7. more \in Seq(InsType) /\ Len(more) = 1 /\ more[1] = ins /\ Emit(more)
  BY <1>5, OneIs
<1>. HIDE DEF more
<1>8. \A k \in 1 .. Len(more) :
          /\ Meant(more[k], globals, tabs[1].infos.items, tabs[chunk_idx].infos.items)
          /\ more[k].op # "mk_closure"
  <2>1. \A k \in 1 .. Len(more) : more[k] = ins
    BY <1>7
  <2>. QED  BY <1>5, <1>6, <2>1, MeansNothing
<1>9. Len(locals.items) = Depth
  BY OpenIs
<1>10. Named(chunks', nest, locals.items, globals, saved_info, tabs)
  BY <1>3, <1>7, <1>8, <1>9, NamesEmitted
<1>. QED  BY <1>2, <1>10 DEF NamesMeant

(* Code that names nothing but what one store in it does, in front of a    *)
(* loop.                                                                   *)
LEMMA NamesLoop ==
    ASSUME ScopeTypes, Nested, NEW tables, Len(tables) = Depth, NEW tabs,
           Named(chunks, nest, tables, globals, saved_info, tabs), NEW info,
           NEW around \in Seq(FrameType), Len(around) = Len(nest),
           Agree(nest, around, Len(nest)),
           \A n \in 1 .. Len(nest) : around[n].kind = "assign" =>
               AssignMeant(around[n], ChunkAt(nest, n), globals, info, tabs),
           NEW more \in Seq(InsType), Emit(more),
           \A k \in 1 .. Len(more) :
               /\ Meant(more[k], globals, tabs[1].infos.items, tabs[chunk_idx].infos.items)
               /\ more[k].op # "mk_closure",
           NEW frame \in LoopFrame, IsLoop(frame), frame.loop.pos = Len(loops.items) + 1
    PROVE  Named(chunks', Append(around, frame), tables, globals, info, tabs)
<1>1. Named(chunks', nest, tables, globals, saved_info, tabs)
  BY NamesEmitted
<1>2. frame \in FrameType /\ ~IsRoutine(frame) /\ frame.kind # "assign"
  BY DEF FrameType, IsRoutine, IsLoop
<1>. QED  BY <1>1, <1>2, NamesOpen

(* WHILE.                                                                  *)
LEMMA BeginWhileMeans ==
    ASSUME ScopeTypes, Nested, NamesMeant, BeginWhile
    PROVE  NamesMeant'
<1>. DEFINE test == Op("put_bool", 0)
            jump == Op("jmp_false", 0)
            code == <<test, jump>>
<1>1. /\ EnterLoop(nest, "while", Here + 1, Here, Here + 2) /\ Emit(code)
      /\ globals' = globals /\ locals' = locals /\ saved_info' = saved_info
  BY DEF BeginWhile
<1>2. PICK tabs : Named(chunks, nest, locals.items, globals, saved_info, tabs)
  BY DEF NamesMeant
<1>3. test \in InsType /\ jump \in InsType
  BY DEF Op, Ins, InsType, Ops
<1>4. /\ test.name = NoName /\ jump.name = NoName
      /\ test.op = "put_bool" /\ jump.op = "jmp_false"
  BY DEF Op, Ins
<1>. HIDE DEF test, jump
<1>5. code \in Seq(InsType) /\ \A k \in 1 .. Len(code) : code[k] \in {test, jump}
  BY <1>3
<1>. HIDE DEF code
<1>6. \A k \in 1 .. Len(code) :
          /\ Meant(code[k], globals, tabs[1].infos.items, tabs[chunk_idx].infos.items)
          /\ code[k].op # "mk_closure"
  <2>1. /\ test.op \notin DOMAIN Space /\ jump.op \notin DOMAIN Space
        /\ test.op # "mk_closure" /\ jump.op # "mk_closure"
    BY <1>4 DEF Space
  <2>. QED  BY <1>4, <1>5, <2>1, MeansNothing
<1>7. /\ Here \in Nat /\ Here + 1 \in Nat /\ Here + 2 \in Nat
      /\ locals.items \in Seq(TableType) /\ Len(locals.items) = Depth
      /\ Fit(nest, Len(chunks), chunk_idx, locals.items, Len(loops.items))
      /\ nest \in Seq(FrameType) /\ Agree(nest, nest, Len(nest))
  BY OpenIs DEF Nested, ScopeTypes, Agree
<1>. DEFINE frame == Last(nest')
<1>8. /\ nest' = Append(nest, frame) /\ frame \in LoopFrame /\ IsLoop(frame)
      /\ frame.loop.pos = Len(loops.items) + 1
  <2>1. LoopEntered(nest, "while", Here + 1, Here, locals.items, frame)
    BY <1>1, <1>7, EnterLoopFits
  <2>. QED  BY <2>1 DEF LoopEntered
<1>. HIDE DEF frame
<1>9. \A n \in 1 .. Len(nest) : nest[n].kind = "assign" =>
          AssignMeant(nest[n], ChunkAt(nest, n), globals, saved_info, tabs)
  BY <1>2 DEF Named, AssignsMeant
<1>10. Named(chunks', Append(nest, frame), locals.items, globals, saved_info, tabs)
  BY <1>1, <1>2, <1>5, <1>6, <1>7, <1>8, <1>9, NamesLoop
<1>. QED  BY <1>1, <1>8, <1>10 DEF NamesMeant

(* FOR, with its counter where it was: the update finds it there, too.     *)
LEMMA BeginForMeans ==
    ASSUME ScopeTypes, Nested, NamesMeant, NEW name \in Names, NEW literal \in Literals,
           BeginFor(name, literal), ~stale'
    PROVE  NamesMeant'
<1>. DEFINE table == WithConstant(Scope, literal)
            k == Find(table.infos.items, literal, "constant").id
            pos == PositionOf(Scope, name, "local")
            counter == Address(Scope.infos, pos)
            items == Scope.infos.items
            now == Resolve(name).id
            code(id) == <<Op("put_k", k), Ins("store_local", 0, id, name)>>
                            \o ForCode(k, now, name)
<1>1. /\ Resolve(name).domain = "local" /\ Scoped(table) /\ Reads(table.infos, counter)
      /\ EnterLoop(Overwritten, "for", Here + 2 + 1, Here + 2 + 3, Here + 2 + 7)
      /\ globals' = globals
  BY DEF BeginFor
<1>2. PICK id \in IdsAt(table, counter) : Emit(code(id))
  BY DEF BeginFor
<1>3. PICK tabs : Named(chunks, nest, locals.items, globals, saved_info, tabs)
  BY DEF NamesMeant
<1>4. Valid(table.infos, counter)
  BY <1>1 DEF Reads
<1>5. /\ id \in Nat /\ id = items[pos].id /\ items[pos] = Find(items, name, "local")
      /\ items[pos] \in SymbolType
  BY <1>1, <1>2, <1>4, CounterIs
<1>5a. now = id
  <2>1. Resolve(name) # NoSymbol
    BY <1>1 DEF NoSymbol
  <2>2. Resolve(name) = Find(SymbolsOf("local", globals, locals.items[1].infos.items,
                                       items), name, "local")
    BY <1>1, <2>1, ResolveIs
  <2>. QED  BY <1>5, <2>2 DEF SymbolsOf
<1>6. /\ table \in TableType /\ Extends(Scope, table) /\ k \in Nat
      /\ \A uses : GoodTable(Scope, uses) => GoodTable(table, uses)
  BY ConstantIs
<1>7. Find(table.infos.items, name, "local") = Symbol(name, id, "local")
  <2>. DEFINE more == table.infos.items
              symbol == items[pos]
  <2>1. items \in Seq(SymbolType) /\ more \in Seq(SymbolType) /\ "local" \in Domains
    BY <1>6, OpenIs, TableFields DEF Domains
  <2>2. Longer(items, more)
    BY <1>6 DEF Extends
  <2>3. symbol # NoSymbol /\ symbol = Find(items, name, "local") /\ symbol.id = id
    <3>1. items[pos].domain # "none"
      BY <1>5 DEF SymbolType, Domains
    <3>. QED  BY <1>5, <3>1 DEF NoSymbol
  <2>. HIDE DEF items, more, symbol
  <2>4. symbol = Symbol(name, symbol.id, "local")
    BY <2>1, <2>3, FoundNamed
  <2>5. Find(more, name, "local") = Find(items, name, "local")
    BY <2>1, <2>2, <2>3, FindGrows
  <2>6. Find(more, name, "local") = Symbol(name, id, "local")
    BY <2>3, <2>4, <2>5
  <2>. QED  BY <2>6 DEF more
<1>. HIDE DEF table, k, items, pos, counter, now
<1>. DEFINE grown == [tabs EXCEPT ![chunk_idx] = table]
<1>8. /\ Named(chunks, nest, locals'.items, globals, saved_info, grown)
      /\ grown[chunk_idx] = table /\ Len(locals'.items) = Depth
  BY <1>1, <1>3, <1>6, NamesScoped
<1>. HIDE DEF grown
<1>. DEFINE more == code(id)
            store == Ins("store_local", 0, id, name)
<1>9. /\ more \in Seq(InsType) /\ Len(more) = 9
      /\ more[1] = Op("put_k", k) /\ more[2] = store
      /\ more[3] = Op("put_bool", 0) /\ more[4] = Op("jmp_false", 0)
      /\ more[5] = Op("jmp", 5) /\ more[6] = Op("nop", 0) /\ more[7] = Op("put_k", k)
      /\ more[8] = store /\ more[9] = Ins("jmp", 1, 6, NoName)
  <2>1. more = WholeFor(k, id, now, name)
    BY DEF WholeFor
  <2>. HIDE DEF more
  <2>2. ForIs(more, k, id, id, name)
    BY <1>5, <1>5a, <1>6, <2>1, ForCodeIs
  <2>. QED  BY <2>2 DEF ForIs
<1>10. Emit(more)
  BY <1>2
<1>. HIDE DEF more
<1>11. ASSUME NEW n \in 1 .. Len(more)
       PROVE  /\ Meant(more[n], globals, grown[1].infos.items, grown[chunk_idx].infos.items)
              /\ more[n].op # "mk_closure"
  <2>1. CASE n \in {2, 8}
    <3>1. store.op = "store_local" /\ store.name = name /\ store.wide = id
      BY DEF Ins
    <3>2. store.op \in DOMAIN Space /\ Space[store.op] = "local"
      BY <3>1 DEF Space
    <3>. HIDE DEF store
    <3>3. Find(SymbolsOf("local", globals, grown[1].infos.items,
                         grown[chunk_idx].infos.items), name, "local")
             = Symbol(name, id, "local")
      BY <1>7, <1>8 DEF SymbolsOf
    <3>4. Meant(store, globals, grown[1].infos.items, grown[chunk_idx].infos.items)
      BY <3>1, <3>2, <3>3 DEF Meant
    <3>. QED  BY <1>9, <2>1, <3>1, <3>4
  <2>2. CASE n \notin {2, 8}
    <3>1. n \in {1, 3, 4, 5, 6, 7, 9}
      BY <1>9, <2>2
    <3>2. more[n].name = NoName /\ more[n].op \in {"put_k", "put_bool", "jmp_false", "jmp",
                                                   "nop"}
      <4>1. \A i \in {1, 3, 4, 5, 6, 7, 9} :
                more[i].name = NoName /\ more[i].op \in {"put_k", "put_bool", "jmp_false",
                                                         "jmp", "nop"}
        BY <1>9 DEF Op, Ins
      <4>. QED  BY <3>1, <4>1
    <3>3. more[n].op \notin DOMAIN Space /\ more[n].op # "mk_closure"
      BY <3>2 DEF Space
    <3>. QED  BY <3>2, <3>3, MeansNothing
  <2>. QED  BY <2>1, <2>2
<1>12. /\ locals' \in VecOf(TableType)
       /\ Fit(nest, Len(chunks), chunk_idx, locals'.items, Len(loops.items))
  BY <1>1, <1>6, ScopedIs
<1>13. locals'.items \in Seq(TableType)
  BY <1>12 DEF VecOf
<1>14. Here + 2 + 1 \in Nat /\ Here + 2 + 3 \in Nat /\ Here + 2 + 7 \in Nat
  <2>1. Here \in Nat
    BY OpenIs
  <2>. QED  BY <2>1
<1>. DEFINE frame == Last(nest')
<1>15. /\ nest' = Append(Overwritten, frame) /\ frame \in LoopFrame /\ IsLoop(frame)
       /\ frame.loop.pos = Len(loops.items) + 1
  <2>1. LoopEntered(Overwritten, "for", Here + 2 + 1, Here + 2 + 3, locals'.items, frame)
    BY <1>1, <1>12, <1>13, <1>14, OverwrittenIs, EnterLoopFits
  <2>. QED  BY <2>1 DEF LoopEntered
<1>. HIDE DEF frame
<1>16. \A n \in 1 .. Len(nest) : Overwritten[n].kind = "assign" =>
           AssignMeant(Overwritten[n], ChunkAt(nest, n), globals, saved_info', grown)
  BY OverwrittenIs DEF AssignMeant
<1>17. Named(chunks', Append(Overwritten, frame), locals'.items, globals, saved_info', grown)
  BY <1>8, <1>9, <1>10, <1>11, <1>15, <1>16, OverwrittenIs, NamesLoop
<1>. QED  BY <1>1, <1>15, <1>17 DEF NamesMeant

(* A loop that ends patches jumps, which name nothing.                     *)
LEMMA EndLoopMeans ==
    ASSUME ScopeTypes, Nested, Jumped, NamesMeant, nest # <<>>, IsLoop(Frame),
           NEW tail \in Seq(InsType),
           \A k \in 1 .. Len(tail) : tail[k] \in {Op("jmp", 0), Op("nop", 0)},
           NEW exit \in Nat, NEW back \in Nat, Here <= back, EndLoop(tail, exit, back), ~stale'
    PROVE  NamesMeant'
<1>. DEFINE new == chunks'[chunk_idx].code
            last == Len(loops.items)
            loop == loops.items[last]
<1>1. nest' = Front(nest) /\ globals' = globals /\ locals' = locals /\ saved_info' = saved_info
  BY DEF EndLoop
<1>2. PICK tabs : Named(chunks, nest, locals.items, globals, saved_info, tabs)
  BY DEF NamesMeant
<1>3. /\ Here <= Len(new)
      /\ \A n \in 1 .. Here :
            /\ new[n].op = Code[n].op /\ new[n].name = Code[n].name
            /\ new[n].plain = Code[n].plain
            /\ n - 1 \notin loop.breaks \cup loop.continues /\ n # Frame.out + 1 =>
                  new[n] = Code[n]
      /\ \A n \in 1 .. Len(new) : Here < n =>
            new[n].op \in {"jmp", "nop"} /\ new[n].name = NoName
  BY LoopCode
<1>4. /\ chunks \in Seq(ChunkType) /\ chunks' \in Seq(ChunkType) /\ Len(chunks') = Len(chunks)
      /\ chunks'[chunk_idx].argc = chunks[chunk_idx].argc
      /\ chunks'[chunk_idx].uses = chunks[chunk_idx].uses
      /\ chunks'[chunk_idx].own = chunks[chunk_idx].own
      /\ \A c \in 1 .. Len(chunks) : c # chunk_idx => chunks'[c] = chunks[c]
  BY EndLoopIs DEF ScopeTypes
<1>5. \A n \in 1 .. Here : SameMeaning(Code[n], new[n])
  <2>. SUFFICES ASSUME NEW n \in 1 .. Here, Code[n].op \in DOMAIN Space \cup {"mk_closure"}
                PROVE  new[n].wide = Code[n].wide
    BY <1>3 DEF SameMeaning
  <2>1. /\ Len(nest) \in 1 .. Len(nest) /\ Frame = nest[Len(nest)]
        /\ Frame.loop.pos = last /\ chunk_idx = ChunkAt(nest, Len(nest))
        /\ Code = chunks[chunk_idx].code
    BY EndsIs, OpenIs DEF Nested, Fit
  <2>2. LoopMeant(chunks, nest, loops.items, Len(nest))
    BY <2>1 DEF Jumped, LoopsMeant
  <2>3. /\ Code[Frame.out + 1].op = "jmp_false"
        /\ \A kind \in {"break", "continue"} : \A p \in Recorded(loop, kind) :
              Code[p + 1].op = "jmp"
    BY <2>1, <2>2 DEF LoopMeant
  <2>4. Code[n].op # "jmp_false" /\ Code[n].op # "jmp"
    BY DEF Space
  <2>5. n # Frame.out + 1
    BY <2>3, <2>4
  <2>6. n - 1 \notin loop.breaks \cup loop.continues
    <3>1. n - 1 + 1 = n
      BY OpenIs
    <3>2. \A kind \in {"break", "continue"} : n - 1 \notin Recorded(loop, kind)
      <4>. DEFINE p == n - 1
      <4>1. p + 1 = n
        BY <3>1
      <4>. HIDE DEF p
      <4>2. \A kind \in {"break", "continue"} : p \notin Recorded(loop, kind)
        BY <2>3, <2>4, <4>1
      <4>. QED  BY <4>2 DEF p
    <3>. QED  BY <3>2 DEF Recorded
  <2>. QED  BY <1>3, <2>5, <2>6
<1>6. Recoded(chunks, chunks')
  <2>1. \A c \in 1 .. Len(chunks) : c # chunk_idx =>
            /\ Len(chunks[c].code) <= Len(chunks'[c].code)
            /\ \A n \in 1 .. Len(chunks[c].code) :
                  SameMeaning(chunks[c].code[n], chunks'[c].code[n])
    <3>1. \A c \in 1 .. Len(chunks) : Len(chunks[c].code) \in Nat
      BY <1>4, ElementOfSeq, ChunkFields
    <3>. QED  BY <1>4, <3>1 DEF SameMeaning
  <2>2. Code = chunks[chunk_idx].code /\ Here = Len(Code)
    BY OpenIs
  <2>. HIDE DEF new
  <2>. QED  BY <1>3, <1>4, <1>5, <2>1, <2>2 DEF Recoded, new
<1>7. IsOpen(nest, chunk_idx)
  BY <1>2, TablesAre, OpenIs
<1>8. \A c \in 1 .. Len(chunks) :
          \/ IsOpen(nest, c)
          \/ /\ chunks'[c].own = chunks[c].own
             /\ chunks'[c].code[1].wide = chunks[c].code[1].wide
  BY <1>4, <1>7
<1>9. \A c \in 1 .. Len(chunks) : \A n \in 1 .. Len(chunks'[c].code) :
          Len(chunks[c].code) < n =>
              /\ Meant(chunks'[c].code[n], globals, tabs[1].infos.items, tabs[c].infos.items)
              /\ chunks'[c].code[n].op = "mk_closure" =>
                    ClosureMeant(chunks', chunks'[c].code, n)
  <2>. SUFFICES ASSUME NEW c \in 1 .. Len(chunks), NEW n \in 1 .. Len(chunks'[c].code),
                       Len(chunks[c].code) < n
                PROVE  /\ Meant(chunks'[c].code[n], globals, tabs[1].infos.items,
                                tabs[c].infos.items)
                       /\ chunks'[c].code[n].op # "mk_closure"
    OBVIOUS
  <2>1. c = chunk_idx
    <3>1. chunks[c] \in ChunkType
      BY <1>4, ElementOfSeq
    <3>2. Len(chunks[c].code) \in Nat
      BY <3>1, ChunkFields
    <3>3. ~(Len(chunks[c].code) < n) \/ chunks'[c] # chunks[c]
      BY <3>2
    <3>. QED  BY <1>4, <3>3
  <2>2. chunks'[c].code[n].op \in {"jmp", "nop"} /\ chunks'[c].code[n].name = NoName
    BY <1>3, <2>1, OpenIs
  <2>3. chunks'[c].code[n].op \notin DOMAIN Space
    BY <2>2 DEF Space
  <2>. QED  BY <2>2, <2>3, MeansNothing
<1>10. nest \in Seq(FrameType) /\ NestOK(nest) /\ ChunksOpen(nest, Len(chunks))
  BY DEF ScopeTypes, Nested, Fit
<1>. HIDE DEF new
<1>11. Named(chunks', nest, locals.items, globals, saved_info, tabs)
  BY <1>2, <1>4, <1>6, <1>8, <1>9, <1>10, NamesRecoded
<1>12. ~IsRoutine(Frame)
  BY DEF IsLoop, IsRoutine
<1>13. Named(chunks', Front(nest), locals.items, globals, saved_info, tabs)
  BY <1>11, <1>12, NamesClose
<1>. QED  BY <1>1, <1>13 DEF NamesMeant

(* Loops that end.                                                         *)
LEMMA LoopEndsMeans ==
    ASSUME ScopeTypes, Nested, Jumped, NamesMeant, EndWhile \/ EndFor, ~stale'
    PROVE  NamesMeant'
<1>. DEFINE back == Here + Len(Filler)
<1>1. /\ back \in Nat /\ back + 1 \in Nat /\ Here <= back
      /\ <<Op("jmp", 0)>> \in Seq(InsType) /\ <<Op("jmp", 0), Op("nop", 0)>> \in Seq(InsType)
  BY BackIs, FillerIs, OpenIs
<1>2. CASE EndWhile
  <2>. DEFINE tail == <<Op("jmp", 0)>>
  <2>1. nest # <<>> /\ IsLoop(Frame) /\ EndLoop(tail, back + 1, back)
    BY <1>2 DEF EndWhile, IsLoop
  <2>2. \A k \in 1 .. Len(tail) : tail[k] \in {Op("jmp", 0), Op("nop", 0)}
    OBVIOUS
  <2>. HIDE DEF tail, back
  <2>. QED  BY <1>1, <2>1, <2>2, EndLoopMeans DEF tail
<1>3. CASE EndFor
  <2>. DEFINE tail == <<Op("jmp", 0), Op("nop", 0)>>
  <2>1. nest # <<>> /\ IsLoop(Frame) /\ EndLoop(tail, back + 1, back)
    BY <1>3 DEF EndFor, IsLoop
  <2>2. \A k \in 1 .. Len(tail) : tail[k] \in {Op("jmp", 0), Op("nop", 0)}
    OBVIOUS
  <2>. HIDE DEF tail, back
  <2>. QED  BY <1>1, <2>1, <2>2, EndLoopMeans DEF tail
<1>. QED  BY <1>2, <1>3

(* A routine that begins.                                                  *)
LEMMA EnterMeans ==
    ASSUME ScopeTypes, Nested, NamesMeant, NEW kind \in {"lambda", "func"}, NEW ids \in Seq(Nat),
           NEW params \in Seq(Names), NEW uses \in Seq(Names), Len(ids) = Len(uses),
           Enter(kind, chunk_idx, ids, params, uses),
           kind = "lambda" => nest # <<>> /\ IsBinding(Frame),
           globals' \in Seq(SymbolType), Longer(globals, globals'),
           FunctionsMeant(globals', Len(chunks) + 1), saved_info' = saved_info,
           \A k \in 1 .. Len(ids) :
               Find(Scope.infos.items, uses[k], "local") = Symbol(uses[k], ids[k], "local")
    PROVE  NamesMeant'
<1>. DEFINE table == WithCaptures(WithParams(params), uses)
            frame == [kind |-> kind, old |-> chunk_idx, captured |-> uses, ids |-> ids,
                      chunk |-> Len(chunks) + 1, body |-> 1,
                      scope |-> Address(AnyVecPushed(locals, table), Depth + 1)]
<1>1. /\ chunks' \in Seq(ChunkType) /\ Len(chunks') = Len(chunks) + 1
      /\ chunks'[Len(chunks) + 1] = NewChunk(table, uses)
      /\ \A c \in 1 .. Len(chunks) : chunks'[c] = chunks[c]
      /\ table \in TableType /\ GoodTable(table, uses)
      /\ locals'.items = Append(locals.items, table)
      /\ nest' = Append(nest, frame) /\ frame \in FrameType /\ IsRoutine(frame)
  BY EnterFits
<1>2. PICK tabs : Named(chunks, nest, locals.items, globals, saved_info, tabs)
  BY DEF NamesMeant
<1>3. /\ frame.old = chunk_idx /\ frame.scope.pos = Depth + 1 /\ frame.ids = ids
      /\ frame.chunk = Len(chunks) + 1 /\ frame.captured = uses
  BY DEF Address
<1>4. /\ chunks \in Seq(ChunkType) /\ nest \in Seq(FrameType) /\ NestOK(nest)
      /\ ChunksOpen(nest, Len(chunks)) /\ locals.items \in Seq(TableType)
      /\ Len(locals.items) = ScopeAt(nest, Len(nest)) /\ Depth = Len(locals.items)
      /\ Scope = locals.items[Len(locals.items)] /\ chunk_idx = ChunkAt(nest, Len(nest))
      /\ globals \in Seq(SymbolType)
  BY OpenIs DEF ScopeTypes, Nested, Fit
<1>. HIDE DEF table, frame
<1>5. Named(chunks', Append(nest, frame), Append(locals.items, table), globals', saved_info,
            Append(tabs, table))
  <2>1. /\ frame.old = ChunkAt(nest, Len(nest)) /\ frame.scope.pos = Len(locals.items) + 1
        /\ \A k \in 1 .. Len(frame.ids) :
              Find(locals.items[Len(locals.items)].infos.items, uses[k], "local")
                 = Symbol(uses[k], frame.ids[k], "local")
    BY <1>3, <1>4
  <2>. QED  BY <1>1, <1>2, <1>3, <1>4, <2>1, NamesEnter
<1>. QED  BY <1>1, <1>5 DEF NamesMeant

(* A lambda.                                                               *)
LEMMA BeginLambdaMeans ==
    ASSUME ScopeTypes, Nested, NamesMeant, NEW params \in ParamLists, NEW uses \in UsesLists,
           BeginLambda(params, uses)
    PROVE  NamesMeant'
<1>. DEFINE ids == [n \in DOMAIN uses |-> IdsOf(uses)[n].id]
<1>1. /\ Enter("lambda", chunk_idx, ids, params, uses) /\ expr = "want"
      /\ \A n \in DOMAIN uses : IdsOf(uses)[n] # NoSymbol
      /\ globals' = globals /\ saved_info' = saved_info
  BY DEF BeginLambda, InBinding
<1>2. params \in Seq(Names) /\ uses \in Seq(Names)
  BY ScopesAssumption
<1>3. /\ ids \in Seq(Nat) /\ Len(ids) = Len(uses)
      /\ \A n \in 1 .. Len(uses) :
            Find(Scope.infos.items, uses[n], "local") = Symbol(uses[n], ids[n], "local")
  BY <1>1, <1>2, IdsOfIs
<1>. HIDE DEF ids
<1>4. nest # <<>> /\ IsBinding(Frame) /\ globals \in Seq(SymbolType)
      /\ Len(chunks) \in Nat
  BY <1>1, OpenIs DEF Nested, ScopeTypes
<1>5. Longer(globals, globals') /\ FunctionsMeant(globals', Len(chunks) + 1)
  <2>1. PICK tabs : Named(chunks, nest, locals.items, globals, saved_info, tabs)
    BY DEF NamesMeant
  <2>2. FunctionsMeant(globals, Len(chunks))
    BY <2>1 DEF Named
  <2>3. \A p \in 1 .. Len(globals) : globals[p].id \in 1 .. Len(chunks) + 1
    BY <1>4, <2>2 DEF FunctionsMeant
  <2>4. Len(globals) \in Nat
    BY <1>4, LenProperties
  <2>. QED  BY <1>1, <2>2, <2>3, <2>4 DEF FunctionsMeant, Longer
<1>. QED  BY <1>1, <1>2, <1>3, <1>4, <1>5, EnterMeans

(* What Find does not find is not there.                                   *)
LEMMA NotFound ==
    ASSUME NEW items \in Seq(SymbolType), NEW name, NEW domain \in Domains,
           Find(items, name, domain) = NoSymbol
    PROVE  \A p \in 1 .. Len(items) : ~(items[p].name = name /\ items[p].domain = domain)
  BY FindIs

(* A function, of a name that is new or has a chunk.                       *)
LEMMA BeginFuncMeans ==
    ASSUME ScopeTypes, Nested, NamesMeant, NEW name \in Routines, NEW params \in ParamLists,
           BeginFunc(name, params)
    PROVE  NamesMeant'
<1>. DEFINE symbol == Symbol(name, Len(chunks) + 1, "func")
<1>1. /\ globals' = IF Find(globals, name, "func") # NoSymbol THEN globals
                    ELSE Append(globals, symbol)
      /\ saved_info' = saved_info
  BY DEF BeginFunc
<1>2. /\ Enter("func", chunk_idx, <<>>, params, <<>>) /\ globals' \in Seq(SymbolType)
      /\ globals \in Seq(SymbolType) /\ Len(chunks) \in Nat /\ Len(globals) \in Nat
      /\ DOMAIN globals = 1 .. Len(globals) /\ params \in Seq(Names)
  BY BeginFuncFits, OpenIs, LenProperties, ScopesAssumption DEF ScopeTypes
<1>3. symbol.name = name /\ symbol.id = Len(chunks) + 1 /\ symbol.domain = "func"
      /\ symbol \in SymbolType
  BY <1>2, ScopesAssumption DEF Symbol, SymbolType, Domains
<1>4. FunctionsMeant(globals, Len(chunks))
  BY DEF NamesMeant, Named
<1>. HIDE DEF symbol
<1>5. Longer(globals, globals') /\ FunctionsMeant(globals', Len(chunks) + 1)
  <2>1. CASE Find(globals, name, "func") # NoSymbol
    <3>1. \A p \in 1 .. Len(globals) : globals[p].id \in 1 .. Len(chunks) + 1
      BY <1>2, <1>4 DEF FunctionsMeant
    <3>. QED  BY <1>1, <1>2, <1>4, <2>1, <3>1 DEF FunctionsMeant, Longer
  <2>2. CASE Find(globals, name, "func") = NoSymbol
    <3>1. /\ globals' = Append(globals, symbol) /\ Len(globals') = Len(globals) + 1
          /\ globals'[Len(globals) + 1] = symbol
          /\ \A p \in 1 .. Len(globals) : globals'[p] = globals[p]
      BY <1>1, <1>2, <1>3, <2>2, AppendIs
    <3>2. DOMAIN globals' = 1 .. Len(globals) + 1
      BY <1>2, <3>1, LenProperties
    <3>3. \A p \in 1 .. Len(globals) :
              /\ globals[p].domain = "func" /\ globals[p].id \in 1 .. Len(chunks)
              /\ globals[p].name # name
      <4>1. \A p \in 1 .. Len(globals) :
                ~(globals[p].name = name /\ globals[p].domain = "func")
        <5>1. "func" \in Domains
          BY DEF Domains
        <5>. QED  BY <1>2, <2>2, <5>1, NotFound
      <4>. QED  BY <1>4, <4>1 DEF FunctionsMeant
    <3>4. OneOfAName(globals')
      <4>. SUFFICES ASSUME NEW p \in DOMAIN globals', NEW q \in DOMAIN globals',
                           globals'[p].domain = globals'[q].domain,
                           globals'[p].domain \in Single,
                           globals'[p].name = globals'[q].name
                              \/ globals'[p].id = globals'[q].id
                    PROVE  p = q
        BY DEF OneOfAName
      <4>1. CASE p \in 1 .. Len(globals) /\ q \in 1 .. Len(globals)
        <5>1. OneOfAName(globals)
          BY <1>4 DEF FunctionsMeant
        <5>. QED  BY <1>2, <3>1, <4>1, <5>1 DEF OneOfAName
      <4>2. CASE p \in 1 .. Len(globals) /\ q = Len(globals) + 1
        <5>1. globals[p].name = name \/ globals[p].id = Len(chunks) + 1
          BY <1>3, <3>1, <4>2
        <5>. QED  BY <1>2, <3>3, <4>2, <5>1
      <4>3. CASE q \in 1 .. Len(globals) /\ p = Len(globals) + 1
        <5>1. globals[q].name = name \/ globals[q].id = Len(chunks) + 1
          BY <1>3, <3>1, <4>3
        <5>. QED  BY <1>2, <3>3, <4>3, <5>1
      <4>. QED  BY <1>2, <3>2, <4>1, <4>2, <4>3
    <3>5. \A p \in 1 .. Len(globals') :
              globals'[p].domain = "func" /\ globals'[p].id \in 1 .. Len(chunks) + 1
      <4>. SUFFICES ASSUME NEW p \in 1 .. Len(globals')
                    PROVE  globals'[p].domain = "func" /\ globals'[p].id \in 1 .. Len(chunks) + 1
        OBVIOUS
      <4>1. CASE p = Len(globals) + 1
        BY <1>2, <1>3, <3>1, <4>1
      <4>2. CASE p # Len(globals) + 1
        <5>1. p \in 1 .. Len(globals)
          BY <1>2, <3>1, <4>2
        <5>. QED  BY <1>2, <3>1, <3>3, <5>1
      <4>. QED  BY <4>1, <4>2
    <3>. QED  BY <1>2, <3>1, <3>4, <3>5 DEF FunctionsMeant, Longer
  <2>. QED  BY <2>1, <2>2
<1>6. /\ <<>> \in Seq(Nat) /\ <<>> \in Seq(Names) /\ Len(<<>>) = 0
      /\ \A k \in 1 .. 0 :
            Find(Scope.infos.items, <<>>[k], "local") = Symbol(<<>>[k], <<>>[k], "local")
  BY EmptySeq
<1>. QED  BY <1>1, <1>2, <1>5, <1>6, EnterMeans

(* What is added when a routine or the source ends.                        *)
LEMMA NamesEnded ==
    ASSUME ScopeTypes, Nested, Reserved(chunks), chunks' \in Seq(ChunkType), NEW tabs,
           Named(chunks, nest, locals.items, globals, saved_info, tabs),
           NEW size, NEW old, NEW value \in Seq(InsType), Ended(chunks', size, old, value),
           \A k \in 1 .. Len(value) :
               /\ Meant(value[k], globals, tabs[1].infos.items, tabs[old].infos.items)
               /\ value[k].op = "mk_closure" =>
                     ClosureMeant(chunks', chunks'[old].code, Len(chunks[old].code) + k)
    PROVE  Named(chunks', nest, locals.items, globals, saved_info, tabs)
<1>1. /\ chunks \in Seq(ChunkType) /\ nest \in Seq(FrameType) /\ NestOK(nest)
      /\ ChunksOpen(nest, Len(chunks)) /\ IsOpen(nest, chunk_idx)
  BY TablesAre, OpenIs DEF ScopeTypes, Nested, Fit
<1>2. \A c \in 1 .. Len(chunks) : Len(chunks[c].code) \in Nat \ {0}
  <2>1. \A c \in 1 .. Len(chunks) : Len(chunks[c].code) \in Nat
    BY <1>1, ElementOfSeq, ChunkFields
  <2>. QED  BY <2>1 DEF Reserved
<1>3. \A c \in 1 .. Len(chunks) :
          \/ IsOpen(nest, c)
          \/ /\ chunks'[c].own = chunks[c].own
             /\ chunks'[c].code[1].wide = chunks[c].code[1].wide
  <2>. SUFFICES ASSUME NEW c \in 1 .. Len(chunks), c # chunk_idx
                PROVE  /\ chunks'[c].own = chunks[c].own
                       /\ chunks'[c].code[1].wide = chunks[c].code[1].wide
    BY <1>1
  <2>1. 1 \in 1 .. Len(chunks[c].code)
    BY <1>2
  <2>. QED  BY <2>1 DEF Ended
<1>4. \A c \in 1 .. Len(chunks) : \A n \in 1 .. Len(chunks'[c].code) :
          Len(chunks[c].code) < n =>
              /\ Meant(chunks'[c].code[n], globals, tabs[1].infos.items, tabs[c].infos.items)
              /\ chunks'[c].code[n].op = "mk_closure" =>
                    ClosureMeant(chunks', chunks'[c].code, n)
  <2>. SUFFICES ASSUME NEW c \in 1 .. Len(chunks), NEW n \in 1 .. Len(chunks'[c].code),
                       Len(chunks[c].code) < n
                PROVE  /\ Meant(chunks'[c].code[n], globals, tabs[1].infos.items,
                                tabs[c].infos.items)
                       /\ chunks'[c].code[n].op = "mk_closure" =>
                             ClosureMeant(chunks', chunks'[c].code, n)
    OBVIOUS
  <2>. DEFINE ins == chunks'[c].code[n]
              k == n - Len(chunks[c].code)
  <2>1. \/ ins \in {Op("nop", 0), Ins("ret", 15, 0, NoName)}
        \/ c = old /\ k \in 1 .. Len(value) /\ ins = value[k]
    BY DEF Ended
  <2>2. CASE ins \in {Op("nop", 0), Ins("ret", 15, 0, NoName)}
    <3>1. ins.name = NoName /\ ins.op \in {"nop", "ret"}
      BY <2>2 DEF Op, Ins
    <3>2. ins.op \notin DOMAIN Space /\ ins.op # "mk_closure"
      BY <3>1 DEF Space
    <3>. HIDE DEF ins
    <3>3. Meant(ins, globals, tabs[1].infos.items, tabs[c].infos.items)
      BY <3>1, <3>2, MeansNothing
    <3>. QED  BY <3>2, <3>3 DEF ins
  <2>3. CASE c = old /\ k \in 1 .. Len(value) /\ ins = value[k]
    <3>1. Len(chunks[c].code) + k = n
      BY <1>2
    <3>. HIDE DEF ins, k
    <3>2. /\ Meant(ins, globals, tabs[1].infos.items, tabs[c].infos.items)
          /\ ins.op = "mk_closure" => ClosureMeant(chunks', chunks'[c].code, n)
      BY <2>3, <3>1
    <3>. QED  BY <3>2 DEF ins
  <2>. QED  BY <2>1, <2>2, <2>3
<1>. QED  BY <1>1, <1>3, <1>4, NamesRecoded DEF Ended

(* What the lambda leaves in the code around it.                           *)
LEMMA ValueMeans ==
    ASSUME ScopeTypes, Nested, chunks' \in Seq(ChunkType), NEW tabs,
           Named(chunks, nest, locals.items, globals, saved_info, tabs),
           nest # <<>>, IsRoutine(Frame), Recoded(chunks, chunks'),
           chunks'[Frame.old].code = chunks[Frame.old].code \o Value(Frame)
    PROVE  \A k \in 1 .. Len(Value(Frame)) :
               /\ Meant(Value(Frame)[k], globals, tabs[1].infos.items,
                        tabs[Frame.old].infos.items)
               /\ Value(Frame)[k].op = "mk_closure" =>
                     ClosureMeant(chunks', chunks'[Frame.old].code,
                                  Len(chunks[Frame.old].code) + k)
<1>. DEFINE value == Value(Frame)
            size == Len(Frame.ids)
            old == Frame.old
            code == chunks'[old].code
            begin == Len(chunks[old].code)
<1>1. /\ Frame \in RoutineFrame /\ old \in 1 .. Len(chunks) /\ Frame.chunk \in 1 .. Len(chunks)
      /\ Len(nest) \in 1 .. Len(nest) /\ Frame = nest[Len(nest)]
  BY EndsIs, OpenIs
<1>2. /\ value \in Seq(InsType) /\ size \in Nat /\ Len(Frame.captured) = size
      /\ Len(value) = IF size = 0 THEN 1 ELSE size + 2
      /\ value[1] = Op("load_imm_gid", Frame.chunk)
      /\ \A n \in 1 .. size :
            value[1 + n] = Ins("load_local", 0, Frame.ids[n], Frame.captured[n])
      /\ size # 0 => value[size + 2] = Op("mk_closure", size)
  BY <1>1, ValueIs
<1>3. CaptureMeant(Frame, chunks, tabs)
  BY <1>1 DEF Named, CapturesMeant
<1>4. /\ chunks[Frame.chunk].uses = Frame.captured
      /\ \A n \in 1 .. size :
            Find(tabs[old].infos.items, Frame.captured[n], "local")
               = Symbol(Frame.captured[n], Frame.ids[n], "local")
  BY <1>3 DEF CaptureMeant
<1>5. chunks[old].code \in Seq(InsType) /\ begin \in Nat
  <2>1. chunks[old] \in ChunkType
    BY <1>1, ElementOfSeq DEF ScopeTypes
  <2>. QED  BY <2>1, ChunkFields
<1>6. \A n \in 1 .. Len(value) : code[begin + n] = value[n]
  <2>. HIDE DEF value
  <2>. QED  BY <1>2, <1>5, ConcatIs DEF value
<1>7. /\ Frame.chunk \in 1 .. Len(chunks') /\ chunks'[Frame.chunk].uses = Frame.captured
  BY <1>1, <1>4 DEF Recoded
<1>. HIDE DEF value, size, old, code, begin
<1>8. ASSUME NEW k \in 1 .. Len(value)
      PROVE  /\ Meant(value[k], globals, tabs[1].infos.items, tabs[old].infos.items)
             /\ value[k].op = "mk_closure" => ClosureMeant(chunks', code, begin + k)
  <2>. DEFINE ins == value[k]
  <2>1. CASE k = 1
    <3>1. ins.name = NoName /\ ins.op = "load_imm_gid"
      BY <1>2, <2>1 DEF Op, Ins
    <3>. QED  BY <3>1 DEF Meant
  <2>2. CASE k # 1 /\ k <= size + 1
    <3>. DEFINE n == k - 1
    <3>1. n \in 1 .. size /\ 1 + n = k
      BY <1>2, <2>2
    <3>. HIDE DEF n
    <3>2. ins = Ins("load_local", 0, Frame.ids[n], Frame.captured[n])
      BY <1>2, <3>1
    <3>3. ins.op = "load_local" /\ ins.wide = Frame.ids[n] /\ ins.name = Frame.captured[n]
      BY <3>2 DEF Ins
    <3>4. Find(tabs[old].infos.items, ins.name, "local") = Symbol(ins.name, ins.wide, "local")
      BY <1>4, <3>1, <3>3
    <3>5. /\ ins.op \in DOMAIN Space /\ Space[ins.op] = "local" /\ ins.op # "load_imm_gid"
          /\ ins.op # "mk_closure"
      BY <3>3 DEF Space
    <3>. HIDE DEF ins
    <3>6. SymbolsOf("local", globals, tabs[1].infos.items, tabs[old].infos.items)
             = tabs[old].infos.items
      BY DEF SymbolsOf
    <3>7. Meant(ins, globals, tabs[1].infos.items, tabs[old].infos.items)
      BY <3>4, <3>5, <3>6 DEF Meant
    <3>. QED  BY <3>5, <3>7 DEF ins
  <2>3. CASE k # 1 /\ k > size + 1
    <3>1. size # 0 /\ k = size + 2 /\ k \in Nat
      BY <1>2, <2>3
    <3>2. ins = Op("mk_closure", size)
      BY <1>2, <3>1
    <3>3. ins.op = "mk_closure" /\ ins.wide = size /\ ins.name = NoName
      BY <3>2 DEF Op, Ins
    <3>4. ins.op \notin DOMAIN Space
      BY <3>3 DEF Space
    <3>. HIDE DEF ins
    <3>5. Meant(ins, globals, tabs[1].infos.items, tabs[old].infos.items)
      BY <3>3, <3>4, MeansNothing
    <3>. DEFINE at == begin + k
    <3>6. /\ at - size > 1 /\ at - size - 1 = begin + 1 /\ 1 \in 1 .. Len(value)
          /\ \A n \in 1 .. size : at - size + n - 1 = begin + (1 + n) /\ 1 + n \in 1 .. Len(value)
      BY <1>2, <1>5, <3>1
    <3>7. code[at] = ins
      BY <1>6 DEF ins
    <3>. HIDE DEF at
    <3>8. code[at - size - 1] = Op("load_imm_gid", Frame.chunk)
      BY <1>2, <1>6, <3>6
    <3>9. code[at - size - 1].op = "load_imm_gid" /\ code[at - size - 1].wide = Frame.chunk
      BY <3>8 DEF Op, Ins
    <3>10. \A n \in 1 .. size : code[at - size + n - 1].name = chunks'[Frame.chunk].uses[n]
      <4>. SUFFICES ASSUME NEW n \in 1 .. size
                    PROVE  code[at - size + n - 1].name = Frame.captured[n]
        BY <1>7
      <4>1. code[at - size + n - 1] = value[1 + n]
        BY <1>6, <3>6
      <4>2. code[at - size + n - 1] = Ins("load_local", 0, Frame.ids[n], Frame.captured[n])
        BY <1>2, <4>1
      <4>. QED  BY <4>2 DEF Ins
    <3>11. ClosureMeant(chunks', code, at)
      BY <1>2, <1>7, <3>3, <3>6, <3>7, <3>9, <3>10, ClosureIs
    <3>. QED  BY <3>5, <3>11 DEF at, ins
  <2>. QED  BY <1>2, <2>1, <2>2, <2>3
<1>. QED  BY <1>8 DEF value, old, code, begin

(* Routines that end, where their scope is still where it was.             *)
LEMMA RoutineEndsMeans ==
    ASSUME ScopeTypes, Nested, Jumped, NamesMeant, EndFunc \/ EndLambda,
           chunks' \in Seq(ChunkType), ~stale'
    PROVE  NamesMeant'
<1>1. /\ nest # <<>> /\ IsRoutine(Frame) /\ nest' = Front(nest) /\ locals' = Popped(locals)
      /\ globals' = globals /\ saved_info' = saved_info /\ Reads(locals, Frame.scope)
  BY DEF EndFunc, EndLambda, IsRoutine, ScopeEnded
<1>2. PICK tabs : Named(chunks, nest, locals.items, globals, saved_info, tabs)
  BY DEF NamesMeant
<1>3. PICK size \in SizesAt(Frame.scope), value \in Seq(InsType) :
          /\ Ended(chunks', size, Frame.old, value)
          /\ IF Frame.kind = "lambda" THEN value = Value(Frame) ELSE value = <<>>
  BY RoutineEnds DEF Jumped
<1>4. Named(chunks', nest, locals.items, globals, saved_info, tabs)
  <2>1. \A k \in 1 .. Len(value) :
            /\ Meant(value[k], globals, tabs[1].infos.items, tabs[Frame.old].infos.items)
            /\ value[k].op = "mk_closure" =>
                  ClosureMeant(chunks', chunks'[Frame.old].code,
                               Len(chunks[Frame.old].code) + k)
    <3>1. CASE Frame.kind = "lambda" /\ value = Value(Frame)
      <4>1. chunks'[Frame.old].code = chunks[Frame.old].code \o Value(Frame)
        <5>1. EndLambda
          BY <3>1 DEF EndFunc
        <5>2. \E s \in SizesAt(Frame.scope) :
                  chunks'[Frame.old].code = chunks[Frame.old].code \o Value(Frame)
          BY <5>1, EndLambdaIs
        <5>. QED  BY <5>2
      <4>2. Recoded(chunks, chunks')
        BY <1>3 DEF Ended
      <4>. QED  BY <1>1, <1>2, <3>1, <4>1, <4>2, ValueMeans
    <3>2. CASE value = <<>>
      BY <3>2
    <3>. QED  BY <1>3, <3>1, <3>2
  <2>. QED  BY <1>2, <1>3, <2>1, NamesEnded DEF Jumped
<1>5. /\ Frame.chunk = chunk_idx /\ Frame.scope.pos = Depth /\ Depth \in 1 .. Depth
      /\ Scope = locals.items[Depth]
  BY <1>1, EndsIs, OpenIs
<1>6. size = ReserveSize(Scope)
  <2>1. Valid(locals, Frame.scope)
    BY <1>1 DEF Reads
  <2>. QED  BY <1>3, <1>5, <2>1, SizesAre
<1>7. tabs[chunk_idx] = Scope
  BY <1>2, TablesAre, OpenIs
<1>8. Fixed(chunks'[Frame.chunk], tabs[Frame.chunk])
  BY <1>3, <1>5, <1>6, <1>7 DEF Ended, Fixed
<1>9. /\ nest \in Seq(FrameType) /\ NestOK(nest) /\ ChunksOpen(nest, Len(chunks'))
      /\ locals.items \in Seq(TableType) /\ Len(locals.items) = ScopeAt(nest, Len(nest))
      /\ Frame = Last(nest)
  BY <1>3, OpenIs DEF ScopeTypes, Nested, Fit, Ended, Frame
<1>10. Named(chunks', Front(nest), Front(locals.items), globals, saved_info, tabs)
  BY <1>1, <1>4, <1>8, <1>9, NamesLeave
<1>11. locals'.items = Front(locals.items)
  BY <1>1 DEF Popped, ScopeTypes, VecOf
<1>. QED  BY <1>1, <1>10, <1>11 DEF NamesMeant

(* The end of the source makes the program ready.                          *)
LEMMA SourceMeans ==
    ASSUME ScopeTypes, Nested, Jumped, NamesMeant, Finish, errors = 0, ~stale'
    PROVE  \E tabs : Ready(chunks', globals', tabs)
<1>1. /\ nest = <<>> /\ globals' = globals /\ Reads(locals, MainScope) /\ Len(nest) = 0
  BY DEF Finish
<1>2. PICK tabs : Named(chunks, nest, locals.items, globals, saved_info, tabs)
  BY DEF NamesMeant
<1>3. chunks' \in Seq(ChunkType) /\ globals \in Seq(SymbolType)
  BY <1>1, SourceEnds DEF Jumped, ScopeTypes
<1>4. PICK size \in SizesAt(MainScope) : Ended(chunks', size, 0, <<>>)
  BY <1>1, SourceEnds DEF Jumped
<1>5. Named(chunks', nest, locals.items, globals, saved_info, tabs)
  <2>1. <<>> \in Seq(InsType) /\ Len(<<>>) = 0
    BY EmptySeq
  <2>. DEFINE value == <<>>
  <2>2. \A k \in 1 .. Len(value) :
            /\ Meant(value[k], globals, tabs[1].infos.items, tabs[0].infos.items)
            /\ value[k].op = "mk_closure" =>
                  ClosureMeant(chunks', chunks'[0].code, Len(chunks[0].code) + k)
    BY <2>1
  <2>3. value \in Seq(InsType) /\ Ended(chunks', size, 0, value)
    BY <1>4, <2>1
  <2>. HIDE DEF value
  <2>. QED  BY <1>2, <1>3, <2>2, <2>3, NamesEnded DEF Jumped
<1>6. /\ chunk_idx = ChunkAt(nest, 0) /\ Depth = ScopeAt(nest, 0) /\ Scope = locals.items[Depth]
      /\ chunk_idx \in 1 .. Len(chunks) /\ Depth \in 1 .. Depth
  BY <1>1, OpenIs DEF Nested, Fit
<1>7. Depth = 1
  BY <1>1, <1>6, LevelZero
<1>8. size = ReserveSize(Scope)
  <2>1. Valid(locals, MainScope) /\ MainScope.pos = 1
    BY <1>1 DEF Reads, MainScope
  <2>. QED  BY <1>4, <1>6, <1>7, <2>1, SizesAre
<1>9. tabs[chunk_idx] = Scope
  BY <1>2, TablesAre, OpenIs
<1>10. Fixed(chunks'[chunk_idx], tabs[chunk_idx])
  BY <1>4, <1>8, <1>9 DEF Ended, Fixed
<1>11. \A c \in 1 .. Len(chunks') : Fixed(chunks'[c], tabs[c])
  <2>. SUFFICES ASSUME NEW c \in 1 .. Len(chunks'), IsOpen(nest, c)
                PROVE  Fixed(chunks'[c], tabs[c])
    BY <1>5 DEF Named, Sealed
  <2>1. c = chunk_idx
    BY <1>1, <1>6 DEF IsOpen
  <2>. QED  BY <1>10, <2>1
<1>12. Len(chunks') # 0
  BY <1>4, <1>6 DEF Ended
<1>13. Ready(chunks', globals, tabs)
  BY <1>3, <1>5, <1>11, <1>12 DEF Named, FunctionsMeant, Ready
<1>. QED  BY <1>1, <1>13

(* While the source has no error, and no address or jump has gone astray,  *)
(* code means its names; in the end the program is ready.                  *)
NameInv ==
    /\ JumpInv
    /\ Sound /\ ~stale /\ ~strayed => NamesMeant
    /\ Returned => \E tabs : Ready(chunks, globals, tabs)

(* Nothing is named yet.                                                   *)
LEMMA NamesBegin == Init => NameInv
<1>. SUFFICES ASSUME Init PROVE NameInv
  OBVIOUS
<1>. DEFINE top == NewChunk(NewTable, <<>>)
            tabs == <<NewTable>>
<1>1. /\ chunks = <<top>> /\ nest = <<>> /\ status = "open" /\ globals = <<>>
      /\ locals = AnyVecPushed(Array(<<>>, ANYVEC_DEFAULT_SIZE), NewTable)
  BY DEF Init
<1>2. ~Returned
  BY <1>1 DEF Returned
<1>3. /\ top.code = <<Op("reserve", 0)>> /\ top.argc = NewTable.local_argc /\ top.uses = <<>>
  BY DEF NewChunk
<1>4. Len(chunks) = 1 /\ chunks[1] = top /\ Len(nest) = 0 /\ Len(globals) = 0
  BY <1>1
<1>5. ChunkAt(nest, 0) = 1 /\ ScopeAt(nest, 0) = 1
  BY <1>4, LevelZero
<1>6. NewTable \in TableType /\ GoodTable(NewTable, <<>>)
  BY NewTableIs
<1>7. locals.items[1] = NewTable
  <2>1. locals.items = Append(<<>>, NewTable)
    BY <1>1 DEF AnyVecPushed, Pushed, Array
  <2>. HIDE DEF NewTable
  <2>. QED  BY <2>1
<1>8. tabs \in Seq(TableType) /\ Len(tabs) = 1 /\ tabs[1] = NewTable
  <2>. HIDE DEF NewTable
  <2>. QED  BY <1>6, OneIs
<1>. HIDE DEF top, tabs
<1>9. Opened(nest, locals.items, tabs) /\ Sealed(chunks, nest, tabs)
  <2>1. \A n \in 0 .. Len(nest) : n = 0
    BY <1>4
  <2>2. 0 \in 0 .. Len(nest)
    BY <1>4
  <2>3. \A c \in 1 .. Len(chunks) : c = 1
    BY <1>4
  <2>4. IsOpen(nest, 1)
    BY <1>5, <2>2 DEF IsOpen
  <2>. QED  BY <1>5, <1>7, <1>8, <2>1, <2>3, <2>4 DEF Opened, Sealed
<1>10. \A n \in 1 .. Len(top.code) :
          top.code[n].op = "reserve" /\ top.code[n].name = NoName
  <2>1. Len(top.code) = 1 /\ top.code[1] = Op("reserve", 0)
    BY <1>3
  <2>2. Op("reserve", 0).op = "reserve" /\ Op("reserve", 0).name = NoName
    BY DEF Op, Ins
  <2>3. \A n \in 1 .. Len(top.code) : n = 1
    BY <2>1
  <2>. QED  BY <2>1, <2>2, <2>3
<1>11. CodeMeant(chunks, globals, tabs) /\ ClosuresMeant(chunks)
  <2>1. \A c \in 1 .. Len(chunks) : c = 1
    BY <1>4
  <2>2. "reserve" \notin DOMAIN Space
    BY DEF Space
  <2>3. \A n \in 1 .. Len(top.code) :
            Meant(top.code[n], globals, tabs[1].infos.items, NewTable.infos.items)
    BY <1>10, <2>2 DEF Meant
  <2>4. ChunkMeant(top, globals, tabs[1].infos.items, NewTable)
    BY <1>3, <1>6, <2>3 DEF ChunkMeant
  <2>5. CodeMeant(chunks, globals, tabs)
    BY <1>4, <1>8, <2>1, <2>4 DEF CodeMeant
  <2>6. ClosuresMeant(chunks)
    BY <1>4, <1>10, <2>1 DEF ClosuresMeant
  <2>. QED  BY <2>5, <2>6
<1>12. FunctionsMeant(globals, Len(chunks))
  BY <1>1, <1>4 DEF FunctionsMeant, OneOfAName
<1>13. AssignsMeant(nest, globals, saved_info, tabs) /\ CapturesMeant(chunks, nest, tabs)
  BY <1>4 DEF AssignsMeant, CapturesMeant
<1>14. Named(chunks, nest, locals.items, globals, saved_info, tabs)
  BY <1>4, <1>8, <1>9, <1>11, <1>12, <1>13 DEF Named
<1>. QED  BY <1>2, <1>14, JumpsBegin DEF NameInv, NamesMeant

(* Every step keeps it.                                                    *)
LEMMA NameStep == NameInv /\ [Next]_vars => NameInv'
<1>. SUFFICES ASSUME NameInv, [Next]_vars PROVE NameInv'
  OBVIOUS
<1>1. JumpInv'
  BY JumpStep DEF NameInv
<1>2. CASE Good
  <2>1. errors' = errors /\ status = "open" /\ status' = "open"
    BY <1>2, GoodGoesOn
  <2>2. ~Returned'
    BY <2>1 DEF Returned
  <2>3. ASSUME Sound', ~stale', ~strayed' PROVE NamesMeant'
    <3>1. ScopeTypes /\ Nested /\ Jumped /\ NamesMeant
      BY <1>2, <2>1, <2>3, HistoryStays DEF Sound, NameInv, JumpInv, NestInv
    <3>2. chunks' \in Seq(ChunkType)
      BY <1>1, <2>3 DEF JumpInv, NestInv, ScopeTypes
    <3>3. ASSUME NEW name \in Names, BeginLet(name) \/ BeginAssign(name) \/ ReadName(name)
          PROVE  NamesMeant'
      BY <3>1, <3>3, BeginLetMeans, BeginAssignMeans, ReadNameMeans
    <3>4. ASSUME NEW literal \in Literals, ReadConstant(literal)
          PROVE  NamesMeant'
      BY <3>1, <3>4, ReadConstantMeans
    <3>5. CASE StoreLet \/ StoreAssigned
      BY <2>3, <3>1, <3>5, StoreLetMeans, StoreAssignedMeans
    <3>6. ASSUME NEW params \in ParamLists, NEW uses \in UsesLists, BeginLambda(params, uses)
          PROVE  NamesMeant'
      BY <3>1, <3>6, BeginLambdaMeans
    <3>7. ASSUME NEW name \in Routines, NEW params \in ParamLists, BeginFunc(name, params)
          PROVE  NamesMeant'
      BY <3>1, <3>7, BeginFuncMeans
    <3>8. CASE EndFunc \/ EndLambda
      BY <2>3, <3>1, <3>2, <3>8, RoutineEndsMeans
    <3>9. ASSUME NEW name \in Names, NEW literal \in Literals, BeginFor(name, literal)
          PROVE  NamesMeant'
      BY <2>3, <3>1, <3>9, BeginForMeans
    <3>10. CASE BeginWhile \/ Break \/ Continue
      BY <3>1, <3>10, BeginWhileMeans, LeaveMeans
    <3>11. CASE EndWhile \/ EndFor
      BY <2>3, <3>1, <3>11, LoopEndsMeans
    <3>. QED  BY <1>2, <3>3, <3>4, <3>5, <3>6, <3>7, <3>8, <3>9, <3>10, <3>11, Zenon
              DEF Good, Statement, Operand
  <2>. QED  BY <1>1, <2>2, <2>3 DEF NameInv
<1>3. CASE Refused
  <2>1. ~Sound' /\ status' # "returned"
    BY <1>3, OthersStop, RefusedIsNotReturned DEF NameInv, JumpInv, NestInv, Sound
  <2>. QED  BY <1>1, <2>1 DEF NameInv, Returned
<1>4. CASE Finish
  <2>1. ~Sound'
    BY <1>4, OthersStop DEF NameInv, JumpInv, NestInv, Sound
  <2>2. ASSUME Returned' PROVE \E tabs : Ready(chunks', globals', tabs)
    <3>1. ~(errors > 0) /\ status = "open" /\ ~stale'
      BY <1>4, <2>2 DEF Finish, Returned, InBlock
    <3>2. errors = 0
      BY <3>1 DEF NameInv, JumpInv, NestInv
    <3>3. ~stale /\ ~strayed
      BY <1>4, <2>2 DEF Finish, Returned, Reads
    <3>4. ScopeTypes /\ Nested /\ Jumped /\ NamesMeant
      BY <3>1, <3>2, <3>3 DEF NameInv, JumpInv, NestInv, Sound
    <3>. QED  BY <1>4, <3>1, <3>2, <3>4, SourceMeans
  <2>. QED  BY <1>1, <2>1, <2>2 DEF NameInv
<1>5. CASE Over \/ UNCHANGED vars
  <2>1. /\ chunks' = chunks /\ globals' = globals /\ nest' = nest /\ locals' = locals
        /\ saved_info' = saved_info /\ errors' = errors /\ status' = status
        /\ stale' = stale /\ strayed' = strayed
    BY <1>5 DEF Over, vars, stack_vars, history_vars
  <2>2. Sound' = Sound /\ NamesMeant' = NamesMeant /\ Returned' = Returned
    BY <2>1 DEF Sound, NamesMeant, Returned
  <2>. QED  BY <1>1, <2>1, <2>2 DEF NameInv
<1>. QED  BY <1>2, <1>3, <1>4, <1>5, Zenon DEF Next, Good

(* In every program that is returned, each local slot that an instruction  *)
(* names is a parameter or one that RESERVE makes room for.                *)
THEOREM LocalsHaveRoom == Spec => []FrameFits
<1>1. NameInv => FrameFits
  BY ReadyFits DEF NameInv, FrameFits
<1>. QED  BY <1>1, NamesBegin, NameStep, PTL DEF Spec

(* In every program that is returned, a closure loads what its lambda uses *)
(* in the order of USES, and the lambda finds each under its number.       *)
THEOREM CapturesMatchUses == Spec => []CapturesLineUp
<1>1. NameInv => CapturesLineUp
  BY ReadyLinesUp DEF NameInv, CapturesLineUp
<1>. QED  BY <1>1, NamesBegin, NameStep, PTL DEF Spec

(* In every program that is returned, a name is one slot in a chunk, and a *)
(* slot one name.                                                          *)
THEOREM OneSlotOfAName == Spec => []NamesKeepTheirSlot
<1>1. NameInv => NamesKeepTheirSlot
  BY ReadyKeeps DEF NameInv, NamesKeepTheirSlot
<1>. QED  BY <1>1, NamesBegin, NameStep, PTL DEF Spec
=============================================================================
