------------------------------ MODULE Strings -------------------------------
(***************************************************************************)
(* Strings of the heap and their iterators: src/src/obj_str.c with the     *)
(* buffers of src/src/mystr.c, and src/src/obj_iterator.c.  They come from *)
(* readln and from a host; the strings of the program text are constants.  *)
(*                                                                         *)
(* A buffer has a length, a capacity, which counts the terminator only     *)
(* where mystr_new made the buffer, and the room that was allocated, which *)
(* does.  Characters are what get_v answers for them.                      *)
(*                                                                         *)
(* Abstractions: the heap is the set of strings and the set of iterators   *)
(* there are; realloc always finds memory and always moves.                *)
(***************************************************************************)
EXTENDS Integers, Sequences, SequencesExt

CONSTANTS
    StringIds, CursorIds,   \* ids of the objects
    CharCodes,              \* integers a program writes into strings
    Texts,                  \* what is read, or passed by a host
    DefaultSize,            \* capacity of a host's string: DEFAULT_STRING_SIZE
    NoKey,                  \* NIL, as a key
    MaxLength               \* bound on the length of a string

ASSUME StringAssumption ==
    /\ CharCodes \subseteq Int /\ Texts \subseteq Seq(-128 .. 127)
    /\ DefaultSize \in Nat \ {0} /\ NoKey \notin Int /\ MaxLength \in Nat

VARIABLES
    strings,    \* strings[s] is a string, or Gone
    cursors     \* cursors[i] is an iterator over a string, or Gone

string_vars == <<strings, cursors>>

Gone == [alive |-> FALSE]
Living == {s \in StringIds : strings[s].alive}

StringInit ==
    /\ strings = [s \in StringIds |-> Gone]
    /\ cursors = [i \in CursorIds |-> Gone]

-----------------------------------------------------------------------------
(* mystr                                                                   *)

Str(text, capacity, room) ==
    [alive |-> TRUE, mutable |-> TRUE, text |-> text, capacity |-> capacity,
     room |-> room]

(* mystr_new("") and mystr_res.                                            *)
EmptyStr == Str(<<>>, 1, 1)
ReservedStr(n) == Str(<<>>, n, n + 1)

(* mystr_append_raw: whether the text and its terminator still fit.  The   *)
(* mutant forgets the terminator.                                          *)
MutLacks(str, n) == str.capacity - Len(str.text) < n
Lacks(str, n) == str.capacity - 1 - Len(str.text) < n

(* The branch that doubles is never taken: what lacks room fills capacity.  *)
Grown(str, n) ==
    LET capacity == str.capacity + (((Len(str.text) + n) * 3) \div 2)
    IN  [str EXCEPT !.capacity = capacity, !.room = capacity]

Appended(str, chars) ==
    [(IF Lacks(str, Len(chars)) THEN Grown(str, Len(chars)) ELSE str)
        EXCEPT !.text = @ \o chars]

-----------------------------------------------------------------------------
(* String objects                                                          *)

(* A signed char.                                                          *)
Char_(code) == ((code + 128) % 256) - 128

(* string_set_v_fn.                                                        *)
StringSetV(str, key, code) ==
    IF ~str.mutable THEN str
    ELSE IF key = NoKey THEN Appended(str, <<Char_(code)>>)
    ELSE IF key + 1 \in DOMAIN str.text
      THEN [str EXCEPT !.text[key + 1] = Char_(code)]
    ELSE str

(* The cursors when the memory of s is gone.                               *)
Adrift(s) ==
    [i \in CursorIds |->
        IF cursors[i].alive /\ cursors[i].string = s
          THEN [cursors[i] EXCEPT !.dangling = TRUE] ELSE cursors[i]]

Becomes(s, str) ==
    /\ s \in Living /\ Len(str.text) <= MaxLength
    /\ strings' = [strings EXCEPT ![s] = str]
    /\ cursors' = IF str.capacity = strings[s].capacity THEN cursors ELSE Adrift(s)

Put(str) ==
    /\ Len(str.text) <= MaxLength
    /\ \E s \in StringIds \ Living : strings' = [strings EXCEPT ![s] = str]
    /\ UNCHANGED cursors

(* readln: a character at a time.  tbasic_push_string: all at once.        *)
Typed(text) ==
    LET after[i \in 0 .. Len(text)] ==
            IF i = 0 THEN EmptyStr ELSE Appended(after[i - 1], <<text[i]>>)
    IN  after[Len(text)]
ReadLine(text) == Put(Typed(text))
HostString(text) == Put(Appended(ReservedStr(DefaultSize), text))

SetChar(s, key, code) == s \in Living /\ Becomes(s, StringSetV(strings[s], key, code))
FreezeString(s) == s \in Living /\ Becomes(s, [strings[s] EXCEPT !.mutable = FALSE])
ThawString(s) == s \in Living /\ Becomes(s, [strings[s] EXCEPT !.mutable = TRUE])

MkCursor(i, s) ==
    /\ s \in Living /\ ~cursors[i].alive
    /\ cursors' = [cursors EXCEPT ![i] = [alive |-> TRUE, string |-> s, pos |-> 0,
                      end |-> Len(strings[s].text), dangling |-> FALSE]]
    /\ UNCHANGED strings

(* iter_str_iterate_fn.                                                    *)
Stepped(cursor) ==
    IF cursor.pos = cursor.end THEN cursor ELSE [cursor EXCEPT !.pos = @ + 1]
MvCursor(i) ==
    /\ cursors[i].alive
    /\ cursors' = [cursors EXCEPT ![i] = Stepped(@)]
    /\ UNCHANGED strings

CollectString(s) ==
    /\ s \in Living
    /\ strings' = [strings EXCEPT ![s] = Gone]
    /\ cursors' = Adrift(s)

CollectCursor(i) ==
    /\ cursors[i].alive
    /\ cursors' = [cursors EXCEPT ![i] = Gone]
    /\ UNCHANGED strings

StringNext ==
    \/ \E text \in Texts : ReadLine(text) \/ HostString(text)
    \/ \E s \in StringIds :
         \/ FreezeString(s) \/ ThawString(s) \/ CollectString(s)
         \/ \E code \in CharCodes, key \in (-1 .. MaxLength) \cup {NoKey} :
              SetChar(s, key, code)
    \/ \E i \in CursorIds :
         MvCursor(i) \/ CollectCursor(i) \/ \E s \in StringIds : MkCursor(i, s)

StringSpec == StringInit /\ [][StringNext]_string_vars

-----------------------------------------------------------------------------
(* Properties                                                              *)

(* Every string has room for its characters and for the terminator that    *)
(* mystr_append_raw writes behind them, whichever constructor and appends  *)
(* it went through: the two constructors do not count capacity alike.  An  *)
(* iterator stays inside those characters until its string is collected or *)
(* moved by growing.                                                       *)
TextInside ==
    /\ \A s \in Living : Len(strings[s].text) < strings[s].room
    /\ \A i \in CursorIds : cursors[i].alive /\ ~cursors[i].dangling =>
          /\ cursors[i].string \in Living
          /\ cursors[i].pos <= cursors[i].end
          /\ cursors[i].end <= Len(strings[cursors[i].string].text)
=============================================================================
