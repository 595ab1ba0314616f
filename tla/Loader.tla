------------------------------- MODULE Loader -------------------------------
(***************************************************************************)
(* The bytecode loader: src/src/load_bc.c.  It reads a program from a      *)
(* buffer, section by section, one turn of tbl_dispatch at a time.         *)
(*                                                                         *)
(* A buffer holds the image of a program, or the first bytes of one.  Each *)
(* byte of a number holds the whole number, since a number is only ever    *)
(* read from its first byte to its last; of that of a bool only the lowest *)
(* eight bits are looked at.                                               *)
(***************************************************************************)
EXTENDS Integers, Sequences, SequencesExt

CONSTANTS
    Images      \* programs: [entry_id, strings, chunks]

Instruction == [op : STRING, flag : Nat, wide : Nat]
Constant_ == [tag : STRING, n : Int]

(* The format ends a section with a length of 0, so that neither a string  *)
(* nor the code of a chunk is empty.                                       *)
Chunk == [code : Seq(Instruction) \ {<<>>}, constants : Seq(Constant_)]
Program ==
    [entry_id : Nat, strings : Seq(Seq(STRING) \ {<<>>}), chunks : Seq(Chunk)]

ASSUME LoaderAssumption == Images \subseteq Program

VARIABLES
    buffer,     \* the bytes
    ld,         \* the loader: [pos, state, flags]
    prgm,       \* the program read so far
    asked       \* history: [image, cut, fresh] of the load

loader_vars == <<buffer, ld, prgm, asked>>

NoProgram == [entry_id |-> 0, strings |-> <<>>, chunks |-> <<>>]
NoLoad == [image |-> NoProgram, cut |-> TRUE, fresh |-> TRUE]

-----------------------------------------------------------------------------
(* The format                                                              *)

Wide(width, n) == [i \in 1 .. width |-> n]
InsBytes(ins) == <<ins.op, ins.flag>> \o Wide(2, ins.wide)
ValueBytes(v) == <<v.tag>> \o Wide(4, v.n)
StringBytes(s) == Wide(4, Len(s)) \o s
ChunkBytes(c) ==
    Wide(8, Len(c.code)) \o FlattenSeq([i \in DOMAIN c.code |-> InsBytes(c.code[i])])
    \o Wide(8, Len(c.constants))
    \o FlattenSeq([i \in DOMAIN c.constants |-> ValueBytes(c.constants[i])])

Bytes(image) ==
    <<"T", "B", "C", "F">> \o Wide(4, image.entry_id)
    \o FlattenSeq([i \in DOMAIN image.strings |-> StringBytes(image.strings[i])])
    \o Wide(4, 0)
    \o FlattenSeq([i \in DOMAIN image.chunks |-> ChunkBytes(image.chunks[i])])
    \o Wide(8, 0)

-----------------------------------------------------------------------------
(* Reading                                                                 *)

Remaining(pos) == Len(buffer) - pos
ByteAt(pos) == buffer[pos + 1]
Goes(pos, state) == ld' = [ld EXCEPT !.pos = pos, !.state = state]

(* The buffer ends inside of what is read: all of it is eaten.             *)
Fails(flags) ==
    /\ ld' = [pos |-> Len(buffer), state |-> "err", flags |-> ld.flags \cup flags]
    /\ UNCHANGED prgm

Can(state) == ld.state = state

EatPrefix ==
    /\ Can("eat_prefix")
    /\ IF Remaining(ld.pos) >= 4 /\ SubSeq(buffer, 1, 4) = <<"T", "B", "C", "F">>
         THEN Goes(4, "eat_meta") /\ UNCHANGED prgm
         ELSE Fails({"invalid_byte"})

EatMeta ==
    /\ Can("eat_meta")
    /\ IF Remaining(ld.pos) >= 4
         THEN /\ prgm' = [prgm EXCEPT !.entry_id = ByteAt(ld.pos)]
              /\ Goes(ld.pos + 4, "eat_str")
         ELSE Fails({"unexpected_eos"})

(* A length of 0 ends the section.                                         *)
EatStr ==
    LET text == ld.pos + 4
    IN  /\ Can("eat_str")
        /\ IF Remaining(ld.pos) >= 4 /\ ByteAt(ld.pos) = 0
             THEN Goes(text, "eat_chunk") /\ UNCHANGED prgm
           ELSE IF Remaining(ld.pos) >= 4 /\ Remaining(text) >= ByteAt(ld.pos)
             THEN /\ prgm' = [prgm EXCEPT !.strings =
                        Append(@, SubSeq(buffer, text + 1, text + ByteAt(ld.pos)))]
                  /\ Goes(text + ByteAt(ld.pos), "eat_str")
           ELSE Fails({"unexpected_eos"})

(* A bool is what its first byte says.  A real becomes the integer next to *)
(* it towards 0; n is twice the real.                                      *)
Towards0(n) == IF n < 0 THEN -((-n) \div 2) ELSE n \div 2
Loaded(tag, n) ==
    CASE tag = "bool" -> [tag |-> "bool", n |-> IF n % 256 # 0 THEN 1 ELSE 0]
      [] tag \in {"int", "strid"} -> [tag |-> tag, n |-> n]
      [] tag = "real" -> [tag |-> "int", n |-> Towards0(n)]
      [] OTHER -> [tag |-> "nil", n |-> 0]

ReadCode(pos, n) ==
    [i \in 1 .. n |-> [op |-> ByteAt(pos + 4 * i - 4), flag |-> ByteAt(pos + 4 * i - 3),
                       wide |-> ByteAt(pos + 4 * i - 2)]]
ReadConstants(pos, n) ==
    [i \in 1 .. n |-> Loaded(ByteAt(pos + 5 * i - 5), ByteAt(pos + 5 * i - 4))]

(* Whether n items of the size are there.                                  *)
There(pos, size, n) == Remaining(pos) >= size * n

(* A length of 0 ends the program.  A constant that is cut after its tag   *)
(* fails without a flag.                                                   *)
EatChunk ==
    LET code == ld.pos + 8
        bc_len == ByteAt(ld.pos)
        count == code + 4 * bc_len
        konst == count + 8
        kv_len == ByteAt(count)
        end == konst + 5 * kv_len
    IN  /\ Can("eat_chunk")
        /\ IF ~There(ld.pos, 8, 1) THEN Fails({"unexpected_eos"})
           ELSE IF bc_len = 0 THEN Goes(code, "end") /\ UNCHANGED prgm
           ELSE IF ~There(code, 4, bc_len) \/ ~There(count, 8, 1)
             THEN Fails({"unexpected_eos"})
           ELSE IF ~There(konst, 5, kv_len)
             THEN Fails(IF Remaining(konst) % 5 = 0 THEN {"unexpected_eos"} ELSE {})
           ELSE /\ prgm' = [prgm EXCEPT !.chunks =
                        Append(@, [code |-> ReadCode(code, bc_len),
                                   constants |-> ReadConstants(konst, kv_len)])]
                /\ Goes(end, "eat_chunk")

-----------------------------------------------------------------------------
(* The caller                                                              *)

FreshLoader == [pos |-> 0, state |-> "eat_prefix", flags |-> {}]

LoaderInit ==
    /\ buffer = <<>>
    /\ ld = FreshLoader
    /\ prgm = NoProgram
    /\ asked = NoLoad

Loading == buffer # <<>>

(* tbl_load_from, up to its loop: state and flags are as they were.        *)
LoadFrom(image, n) ==
    /\ ~Loading
    /\ buffer' = SubSeq(Bytes(image), 1, n)
    /\ ld' = [ld EXCEPT !.pos = 0]
    /\ prgm' = NoProgram
    /\ asked' = [image |-> image, cut |-> n < Len(Bytes(image)),
                 fresh |-> ld.state = "eat_prefix"]

(* Its end.  The mutant gives away what was read before the error.         *)
MutReturned(program, state) == program
Returned(program, state) == IF state = "err" THEN NoProgram ELSE program
LoadReturns ==
    /\ Loading /\ ld.state \in {"end", "err"}
    /\ buffer' = <<>>
    /\ prgm' = Returned(prgm, ld.state)
    /\ UNCHANGED <<ld, asked>>

Dud == ~Loading /\ ld' = FreshLoader /\ UNCHANGED <<buffer, prgm, asked>>

LoaderNext ==
    \/ Loading /\ (EatPrefix \/ EatMeta \/ EatStr \/ EatChunk) /\ UNCHANGED <<buffer, asked>>
    \/ LoadReturns \/ Dud
    \/ \E image \in Images : \E n \in 1 .. Len(Bytes(image)) : LoadFrom(image, n)

LoaderSpec == LoaderInit /\ [][LoaderNext]_loader_vars

-----------------------------------------------------------------------------
(* Properties                                                              *)

(* A program as it comes back: its reals are integers.                     *)
LoadedChunk(c) ==
    [code |-> c.code,
     constants |-> [k \in DOMAIN c.constants |-> Loaded(c.constants[k].tag, c.constants[k].n)]]
WithoutReals(image) ==
    [image EXCEPT !.chunks = [j \in DOMAIN image.chunks |-> LoadedChunk(image.chunks[j])]]

(* A load by a fresh loader gives all of the program, or, where the buffer *)
(* is cut anywhere, the empty program: never a part of it.  A loader that  *)
(* was used before and not reset gives the empty program too, and neither  *)
(* mixes two programs nor returns the last one again.                      *)
WholeOrNothing ==
    ~Loading =>
        prgm = IF asked.fresh /\ ~asked.cut THEN WithoutReals(asked.image) ELSE NoProgram
=============================================================================
