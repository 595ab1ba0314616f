------------------------------ MODULE Streams ------------------------------
(***************************************************************************)
(* File streams: src/src/obj_fs.c with the native functions of             *)
(* src/src/tb_io_stdlib.c.  A stream is an object that holds a FILE or the *)
(* null pointer; the FILEs are those of the C library, and each one that   *)
(* is open has to be closed by somebody, once.                             *)
(*                                                                         *)
(* Abstractions: natives are called with streams and lists.  A file that   *)
(* is written is not opened a second time meanwhile, so that what the C    *)
(* library buffers cannot be told from what is in the file.  The flag      *)
(* alloc_fs sets is read by nobody and left out.                           *)
(***************************************************************************)
EXTENDS Integers, Sequences, SequencesExt, FiniteSetsExt

CONSTANTS
    StreamIds,      \* ids of the heap
    Handles,        \* FILEs the C library can give
    OldFile, NewFile,   \* paths: of a file, and of none yet
    Content,        \* what is in OldFile
    Code,           \* integers a program writes
    Lists,          \* lists a program writes: of codes and NonInt
    NonInt,         \* an item that is not an integer
    Modes,          \* modes a program passes to fopen
    MaxSize         \* bound on positions and on the counts a program passes

ASSUME StreamAssumption ==
    /\ Handles \subseteq Nat \ {0} /\ MaxSize \in Nat
    /\ Code \subseteq Int /\ NonInt \notin Code
    /\ Content \in Seq(0 .. 255) /\ Lists \subseteq Seq(Code \cup {NonInt})

VARIABLES
    files,      \* what is in the files, or Missing
    handles,    \* handles[h] is an open FILE, or Closed
    streams,    \* streams[s] is a stream, or NoStream
    io          \* history, read by no action: the last call and its result

stream_vars == <<files, handles, streams, io>>

Path == {OldFile, NewFile}
Missing == <<-1>>
Closed == [open |-> FALSE]
NoStream == [alive |-> FALSE]
NoFile == 0
EOF == -1
NoIO == [native |-> "none"]

Streaming == {s \in StreamIds : streams[s].alive}
Open == {h \in Handles : handles[h].open}

StreamInit ==
    /\ files = [p \in Path |-> IF p = OldFile THEN Content ELSE Missing]
    /\ handles = [h \in Handles |-> Closed]
    /\ streams = [s \in StreamIds |-> NoStream]
    /\ io = NoIO

-----------------------------------------------------------------------------
(* The C library: a FILE and what is in its file                           *)

Fopened(path, writes) ==
    [open |-> TRUE, path |-> path, writes |-> writes, pos |-> 0,
     eof |-> FALSE, err |-> FALSE]

(* at.got is the result.  Reading a FILE that is written is an error, and  *)
(* so is writing one that is read.                                         *)
Getc(at) ==
    IF at.file.writes THEN [at EXCEPT !.file.err = TRUE, !.got = EOF]
    ELSE IF at.file.eof \/ at.file.pos >= Len(at.text)
      THEN [at EXCEPT !.file.eof = TRUE, !.got = EOF]
    ELSE [at EXCEPT !.file.pos = @ + 1, !.got = at.text[at.file.pos + 1]]

(* fputc writes what a code is as an unsigned char.                        *)
Char(code) == code % 256

(* A gap before the position is filled with zeros.                         *)
Overwritten(text, pos, bytes) ==
    [n \in 1 .. Max({Len(text), pos + Len(bytes)}) |->
        IF n \in pos + 1 .. pos + Len(bytes) THEN bytes[n - pos]
        ELSE IF n <= Len(text) THEN text[n] ELSE 0]

Putc(at, code) ==
    IF ~at.file.writes THEN [at EXCEPT !.file.err = TRUE, !.got = EOF]
    ELSE [at EXCEPT !.file.pos = @ + 1, !.got = Char(code),
                    !.text = Overwritten(@, at.file.pos, <<Char(code)>>)]

-----------------------------------------------------------------------------
(* Streams                                                                 *)

(* flags_to_fopen_mode: modes it does not know are for reading.            *)
Writes(mode) == mode \in {2, 3}

(* fs_del_fn, for fclose and for the collector.  The mutant forgets to     *)
(* reset the pointer.                                                      *)
Closing(f) ==
    handles' = IF f = NoFile THEN handles ELSE [handles EXCEPT ![f] = Closed]
MutDel(s) == Closing(streams[s].f) /\ UNCHANGED streams
Del(s) == Closing(streams[s].f) /\ streams' = [streams EXCEPT ![s].f = NoFile]

AsBool(file) == ~file.eof /\ ~file.err

(* What a native works on, and its effect.                                 *)
At(s) ==
    [file |-> handles[streams[s].f], text |-> files[handles[streams[s].f].path],
     items |-> <<>>, got |-> EOF, done |-> 0]
Does(s, at) ==
    /\ at.file.pos <= MaxSize
    /\ handles' = [handles EXCEPT ![streams[s].f] = at.file]
    /\ files' = [files EXCEPT ![at.file.path] = at.text]
    /\ UNCHANGED streams
Nothing == UNCHANGED <<files, handles, streams>>

Answers(native, result) == io' = [native |-> native, result |-> result]

-----------------------------------------------------------------------------
(* What a program does                                                     *)

(* The C library may refuse a path.  Without a cell in the heap the stream *)
(* is deleted again, and the file is as fopen left it.                     *)
Fopen(path, mode) ==
    LET writes == Writes(mode)
        free == Handles \ Open
        f == IF free = {} THEN NoFile ELSE Min(free)
        refused ==
            /\ \E s \in StreamIds \ Streaming :
                 streams' = [streams EXCEPT ![s] = [alive |-> TRUE, f |-> NoFile]]
            /\ UNCHANGED <<files, handles>>
        opened ==
            /\ f # NoFile
            /\ writes \/ files[path] # Missing
            /\ files' = IF writes THEN [files EXCEPT ![path] = <<>>] ELSE files
            /\ \/ /\ Streaming = StreamIds
                  /\ UNCHANGED <<handles, streams>>
               \/ \E s \in StreamIds \ Streaming :
                    /\ handles' = [handles EXCEPT ![f] = Fopened(path, writes)]
                    /\ streams' = [streams EXCEPT ![s] = [alive |-> TRUE, f |-> f]]
    IN  /\ \A h \in Open : handles[h].path = path => ~writes /\ ~handles[h].writes
        /\ refused \/ opened
        /\ io' = [native |-> "fopen"]

Fclose(s) ==
    /\ s \in Streaming
    /\ Del(s)
    /\ UNCHANGED files
    /\ io' = NoIO

(* The sweep deletes the object and frees its cell.                        *)
CollectStream(s) ==
    /\ s \in Streaming
    /\ Closing(streams[s].f)
    /\ streams' = [streams EXCEPT ![s] = NoStream]
    /\ io' = NoIO
    /\ UNCHANGED files

Fgetc(s) ==
    /\ s \in Streaming
    /\ IF streams[s].f = NoFile THEN Nothing ELSE Does(s, Getc(At(s)))
    /\ io' = NoIO

(* TRUE when the byte that was written is 0.                               *)
Fputc(s, code) ==
    /\ s \in Streaming
    /\ IF streams[s].f = NoFile
         THEN Nothing /\ Answers("fputc", FALSE)
         ELSE /\ Does(s, Putc(At(s), Char(code)))
              /\ Answers("fputc", Putc(At(s), Char(code)).got = 0)

(* One turn of the loop of fread.  The mutant does not ask the stream.     *)
MutReadTurn(at) ==
    LET read == Getc(at)
    IN  [read EXCEPT !.items = Append(@, read.got), !.done = @ + 1]
ReadTurn(at) ==
    LET read == Getc(at)
    IN  IF AsBool(at.file)
          THEN [read EXCEPT !.items = Append(@, read.got), !.done = @ + 1] ELSE at

ReadTurns(at, n) ==
    LET turn[i \in 0 .. n] == IF i = 0 THEN at ELSE ReadTurn(turn[i - 1])
    IN  turn[n]

Fread(s, n) ==
    LET read == ReadTurns(At(s), n)
    IN  /\ s \in Streaming
        /\ IF n < 0 THEN Nothing /\ Answers("fread", -1)
           ELSE IF streams[s].f = NoFile THEN Nothing /\ Answers("fread", 0)
           ELSE /\ Does(s, read)
                /\ io' = [native |-> "fread", result |-> read.done,
                          items |-> read.items, on |-> streams[s].f, n |-> n]

(* One turn of the loop of fwrite over what is in memory at the list.      *)
WriteTurn(at, memory) ==
    LET item == memory[at.done + 1]
    IN  IF AsBool(at.file) /\ item # NonInt
          THEN [Putc(at, item) EXCEPT !.done = @ + 1] ELSE at

WriteTurns(at, memory, n) ==
    LET turn[i \in 0 .. n] == IF i = 0 THEN at ELSE WriteTurn(turn[i - 1], memory)
    IN  turn[n]

(* The count is not compared with the length of the list, and what lies    *)
(* behind the list may be anything.                                        *)
Fwrite(s, list, n) ==
    /\ s \in Streaming
    /\ IF n < 0 THEN Nothing /\ Answers("fwrite", -1)
       ELSE IF streams[s].f = NoFile THEN Nothing /\ Answers("fwrite", 0)
       ELSE \E behind \in [1 .. Max({n - Len(list), 0}) -> Code \cup {NonInt}] :
              LET at == WriteTurns(At(s), list \o behind, n)
              IN  /\ Does(s, at)
                  /\ io' = [native |-> "fwrite", result |-> at.done,
                            list |-> list, on |-> streams[s].f, n |-> n]

(* stream[0] = pos                                                         *)
Seek(s, pos) ==
    /\ s \in Streaming
    /\ IF streams[s].f = NoFile \/ pos < 0 THEN Nothing
       ELSE Does(s, [At(s) EXCEPT !.file.pos = pos, !.file.eof = FALSE])
    /\ io' = NoIO

StreamNext ==
    \/ \E path \in Path, mode \in Modes : Fopen(path, mode)
    \/ \E s \in StreamIds :
         \/ Fclose(s) \/ CollectStream(s) \/ Fgetc(s)
         \/ \E code \in Code : Fputc(s, code)
         \/ \E n \in -1 .. MaxSize :
              Fread(s, n) \/ Seek(s, n) \/ \E list \in Lists : Fwrite(s, list, n)

StreamSpec == StreamInit /\ [][StreamNext]_stream_vars

-----------------------------------------------------------------------------
(* Properties                                                              *)

(* Each FILE that is open belongs to one stream of the heap, and no stream *)
(* holds a FILE that is closed: none is lost when the heap is full, and    *)
(* none is closed twice by fclose, a second fclose and the sweep.          *)
HandlesOwned ==
    /\ \A h \in Open : Cardinality({s \in Streaming : streams[s].f = h}) = 1
    /\ \A s \in Streaming : streams[s].f \in Open \cup {NoFile}

(* What fread appends to its list are the bytes at the position, none      *)
(* skipped and none twice, and then, once per visit to the end, the mark   *)
(* EOF; its result counts the mark as well.  As long as the count is in    *)
(* the list, fwrite writes the integers at its head in their order, up to  *)
(* the first other item, and returns how many.                             *)
BytesExact ==
    [][io'.native \in {"fread", "fwrite"} /\ io'.result > 0 =>
         LET file == handles[io'.on]
             rest == SubSeq(files[file.path], file.pos + 1, Len(files[file.path]))
             ints == {k \in 0 .. io'.n : \A i \in 1 .. k : io'.list[i] # NonInt}
             wrote == [i \in 1 .. Max(ints) |-> Char(io'.list[i])]
         IN  IF io'.native = "fread"
               THEN ~file.writes =>
                      /\ io'.items = SubSeq(rest \o <<EOF>>, 1, Min({io'.n, Len(rest) + 1}))
                      /\ io'.result = Len(io'.items)
               ELSE file.writes /\ io'.n <= Len(io'.list) =>
                      /\ io'.result = Len(wrote)
                      /\ files'[file.path] = Overwritten(files[file.path], file.pos, wrote)
      ]_stream_vars
=============================================================================
