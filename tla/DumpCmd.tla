------------------------------ MODULE DumpCmd ------------------------------
(***************************************************************************)
(* dump_cmd of src/main.rs, the `dump' subcommand: read the two inputs,    *)
(* load them, create the output file and run dump_all through a            *)
(* BufWriter.  What is modelled is the output file, which outlives the     *)
(* process: every system call may fail, a write may be partial, and the    *)
(* process may be killed between any two of them.                          *)
(*                                                                         *)
(* std::io::BufWriter and std::fs::File are external; their part here is   *)
(* what the code gets of them.  A write cut short by a signal is retried   *)
(* by the library and is a stuttering step.                                *)
(***************************************************************************)
EXTENDS Integers, Sequences

CONSTANTS
  CAPACITY,   \* of the BufWriter
  Old,        \* the bytes the output file holds before the run
  Dumps       \* what dump_all may write: the number of bytes after each write

ASSUME CmdAssumption ==
  /\ CAPACITY \in Nat \ {0}
  /\ \A d \in Dumps :
       d \in Seq(Nat) /\ \A m, n \in DOMAIN d : m < n => d[m] <= d[n]

VARIABLES
  good,    \* the inputs that are what they should be
  ends,    \* where the writes dump_all makes end, in bytes
  pc,      \* the call dump_cmd is in
  next,    \* the next write of dump_all
  buf,     \* BufWriter: bytes not yet handed to the file
  direct,  \* bytes of a large write, on their way past the buffer
  file,    \* the bytes of the output file
  code,    \* the exit code: 0 is success
  status   \* "running", "exited" or "killed"

io   == <<next, buf, direct>>
vars == <<good, ends, pc, next, buf, direct, file, code, status>>

Inputs == {"readExe", "readMetadata", "load"}

\* Byte numbers start .. start + n - 1 of the dump.
Bytes(start, n) == [k \in 1 .. n |-> start + k - 1]

\* The bytes before write n, which are those up to the end of write n - 1.
BytesBefore(n) == IF n = 1 THEN 0 ELSE ends[n - 1]

Size(n) == ends[n] - BytesBefore(n)
Total   == BytesBefore(Len(ends) + 1)
Piece   == Bytes(BytesBefore(next) + 1, Size(next))

Init ==
  /\ good \in SUBSET Inputs
  /\ ends \in Dumps
  /\ pc = "readExe"
  /\ next = 1
  /\ buf = <<>>
  /\ direct = <<>>
  /\ file = Old
  /\ code = 0
  /\ status = "running"

-----------------------------------------------------------------------------
\* Mutant: the output file is created before the inputs are loaded.
CreateFirst ==
  [readExe |-> "readMetadata", readMetadata |-> "create",
   create |-> "load", load |-> "dump"]

\* The calls of dump_cmd, in order.
Following ==
  [readExe |-> "readMetadata", readMetadata |-> "load",
   load |-> "create", create |-> "dump"]

In(call) == status = "running" /\ pc = call

\* std::fs::read(exe)?, std::fs::read(metadata)?, load(&ga, &gm)?
UseInput ==
  /\ \E call \in Inputs : In(call) /\ call \in good
  /\ pc' = Following[pc]
  /\ UNCHANGED <<good, ends, io, file, code, status>>

InputFails ==
  /\ \E call \in Inputs : In(call) /\ call \notin good
  /\ code' = 1
  /\ status' = "exited"
  /\ UNCHANGED <<good, ends, pc, io, file>>

\* Mutant: the file is opened for writing, its old bytes kept.
KeptFile == file

\* What File::create leaves of a file.
CreatedFile == <<>>

Create ==
  /\ In("create")
  /\ file' = CreatedFile
  /\ pc' = Following[pc]
  /\ UNCHANGED <<good, ends, io, code, status>>

CreateFails ==
  /\ In("create")
  /\ code' = 1
  /\ status' = "exited"
  /\ UNCHANGED <<good, ends, pc, io, file>>

-----------------------------------------------------------------------------
Spare == CAPACITY - Len(buf)

\* BufWriter::write_all: the bytes go into the buffer.
FitsBuffer(n) == n <= Spare /\ n < CAPACITY

BufferPiece ==
  /\ In("dump") /\ next <= Len(ends)
  /\ FitsBuffer(Size(next))
  /\ buf' = buf \o Piece
  /\ next' = next + 1
  /\ UNCHANGED <<good, ends, pc, direct, file, code, status>>

\* They do not fit: flush_buf first.
FlushForPiece ==
  /\ In("dump") /\ next <= Len(ends)
  /\ ~FitsBuffer(Size(next)) /\ buf # <<>>
  /\ pc' = "makeRoom"
  /\ UNCHANGED <<good, ends, io, file, code, status>>

\* They would fill an empty buffer: straight to the file.
WritePieceDirectly ==
  /\ In("dump") /\ next <= Len(ends)
  /\ ~FitsBuffer(Size(next)) /\ buf = <<>>
  /\ direct' = Piece
  /\ next' = next + 1
  /\ pc' = "direct"
  /\ UNCHANGED <<good, ends, buf, file, code, status>>

\* write(2) takes some of the bytes of the piece.
DirectWrite ==
  /\ In("direct") /\ direct # <<>>
  /\ \E n \in 1 .. Len(direct) :
       /\ file' = file \o SubSeq(direct, 1, n)
       /\ direct' = SubSeq(direct, n + 1, Len(direct))
  /\ UNCHANGED <<good, ends, pc, next, buf, code, status>>

DirectDone ==
  /\ In("direct") /\ direct = <<>>
  /\ pc' = "dump"
  /\ UNCHANGED <<good, ends, io, file, code, status>>

\* write(2) takes some of the bytes of the buffer, and flush_buf drops them.
FlushWrite ==
  /\ \E call \in {"makeRoom", "flush", "drop"} : In(call)
  /\ \E n \in 1 .. Len(buf) :
       /\ file' = file \o SubSeq(buf, 1, n)
       /\ buf' = SubSeq(buf, n + 1, Len(buf))
  /\ UNCHANGED <<good, ends, pc, next, direct, code, status>>

MadeRoom ==
  /\ In("makeRoom") /\ buf = <<>>
  /\ pc' = "dump"
  /\ UNCHANGED <<good, ends, io, file, code, status>>

\* A failed write makes dump_all, or the flush, return the error: w is dropped.
WriteFails ==
  /\ \E call \in {"makeRoom", "flush"} : In(call) /\ buf # <<>>
  /\ pc' = "drop"
  /\ code' = 1
  /\ UNCHANGED <<good, ends, io, file, status>>

DirectFails ==
  /\ In("direct") /\ direct # <<>>
  /\ pc' = "drop"
  /\ code' = 1
  /\ direct' = <<>>
  /\ UNCHANGED <<good, ends, next, buf, file, status>>

-----------------------------------------------------------------------------
\* Nothing rules out a panic of dump_all; it unwinds through dump_cmd.
DumpPanics ==
  /\ In("dump")
  /\ pc' = "drop"
  /\ code' = 101
  /\ UNCHANGED <<good, ends, io, file, status>>

\* Mutant: no flush after dump_all, the drop of w is left to do it.
AfterDumpPrint == "print"

\* w.flush()?
AfterDump == "flush"

DumpReturns ==
  /\ In("dump") /\ next > Len(ends)
  /\ pc' = AfterDump
  /\ UNCHANGED <<good, ends, io, file, code, status>>

Flushed ==
  /\ In("flush") /\ buf = <<>>
  /\ pc' = "print"
  /\ UNCHANGED <<good, ends, io, file, code, status>>

\* println! succeeds, or panics because stdout is gone; then w is dropped.
Announce ==
  /\ In("print")
  /\ code' \in {0, 101}
  /\ pc' = "drop"
  /\ UNCHANGED <<good, ends, io, file, status>>

\* BufWriter's drop flushes what is left, and ignores an error.
Exit ==
  /\ In("drop")
  /\ status' = "exited"
  /\ UNCHANGED <<good, ends, pc, io, file, code>>

Kill ==
  /\ status = "running"
  /\ status' = "killed"
  /\ UNCHANGED <<good, ends, pc, io, file, code>>

Next ==
  \/ UseInput
  \/ InputFails
  \/ Create
  \/ CreateFails
  \/ BufferPiece
  \/ FlushForPiece
  \/ WritePieceDirectly
  \/ DirectWrite
  \/ DirectDone
  \/ FlushWrite
  \/ MadeRoom
  \/ WriteFails
  \/ DirectFails
  \/ DumpPanics
  \/ DumpReturns
  \/ Flushed
  \/ Announce
  \/ Exit
  \/ Kill

Spec == Init /\ [][Next]_vars

-----------------------------------------------------------------------------
(***************************************************************************)
(* The command exits with success only when the file holds the whole dump, *)
(* though an error of the flush in BufWriter's drop goes unreported.       *)
(***************************************************************************)
SuccessIsComplete ==
  status = "exited" /\ code = 0 => file = Bytes(1, Total)

(***************************************************************************)
(* However the command ends, the file is either as it was or the beginning *)
(* of the dump: no byte is missing, repeated or left from before, even     *)
(* when a failed write is followed by the flush in BufWriter's drop.       *)
(***************************************************************************)
FileIsPrefix == file \in {Old, Bytes(1, Len(file))}

(***************************************************************************)
(* Inputs that cannot be read or loaded cost no one an earlier dump.       *)
(***************************************************************************)
BadInputKeepsFile == good # Inputs => file = Old
=============================================================================
