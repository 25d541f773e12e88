--------------------------- MODULE DumpCmdProofs ---------------------------
(* Proofs about the dump subcommand: what the output file holds, for every  *)
(* dump, every size of the buffer and every cut a write, an error, a panic  *)
(* or a kill can make.                                                      *)
EXTENDS DumpCmd, TLAPS

Places == {"readExe", "readMetadata", "load", "create", "dump", "makeRoom", "direct",
           "flush", "print", "drop"}

\* The calls that come before the output file is created.
Before == {"readExe", "readMetadata", "load", "create"}

CmdTypeOK ==
  /\ good \subseteq Inputs
  /\ ends \in Dumps
  /\ pc \in Places
  /\ next \in 1 .. Len(ends) + 1
  /\ buf \in Seq(Int) /\ direct \in Seq(Int)
  /\ code \in {0, 1, 101}
  /\ status \in {"running", "exited", "killed"}

\* The inputs used so far were good.
InputsUsed ==
  /\ pc # "readExe" => "readExe" \in good
  /\ pc \notin {"readExe", "readMetadata"} => "readMetadata" \in good
  /\ pc \notin {"readExe", "readMetadata", "load"} => "load" \in good

\* Until the file is created, nothing has happened to it.
Untouched == pc \in Before => file = Old /\ buf = <<>> /\ direct = <<>> /\ next = 1

\* From then on the file is a beginning of the dump and what is under way to it
\* comes right after it; buf and direct are not both under way.
InOrder ==
  pc \notin Before =>
    /\ file = Bytes(1, Len(file)) /\ Len(file) \in Nat
    /\ buf = Bytes(Len(file) + 1, Len(buf))
    /\ direct = Bytes(Len(file) + 1, Len(direct))
    /\ buf = <<>> \/ direct = <<>>
    /\ direct # <<>> => pc = "direct"

\* Without an error, what is written and under way is what dump_all has made.
NothingLost ==
  /\ pc \notin Before /\ code = 0 =>
       Len(file) + Len(buf) + Len(direct) = BytesBefore(next)
  /\ pc = "direct" => buf = <<>>
  /\ pc \in {"flush", "print"} \/ (pc = "drop" /\ code = 0) => next = Len(ends) + 1
  /\ pc = "print" \/ (pc = "drop" /\ code = 0) => buf = <<>>

\* An error or a panic leads to the drop of w.
ErrorsEnd ==
  /\ code # 0 /\ status = "running" => pc = "drop"
  /\ status = "exited" /\ code = 0 => pc = "drop"

(***************************************************************************)
(* The inductive invariant.  The properties speak of the file alone; they  *)
(* hold because the buffer and the large write under way always continue   *)
(* the file where it ends.                                                 *)
(***************************************************************************)
CmdInv == CmdTypeOK /\ InputsUsed /\ Untouched /\ InOrder /\ NothingLost /\ ErrorsEnd

USE CmdAssumption

-----------------------------------------------------------------------------
(***************************************************************************)
(* Sequences of consecutive bytes, as they are appended and cut.           *)
(***************************************************************************)
LEMMA BytesLength ==
  ASSUME NEW a \in Int, NEW n \in Nat
  PROVE  Bytes(a, n) \in Seq(Int) /\ Len(Bytes(a, n)) = n
BY DEF Bytes

LEMMA BytesEmpty == \A a \in Int : Bytes(a, 0) = <<>>
  BY DEF Bytes

LEMMA BytesJoin ==
  ASSUME NEW a \in Int, NEW m \in Nat, NEW n \in Nat
  PROVE  Bytes(a, m) \o Bytes(a + m, n) = Bytes(a, m + n)
BY DEF Bytes

LEMMA BytesCut ==
  ASSUME NEW a \in Int, NEW n \in Nat, NEW k \in 0 .. n
  PROVE  /\ SubSeq(Bytes(a, n), 1, k) = Bytes(a, k)
         /\ SubSeq(Bytes(a, n), k + 1, n) = Bytes(a + k, n - k)
BY DEF Bytes

\* Every write ends at or after the end of the one before it.
LEMMA PieceContinues ==
  ASSUME CmdTypeOK, next <= Len(ends)
  PROVE  /\ BytesBefore(next) \in Nat /\ Size(next) \in Nat
         /\ Piece = Bytes(BytesBefore(next) + 1, Size(next))
         /\ BytesBefore(next + 1) = BytesBefore(next) + Size(next)
         /\ next + 1 \in 1 .. Len(ends) + 1
<1>1. /\ ends \in Seq(Nat) /\ next \in 1 .. Len(ends) /\ next \in Nat
      /\ \A m, n \in 1 .. Len(ends) : m < n => ends[m] <= ends[n]
  BY DEF CmdTypeOK
<1>2. CASE next = 1
  BY <1>1, <1>2 DEF BytesBefore, Size, Piece
<1>3. CASE next # 1
  <2>1. next - 1 \in 1 .. Len(ends) /\ next - 1 < next
    BY <1>1, <1>3
  <2>2. ends[next - 1] \in Nat /\ ends[next] \in Nat /\ ends[next - 1] <= ends[next]
    BY <1>1, <2>1
  <2> QED
    BY <1>1, <1>3, <2>2 DEF BytesBefore, Size, Piece
<1> QED
  BY <1>2, <1>3

-----------------------------------------------------------------------------
LEMMA InitCmdInv == Init => CmdInv
<1> SUFFICES ASSUME Init PROVE CmdInv
  OBVIOUS
<1>1. ends \in Seq(Nat)
  BY DEF Init
<1>2. CmdTypeOK
  BY <1>1 DEF Init, CmdTypeOK, Places
<1> QED
  BY <1>2 DEF Init, CmdInv, InputsUsed, Untouched, InOrder, NothingLost, ErrorsEnd, Before

\* Reading and loading the inputs leaves the output file alone.
LEMMA InputSteps ==
  ASSUME CmdInv, UseInput \/ InputFails \/ CreateFails
  PROVE  CmdInv'
<1>1. CASE UseInput
  <2>1. /\ pc \in Inputs /\ pc \in good /\ status = "running"
        /\ pc' = Following[pc]
        /\ UNCHANGED <<good, ends, next, buf, direct, file, code, status>>
    BY <1>1 DEF UseInput, In, io
  <2>2. \/ pc = "readExe" /\ pc' = "readMetadata"
        \/ pc = "readMetadata" /\ pc' = "load"
        \/ pc = "load" /\ pc' = "create"
    BY <2>1 DEF Following, Inputs
  <2> QED
    BY <2>1, <2>2 DEF CmdInv, CmdTypeOK, InputsUsed, Untouched, InOrder, NothingLost,
       ErrorsEnd, Before, Places
<1>2. CASE InputFails \/ CreateFails
  <2>1. /\ pc \in Before /\ status' = "exited" /\ code' = 1
        /\ UNCHANGED <<good, ends, pc, next, buf, direct, file>>
    BY <1>2 DEF InputFails, CreateFails, In, io, Inputs, Before
  <2> QED
    BY <2>1 DEF CmdInv, CmdTypeOK, InputsUsed, Untouched, InOrder, NothingLost, ErrorsEnd,
       Before
<1> QED
  BY <1>1, <1>2

LEMMA CreateStep ==
  ASSUME CmdInv, Create
  PROVE  CmdInv'
<1>1. /\ pc = "create" /\ pc' = "dump" /\ file' = <<>> /\ status = "running"
      /\ UNCHANGED <<good, ends, next, buf, direct, code, status>>
  BY DEF Create, In, io, Following, CreatedFile
<1>2. buf = <<>> /\ direct = <<>> /\ next = 1
  BY <1>1 DEF CmdInv, Untouched, Before
<1>3. InOrder'
  BY <1>1, <1>2, BytesEmpty DEF InOrder
<1>4. NothingLost'
  BY <1>1, <1>2 DEF NothingLost, BytesBefore
<1> QED
  BY <1>1, <1>3, <1>4 DEF CmdInv, CmdTypeOK, InputsUsed, Untouched, ErrorsEnd, Before, Places

\* What is written, buffered and past the buffer, in numbers.
LEMMA Running ==
  ASSUME CmdInv, pc \notin Before
  PROVE  /\ Len(file) \in Nat /\ Len(buf) \in Nat /\ Len(direct) \in Nat
         /\ file = Bytes(1, Len(file))
         /\ buf = Bytes(Len(file) + 1, Len(buf))
         /\ direct = Bytes(Len(file) + 1, Len(direct))
         /\ buf \in Seq(Int) /\ direct \in Seq(Int)
         /\ next \in 1 .. Len(ends) + 1 /\ Len(ends) \in Nat
         /\ code = 0 => Len(file) + Len(buf) + Len(direct) = BytesBefore(next)
<1>1. ends \in Seq(Nat)
  BY DEF CmdInv, CmdTypeOK
<1> QED
  BY <1>1 DEF CmdInv, CmdTypeOK, InOrder, NothingLost

LEMMA BufferStep ==
  ASSUME CmdInv, BufferPiece
  PROVE  CmdInv'
<1> DEFINE f == Len(file)
           b == Len(buf)
           n == Size(next)
<1>1. /\ pc = "dump" /\ next <= Len(ends) /\ status = "running" /\ code = 0
      /\ buf' = buf \o Piece /\ next' = next + 1
      /\ UNCHANGED <<good, ends, pc, direct, file, code, status>>
  BY DEF BufferPiece, In, CmdInv, ErrorsEnd
<1>2. direct = <<>>
  BY <1>1 DEF CmdInv, InOrder, Before
<1>3. /\ f \in Nat /\ b \in Nat /\ buf = Bytes(f + 1, b)
      /\ f + b = BytesBefore(next)
  BY <1>1, <1>2, Running DEF Before
<1>4. /\ n \in Nat /\ Piece = Bytes(f + b + 1, n)
      /\ BytesBefore(next + 1) = f + b + n
      /\ next + 1 \in 1 .. Len(ends) + 1
  BY <1>1, <1>3, PieceContinues DEF CmdInv
<1>5. buf' = Bytes(f + 1, b + n)
  <2>1. f + 1 \in Int /\ f + b + 1 = (f + 1) + b
    BY <1>3
  <2>2. Bytes(f + 1, b) \o Bytes((f + 1) + b, n) = Bytes(f + 1, b + n)
    BY <1>3, <1>4, <2>1, BytesJoin
  <2> QED
    BY <1>1, <1>3, <1>4, <2>1, <2>2
<1>6. buf' \in Seq(Int) /\ Len(buf') = b + n
  <2>1. f + 1 \in Int /\ b + n \in Nat
    BY <1>3, <1>4
  <2>2. Bytes(f + 1, b + n) \in Seq(Int) /\ Len(Bytes(f + 1, b + n)) = b + n
    BY <2>1, BytesLength
  <2> QED
    BY <1>5, <2>2
<1>7. InOrder'
  BY <1>1, <1>2, <1>3, <1>5, <1>6 DEF CmdInv, InOrder
<1>8. NothingLost'
  <2>1. BytesBefore(next)' = BytesBefore(next + 1)
    BY <1>1 DEF BytesBefore
  <2> QED
    BY <1>1, <1>2, <1>3, <1>4, <1>6, <2>1 DEF NothingLost
<1> QED
  BY <1>1, <1>4, <1>6, <1>7, <1>8 DEF CmdInv, CmdTypeOK, InputsUsed, Untouched, ErrorsEnd, Before

LEMMA PastBufferStep ==
  ASSUME CmdInv, WritePieceDirectly
  PROVE  CmdInv'
<1> DEFINE f == Len(file)
           n == Size(next)
<1>1. /\ pc = "dump" /\ next <= Len(ends) /\ status = "running" /\ code = 0 /\ buf = <<>>
      /\ direct' = Piece /\ next' = next + 1 /\ pc' = "direct"
      /\ UNCHANGED <<good, ends, buf, file, code, status>>
  BY DEF WritePieceDirectly, In, CmdInv, ErrorsEnd
<1>2. direct = <<>>
  BY <1>1 DEF CmdInv, InOrder, Before
<1>3. f \in Nat /\ f = BytesBefore(next)
  BY <1>1, <1>2, Running DEF Before
<1>4. /\ n \in Nat /\ Piece = Bytes(f + 1, n)
      /\ BytesBefore(next + 1) = f + n
      /\ next + 1 \in 1 .. Len(ends) + 1
  BY <1>1, <1>3, PieceContinues DEF CmdInv
<1>5. direct' \in Seq(Int) /\ Len(direct') = n
  BY <1>1, <1>3, <1>4, BytesLength
<1>6. InOrder'
  BY <1>1, <1>4, <1>5 DEF CmdInv, InOrder, Before
<1>7. NothingLost'
  <2>1. BytesBefore(next)' = BytesBefore(next + 1)
    BY <1>1 DEF BytesBefore
  <2> QED
    BY <1>1, <1>3, <1>4, <1>5, <2>1 DEF NothingLost
<1> QED
  BY <1>1, <1>4, <1>5, <1>6, <1>7
     DEF CmdInv, CmdTypeOK, InputsUsed, Untouched, ErrorsEnd, Before, Places

\* Some of the bytes under way reach the file; the rest continues it.
LEMMA Moved ==
  ASSUME NEW f \in Nat, NEW m \in Nat, NEW n \in 1 .. m
  PROVE  /\ Bytes(1, f) \o SubSeq(Bytes(f + 1, m), 1, n) = Bytes(1, f + n)
         /\ SubSeq(Bytes(f + 1, m), n + 1, m) = Bytes(f + n + 1, m - n)
         /\ Len(Bytes(1, f + n)) = f + n /\ f + n \in Nat
         /\ Len(Bytes(f + n + 1, m - n)) = m - n /\ m - n \in Nat
         /\ Bytes(f + n + 1, m - n) \in Seq(Int)
<1>1. /\ n \in Nat /\ n \in 0 .. m /\ m - n \in Nat /\ f + n \in Nat
      /\ f + 1 \in Int /\ f + n + 1 \in Int /\ 1 \in Int
      /\ 1 + f = f + 1 /\ f + 1 + n = f + n + 1
  OBVIOUS
<1>2. /\ SubSeq(Bytes(f + 1, m), 1, n) = Bytes(f + 1, n)
      /\ SubSeq(Bytes(f + 1, m), n + 1, m) = Bytes(f + 1 + n, m - n)
  BY <1>1, BytesCut
<1>3. Bytes(1, f) \o Bytes(1 + f, n) = Bytes(1, f + n)
  BY <1>1, BytesJoin
<1>4. Len(Bytes(1, f + n)) = f + n
  BY <1>1, BytesLength
<1>5. Len(Bytes(f + n + 1, m - n)) = m - n /\ Bytes(f + n + 1, m - n) \in Seq(Int)
  BY <1>1, BytesLength
<1> QED
  BY <1>1, <1>2, <1>3, <1>4, <1>5

LEMMA DirectStep ==
  ASSUME CmdInv, DirectWrite
  PROVE  CmdInv'
<1>1. /\ pc = "direct" /\ status = "running" /\ code = 0 /\ buf = <<>>
      /\ UNCHANGED <<good, ends, pc, next, buf, code, status>>
  BY DEF DirectWrite, In, CmdInv, ErrorsEnd, NothingLost
<1>2. PICK n \in 1 .. Len(direct) : /\ file' = file \o SubSeq(direct, 1, n)
                                    /\ direct' = SubSeq(direct, n + 1, Len(direct))
  BY DEF DirectWrite
<1>3. /\ Len(file) \in Nat /\ Len(direct) \in Nat
      /\ file = Bytes(1, Len(file)) /\ direct = Bytes(Len(file) + 1, Len(direct))
      /\ Len(file) + Len(direct) = BytesBefore(next)
  BY <1>1, Running DEF Before
<1>4. /\ file' = Bytes(1, Len(file')) /\ Len(file') = Len(file) + n
      /\ direct' = Bytes(Len(file') + 1, Len(direct'))
      /\ Len(direct') = Len(direct) - n /\ direct' \in Seq(Int)
  <2> DEFINE f == Len(file)
             m == Len(direct)
  <2>1. f \in Nat /\ m \in Nat /\ n \in 1 .. m
    BY <1>3
  <2>2. /\ file = Bytes(1, f) /\ direct = Bytes(f + 1, m)
        /\ file' = file \o SubSeq(direct, 1, n) /\ direct' = SubSeq(direct, n + 1, m)
    BY <1>2, <1>3
  <2> HIDE DEF f, m
  <2>3. file' = Bytes(1, f + n) /\ direct' = Bytes(f + n + 1, m - n)
    BY <2>1, <2>2, Moved
  <2>4. Len(file') = f + n /\ Len(direct') = m - n /\ direct' \in Seq(Int)
    BY <2>1, <2>3, Moved
  <2> QED
    BY <2>3, <2>4 DEF f, m
<1>5. InOrder'
  BY <1>1, <1>3, <1>4, BytesEmpty DEF InOrder
<1>6. NothingLost'
  BY <1>1, <1>3, <1>4 DEF NothingLost, BytesBefore
<1> QED
  BY <1>1, <1>4, <1>5, <1>6 DEF CmdInv, CmdTypeOK, InputsUsed, Untouched, ErrorsEnd, Before

LEMMA FlushStep ==
  ASSUME CmdInv, FlushWrite
  PROVE  CmdInv'
<1>1. /\ pc \in {"makeRoom", "flush", "drop"} /\ status = "running"
      /\ UNCHANGED <<good, ends, pc, next, direct, code, status>>
  BY DEF FlushWrite, In
<1>2. PICK n \in 1 .. Len(buf) : /\ file' = file \o SubSeq(buf, 1, n)
                                 /\ buf' = SubSeq(buf, n + 1, Len(buf))
  BY DEF FlushWrite
<1>3. direct = <<>>
  BY <1>1 DEF CmdInv, InOrder, Before
<1>4. /\ Len(file) \in Nat /\ Len(buf) \in Nat
      /\ file = Bytes(1, Len(file)) /\ buf = Bytes(Len(file) + 1, Len(buf))
      /\ code = 0 => Len(file) + Len(buf) = BytesBefore(next)
  BY <1>1, <1>3, Running DEF Before
<1>5. /\ file' = Bytes(1, Len(file')) /\ Len(file') = Len(file) + n
      /\ buf' = Bytes(Len(file') + 1, Len(buf'))
      /\ Len(buf') = Len(buf) - n /\ buf' \in Seq(Int)
  <2> DEFINE f == Len(file)
             m == Len(buf)
  <2>1. f \in Nat /\ m \in Nat /\ n \in 1 .. m
    BY <1>4
  <2>2. /\ file = Bytes(1, f) /\ buf = Bytes(f + 1, m)
        /\ file' = file \o SubSeq(buf, 1, n) /\ buf' = SubSeq(buf, n + 1, m)
    BY <1>2, <1>4
  <2> HIDE DEF f, m
  <2>3. file' = Bytes(1, f + n) /\ buf' = Bytes(f + n + 1, m - n)
    BY <2>1, <2>2, Moved
  <2>4. Len(file') = f + n /\ Len(buf') = m - n /\ buf' \in Seq(Int)
    BY <2>1, <2>3, Moved
  <2> QED
    BY <2>3, <2>4 DEF f, m
<1>6. buf # <<>>
  BY <1>2, <1>4
<1>7. InOrder'
  BY <1>1, <1>3, <1>4, <1>5, BytesEmpty DEF InOrder
<1>8. NothingLost'
  BY <1>1, <1>3, <1>4, <1>5, <1>6 DEF CmdInv, NothingLost, BytesBefore
<1> QED
  BY <1>1, <1>5, <1>7, <1>8 DEF CmdInv, CmdTypeOK, InputsUsed, Untouched, ErrorsEnd, Before

\* The steps that move from call to call and leave all bytes where they are.
LEMMA CallSteps ==
  ASSUME CmdInv,
         FlushForPiece \/ DirectDone \/ MadeRoom \/ WriteFails \/ DumpPanics \/ DumpReturns
           \/ Flushed \/ Announce \/ Exit
  PROVE  CmdInv'
<1>1. /\ pc \notin Before /\ pc' \notin Before /\ pc' \in Places /\ status = "running"
      /\ UNCHANGED <<good, ends, next, buf, direct, file>>
      /\ code' \in {0, 1, 101} /\ status' \in {"running", "exited"}
      /\ code' = 0 => code = 0
      /\ pc \in {"direct", "drop"} \/ code' # 0 \/ pc' \in {"dump", "makeRoom", "flush", "print", "drop"}
  BY DEF FlushForPiece, DirectDone, MadeRoom, WriteFails, DumpPanics, DumpReturns,
     Flushed, Announce, Exit, In, io, Before, Places, AfterDump, CmdInv, ErrorsEnd, CmdTypeOK
<1>2. pc' # "direct" /\ (pc = "direct" => direct = <<>>)
  BY DEF FlushForPiece, DirectDone, MadeRoom, WriteFails, DumpPanics, DumpReturns,
     Flushed, Announce, Exit, In, AfterDump
<1>3. CmdTypeOK' /\ InputsUsed' /\ Untouched'
  BY <1>1 DEF CmdInv, CmdTypeOK, InputsUsed, Untouched, Before
<1>4. InOrder'
  BY <1>1, <1>2 DEF CmdInv, InOrder
<1>5. ErrorsEnd'
  BY DEF CmdInv, ErrorsEnd, FlushForPiece, DirectDone, MadeRoom, WriteFails, DumpPanics,
     DumpReturns, Flushed, Announce, Exit, In, AfterDump
<1>6. NothingLost'
  <2>1. Len(file') + Len(buf') + Len(direct') = Len(file) + Len(buf) + Len(direct)
        /\ BytesBefore(next)' = BytesBefore(next)
    BY <1>1 DEF BytesBefore
  <2>2. /\ pc' \in {"flush", "print"} \/ (pc' = "drop" /\ code' = 0) => next' = Len(ends') + 1
        /\ pc' = "print" \/ (pc' = "drop" /\ code' = 0) => buf' = <<>>
    <3>1. next \in 1 .. Len(ends) + 1 /\ Len(ends) \in Nat
      BY <1>1, Running
    <3> QED
      BY <1>1, <3>1 DEF CmdInv, ErrorsEnd, NothingLost, FlushForPiece, DirectDone, MadeRoom,
         WriteFails, DumpPanics, DumpReturns, Flushed, Announce, Exit, In, AfterDump
  <2> QED
    BY <1>1, <1>2, <2>1, <2>2 DEF CmdInv, NothingLost
<1> QED
  BY <1>3, <1>4, <1>5, <1>6 DEF CmdInv

\* A large write that fails is given up.
LEMMA DirectFailsStep ==
  ASSUME CmdInv, DirectFails
  PROVE  CmdInv'
<1>1. /\ pc = "direct" /\ pc' = "drop" /\ code' = 1 /\ direct' = <<>> /\ status = "running"
      /\ UNCHANGED <<good, ends, next, buf, file, status>>
  BY DEF DirectFails, In
<1>2. Len(file) \in Nat
  BY <1>1, Running DEF Before
<1>3. InOrder'
  BY <1>1, <1>2, BytesEmpty DEF CmdInv, InOrder, Before
<1> QED
  BY <1>1, <1>3 DEF CmdInv, CmdTypeOK, InputsUsed, Untouched, NothingLost, ErrorsEnd, Before,
     Places

LEMMA NextCmdInv == CmdInv /\ [Next]_vars => CmdInv'
<1> SUFFICES ASSUME CmdInv, [Next]_vars
             PROVE  CmdInv'
  OBVIOUS
<1>1. CASE UseInput \/ InputFails \/ CreateFails
  BY <1>1, InputSteps
<1>2. CASE Create
  BY <1>2, CreateStep
<1>3. CASE BufferPiece
  BY <1>3, BufferStep
<1>4. CASE WritePieceDirectly
  BY <1>4, PastBufferStep
<1>5. CASE DirectWrite
  BY <1>5, DirectStep
<1>6. CASE FlushWrite
  BY <1>6, FlushStep
<1>7. CASE FlushForPiece \/ DirectDone \/ MadeRoom \/ WriteFails \/ DumpPanics \/ DumpReturns
             \/ Flushed \/ Announce \/ Exit
  BY <1>7, CallSteps
<1>8. CASE DirectFails
  BY <1>8, DirectFailsStep
<1>9. CASE Kill \/ UNCHANGED vars
  <2>1. /\ UNCHANGED <<good, ends, pc, next, buf, direct, file, code>>
        /\ status' = "killed" \/ status' = status
    BY <1>9 DEF Kill, vars, io
  <2> QED
    BY <2>1 DEF CmdInv, CmdTypeOK, InputsUsed, Untouched, InOrder, NothingLost, ErrorsEnd,
       BytesBefore
<1> QED
  BY <1>1, <1>2, <1>3, <1>4, <1>5, <1>6, <1>7, <1>8, <1>9 DEF Next

(***************************************************************************)
(* CmdInv is an invariant of the dump subcommand.                          *)
(***************************************************************************)
THEOREM CmdInvariant == Spec => []CmdInv
  BY InitCmdInv, NextCmdInv, PTL DEF Spec

(***************************************************************************)
(* Exit with success means that the file holds the whole dump.             *)
(***************************************************************************)
THEOREM CompleteOnSuccess == Spec => []SuccessIsComplete
<1>1. CmdInv => SuccessIsComplete
  <2> SUFFICES ASSUME CmdInv, status = "exited", code = 0
               PROVE  file = Bytes(1, Total)
    BY DEF SuccessIsComplete
  <2>1. pc = "drop"
    BY DEF CmdInv, ErrorsEnd
  <2>2. next = Len(ends) + 1 /\ buf = <<>> /\ direct = <<>>
    BY <2>1 DEF CmdInv, NothingLost, InOrder, Before
  <2>3. Len(file) + Len(buf) + Len(direct) = Total /\ file = Bytes(1, Len(file)) /\ Len(file) \in Nat
    BY <2>1, <2>2, Running DEF Before, Total
  <2> QED
    BY <2>2, <2>3
<1> QED
  BY <1>1, CmdInvariant, PTL

(***************************************************************************)
(* Whatever happens, the file is as it was or a beginning of the dump.     *)
(***************************************************************************)
THEOREM PrefixAlways == Spec => []FileIsPrefix
<1>1. CmdInv => FileIsPrefix
  BY DEF CmdInv, Untouched, InOrder, FileIsPrefix
<1> QED
  BY <1>1, CmdInvariant, PTL

(***************************************************************************)
(* Bad inputs leave an earlier dump as it was.                             *)
(***************************************************************************)
THEOREM BadInputHarmless == Spec => []BadInputKeepsFile
<1>1. CmdInv => BadInputKeepsFile
  BY DEF CmdInv, CmdTypeOK, InputsUsed, Untouched, Before, Places, Inputs, BadInputKeepsFile
<1> QED
  BY <1>1, CmdInvariant, PTL
=============================================================================
