--------------------------- MODULE RecordsProofs ---------------------------
(* Proofs about what is read from the decrypted body: the bases of its      *)
(* tables, its strings, and the types with their fields and methods, for    *)
(* every body and every number in it.                                       *)
EXTENDS MCRecords, DefaultLiteral,
        NaturalLemmas, FiniteSetTheorems, TLAPS

-----------------------------------------------------------------------------
(***************************************************************************)
(* Addresses.  A whole number above -USIZE/2 that is cast to a usize is in *)
(* a buffer exactly if it was: the residue of a negative one is beyond the *)
(* end of every buffer.                                                    *)
(***************************************************************************)
LEMMA Widths ==
  /\ USIZE \in Nat \ {0} /\ U32_RANGE \in Nat \ {0} /\ WORD \in Nat \ {0}
  /\ TYPE_LEN \in Nat \ {0} /\ KIND_AT \in Nat /\ KIND_AT < TYPE_LEN
  /\ 4 * U32_RANGE <= USIZE
  /\ LONGEST \in Nat /\ 2 * LONGEST + 2 <= USIZE
BY MemoryAssumption DEF LONGEST

LEMMA BufferSize ==
  ASSUME NEW mem, IsBuffer(mem)
  PROVE  /\ SizeOf(mem) \in Nat /\ 2 * SizeOf(mem) + 2 <= USIZE
         /\ DOMAIN mem = 0 .. SizeOf(mem) - 1
<1>1. PICK n \in 0 .. LONGEST : DOMAIN mem = 0 .. n - 1
  BY DEF IsBuffer
<1>2. n \in Nat /\ n <= LONGEST
  BY <1>1, Widths
<1>3. Cardinality(0 .. n - 1) = n
  BY <1>2, FS_Interval
<1> QED
  BY <1>1, <1>2, <1>3, Widths DEF SizeOf

\* The whole numbers that the addresses of this code stand for.
Whole == {w \in Int : -USIZE <= 2 * w /\ w < USIZE}

LEMMA CastOfWhole ==
  ASSUME NEW w \in Whole
  PROVE  /\ w >= 0 => AsUsize(w) = w
         /\ w < 0 => AsUsize(w) = w + USIZE
<1>1. w \in Int /\ USIZE \in Nat \ {0}
  BY Widths DEF Whole
<1>2. /\ w >= 0 => w \in 0 .. USIZE - 1
      /\ w < 0 => w \in -USIZE .. -1
  BY <1>1 DEF Whole
<1>3. /\ w \in 0 .. USIZE - 1 => w % USIZE = w
      /\ w \in -USIZE .. -1 => w % USIZE = w + USIZE
  BY <1>1, ResidueOf, Zenon
<1> QED
  BY <1>2, <1>3 DEF AsUsize

LEMMA AddressInBuffer ==
  ASSUME NEW mem, IsBuffer(mem), NEW w \in Whole, NEW size \in Nat
  PROVE  Readable(mem, AsUsize(w), size) <=> 0 <= w /\ w + size <= SizeOf(mem)
<1>1. SizeOf(mem) \in Nat /\ 2 * SizeOf(mem) + 2 <= USIZE
  BY BufferSize
<1>2. CASE w >= 0
  BY <1>2, CastOfWhole DEF Readable, Whole
<1>3. CASE w < 0
  <2>1. AsUsize(w) = w + USIZE
    BY <1>3, CastOfWhole
  <2>2. ~(w + USIZE + size <= SizeOf(mem))
    BY <1>1, <1>3, Widths DEF Whole
  <2> QED
    BY <1>3, <2>1, <2>2 DEF Readable, Whole
<1> QED
  BY <1>2, <1>3 DEF Whole

\* An entry of a table whose base is an i32 less a bias.
LEMMA OffsetAddress ==
  ASSUME NEW base \in SignedBase, NEW stride \in Nat, NEW n \in Nat,
         stride * n + 3 * U32_RANGE <= USIZE
  PROVE  /\ base + stride * n \in Whole
         /\ Entry(AsUsize(base), stride, n) = AsUsize(base + stride * n)
         /\ base >= 0 => ~Overflows(AsUsize(base), stride, n)
<1> DEFINE m == stride * n
<1>1. base \in Int /\ -U32_RANGE <= base /\ base < U32_RANGE
  BY Widths DEF SignedBase
<1>2. m \in Nat /\ m + 3 * U32_RANGE <= USIZE
  OBVIOUS
<1> HIDE DEF m
<1>3. base + m \in Whole
  BY <1>1, <1>2, Widths DEF Whole
<1>4. ((base % USIZE) + m) % USIZE = (base + m) % USIZE
  <2>1. base \in Int /\ m \in Int /\ USIZE \in Nat \ {0}
    BY <1>1, <1>2, Widths
  <2> QED
    BY <2>1, ResidueSum, Zenon
<1>5. ASSUME base >= 0
      PROVE  ~(m >= USIZE \/ (base % USIZE) + (m % USIZE) >= USIZE)
  <2>1. base \in 0 .. USIZE - 1 /\ m \in 0 .. USIZE - 1
    BY <1>1, <1>2, <1>5, Widths
  <2>2. base % USIZE = base /\ m % USIZE = m
    <3>1. base \in Int /\ m \in Int /\ USIZE \in Nat \ {0}
      BY <1>1, <1>2, Widths
    <3> QED
      BY <2>1, <3>1, ResidueOf, Zenon
  <2> QED
    BY <1>1, <1>2, <2>1, <2>2, Widths
<1> QED
  BY <1>3, <1>4, <1>5 DEF Entry, Overflows, AsUsize, m

LEMMA StrideFits ==
  ASSUME NEW stride \in Nat, FitsUsize(stride), NEW n \in Word32
  PROVE  stride * n \in Nat /\ stride * n + 3 * U32_RANGE <= USIZE
<1>1. n \in Nat /\ n < U32_RANGE
  BY Widths DEF Word32
<1>2. stride * n <= stride * U32_RANGE
  BY <1>1, Widths
<1>3. (stride + 3) * U32_RANGE = stride * U32_RANGE + 3 * U32_RANGE
  BY Widths
<1>4. stride * n \in Nat /\ stride * U32_RANGE \in Nat
  BY <1>1, Widths
<1> QED
  BY <1>2, <1>3, <1>4, Widths DEF FitsUsize

LEMMA TableAddress ==
  ASSUME NEW base \in SignedBase, NEW stride \in Nat, FitsUsize(stride), NEW n \in Word32
  PROVE  /\ base + stride * n \in Whole
         /\ Entry(AsUsize(base), stride, n) = AsUsize(base + stride * n)
         /\ base >= 0 => ~Overflows(AsUsize(base), stride, n)
<1>1. n \in Nat
  BY Widths DEF Word32
<1> QED
  BY <1>1, StrideFits, OffsetAddress

\* The base of a table that is a u32.
LEMMA PlainBase ==
  ASSUME NEW base \in Word32
  PROVE  base \in SignedBase /\ AsUsize(base) = base /\ base \in Nat
<1>1. base \in SignedBase /\ base \in Whole /\ base >= 0
  BY Widths DEF Word32, SignedBase, Whole
<1> QED
  BY <1>1, CastOfWhole DEF Whole

LEMMA SignedOf ==
  ASSUME NEW n \in Word32
  PROVE  AsI32(n) \in Int /\ 2 * AsI32(n) \in SignedBase
BY Widths DEF Word32, SignedBase, AsI32

\* What a list of records holds, and holds when one more is appended.
RangeOf(s) == {s[n] : n \in DOMAIN s}

LEMMA MembersOf ==
  ASSUME NEW S, NEW s \in Seq(S), NEW n \in DOMAIN s
  PROVE  s[n] \in S /\ n \in Nat /\ n < Len(s) + 1 /\ Len(s) \in Nat
OBVIOUS

LEMMA RangeOfAppend ==
  ASSUME NEW S, NEW s \in Seq(S), NEW e \in S
  PROVE  /\ Append(s, e) \in Seq(S)
         /\ RangeOf(Append(s, e)) = RangeOf(s) \union {e}
         /\ \A n \in DOMAIN Append(s, e) :
              \/ n \in DOMAIN s /\ n < Len(s) + 1 /\ Append(s, e)[n] = s[n]
              \/ n = Len(s) + 1 /\ Append(s, e)[n] = e
<1>1. /\ Append(s, e) \in Seq(S)
      /\ DOMAIN Append(s, e) = 1 .. Len(s) + 1 /\ DOMAIN s = 1 .. Len(s) /\ Len(s) \in Nat
      /\ \A n \in 1 .. Len(s) : Append(s, e)[n] = s[n]
      /\ Append(s, e)[Len(s) + 1] = e
  OBVIOUS
<1>2. \A n \in DOMAIN Append(s, e) :
        \/ n \in DOMAIN s /\ n < Len(s) + 1 /\ Append(s, e)[n] = s[n]
        \/ n = Len(s) + 1 /\ Append(s, e)[n] = e
  BY <1>1
<1>3. DOMAIN s \subseteq DOMAIN Append(s, e) /\ Len(s) + 1 \in DOMAIN Append(s, e)
  BY <1>1
<1>4. RangeOf(Append(s, e)) = RangeOf(s) \union {e}
  BY <1>1, <1>2, <1>3 DEF RangeOf
<1> QED
  BY <1>1, <1>2, <1>4

-----------------------------------------------------------------------------
(***************************************************************************)
(* The bases of the tables.                                                *)
(***************************************************************************)
BaseOfTable(t) == BaseOf(t, word[t])

BasesInv ==
  /\ word \in AnyWords /\ bodyLen \in BodyLens
  /\ bpc \in {"search", "none", "resolve", "print", "done"}
  /\ bpc \in {"print", "done"} => bases = [t \in Tables |-> BaseOfTable(t)]
  /\ bpc \notin {"print", "done"} => report = <<>>
  /\ report \in Seq(Tables \X {"OK", "OOB"})
  /\ \A n \in 1 .. Len(report) : report[n][2] = Flag(BaseOfTable(report[n][1]))

\* A base is inside the body exactly if the whole number is.
LEMMA BaseInBody ==
  ASSUME BasesInv, NEW t \in Tables
  PROVE  /\ Signed(t, word[t]) \in Int
         /\ BaseOfTable(t) < bodyLen <=> Signed(t, word[t]) \in 0 .. bodyLen - 1
         /\ BaseOfTable(t) \in Nat /\ bodyLen \in Nat
<1>1. word[t] \in Words[t] /\ bodyLen \in Nat /\ bodyLen <= LONGEST
  BY BasesAssumption, Widths DEF BasesInv, AnyWords
<1>2. Signed(t, word[t]) \in Whole
  <2>1. CASE t \in Subs
    <3>1. PICK n \in Word32 : word[t] = AsI32(n)
      BY <1>1, <2>1, BasesAssumption
    <3>2. n \in Nat /\ n < U32_RANGE
      BY <3>1, Widths DEF Word32
    <3>3. word[t] \in Int /\ -U32_RANGE <= 2 * word[t] /\ word[t] < U32_RANGE
      BY <3>1, <3>2, Widths DEF AsI32
    <3>4. Bias[t] \in Nat /\ 2 * Bias[t] < U32_RANGE
      BY <2>1, BasesAssumption, Widths DEF Word32
    <3> QED
      BY <2>1, <3>3, <3>4, Widths DEF Signed, Whole
  <2>2. CASE t \notin Subs
    <3>1. t \in Xors
      BY <2>2 DEF Tables
    <3>2. word[t] \in Word32
      BY <1>1, <3>1, BasesAssumption
    <3> QED
      BY <2>2, <3>2, Widths DEF Signed, Whole, Word32
  <2> QED
    BY <2>1, <2>2
<1> DEFINE w == Signed(t, word[t])
<1>3. w \in Whole
  BY <1>2
<1> HIDE DEF w
<1>4. (w >= 0 => AsUsize(w) = w) /\ (w < 0 => AsUsize(w) = w + USIZE)
  BY <1>3, CastOfWhole
<1>5. AsUsize(w) < bodyLen <=> w \in 0 .. bodyLen - 1
  BY <1>1, <1>3, <1>4, Widths DEF Whole
<1>6. AsUsize(w) \in Nat
  BY <1>3, <1>4, Widths DEF Whole
<1> QED
  BY <1>1, <1>3, <1>5, <1>6 DEF BaseOfTable, BaseOf, w, Whole

LEMMA InitBasesInv == BasesInit => BasesInv
  BY DEF BasesInit, BasesInv

LEMMA NextBasesInv == BasesInv /\ [BasesNext]_baseVars => BasesInv'
<1> SUFFICES ASSUME BasesInv, [BasesNext]_baseVars
             PROVE  BasesInv'
  OBVIOUS
<1>1. CASE Validate
  BY <1>1 DEF Validate, BasesInv, BaseOfTable, Flag
<1>2. CASE Resolve
  BY <1>2 DEF Resolve, BasesInv, BaseOfTable, Flag
<1>3. CASE ReportLine
  <2> DEFINE t == Order[Len(report) + 1]
             line == <<t, Flag(bases[t])>>
  <2>1. /\ bpc = "print" /\ report' = Append(report, line)
        /\ UNCHANGED <<word, bodyLen, bases, bpc>>
    BY <1>3 DEF ReportLine
  <2>2. t \in Tables
    <3>1. Len(report) + 1 \in DOMAIN Order
      BY <1>3, BasesAssumption DEF ReportLine, BasesInv
    <3> QED
      BY <3>1, BasesAssumption
  <2>3. bases[t] = BaseOfTable(t) /\ Flag(bases[t]) \in {"OK", "OOB"}
    BY <2>1, <2>2 DEF BasesInv, Flag
  <2> HIDE DEF t
  <2>4. /\ report' \in Seq(Tables \X {"OK", "OOB"})
        /\ \A n \in 1 .. Len(report') : report'[n] = line \/ (n \in 1 .. Len(report) /\ report'[n] = report[n])
    BY <2>1, <2>2, <2>3 DEF BasesInv
  <2>5. \A n \in 1 .. Len(report') : report'[n][2] = Flag(BaseOfTable(report'[n][1]))
    BY <2>3, <2>4 DEF BasesInv
  <2> QED
    BY <2>1, <2>4, <2>5 DEF BasesInv, BaseOfTable, Flag
<1>4. CASE BasesDone \/ UNCHANGED baseVars
  BY <1>4 DEF BasesDone, baseVars, BasesInv, BaseOfTable, Flag
<1> QED
  BY <1>1, <1>2, <1>3, <1>4 DEF BasesNext

(***************************************************************************)
(* BasesInv is an invariant of resolving the bases and reporting them.     *)
(***************************************************************************)
THEOREM BasesInvariant == BasesSpec => []BasesInv
  BY InitBasesInv, NextBasesInv, PTL DEF BasesSpec

(***************************************************************************)
(* A table is reported inside the body exactly if the whole number its     *)
(* word stands for is.                                                     *)
(***************************************************************************)
THEOREM ReportIsRight == BasesSpec => []OobIfOutside
<1>1. BasesInv => OobIfOutside
  <2> SUFFICES ASSUME BasesInv, NEW line \in Lines
               PROVE  line[2] = "OK" <=> Signed(line[1], word[line[1]]) \in 0 .. bodyLen - 1
    BY DEF OobIfOutside, Signed
  <2>1. PICK n \in 1 .. Len(report) : line = report[n]
    BY DEF Lines, BasesInv
  <2>2. line[1] \in Tables /\ line[2] = Flag(BaseOfTable(line[1]))
    BY <2>1 DEF BasesInv
  <2> QED
    BY <2>2, BaseInBody DEF Flag
<1> QED
  BY <1>1, BasesInvariant, PTL

-----------------------------------------------------------------------------
(***************************************************************************)
(* The fields of a type.                                                   *)
(***************************************************************************)
FieldInputOK == fbody \in FieldBodies /\ fin \in FieldInputs /\ fchecked \in BOOLEAN

IndexAt == fin.tableB + WORD * fin.tdi
RowAt == fin.rows + ROW_LEN * ib
NegativeField == fin.fieldDefs < 0 \/ fin.fieldOffs < 0 \/ ib < 0

FieldInv ==
  /\ FieldInputOK
  /\ fpc \in {"index", "row", "loop", "done", "panic"}
  /\ j \in Nat /\ j <= fin.fieldCount
  /\ fpc \in {"row", "loop"} => HasFields
  /\ fpc \in {"index", "row"} => j = 0 /\ foff = 0
  /\ fpc = "row" => InFieldBody(IndexAt, WORD) /\ ib = AsI32(fbody[IndexAt])
  /\ fpc = "loop" => foff = FirstSlot
  /\ foff \in Word32 /\ 2 * ib \in SignedBase /\ ib \in Int
  /\ fields \in Seq([gfi : Nat, offset : Int])
  /\ RangeOf(fields) = FieldsOf(j)
  /\ InFieldOrder
  /\ \A n \in DOMAIN fields : fields[n].gfi < fin.fieldStart + j
  /\ Len(fields) <= j
  /\ fpc = "done" => j = fin.fieldCount \/ ~HasFields
  /\ fpc = "panic" => fchecked /\ NegativeField

LEMMA FieldFacts ==
  ASSUME FieldInputOK
  PROVE  /\ IsBuffer(fbody) /\ \A o \in DOMAIN fbody : fbody[o] \in Word32
         /\ fin.fieldDefs \in SignedBase /\ fin.fieldOffs \in SignedBase
         /\ fin.tableB \in Word32 /\ fin.rows \in Word32 /\ fin.tdi \in Word32
         /\ fin.fieldCount \in Nat /\ 2 * fin.fieldCount < U32_RANGE
         /\ fin.fieldStart \in Int /\ 2 * fin.fieldStart < U32_RANGE
         /\ FIELD_LEN \in Nat /\ ROW_LEN \in Nat /\ LOW_BYTES \in Nat \ {0}
         /\ ROW_AT \in Nat /\ ROW_AT + WORD <= ROW_LEN
         /\ FitsUsize(FIELD_LEN) /\ FitsUsize(ROW_LEN) /\ FitsUsize(2 * WORD) /\ FitsUsize(WORD)
<1>1. IsFieldInput(fin) /\ fbody \in FieldBodies
  BY FieldTableAssumption DEF FieldInputOK
<1>2. /\ FIELD_LEN \in Nat /\ ROW_LEN \in Nat /\ LOW_BYTES \in Nat \ {0}
      /\ ROW_AT \in Nat /\ ROW_AT + WORD <= ROW_LEN
  BY FieldTableAssumption, Widths
<1>3. FitsUsize(WORD)
  BY FieldTableAssumption, Widths DEF FitsUsize
<1>4. /\ fin.fieldCount \in Nat /\ 2 * fin.fieldCount < U32_RANGE
      /\ fin.fieldStart \in Int /\ 2 * fin.fieldStart < U32_RANGE
  BY <1>1, Widths DEF IsFieldInput, SignedBase, Word32
<1>5. /\ fin.fieldDefs \in SignedBase /\ fin.fieldOffs \in SignedBase
      /\ fin.tableB \in Word32 /\ fin.rows \in Word32 /\ fin.tdi \in Word32
  BY <1>1 DEF IsFieldInput
<1> QED
  BY <1>1, <1>2, <1>3, <1>4, <1>5, FieldTableAssumption

\* A read at a whole address finds what the whole address holds.
LEMMA FieldRead ==
  ASSUME FieldInputOK, NEW w \in Whole, NEW size \in Nat
  PROVE  /\ Readable(fbody, AsUsize(w), size) <=> InFieldBody(w, size)
         /\ ReadAt(fbody, AsUsize(w), WORD) = WordAt(w)
         /\ WordAt(w) \in Word32
<1>1. IsBuffer(fbody) /\ \A o \in DOMAIN fbody : fbody[o] \in Word32
  BY FieldFacts
<1>2. \A l \in Nat : Readable(fbody, AsUsize(w), l) <=> InFieldBody(w, l)
  BY <1>1, AddressInBuffer DEF InFieldBody
<1>3. WORD \in Nat \ {0} /\ w \in Int
  BY Widths DEF Whole
<1>4. CASE InFieldBody(w, WORD)
  <2>1. AsUsize(w) = w
    BY <1>4, CastOfWhole DEF InFieldBody
  <2>2. w \in DOMAIN fbody
    BY <1>1, <1>3, <1>4, BufferSize DEF InFieldBody
  <2> QED
    BY <1>1, <1>2, <1>3, <1>4, <2>1, <2>2 DEF ReadAt, WordAt
<1>5. CASE ~InFieldBody(w, WORD)
  BY <1>2, <1>3, <1>5, Widths DEF ReadAt, WordAt, Word32
<1> QED
  BY <1>2, <1>4, <1>5

LEMMA IndexAddress ==
  ASSUME FieldInputOK
  PROVE  /\ Readable(fbody, Entry(fin.tableB, WORD, fin.tdi), WORD) <=> InFieldBody(IndexAt, WORD)
         /\ InFieldBody(IndexAt, WORD) =>
              /\ Entry(fin.tableB, WORD, fin.tdi) = IndexAt
              /\ fbody[IndexAt] \in Word32
<1>1. /\ IndexAt \in Whole /\ Entry(fin.tableB, WORD, fin.tdi) = AsUsize(IndexAt)
  BY FieldFacts, PlainBase, TableAddress, Widths DEF IndexAt
<1>2. ASSUME InFieldBody(IndexAt, WORD)
      PROVE  AsUsize(IndexAt) = IndexAt /\ fbody[IndexAt] = WordAt(IndexAt)
  BY <1>1, <1>2, CastOfWhole DEF InFieldBody, WordAt
<1> QED
  BY <1>1, <1>2, FieldRead, Widths

\* The row of an index, which may be negative and the row before the body then.
LEMMA RowAddress ==
  ASSUME FieldInputOK, ib \in Int, 2 * ib \in SignedBase
  PROVE  /\ \A d \in 0 .. ROW_LEN : RowAt + d \in Whole /\ (Row + d) % USIZE = AsUsize(RowAt + d)
         /\ ib >= 0 => ~RowOverflows
<1>1. /\ fin.rows \in Nat /\ fin.rows < U32_RANGE /\ fin.rows \in SignedBase
      /\ AsUsize(fin.rows) = fin.rows
      /\ ROW_LEN \in Nat /\ FitsUsize(ROW_LEN) /\ ROW_AT \in Nat /\ ROW_AT + WORD <= ROW_LEN
  <2>1. fin.rows \in Word32
    BY FieldFacts
  <2> QED
    BY <2>1, FieldFacts, PlainBase, Widths DEF Word32
<1>2. /\ -U32_RANGE <= 2 * ib /\ 2 * ib < U32_RANGE
      /\ ROW_LEN * U32_RANGE \in Nat /\ ROW_LEN * U32_RANGE + 3 * U32_RANGE <= USIZE
  <2>1. (ROW_LEN + 3) * U32_RANGE = ROW_LEN * U32_RANGE + 3 * U32_RANGE
    BY <1>1, Widths
  <2> QED
    BY <1>1, <2>1, Widths DEF FitsUsize, SignedBase
<1> DEFINE p == ROW_LEN * ib
           q == ROW_LEN * U32_RANGE
<1>3. p \in Int /\ -q <= 2 * p /\ 2 * p <= q /\ q \in Nat /\ (ib >= 0 => p >= 0)
  <2>1. p \in Int /\ q \in Int
    BY <1>1, Widths
  <2>2. ROW_LEN * (-U32_RANGE) <= ROW_LEN * (2 * ib) /\ ROW_LEN * (2 * ib) <= ROW_LEN * U32_RANGE
    BY <1>1, <1>2, Widths
  <2>3. ROW_LEN * (-U32_RANGE) = -q /\ ROW_LEN * (2 * ib) = 2 * p
    BY <1>1, Widths
  <2> QED
    BY <1>1, <1>2, <2>1, <2>2, <2>3
<1>4. q + 3 * U32_RANGE <= USIZE /\ p + ROW_LEN <= q
  <2>1. ib + 1 <= U32_RANGE /\ ib + 1 \in Int
    BY <1>2, Widths
  <2>2. ROW_LEN * (ib + 1) <= ROW_LEN * U32_RANGE
    BY <1>1, <2>1, Widths
  <2> QED
    BY <1>1, <1>2, <2>2
<1>5. RowAt = fin.rows + p
  BY DEF RowAt
<1>6. Row = AsUsize(RowAt)
  <2>1. CASE ib >= 0
    <3>1. ib \in Word32 /\ ib \in Whole
      BY <1>2, <2>1, Widths DEF Word32, Whole
    <3>2. IndexOf(ib) = ib
      BY <2>1, <3>1, CastOfWhole DEF IndexOf
    <3> QED
      BY <1>1, <3>1, <3>2, TableAddress DEF Row, RowAt
  <2>2. CASE ib < 0
    <3>1. ib \in Whole
      BY <1>2, Widths DEF Whole
    <3>2. IndexOf(ib) = ib + USIZE
      BY <2>2, <3>1, CastOfWhole DEF IndexOf
    <3>3. ROW_LEN * (ib + USIZE) = p + ROW_LEN * USIZE
      BY <1>1, Widths
    <3>4. fin.rows + ROW_LEN * (ib + USIZE) = RowAt + ROW_LEN * USIZE /\ RowAt \in Int
      <4>1. ROW_LEN * USIZE \in Int
        BY <1>1, Widths
      <4> HIDE DEF p
      <4> QED
        BY <1>1, <1>3, <1>5, <3>3, <4>1
    <3>5. (RowAt + ROW_LEN * USIZE) % USIZE = RowAt % USIZE
      <4>1. USIZE \in Nat \ {0} /\ ROW_LEN \in Int
        BY <1>1, Widths
      <4> QED
        BY <3>4, <4>1, ResidueShift, Zenon
    <3> QED
      BY <3>2, <3>4, <3>5 DEF Row, Entry, AsUsize
  <2> QED
    BY <2>1, <2>2
<1> HIDE DEF p, q
<1>7. ASSUME NEW d \in 0 .. ROW_LEN
      PROVE  RowAt + d \in Whole /\ (Row + d) % USIZE = AsUsize(RowAt + d)
  <2>1. RowAt + d \in Whole /\ RowAt \in Int /\ d \in Int
    <3>1. d \in Nat /\ d <= ROW_LEN
      BY <1>1
    <3> QED
      BY <1>1, <1>3, <1>4, <1>5, <3>1, Widths DEF Whole
  <2>2. ((RowAt % USIZE) + d) % USIZE = (RowAt + d) % USIZE
    <3>1. USIZE \in Nat \ {0}
      BY Widths
    <3> QED
      BY <2>1, <3>1, ResidueSum, Zenon
  <2> QED
    BY <1>6, <2>1, <2>2 DEF AsUsize
<1>8. ASSUME ib >= 0
      PROVE  ~RowOverflows
  <2>1. ib \in Word32 /\ ib \in Whole
    BY <1>2, <1>8, Widths DEF Word32, Whole
  <2>2. IndexOf(ib) = ib
    BY <1>8, <2>1, CastOfWhole DEF IndexOf
  <2>3. ~Overflows(fin.rows, ROW_LEN, IndexOf(ib))
    BY <1>1, <2>1, <2>2, TableAddress
  <2>4. RowAt \in Whole /\ RowAt >= 0
    BY <1>1, <1>3, <1>4, <1>5, <1>8, Widths DEF Whole
  <2>5. Row = RowAt
    BY <1>6, <2>4, CastOfWhole
  <2>6. ~(Row + ROW_AT + WORD >= USIZE)
    BY <1>1, <1>3, <1>4, <1>5, <2>5, Widths
  <2> QED
    BY <2>3, <2>6 DEF RowOverflows
<1> QED
  BY <1>7, <1>8

\* The addresses of field j of the type.
LEMMA FieldAddresses ==
  ASSUME FieldInv, fpc = "loop", j < fin.fieldCount
  PROVE  /\ Gfi = fin.fieldStart + j /\ Gfi \in Nat
         /\ Readable(fbody, FieldDef, FIELD_LEN) <=> FieldThere(j)
         /\ fin.fieldDefs >= 0 => ~FieldDefOverflows
         /\ Shown(ReadAt(fbody, OffsetAt, WORD)) = OffsetOf(j) /\ OffsetOf(j) \in Int
         /\ fin.fieldOffs >= 0 => ~OffsetOverflows
<1>1. /\ FieldInputOK /\ j \in Nat /\ fin.fieldStart >= 0
      /\ foff \in Nat /\ foff < U32_RANGE /\ foff = FirstSlot
  BY Widths DEF FieldInv, HasFields, Word32
<1>2. /\ fin.fieldStart \in Nat /\ fin.fieldCount \in Nat /\ fin.fieldStart + j < U32_RANGE
      /\ fin.fieldDefs \in SignedBase /\ fin.fieldOffs \in SignedBase
      /\ FIELD_LEN \in Nat /\ FitsUsize(FIELD_LEN)
  BY <1>1, FieldFacts, Widths
<1>3. Gfi = fin.fieldStart + j
  <2>1. fin.fieldStart + j \in Int /\ fin.fieldStart + j \in 0 .. U32_RANGE - 1
        /\ U32_RANGE \in Nat \ {0}
    BY <1>1, <1>2, Widths
  <2> QED
    BY <2>1, ResidueOf, Zenon DEF Gfi
<1>4. Gfi \in Word32 /\ Gfi \in Nat
  BY <1>1, <1>2, <1>3, Widths DEF Word32
<1> DEFINE w == fin.fieldDefs + FIELD_LEN * Gfi
<1>5. /\ w \in Whole /\ FieldDef = AsUsize(w)
      /\ fin.fieldDefs >= 0 => ~FieldDefOverflows
  BY <1>2, <1>4, TableAddress DEF FieldDef, FieldDefOverflows
<1>6. Readable(fbody, FieldDef, FIELD_LEN) <=> InFieldBody(w, FIELD_LEN)
  <2> HIDE DEF w
  <2> QED
    BY <1>1, <1>2, <1>5, FieldRead
<1>7. FieldThere(j) <=> InFieldBody(w, FIELD_LEN)
  BY <1>3 DEF FieldThere
<1> DEFINE n == j + foff
           v == fin.fieldOffs + WORD * n
<1>8. n \in Nat /\ WORD * n + 3 * U32_RANGE <= USIZE
  <2>1. n \in Nat /\ n <= 2 * U32_RANGE
    BY <1>1, <1>2, Widths
  <2>2. WORD * n <= WORD * (2 * U32_RANGE)
    <3> HIDE DEF n
    <3> QED
      BY <2>1, Widths
  <2>3. (2 * WORD + 3) * U32_RANGE = WORD * (2 * U32_RANGE) + 3 * U32_RANGE
        /\ WORD * (2 * U32_RANGE) \in Nat
    BY Widths
  <2>4. (2 * WORD + 3) * U32_RANGE <= USIZE
    BY <1>1, FieldFacts DEF FitsUsize
  <2>5. WORD * n \in Nat
    <3> HIDE DEF n
    <3> QED
      BY <2>1, Widths
  <2> HIDE DEF n
  <2> QED
    BY <2>1, <2>2, <2>3, <2>4, <2>5, Widths
<1>9. /\ v \in Whole /\ OffsetAt = AsUsize(v)
      /\ fin.fieldOffs >= 0 => ~OffsetOverflows
  <2>1. Slot(j) = n
    BY DEF Slot
  <2>2. WORD \in Nat
    BY Widths
  <2> HIDE DEF n
  <2> QED
    BY <1>2, <1>8, <2>1, <2>2, OffsetAddress DEF OffsetAt, OffsetOverflows
<1>10. ReadAt(fbody, OffsetAt, WORD) = WordAt(v) /\ WordAt(v) \in Word32
  <2> HIDE DEF v
  <2> QED
    BY <1>1, <1>9, FieldRead, Widths
<1>11. OffsetOf(j) = Shown(WordAt(v))
  BY <1>1 DEF OffsetOf
<1>12. Shown(WordAt(v)) \in Int
  <2>1. WordAt(v) \in Nat /\ LOW_BYTES \in Nat \ {0}
    BY <1>1, <1>10, FieldFacts, Widths DEF Word32
  <2> HIDE DEF v
  <2> QED
    BY <2>1 DEF Shown
<1> QED
  BY <1>3, <1>4, <1>5, <1>6, <1>7, <1>9, <1>10, <1>11, <1>12

\* The fields of the type among the first j + 1.
LEMMA OneMoreField ==
  ASSUME NEW n \in Nat
  PROVE  /\ HasFields /\ FieldThere(n) =>
              FieldsOf(n + 1) =
                FieldsOf(n) \union {[gfi |-> fin.fieldStart + n, offset |-> OffsetOf(n)]}
         /\ ~(HasFields /\ FieldThere(n)) => FieldsOf(n + 1) = FieldsOf(n)
<1>1. 0 .. n + 1 - 1 = (0 .. n - 1) \union {n}
  OBVIOUS
<1> QED
  BY <1>1 DEF FieldsOf

LEMMA InitFieldInv == FieldInit => FieldInv
<1> SUFFICES ASSUME FieldInit PROVE FieldInv
  OBVIOUS
<1>1. FieldInputOK
  BY DEF FieldInit, FieldInputOK
<1>2. FieldsOf(0) = {}
  BY DEF FieldsOf
<1>3. j = 0 /\ fields = <<>> /\ ib = 0 /\ foff = 0 /\ fpc = "index"
  BY DEF FieldInit
<1>4. fin.fieldCount \in Nat /\ 0 \in Word32 /\ 0 \in SignedBase /\ 2 * 0 = 0
  BY <1>1, FieldFacts, Widths DEF Word32, SignedBase
<1>5. RangeOf(<<>>) = {}
  BY DEF RangeOf
<1>6. /\ InFieldOrder /\ \A n \in DOMAIN fields : fields[n].gfi < fin.fieldStart + j
      /\ fields \in Seq([gfi : Nat, offset : Int]) /\ Len(fields) = 0
  BY <1>3 DEF InFieldOrder
<1>7. RangeOf(fields) = FieldsOf(j)
  BY <1>2, <1>3, <1>5
<1>8. /\ j \in Nat /\ j <= fin.fieldCount /\ foff \in Word32 /\ ib \in Int /\ 2 * ib \in SignedBase
      /\ fpc = "index"
  BY <1>3, <1>4
<1> QED
  BY <1>1, <1>6, <1>7, <1>8, <1>3 DEF FieldInv

\* The steps before the loop find the slot of the first offset.
LEMMA ReadIndexStep ==
  ASSUME FieldInv, ReadIndex
  PROVE  FieldInv'
<1> DEFINE off == Entry(fin.tableB, WORD, fin.tdi)
<1>1. /\ FieldInputOK /\ fpc = "index" /\ HasFields
      /\ UNCHANGED <<fbody, fin, fchecked, foff, j, fields>>
  BY DEF ReadIndex, FieldInv
<1>2. /\ Readable(fbody, off, WORD) <=> InFieldBody(IndexAt, WORD)
      /\ InFieldBody(IndexAt, WORD) => off = IndexAt /\ fbody[IndexAt] \in Word32
  BY <1>1, IndexAddress
<1>3. UNCHANGED <<FieldsOf(j), InFieldOrder, IndexAt, HasFields, FirstSlot, FieldInputOK>>
  BY <1>1 DEF FieldsOf, InFieldOrder, IndexAt, HasFields, FirstSlot, FieldThere, OffsetOf,
     InFieldBody, WordAt, FieldInputOK
<1>4. CASE InFieldBody(IndexAt, WORD)
  <2>1. ib' = AsI32(fbody[IndexAt]) /\ fpc' = "row"
    BY <1>2, <1>4 DEF ReadIndex
  <2>2. ib' \in Int /\ 2 * ib' \in SignedBase
    BY <1>2, <1>4, <2>1, SignedOf
  <2> QED
    BY <1>1, <1>3, <1>4, <2>1, <2>2 DEF FieldInv, InFieldBody
<1>5. CASE ~InFieldBody(IndexAt, WORD)
  <2>1. ib' = 0 /\ fpc' = "loop" /\ 0 \in SignedBase
    BY <1>2, <1>5, Widths DEF ReadIndex, SignedBase
  <2>2. FirstSlot = 0
    BY <1>5 DEF FirstSlot, IndexAt
  <2> QED
    BY <1>1, <1>3, <2>1, <2>2 DEF FieldInv
<1> QED
  BY <1>4, <1>5

LEMMA ReadRowStep ==
  ASSUME FieldInv, ReadRow
  PROVE  FieldInv'
<1>1. /\ FieldInputOK /\ fpc = "row" /\ fpc' = "loop" /\ HasFields
      /\ ib \in Int /\ 2 * ib \in SignedBase
      /\ InFieldBody(IndexAt, WORD) /\ ib = AsI32(fbody[IndexAt])
      /\ UNCHANGED <<fbody, fin, fchecked, ib, j, fields>>
  BY DEF ReadRow, FieldInv
<1> DEFINE w == RowAt + ROW_AT
           past == RowAt + (ROW_AT + WORD)
<1>2. /\ w \in Whole /\ past \in Whole
      /\ (Row + ROW_AT) % USIZE = AsUsize(w)
      /\ (Row + (ROW_AT + WORD)) % USIZE = AsUsize(past)
  <2>1. ROW_AT \in 0 .. ROW_LEN /\ ROW_AT + WORD \in 0 .. ROW_LEN
    BY <1>1, FieldFacts, Widths
  <2> QED
    BY <1>1, <2>1, RowAddress
<1>3. /\ Row + ROW_AT + WORD = Row + (ROW_AT + WORD)
      /\ RowAt + ROW_AT + WORD = past
  <2>1. Row \in Int /\ RowAt \in Int
    <3>1. RowAt + 0 \in Whole /\ (Row + 0) % USIZE = AsUsize(RowAt + 0)
      BY <1>1, FieldFacts, RowAddress
    <3>2. fin.rows \in Int /\ ROW_LEN \in Int
      BY <1>1, FieldFacts, Widths DEF Word32
    <3>3. IndexOf(ib) \in Int
      BY <1>1, Widths DEF IndexOf, AsUsize
    <3> QED
      BY <1>1, <3>2, <3>3, Widths DEF Row, RowAt, Entry
  <2> QED
    BY <1>1, <2>1, FieldFacts, Widths
<1>4. foff' = IF InFieldBody(past, WORD) THEN WordAt(w) ELSE 0
  <2>1. Readable(fbody, AsUsize(past), WORD) <=> InFieldBody(past, WORD)
    <3> HIDE DEF past
    <3> QED
      BY <1>1, <1>2, FieldRead, Widths
  <2>2. ReadAt(fbody, AsUsize(w), WORD) = WordAt(w)
    <3> HIDE DEF w
    <3> QED
      BY <1>1, <1>2, FieldRead, Widths
  <2> QED
    BY <1>2, <1>3, <2>1, <2>2 DEF ReadRow
<1>5. foff' = FirstSlot
  BY <1>1, <1>3, <1>4 DEF FirstSlot, IndexAt, RowAt
<1>6. foff' \in Word32
  <2>1. WordAt(w) \in Word32 /\ 0 \in Word32
    <3> HIDE DEF w
    <3> QED
      BY <1>1, <1>2, FieldRead, Widths DEF Word32
  <2> QED
    BY <1>4, <2>1
<1>7. UNCHANGED <<FieldsOf(j), InFieldOrder, HasFields, FirstSlot, FieldInputOK>>
  BY <1>1 DEF FieldsOf, InFieldOrder, HasFields, FirstSlot, FieldThere, OffsetOf,
     InFieldBody, WordAt, FieldInputOK
<1> QED
  BY <1>1, <1>5, <1>6, <1>7 DEF FieldInv

LEMMA TakeFieldStep ==
  ASSUME FieldInv, TakeField
  PROVE  FieldInv'
<1> DEFINE new == [gfi |-> fin.fieldStart + j, offset |-> OffsetOf(j)]
<1>1. /\ FieldInputOK /\ fpc = "loop" /\ j < fin.fieldCount /\ HasFields
      /\ Readable(fbody, FieldDef, FIELD_LEN)
      /\ fields' = Append(fields, [gfi |-> Gfi, offset |-> Shown(ReadAt(fbody, OffsetAt, WORD))])
      /\ j' = j + 1
      /\ UNCHANGED <<fbody, fin, fchecked, ib, foff, fpc>>
      /\ j \in Nat /\ fin.fieldCount \in Nat /\ fin.fieldStart \in Int
  BY FieldFacts DEF TakeField, FieldInv
<1>2. FieldThere(j) /\ fields' = Append(fields, new) /\ new \in [gfi : Nat, offset : Int]
  BY <1>1, FieldAddresses
<1> DEFINE Listing == [gfi : Nat, offset : Int]
<1>3. fields \in Seq(Listing) /\ new \in Listing
  BY <1>2 DEF FieldInv
<1> HIDE DEF new, Listing
<1>4. /\ fields' \in Seq(Listing)
      /\ RangeOf(fields') = RangeOf(fields) \union {new}
      /\ \A n \in DOMAIN fields' :
           \/ n \in DOMAIN fields /\ n < Len(fields) + 1 /\ fields'[n] = fields[n]
           \/ n = Len(fields) + 1 /\ fields'[n] = new
  BY <1>2, <1>3, RangeOfAppend
<1>5. FieldsOf(j + 1) = FieldsOf(j) \union {new}
  BY <1>1, <1>2, OneMoreField DEF new
<1>6. UNCHANGED <<HasFields, FirstSlot, FieldInputOK>>
  BY <1>1 DEF HasFields, FirstSlot, InFieldBody, WordAt, FieldInputOK
<1>7. RangeOf(fields') = FieldsOf(j)'
  <2>1. FieldsOf(j)' = FieldsOf(j + 1)
    BY <1>1, <1>6 DEF FieldsOf, HasFields, FirstSlot, FieldThere, OffsetOf, InFieldBody, WordAt
  <2> QED
    BY <1>4, <1>5, <2>1 DEF FieldInv
<1>8. /\ \A n \in DOMAIN fields' : fields'[n].gfi < fin.fieldStart + (j + 1)
      /\ \A m, n \in DOMAIN fields' : m < n => fields'[m].gfi < fields'[n].gfi
  <2>1. new.gfi = fin.fieldStart + j
    BY DEF new
  <2>2. ASSUME NEW n \in DOMAIN fields
        PROVE  fields[n].gfi < fin.fieldStart + j /\ fields[n].gfi \in Nat
    <3>1. fields[n] \in Listing
      BY <1>3, MembersOf
    <3> QED
      BY <3>1 DEF FieldInv, Listing
  <2>3. \A m, n \in DOMAIN fields : m < n => fields[m].gfi < fields[n].gfi
    BY DEF FieldInv, InFieldOrder
  <2>4. Len(fields) \in Nat /\ \A n \in DOMAIN fields : n < Len(fields) + 1
    BY <1>3
  <2>5. ASSUME NEW n \in DOMAIN fields'
        PROVE  fields'[n].gfi < fin.fieldStart + (j + 1)
    <3>1. CASE n \in DOMAIN fields /\ fields'[n] = fields[n]
      <4>1. fields[n].gfi < fin.fieldStart + j /\ fields[n].gfi \in Nat
        BY <2>2, <3>1
      <4> QED
        BY <1>1, <3>1, <4>1
    <3>2. CASE fields'[n] = new
      BY <1>1, <2>1, <3>2
    <3> QED
      BY <1>4, <3>1, <3>2
  <2>6. ASSUME NEW m \in DOMAIN fields', NEW n \in DOMAIN fields', m < n
        PROVE  fields'[m].gfi < fields'[n].gfi
    <3>1. CASE n \in DOMAIN fields /\ n < Len(fields) + 1 /\ fields'[n] = fields[n]
      <4>1. m \in DOMAIN fields /\ fields'[m] = fields[m]
        BY <1>4, <2>4, <2>6, <3>1
      <4> QED
        BY <2>3, <2>6, <3>1, <4>1
    <3>2. CASE n = Len(fields) + 1 /\ fields'[n] = new
      <4>1. m \in DOMAIN fields /\ fields'[m] = fields[m]
        BY <1>4, <2>4, <2>6, <3>2
      <4> QED
        BY <2>1, <2>2, <3>2, <4>1
    <3> QED
      BY <1>4, <3>1, <3>2
  <2> QED
    BY <2>5, <2>6
<1>9. Len(fields') <= j + 1
  BY <1>1, <1>2, <1>3 DEF FieldInv
<1>10. InFieldOrder' /\ fields' \in Seq([gfi : Nat, offset : Int])
  BY <1>4, <1>8 DEF InFieldOrder, Listing
<1> QED
  BY <1>1, <1>6, <1>7, <1>8, <1>9, <1>10 DEF FieldInv

LEMMA SkipFieldStep ==
  ASSUME FieldInv, SkipField
  PROVE  FieldInv'
<1>1. /\ FieldInputOK /\ fpc = "loop" /\ j < fin.fieldCount /\ HasFields
      /\ ~Readable(fbody, FieldDef, FIELD_LEN)
      /\ j' = j + 1
      /\ UNCHANGED <<fbody, fin, fchecked, ib, foff, fields, fpc>>
      /\ j \in Nat /\ fin.fieldCount \in Nat /\ fin.fieldStart \in Int
  BY FieldFacts DEF SkipField, FieldInv
<1>2. ~FieldThere(j)
  BY <1>1, FieldAddresses
<1>3. FieldsOf(j + 1) = FieldsOf(j)
  BY <1>1, <1>2, OneMoreField
<1>4. /\ FieldsOf(j)' = FieldsOf(j + 1)
      /\ UNCHANGED <<HasFields, FirstSlot, FieldInputOK, InFieldOrder>>
  BY <1>1 DEF FieldsOf, HasFields, FirstSlot, FieldThere, OffsetOf, InFieldBody, WordAt,
     FieldInputOK, InFieldOrder
<1>5. /\ \A n \in DOMAIN fields : fields[n].gfi < fin.fieldStart + (j + 1)
      /\ Len(fields) <= j + 1
  <2>1. ASSUME NEW n \in DOMAIN fields
        PROVE  fields[n].gfi \in Nat
    <3>1. fields[n] \in [gfi : Nat, offset : Int]
      BY MembersOf DEF FieldInv
    <3> QED
      BY <3>1
  <2>2. Len(fields) \in Nat
    BY DEF FieldInv
  <2> QED
    BY <1>1, <2>1, <2>2 DEF FieldInv
<1> QED
  BY <1>1, <1>3, <1>4, <1>5 DEF FieldInv

\* What panics is an address that starts from a negative number.
LEMMA FieldStops ==
  ASSUME FieldInv, NoFields \/ RowPanics \/ FieldPanics \/ FieldsDone \/ UNCHANGED fieldVars
  PROVE  FieldInv'
<1>1. /\ UNCHANGED <<fbody, fin, fchecked, ib, foff, j, fields>>
      /\ FieldInputOK
  BY DEF NoFields, RowPanics, FieldPanics, FieldPanic, FieldsDone, fieldVars, FieldInv
<1>2. UNCHANGED <<FieldsOf(j), InFieldOrder, IndexAt, HasFields, FirstSlot, FieldInputOK,
                  NegativeField>>
  BY <1>1 DEF FieldsOf, InFieldOrder, IndexAt, HasFields, FirstSlot, FieldThere, OffsetOf,
     InFieldBody, WordAt, FieldInputOK, NegativeField
<1>3. CASE RowPanics \/ FieldPanics
  <2>1. fpc' = "panic" /\ fchecked
    BY <1>3 DEF RowPanics, FieldPanics, FieldPanic, FieldSumPanics
  <2>2. ib \in Int /\ fin.fieldDefs \in Int /\ fin.fieldOffs \in Int
    BY <1>1, FieldFacts, Widths DEF FieldInv, SignedBase
  <2>3. CASE RowPanics
    <3>1. RowOverflows
      BY <2>3 DEF RowPanics, FieldSumPanics
    <3>2. ~(ib >= 0)
      BY <1>1, <3>1, RowAddress DEF FieldInv
    <3> QED
      BY <1>1, <1>2, <2>1, <2>2, <3>2 DEF FieldInv, NegativeField
  <2>4. CASE FieldPanics
    <3>1. fpc = "loop" /\ j < fin.fieldCount /\ (FieldDefOverflows \/ OffsetOverflows)
      BY <2>4 DEF FieldPanics, FieldSumPanics
    <3>2. ~(fin.fieldDefs >= 0) \/ ~(fin.fieldOffs >= 0)
      BY <3>1, FieldAddresses
    <3> QED
      BY <1>1, <1>2, <2>1, <2>2, <3>2 DEF FieldInv, NegativeField
  <2> QED
    BY <1>3, <2>3, <2>4
<1>4. CASE NoFields \/ FieldsDone
  <2>1. fpc' = "done" /\ (~HasFields \/ j = fin.fieldCount)
    BY <1>4 DEF NoFields, FieldsDone
  <2> QED
    BY <1>1, <1>2, <2>1 DEF FieldInv
<1>5. CASE UNCHANGED fieldVars
  <2>1. fpc' = fpc
    BY <1>5 DEF fieldVars
  <2>2. \A a, size : InFieldBody(a, size)' <=> InFieldBody(a, size)
    BY <1>1 DEF InFieldBody
  <2> QED
    BY <1>1, <1>2, <2>1, <2>2 DEF FieldInv, InFieldBody
<1> QED
  BY <1>3, <1>4, <1>5

LEMMA NextFieldInv == FieldInv /\ [FieldNext]_fieldVars => FieldInv'
<1> SUFFICES ASSUME FieldInv, [FieldNext]_fieldVars
             PROVE  FieldInv'
  OBVIOUS
<1>1. CASE ReadIndex
  BY <1>1, ReadIndexStep
<1>2. CASE ReadRow
  BY <1>2, ReadRowStep
<1>3. CASE SkipField
  BY <1>3, SkipFieldStep
<1>4. CASE TakeField
  BY <1>4, TakeFieldStep
<1>5. CASE NoFields \/ RowPanics \/ FieldPanics \/ FieldsDone \/ UNCHANGED fieldVars
  BY <1>5, FieldStops
<1> QED
  BY <1>1, <1>2, <1>3, <1>4, <1>5 DEF FieldNext

(***************************************************************************)
(* FieldInv is an invariant of listing the fields of a type.               *)
(***************************************************************************)
THEOREM FieldInvariant == FieldSpec => []FieldInv
  BY InitFieldInv, NextFieldInv, PTL DEF FieldSpec

(***************************************************************************)
(* The fields of every type are listed with their own offsets, whatever    *)
(* the bases, the index and the bytes of the body are.                     *)
(***************************************************************************)
THEOREM FieldsListed == FieldSpec => []OwnOffsets
<1>1. FieldInv => OwnOffsets
  <2> SUFFICES ASSUME FieldInv, fpc = "done"
               PROVE  {fields[n] : n \in DOMAIN fields} = FieldsOf(fin.fieldCount) /\ InFieldOrder
    BY DEF OwnOffsets
  <2>1. {fields[n] : n \in DOMAIN fields} = FieldsOf(j) /\ InFieldOrder
        /\ (j = fin.fieldCount \/ ~HasFields)
    BY DEF FieldInv, RangeOf
  <2>2. ASSUME ~HasFields
        PROVE  FieldsOf(j) = {} /\ FieldsOf(fin.fieldCount) = {}
    BY <2>2 DEF FieldsOf
  <2> QED
    BY <2>1, <2>2
<1> QED
  BY <1>1, FieldInvariant, PTL

(***************************************************************************)
(* Listing the fields of a type panics only in a build that checks for     *)
(* overflow, and on a negative base or index only.                         *)
(***************************************************************************)
THEOREM FieldPanicsExplained == FieldSpec => []PanicsOnNegativesOnly
<1>1. FieldInv => PanicsOnNegativesOnly
  BY DEF FieldInv, PanicsOnNegativesOnly, NegativeField
<1> QED
  BY <1>1, FieldInvariant, PTL

(***************************************************************************)
(* No more fields are listed than were looked at, and each is one of them. *)
(***************************************************************************)
THEOREM FieldTypeCorrect == FieldSpec => []FieldTypeOK
<1>1. FieldInv => FieldTypeOK
  <2> SUFFICES ASSUME FieldInv PROVE FieldTypeOK
    OBVIOUS
  <2>1. FieldInputOK
    BY DEF FieldInv
  <2>2. foff \in Nat /\ 2 * ib \in -U32_RANGE .. U32_RANGE - 1
    BY Widths DEF FieldInv, Word32, SignedBase
  <2>3. j \in 0 .. fin.fieldCount /\ Len(fields) <= j
    BY <2>1, FieldFacts DEF FieldInv
  <2>4. \A n \in DOMAIN fields : fields[n].gfi \in 0 .. fin.fieldStart + j - 1
    <3>1. fields \in Seq([gfi : Nat, offset : Int]) /\ j \in Nat /\ fin.fieldStart \in Int
      BY <2>1, FieldFacts DEF FieldInv
    <3>2. ASSUME NEW n \in DOMAIN fields
          PROVE  fields[n].gfi \in Nat
      <4>1. fields[n] \in [gfi : Nat, offset : Int]
        BY <3>1, MembersOf
      <4> QED
        BY <4>1
    <3> QED
      BY <3>1, <3>2 DEF FieldInv
  <2> QED
    BY <2>2, <2>3, <2>4 DEF FieldTypeOK
<1> QED
  BY <1>1, FieldInvariant, PTL

-----------------------------------------------------------------------------
(***************************************************************************)
(* The text of a string.                                                   *)
(***************************************************************************)
\* The first a values of a function on the natural numbers.
Prefix(f, a) == [m \in 1 .. a |-> f[m - 1]]

LEMMA PrefixOf ==
  ASSUME NEW S, NEW f \in [Nat -> S], NEW a \in Nat
  PROVE  /\ Prefix(f, a) \in Seq(S) /\ Len(Prefix(f, a)) = a
         /\ DOMAIN Prefix(f, a) = 1 .. a
         /\ \A c \in 0 .. a : SubSeq(Prefix(f, a), 1, c) = Prefix(f, c)
BY DEF Prefix

LEMMA PrefixIs ==
  ASSUME NEW S, NEW f \in [Nat -> S], NEW a \in Nat,
         NEW s \in Seq(S), Len(s) = a, \A m \in 1 .. a : s[m] = f[m - 1]
  PROVE  s = Prefix(f, a)
<1>1. s = [m \in 1 .. Len(s) |-> s[m]]
  OBVIOUS
<1>2. [m \in 1 .. Len(s) |-> s[m]] = [m \in 1 .. a |-> f[m - 1]]
  OBVIOUS
<1> QED
  BY <1>1, <1>2 DEF Prefix

LEMMA Joined ==
  ASSUME NEW S, NEW s \in Seq(S), NEW t \in Seq(S)
  PROVE  /\ s \o t \in Seq(S) /\ Len(s \o t) = Len(s) + Len(t)
         /\ \A m \in 1 .. Len(s) + Len(t) :
              (s \o t)[m] = IF m <= Len(s) THEN s[m] ELSE t[m - Len(s)]
OBVIOUS

LEMMA PrefixJoin ==
  ASSUME NEW S, NEW f \in [Nat -> S], NEW a \in Nat, NEW b \in Nat,
         NEW s \in Seq(S), Len(s) = b, \A m \in 1 .. b : s[m] = f[a + m - 1]
  PROVE  Prefix(f, a) \o s = Prefix(f, a + b)
<1>1. \A m \in 1 .. a : Prefix(f, a)[m] = f[m - 1]
  BY DEF Prefix
<1> DEFINE p == Prefix(f, a)
           q == p \o s
<1>2. p \in Seq(S) /\ Len(p) = a /\ \A m \in 1 .. a : p[m] = f[m - 1]
  BY <1>1, PrefixOf
<1> HIDE DEF p
<1>3. /\ q \in Seq(S) /\ Len(q) = a + b
      /\ \A m \in 1 .. a + b : q[m] = IF m <= a THEN p[m] ELSE s[m - a]
  BY <1>2, Joined
<1> HIDE DEF q
<1>4. \A m \in 1 .. a + b : q[m] = f[m - 1]
  <2> TAKE m \in 1 .. a + b
  <2>1. CASE m <= a
    <3>1. m \in 1 .. a
      BY <2>1
    <3> QED
      BY <1>2, <1>3, <2>1, <3>1
  <2>2. CASE ~(m <= a)
    <3>1. m - a \in 1 .. b /\ a + (m - a) - 1 = m - 1
      BY <2>2
    <3>2. s[m - a] = f[m - 1]
      BY <3>1
    <3> QED
      BY <1>3, <2>2, <3>2
  <2> QED
    BY <2>1, <2>2
<1>5. a + b \in Nat
  OBVIOUS
<1>6. q = Prefix(f, a + b)
  BY <1>3, <1>4, <1>5, PrefixIs
<1> QED
  BY <1>6 DEF p, q

\* The characters from the offset on, be they of this string or not.
Text == [n \in Nat |-> CharAt(n)]
Chars == {Text[n] : n \in Nat}

Present == ~NoIndex /\ Readable(dbody, Src, Needs(Length))

DecodeInputOK ==
  dbody \in DecodeBodies /\ strsec \in DOMAIN dbody /\ idx \in 0 .. OFF_RANGE * LEN_RANGE - 1

\* The text ends after n characters.
EndsAt(n) ==
  n \in 0 .. Length /\ (n = Length \/ Text[n] = NUL) /\ \A m \in 0 .. n - 1 : Text[m] # NUL

DecodeInv ==
  /\ DecodeInputOK
  /\ k \in Nat /\ k <= Blocks(Length) /\ key = k
  /\ dpc \in {"start", "blocks", "nul", "done"}
  /\ dpc = "start" => k = 0 /\ buf = <<>>
  /\ dpc \in {"blocks", "nul"} => Present
  /\ dpc = "blocks" => buf = Prefix(Text, k * BLOCK)
  /\ dpc = "nul" => buf = Prefix(Text, Length)
  /\ dpc = "done" => IF Present THEN \E n \in 0 .. Length : EndsAt(n) /\ buf = Prefix(Text, n)
                                ELSE buf = <<>>

LEMMA DecodeFacts ==
  ASSUME DecodeInputOK
  PROVE  /\ BLOCK \in Nat \ {0} /\ Length \in Nat /\ Src \in Nat
         /\ Blocks(Length) \in Nat /\ Length <= Blocks(Length) * BLOCK
         /\ SizeOf(dbody) \in Nat
<1>1. /\ BLOCK \in Nat \ {0} /\ OFF_RANGE \in Nat \ {0} /\ LEN_RANGE \in Nat \ {0}
      /\ IsBuffer(dbody)
  BY DecodeAssumption DEF DecodeInputOK
<1>2. idx \in Nat
  <2>1. OFF_RANGE * LEN_RANGE \in Int
    BY <1>1
  <2> QED
    BY <2>1 DEF DecodeInputOK
<1>3. strsec \in Nat /\ SizeOf(dbody) \in Nat
  BY <1>1, BufferSize DEF DecodeInputOK
<1>4. Off \in Nat /\ idx \div OFF_RANGE \in Nat
  BY <1>1, <1>2 DEF Off
<1>5. Length \in Nat
  BY <1>1, <1>4 DEF Length
<1>6. Blocks(Length) \in Nat /\ Length <= Blocks(Length) * BLOCK
  <2>1. /\ (Length + BLOCK - 1) \div BLOCK \in Nat
        /\ Length <= ((Length + BLOCK - 1) \div BLOCK) * BLOCK
    BY <1>1, <1>5, BlocksFill, Zenon
  <2> QED
    BY <2>1 DEF Blocks
<1> QED
  BY <1>1, <1>3, <1>4, <1>5, <1>6 DEF Src

LEMMA TextFacts == Text \in [Nat -> Chars] /\ \A n \in Nat : Text[n] = CharAt(n)
  BY DEF Text, Chars

\* Every block of a string that is present can be read, and holds its characters.
LEMMA BlockText ==
  ASSUME DecodeInv, dpc = "blocks", k < Blocks(Length)
  PROVE  /\ Readable(dbody, Src + BLOCK * k, BLOCK)
         /\ \A m \in 1 .. BLOCK :
              Plain(dbody[Src + BLOCK * k + m - 1], key, m - 1) = Text[k * BLOCK + m - 1]
<1>1. /\ BLOCK \in Nat \ {0} /\ Src \in Nat /\ Blocks(Length) \in Nat /\ k \in Nat
      /\ SizeOf(dbody) \in Nat /\ key = k
  BY DecodeFacts DEF DecodeInv
<1>2. Src + (Blocks(Length) * BLOCK + BLOCK) <= SizeOf(dbody)
  BY DEF DecodeInv, Present, Readable, Needs
<1>3. BLOCK * k = k * BLOCK /\ k * BLOCK \in Nat
      /\ k * BLOCK <= Blocks(Length) * BLOCK /\ Blocks(Length) * BLOCK \in Nat
  BY <1>1
<1>4. Readable(dbody, Src + BLOCK * k, BLOCK)
  BY <1>1, <1>2, <1>3 DEF Readable
<1>5. ASSUME NEW m \in 1 .. BLOCK
      PROVE  Plain(dbody[Src + BLOCK * k + m - 1], key, m - 1) = Text[k * BLOCK + m - 1]
  <2> DEFINE n == k * BLOCK + (m - 1)
  <2>1. n \in Nat /\ n = k * BLOCK + m - 1 /\ Src + BLOCK * k + m - 1 = Src + n
    BY <1>1, <1>3
  <2>2. m - 1 \in 0 .. BLOCK - 1
    BY <1>1
  <2>3. n \div BLOCK = k /\ n % BLOCK = m - 1
    BY <1>1, <2>2, BlockPosition, Zenon
  <2> HIDE DEF n
  <2>4. Text[n] = Plain(dbody[Src + n], n \div BLOCK, n % BLOCK)
    BY <2>1, TextFacts DEF CharAt
  <2> QED
    BY <1>1, <2>1, <2>3, <2>4
<1> QED
  BY <1>4, <1>5

LEMMA DecodeFrame ==
  ASSUME UNCHANGED <<dbody, strsec, idx>>
  PROVE  /\ UNCHANGED <<Text, Present, Length, DecodeInputOK>>
         /\ Blocks(Length)' = Blocks(Length)
         /\ \A n : EndsAt(n)' <=> EndsAt(n)
BY DEF Text, Present, Length, DecodeInputOK, Blocks, EndsAt, CharAt, Plain, Off, Src, NoIndex, Needs

LEMMA InitDecodeInv == DecodeInit => DecodeInv
<1> SUFFICES ASSUME DecodeInit PROVE DecodeInv
  OBVIOUS
<1>1. DecodeInputOK
  BY DEF DecodeInit, DecodeInputOK
<1> QED
  BY <1>1, DecodeFacts DEF DecodeInit, DecodeInv

LEMMA NextDecodeInv == DecodeInv /\ [DecodeNext]_decodeVars => DecodeInv'
<1> SUFFICES ASSUME DecodeInv, [DecodeNext]_decodeVars
             PROVE  DecodeInv'
  OBVIOUS
<1>1. UNCHANGED <<dbody, strsec, idx>>
  BY DEF DecodeNext, NoString, Seed, DecodeBlock, Truncate, CutAtNul, decodeVars
<1>2. /\ UNCHANGED <<Text, Present, Length, DecodeInputOK>>
      /\ Blocks(Length)' = Blocks(Length)
      /\ \A n : EndsAt(n)' <=> EndsAt(n)
  BY <1>1, DecodeFrame
<1>3. /\ DecodeInputOK /\ BLOCK \in Nat \ {0} /\ Length \in Nat /\ k \in Nat
      /\ Blocks(Length) \in Nat /\ Length <= Blocks(Length) * BLOCK
      /\ k <= Blocks(Length) /\ key = k
  BY DecodeFacts DEF DecodeInv
<1>4. Text \in [Nat -> Chars]
  BY TextFacts
<1>5. CASE NoString
  BY <1>2, <1>3, <1>5 DEF NoString, DecodeInv, Present
<1>6. CASE Seed
  <2>1. Prefix(Text, 0) = <<>> /\ 0 * BLOCK = 0
    BY <1>3 DEF Prefix
  <2>2. dpc = "start" /\ dpc' = "blocks" /\ Present /\ UNCHANGED <<k, key, buf>>
    BY <1>6 DEF Seed, Present
  <2> QED
    BY <1>2, <1>3, <2>1, <2>2 DEF DecodeInv
<1>7. CASE DecodeBlock
  <2> DEFINE block == [m \in 1 .. BLOCK |-> Plain(dbody[Src + BLOCK * k + m - 1], key, m - 1)]
  <2>1. dpc = "blocks" /\ k < Blocks(Length) /\ k' = k + 1 /\ key' = key + 1 /\ dpc' = dpc
    BY <1>7 DEF DecodeBlock
  <2>2. /\ Readable(dbody, Src + BLOCK * k, BLOCK)
        /\ \A m \in 1 .. BLOCK :
             Plain(dbody[Src + BLOCK * k + m - 1], key, m - 1) = Text[k * BLOCK + m - 1]
    BY <2>1, BlockText
  <2>3. buf' = Prefix(Text, k * BLOCK) \o block
    BY <1>7, <2>1, <2>2 DEF DecodeBlock, DecodeInv
  <2>4. /\ block \in Seq(Chars) /\ Len(block) = BLOCK
        /\ \A m \in 1 .. BLOCK : block[m] = Text[k * BLOCK + m - 1]
    <3>1. ASSUME NEW m \in 1 .. BLOCK
          PROVE  block[m] = Text[k * BLOCK + m - 1] /\ block[m] \in Chars
      <4>1. k * BLOCK \in Nat /\ m \in Nat /\ m >= 1
        BY <1>3
      <4>2. k * BLOCK + m - 1 \in Nat
        BY <4>1
      <4>3. Text[k * BLOCK + m - 1] \in Chars
        BY <1>4, <4>2
      <4>4. block[m] = Text[k * BLOCK + m - 1]
        BY <2>2
      <4> QED
        BY <4>3, <4>4
    <3>2. block = [m \in 1 .. BLOCK |-> block[m]]
      OBVIOUS
    <3> HIDE DEF block
    <3>3. block \in [1 .. BLOCK -> Chars]
      BY <3>1, <3>2
    <3>4. block \in Seq(Chars) /\ Len(block) = BLOCK
      BY <1>3, <3>3
    <3> QED
      BY <3>1, <3>4
  <2> HIDE DEF block
  <2>5. k * BLOCK \in Nat /\ (k + 1) * BLOCK = k * BLOCK + BLOCK
    BY <1>3
  <2>6. Prefix(Text, k * BLOCK) \o block = Prefix(Text, k * BLOCK + BLOCK)
    <3> DEFINE a == k * BLOCK
    <3>1. a \in Nat /\ BLOCK \in Nat /\ \A m \in 1 .. BLOCK : block[m] = Text[a + m - 1]
      BY <1>3, <2>4, <2>5
    <3> HIDE DEF a
    <3>2. Prefix(Text, a) \o block = Prefix(Text, a + BLOCK)
      BY <1>4, <2>4, <3>1, PrefixJoin
    <3> QED
      BY <3>2 DEF a
  <2> QED
    BY <1>2, <1>3, <2>1, <2>3, <2>5, <2>6 DEF DecodeInv
<1>8. CASE Truncate
  <2>1. dpc = "blocks" /\ k = Blocks(Length) /\ dpc' = "nul" /\ UNCHANGED <<k, key>>
    BY <1>3, <1>8 DEF Truncate
  <2> DEFINE n == k * BLOCK
  <2>2. buf = Prefix(Text, n) /\ n \in Nat /\ Length <= n /\ Length \in 0 .. n
    BY <1>3, <2>1 DEF DecodeInv
  <2> HIDE DEF n
  <2>3. Len(buf) = n /\ SubSeq(buf, 1, Length) = Prefix(Text, Length)
    BY <1>4, <2>2, PrefixOf
  <2>4. buf' = Prefix(Text, Length)
    <3>1. buf' = IF Length < Len(buf) THEN SubSeq(buf, 1, Length) ELSE buf
      BY <1>8 DEF Truncate, Cut
    <3> QED
      BY <1>3, <2>2, <2>3, <3>1
  <2> QED
    BY <1>2, <1>3, <2>1, <2>4 DEF DecodeInv
<1>9. CASE CutAtNul
  <2>1. /\ dpc = "nul" /\ dpc' = "done" /\ Present /\ buf = Prefix(Text, Length)
        /\ UNCHANGED <<k, key>>
    BY <1>9 DEF CutAtNul, DecodeInv
  <2>2. DOMAIN buf = 1 .. Length /\ \A m \in 1 .. Length : buf[m] = Text[m - 1]
    <3>1. \A m \in 1 .. Length : Prefix(Text, Length)[m] = Text[m - 1]
      BY DEF Prefix
    <3> QED
      BY <1>3, <1>4, <2>1, <3>1, PrefixOf
  <2>3. \E n \in 0 .. Length : EndsAt(n) /\ buf' = Prefix(Text, n)
    <3>1. CASE Nuls = {}
      <4>1. buf' = buf
        BY <1>9, <3>1 DEF CutAtNul
      <4>2. \A m \in 0 .. Length - 1 : Text[m] # NUL
        <5> TAKE m \in 0 .. Length - 1
        <5>1. m + 1 \in 1 .. Length /\ m + 1 - 1 = m
          BY <1>3
        <5>2. buf[m + 1] # NUL
          BY <2>2, <3>1, <5>1 DEF Nuls
        <5> QED
          BY <2>2, <5>1, <5>2
      <4>3. EndsAt(Length)
        BY <1>3, <4>2 DEF EndsAt
      <4> QED
        BY <1>3, <2>1, <4>1, <4>3
    <3>2. CASE Nuls # {}
      <4>1. PICK z \in Nuls : (\A n \in Nuls : z <= n) /\ buf' = SubSeq(buf, 1, z - 1)
        BY <1>9, <3>2 DEF CutAtNul
      <4>2. z \in 1 .. Length /\ Text[z - 1] = NUL
        BY <2>2 DEF Nuls
      <4>3. z - 1 \in 0 .. Length /\ z \in Nat
        BY <1>3, <4>2
      <4>4. \A m \in 0 .. z - 1 - 1 : Text[m] # NUL
        <5> TAKE m \in 0 .. z - 1 - 1
        <5>1. m + 1 \in 1 .. Length /\ m + 1 - 1 = m /\ ~(z <= m + 1)
          BY <1>3, <4>2
        <5>2. m + 1 \notin Nuls
          BY <4>1, <5>1
        <5> QED
          BY <2>2, <5>1, <5>2 DEF Nuls
      <4>5. EndsAt(z - 1)
        BY <4>2, <4>3, <4>4 DEF EndsAt
      <4>6. buf' = Prefix(Text, z - 1)
        BY <1>3, <1>4, <2>1, <4>1, <4>3, PrefixOf
      <4> QED
        BY <4>3, <4>5, <4>6
    <3> QED
      BY <3>1, <3>2
  <2> QED
    BY <1>2, <1>3, <2>1, <2>3 DEF DecodeInv
<1>10. CASE UNCHANGED decodeVars
  <2>1. UNCHANGED <<k, key, buf, dpc>>
    BY <1>10 DEF decodeVars
  <2> QED
    BY <1>2, <2>1 DEF DecodeInv
<1> QED
  BY <1>5, <1>6, <1>7, <1>8, <1>9, <1>10 DEF DecodeNext

(***************************************************************************)
(* DecodeInv is an invariant of decoding a string.                         *)
(***************************************************************************)
THEOREM DecodeInvariant == DecodeSpec => []DecodeInv
  BY InitDecodeInv, NextDecodeInv, PTL DEF DecodeSpec

(***************************************************************************)
(* The text of every string of every body is what was written there.       *)
(***************************************************************************)
THEOREM TextDecoded == DecodeSpec => []TextAsWritten
<1>1. DecodeInv => TextAsWritten
  <2> SUFFICES ASSUME DecodeInv, dpc = "done"
               PROVE  TextAsWritten
    BY DEF TextAsWritten
  <2> DEFINE whole == ~NoIndex /\ Readable(dbody, Src, (Blocks(Length) + 1) * BLOCK)
             ends == {n \in 0 .. Length : n = Length \/ CharAt(n) = NUL}
             end == CHOOSE n \in ends : \A m \in ends : n <= m
  <2>1. BLOCK \in Nat /\ Blocks(Length) \in Nat /\ Length \in Nat /\ DecodeInputOK
    BY DecodeFacts DEF DecodeInv
  <2>2. whole <=> Present
    <3>1. (Blocks(Length) + 1) * BLOCK = Blocks(Length) * BLOCK + BLOCK
      BY <2>1
    <3> QED
      BY <3>1 DEF Present, Needs
  <2>3. ASSUME Present
        PROVE  buf = [n \in 1 .. end |-> CharAt(n - 1)] /\ (buf = <<>> <=> end = 0)
    <3>1. PICK e \in 0 .. Length : EndsAt(e) /\ buf = Prefix(Text, e)
      BY <2>3 DEF DecodeInv
    <3>2. \A n \in 0 .. Length : Text[n] = CharAt(n)
      BY <2>1, TextFacts
    <3>3. e \in ends /\ \A m \in ends : e <= m
      <4>1. e \in ends
        BY <3>1, <3>2 DEF EndsAt
      <4>2. ASSUME NEW m \in ends, ~(e <= m)
            PROVE  FALSE
        <5>1. m \in 0 .. e - 1 /\ m # Length /\ m \in 0 .. Length
          BY <2>1, <3>1, <4>2
        <5>2. CharAt(m) = NUL
          BY <4>2, <5>1
        <5> QED
          BY <3>1, <3>2, <5>1, <5>2 DEF EndsAt
      <4> QED
        BY <4>1, <4>2
    <3>4. ends \subseteq Int
      BY <2>1
    <3> HIDE DEF ends
    <3>5. (CHOOSE n \in ends : \A m \in ends : n <= m) = e
      BY <3>3, <3>4, ChosenLeast
    <3>6. end = e
      BY <3>5 DEF ends
    <3> HIDE DEF end
    <3>7. e \in Nat /\ Text \in [Nat -> Chars]
      BY <2>1, <3>1, TextFacts
    <3>8. buf = [n \in 1 .. e |-> CharAt(n - 1)]
      <4>1. \A n \in 1 .. e : Text[n - 1] = CharAt(n - 1)
        BY <3>7, TextFacts
      <4> QED
        BY <3>1, <4>1 DEF Prefix
    <3>9. Len(buf) = e /\ buf \in Seq(Chars)
      BY <3>1, <3>7, PrefixOf
    <3> QED
      BY <3>6, <3>7, <3>8, <3>9
  <2>4. ~Present => buf = <<>>
    BY DEF DecodeInv
  <2> HIDE DEF whole, end
  <2>5. buf = IF whole THEN [n \in 1 .. end |-> CharAt(n - 1)] ELSE <<>>
    BY <2>2, <2>3, <2>4
  <2>6. DecodeAtIsNone <=> ~whole \/ end = 0
    BY <2>2, <2>3, <2>4 DEF DecodeAtIsNone
  <2> QED
    BY <2>5, <2>6 DEF TextAsWritten, whole, end
<1> QED
  BY <1>1, DecodeInvariant, PTL

(***************************************************************************)
(* The key has moved on once for every block that was read, and no text is *)
(* longer than the index says.                                             *)
(***************************************************************************)
THEOREM DecodeTypeCorrect == DecodeSpec => []DecodeTypeOK
<1>1. DecodeInv => DecodeTypeOK
  <2> SUFFICES ASSUME DecodeInv PROVE DecodeTypeOK
    OBVIOUS
  <2>1. /\ BLOCK \in Nat /\ Blocks(Length) \in Nat /\ Length \in Nat /\ k \in Nat
        /\ Text \in [Nat -> Chars]
    BY DecodeFacts, TextFacts DEF DecodeInv
  <2>2. ASSUME dpc \in {"start", "blocks"}
        PROVE  Len(buf) = k * BLOCK
    <3>1. CASE dpc = "start"
      BY <2>1, <3>1 DEF DecodeInv
    <3>2. CASE dpc = "blocks"
      <4>1. k * BLOCK \in Nat /\ buf = Prefix(Text, k * BLOCK)
        BY <2>1, <3>2 DEF DecodeInv
      <4> QED
        BY <2>1, <4>1, PrefixOf
    <3> QED
      BY <2>2, <3>1, <3>2
  <2>3. ASSUME dpc = "done"
        PROVE  Len(buf) <= Length
    <3>1. CASE Present
      <4>1. PICK e \in 0 .. Length : buf = Prefix(Text, e)
        BY <2>3, <3>1 DEF DecodeInv
      <4>2. e \in Nat /\ e <= Length
        BY <2>1, <4>1
      <4>3. Len(buf) = e
        BY <2>1, <4>1, <4>2, PrefixOf
      <4> QED
        BY <4>2, <4>3
    <3>2. CASE ~Present
      BY <2>1, <2>3, <3>2 DEF DecodeInv
    <3> QED
      BY <3>1, <3>2
  <2> QED
    BY <2>1, <2>2, <2>3 DEF DecodeTypeOK, DecodeInv
<1> QED
  BY <1>1, DecodeInvariant, PTL

-----------------------------------------------------------------------------
(***************************************************************************)
(* The methods of a type.                                                  *)
(***************************************************************************)
MethodInputOK ==
  /\ mbody \in MethodBodies /\ mimage \in MethodImages /\ minp \in MethodInputs
  /\ mchecked \in BOOLEAN

Here(g) == InMethodBody(RecordOf(g), METHOD_STRIDE)
Current == minp.start + slot
FirstParam == mbody[RecordOf(Current)]
ParamCount == mbody[RecordOf(Current) + COUNT_AT]

MethodRecord == [gmi : Nat, rva : 0 .. CODE_LEN - 1, ret : Int, params : Seq(Nat)]

NegativeTable == minp.methodDefs < 0 \/ minp.params < 0

\* The parameters taken so far are the first ones of the method.
ParamsInv ==
  /\ slot < minp.count /\ Here(Current)
  /\ params \in Seq(Nat) /\ Len(params) \in ParamCounts(Current)
  /\ \A p \in 1 .. Len(params) : params[p] = FirstParam + p - 1

MethodInv ==
  /\ MethodInputOK
  /\ mtpc \in {"start", "slot", "params", "done", "panic"}
  /\ slot \in Nat /\ slot <= minp.count
  /\ mtpc \in {"slot", "params"} => ~NoMethods
  /\ mtpc = "params" => ParamsInv
  /\ params \in Seq(Nat) /\ Len(params) <= MAX_PARAMS
  /\ methods \in Seq(MethodRecord)
  /\ RangeOf(methods) = MethodsOf(slot)
  /\ InMethodOrder
  /\ \A n \in DOMAIN methods :
       methods[n].gmi < minp.start + slot /\ Len(methods[n].params) <= MAX_PARAMS
  /\ Len(methods) <= slot
  /\ mtpc = "done" => slot = minp.count \/ NoMethods
  /\ mtpc = "panic" => mchecked /\ NegativeTable

LEMMA MethodFacts ==
  ASSUME MethodInputOK
  PROVE  /\ IsBuffer(mbody) /\ \A o \in DOMAIN mbody : mbody[o] \in Word32
         /\ IsBuffer(mimage) /\ \A o \in DOMAIN mimage : mimage[o] \in Nat
         /\ minp.methodDefs \in SignedBase /\ minp.params \in SignedBase
         /\ minp.typearr \in Nat /\ minp.methodptrs \in Nat
         /\ minp.start \in Nat /\ minp.count \in Nat /\ minp.imageBase \in Nat
         /\ minp.count > 0 => minp.start + minp.count < U32_RANGE
         /\ SizeOf(mbody) < minp.params + PARAM_STRIDE * U32_RANGE
         /\ METHOD_STRIDE \in Nat \ {0} /\ PARAM_STRIDE \in Nat \ {0} /\ PTR_LEN \in Nat \ {0}
         /\ RETURN_AT \in 0 .. METHOD_STRIDE - 1 /\ COUNT_AT \in 0 .. METHOD_STRIDE - 1
         /\ TYPE_CAP \in Nat /\ MAX_METHODS \in Nat /\ MAX_PARAMS \in Nat
         /\ CODE_LEN \in Nat \ {0}
         /\ FitsUsize(METHOD_STRIDE) /\ FitsUsize(PARAM_STRIDE)
<1>1. /\ IsMethodInput(minp) /\ mbody \in MethodBodies /\ mimage \in MethodImages
      /\ SizeOf(mbody) < minp.params + PARAM_STRIDE * U32_RANGE
  BY MethodTableAssumption DEF MethodInputOK
<1>2. IsBuffer(mimage) /\ \A o \in DOMAIN mimage : mimage[o] \in Nat
  <2>1. IsBuffer(mimage) /\ \A o \in DOMAIN mimage : mimage[o] \in 0 .. USIZE - 1
    BY <1>1, MethodTableAssumption
  <2> QED
    BY <2>1, Widths
<1>3. /\ minp.methodDefs \in SignedBase /\ minp.params \in SignedBase
      /\ minp.typearr \in Nat /\ minp.methodptrs \in Nat
      /\ minp.start \in Nat /\ minp.count \in Nat /\ minp.imageBase \in Nat
      /\ minp.count > 0 => minp.start + minp.count < U32_RANGE
  BY <1>1, Widths DEF IsMethodInput, Word32
<1>4. IsBuffer(mbody) /\ \A o \in DOMAIN mbody : mbody[o] \in Word32
  BY <1>1, MethodTableAssumption
<1>5. /\ METHOD_STRIDE \in Nat \ {0} /\ PARAM_STRIDE \in Nat \ {0} /\ PTR_LEN \in Nat \ {0}
      /\ RETURN_AT \in 0 .. METHOD_STRIDE - 1 /\ COUNT_AT \in 0 .. METHOD_STRIDE - 1
      /\ TYPE_CAP \in Nat /\ MAX_METHODS \in Nat /\ MAX_PARAMS \in Nat
      /\ CODE_LEN \in Nat \ {0}
      /\ FitsUsize(METHOD_STRIDE) /\ FitsUsize(PARAM_STRIDE)
  BY MethodTableAssumption
<1> QED
  BY <1>1, <1>2, <1>3, <1>4, <1>5

\* Where the record of the method looked at is.
LEMMA MethodAddress ==
  ASSUME MethodInputOK, slot \in Nat, slot < minp.count
  PROVE  /\ Gmi = Current /\ Current \in Nat
         /\ Readable(mbody, MethodDef, METHOD_STRIDE) <=> Here(Current)
         /\ Here(Current) => MethodDef = RecordOf(Current)
         /\ minp.methodDefs >= 0 => ~MethodDefOverflows
<1>1. /\ minp.start \in Nat /\ minp.count \in Nat /\ minp.start + minp.count < U32_RANGE
      /\ minp.methodDefs \in SignedBase /\ METHOD_STRIDE \in Nat /\ FitsUsize(METHOD_STRIDE)
      /\ IsBuffer(mbody)
  BY MethodFacts
<1>2. Current \in Nat /\ Current \in Int /\ Current \in 0 .. U32_RANGE - 1
  BY <1>1, Widths DEF Current
<1>3. Gmi = Current
  <2>1. U32_RANGE \in Nat \ {0}
    BY Widths
  <2> QED
    BY <1>2, <2>1, ResidueOf, Zenon DEF Gmi, Current
<1>4. Gmi \in Word32
  BY <1>2, <1>3 DEF Word32
<1>5. /\ RecordOf(Gmi) \in Whole /\ MethodDef = AsUsize(RecordOf(Gmi))
      /\ minp.methodDefs >= 0 => ~MethodDefOverflows
  BY <1>1, <1>4, TableAddress DEF MethodDef, MethodDefOverflows, RecordOf
<1>6. Readable(mbody, AsUsize(RecordOf(Gmi)), METHOD_STRIDE) <=> Here(Gmi)
  BY <1>1, <1>5, AddressInBuffer DEF Here, InMethodBody
<1>7. Here(Gmi) => AsUsize(RecordOf(Gmi)) = RecordOf(Gmi)
  BY <1>5, CastOfWhole DEF Here, InMethodBody
<1> QED
  BY <1>2, <1>3, <1>5, <1>6, <1>7

LEMMA MethodWords ==
  ASSUME MethodInputOK, NEW g \in Nat, Here(g)
  PROVE  /\ mbody[RecordOf(g)] \in Nat /\ mbody[RecordOf(g)] < U32_RANGE
         /\ mbody[RecordOf(g) + COUNT_AT] \in Nat /\ mbody[RecordOf(g) + RETURN_AT] \in Nat
<1>1. /\ METHOD_STRIDE \in Nat \ {0} /\ minp.methodDefs \in Int
      /\ RETURN_AT \in 0 .. METHOD_STRIDE - 1 /\ COUNT_AT \in 0 .. METHOD_STRIDE - 1
      /\ IsBuffer(mbody) /\ \A o \in DOMAIN mbody : mbody[o] \in Word32
  BY MethodFacts, Widths DEF SignedBase
<1>2. DOMAIN mbody = 0 .. SizeOf(mbody) - 1 /\ SizeOf(mbody) \in Nat
  BY <1>1, BufferSize
<1>3. RecordOf(g) \in Int /\ 0 <= RecordOf(g) /\ RecordOf(g) + METHOD_STRIDE <= SizeOf(mbody)
  BY <1>1 DEF Here, InMethodBody, RecordOf
<1>4. ASSUME NEW d \in 0 .. METHOD_STRIDE - 1
      PROVE  mbody[RecordOf(g) + d] \in Word32
  <2>1. RecordOf(g) + d \in DOMAIN mbody
    BY <1>1, <1>2, <1>3
  <2> QED
    BY <1>1, <2>1
<1>5. 0 \in 0 .. METHOD_STRIDE - 1 /\ RecordOf(g) + 0 = RecordOf(g)
  BY <1>1, <1>3
<1>6. mbody[RecordOf(g)] \in Word32
  BY <1>4, <1>5
<1> QED
  BY <1>1, <1>4, <1>6, Widths DEF Word32

\* The RVA and the return type are those of the whole addresses.
LEMMA MethodParts ==
  ASSUME MethodInputOK, slot \in Nat, slot < minp.count, Here(Current)
  PROVE  /\ Rva = RvaOf(Current)
         /\ Rva \in 0 .. CODE_LEN - 1
         /\ ReturnType = ReturnOf(Current) /\ ReturnType \in Int
<1>1. Gmi = Current /\ Current \in Nat /\ MethodDef = RecordOf(Current)
  BY MethodAddress
<1>2. /\ minp.imageBase \in Nat /\ CODE_LEN \in Nat \ {0} /\ minp.methodptrs \in Nat
      /\ PTR_LEN \in Nat \ {0} /\ minp.typearr \in Nat
      /\ IsBuffer(mimage) /\ \A o \in DOMAIN mimage : mimage[o] \in Nat
  BY MethodFacts
<1>3. PointerAt = minp.methodptrs + PTR_LEN * Current /\ PointerAt \in Nat
  BY <1>1, <1>2 DEF PointerAt
<1>4. Readable(mimage, PointerAt, PTR_LEN) => mimage[PointerAt] \in Nat
  <2>1. DOMAIN mimage = 0 .. SizeOf(mimage) - 1 /\ SizeOf(mimage) \in Nat
    BY <1>2, BufferSize
  <2> QED
    BY <1>2, <1>3, <2>1 DEF Readable
<1>5. Pointer \in Nat
  BY <1>4 DEF Pointer
<1>6. Rva \in 0 .. CODE_LEN - 1
  <2>1. CASE Pointer > minp.imageBase /\ Pointer < minp.imageBase + CODE_LEN
    BY <1>2, <1>5, <2>1 DEF Rva
  <2>2. CASE ~(Pointer > minp.imageBase /\ Pointer < minp.imageBase + CODE_LEN)
    BY <1>2, <2>2 DEF Rva
  <2> QED
    BY <2>1, <2>2
<1>7. Rva = RvaOf(Current)
  <2>1. RvaOf(Current) = IF /\ PointerAt + PTR_LEN <= SizeOf(mimage)
                            /\ mimage[PointerAt] - minp.imageBase \in 1 .. CODE_LEN - 1
                         THEN mimage[PointerAt] - minp.imageBase ELSE 0
    BY <1>3 DEF RvaOf
  <2>2. CASE Readable(mimage, PointerAt, PTR_LEN)
    <3>1. Pointer = mimage[PointerAt] /\ Pointer \in Nat
      BY <1>5, <2>2 DEF Pointer
    <3>2. Pointer - minp.imageBase \in 1 .. CODE_LEN - 1 <=>
            Pointer > minp.imageBase /\ Pointer < minp.imageBase + CODE_LEN
      BY <1>2, <3>1
    <3>3. PointerAt + PTR_LEN <= SizeOf(mimage)
      BY <2>2 DEF Readable
    <3> QED
      BY <2>1, <3>1, <3>2, <3>3 DEF Rva
  <2>3. CASE ~Readable(mimage, PointerAt, PTR_LEN)
    <3>1. Pointer = 0 /\ ~(Pointer > minp.imageBase)
      BY <1>2, <2>3 DEF Pointer
    <3>2. ~(PointerAt + PTR_LEN <= SizeOf(mimage))
      BY <2>3 DEF Readable
    <3> QED
      BY <2>1, <3>1, <3>2 DEF Rva
  <2> QED
    BY <2>2, <2>3
<1>8. ReturnType = ReturnOf(Current) /\ ReturnType \in Int
  <2> DEFINE n == mbody[RecordOf(Current) + RETURN_AT]
  <2>1. n \in Nat
    BY <1>1, MethodWords
  <2>2. ReturnType = IF n < TYPE_CAP /\ Readable(mimage, TypeAt(n), TYPE_LEN) THEN n ELSE Void
    BY <1>1 DEF ReturnType
  <2>3. ReturnOf(Current) =
          IF n < TYPE_CAP /\ minp.typearr + TYPE_LEN * (n + 1) <= SizeOf(mimage) THEN n ELSE Void
    BY DEF ReturnOf
  <2> HIDE DEF n
  <2>4. TypeAt(n) + TYPE_LEN = minp.typearr + TYPE_LEN * (n + 1)
    BY <1>2, <2>1, Widths DEF TypeAt
  <2> QED
    BY <2>1, <2>2, <2>3, <2>4 DEF Readable, Void
<1> QED
  BY <1>6, <1>7, <1>8

\* Where the next parameter is.  Its index does not wrap around: the parameter
\* of the last u32 would lie beyond the body, so one before it cannot be read.
LEMMA ParamAddress ==
  ASSUME MethodInputOK, slot \in Nat, ParamsInv
  PROVE  /\ FirstParam \in Nat /\ ParamCount \in Nat
         /\ Gpi = FirstParam + Len(params)
         /\ Readable(mbody, ParamDef, PARAM_STRIDE) <=> ParamThere(Current, Len(params))
         /\ minp.params >= 0 => ~ParamDefOverflows
<1>1. Current \in Nat /\ MethodDef = RecordOf(Current) /\ Here(Current)
  BY MethodAddress DEF ParamsInv
<1>2. FirstParam \in Nat /\ FirstParam < U32_RANGE /\ ParamCount \in Nat
  BY <1>1, MethodWords DEF FirstParam, ParamCount
<1>3. /\ PARAM_STRIDE \in Nat \ {0} /\ FitsUsize(PARAM_STRIDE) /\ minp.params \in SignedBase
      /\ minp.params \in Int /\ IsBuffer(mbody) /\ SizeOf(mbody) \in Nat
      /\ SizeOf(mbody) < minp.params + PARAM_STRIDE * U32_RANGE
  BY MethodFacts, BufferSize, Widths DEF SignedBase
<1> DEFINE n == Len(params)
           i == FirstParam + n
<1>4. n \in Nat /\ \A p \in 0 .. n - 1 : ParamThere(Current, p)
  BY DEF ParamsInv, ParamCounts
<1>5. i \in Nat /\ i < U32_RANGE
  <2>1. CASE n = 0
    BY <1>2, <1>4, <2>1
  <2>2. CASE n # 0
    <3>1. n - 1 \in 0 .. n - 1
      BY <1>4, <2>2
    <3>2. ParamThere(Current, n - 1)
      BY <1>4, <3>1
    <3>3. minp.params + PARAM_STRIDE * (FirstParam + (n - 1)) + PARAM_STRIDE <= SizeOf(mbody)
      BY <3>2 DEF ParamThere, InMethodBody, FirstParam
    <3>4. PARAM_STRIDE * (FirstParam + (n - 1)) + PARAM_STRIDE = PARAM_STRIDE * i
          /\ PARAM_STRIDE * i \in Int /\ PARAM_STRIDE * U32_RANGE \in Int
          /\ PARAM_STRIDE * (FirstParam + (n - 1)) \in Int
      BY <1>2, <1>3, <1>4, Widths
    <3>5. PARAM_STRIDE * i < PARAM_STRIDE * U32_RANGE
      BY <1>3, <3>3, <3>4
    <3>6. i \in Nat
      BY <1>2, <1>4
    <3> HIDE DEF i
    <3>7. ~(i >= U32_RANGE)
      <4>1. i >= U32_RANGE => PARAM_STRIDE * i >= PARAM_STRIDE * U32_RANGE
        BY <1>3, <3>6, Widths
      <4> QED
        BY <3>4, <3>5, <4>1
    <3> QED
      BY <3>6, <3>7, Widths
  <2> QED
    BY <2>1, <2>2
<1>6. Gpi = i
  <2>1. i \in Int /\ i \in 0 .. U32_RANGE - 1 /\ U32_RANGE \in Nat \ {0}
    BY <1>5, Widths
  <2>2. i % U32_RANGE = i
    <3> HIDE DEF i
    <3> QED
      BY <2>1, ResidueOf, Zenon
  <2> QED
    BY <1>1, <2>2 DEF Gpi, FirstParam
<1> DEFINE w == minp.params + PARAM_STRIDE * i
<1>7. /\ w \in Whole /\ ParamDef = AsUsize(w)
      /\ minp.params >= 0 => ~ParamDefOverflows
  <2> HIDE DEF i
  <2>1. i \in Word32
    BY <1>5, Widths DEF Word32
  <2> QED
    BY <1>3, <1>6, <2>1, TableAddress DEF ParamDef, ParamDefOverflows
<1>8. Readable(mbody, AsUsize(w), PARAM_STRIDE) <=> InMethodBody(w, PARAM_STRIDE)
  <2> HIDE DEF w
  <2> QED
    BY <1>3, <1>7, AddressInBuffer DEF InMethodBody
<1>9. ParamThere(Current, n) <=> InMethodBody(w, PARAM_STRIDE)
  BY DEF ParamThere, FirstParam
<1> QED
  BY <1>2, <1>6, <1>7, <1>8, <1>9

\* The methods of the type among the first n + 1.
LEMMA OneMoreMethod ==
  ASSUME NEW n \in Nat, minp.start \in Nat
  PROVE  /\ ~NoMethods /\ Here(minp.start + n) =>
              MethodsOf(n + 1) = MethodsOf(n) \union {MethodOf(minp.start + n)}
         /\ ~(~NoMethods /\ Here(minp.start + n)) => MethodsOf(n + 1) = MethodsOf(n)
<1>1. minp.start .. minp.start + (n + 1) - 1 =
        (minp.start .. minp.start + n - 1) \union {minp.start + n}
  OBVIOUS
<1> QED
  BY <1>1 DEF MethodsOf, Here

\* What is said of a method does not depend on the method looked at.
LEMMA MethodFrame ==
  ASSUME UNCHANGED <<mbody, mimage, minp>>
  PROVE  /\ \A n : MethodsOf(n)' = MethodsOf(n)
         /\ \A g : Here(g)' = Here(g) /\ MethodOf(g)' = MethodOf(g)
         /\ \A g : ParamCounts(g)' = ParamCounts(g) /\ RecordOf(g)' = RecordOf(g)
         /\ UNCHANGED <<NoMethods, NegativeTable>>
<1>1. ASSUME NEW g
      PROVE  /\ RecordOf(g)' = RecordOf(g) /\ Here(g)' = Here(g)
             /\ ParamCounts(g)' = ParamCounts(g) /\ MethodOf(g)' = MethodOf(g)
  <2>1. RecordOf(g)' = RecordOf(g) /\ Here(g)' = Here(g)
    BY DEF RecordOf, Here, InMethodBody
  <2>2. ParamCounts(g)' = ParamCounts(g)
    BY DEF ParamCounts, ParamThere, InMethodBody, RecordOf
  <2>3. RvaOf(g)' = RvaOf(g)
    BY DEF RvaOf
  <2>4. ReturnOf(g)' = ReturnOf(g)
    BY <2>1 DEF ReturnOf
  <2>5. ParamsOf(g)' = ParamsOf(g)
    BY <2>1, <2>2 DEF ParamsOf
  <2> QED
    BY <2>1, <2>2, <2>3, <2>4, <2>5 DEF MethodOf
<1>2. UNCHANGED <<NoMethods, NegativeTable>>
  BY DEF NoMethods, NegativeTable
<1>3. ASSUME NEW n
      PROVE  MethodsOf(n)' = MethodsOf(n)
  BY <1>1, <1>2 DEF MethodsOf, Here
<1> QED
  BY <1>1, <1>2, <1>3

LEMMA InitMethodInv == MethodInit => MethodInv
<1> SUFFICES ASSUME MethodInit PROVE MethodInv
  OBVIOUS
<1>1. MethodInputOK
  BY DEF MethodInit, MethodInputOK
<1>2. slot = 0 /\ params = <<>> /\ methods = <<>> /\ mtpc = "start"
  BY DEF MethodInit
<1>3. minp.start \in Nat /\ minp.count \in Nat /\ MAX_PARAMS \in Nat
  BY <1>1, MethodFacts
<1>4. MethodsOf(0) = {} /\ RangeOf(<<>>) = {}
  BY <1>3 DEF MethodsOf, RangeOf
<1>5. /\ InMethodOrder /\ methods \in Seq(MethodRecord) /\ params \in Seq(Nat)
      /\ Len(methods) = 0 /\ Len(params) = 0 /\ DOMAIN methods = {}
  BY <1>2 DEF InMethodOrder
<1>6. RangeOf(methods) = MethodsOf(slot)
  BY <1>2, <1>4
<1> QED
  BY <1>1, <1>2, <1>3, <1>5, <1>6 DEF MethodInv

LEMMA SkipMethodStep ==
  ASSUME MethodInv, SkipMethod
  PROVE  MethodInv'
<1>1. /\ MethodInputOK /\ mtpc = "slot" /\ slot \in Nat /\ slot < minp.count /\ ~NoMethods
      /\ ~Readable(mbody, MethodDef, METHOD_STRIDE)
      /\ slot' = slot + 1
      /\ UNCHANGED <<mbody, mimage, minp, mchecked, params, methods, mtpc>>
      /\ minp.start \in Nat /\ minp.count \in Nat
  BY MethodFacts DEF SkipMethod, MethodInv, SlotDue, MethodReadable
<1>2. ~Here(Current)
  BY <1>1, MethodAddress
<1>3. MethodsOf(slot + 1) = MethodsOf(slot)
  BY <1>1, <1>2, OneMoreMethod DEF Current
<1>4. MethodsOf(slot)' = MethodsOf(slot + 1)
  BY <1>1, MethodFrame DEF MethodsOf, Here
<1>5. UNCHANGED <<NoMethods, InMethodOrder, MethodInputOK>>
  BY <1>1, MethodFrame DEF InMethodOrder, MethodInputOK
<1>6. /\ \A n \in DOMAIN methods : methods[n].gmi < minp.start + (slot + 1)
      /\ Len(methods) <= slot + 1
  <2>1. ASSUME NEW n \in DOMAIN methods
        PROVE  methods[n].gmi < minp.start + (slot + 1)
    <3>1. methods[n] \in MethodRecord
      BY MembersOf DEF MethodInv
    <3>2. methods[n].gmi \in Nat /\ methods[n].gmi < minp.start + slot
      BY <3>1 DEF MethodInv, MethodRecord
    <3> QED
      BY <1>1, <3>2
  <2>2. Len(methods) \in Nat
    BY DEF MethodInv
  <2> QED
    BY <1>1, <2>1, <2>2 DEF MethodInv
<1> QED
  BY <1>1, <1>3, <1>4, <1>5, <1>6 DEF MethodInv

LEMMA BeginMethodStep ==
  ASSUME MethodInv, BeginMethod
  PROVE  MethodInv'
<1>1. /\ MethodInputOK /\ slot \in Nat /\ slot < minp.count /\ ~NoMethods
      /\ Readable(mbody, MethodDef, METHOD_STRIDE)
      /\ params' = <<>> /\ mtpc' = "params"
      /\ UNCHANGED <<mbody, mimage, minp, mchecked, slot, methods>>
      /\ MAX_PARAMS \in Nat
  BY MethodFacts DEF BeginMethod, MethodInv, SlotDue, MethodReadable
<1>2. Here(Current) /\ Current \in Nat
  BY <1>1, MethodAddress
<1>3. 0 \in ParamCounts(Current)
  <2>1. ParamCount \in Nat
    BY <1>1, <1>2, MethodWords DEF ParamCount
  <2> QED
    BY <1>1, <2>1 DEF ParamCounts, ParamCount
<1>4. Len(<<>>) = 0 /\ <<>> \in Seq(Nat) /\ DOMAIN <<>> = {} /\ 1 .. 0 = {}
  OBVIOUS
<1>5. ParamsInv'
  <2>1. Current' = Current
    BY <1>1 DEF Current
  <2>2. Here(Current)' /\ ParamCounts(Current)' = ParamCounts(Current)
    BY <1>1, <1>2, <2>1, MethodFrame
  <2> QED
    BY <1>1, <1>3, <1>4, <2>2 DEF ParamsInv
<1>6. /\ UNCHANGED <<NoMethods, InMethodOrder, MethodInputOK>>
      /\ MethodsOf(slot)' = MethodsOf(slot)
  BY <1>1, MethodFrame DEF InMethodOrder, MethodInputOK
<1> QED
  BY <1>1, <1>4, <1>5, <1>6 DEF MethodInv

LEMMA TakeParamStep ==
  ASSUME MethodInv, TakeParam
  PROVE  MethodInv'
<1> DEFINE n == Len(params)
<1>1. /\ MethodInputOK /\ slot \in Nat /\ ~NoMethods /\ ParamsInv
      /\ mtpc = "params" /\ n < mbody[MethodDef + COUNT_AT] /\ n < MAX_PARAMS
      /\ Readable(mbody, ParamDef, PARAM_STRIDE)
      /\ params' = Append(params, Gpi)
      /\ UNCHANGED <<mbody, mimage, minp, mchecked, slot, methods, mtpc>>
      /\ MAX_PARAMS \in Nat /\ params \in Seq(Nat) /\ n \in Nat
  BY MethodFacts DEF TakeParam, MethodInv, ParamDue
<1>2. /\ slot < minp.count /\ Here(Current) /\ n \in ParamCounts(Current)
      /\ \A p \in 1 .. n : params[p] = FirstParam + p - 1
  BY <1>1 DEF ParamsInv
<1>3. MethodDef = RecordOf(Current)
  BY <1>1, <1>2, MethodAddress
<1>4. /\ FirstParam \in Nat /\ ParamCount \in Nat /\ Gpi = FirstParam + n
      /\ ParamThere(Current, n)
  BY <1>1, ParamAddress
<1>5. n < ParamCount
  BY <1>1, <1>3 DEF ParamCount
<1>6. n + 1 \in ParamCounts(Current)
  <2>1. \A p \in 0 .. n : p \in 0 .. n - 1 \/ p = n
    BY <1>1
  <2>2. n + 1 \in 0 .. MAX_PARAMS /\ n + 1 <= ParamCount /\ n + 1 - 1 = n
    BY <1>1, <1>4, <1>5
  <2>3. \A p \in 0 .. n - 1 : ParamThere(Current, p)
    BY <1>2 DEF ParamCounts
  <2>4. \A p \in 0 .. n : ParamThere(Current, p)
    BY <1>4, <2>1, <2>3
  <2> DEFINE m == n + 1
  <2>5. m - 1 = n /\ m \in 0 .. MAX_PARAMS /\ m <= ParamCount
    BY <2>2
  <2>6. \A p \in 0 .. m - 1 : ParamThere(Current, p)
    BY <2>4, <2>5
  <2> HIDE DEF m
  <2>7. m \in ParamCounts(Current)
    BY <2>5, <2>6 DEF ParamCounts, ParamCount
  <2> QED
    BY <2>7 DEF m
<1>7. /\ params' \in Seq(Nat) /\ Len(params') = n + 1
      /\ \A p \in 1 .. n + 1 : params'[p] = FirstParam + p - 1
  <2>1. Gpi \in Nat
    BY <1>1, <1>4
  <2>2. ASSUME NEW p \in 1 .. n + 1
        PROVE  \/ p \in 1 .. n /\ params'[p] = params[p]
               \/ p = n + 1 /\ params'[p] = Gpi
    BY <1>1, <2>1
  <2>3. FirstParam + n = FirstParam + (n + 1) - 1
    BY <1>1, <1>4
  <2>4. params' \in Seq(Nat) /\ Len(params') = n + 1
    BY <1>1, <2>1
  <2> HIDE DEF n
  <2> QED
    BY <1>2, <1>4, <2>2, <2>3, <2>4
<1>8. ParamsInv'
  <2>1. Current' = Current
    BY <1>1 DEF Current
  <2>2. Here(Current)' /\ ParamCounts(Current)' = ParamCounts(Current)
    BY <1>1, <1>2, <2>1, MethodFrame
  <2>3. FirstParam' = FirstParam
    BY <1>1, <2>1 DEF FirstParam, RecordOf
  <2> HIDE DEF n
  <2> QED
    BY <1>1, <1>2, <1>6, <1>7, <2>2, <2>3 DEF ParamsInv
<1>9. /\ UNCHANGED <<NoMethods, InMethodOrder, MethodInputOK>>
      /\ MethodsOf(slot)' = MethodsOf(slot)
  BY <1>1, MethodFrame DEF InMethodOrder, MethodInputOK
<1>10. Len(params') <= MAX_PARAMS
  BY <1>1, <1>7
<1> QED
  BY <1>1, <1>7, <1>8, <1>9, <1>10 DEF MethodInv

\* The parameters that are taken are the longest run that can be read.
LEMMA AllParams ==
  ASSUME MethodInv, TakeMethod
  PROVE  params = ParamsOf(Current)
<1> DEFINE n == Len(params)
<1>1. /\ MethodInputOK /\ slot \in Nat /\ ParamsInv /\ ParamsEnd /\ mtpc = "params"
      /\ params \in Seq(Nat) /\ n \in Nat /\ MAX_PARAMS \in Nat
  BY MethodFacts DEF TakeMethod, MethodInv
<1>2. /\ slot < minp.count /\ Here(Current) /\ n \in ParamCounts(Current)
      /\ \A p \in 1 .. n : params[p] = FirstParam + p - 1
  BY <1>1 DEF ParamsInv
<1>3. MethodDef = RecordOf(Current)
  BY <1>1, <1>2, MethodAddress
<1>4. /\ ParamCount \in Nat
      /\ Readable(mbody, ParamDef, PARAM_STRIDE) <=> ParamThere(Current, n)
  BY <1>1, ParamAddress
<1>5. \/ ~(n < ParamCount) \/ ~(n < MAX_PARAMS)
      \/ ~ParamThere(Current, n)
  BY <1>1, <1>3, <1>4 DEF ParamsEnd, ParamDue, ParamCount
<1>6. ASSUME NEW m \in ParamCounts(Current)
      PROVE  m <= n
  <2>1. /\ m \in 0 .. MAX_PARAMS /\ m <= ParamCount
        /\ \A p \in 0 .. m - 1 : ParamThere(Current, p)
    BY DEF ParamCounts, ParamCount
  <2>2. SUFFICES ASSUME ~(m <= n) PROVE FALSE
    OBVIOUS
  <2>3. n \in 0 .. m - 1 /\ n < ParamCount /\ n < MAX_PARAMS
    BY <1>1, <1>4, <2>1, <2>2
  <2> QED
    BY <1>5, <2>1, <2>3
<1>7. ParamCounts(Current) \subseteq Int
  BY <1>1 DEF ParamCounts
<1> HIDE DEF n
<1>8. (CHOOSE m \in ParamCounts(Current) : \A l \in ParamCounts(Current) : l <= m) = n
  BY <1>2, <1>6, <1>7, ChosenGreatest
<1>9. ParamsOf(Current) = [p \in 1 .. n |-> FirstParam + p - 1]
  BY <1>8 DEF ParamsOf, FirstParam
<1>10. params = [p \in 1 .. n |-> params[p]]
  BY <1>1 DEF n
<1> QED
  BY <1>2, <1>9, <1>10

LEMMA TakeMethodStep ==
  ASSUME MethodInv, TakeMethod
  PROVE  MethodInv'
<1> DEFINE new == [gmi |-> Gmi, rva |-> Rva, ret |-> ReturnType, params |-> params]
<1>1. /\ MethodInputOK /\ slot \in Nat /\ ~NoMethods /\ ParamsInv
      /\ methods' = Append(methods, new)
      /\ slot' = slot + 1 /\ mtpc' = "slot"
      /\ UNCHANGED <<mbody, mimage, minp, mchecked, params>>
      /\ minp.start \in Nat /\ minp.count \in Nat
      /\ params \in Seq(Nat) /\ Len(params) <= MAX_PARAMS
      /\ methods \in Seq(MethodRecord)
  BY MethodFacts DEF TakeMethod, MethodInv
<1>2. slot < minp.count /\ Here(Current)
  BY <1>1 DEF ParamsInv
<1>3. Gmi = Current /\ Current \in Nat /\ Current = minp.start + slot
  BY <1>1, <1>2, MethodAddress DEF Current
<1>4. /\ Rva = RvaOf(Current)
      /\ Rva \in 0 .. CODE_LEN - 1
      /\ ReturnType = ReturnOf(Current) /\ ReturnType \in Int
  BY <1>1, <1>2, MethodParts
<1>5. params = ParamsOf(Current)
  BY AllParams
<1>6. /\ new \in MethodRecord /\ new.gmi = minp.start + slot
      /\ Len(new.params) <= MAX_PARAMS
      /\ new = MethodOf(Current)
  <2>1. new \in MethodRecord
    BY <1>1, <1>3, <1>4 DEF MethodRecord
  <2>2. new = MethodOf(Current)
    BY <1>3, <1>4, <1>5 DEF MethodOf
  <2> QED
    BY <1>1, <1>3, <2>1, <2>2
<1> HIDE DEF new
<1>7. /\ methods' \in Seq(MethodRecord)
      /\ RangeOf(methods') = RangeOf(methods) \union {new}
      /\ \A n \in DOMAIN methods' :
           \/ n \in DOMAIN methods /\ n < Len(methods) + 1 /\ methods'[n] = methods[n]
           \/ n = Len(methods) + 1 /\ methods'[n] = new
  BY <1>1, <1>6, RangeOfAppend
<1>8. MethodsOf(slot + 1) = MethodsOf(slot) \union {MethodOf(Current)}
  BY <1>1, <1>2, <1>3, OneMoreMethod
<1>9. UNCHANGED <<NoMethods, MethodInputOK>>
  BY <1>1, MethodFrame DEF MethodInputOK
<1>10. RangeOf(methods') = MethodsOf(slot)'
  <2>1. MethodsOf(slot)' = MethodsOf(slot + 1)
    BY <1>1, MethodFrame DEF MethodsOf, Here
  <2> QED
    BY <1>6, <1>7, <1>8, <1>9, <2>1 DEF MethodInv
<1>11. /\ \A n \in DOMAIN methods' :
            methods'[n].gmi < minp.start + (slot + 1) /\ Len(methods'[n].params) <= MAX_PARAMS
       /\ \A m, n \in DOMAIN methods' : m < n => methods'[m].gmi < methods'[n].gmi
  <2>1. ASSUME NEW n \in DOMAIN methods
        PROVE  /\ methods[n].gmi < minp.start + slot /\ methods[n].gmi \in Nat
               /\ Len(methods[n].params) <= MAX_PARAMS
    <3>1. methods[n] \in MethodRecord
      BY <1>1, MembersOf
    <3> QED
      BY <3>1 DEF MethodInv, MethodRecord
  <2>2. \A m, n \in DOMAIN methods : m < n => methods[m].gmi < methods[n].gmi
    BY DEF MethodInv, InMethodOrder
  <2>3. Len(methods) \in Nat /\ \A n \in DOMAIN methods : n < Len(methods) + 1
    BY <1>1
  <2>4. ASSUME NEW n \in DOMAIN methods'
        PROVE  methods'[n].gmi < minp.start + (slot + 1) /\ Len(methods'[n].params) <= MAX_PARAMS
    <3>1. CASE n \in DOMAIN methods /\ methods'[n] = methods[n]
      <4>1. methods[n].gmi < minp.start + slot /\ methods[n].gmi \in Nat
            /\ Len(methods[n].params) <= MAX_PARAMS
        BY <2>1, <3>1
      <4> QED
        BY <1>1, <3>1, <4>1
    <3>2. CASE methods'[n] = new
      BY <1>1, <1>6, <3>2
    <3> QED
      BY <1>7, <3>1, <3>2
  <2>5. ASSUME NEW m \in DOMAIN methods', NEW n \in DOMAIN methods', m < n
        PROVE  methods'[m].gmi < methods'[n].gmi
    <3>1. CASE n \in DOMAIN methods /\ n < Len(methods) + 1 /\ methods'[n] = methods[n]
      <4>1. m \in DOMAIN methods /\ methods'[m] = methods[m]
        BY <1>7, <2>3, <2>5, <3>1
      <4> QED
        BY <2>2, <2>5, <3>1, <4>1
    <3>2. CASE n = Len(methods) + 1 /\ methods'[n] = new
      <4>1. m \in DOMAIN methods /\ methods'[m] = methods[m]
        BY <1>7, <2>3, <2>5, <3>2
      <4> QED
        BY <1>6, <2>1, <3>2, <4>1
    <3> QED
      BY <1>7, <3>1, <3>2
  <2> QED
    BY <2>4, <2>5
<1>12. Len(methods') <= slot + 1
  <2>1. Len(methods') = Len(methods) + 1 /\ Len(methods) \in Nat
    BY <1>1, <1>6
  <2> QED
    BY <1>1, <2>1 DEF MethodInv
<1>13. InMethodOrder'
  BY <1>11 DEF InMethodOrder
<1>14. slot' \in Nat /\ slot' <= minp.count
  BY <1>1, <1>2
<1> QED
  BY <1>1, <1>7, <1>9, <1>10, <1>11, <1>12, <1>13, <1>14 DEF MethodInv

\* The loop does not look at a parameter, and ends, only as the text says.
LEMMA MethodStops ==
  ASSUME MethodInv,
         ReturnNone \/ MethodsStart \/ MethodPanic \/ MethodsDone \/ UNCHANGED methodVars
  PROVE  MethodInv'
<1>1. /\ UNCHANGED <<mbody, mimage, minp, mchecked, slot, params, methods>>
      /\ MethodInputOK /\ slot \in Nat
  BY DEF ReturnNone, MethodsStart, MethodPanic, MethodsDone, MethodsGoto, methodVars, MethodInv
<1>2. /\ UNCHANGED <<NoMethods, NegativeTable, InMethodOrder, MethodInputOK>>
      /\ MethodsOf(slot)' = MethodsOf(slot)
      /\ ParamsInv' <=> ParamsInv
  <2>1. Current' = Current
    BY <1>1 DEF Current
  <2>2. /\ Here(Current)' = Here(Current) /\ ParamCounts(Current)' = ParamCounts(Current)
        /\ FirstParam' = FirstParam
    BY <1>1, <2>1, MethodFrame DEF FirstParam
  <2> QED
    BY <1>1, <2>2, MethodFrame DEF InMethodOrder, MethodInputOK, ParamsInv
<1>3. CASE ReturnNone \/ MethodsDone
  <2>1. mtpc' = "done" /\ (slot = minp.count \/ NoMethods)
    BY <1>3 DEF ReturnNone, MethodsDone, MethodsGoto
  <2> QED
    BY <1>1, <1>2, <2>1 DEF MethodInv
<1>4. CASE MethodsStart
  <2>1. mtpc' = "slot" /\ ~NoMethods
    BY <1>4 DEF MethodsStart, MethodsGoto
  <2> QED
    BY <1>1, <1>2, <2>1 DEF MethodInv
<1>5. CASE UNCHANGED methodVars
  BY <1>1, <1>2, <1>5 DEF MethodInv, methodVars
<1>6. CASE MethodPanic
  <2>1. mtpc' = "panic"
    BY <1>6 DEF MethodPanic, MethodsGoto
  <2>2. minp.methodDefs \in Int /\ minp.params \in Int
    BY <1>1, MethodFacts, Widths DEF SignedBase
  <2>3. CASE SlotDue /\ MethodSumPanics(MethodDefOverflows)
    <3>1. mchecked /\ ~(minp.methodDefs >= 0)
      BY <1>1, <2>3, MethodAddress DEF SlotDue, MethodSumPanics
    <3> QED
      BY <1>1, <1>2, <2>1, <2>2, <3>1 DEF MethodInv, NegativeTable
  <2>4. CASE ParamDue /\ MethodSumPanics(ParamDefOverflows)
    <3>1. ParamsInv
      BY <2>4 DEF ParamDue, MethodInv
    <3>2. mchecked /\ ~(minp.params >= 0)
      BY <1>1, <2>4, <3>1, ParamAddress DEF MethodSumPanics
    <3> QED
      BY <1>1, <1>2, <2>1, <2>2, <3>2 DEF MethodInv, NegativeTable
  <2> QED
    BY <1>6, <2>3, <2>4 DEF MethodPanic
<1> QED
  BY <1>3, <1>4, <1>5, <1>6

LEMMA NextMethodInv == MethodInv /\ [MethodNext]_methodVars => MethodInv'
<1> SUFFICES ASSUME MethodInv, [MethodNext]_methodVars
             PROVE  MethodInv'
  OBVIOUS
<1>1. CASE SkipMethod
  BY <1>1, SkipMethodStep
<1>2. CASE BeginMethod
  BY <1>2, BeginMethodStep
<1>3. CASE TakeParam
  BY <1>3, TakeParamStep
<1>4. CASE TakeMethod
  BY <1>4, TakeMethodStep
<1>5. CASE ReturnNone \/ MethodsStart \/ MethodPanic \/ MethodsDone \/ UNCHANGED methodVars
  BY <1>5, MethodStops
<1> QED
  BY <1>1, <1>2, <1>3, <1>4, <1>5 DEF MethodNext

(***************************************************************************)
(* MethodInv is an invariant of listing the methods of a type.             *)
(***************************************************************************)
THEOREM MethodInvariant == MethodSpec => []MethodInv
  BY InitMethodInv, NextMethodInv, PTL DEF MethodSpec

(***************************************************************************)
(* The methods of every type are listed with their own RVAs, return types  *)
(* and parameters, and a panic is one of a build that checks for overflow. *)
(***************************************************************************)
THEOREM MethodsListed == MethodSpec => []OwnMethods
<1>1. MethodInv => OwnMethods
  <2> SUFFICES ASSUME MethodInv PROVE OwnMethods
    OBVIOUS
  <2>1. ASSUME mtpc = "done"
        PROVE  {methods[n] : n \in DOMAIN methods} = MethodsOf(minp.count) /\ InMethodOrder
    <3>1. {methods[n] : n \in DOMAIN methods} = MethodsOf(slot) /\ InMethodOrder
          /\ (slot = minp.count \/ NoMethods)
      BY <2>1 DEF MethodInv, RangeOf
    <3>2. ASSUME NoMethods
          PROVE  MethodsOf(slot) = {} /\ MethodsOf(minp.count) = {}
      BY <3>2 DEF MethodsOf
    <3> QED
      BY <3>1, <3>2
  <2> QED
    BY <2>1 DEF MethodInv, OwnMethods, NegativeTable
<1> QED
  BY <1>1, MethodInvariant, PTL

(***************************************************************************)
(* No more methods are listed than were looked at, none with more than 64  *)
(* parameters, and no RVA is beyond the code.                              *)
(***************************************************************************)
THEOREM MethodTypeCorrect == MethodSpec => []MethodTypeOK
<1>1. MethodInv => MethodTypeOK
  <2> SUFFICES ASSUME MethodInv PROVE MethodTypeOK
    OBVIOUS
  <2>1. minp.count \in Nat
    BY MethodFacts DEF MethodInv
  <2>2. ASSUME NEW n \in DOMAIN methods
        PROVE  methods[n].rva \in 0 .. CODE_LEN - 1
    <3>1. methods[n] \in MethodRecord
      BY MembersOf DEF MethodInv
    <3> QED
      BY <3>1 DEF MethodRecord
  <2> QED
    BY <2>1, <2>2 DEF MethodInv, MethodTypeOK
<1> QED
  BY <1>1, MethodInvariant, PTL

-----------------------------------------------------------------------------
(***************************************************************************)
(* The heads of the classes.                                               *)
(***************************************************************************)
ClassInputOK ==
  /\ cbody \in ClassBodies /\ cimage \in TypeArrays /\ cbase \in ClassBases
  /\ cchecked \in BOOLEAN /\ list \in Lists

Heads == {Header(t) : t \in {u \in Nat : Listed(u)}}

ClassInv ==
  /\ ClassInputOK
  /\ cpc \in {"counts", "types", "done", "panic"}
  /\ cpc = "counts" => headers = <<>>
  /\ cpc \in {"types", "done"} => ~CountsPanic
  /\ pos \in Nat \ {0} /\ pos <= Len(list) + 1
  /\ headers \in Seq(Heads)
  /\ Len(headers) = Cardinality(DueBefore(pos))
  /\ \A m \in DueBefore(pos) : headers[Cardinality(DueBefore(m + 1))].type = list[m]
  /\ cpc = "panic" => cchecked /\ cbase < 0 /\ headers = <<>>

LEMMA ClassFacts ==
  ASSUME ClassInputOK
  PROVE  /\ IsBuffer(cbody) /\ \A o \in DOMAIN cbody : cbody[o] \in Word32
         /\ IsBuffer(cimage)
         /\ \A o \in DOMAIN cimage :
              cimage[o] \in Nat /\ TD_STRIDE * (cimage[o] + 1) + U32_RANGE <= USIZE
         /\ cbase \in SignedBase /\ cbase \in Int /\ list \in Seq(Nat)
         /\ TD_STRIDE \in Nat \ {0} /\ FitsUsize(TD_STRIDE) /\ TYPE_COUNT \in Word32
         /\ TYPE_COUNT \in Nat
         /\ NAME_AT \in Nat /\ NAME_AT + WORD <= TD_STRIDE
         /\ PARENT_AT \in Nat /\ PARENT_AT + WORD <= TD_STRIDE
         /\ FLAGS_AT \in Nat /\ FLAGS_AT + 1 <= TD_STRIDE
         /\ NAME_BIAS \in Nat /\ PARENT_BIAS \in Nat /\ TYPEARR \in Nat /\ WORD <= KIND_AT + 1
<1>1. /\ IsBuffer(cbody) /\ \A o \in DOMAIN cbody : cbody[o] \in Word32
      /\ cbase \in SignedBase /\ list \in Seq(Nat)
  BY ClassAssumption DEF ClassInputOK
<1>2. /\ IsBuffer(cimage)
      /\ \A o \in DOMAIN cimage :
           cimage[o] \in Nat /\ TD_STRIDE * (cimage[o] + 1) + U32_RANGE <= USIZE
  BY ClassAssumption DEF ClassInputOK
<1>3. /\ TD_STRIDE \in Nat \ {0} /\ FitsUsize(TD_STRIDE) /\ TYPE_COUNT \in Word32
      /\ NAME_BIAS \in Word32 /\ PARENT_BIAS \in Word32 /\ TYPEARR \in Nat /\ WORD <= KIND_AT + 1
      /\ NAME_AT \in Nat /\ PARENT_AT \in Nat /\ FLAGS_AT \in Nat
  BY ClassAssumption
<1>4. /\ NAME_AT + WORD <= TD_STRIDE /\ PARENT_AT + WORD <= TD_STRIDE
      /\ FLAGS_AT + 1 <= TD_STRIDE
  BY <1>3, ClassAssumption, Widths
<1>5. cbase \in Int
  BY <1>1, Widths DEF SignedBase
<1>6. NAME_BIAS \in Nat /\ PARENT_BIAS \in Nat /\ TYPE_COUNT \in Nat
  BY <1>3, Widths DEF Word32
<1> QED
  BY <1>1, <1>2, <1>3, <1>4, <1>5, <1>6

\* Where the record of a type is.
LEMMA RecordAddress ==
  ASSUME ClassInputOK, NEW t \in Nat
  PROVE  /\ Defined(t) <=> InTable(t)
         /\ Defined(t) => Record(t) = At(t)
         /\ t < TYPE_COUNT /\ cbase >= 0 => ~Overflows(TdBase, TD_STRIDE, t)
<1>1. TYPE_COUNT \in Nat /\ TYPE_COUNT < U32_RANGE
  BY ClassFacts, Widths DEF Word32
<1>2. CASE ~(t < TYPE_COUNT)
  BY <1>1, <1>2 DEF Defined, InTable, InBody
<1>3. CASE t < TYPE_COUNT
  <2>1. t \in Word32 /\ t \in 0 .. TYPE_COUNT - 1
    BY <1>1, <1>3, Widths DEF Word32
  <2>2. /\ cbase \in SignedBase /\ TD_STRIDE \in Nat /\ FitsUsize(TD_STRIDE)
        /\ IsBuffer(cbody)
    BY ClassFacts
  <2>3. /\ At(t) \in Whole /\ Record(t) = AsUsize(At(t))
        /\ cbase >= 0 => ~Overflows(TdBase, TD_STRIDE, t)
    BY <2>1, <2>2, TableAddress DEF At, Record, TdBase
  <2>4. Readable(cbody, AsUsize(At(t)), TD_STRIDE) <=>
          0 <= At(t) /\ At(t) + TD_STRIDE <= SizeOf(cbody)
    BY <2>2, <2>3, AddressInBuffer
  <2>5. 0 <= At(t) <=> At(t) >= 0
    BY <2>3 DEF Whole
  <2>6. At(t) >= 0 => AsUsize(At(t)) = At(t)
    BY <2>3, CastOfWhole
  <2> QED
    BY <1>3, <2>1, <2>3, <2>4, <2>5, <2>6 DEF Defined, InTable, InBody
<1> QED
  BY <1>2, <1>3

\* What is read of the record is what is there.
LEMMA RecordRead ==
  ASSUME ClassInputOK, NEW t \in Nat, InTable(t)
  PROVE  /\ Name(t) = NameIn(t)
         /\ ParentIn(t) \in Nat
         /\ ParentType(t) = IF ParentIn(t) = U32_RANGE - 1 THEN None ELSE ParentIn(t)
         /\ ReadAt(cbody, Record(t) + FLAGS_AT, 1) = cbody[At(t) + FLAGS_AT]
<1>1. Record(t) = At(t)
  BY RecordAddress
<1>2. /\ At(t) \in Int /\ At(t) >= 0 /\ At(t) + TD_STRIDE <= SizeOf(cbody)
      /\ SizeOf(cbody) \in Nat /\ 2 * SizeOf(cbody) + 2 <= USIZE
      /\ DOMAIN cbody = 0 .. SizeOf(cbody) - 1
      /\ TD_STRIDE \in Nat
  BY ClassFacts, BufferSize DEF InTable, InBody, At
<1>3. ASSUME NEW d \in Nat, d + WORD <= TD_STRIDE
      PROVE  FieldOf(t, d) = cbody[At(t) + d] /\ cbody[At(t) + d] \in Word32
  <2>1. /\ At(t) + d \in 0 .. USIZE - 1 /\ At(t) + d \in Int
        /\ At(t) + d + WORD <= SizeOf(cbody) /\ At(t) + d \in DOMAIN cbody
    BY <1>2, <1>3, Widths
  <2>2. (At(t) + d) % USIZE = At(t) + d
    <3>1. USIZE \in Nat \ {0}
      BY Widths
    <3> QED
      BY <2>1, <3>1, ResidueOf, Zenon
  <2>3. FieldOf(t, d) = cbody[At(t) + d]
    BY <1>1, <2>1, <2>2 DEF FieldOf, ReadAt, Readable
  <2> QED
    BY <2>1, <2>3, ClassFacts
<1>4. /\ FieldOf(t, NAME_AT) = cbody[At(t) + NAME_AT]
      /\ FieldOf(t, PARENT_AT) = cbody[At(t) + PARENT_AT] /\ cbody[At(t) + PARENT_AT] \in Word32
  BY <1>3, ClassFacts
<1>5. ParentIn(t) \in Nat
  <2>1. cbody[At(t) + PARENT_AT] \in Nat /\ PARENT_BIAS \in Nat /\ U32_RANGE \in Nat \ {0}
    BY <1>4, ClassFacts, Widths DEF Word32
  <2> QED
    BY <2>1 DEF ParentIn
<1>6. ParentType(t) = IF ParentIn(t) = U32_RANGE - 1 THEN None ELSE ParentIn(t)
  BY <1>4 DEF ParentType, ParentIn
<1>7. ReadAt(cbody, Record(t) + FLAGS_AT, 1) = cbody[At(t) + FLAGS_AT]
  <2>1. FLAGS_AT \in Nat /\ FLAGS_AT + 1 <= TD_STRIDE
    BY ClassFacts
  <2>2. At(t) + FLAGS_AT + 1 <= SizeOf(cbody)
    BY <1>2, <2>1
  <2> QED
    BY <1>1, <2>2 DEF ReadAt, Readable
<1>8. InBody(At(t) + NAME_AT, WORD)
  <2>1. NAME_AT \in Nat /\ NAME_AT + WORD <= TD_STRIDE /\ WORD \in Nat
    BY ClassFacts, Widths
  <2> QED
    BY <1>2, <2>1 DEF InBody
<1> QED
  BY <1>4, <1>5, <1>6, <1>7, <1>8 DEF Name, NameIn

\* The name of any index that an Il2CppType may hold, in the table or not.
LEMMA NameOfAny ==
  ASSUME ClassInputOK, NEW p \in Nat, TD_STRIDE * (p + 1) + U32_RANGE <= USIZE
  PROVE  Name(p) = NameIn(p)
<1> DEFINE m == TD_STRIDE * p
           w == At(p) + NAME_AT
<1>1. /\ cbase \in Int /\ -U32_RANGE <= cbase /\ cbase < U32_RANGE
      /\ TD_STRIDE \in Nat /\ NAME_AT \in Nat /\ NAME_AT + WORD <= TD_STRIDE
      /\ U32_RANGE \in Nat \ {0} /\ USIZE \in Nat \ {0} /\ WORD \in Nat \ {0}
      /\ 4 * U32_RANGE <= USIZE /\ IsBuffer(cbody)
  BY ClassFacts, Widths DEF SignedBase
<1>2. m \in Nat /\ TD_STRIDE * (p + 1) = m + TD_STRIDE /\ w = cbase + m + NAME_AT
  BY <1>1 DEF At
<1> HIDE DEF m
<1>3. w \in Whole /\ w \in Int
  BY <1>1, <1>2 DEF Whole
<1>4. Record(p) = (cbase + m) % USIZE
  <2>1. ((cbase % USIZE) + m) % USIZE = (cbase + m) % USIZE
    <3>1. cbase \in Int /\ m \in Int /\ USIZE \in Nat \ {0}
      BY <1>1, <1>2
    <3> QED
      BY <3>1, ResidueSum, Zenon
  <2> QED
    BY <2>1 DEF Record, Entry, TdBase, AsUsize, m
<1>5. (Record(p) + NAME_AT) % USIZE = AsUsize(w)
  <2>1. (((cbase + m) % USIZE) + NAME_AT) % USIZE = (cbase + m + NAME_AT) % USIZE
    <3>1. cbase + m \in Int /\ NAME_AT \in Int /\ USIZE \in Nat \ {0}
      BY <1>1, <1>2
    <3> QED
      BY <3>1, ResidueSum, Zenon
  <2> QED
    BY <1>2, <1>4, <2>1 DEF AsUsize
<1> HIDE DEF w
<1>6. Readable(cbody, AsUsize(w), WORD) <=> 0 <= w /\ w + WORD <= SizeOf(cbody)
  <2>1. WORD \in Nat
    BY <1>1
  <2> QED
    BY <1>1, <1>3, <2>1, AddressInBuffer
<1>7. 0 <= w => AsUsize(w) = w
  BY <1>3, CastOfWhole
<1>8. InBody(w, WORD) <=> 0 <= w /\ w + WORD <= SizeOf(cbody)
  BY <1>3 DEF InBody
<1>9. FieldOf(p, NAME_AT) = IF InBody(w, WORD) THEN cbody[w] ELSE 0
  BY <1>5, <1>6, <1>7, <1>8 DEF FieldOf, ReadAt
<1> QED
  BY <1>9 DEF Name, NameIn, w

LEMMA ListedIn ==
  ASSUME ClassInputOK, NEW t \in Nat
  PROVE  Listed(t) <=> InTable(t) /\ NameIn(t) # ""
  BY RecordAddress, RecordRead DEF Listed

\* The parent of a type is what typearr has for it.
LEMMA ParentOf ==
  ASSUME ClassInputOK, NEW t \in Nat, InTable(t)
  PROVE  /\ ParentTypeDef(t) # None =>
              /\ ParentTypeDef(t) \in Nat
              /\ TD_STRIDE * (ParentTypeDef(t) + 1) + U32_RANGE <= USIZE
         /\ HasParent(t) /\ KindIn(t) \in PlainKinds =>
              ParentTypeDef(t) = Definition(t) /\ Definition(t) \in Nat
         /\ ~(HasParent(t) /\ KindIn(t) \in PlainKinds) => ParentTypeDef(t) = None
<1> DEFINE n == ParentIn(t)
           at == TYPEARR + TYPE_LEN * n
<1>1. /\ n \in Nat /\ ParentType(t) = IF n = U32_RANGE - 1 THEN None ELSE n
  BY RecordRead
<1>2. /\ TYPEARR \in Nat /\ TYPE_LEN \in Nat /\ KIND_AT \in Nat /\ WORD \in Nat \ {0}
      /\ WORD <= KIND_AT + 1
      /\ SizeOf(cimage) \in Nat /\ DOMAIN cimage = 0 .. SizeOf(cimage) - 1
  BY ClassFacts, Widths, BufferSize
<1>3. at \in Nat
  BY <1>1, <1>2
<1>4. n # None /\ (ParentType(t) # None <=> n # U32_RANGE - 1)
  BY <1>1 DEF None
<1>5. Readable(cimage, at, WORD) =>
        cimage[at] \in Nat /\ TD_STRIDE * (cimage[at] + 1) + U32_RANGE <= USIZE
  <2>1. ASSUME Readable(cimage, at, WORD)
        PROVE  at \in DOMAIN cimage
    BY <1>2, <1>3, <2>1 DEF Readable
  <2> QED
    BY <2>1, ClassFacts
<1> HIDE DEF at
<1>6. n # U32_RANGE - 1 =>
        Il2CppType(ParentType(t)) =
          IF Readable(cimage, at + KIND_AT, 1) /\ Readable(cimage, at, WORD)
          THEN <<cimage[at + KIND_AT], cimage[at]>> ELSE <<None, None>>
  BY <1>1 DEF Il2CppType, at
<1> HIDE DEF n
<1>7. ASSUME ParentTypeDef(t) # None
      PROVE  /\ ParentTypeDef(t) \in Nat
             /\ TD_STRIDE * (ParentTypeDef(t) + 1) + U32_RANGE <= USIZE
  <2>1. /\ ParentType(t) # None /\ Il2CppType(ParentType(t))[1] \in PlainKinds
        /\ ParentTypeDef(t) = Il2CppType(ParentType(t))[2]
    BY <1>7 DEF ParentTypeDef
  <2>2. CASE Readable(cimage, at + KIND_AT, 1) /\ Readable(cimage, at, WORD)
    <3>1. ParentTypeDef(t) = cimage[at]
      BY <1>4, <1>6, <2>1, <2>2
    <3> QED
      BY <1>5, <2>2, <3>1
  <2>3. CASE ~(Readable(cimage, at + KIND_AT, 1) /\ Readable(cimage, at, WORD))
    BY <1>4, <1>6, <1>7, <2>1, <2>3
  <2> QED
    BY <2>2, <2>3
<1>8. ASSUME HasParent(t), KindIn(t) \in PlainKinds
      PROVE  ParentTypeDef(t) = Definition(t) /\ Definition(t) \in Nat
  <2>1. n # U32_RANGE - 1 /\ at + KIND_AT < SizeOf(cimage)
    BY <1>8 DEF HasParent, n, at
  <2>2. Readable(cimage, at + KIND_AT, 1) /\ Readable(cimage, at, WORD)
    BY <1>2, <1>3, <2>1 DEF Readable
  <2>3. KindIn(t) = cimage[at + KIND_AT] /\ Definition(t) = cimage[at]
    BY DEF KindIn, Definition, n, at
  <2>4. Il2CppType(ParentType(t)) = <<KindIn(t), Definition(t)>>
    BY <1>6, <2>1, <2>2, <2>3
  <2> QED
    BY <1>4, <1>5, <1>8, <2>1, <2>2, <2>3, <2>4 DEF ParentTypeDef
<1>9. ASSUME ParentTypeDef(t) # None
      PROVE  HasParent(t) /\ KindIn(t) \in PlainKinds
  <2>1. ParentType(t) # None /\ Il2CppType(ParentType(t))[1] \in PlainKinds
    BY <1>9 DEF ParentTypeDef
  <2>2. n # U32_RANGE - 1
    BY <1>4, <2>1
  <2>3. None \notin PlainKinds /\ <<None, None>>[1] = None
    BY DEF None, PlainKinds, CLASS, VALUETYPE, OBJECT
  <2>4. Readable(cimage, at + KIND_AT, 1)
    BY <1>6, <2>1, <2>2, <2>3
  <2>5. Il2CppType(ParentType(t))[1] = cimage[at + KIND_AT]
    <3>1. Il2CppType(ParentType(t)) = <<cimage[at + KIND_AT], cimage[at]>>
      <4>1. Il2CppType(ParentType(t)) # <<None, None>>
        BY <2>1, <2>3
      <4> QED
        BY <1>6, <2>2, <4>1
    <3> QED
      BY <3>1
  <2>6. at + KIND_AT < SizeOf(cimage)
    BY <1>2, <1>3, <2>4 DEF Readable
  <2> QED
    BY <2>1, <2>2, <2>5, <2>6 DEF HasParent, KindIn, n, at
<1> QED
  BY <1>7, <1>8, <1>9

\* What dump_all takes for the name of the parent.
LEMMA ParentNameOf ==
  ASSUME ClassInputOK, NEW t \in Nat, InTable(t)
  PROVE  ParentName(t) = NameOfParent(t)
<1>1. CASE HasParent(t) /\ KindIn(t) \in PlainKinds
  <2>1. /\ ParentTypeDef(t) = Definition(t) /\ Definition(t) \in Nat
        /\ Definition(t) # None
    <3>1. ParentTypeDef(t) = Definition(t) /\ Definition(t) \in Nat
      BY <1>1, ParentOf
    <3> QED
      BY <3>1 DEF None
  <2>2. Name(Definition(t)) = NameIn(Definition(t))
    BY <2>1, ParentOf, NameOfAny
  <2> QED
    BY <1>1, <2>1, <2>2 DEF ParentName, NameOfParent
<1>2. CASE ~(HasParent(t) /\ KindIn(t) \in PlainKinds)
  <2>1. ParentTypeDef(t) = None
    BY <1>2, ParentOf
  <2> QED
    BY <1>2, <2>1 DEF ParentName, NameOfParent
<1> QED
  BY <1>1, <1>2

\* Only a negative base overflows.
LEMMA PanicOnNegative ==
  ASSUME ClassInputOK, NEW t \in Nat, ClassPanics(t)
  PROVE  cchecked /\ cbase < 0
<1>1. /\ cbase \in Int /\ -U32_RANGE <= cbase /\ cbase < U32_RANGE
      /\ TD_STRIDE \in Nat /\ NAME_AT \in Nat /\ NAME_AT + WORD <= TD_STRIDE
      /\ U32_RANGE \in Nat \ {0} /\ USIZE \in Nat \ {0} /\ WORD \in Nat \ {0}
      /\ 4 * U32_RANGE <= USIZE
  BY ClassFacts, Widths DEF SignedBase
<1>2. SUFFICES ASSUME cbase >= 0 PROVE FALSE
  BY <1>1 DEF ClassPanics, TypeDefPanics
<1>3. PICK d \in Nat : /\ d = ParentTypeDef(t) /\ NameOverflows(d)
                       /\ TD_STRIDE * (d + 1) + U32_RANGE <= USIZE
  <2>1. ~(t < TYPE_COUNT /\ Overflows(TdBase, TD_STRIDE, t))
    BY <1>2, RecordAddress
  <2>2. Listed(t) /\ ParentTypeDef(t) # None /\ NameOverflows(ParentTypeDef(t))
    BY <2>1 DEF ClassPanics, TypeDefPanics
  <2>3. InTable(t)
    BY <2>2, ListedIn
  <2> QED
    BY <2>2, <2>3, ParentOf
<1> DEFINE m == TD_STRIDE * d
<1>4. /\ m \in Nat /\ TD_STRIDE * (d + 1) = m + TD_STRIDE
  BY <1>1
<1> HIDE DEF m
<1>5. cbase + m + NAME_AT < USIZE /\ cbase + m \in 0 .. USIZE - 1 /\ m \in 0 .. USIZE - 1
      /\ cbase \in 0 .. USIZE - 1
  BY <1>1, <1>2, <1>3, <1>4
<1>6. TdBase = cbase /\ m % USIZE = m /\ (cbase + m) % USIZE = cbase + m
  <2>1. cbase + m \in Int /\ m \in Int
    BY <1>1, <1>4
  <2> QED
    BY <1>1, <1>5, <2>1, ResidueOf, Zenon DEF TdBase, AsUsize
<1>7. ~Overflows(TdBase, TD_STRIDE, d)
  <2>1. ~(m >= USIZE) /\ ~(cbase + m >= USIZE)
    BY <1>1, <1>4, <1>5
  <2> QED
    BY <1>6, <2>1 DEF Overflows, m
<1>8. Record(d) = cbase + m
  BY <1>6 DEF Record, Entry, m
<1>9. ~(Record(d) + NAME_AT >= USIZE)
  BY <1>1, <1>4, <1>5, <1>8
<1> QED
  BY <1>3, <1>7, <1>9 DEF NameOverflows

\* A record that is in the body although the base is negative wraps around.
LEMMA NegativeOverflows ==
  ASSUME ClassInputOK, NEW t \in Nat, InTable(t), cbase < 0
  PROVE  Overflows(TdBase, TD_STRIDE, t)
<1> DEFINE m == TD_STRIDE * t
<1>1. /\ cbase \in Int /\ cbase < 0 /\ cbase + m >= 0 /\ TD_STRIDE \in Nat /\ t \in Word32
      /\ FitsUsize(TD_STRIDE) /\ -U32_RANGE <= cbase
  <2>1. t < TYPE_COUNT /\ cbase + m >= 0
    <3>1. TYPE_COUNT \in Nat
      BY ClassFacts
    <3> QED
      BY <3>1 DEF InTable, InBody, At
  <2> QED
    BY <2>1, ClassFacts, Widths DEF Word32, SignedBase
<1>2. m \in Nat /\ m + 3 * U32_RANGE <= USIZE /\ USIZE \in Nat \ {0} /\ 4 * U32_RANGE <= USIZE
      /\ U32_RANGE \in Nat \ {0}
  BY <1>1, StrideFits, Widths
<1> HIDE DEF m
<1>3. cbase \in Whole
  BY <1>1, <1>2 DEF Whole
<1>4. TdBase = cbase + USIZE
  BY <1>1, <1>3, CastOfWhole DEF TdBase
<1>5. m % USIZE = m
  <2>1. m \in Int /\ m \in 0 .. USIZE - 1 /\ USIZE \in Nat \ {0}
    BY <1>2
  <2> QED
    BY <2>1, ResidueOf, Zenon
<1>6. TdBase + (m % USIZE) >= USIZE
  BY <1>1, <1>2, <1>4, <1>5
<1> QED
  BY <1>6 DEF Overflows, m

\* Once the methods are counted no sum overflows: the parents of a type are
\* looked up only where its record is in the body.
LEMMA WalkIsSafe ==
  ASSUME ClassInputOK, ~CountsPanic, NEW t \in Nat
  PROVE  ~ClassPanics(t)
<1> SUFFICES ASSUME ClassPanics(t) PROVE FALSE
  OBVIOUS
<1>1. cchecked /\ cbase < 0 /\ TYPE_COUNT \in Nat
  BY PanicOnNegative, ClassFacts
<1>2. t < TYPE_COUNT /\ Overflows(TdBase, TD_STRIDE, t)
  <2>1. CASE TypeDefPanics(t)
    BY <2>1 DEF TypeDefPanics
  <2>2. CASE Listed(t)
    <3>1. InTable(t) /\ t < TYPE_COUNT
      BY <2>2, ListedIn DEF Listed, Defined
    <3> QED
      BY <1>1, <3>1, NegativeOverflows
  <2> QED
    BY <2>1, <2>2 DEF ClassPanics
<1>3. t \in 0 .. TYPE_COUNT - 1
  BY <1>1, <1>2
<1> QED
  BY <1>1, <1>2, <1>3 DEF CountsPanic, TypeDefPanics

LEMMA ClassFrame ==
  ASSUME UNCHANGED <<cbody, cimage, cbase, cchecked, list>>
  PROVE  /\ ClassInputOK' = ClassInputOK /\ Heads' = Heads
         /\ \A p : DueBefore(p)' = DueBefore(p)
         /\ CountsPanic' = CountsPanic
<1>1. ClassInputOK' = ClassInputOK
  BY DEF ClassInputOK
<1>2. \A p : DueBefore(p)' = DueBefore(p)
  BY DEF DueBefore, InTable, InBody, At, NameIn
<1>3. \A t : Record(t)' = Record(t) /\ Name(t)' = Name(t)
  BY DEF Record, TdBase, Name, FieldOf
<1>4. \A t : Listed(t)' = Listed(t)
  BY <1>3 DEF Listed, Defined
<1>5. \A n : Il2CppType(n)' = Il2CppType(n)
  BY DEF Il2CppType
<1>6. \A t : ParentType(t)' = ParentType(t)
  BY <1>3 DEF ParentType, FieldOf
<1>7. \A t : ParentTypeDef(t)' = ParentTypeDef(t)
  <2>1. ASSUME NEW t
        PROVE  ParentTypeDef(t)' = ParentTypeDef(t)
    <3>1. Il2CppType(ParentType(t))' = Il2CppType(ParentType(t))
      BY <1>6 DEF Il2CppType
    <3> QED
      BY <1>6, <3>1 DEF ParentTypeDef
  <2> QED
    BY <2>1
<1>8. \A t : ParentName(t)' = ParentName(t)
  <2>1. ASSUME NEW t
        PROVE  ParentName(t)' = ParentName(t)
    <3>1. Name(ParentTypeDef(t))' = Name(ParentTypeDef(t))
      BY <1>7 DEF Name, FieldOf, Record, TdBase
    <3> QED
      BY <1>7, <3>1 DEF ParentName
  <2> QED
    BY <2>1
<1>9. \A t : Header(t)' = Header(t)
  BY <1>3, <1>8 DEF Header
<1>10. CountsPanic' = CountsPanic
  BY DEF CountsPanic, TypeDefPanics, TdBase
<1> QED
  BY <1>1, <1>2, <1>4, <1>9, <1>10 DEF Heads

\* How many types are due before a type.
Due(m) == InTable(list[m]) /\ NameIn(list[m]) # ""

LEMMA DueMember ==
  ASSUME NEW p, NEW m
  PROVE  m \in DueBefore(p) <=> m \in 1 .. p - 1 /\ Due(m)
<1>1. DueBefore(p) = {l \in 1 .. p - 1 : Due(l)}
  BY DEF DueBefore, Due
<1> QED
  BY <1>1

LEMMA DueCount ==
  ASSUME NEW p \in Nat \ {0}
  PROVE  /\ IsFiniteSet(DueBefore(p)) /\ Cardinality(DueBefore(p)) \in Nat
         /\ DueBefore(p + 1) = IF Due(p) THEN DueBefore(p) \union {p} ELSE DueBefore(p)
         /\ p \notin DueBefore(p)
         /\ \A m \in DueBefore(p) :
              Cardinality(DueBefore(m + 1)) \in 1 .. Cardinality(DueBefore(p))
<1>1. ASSUME NEW q \in Nat \ {0}
      PROVE  IsFiniteSet(DueBefore(q)) /\ Cardinality(DueBefore(q)) \in Nat
  <2>1. IsFiniteSet(1 .. q - 1)
    BY FS_Interval
  <2>2. DueBefore(q) \subseteq 1 .. q - 1
    BY DEF DueBefore
  <2>3. IsFiniteSet(DueBefore(q))
    BY <2>1, <2>2, FS_Subset
  <2> QED
    BY <2>3, FS_CardinalityType
<1>2. \A q, m : m \in DueBefore(q) <=> m \in 1 .. q - 1 /\ Due(m)
  BY DueMember
<1>3. DueBefore(p + 1) = IF Due(p) THEN DueBefore(p) \union {p} ELSE DueBefore(p)
  <2>1. \A m : m \in 1 .. p + 1 - 1 <=> m \in 1 .. p - 1 \/ m = p
    OBVIOUS
  <2>2. CASE Due(p)
    <3>1. \A m : m \in DueBefore(p + 1) <=> m \in DueBefore(p) \union {p}
      BY <1>2, <2>1, <2>2
    <3>2. DueBefore(p + 1) = DueBefore(p) \union {p}
      BY <3>1
    <3> QED
      BY <2>2, <3>2
  <2>3. CASE ~Due(p)
    <3>1. \A m : m \in DueBefore(p + 1) <=> m \in DueBefore(p)
      BY <1>2, <2>1, <2>3
    <3>2. DueBefore(p + 1) = DueBefore(p)
      BY <3>1
    <3> QED
      BY <2>3, <3>2
  <2> QED
    BY <2>2, <2>3
<1>4. ASSUME NEW m \in DueBefore(p)
      PROVE  Cardinality(DueBefore(m + 1)) \in 1 .. Cardinality(DueBefore(p))
  <2>1. m \in 1 .. p - 1 /\ Due(m)
    BY <1>2
  <2>2. m \in Nat \ {0} /\ m + 1 \in Nat \ {0} /\ m \in 1 .. m + 1 - 1
    BY <2>1
  <2>3. \A l : l \in 1 .. m + 1 - 1 => l \in 1 .. p - 1
    BY <2>1
  <2>4. DueBefore(m + 1) \subseteq DueBefore(p) /\ m \in DueBefore(m + 1)
    BY <1>2, <2>1, <2>2, <2>3
  <2>5. /\ IsFiniteSet(DueBefore(m + 1)) /\ Cardinality(DueBefore(m + 1)) \in Nat
        /\ IsFiniteSet(DueBefore(p)) /\ Cardinality(DueBefore(p)) \in Nat
    BY <1>1, <2>2
  <2>6. Cardinality(DueBefore(m + 1)) <= Cardinality(DueBefore(p))
    BY <2>4, <2>5, FS_Subset
  <2>7. Cardinality(DueBefore(m + 1)) # 0
    BY <2>4, <2>5, FS_EmptySet
  <2> QED
    BY <2>5, <2>6, <2>7
<1>5. p \notin DueBefore(p)
  <2>1. p \notin 1 .. p - 1
    OBVIOUS
  <2> QED
    BY <1>2, <2>1
<1> QED
  BY <1>1, <1>3, <1>4, <1>5

LEMMA InitClassInv == ClassInit => ClassInv
<1> SUFFICES ASSUME ClassInit PROVE ClassInv
  OBVIOUS
<1>1. ClassInputOK /\ pos = 1 /\ headers = <<>> /\ cpc = "counts"
  BY DEF ClassInit, ClassInputOK
<1>2. list \in Seq(Nat)
  BY <1>1, ClassFacts
<1>3. DueBefore(1) = {} /\ Cardinality({}) = 0
  BY FS_EmptySet DEF DueBefore
<1>4. Len(list) \in Nat /\ headers \in Seq(Heads) /\ Len(headers) = 0
  BY <1>1, <1>2
<1>5. DueBefore(pos) = {} /\ Len(headers) = Cardinality(DueBefore(pos))
      /\ pos \in Nat \ {0} /\ pos <= Len(list) + 1 /\ cpc # "panic"
  BY <1>1, <1>3, <1>4
<1> QED
  BY <1>1, <1>4, <1>5 DEF ClassInv

LEMMA WriteHeaderStep ==
  ASSUME ClassInv, WriteHeader
  PROVE  ClassInv'
<1> DEFINE t == list[pos]
           head == Header(t)
           n == Len(headers)
<1>1. /\ ClassInputOK /\ cpc = "types" /\ pos \in Nat \ {0} /\ pos <= Len(list)
      /\ Listed(t) /\ headers \in Seq(Heads)
      /\ headers' = headers \o <<head>> /\ pos' = pos + 1
      /\ UNCHANGED <<cbody, cimage, cbase, cchecked, list, cpc>>
  BY DEF WriteHeader, TypeDue, Advance, ClassInv
<1>2. list \in Seq(Nat) /\ Len(list) \in Nat /\ t \in Nat
  <2>1. list \in Seq(Nat)
    BY <1>1, ClassFacts
  <2> QED
    BY <1>1, <2>1
<1>3. Due(pos)
  BY <1>1, <1>2, ListedIn DEF Due
<1>4. head \in Heads /\ head.type = t
  <2>1. head.type = t
    BY DEF Header
  <2> QED
    BY <1>1, <1>2, <2>1 DEF Heads
<1> HIDE DEF head, t
<1>5. /\ headers' \in Seq(Heads) /\ Len(headers') = n + 1 /\ n \in Nat
      /\ headers'[n + 1] = head
      /\ \A i \in 1 .. n : headers'[i] = headers[i]
  BY <1>1, <1>4
<1>6. /\ DueBefore(pos + 1) = DueBefore(pos) \union {pos}
      /\ Cardinality(DueBefore(pos + 1)) = n + 1
  <2>1. IsFiniteSet(DueBefore(pos)) /\ pos \notin DueBefore(pos)
        /\ DueBefore(pos + 1) = DueBefore(pos) \union {pos}
    BY <1>1, <1>3, DueCount
  <2>2. Cardinality(DueBefore(pos) \union {pos}) = Cardinality(DueBefore(pos)) + 1
    BY <2>1, FS_AddElement
  <2> QED
    BY <2>1, <2>2 DEF ClassInv
<1>7. ASSUME NEW m \in DueBefore(pos + 1)
      PROVE  headers'[Cardinality(DueBefore(m + 1))].type = list[m]
  <2>1. CASE m = pos
    BY <1>4, <1>5, <1>6, <2>1 DEF t
  <2>2. CASE m \in DueBefore(pos)
    <3>1. Cardinality(DueBefore(m + 1)) \in 1 .. n
      BY <1>1, <2>2, DueCount DEF ClassInv
    <3>2. headers[Cardinality(DueBefore(m + 1))].type = list[m]
      BY <2>2 DEF ClassInv
    <3> QED
      BY <1>5, <3>1, <3>2
  <2> QED
    BY <1>6, <2>1, <2>2
<1>8. /\ ClassInputOK' /\ Heads' = Heads
      /\ \A p : DueBefore(p)' = DueBefore(p)
      /\ CountsPanic' = CountsPanic
  BY <1>1, ClassFrame
<1>9. DueBefore(pos)' = DueBefore(pos + 1)
  BY <1>1 DEF DueBefore, InTable, InBody, At, NameIn
<1>10. \A m \in DueBefore(pos)' : headers'[Cardinality(DueBefore(m + 1)')].type = list'[m]
  BY <1>1, <1>7, <1>8, <1>9
<1>11. pos' \in Nat \ {0} /\ pos' <= Len(list') + 1
  BY <1>1, <1>2
<1>12. Len(headers') = Cardinality(DueBefore(pos)')
  BY <1>5, <1>6, <1>9
<1> QED
  BY <1>1, <1>5, <1>8, <1>10, <1>11, <1>12 DEF ClassInv

LEMMA SkipTypeStep ==
  ASSUME ClassInv, SkipType
  PROVE  ClassInv'
<1>1. /\ ClassInputOK /\ cpc = "types" /\ pos \in Nat \ {0} /\ pos <= Len(list)
      /\ ~Listed(list[pos]) /\ headers \in Seq(Heads)
      /\ headers' = headers \o <<>> /\ pos' = pos + 1
      /\ UNCHANGED <<cbody, cimage, cbase, cchecked, list, cpc>>
  BY DEF SkipType, TypeDue, Advance, ClassInv
<1>2. list \in Seq(Nat) /\ Len(list) \in Nat /\ list[pos] \in Nat
  <2>1. list \in Seq(Nat)
    BY <1>1, ClassFacts
  <2> QED
    BY <1>1, <2>1
<1>3. ~Due(pos)
  BY <1>1, <1>2, ListedIn DEF Due
<1>4. headers' = headers
  BY <1>1
<1>5. DueBefore(pos + 1) = DueBefore(pos)
  BY <1>1, <1>3, DueCount
<1>6. /\ ClassInputOK' /\ Heads' = Heads
      /\ \A p : DueBefore(p)' = DueBefore(p)
      /\ CountsPanic' = CountsPanic
  BY <1>1, ClassFrame
<1>7. DueBefore(pos)' = DueBefore(pos)
  BY <1>1, <1>5 DEF DueBefore, InTable, InBody, At, NameIn
<1>8. \A m \in DueBefore(pos)' : headers'[Cardinality(DueBefore(m + 1)')].type = list'[m]
  BY <1>1, <1>4, <1>6, <1>7 DEF ClassInv
<1>9. pos' \in Nat \ {0} /\ pos' <= Len(list') + 1
  BY <1>1, <1>2
<1>10. Len(headers') = Cardinality(DueBefore(pos)')
  BY <1>4, <1>7 DEF ClassInv
<1> QED
  BY <1>1, <1>4, <1>6, <1>8, <1>9, <1>10 DEF ClassInv

LEMMA ClassStops ==
  ASSUME ClassInv, CountTypes \/ ClassPanic \/ ClassDone \/ UNCHANGED classVars
  PROVE  ClassInv'
<1>1. /\ UNCHANGED <<cbody, cimage, cbase, cchecked, list, pos, headers>>
      /\ ClassInputOK
  BY DEF CountTypes, ClassPanic, ClassDone, ClassStop, classVars, ClassInv
<1>2. /\ ClassInputOK' /\ Heads' = Heads
      /\ DueBefore(pos)' = DueBefore(pos)
      /\ \A p : DueBefore(p)' = DueBefore(p)
      /\ CountsPanic' = CountsPanic
  BY <1>1, ClassFrame DEF DueBefore, InTable, InBody, At, NameIn
<1>3. /\ cpc' \in {"counts", "types", "done", "panic"}
      /\ cpc' = "counts" => headers = <<>>
      /\ cpc' \in {"types", "done"} => ~CountsPanic
      /\ cpc' = "panic" => cchecked /\ cbase < 0 /\ headers = <<>>
  <2>1. CASE ClassPanic
    <3>1. cpc' = "panic" /\ Panicking
      BY <2>1 DEF ClassPanic, ClassStop
    <3>2. cpc = "counts" /\ CountsPanic
      <4>1. CASE TypeDue /\ ClassPanics(list[pos])
        <5>1. list \in Seq(Nat) /\ pos \in Nat \ {0} /\ pos <= Len(list) /\ ~CountsPanic
          BY <1>1, <4>1, ClassFacts DEF TypeDue, ClassInv
        <5>2. list[pos] \in Nat
          BY <5>1
        <5> QED
          BY <1>1, <4>1, <5>1, <5>2, WalkIsSafe
      <4> QED
        BY <3>1, <4>1 DEF Panicking
    <3>3. PICK t \in 0 .. TYPE_COUNT - 1 : TypeDefPanics(t)
      BY <3>2 DEF CountsPanic
    <3>4. t \in Nat /\ ClassPanics(t)
      BY <3>3 DEF ClassPanics
    <3>5. cchecked /\ cbase < 0
      BY <1>1, <3>4, PanicOnNegative
    <3> QED
      BY <3>1, <3>2, <3>5 DEF ClassInv
  <2>2. CASE ClassDone
    BY <2>2 DEF ClassDone, ClassStop, ClassInv
  <2>3. CASE UNCHANGED classVars
    BY <2>3 DEF classVars, ClassInv
  <2>4. CASE CountTypes
    BY <2>4 DEF CountTypes, ClassStop, ClassInv
  <2> QED
    BY <2>1, <2>2, <2>3, <2>4
<1>4. \A m \in DueBefore(pos)' : headers'[Cardinality(DueBefore(m + 1)')].type = list'[m]
  BY <1>1, <1>2 DEF ClassInv
<1> QED
  BY <1>1, <1>2, <1>3, <1>4 DEF ClassInv

LEMMA NextClassInv == ClassInv /\ [ClassNext]_classVars => ClassInv'
  BY SkipTypeStep, WriteHeaderStep, ClassStops DEF ClassNext

(***************************************************************************)
(* ClassInv is an invariant of writing the heads of the classes.           *)
(***************************************************************************)
THEOREM ClassInvariant == ClassSpec => []ClassInv
  BY InitClassInv, NextClassInv, PTL DEF ClassSpec

(***************************************************************************)
(* Every type whose record lies in the body is listed, in its place, and   *)
(* no other, whatever td_base, the body and --only are.                    *)
(***************************************************************************)
THEOREM TypesListed == ClassSpec => []TableListed
<1>1. ClassInv => TableListed
  BY DEF ClassInv, TableListed
<1> QED
  BY <1>1, ClassInvariant, PTL

(***************************************************************************)
(* Every head has the kind, the modifier and the base clause that the      *)
(* type's flags and name and the name of its parent call for, whatever     *)
(* index the parent is.                                                    *)
(***************************************************************************)
THEOREM HeadsByParent == ClassSpec => []HeaderByParent
<1>1. ASSUME ClassInv
      PROVE  HeaderByParent
  <2> SUFFICES ASSUME NEW n \in DOMAIN headers
               PROVE  LET h         == headers[n]
                          parent    == NameOfParent(h.type)
                          flags     == cbody[At(h.type) + FLAGS_AT]
                          interface == On(flags, INTERFACE)
                          abstract  == On(flags, ABSTRACT)
                          sealed    == On(flags, SEALED)
                      IN  /\ h.kind = "interface" <=> interface
                          /\ h.kind = "enum" <=> ~interface /\ parent = "Enum"
                          /\ h.kind = "struct" <=>
                               ~interface /\ parent = "ValueType" /\ NameIn(h.type) # "Enum"
                          /\ h.kind \in {"interface", "enum", "struct", "class"}
                          /\ h.base # "" <=>
                               h.kind = "class"
                               /\ parent \notin {"", "Object", "ValueType"} \union Long
                          /\ h.base # "" => h.base = parent
                          /\ h.modifier = "static" <=> h.kind = "class" /\ abstract /\ sealed
                          /\ h.modifier = "sealed" <=>
                               sealed /\ (h.kind = "struct" \/ (h.kind = "class" /\ ~abstract))
                          /\ h.modifier = "abstract" <=> h.kind = "interface" /\ abstract
    BY DEF HeaderByParent
  <2> DEFINE h == headers[n]
             parent == NameOfParent(h.type)
             flags == cbody[At(h.type) + FLAGS_AT]
  <2>1. PICK t \in Nat : Listed(t) /\ h = Header(t)
    <3>1. headers \in Seq(Heads)
      BY <1>1 DEF ClassInv
    <3>2. h \in Heads
      BY <3>1
    <3> QED
      BY <3>2 DEF Heads
  <2>2. h.type = t /\ ClassInputOK
    BY <1>1, <2>1 DEF Header, ClassInv
  <2>3. InTable(t)
    BY <2>1, <2>2, ListedIn
  <2>4. ParentName(t) = parent
    BY <2>2, <2>3, ParentNameOf
  <2>5. Name(t) = NameIn(t) /\ ReadAt(cbody, Record(t) + FLAGS_AT, 1) = flags
    BY <2>2, <2>3, RecordRead
  <2> HIDE DEF parent, flags
  <2>6. /\ h.kind = Kind(flags, NameIn(t), parent)
        /\ h.modifier = Modifier(flags, h.kind)
        /\ h.base = BaseClause(h.kind, parent)
    BY <2>1, <2>4, <2>5 DEF Header
  <2> HIDE DEF h
  <2>7. /\ h.kind = "interface" <=> On(flags, INTERFACE)
        /\ h.kind = "enum" <=> ~On(flags, INTERFACE) /\ parent = "Enum"
        /\ h.kind = "struct" <=>
             ~On(flags, INTERFACE) /\ parent = "ValueType" /\ NameIn(t) # "Enum"
        /\ h.kind \in {"interface", "enum", "struct", "class"}
    BY <2>6 DEF Kind
  <2>8. /\ h.base # "" <=>
             h.kind = "class" /\ parent \notin {"", "Object", "ValueType"} \union Long
        /\ h.base # "" => h.base = parent
    BY <2>6 DEF BaseClause
  <2>9. /\ h.modifier = "static" <=>
             h.kind = "class" /\ On(flags, ABSTRACT) /\ On(flags, SEALED)
        /\ h.modifier = "sealed" <=>
             On(flags, SEALED)
             /\ (h.kind = "struct" \/ (h.kind = "class" /\ ~On(flags, ABSTRACT)))
        /\ h.modifier = "abstract" <=> h.kind = "interface" /\ On(flags, ABSTRACT)
    <3> HIDE DEF On
    <3> DEFINE abstract == On(flags, ABSTRACT)
               sealed == On(flags, SEALED)
               kind == h.kind
    <3>1. h.modifier =
            CASE kind = "class" /\ abstract /\ sealed -> "static"
              [] kind \in {"class", "struct"} /\ sealed /\ ~(kind = "class" /\ abstract) -> "sealed"
              [] kind = "interface" /\ abstract -> "abstract"
              [] OTHER -> ""
      BY <2>6 DEF Modifier
    <3> HIDE DEF abstract, sealed, kind
    <3>2. h.modifier =
            IF kind = "class" /\ abstract /\ sealed THEN "static"
            ELSE IF kind \in {"class", "struct"} /\ sealed /\ ~(kind = "class" /\ abstract)
                   THEN "sealed"
            ELSE IF kind = "interface" /\ abstract THEN "abstract" ELSE ""
      BY <3>1
    <3> QED
      BY <3>2 DEF abstract, sealed, kind
  <2> QED
    BY <2>2, <2>7, <2>8, <2>9 DEF h, parent, flags
<1> QED
  BY <1>1, ClassInvariant, PTL

(***************************************************************************)
(* Every head is of a type of the table; only a class names its parent.    *)
(***************************************************************************)
THEOREM ClassTypeCorrect == ClassSpec => []ClassTypeOK
<1>1. ASSUME ClassInv
      PROVE  ClassTypeOK
  <2>1. ASSUME NEW n \in DOMAIN headers
        PROVE  /\ headers[n].type \in 0 .. TYPE_COUNT - 1
               /\ headers[n].base # "" => headers[n].kind = "class" /\ headers[n].base \notin Long
    <3>1. PICK t \in Nat : Listed(t) /\ headers[n] = Header(t)
      <4>1. headers \in Seq(Heads)
        BY <1>1 DEF ClassInv
      <4>2. headers[n] \in Heads
        BY <4>1
      <4> QED
        BY <4>2 DEF Heads
    <3>2. TYPE_COUNT \in Nat
      BY <1>1, ClassFacts DEF ClassInv
    <3>3. headers[n].type = t /\ t \in 0 .. TYPE_COUNT - 1
      <4>1. t < TYPE_COUNT
        BY <3>1 DEF Listed, Defined
      <4>2. headers[n].type = t
        BY <3>1 DEF Header
      <4> QED
        BY <3>2, <4>1, <4>2
    <3>4. headers[n].base = BaseClause(headers[n].kind, ParentName(t))
      BY <3>1 DEF Header
    <3> QED
      BY <3>3, <3>4 DEF BaseClause
  <2>2. pos \in Nat \ {0} /\ Len(list) \in Nat /\ pos <= Len(list) + 1
    <3>1. list \in Seq(Nat)
      BY <1>1, ClassFacts DEF ClassInv
    <3> QED
      BY <1>1, <3>1 DEF ClassInv
  <2>3. Len(headers) < pos
    <3>1. IsFiniteSet(1 .. pos - 1) /\ Cardinality(1 .. pos - 1) = pos - 1
      <4>1. pos - 1 \in Int /\ 1 \in Int /\ pos - 1 - 1 + 1 = pos - 1
        BY <2>2
      <4>2. Cardinality(1 .. pos - 1) = IF 1 > pos - 1 THEN 0 ELSE pos - 1 - 1 + 1
        BY <4>1, FS_Interval, Zenon
      <4> QED
        BY <2>2, <4>1, <4>2, FS_Interval
    <3>2. DueBefore(pos) \subseteq 1 .. pos - 1
      BY DEF DueBefore
    <3>3. Cardinality(DueBefore(pos)) <= Cardinality(1 .. pos - 1)
      BY <3>1, <3>2, FS_Subset
    <3>4. Cardinality(DueBefore(pos)) \in Nat
      BY <2>2, DueCount
    <3>5. Len(headers) = Cardinality(DueBefore(pos))
      BY <1>1 DEF ClassInv
    <3> QED
      BY <2>2, <3>1, <3>3, <3>4, <3>5
  <2>4. pos \in 1 .. Len(list) + 1
    BY <2>2
  <2> QED
    BY <2>1, <2>3, <2>4, Zenon DEF ClassTypeOK
<1> QED
  BY <1>1, ClassInvariant, PTL

-----------------------------------------------------------------------------
(***************************************************************************)
(* The default values.  The weights of the bytes of a number.              *)
(***************************************************************************)
LEMMA ByteSize == BYTE \in Nat /\ BYTE > 1 /\ MAX_LEN \in Nat /\ FitsUsize(TYPE_LEN)
  BY LiteralAssumption

IsWeight(f) == f = [n \in Nat |-> IF n = 0 THEN 1 ELSE BYTE * f[n - 1]]

LEMMA WeightChosen == Weight = CHOOSE f : IsWeight(f)
  BY DEF Weight, IsWeight

LEMMA WeightIs == IsWeight(Weight)
<1> DEFINE step == [p \in Nat \X Nat |-> BYTE * p[2]]
<1>1. step \in [Nat \X Nat -> Nat]
  BY ByteSize
<1>2. \A l \in Nat, v \in Nat : step[<<l, v>>] = BYTE * v
  OBVIOUS
<1> HIDE DEF step
<1>3. PICK f : IsIteration(f, Nat, 1, step)
  BY <1>1, IterationExists
<1>4. f \in [Nat -> Nat] /\ f[0] = 1 /\ \A l \in Nat : f[l + 1] = step[<<l, f[l]>>]
  BY <1>3 DEF IsIteration
<1>5. ASSUME NEW n \in Nat
      PROVE  f[n] = IF n = 0 THEN 1 ELSE BYTE * f[n - 1]
  <2>1. CASE n # 0
    <3>1. n - 1 \in Nat /\ n - 1 + 1 = n
      BY <2>1
    <3>2. f[n] = step[<<n - 1, f[n - 1]>>] /\ f[n - 1] \in Nat
      BY <1>4, <3>1
    <3> QED
      BY <1>2, <2>1, <3>1, <3>2
  <2> QED
    BY <1>4, <2>1
<1>6. IsWeight(f)
  BY <1>4, <1>5 DEF IsWeight
<1> QED
  BY <1>6, WeightChosen

LEMMA WeightSteps ==
  /\ Weight[0] = 1
  /\ \A n \in Nat : Weight[n + 1] = BYTE * Weight[n]
<1>1. \A n \in Nat : Weight[n] = IF n = 0 THEN 1 ELSE BYTE * Weight[n - 1]
  BY WeightIs DEF IsWeight
<1>2. ASSUME NEW n \in Nat
      PROVE  Weight[n + 1] = BYTE * Weight[n]
  <2>1. n + 1 \in Nat /\ n + 1 # 0 /\ n + 1 - 1 = n
    OBVIOUS
  <2> QED
    BY <1>1, <2>1
<1> QED
  BY <1>1, <1>2

ByteAt(o) == ReadAt(in.body, o, 1)

IsSum(off, f) ==
  f = [i \in Nat |-> IF i = 0 THEN 0 ELSE f[i - 1] + Weight[i - 1] * ByteAt(off + i - 1)]

LEMMA NumberChosen ==
  ASSUME NEW off, NEW n
  PROVE  Number(off, n) = (CHOOSE f : IsSum(off, f))[n]
BY DEF Number, IsSum, ByteAt

LEMMA WeightPositive == \A n \in Nat : Weight[n] \in Nat \ {0}
<1> DEFINE T == {n \in Nat : Weight[n] \in Nat \ {0}}
<1>1. 0 \in T
  BY WeightSteps
<1>2. ASSUME NEW n \in Nat, n \in T
      PROVE  n + 1 \in T
  BY <1>2, WeightSteps, ByteSize
<1>3. Nat \subseteq T
  BY <1>1, <1>2, SetInduction
<1> QED
  BY <1>3

\* A byte of a number weighs a multiple of every lower one.
LEMMA WeightMultiple ==
  ASSUME NEW i \in Nat, NEW n \in Nat, i <= n
  PROVE  \E c \in Nat : Weight[n] = Weight[i] * c
<1> DEFINE T == {m \in Nat : \E c \in Nat : Weight[i + m] = Weight[i] * c}
<1>1. Weight[i] \in Nat /\ \A m \in Nat : Weight[i + m] \in Nat
  BY WeightPositive
<1>2. 0 \in T
  <2>1. Weight[i + 0] = Weight[i] * 1
    BY <1>1
  <2> QED
    BY <2>1
<1>3. ASSUME NEW m \in Nat, m \in T
      PROVE  m + 1 \in T
  <2>1. PICK c \in Nat : Weight[i + m] = Weight[i] * c
    BY <1>3
  <2>2. Weight[i + (m + 1)] = BYTE * Weight[i + m]
    <3>1. i + m \in Nat /\ i + (m + 1) = i + m + 1
      OBVIOUS
    <3> QED
      BY <3>1, WeightSteps
  <2> DEFINE w == Weight[i]
  <2>3. w \in Nat
    BY <1>1
  <2> HIDE DEF w
  <2>4. BYTE * (w * c) = w * (BYTE * c) /\ BYTE * c \in Nat
    BY <2>3, ByteSize
  <2> QED
    BY <2>1, <2>2, <2>4 DEF w
<1>4. n - i \in Nat /\ i + (n - i) = n
  OBVIOUS
<1>5. n - i \in T
  BY <1>2, <1>3, <1>4, SetInduction
<1> QED
  BY <1>4, <1>5

-----------------------------------------------------------------------------
LEMMA ConstantFacts ==
  ASSUME in \in Constants
  PROVE  /\ IsBuffer(in.image) /\ IsBuffer(in.body)
         /\ \A o \in DOMAIN in.body : in.body[o] \in 0 .. BYTE - 1
         /\ in.typearr \in Nat /\ 2 * in.typearr + 2 <= USIZE
         /\ in.blobBase \in Word32
         /\ in.ti \in Int /\ 2 * in.ti \in SignedBase
         /\ in.di \in Int /\ 2 * in.di \in SignedBase
<1>1. IsConstant(in)
  BY LiteralAssumption
<1>2. \A x \in {AsI32(n) : n \in Word32} : x \in Int /\ 2 * x \in SignedBase
  BY SignedOf
<1>3. in.typearr \in 0 .. LONGEST
  BY <1>1 DEF IsConstant
<1> QED
  BY <1>1, <1>2, <1>3, Widths DEF IsConstant

LEMMA ByteRange ==
  ASSUME in \in Constants, NEW o \in Nat
  PROVE  /\ ByteAt(o) \in Nat /\ ByteAt(o) < BYTE
         /\ o < SizeOf(in.body) => ByteAt(o) = in.body[o]
<1>1. /\ SizeOf(in.body) \in Nat /\ DOMAIN in.body = 0 .. SizeOf(in.body) - 1
      /\ \A p \in DOMAIN in.body : in.body[p] \in 0 .. BYTE - 1
  BY ConstantFacts, BufferSize
<1> QED
  BY <1>1, ByteSize DEF ByteAt, ReadAt, Readable

\* A number grows with its bytes.
LEMMA NumberIs ==
  ASSUME in \in Constants, NEW off \in Nat
  PROVE  IsSum(off, CHOOSE f : IsSum(off, f))
<1> DEFINE step == [p \in Nat \X Nat |-> p[2] + Weight[p[1]] * ByteAt(off + p[1])]
<1>1. step \in [Nat \X Nat -> Nat]
  <2>1. ASSUME NEW m \in Nat, NEW v \in Nat
        PROVE  v + Weight[m] * ByteAt(off + m) \in Nat
    <3>1. Weight[m] \in Nat /\ ByteAt(off + m) \in Nat
      BY WeightPositive, ByteRange
    <3> QED
      BY <3>1
  <2> QED
    BY <2>1
<1>2. \A l \in Nat, v \in Nat : step[<<l, v>>] = v + Weight[l] * ByteAt(off + l)
  OBVIOUS
<1> HIDE DEF step
<1>3. PICK f : IsIteration(f, Nat, 0, step)
  BY <1>1, IterationExists
<1>4. f \in [Nat -> Nat] /\ f[0] = 0 /\ \A l \in Nat : f[l + 1] = step[<<l, f[l]>>]
  BY <1>3 DEF IsIteration
<1>5. ASSUME NEW i \in Nat
      PROVE  f[i] = IF i = 0 THEN 0 ELSE f[i - 1] + Weight[i - 1] * ByteAt(off + i - 1)
  <2>1. CASE i # 0
    <3>1. i - 1 \in Nat /\ i - 1 + 1 = i /\ off + (i - 1) = off + i - 1
      BY <2>1
    <3>2. f[i] = step[<<i - 1, f[i - 1]>>] /\ f[i - 1] \in Nat
      BY <1>4, <3>1
    <3>3. step[<<i - 1, f[i - 1]>>] = f[i - 1] + Weight[i - 1] * ByteAt(off + (i - 1))
      BY <1>2, <3>1, <3>2
    <3> QED
      BY <2>1, <3>1, <3>2, <3>3
  <2> QED
    BY <1>4, <2>1
<1>6. IsSum(off, f)
  BY <1>4, <1>5 DEF IsSum
<1> QED
  BY <1>6

LEMMA NumberSteps ==
  ASSUME in \in Constants, NEW off \in Nat
  PROVE  /\ Number(off, 0) = 0
         /\ \A n \in Nat : Number(off, n + 1) = Number(off, n) + Weight[n] * ByteAt(off + n)
<1> DEFINE f == CHOOSE g : IsSum(off, g)
<1>1. \A i \in Nat : Number(off, i) = f[i]
  BY NumberChosen
<1>2. IsSum(off, f)
  BY NumberIs
<1> HIDE DEF f
<1>3. \A i \in Nat : f[i] = IF i = 0 THEN 0 ELSE f[i - 1] + Weight[i - 1] * ByteAt(off + i - 1)
  BY <1>2 DEF IsSum
<1>4. ASSUME NEW n \in Nat
      PROVE  f[n + 1] = f[n] + Weight[n] * ByteAt(off + n)
  <2>1. n + 1 \in Nat /\ n + 1 # 0 /\ n + 1 - 1 = n /\ off + (n + 1) - 1 = off + n
    OBVIOUS
  <2> QED
    BY <1>3, <2>1
<1> QED
  BY <1>1, <1>3, <1>4


LEMMA NumberRange ==
  ASSUME in \in Constants, NEW off \in Nat
  PROVE  \A n \in Nat : Number(off, n) \in Nat /\ Number(off, n) < Weight[n]
<1> DEFINE T == {n \in Nat : Number(off, n) \in Nat /\ Number(off, n) < Weight[n]}
<1>1. 0 \in T
  <2>1. Number(off, 0) = 0
    BY NumberSteps
  <2>2. Weight[0] = 1
    BY WeightSteps
  <2> QED
    BY <2>1, <2>2
<1>2. ASSUME NEW n \in Nat, n \in T
      PROVE  n + 1 \in T
  <2> DEFINE w == Weight[n]
             b == ByteAt(off + n)
             v == Number(off, n)
  <2>1. w \in Nat /\ b \in Nat /\ b < BYTE /\ v \in Nat /\ v < w
    BY <1>2, WeightPositive, ByteRange
  <2>2. Weight[n + 1] = BYTE * w /\ Number(off, n + 1) = v + w * b
    BY WeightSteps, NumberSteps
  <2> HIDE DEF w, b, v
  <2>3. w * b <= w * (BYTE - 1)
    BY <2>1, ByteSize
  <2>4. w * (BYTE - 1) = BYTE * w - w
    BY <2>1, ByteSize
  <2>5. w * b \in Nat /\ BYTE * w \in Nat
    BY <2>1, ByteSize
  <2> QED
    BY <2>1, <2>2, <2>3, <2>4, <2>5
<1>3. Nat \subseteq T
  BY <1>1, <1>2, SetInduction
<1> QED
  BY <1>3

(***************************************************************************)
(* A number gives its bytes back: the i-th is what is left of it, divided  *)
(* by the weight of that byte.                                             *)
(***************************************************************************)
ByteOf(v, i) == (v \div Weight[i]) % BYTE

\* The last byte, above all the others.
LEMMA HighestByte ==
  ASSUME NEW n \in Nat, NEW v \in Nat, v < Weight[n], NEW b \in Nat, b < BYTE
  PROVE  ByteOf(v + Weight[n] * b, n) = b
<1> DEFINE w == Weight[n]
<1>1. w \in Nat \ {0}
  BY WeightPositive
<1>2. v < w
  OBVIOUS
<1> HIDE DEF w
<1>3. v + w * b = b * w + v /\ v \in 0 .. w - 1 /\ v + w * b \in Int
  BY <1>1, <1>2
<1>4. (v + w * b) \div w = b
  <2> DEFINE x == v + w * b
  <2>1. x = b * w + v /\ x \in Int
    BY <1>3
  <2> HIDE DEF x
  <2>2. w \in Nat \ {0} /\ b \in Int /\ v \in 0 .. w - 1
    BY <1>1, <1>2
  <2>3. x \div w = b
    BY <2>1, <2>2, QuotientUnique, Zenon
  <2> QED
    BY <2>3 DEF x
<1>5. b % BYTE = b
  BY ByteSize
<1> QED
  BY <1>4, <1>5 DEF ByteOf, w

\* A byte further up does not change the ones below.
LEMMA LowerByte ==
  ASSUME NEW n \in Nat, NEW i \in Nat, i < n, NEW v \in Nat, NEW b \in Nat
  PROVE  ByteOf(v + Weight[n] * b, i) = ByteOf(v, i)
<1>1. PICK c \in Nat : Weight[n] = Weight[i + 1] * c
  BY WeightMultiple
<1> DEFINE w == Weight[i]
           q == v \div w
           r == v % w
           m == c * b
<1>2. w \in Nat \ {0} /\ Weight[i + 1] = BYTE * w
  BY WeightPositive, WeightSteps
<1>3. m \in Nat
  OBVIOUS
<1> HIDE DEF w, m
<1>4. q \in Int /\ r \in 0 .. w - 1 /\ v = q * w + r
  BY <1>2
<1> HIDE DEF q, r
<1>5. Weight[n] * b = (BYTE * m) * w
  BY <1>1, <1>2, ByteSize DEF m
<1>6. v + Weight[n] * b = (q + BYTE * m) * w + r
  <2>1. (q + BYTE * m) * w = q * w + (BYTE * m) * w
    BY <1>2, <1>3, <1>4, ByteSize
  <2> QED
    BY <1>2, <1>3, <1>4, <1>5, <2>1, ByteSize
<1>7. q + BYTE * m \in Int /\ v + Weight[n] * b \in Int
  <2>1. BYTE * m \in Int /\ (BYTE * m) * w \in Int
    BY <1>2, <1>3, ByteSize
  <2> QED
    BY <1>4, <1>5, <2>1
<1>8. (v + Weight[n] * b) \div w = q + BYTE * m
  <2> DEFINE x == v + Weight[n] * b
             y == q + BYTE * m
  <2>1. x = y * w + r /\ x \in Int /\ y \in Int
    BY <1>6, <1>7
  <2> HIDE DEF x, y
  <2>2. x \div w = y
    BY <1>2, <1>4, <2>1, QuotientUnique
  <2> QED
    BY <2>2 DEF x, y
<1>9. (q + m * BYTE) % BYTE = q % BYTE
  <2>1. BYTE \in Nat \ {0} /\ q \in Int /\ m \in Int
    BY <1>3, <1>4, ByteSize
  <2> QED
    BY <2>1, ResidueShift, Zenon
<1>10. BYTE * m = m * BYTE
  BY <1>3, ByteSize
<1> QED
  BY <1>8, <1>9, <1>10 DEF ByteOf, w, q

LEMMA NumberBytes ==
  ASSUME in \in Constants, NEW off \in Nat
  PROVE  \A n \in Nat : \A i \in 0 .. n - 1 : ByteOf(Number(off, n), i) = ByteAt(off + i)
<1> DEFINE T == {n \in Nat : \A i \in 0 .. n - 1 : ByteOf(Number(off, n), i) = ByteAt(off + i)}
<1>1. 0 \in T
  OBVIOUS
<1>2. ASSUME NEW n \in Nat, n \in T
      PROVE  n + 1 \in T
  <2> SUFFICES ASSUME NEW i \in 0 .. n + 1 - 1
               PROVE  ByteOf(Number(off, n + 1), i) = ByteAt(off + i)
    OBVIOUS
  <2>1. /\ Number(off, n) \in Nat /\ Number(off, n) < Weight[n]
        /\ ByteAt(off + n) \in Nat /\ ByteAt(off + n) < BYTE
        /\ Number(off, n + 1) = Number(off, n) + Weight[n] * ByteAt(off + n)
    <3>1. Number(off, n) \in Nat /\ Number(off, n) < Weight[n]
      BY NumberRange
    <3>2. ByteAt(off + n) \in Nat /\ ByteAt(off + n) < BYTE
      BY ByteRange
    <3>3. Number(off, n + 1) = Number(off, n) + Weight[n] * ByteAt(off + n)
      BY NumberSteps
    <3> QED
      BY <3>1, <3>2, <3>3
  <2>2. CASE i = n
    BY <2>1, <2>2, HighestByte
  <2>3. CASE i # n
    <3>1. i \in Nat /\ i < n /\ i \in 0 .. n - 1
      BY <2>3
    <3>2. ByteOf(Number(off, n), i) = ByteAt(off + i)
      BY <1>2, <3>1
    <3> QED
      BY <2>1, <3>1, <3>2, LowerByte
  <2> QED
    BY <2>2, <2>3
<1>3. Nat \subseteq T
  BY <1>1, <1>2, SetInduction
<1> QED
  BY <1>3

\* The number at off, encoded, is what the body holds there.
LEMMA NumberEncodes ==
  ASSUME in \in Constants, NEW off \in Nat, NEW n \in Nat, off + n <= SizeOf(in.body)
  PROVE  /\ Encoding(Number(off, n), n) \in Seq(Int)
         /\ Len(Encoding(Number(off, n), n)) = n
         /\ \A i \in 1 .. n : Encoding(Number(off, n), n)[i] = in.body[off + i - 1]
<1> DEFINE v == Number(off, n)
<1>1. ASSUME NEW i \in 1 .. n
      PROVE  /\ (v \div Weight[i - 1]) % BYTE = in.body[off + i - 1]
             /\ (v \div Weight[i - 1]) % BYTE \in Int
  <2>1. i - 1 \in 0 .. n - 1 /\ off + (i - 1) \in Nat /\ off + (i - 1) = off + i - 1
    OBVIOUS
  <2>2. SizeOf(in.body) \in Nat
    BY ConstantFacts, BufferSize
  <2>3. off + (i - 1) < SizeOf(in.body)
    BY <2>1, <2>2
  <2>4. ByteOf(v, i - 1) = ByteAt(off + (i - 1))
    BY <2>1, NumberBytes
  <2>5. ByteAt(off + (i - 1)) = in.body[off + (i - 1)] /\ ByteAt(off + (i - 1)) \in Nat
    BY <2>1, <2>3, ByteRange
  <2> QED
    BY <2>1, <2>4, <2>5 DEF ByteOf
<1> HIDE DEF v
<1>2. Encoding(v, n) = [i \in 1 .. n |-> (v \div Weight[i - 1]) % BYTE]
  BY DEF Encoding
<1>3. Encoding(v, n) \in [1 .. n -> Int]
  BY <1>1, <1>2
<1>4. Encoding(v, n) \in Seq(Int) /\ Len(Encoding(v, n)) = n
  BY <1>3
<1> QED
  BY <1>1, <1>2, <1>4 DEF v


-----------------------------------------------------------------------------
(***************************************************************************)
(* The addresses of dv_literal are the whole numbers they stand for.       *)
(***************************************************************************)
BlobAt == in.blobBase + in.di
RecordAt == in.typearr + TYPE_LEN * in.ti

LEMMA LiteralAddresses ==
  ASSUME in \in Constants, in.ti >= 0, in.di >= 0
  PROVE  /\ ValueAt = BlobAt /\ BlobAt \in Nat
         /\ TypeRecord = RecordAt /\ RecordAt \in Nat
<1> DEFINE t == in.ti
           e == in.di
           a == in.typearr
           b == in.blobBase
<1>1. /\ t \in Nat /\ 2 * t < U32_RANGE /\ 2 * t \in Word32
      /\ e \in Nat /\ 2 * e < U32_RANGE /\ e \in Word32
      /\ a \in Nat /\ 2 * a + 2 <= USIZE
      /\ b \in Word32
  BY ConstantFacts, Widths DEF SignedBase, Word32
<1>2. AsUsize(t) = t /\ AsUsize(e) = e
  <2>1. t \in Whole /\ e \in Whole
    BY <1>1, Widths DEF Whole
  <2> QED
    BY <1>1, <2>1, CastOfWhole
<1>3. Entry(b, 1, e) = b + 1 * e /\ b + e \in Nat
  <2>1. FitsUsize(1) /\ 1 \in Nat
    BY Widths DEF FitsUsize
  <2>2. b \in SignedBase /\ AsUsize(b) = b /\ b \in Nat
    BY <1>1, PlainBase
  <2>3. b + 1 * e \in Whole /\ Entry(AsUsize(b), 1, e) = AsUsize(b + 1 * e)
    BY <1>1, <2>1, <2>2, TableAddress
  <2>4. b + 1 * e >= 0
    BY <1>1, <2>2
  <2> QED
    BY <1>1, <2>2, <2>3, <2>4, CastOfWhole
<1>4. Entry(a, TYPE_LEN, t) = a + TYPE_LEN * t /\ a + TYPE_LEN * t \in Nat
  <2>1. TYPE_LEN * (2 * t) + 3 * U32_RANGE <= USIZE
    BY <1>1, StrideFits, ByteSize, Widths
  <2> DEFINE m == TYPE_LEN * t
  <2>2. m \in Nat /\ TYPE_LEN * (2 * t) = 2 * m
    BY <1>1, Widths
  <2> HIDE DEF m
  <2>3. a + m \in Nat /\ a + m < USIZE
    BY <1>1, <2>1, <2>2, Widths
  <2>4. (a + m) % USIZE = a + m
    BY <2>3, Widths
  <2> QED
    BY <2>3, <2>4 DEF Entry, m
<1> QED
  BY <1>1, <1>2, <1>3, <1>4 DEF ValueAt, TypeRecord, BlobAt, RecordAt

\* What it takes for dv_literal to return a literal.
Gives ==
  /\ HasType
  /\ IF ValueKind = STR THEN Rd(WORD) /\ StringFits
     ELSE ValueKind \in Fixed /\ Rd(Width(ValueKind))

LEMMA WidthIs == \A kind : Width(kind) \in Nat \ {0}
  BY DEF Width

LEMMA GivesDefault ==
  ASSUME in \in Constants
  PROVE  Gives <=> HasDefault
<1>1. /\ SizeOf(in.body) \in Nat /\ SizeOf(in.image) \in Nat
      /\ TYPE_LEN \in Nat /\ WORD \in Nat /\ in.ti \in Int /\ in.typearr \in Nat
  BY ConstantFacts, BufferSize, Widths
<1>2. CASE ~(in.ti >= 0 /\ in.di >= 0)
  BY <1>2 DEF Gives, HasDefault, HasType
<1>3. CASE in.ti >= 0 /\ in.di >= 0
  <2>1. /\ ValueAt = BlobAt /\ BlobAt \in Nat
        /\ TypeRecord = RecordAt /\ RecordAt \in Nat
    BY <1>3, LiteralAddresses
  <2> DEFINE text == Number(BlobAt, WORD)
             size == SizeOf(in.body)
             kind == ValueKind
  <2>2. text \in Nat
    BY <1>1, <2>1, NumberRange
  <2>3. HasType <=> in.typearr + TYPE_LEN * (in.ti + 1) <= SizeOf(in.image)
    <3>1. RecordAt + TYPE_LEN = in.typearr + TYPE_LEN * (in.ti + 1)
      BY <1>1 DEF RecordAt
    <3> QED
      BY <1>3, <2>1, <3>1 DEF HasType, Readable
  <2>4. kind = in.image[in.typearr + TYPE_LEN * in.ti + KIND_AT]
    BY <2>1 DEF ValueKind, RecordAt
  <2>5. \A n \in Nat : Rd(n) <=> size - BlobAt >= n
    BY <1>1, <2>1 DEF Rd, Readable
  <2>6. StringFits <=> text <= MAX_LEN /\ size - BlobAt >= WORD + text
    BY <1>1, <2>1, <2>2 DEF StringFits, Readable
  <2>7. HasDefault <=>
          /\ in.typearr + TYPE_LEN * (in.ti + 1) <= SizeOf(in.image)
          /\ IF kind = STR
               THEN size - BlobAt >= WORD /\ text <= MAX_LEN /\ size - BlobAt >= WORD + text
               ELSE kind \in Fixed /\ size - BlobAt >= Width(kind)
    BY <1>3, <2>4 DEF HasDefault, BlobAt
  <2>8. Rd(WORD) <=> size - BlobAt >= WORD
    BY <1>1, <2>5
  <2>9. Rd(Width(kind)) <=> size - BlobAt >= Width(kind)
    BY <2>5, WidthIs
  <2> HIDE DEF text, size, kind
  <2> QED
    BY <2>3, <2>6, <2>7, <2>8, <2>9 DEF Gives, kind
<1> QED
  BY <1>2, <1>3

-----------------------------------------------------------------------------
(***************************************************************************)
(* The inductive invariant: the bytes of a string are copied in their      *)
(* order, and there is a literal exactly if nothing it takes is missing.   *)
(***************************************************************************)
TextSoFar ==
  /\ len = Number(ValueAt, WORD)
  /\ literal = [kind |-> STR, value |-> literal.value]
  /\ literal.value \in Seq(Int) /\ Len(literal.value) <= len
  /\ \A m \in 1 .. Len(literal.value) : literal.value[m] = in.body[ValueAt + WORD + m - 1]

Decoded ==
  IF ValueKind = STR THEN TextSoFar /\ Len(literal.value) = len
  ELSE literal = [kind |-> ValueKind, value |-> Value(ValueKind)]

LiteralInv ==
  /\ in \in Constants
  /\ vpc \in {"type", "value", "bytes", "some", "none"}
  /\ vpc = "value" => HasType
  /\ vpc = "bytes" => Gives /\ ValueKind = STR /\ TextSoFar
  /\ vpc = "some" => Gives /\ Decoded
  /\ vpc = "none" => ~Gives

LEMMA SameConstant ==
  ASSUME in' = in
  PROVE  /\ ValueAt' = ValueAt /\ ValueKind' = ValueKind
         /\ Number(ValueAt, WORD)' = Number(ValueAt, WORD)
         /\ Value(ValueKind)' = Value(ValueKind)
         /\ HasType' = HasType /\ Gives' = Gives
<1>1. ValueAt' = ValueAt /\ TypeRecord' = TypeRecord
  BY DEF ValueAt, TypeRecord
<1>2. ValueKind' = ValueKind /\ HasType' = HasType
  BY <1>1 DEF ValueKind, HasType
<1>3. \A o, n : Number(o, n)' = Number(o, n)
  BY DEF Number
<1>4. \A n : Rd(n)' = Rd(n)
  BY <1>1 DEF Rd
<1>5. Number(ValueAt, WORD)' = Number(ValueAt, WORD)
  BY <1>1, <1>3
<1>6. Value(ValueKind)' = Value(ValueKind)
  BY <1>1, <1>2, <1>3 DEF Value
<1>7. StringFits' = StringFits
  BY <1>1, <1>3 DEF StringFits
<1> QED
  BY <1>1, <1>2, <1>4, <1>5, <1>6, <1>7 DEF Gives


LEMMA ReadLengthStep ==
  ASSUME LiteralInv, ReadLength
  PROVE  LiteralInv'
<1>1. /\ vpc = "value" /\ ValueKind = STR /\ Rd(WORD) /\ StringFits
      /\ len' = Number(ValueAt, WORD) /\ literal' = [kind |-> STR, value |-> <<>>]
      /\ vpc' = "bytes" /\ in' = in
  BY DEF ReadLength
<1>2. in \in Constants /\ HasType /\ Gives
  BY <1>1 DEF LiteralInv, Gives
<1>3. TextSoFar'
  <2>1. literal'.value = <<>> /\ literal' = [kind |-> STR, value |-> literal'.value]
    BY <1>1
  <2>2. <<>> \in Seq(Int) /\ Len(<<>>) = 0
    OBVIOUS
  <2>3. len' = Number(ValueAt, WORD)'
    BY <1>1, SameConstant
  <2>4. ValueAt \in Nat /\ Number(ValueAt, WORD) \in Nat
    <3>1. ValueAt \in Nat
      BY <1>2, LiteralAddresses DEF HasType
    <3> QED
      BY <1>2, <3>1, NumberRange, Widths
  <2>5. Len(literal'.value) = 0 /\ 0 <= len'
    BY <1>1, <2>1, <2>2, <2>4
  <2>6. \A m \in 1 .. Len(literal'.value) :
          literal'.value[m] = in'.body[ValueAt' + WORD + m - 1]
    BY <2>5
  <2> QED
    BY <2>1, <2>2, <2>3, <2>5, <2>6 DEF TextSoFar
<1> QED
  BY <1>1, <1>2, <1>3, SameConstant DEF LiteralInv

LEMMA ReadByteStep ==
  ASSUME LiteralInv, ReadByte
  PROVE  LiteralInv'
<1> DEFINE s == literal.value
           b == in.body[ValueAt + WORD + Len(s)]
<1>1. /\ vpc = "bytes" /\ Len(s) < len
      /\ literal' = [literal EXCEPT !.value = Append(s, b)]
      /\ in' = in /\ len' = len /\ vpc' = vpc
  BY DEF ReadByte
<1>2. in \in Constants /\ Gives /\ ValueKind = STR /\ TextSoFar
  BY <1>1 DEF LiteralInv
<1>3. /\ len = Number(ValueAt, WORD) /\ literal = [kind |-> STR, value |-> s]
      /\ s \in Seq(Int) /\ Len(s) <= len
      /\ \A m \in 1 .. Len(s) : s[m] = in.body[ValueAt + WORD + m - 1]
  BY <1>2 DEF TextSoFar
<1>4. ValueAt \in Nat /\ len \in Nat /\ WORD \in Nat
  <2>1. ValueAt \in Nat
    BY <1>2, LiteralAddresses DEF Gives, HasType
  <2> QED
    BY <1>2, <1>3, <2>1, NumberRange, Widths
<1>5. b \in Int
  <2>1. SizeOf(in.body) \in Nat /\ DOMAIN in.body = 0 .. SizeOf(in.body) - 1
    BY <1>2, ConstantFacts, BufferSize
  <2>2. ValueAt + WORD + len <= SizeOf(in.body)
    BY <1>2, <1>3 DEF Gives, StringFits, Readable
  <2>3. Len(s) \in Nat
    BY <1>3
  <2>4. ValueAt + WORD + Len(s) \in DOMAIN in.body
    BY <1>1, <1>4, <2>1, <2>2, <2>3
  <2> QED
    BY <1>2, <2>4, ConstantFacts, ByteSize
<1>6. literal' = [kind |-> STR, value |-> Append(s, b)]
  <2> DEFINE t == Append(s, b)
  <2>1. literal' = [literal EXCEPT !.value = t] /\ DOMAIN literal = {"kind", "value"}
        /\ literal.kind = STR
    BY <1>1, <1>3
  <2> HIDE DEF t
  <2>2. literal' = [kind |-> STR, value |-> t]
    BY <2>1
  <2> QED
    BY <2>2 DEF t
<1> HIDE DEF s
<1>7. /\ Append(s, b) \in Seq(Int) /\ Len(Append(s, b)) = Len(s) + 1 /\ Len(s) \in Nat
      /\ \A m \in DOMAIN Append(s, b) :
              \/ m \in DOMAIN s /\ m < Len(s) + 1 /\ Append(s, b)[m] = s[m]
              \/ m = Len(s) + 1 /\ Append(s, b)[m] = b
  BY <1>3, <1>5, RangeOfAppend
<1>8. \A m \in 1 .. Len(s) + 1 : Append(s, b)[m] = in.body[ValueAt + WORD + m - 1]
  <2> SUFFICES ASSUME NEW m \in 1 .. Len(s) + 1
               PROVE  Append(s, b)[m] = in.body[ValueAt + WORD + m - 1]
    OBVIOUS
  <2>1. DOMAIN Append(s, b) = 1 .. Len(s) + 1 /\ DOMAIN s = 1 .. Len(s)
    BY <1>3, <1>7
  <2>2. CASE m \in DOMAIN s /\ Append(s, b)[m] = s[m]
    BY <1>3, <2>1, <2>2
  <2>3. CASE m = Len(s) + 1 /\ Append(s, b)[m] = b
    <3>1. ValueAt + WORD + m - 1 = ValueAt + WORD + Len(s)
      BY <1>4, <1>7, <2>3
    <3> QED
      BY <2>3, <3>1
  <2> QED
    BY <1>7, <2>1, <2>2, <2>3
<1>9. TextSoFar'
  <2>1. literal'.value = Append(s, b) /\ literal' = [kind |-> STR, value |-> literal'.value]
    BY <1>6
  <2>2. len' = Number(ValueAt, WORD)'
    BY <1>1, <1>3, SameConstant
  <2>3. Len(literal'.value) <= len'
    <3>1. Len(s) < len
      BY <1>1 DEF s
    <3> QED
      BY <1>1, <1>4, <1>7, <2>1, <3>1
  <2>4. \A m \in 1 .. Len(literal'.value) :
          literal'.value[m] = in'.body[ValueAt' + WORD + m - 1]
    BY <1>1, <1>7, <1>8, <2>1, SameConstant
  <2> QED
    BY <1>7, <2>1, <2>2, <2>3, <2>4 DEF TextSoFar
<1> QED
  BY <1>1, <1>2, <1>9, SameConstant DEF LiteralInv

LEMMA InitLiteralInv == LiteralInit => LiteralInv
  BY DEF LiteralInit, LiteralInv

LEMMA NextLiteralInv == LiteralInv /\ [LiteralNext]_literalVars => LiteralInv'
<1> SUFFICES ASSUME LiteralInv, [LiteralNext]_literalVars
             PROVE  LiteralInv'
  OBVIOUS
<1>1. CASE ReadType
  <2>1. vpc = "type" /\ vpc' = (IF HasType THEN "value" ELSE "none") /\ in' = in
    BY <1>1 DEF ReadType
  <2>2. ~HasType => ~Gives
    BY DEF Gives
  <2> QED
    BY <2>1, <2>2, SameConstant DEF LiteralInv
<1>2. CASE ReadNumber
  <2>1. /\ vpc = "value" /\ ValueKind \in Fixed /\ Rd(Width(ValueKind)) /\ vpc' = "some"
        /\ literal' = [kind |-> ValueKind, value |-> Value(ValueKind)] /\ in' = in
    BY <1>2 DEF ReadNumber
  <2>2. ValueKind # STR
    BY <2>1 DEF Fixed, Bytes1, Bytes2, Bytes4, Bytes8, STR
  <2>3. Gives
    BY <2>1, <2>2 DEF LiteralInv, Gives
  <2>4. Decoded'
    BY <2>1, <2>2, SameConstant DEF Decoded
  <2> QED
    BY <2>1, <2>3, <2>4, SameConstant DEF LiteralInv
<1>3. CASE ReadLength
  BY <1>3, ReadLengthStep
<1>4. CASE ReadByte
  BY <1>4, ReadByteStep
<1>5. CASE FinishString
  <2>1. /\ vpc = "bytes" /\ Len(literal.value) = len /\ vpc' = "some"
        /\ in' = in /\ literal' = literal /\ len' = len
    BY <1>5 DEF FinishString
  <2>2. Gives /\ ValueKind = STR /\ TextSoFar
    BY <2>1 DEF LiteralInv
  <2>3. TextSoFar'
    BY <2>1, <2>2, SameConstant DEF TextSoFar
  <2>4. Decoded'
    BY <2>1, <2>2, <2>3, SameConstant DEF Decoded
  <2> QED
    BY <2>1, <2>2, <2>4, SameConstant DEF LiteralInv
<1>6. CASE GiveUp
  <2>1. vpc' = "none" /\ in' = in
    BY <1>6 DEF GiveUp
  <2>2. ~Gives
    BY <1>6 DEF GiveUp, Gives
  <2> QED
    BY <2>1, <2>2, SameConstant DEF LiteralInv
<1>7. CASE UNCHANGED literalVars
  <2>1. in' = in /\ literal' = literal /\ len' = len /\ vpc' = vpc
    BY <1>7 DEF literalVars
  <2>2. TextSoFar' = TextSoFar /\ Decoded' = Decoded
    BY <2>1, SameConstant DEF TextSoFar, Decoded
  <2> QED
    BY <2>1, <2>2, SameConstant DEF LiteralInv
<1> QED
  BY <1>1, <1>2, <1>3, <1>4, <1>5, <1>6, <1>7 DEF LiteralNext

(***************************************************************************)
(* LiteralInv is an invariant of dv_literal.                               *)
(***************************************************************************)
THEOREM LiteralInvariant == LiteralSpec => []LiteralInv
  BY InitLiteralInv, NextLiteralInv, PTL DEF LiteralSpec

(***************************************************************************)
(* A constant has a literal exactly if it has a default all of whose bytes *)
(* are in the body, whatever the indices of the default table say.         *)
(***************************************************************************)
THEOREM LiteralIfDefault == LiteralSpec => []NoneIfAbsent
<1>1. LiteralInv => NoneIfAbsent
  BY GivesDefault DEF LiteralInv, NoneIfAbsent
<1> QED
  BY <1>1, LiteralInvariant, PTL

\* A number of the body, as the literal of its kind, encodes back.
LEMMA SignedEncodes ==
  ASSUME NEW w \in Nat \ {0}, NEW v \in Nat, v < w, NEW x \in {v, v - w}
  PROVE  x % w = v
<1>1. v % w = v
  OBVIOUS
<1>2. (v + (-1) * w) % w = v % w
  <2>1. v \in Int /\ -1 \in Int
    OBVIOUS
  <2> QED
    BY <2>1, ResidueShift, Zenon
<1>3. v + (-1) * w = v - w
  OBVIOUS
<1> QED
  BY <1>1, <1>2, <1>3

LEMMA NumberLiteral ==
  ASSUME in \in Constants, Gives, ValueKind # STR,
         literal = [kind |-> ValueKind, value |-> Value(ValueKind)]
  PROVE  /\ OfItsType(literal)
         /\ IF literal.kind = BOOL THEN (literal.value = 0) = InBlob(<<0>>)
                                   ELSE InBlob(Encoded(literal))
<1> DEFINE kind == ValueKind
           n == Width(kind)
           w == Weight[n]
           v == Number(ValueAt, n)
<1>1. /\ ValueAt = BlobAt /\ BlobAt \in Nat
      /\ kind \in Fixed /\ n \in Nat \ {0} /\ ValueAt + n <= SizeOf(in.body)
      /\ SizeOf(in.body) \in Nat
  BY LiteralAddresses, WidthIs, ConstantFacts, BufferSize DEF Gives, HasType, Rd, Readable
<1>2. w \in Nat \ {0} /\ v \in Nat /\ v < w
  BY <1>1, WeightPositive, NumberRange
<1>3. literal.kind = kind /\ literal.value = Value(kind)
  OBVIOUS
<1>4. CASE kind = BOOL
  <2>1. n = 1
    BY <1>4 DEF Width, Bytes1, BOOL
  <2>2. v = in.body[BlobAt]
    <3>1. Number(ValueAt, 0 + 1) = Number(ValueAt, 0) + Weight[0] * ByteAt(ValueAt + 0)
          /\ Number(ValueAt, 0) = 0
      BY <1>1, NumberSteps
    <3>2. ByteAt(ValueAt) \in Nat /\ ByteAt(ValueAt) = in.body[ValueAt]
      BY <1>1, <2>1, ByteRange
    <3>3. Weight[0] = 1
      BY WeightSteps
    <3>4. Number(ValueAt, 1) = ByteAt(ValueAt)
      BY <1>1, <3>1, <3>2, <3>3
    <3> QED
      BY <1>1, <2>1, <3>2, <3>4
  <2>3. Value(kind) = IF v # 0 THEN 1 ELSE 0
    BY <1>4 DEF Value, BOOL, SignedKinds
  <2>4. InBlob(<<0>>) <=> in.body[BlobAt] = 0
    <3>1. Len(<<0>>) = 1 /\ DOMAIN <<0>> = {1} /\ <<0>>[1] = 0
      OBVIOUS
    <3>2. BlobAt + 1 - 1 = BlobAt
      BY <1>1
    <3> QED
      BY <1>1, <2>1, <3>1, <3>2 DEF InBlob, BlobAt
  <2>5. w >= 2
    <3>1. Weight[0 + 1] = BYTE * Weight[0] /\ Weight[0] = 1
      BY WeightSteps
    <3> QED
      BY <2>1, <3>1, ByteSize
  <2>6. OfItsType(literal)
    <3>1. literal.kind \notin SignedKinds
      BY <1>3, <1>4 DEF BOOL, SignedKinds
    <3>2. literal.value \in 0 .. w - 1
      BY <1>2, <1>3, <2>3, <2>5
    <3> QED
      BY <1>3, <3>1, <3>2 DEF OfItsType
  <2>7. literal.value = 0 <=> InBlob(<<0>>)
    BY <1>3, <2>2, <2>3, <2>4
  <2>8. InBlob(<<0>>) \in BOOLEAN
    BY DEF InBlob
  <2> QED
    BY <1>3, <1>4, <2>6, <2>7, <2>8
<1>5. CASE kind # BOOL
  <2>1. Value(kind) = IF kind \in SignedKinds THEN AsSigned(v, n) ELSE v
    BY <1>5 DEF Value
  <2> DEFINE x == Value(kind)
  <2>2. /\ x \in {v, v - w}
        /\ IF kind \in SignedKinds THEN 2 * x \in -w .. w - 1 ELSE x \in 0 .. w - 1
    BY <1>2, <2>1 DEF AsSigned
  <2>3. x % w = v
    BY <1>2, <2>2, SignedEncodes
  <2>4. OfItsType(literal)
    BY <1>3, <2>2 DEF OfItsType
  <2>5. Encoded(literal) = Encoding(v, n)
    BY <1>3, <2>3 DEF Encoded
  <2>6. InBlob(Encoding(v, n))
    <3> DEFINE e == Encoding(v, n)
    <3>1. /\ e \in Seq(Int) /\ Len(e) = n
          /\ \A m \in 1 .. n : e[m] = in.body[ValueAt + m - 1]
      BY <1>1, NumberEncodes
    <3> HIDE DEF e, v, n
    <3>2. DOMAIN e = 1 .. n
      BY <3>1
    <3> QED
      BY <1>1, <3>1, <3>2 DEF InBlob, BlobAt, e
  <2> QED
    BY <1>3, <1>5, <2>4, <2>5, <2>6
<1> QED
  BY <1>4, <1>5

\* Bytes behind bytes.
LEMMA JoinedTexts ==
  ASSUME NEW a \in Seq(Int), NEW b \in Seq(Int)
  PROVE  /\ Len(a \o b) = Len(a) + Len(b) /\ DOMAIN (a \o b) = 1 .. Len(a) + Len(b)
         /\ Len(a) \in Nat /\ Len(b) \in Nat
         /\ \A m \in 1 .. Len(a) + Len(b) :
              (a \o b)[m] = IF m <= Len(a) THEN a[m] ELSE b[m - Len(a)]
<1>1. Len(a) \in Nat /\ Len(b) \in Nat
  OBVIOUS
<1>2. Len(a \o b) = Len(a) + Len(b)
  BY <1>1
<1>3. a \o b \in Seq(Int)
  OBVIOUS
<1>4. DOMAIN (a \o b) = 1 .. Len(a) + Len(b)
  BY <1>1, <1>2, <1>3
<1>5. \A m \in 1 .. Len(a) + Len(b) :
        (a \o b)[m] = IF m <= Len(a) THEN a[m] ELSE b[m - Len(a)]
  BY <1>1
<1> QED
  BY <1>1, <1>2, <1>4, <1>5

LEMMA TextLiteral ==
  ASSUME in \in Constants, Gives, ValueKind = STR, TextSoFar, Len(literal.value) = len
  PROVE  literal.kind = STR /\ InBlob(Encoded(literal))
<1> DEFINE s == literal.value
           e == Encoding(Len(s), WORD)
<1>1. /\ ValueAt = BlobAt /\ BlobAt \in Nat /\ WORD \in Nat
      /\ SizeOf(in.body) \in Nat /\ ValueAt + WORD <= SizeOf(in.body)
      /\ ValueAt + WORD + len <= SizeOf(in.body)
  BY LiteralAddresses, Widths, ConstantFacts, BufferSize
     DEF Gives, HasType, Rd, StringFits, Readable, TextSoFar
<1>2. /\ literal.kind = STR /\ s \in Seq(Int) /\ Len(s) = Number(ValueAt, WORD)
      /\ \A m \in 1 .. Len(s) : s[m] = in.body[ValueAt + WORD + m - 1]
  BY DEF TextSoFar
<1>3. /\ e \in Seq(Int) /\ Len(e) = WORD
      /\ \A m \in 1 .. WORD : e[m] = in.body[ValueAt + m - 1]
  <2>1. e = Encoding(Number(ValueAt, WORD), WORD)
    BY <1>2
  <2>2. ValueAt \in Nat
    BY <1>1
  <2> HIDE DEF e
  <2> QED
    BY <1>1, <2>1, <2>2, NumberEncodes
<1>4. Encoded(literal) = e \o s
  BY <1>2 DEF Encoded
<1> HIDE DEF s, e
<1>5. /\ Len(e \o s) = WORD + Len(s) /\ DOMAIN (e \o s) = 1 .. WORD + Len(s)
      /\ Len(s) \in Nat
  <2>1. e \in Seq(Int) /\ s \in Seq(Int) /\ Len(e) = WORD
    BY <1>2, <1>3
  <2> QED
    BY <1>1, <2>1, JoinedTexts
<1>6. ASSUME NEW m \in 1 .. WORD + Len(s)
      PROVE  (e \o s)[m] = in.body[ValueAt + m - 1]
  <2>1. CASE m <= WORD
    <3>1. (e \o s)[m] = e[m]
      BY <1>2, <1>3, <1>5, <2>1, JoinedTexts
    <3> QED
      BY <1>1, <1>3, <1>5, <2>1, <3>1
  <2>2. CASE m > WORD
    <3>1. (e \o s)[m] = s[m - WORD]
      <4>1. ~(m <= Len(e)) /\ m \in 1 .. Len(e) + Len(s)
        BY <1>1, <1>3, <1>5, <2>2
      <4> QED
        BY <1>2, <1>3, <4>1, JoinedTexts
    <3>2. m - WORD \in 1 .. Len(s) /\ ValueAt + WORD + (m - WORD) - 1 = ValueAt + m - 1
      BY <1>1, <1>5, <2>2
    <3> QED
      BY <1>2, <3>1, <3>2
  <2> QED
    BY <1>1, <1>5, <2>1, <2>2
<1>7. len = Len(s)
  BY DEF s
<1>8. BlobAt + Len(e \o s) <= SizeOf(in.body)
  BY <1>1, <1>5, <1>7
<1> QED
  BY <1>1, <1>2, <1>4, <1>5, <1>6, <1>8 DEF InBlob, BlobAt

(***************************************************************************)
(* Every literal dv_literal returns, encoded as a value of its type, gives *)
(* the bytes of the blob it was read from, for every body and every kind.  *)
(***************************************************************************)
THEOREM LiteralsReadBack == LiteralSpec => []LiteralIsTheBytes
<1>1. LiteralInv => LiteralIsTheBytes
  <2> SUFFICES ASSUME LiteralInv, vpc = "some"
               PROVE  /\ literal.kind # STR => OfItsType(literal)
                      /\ IF literal.kind = BOOL THEN (literal.value = 0) = InBlob(<<0>>)
                                                ELSE InBlob(Encoded(literal))
    BY DEF LiteralIsTheBytes
  <2>1. in \in Constants /\ Gives /\ Decoded
    BY DEF LiteralInv
  <2>2. CASE ValueKind = STR
    <3>1. literal.kind = STR /\ InBlob(Encoded(literal))
      BY <2>1, <2>2, TextLiteral DEF Decoded
    <3> QED
      BY <3>1 DEF STR, BOOL
  <2>3. CASE ValueKind # STR
    BY <2>1, <2>3, NumberLiteral DEF Decoded
  <2> QED
    BY <2>2, <2>3
<1> QED
  BY <1>1, LiteralInvariant, PTL


-----------------------------------------------------------------------------
(***************************************************************************)
(* What is read from the decrypted body, together.  The readers share the  *)
(* body and write nothing of each other's, so each of them behaves in the  *)
(* composition as it does alone, and all that was proved about it holds.   *)
(***************************************************************************)
LEMMA PartsBegin ==
  RecordsInit => ClassInit /\ FieldInit /\ MethodInit /\ BasesInit /\ DecodeInit
BY DEF RecordsInit, ClassIdle, FieldIdle, MethodIdle, BasesIdle, DecodeIdle

LEMMA PartsMove ==
  ASSUME [RecordsNext]_recordVars
  PROVE  /\ [ClassNext]_classVars /\ [FieldNext]_fieldVars /\ [MethodNext]_methodVars
         /\ [BasesNext]_baseVars /\ [DecodeNext]_decodeVars
BY DEF RecordsNext, recordVars

(***************************************************************************)
(* Types, fields, methods, bases and strings: a behaviour of the composed  *)
(* readers is one of each reader.                                          *)
(***************************************************************************)
THEOREM RecordsImplementParts ==
  RecordsSpec => ClassSpec /\ FieldSpec /\ MethodSpec /\ BasesSpec /\ DecodeSpec
BY PartsBegin, PartsMove, PTL
   DEF RecordsSpec, ClassSpec, FieldSpec, MethodSpec, BasesSpec, DecodeSpec

(***************************************************************************)
(* In every behaviour of the composition, no reader reports more records   *)
(* than it looked at, and each is one of the table's.                      *)
(***************************************************************************)
THEOREM RecordsTypeCorrect == RecordsSpec => []RecordsTypeOK
<1>1. ClassTypeOK /\ FieldTypeOK /\ MethodTypeOK /\ DecodeTypeOK => RecordsTypeOK
  BY DEF RecordsTypeOK
<1> QED
  BY <1>1, RecordsImplementParts, ClassTypeCorrect, FieldTypeCorrect, MethodTypeCorrect,
     DecodeTypeCorrect, PTL

=============================================================================
