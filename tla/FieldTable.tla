----------------------------- MODULE FieldTable -----------------------------
(***************************************************************************)
(* fields and foff_start of src/field_meta.rs, as dump_all calls them: the *)
(* fields of one type with their offsets, found through four tables of the *)
(* body whose bases the header gives.  Names, types and modifiers are left *)
(* out: no address depends on them.                                        *)
(***************************************************************************)
EXTENDS Memory, Sequences

CONSTANTS
  FIELD_LEN,    \* 8, of a fieldDef
  ROW_LEN,      \* 12, of a row of the v43 table
  ROW_AT,       \* 8, where a row holds the start of the offsets
  LOW_BYTES,    \* 2^24, where the high byte of an offset begins
  FieldBodies,  \* the bodies considered: functions from 0 .. len - 1 to u32
  FieldInputs   \* the rest of what the header and the type definition give

(***************************************************************************)
(* An input: the bases fieldDefs and fieldOffs (i32 less a bias: may be    *)
(* negative), tableB and rows (u32), and tdi, fieldStart, fieldCount.      *)
(***************************************************************************)
IsFieldInput(x) ==
  /\ {x.fieldDefs, x.fieldOffs} \subseteq SignedBase
  /\ {x.tableB, x.rows, x.tdi, x.fieldCount} \subseteq Word32
  /\ x.fieldStart \in Int /\ 2 * x.fieldStart \in SignedBase
  /\ 2 * x.fieldCount < U32_RANGE

ASSUME FieldTableAssumption ==
  /\ {FIELD_LEN, ROW_LEN, LOW_BYTES} \subseteq Nat \ {0}
  /\ ROW_AT \in 0 .. ROW_LEN - WORD
  /\ FitsUsize(FIELD_LEN) /\ FitsUsize(ROW_LEN) /\ FitsUsize(2 * WORD)
  /\ \A b \in FieldBodies : IsBuffer(b) /\ \A o \in DOMAIN b : b[o] \in Word32
  /\ \A x \in FieldInputs : IsFieldInput(x)

VARIABLES
  fbody, fin,  \* the input
  fchecked,    \* whether this build checks for overflow
  ib,          \* the index read from foff_table_b, an i32
  foff,        \* foff_start
  j,           \* the field of the type looked at
  fields,      \* the fields: records [gfi, offset]
  fpc          \* "index", "row", "loop"; "done" and "panic" are the results

fieldVars == <<fbody, fin, fchecked, ib, foff, j, fields, fpc>>

FieldInit ==
  /\ fbody \in FieldBodies /\ fin \in FieldInputs
  /\ fchecked \in BOOLEAN
  /\ ib = 0 /\ foff = 0 /\ j = 0
  /\ fields = <<>>
  /\ fpc = "index"

-----------------------------------------------------------------------------
FieldSumPanics(overflow) == fchecked /\ overflow

HasFields == fin.fieldStart >= 0 /\ fin.fieldCount > 0

FieldPanic ==
  /\ fpc' = "panic"
  /\ UNCHANGED <<fbody, fin, fchecked, ib, foff, j, fields>>

\* if td.field_start >= 0 && td.field_count > 0
NoFields ==
  /\ fpc = "index"
  /\ ~HasFields
  /\ fpc' = "done"
  /\ UNCHANGED <<fbody, fin, fchecked, ib, foff, j, fields>>

ReadIndex ==
  LET off == Entry(fin.tableB, WORD, fin.tdi)
  IN  /\ fpc = "index"
      /\ HasFields
      /\ ib' = IF Readable(fbody, off, WORD) THEN AsI32(fbody[off]) ELSE 0
      /\ fpc' = IF Readable(fbody, off, WORD) THEN "row" ELSE "loop"
      /\ UNCHANGED <<fbody, fin, fchecked, foff, j, fields>>

\* Mutant: the index counts from 1.
IndexFromOne(i) == AsUsize(i - 1)

\* ib as usize
IndexOf(i) == AsUsize(i)

Row == Entry(fin.rows, ROW_LEN, IndexOf(ib))

RowOverflows ==
  Overflows(fin.rows, ROW_LEN, IndexOf(ib)) \/ Row + ROW_AT + WORD >= USIZE

\* The word behind the one that is read is what is checked for.
ReadRow ==
  LET past == (Row + ROW_AT + WORD) % USIZE
  IN  /\ fpc = "row"
      /\ ~FieldSumPanics(RowOverflows)
      /\ foff' = IF Readable(fbody, past, WORD)
                   THEN ReadAt(fbody, (Row + ROW_AT) % USIZE, WORD)
                   ELSE 0
      /\ fpc' = "loop"
      /\ UNCHANGED <<fbody, fin, fchecked, ib, j, fields>>

RowPanics ==
  /\ fpc = "row"
  /\ FieldSumPanics(RowOverflows)
  /\ FieldPanic

\* (field_start as u32).wrapping_add(j)
Gfi == (fin.fieldStart + j) % U32_RANGE
FieldDef == Entry(AsUsize(fin.fieldDefs), FIELD_LEN, Gfi)
FieldDefOverflows == Overflows(AsUsize(fin.fieldDefs), FIELD_LEN, Gfi)

\* Mutant: the fields that were skipped have no offset either.
SlotOfListed(n) == Len(fields) + foff

\* j as usize + foff_start
Slot(n) == n + foff

OffsetAt == Entry(AsUsize(fin.fieldOffs), WORD, Slot(j))
OffsetOverflows == Overflows(AsUsize(fin.fieldOffs), WORD, Slot(j))

\* Thread-static: only the high byte is shown.
Shown(r) == IF (r \div LOW_BYTES) % 2 = 1 THEN r - (r % LOW_BYTES) ELSE r

SkipField ==
  /\ fpc = "loop" /\ j < fin.fieldCount
  /\ ~FieldSumPanics(FieldDefOverflows)
  /\ ~Readable(fbody, FieldDef, FIELD_LEN)
  /\ j' = j + 1
  /\ UNCHANGED <<fbody, fin, fchecked, ib, foff, fields, fpc>>

TakeField ==
  /\ fpc = "loop" /\ j < fin.fieldCount
  /\ ~FieldSumPanics(FieldDefOverflows) /\ Readable(fbody, FieldDef, FIELD_LEN)
  /\ ~FieldSumPanics(OffsetOverflows)
  /\ fields' = Append(fields, [gfi    |-> Gfi,
                               offset |-> Shown(ReadAt(fbody, OffsetAt, WORD))])
  /\ j' = j + 1
  /\ UNCHANGED <<fbody, fin, fchecked, ib, foff, fpc>>

FieldPanics ==
  /\ fpc = "loop" /\ j < fin.fieldCount
  /\ \/ FieldSumPanics(FieldDefOverflows)
     \/ Readable(fbody, FieldDef, FIELD_LEN) /\ FieldSumPanics(OffsetOverflows)
  /\ FieldPanic

FieldsDone ==
  /\ fpc = "loop" /\ j = fin.fieldCount
  /\ fpc' = "done"
  /\ UNCHANGED <<fbody, fin, fchecked, ib, foff, j, fields>>

FieldNext ==
  \/ NoFields
  \/ ReadIndex
  \/ ReadRow
  \/ RowPanics
  \/ SkipField
  \/ TakeField
  \/ FieldPanics
  \/ FieldsDone

FieldSpec == FieldInit /\ [][FieldNext]_fieldVars

-----------------------------------------------------------------------------
FieldTypeOK ==
  /\ foff \in Nat /\ 2 * ib \in -U32_RANGE .. U32_RANGE - 1
  /\ j \in 0 .. fin.fieldCount
  /\ Len(fields) <= j
  /\ \A n \in DOMAIN fields : fields[n].gfi \in 0 .. fin.fieldStart + j - 1

(***************************************************************************)
(* The fields of the type with the offsets that belong to them, told with  *)
(* whole numbers: no residues, no order of steps.                          *)
(***************************************************************************)
InFieldBody(a, len) == 0 <= a /\ a + len <= SizeOf(fbody)
WordAt(a) == IF InFieldBody(a, WORD) THEN fbody[a] ELSE 0

FirstSlot ==
  LET index == fin.tableB + WORD * fin.tdi
      row   == fin.rows + ROW_LEN * AsI32(fbody[index])
  IN  IF InFieldBody(index, WORD) /\ InFieldBody(row + ROW_AT + WORD, WORD)
        THEN WordAt(row + ROW_AT)
        ELSE 0

FieldThere(n) ==
  InFieldBody(fin.fieldDefs + FIELD_LEN * (fin.fieldStart + n), FIELD_LEN)

OffsetOf(n) == Shown(WordAt(fin.fieldOffs + WORD * (n + FirstSlot)))

FieldsOf(count) ==
  {[gfi |-> fin.fieldStart + n, offset |-> OffsetOf(n)] :
     n \in {m \in 0 .. count - 1 : HasFields /\ FieldThere(m)}}

InFieldOrder == \A m, n \in DOMAIN fields : m < n => fields[m].gfi < fields[n].gfi

(***************************************************************************)
(* Each field is listed with its own offset, however many before it had    *)
(* to be skipped, and a negative base or index reads what the whole        *)
(* numbers say or nothing: no residue leads back into the body elsewhere.  *)
(***************************************************************************)
OwnOffsets ==
  fpc = "done" =>
    {fields[n] : n \in DOMAIN fields} = FieldsOf(fin.fieldCount) /\ InFieldOrder

(***************************************************************************)
(* A build that checks for overflow lists the fields of every file whose   *)
(* bases and index are not negative, and any other build never panics.     *)
(***************************************************************************)
PanicsOnNegativesOnly ==
  fpc = "panic" => fchecked /\ (fin.fieldDefs < 0 \/ fin.fieldOffs < 0 \/ ib < 0)
=============================================================================
