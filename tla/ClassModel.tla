----------------------------- MODULE ClassModel -----------------------------
(***************************************************************************)
(* src/class_model.rs, and the head of every class dump_all writes: all    *)
(* type definitions are read once for the method counts; then each one due *)
(* is read, its parent is looked up in typearr and then by name, and the   *)
(* two names and the flags decide how the class is written.                *)
(***************************************************************************)
EXTENDS Memory, Sequences

CONSTANTS
  TYPE_COUNT, TD_STRIDE,                      \* 82222, 0x46
  NAME_AT, PARENT_AT, FLAGS_AT,               \* 0x24, 0x08, 0x18
  NAME_BIAS, PARENT_BIAS,                     \* of a u32
  INTERFACE, ABSTRACT, SEALED,                \* 0x20, 0x80, 0x100
  TYPEARR,                                    \* where the Il2CppTypes begin
  Texts, Long,                                \* decode_str, and its texts of 200 bytes
  ClassBodies, ClassBases, TypeArrays, Lists  \* inputs: the last one is --only

ASSUME ClassAssumption ==
  /\ TD_STRIDE \in Nat \ {0} /\ {NAME_AT, PARENT_AT, FLAGS_AT} \subseteq Nat
  /\ {NAME_AT + WORD, PARENT_AT + WORD, FLAGS_AT + 1} \subseteq 1 .. TD_STRIDE
  /\ {TYPE_COUNT, NAME_BIAS, PARENT_BIAS} \subseteq Word32 /\ TYPEARR \in Nat
  /\ WORD <= KIND_AT + 1
  /\ DOMAIN Texts = Word32 /\ Long \subseteq STRING
  /\ ClassBases \subseteq SignedBase
  /\ FitsUsize(TD_STRIDE)
  /\ \A b \in ClassBodies : IsBuffer(b) /\ \A o \in DOMAIN b : b[o] \in Word32
  /\ \A i \in TypeArrays :
       IsBuffer(i) /\ \A o \in DOMAIN i :
                        i[o] \in Nat /\ TD_STRIDE * (i[o] + 1) + U32_RANGE <= USIZE
  /\ \A l \in Lists : l \in Seq(Nat)

VARIABLES
  cbody, cimage,  \* the two buffers
  cbase,          \* the signed sum that td_base is made from
  cchecked,       \* whether this build checks for overflow
  list, pos,      \* the types to dump, and the one that is due
  headers,        \* the heads written
  cpc             \* "counts", "types"; "done" and "panic"

classVars == <<cbody, cimage, cbase, cchecked, list, pos, headers, cpc>>

ClassInit ==
  /\ cbody \in ClassBodies /\ cimage \in TypeArrays /\ cbase \in ClassBases
  /\ cchecked \in BOOLEAN
  /\ list \in Lists /\ pos = 1
  /\ headers = <<>>
  /\ cpc = "counts"

-----------------------------------------------------------------------------
None == -1

\* td_base: sign-extended, so a negative one is a huge usize.
TdBase == AsUsize(cbase)

Record(t) == Entry(TdBase, TD_STRIDE, t)

FieldOf(t, at) == ReadAt(cbody, (Record(t) + at) % USIZE, WORD)

\* name: of any index, with no bound and no check that it can be read.
Name(t) == Texts[(NAME_BIAS + FieldOf(t, NAME_AT)) % U32_RANGE]

NameOverflows(t) ==
  Overflows(TdBase, TD_STRIDE, t) \/ Record(t) + NAME_AT >= USIZE

\* il2cpp_type: <<kind, data>> of an index into typearr.
Il2CppType(n) ==
  LET at == TYPEARR + TYPE_LEN * n
  IN  IF Readable(cimage, at + KIND_AT, 1) /\ Readable(cimage, at, WORD)
      THEN <<cimage[at + KIND_AT], cimage[at]>> ELSE <<None, None>>

\* parent_type
ParentType(t) ==
  LET n == (PARENT_BIAS + FieldOf(t, PARENT_AT)) % U32_RANGE
  IN  IF n = U32_RANGE - 1 THEN None ELSE n

CLASS == 17
VALUETYPE == 18
GENERICINST == 21
OBJECT == 28

PlainKinds == {CLASS, VALUETYPE, OBJECT}

\* parent_type_def
ParentTypeDef(t) ==
  LET ptype == Il2CppType(ParentType(t))
  IN  IF ParentType(t) # None /\ ptype[1] \in PlainKinds THEN ptype[2] ELSE None

\* pname of dump_all
ParentName(t) == IF ParentTypeDef(t) = None THEN "" ELSE Name(ParentTypeDef(t))

On(flags, bit) == (flags \div bit) % 2 = 1

\* Mutant: System.Enum, whose parent is ValueType, is a struct.
KindByParent(flags, name, pname) ==
  IF On(flags, INTERFACE) THEN "interface"
  ELSE IF pname = "Enum" THEN "enum"
  ELSE IF pname = "ValueType" THEN "struct" ELSE "class"

Kind(flags, name, pname) ==
  IF On(flags, INTERFACE) THEN "interface"
  ELSE IF pname = "Enum" THEN "enum"
  ELSE IF pname = "ValueType" /\ name # "Enum" THEN "struct" ELSE "class"

Modifier(flags, kind) ==
  CASE kind = "class" /\ On(flags, ABSTRACT) /\ On(flags, SEALED) -> "static"
    [] kind \in {"class", "struct"} /\ On(flags, SEALED)
         /\ ~(kind = "class" /\ On(flags, ABSTRACT)) -> "sealed"
    [] kind = "interface" /\ On(flags, ABSTRACT) -> "abstract"
    [] OTHER -> ""

\* Mutant: a parent of any length is named.
AnyLength(kind, pname) ==
  IF kind = "class" /\ pname \notin {"Object", "ValueType"} THEN pname ELSE ""

BaseClause(kind, pname) ==
  IF kind = "class" /\ pname \notin {"Object", "ValueType"} \union Long
  THEN pname ELSE ""

Header(t) ==
  LET flags == ReadAt(cbody, Record(t) + FLAGS_AT, 1)
      kind  == Kind(flags, Name(t), ParentName(t))
  IN  [type |-> t, kind |-> kind, modifier |-> Modifier(flags, kind),
       base |-> BaseClause(kind, ParentName(t))]

\* Mutant: a record counts as there when it begins in the body.
BeginsIn(t) == t < TYPE_COUNT /\ Readable(cbody, Record(t), 1)

\* type_def is Some; dump_all then wants a name.
Defined(t) == t < TYPE_COUNT /\ Readable(cbody, Record(t), TD_STRIDE)

Listed(t) == Defined(t) /\ Name(t) # ""

TypeDefPanics(t) == cchecked /\ t < TYPE_COUNT /\ Overflows(TdBase, TD_STRIDE, t)

ClassPanics(t) ==
  \/ TypeDefPanics(t)
  \/ cchecked /\ Listed(t) /\ ParentTypeDef(t) # None /\ NameOverflows(ParentTypeDef(t))

-----------------------------------------------------------------------------
\* method_counts asks type_def for every type before the first head.
CountsPanic == \E t \in 0 .. TYPE_COUNT - 1 : TypeDefPanics(t)

TypeDue == cpc = "types" /\ pos <= Len(list)

Advance(written) ==
  /\ headers' = headers \o written
  /\ pos' = pos + 1
  /\ UNCHANGED <<cbody, cimage, cbase, cchecked, list, cpc>>

SkipType ==
  /\ TypeDue /\ ~ClassPanics(list[pos]) /\ ~Listed(list[pos])
  /\ Advance(<<>>)

WriteHeader ==
  /\ TypeDue /\ ~ClassPanics(list[pos]) /\ Listed(list[pos])
  /\ Advance(<<Header(list[pos])>>)

ClassStop(how) ==
  /\ cpc' = how
  /\ UNCHANGED <<cbody, cimage, cbase, cchecked, list, pos, headers>>

CountTypes == cpc = "counts" /\ ~CountsPanic /\ ClassStop("types")

Panicking ==
  \/ cpc = "counts" /\ CountsPanic
  \/ TypeDue /\ ClassPanics(list[pos])

ClassPanic == Panicking /\ ClassStop("panic")
ClassDone == cpc = "types" /\ pos > Len(list) /\ ClassStop("done")

ClassNext == CountTypes \/ SkipType \/ WriteHeader \/ ClassPanic \/ ClassDone

ClassSpec == ClassInit /\ [][ClassNext]_classVars

-----------------------------------------------------------------------------
ClassTypeOK ==
  /\ pos \in 1 .. Len(list) + 1
  /\ Len(headers) < pos
  /\ \A h \in {headers[k] : k \in DOMAIN headers} :
       /\ h.type \in 0 .. TYPE_COUNT - 1
       /\ h.base # "" => h.kind = "class" /\ h.base \notin Long

(***************************************************************************)
(* The table, in whole numbers: where a record is, whether all of it is in *)
(* the body, and the parent, a definition of the table or not: its name is *)
(* read where its record would be, as zero outside of the body.            *)
(***************************************************************************)
At(t) == cbase + TD_STRIDE * t
InBody(at, len) == at >= 0 /\ at + len <= SizeOf(cbody)
InTable(t) == t \in 0 .. TYPE_COUNT - 1 /\ InBody(At(t), TD_STRIDE)
NameIn(t) ==
  LET n == IF InBody(At(t) + NAME_AT, WORD) THEN cbody[At(t) + NAME_AT] ELSE 0
  IN  Texts[(NAME_BIAS + n) % U32_RANGE]
ParentIn(t) == (PARENT_BIAS + cbody[At(t) + PARENT_AT]) % U32_RANGE
KindIn(t) == cimage[TYPEARR + TYPE_LEN * ParentIn(t) + KIND_AT]
HasParent(t) == ParentIn(t) # U32_RANGE - 1
                /\ TYPEARR + TYPE_LEN * ParentIn(t) + KIND_AT < SizeOf(cimage)
Definition(t) == cimage[TYPEARR + TYPE_LEN * ParentIn(t)]
NameOfParent(t) ==
  IF HasParent(t) /\ KindIn(t) \in PlainKinds THEN NameIn(Definition(t)) ELSE ""

DueBefore(p) == {m \in 1 .. p - 1 : InTable(list[m]) /\ NameIn(list[m]) # ""}

(***************************************************************************)
(* Whatever td_base is, a negative one included, the dump lists the types  *)
(* whose record lies in the body, in the order asked for: no wrapped       *)
(* address adds a type or loses one, in either build.  Only a build that   *)
(* checks for overflow panics, only on a negative td_base, and before the  *)
(* first head is written: no parent a record may name adds another panic.  *)
(***************************************************************************)
TableListed ==
  /\ Len(headers) = Cardinality(DueBefore(pos))
  /\ \A m \in DueBefore(pos) : headers[Cardinality(DueBefore(m + 1))].type = list[m]
  /\ cpc = "panic" => cchecked /\ cbase < 0 /\ headers = <<>>

(***************************************************************************)
(* Every head is what the language wants of the type's own flags, name and *)
(* parent.  The flags alone make an interface; what extends Enum is an     *)
(* enum and what extends ValueType a struct, but Enum itself, which        *)
(* extends ValueType too, is a class.  A class, and nothing else, names    *)
(* its parent, unless that is a root, nameless or of 200 bytes or more; it *)
(* is static if abstract and sealed.  The parent is any index of the image:*)
(* one that is not in the table has the name that the words in its place   *)
(* make, and never that of a wrapped address.                              *)
(***************************************************************************)
HeaderByParent ==
  \A h \in {headers[k] : k \in DOMAIN headers} :
    LET parent    == NameOfParent(h.type)
        flags     == cbody[At(h.type) + FLAGS_AT]
        interface == On(flags, INTERFACE)
        abstract  == On(flags, ABSTRACT)
        sealed    == On(flags, SEALED)
    IN  /\ h.kind = "interface" <=> interface
        /\ h.kind = "enum" <=> ~interface /\ parent = "Enum"
        /\ h.kind = "struct" <=>
             ~interface /\ parent = "ValueType" /\ NameIn(h.type) # "Enum"
        /\ h.kind \in {"interface", "enum", "struct", "class"}
        /\ h.base # "" <=>
             h.kind = "class" /\ parent \notin {"", "Object", "ValueType"} \union Long
        /\ h.base # "" => h.base = parent
        /\ h.modifier = "static" <=> h.kind = "class" /\ abstract /\ sealed
        /\ h.modifier = "sealed" <=>
             sealed /\ (h.kind = "struct" \/ (h.kind = "class" /\ ~abstract))
        /\ h.modifier = "abstract" <=> h.kind = "interface" /\ abstract

(***************************************************************************)
(* dump_all's comment, that generic-instance parents go through type_name: *)
(* a class with such a parent names it.                                    *)
(***************************************************************************)
GenericParentNamed ==
  \A h \in {headers[k] : k \in DOMAIN headers} :
    h.kind = "class" /\ HasParent(h.type) /\ KindIn(h.type) = GENERICINST =>
      h.base # ""
=============================================================================
