----------------------------- MODULE PeImports ------------------------------
(***************************************************************************)
(* parse_imports, imports and iat_slot of src/pe.rs: the walk over import  *)
(* descriptors and their thunks.  A name stands for the file offset its    *)
(* text is read from.  A sum that overflows, of u32s for an address or of  *)
(* u64s for a slot, panics in a build that checks for it and wraps around  *)
(* in one that does not.                                                   *)
(***************************************************************************)
EXTENDS PeImage, SequencesExt

CONSTANTS
  U64_RANGE,                     \* 2^64
  DESC_LEN, NAME_AT, THUNKS_AT,  \* 20, 12 and 16
  WORD, THUNK_LEN,               \* 4 and 8
  HINT_LEN,                      \* 2, before the name in a hint/name entry
  ORDINAL, ORDINALS,             \* 2^63, the flag of an ordinal; 2^16 of them
  MAX_DESCS, MAX_THUNKS,         \* 1024 and 100000
  ImportImages                   \* the images considered

(***************************************************************************)
(* An image: ImageBase, any u64 of the header; the sections; the length of *)
(* the file; the RVA of the import directory (None if the header has none) *)
(* and the u64 that is read at a file offset; the u32 there is its lower   *)
(* half.                                                                   *)
(***************************************************************************)
ASSUME ImportsAssumption ==
  /\ U64_RANGE \in Nat \ {0}
  /\ {WORD, THUNK_LEN, MAX_DESCS} \subseteq Nat \ {0} /\ MAX_THUNKS \in Nat
  /\ {DESC_LEN, NAME_AT, THUNKS_AT} \subseteq Nat
  /\ NAME_AT + WORD <= DESC_LEN /\ THUNKS_AT + WORD <= DESC_LEN
  /\ THUNK_LEN <= DESC_LEN
  /\ \A e \in ImportImages :
       /\ e.base \in 0 .. U64_RANGE - 1
       /\ e.sections \in Seq(SectionType) /\ e.dir \in U32 \union {None} /\ e.len \in Nat
       /\ \A o \in 0 .. e.len - 1 : e.data[o] \in 0 .. U64_RANGE - 1

VARIABLES
  pe,       \* the image
  checked,  \* whether this build checks for overflow
  desc, n,  \* desc_rva, and the descriptors looked at
  d,        \* the current one: its names, its slots, its dll
  i,        \* the thunk of it
  out,      \* the imports: records [dll, name, slot]
  ipc       \* "start", "desc", "thunks", "some"; "none" and "panic"

importVars == <<pe, checked, desc, n, d, i, out, ipc>>

NoDesc == [names |-> 0, slots |-> 0, dll |-> None]

ImportsInit ==
  /\ pe \in ImportImages /\ checked \in BOOLEAN
  /\ desc = 0 /\ n = 0 /\ i = 0
  /\ d = NoDesc
  /\ out = <<>>
  /\ ipc = "start"

-----------------------------------------------------------------------------
\* read_u32 and read_u64: None where the section table or the file ends.
ReadRva(rva, len) ==
  LET off == RvaToFile(pe.sections, rva)
  IN  IF off # None /\ InFile(pe.len, off, len)
        THEN IF len = WORD THEN pe.data[off] % U32_RANGE ELSE pe.data[off]
        ELSE None

\* read_cstr: the text at an RVA, empty if there is none.
TextAt(rva) == RvaToFile(pe.sections, rva)

Add(a, b) == (a + b) % U32_RANGE
SumPanics(a, b) == checked /\ a + b >= U32_RANGE

Goto(pc) ==
  /\ ipc' = pc
  /\ UNCHANGED <<pe, checked, desc, n, d, i, out>>

\* unwrap_or_default: one unreadable entry, and there are no imports at all.
Fail ==
  /\ ipc' = "none" /\ out' = <<>>
  /\ UNCHANGED <<pe, checked, desc, n, d, i>>

NoDirectory ==
  /\ ipc = "start" /\ pe.dir \in {None, 0}
  /\ Fail

FirstDesc ==
  /\ ipc = "start" /\ pe.dir \notin {None, 0}
  /\ desc' = pe.dir
  /\ ipc' = "desc"
  /\ UNCHANGED <<pe, checked, n, d, i, out>>

\* The three fields of a descriptor, read in their order up to the first ?.
Field(at) == ReadRva(Add(desc, at), WORD)

\* Mutant: the addresses are summed up before the first read.
AddressesFirst == SumPanics(desc, NAME_AT) \/ SumPanics(desc, THUNKS_AT)

DescOverflows ==
  /\ Field(0) # None
  /\ \/ SumPanics(desc, NAME_AT)
     \/ Field(NAME_AT) # None /\ SumPanics(desc, THUNKS_AT)

Fields == <<Field(0), Field(NAME_AT), Field(THUNKS_AT)>>

\* A descriptor is due, and its fields are read without a panic.
Reading == ipc = "desc" /\ n < MAX_DESCS /\ ~DescOverflows

DescFails ==
  /\ Reading /\ \E f \in 1 .. 3 : Fields[f] = None
  /\ Fail

\* The INT if there is one, the IAT if not.
NamesFrom(int, iat) == IF int # 0 THEN int ELSE iat

ReadDesc ==
  /\ Reading /\ \A f \in 1 .. 3 : Fields[f] # None
  /\ Fields # <<0, 0, 0>>
  /\ d' = [names |-> NamesFrom(Fields[1], Fields[3]), slots |-> Fields[3],
           dll |-> TextAt(Fields[2])]
  /\ i' = 0
  /\ ipc' = "thunks"
  /\ UNCHANGED <<pe, checked, desc, n, out>>

\* The null descriptor, or the last of 1024.
NoMoreDescs ==
  /\ \/ ipc = "desc" /\ n = MAX_DESCS
     \/ Reading /\ Fields = <<0, 0, 0>>
  /\ Goto("some")

Thunk == ReadRva(Add(d.names, i * THUNK_LEN), THUNK_LEN)

\* An import by ordinal has its number for a name.
NameOf(entry) ==
  IF entry >= ORDINAL THEN <<"ordinal", entry % ORDINALS>>
  ELSE <<"text", TextAt(Add(entry % (U32_RANGE \div 2), HINT_LEN))>>

\* Mutant: the slots lie one after the other across all dlls.
SlotAfterLast(s, t) == (pe.base + s + Len(out) * THUNK_LEN) % U64_RANGE

\* iat_va
Slot(s, t) == (pe.base + s + t * THUNK_LEN) % U64_RANGE

\* ImageBase + FirstThunk + i*8 is summed up as a u64.
SlotPanics(s, t) == checked /\ pe.base + s + t * THUNK_LEN >= U64_RANGE

PastCap == i > MAX_THUNKS

ThunkDue == ipc = "thunks" /\ ~PastCap
ThunkOverflows == SumPanics(d.names, i * THUNK_LEN)

\* A thunk is read that the list does not end at: its slot is summed up.
SlotDue == ThunkDue /\ ~ThunkOverflows /\ Thunk \notin {None, 0}

ReadThunk ==
  /\ SlotDue /\ ~SlotPanics(d.slots, i)
  /\ out' = Append(out, [dll |-> d.dll, name |-> NameOf(Thunk), slot |-> Slot(d.slots, i)])
  /\ i' = i + 1
  /\ UNCHANGED <<pe, checked, desc, n, d, ipc>>

ThunkFails ==
  /\ ThunkDue /\ ~ThunkOverflows
  /\ Thunk = None
  /\ Fail

AllThunks ==
  \/ ipc = "thunks" /\ PastCap
  \/ ThunkDue /\ ~ThunkOverflows /\ Thunk = 0

\* desc_rva += 20
NextDesc ==
  /\ AllThunks /\ ~SumPanics(desc, DESC_LEN)
  /\ desc' = Add(desc, DESC_LEN)
  /\ n' = n + 1
  /\ ipc' = "desc"
  /\ UNCHANGED <<pe, checked, d, i, out>>

Overflow ==
  /\ \/ ipc = "desc" /\ n < MAX_DESCS /\ DescOverflows
     \/ ThunkDue /\ ThunkOverflows
     \/ SlotDue /\ SlotPanics(d.slots, i)
     \/ AllThunks /\ SumPanics(desc, DESC_LEN)
  /\ Goto("panic")

ImportsNext ==
  \/ NoDirectory
  \/ FirstDesc
  \/ DescFails
  \/ ReadDesc
  \/ NoMoreDescs
  \/ ReadThunk
  \/ ThunkFails
  \/ NextDesc
  \/ Overflow

ImportsSpec == ImportsInit /\ [][ImportsNext]_importVars

-----------------------------------------------------------------------------
(***************************************************************************)
(* The import table, told with whole numbers and without a walk.           *)
(***************************************************************************)
Least(S) == CHOOSE m \in S : \A k \in S : m <= k

DescAt(k) ==
  [f \in 1 .. 3 |-> ReadRva(pe.dir + DESC_LEN * k + <<0, NAME_AT, THUNKS_AT>>[f], WORD)]
IsLast(k) == k = MAX_DESCS \/ DescAt(k) = <<0, 0, 0>> \/ None \in Range(DescAt(k))
Descs == Least({k \in 0 .. MAX_DESCS : IsLast(k)})

ThunkAt(k, t) ==
  LET names == IF DescAt(k)[1] # 0 THEN DescAt(k)[1] ELSE DescAt(k)[3]
  IN  ReadRva(names + THUNK_LEN * t, THUNK_LEN)
Thunks(k) ==
  Least({t \in 0 .. MAX_THUNKS + 1 : t > MAX_THUNKS \/ ThunkAt(k, t) \in {None, 0}})

IsWhole ==
  /\ pe.dir \notin {None, 0}
  /\ Descs = MAX_DESCS \/ DescAt(Descs) = <<0, 0, 0>>
  /\ \A k \in 0 .. Descs - 1 : Thunks(k) > MAX_THUNKS \/ ThunkAt(k, Thunks(k)) = 0

\* The address of a slot, which a u64 may not hold.
SlotAt(k, t) == pe.base + DescAt(k)[3] + THUNK_LEN * t

ImportAt(k, t) ==
  [dll  |-> TextAt(DescAt(k)[2]), name |-> NameOf(ThunkAt(k, t)),
   slot |-> SlotAt(k, t) % U64_RANGE]

ImportTable ==
  FlattenSeq([k \in 1 .. Descs |-> [t \in 1 .. Thunks(k - 1) |-> ImportAt(k - 1, t - 1)]])

\* A section so close to the end of the address space that the walk may wrap.
NearTop ==
  \E k \in DOMAIN pe.sections : EndOf(pe.sections[k]) > U32_RANGE - DESC_LEN

\* An ImageBase so large that a slot of the table lies beyond 2^64.
SlotsTooHigh ==
  \E k \in 0 .. Descs - 1 : \E t \in 0 .. Thunks(k) - 1 : SlotAt(k, t) >= U64_RANGE

(***************************************************************************)
(* The imports are all of the table, each name with the slot the loader    *)
(* binds it in as far as a u64 holds its address, or none at all: one      *)
(* unreadable entry discards even the dlls before it, and no wrapped       *)
(* address adds imports of its own.                                        *)
(***************************************************************************)
AllOrNothing ==
  ipc \in {"some", "none"} /\ ~NearTop =>
    out = IF IsWhole THEN ImportTable ELSE <<>>

(***************************************************************************)
(* A build that checks for overflow panics at the two tops only.  Whatever *)
(* RVAs a file holds, the u32 sums of the walk cannot overflow as long as  *)
(* no section ends within a descriptor of 4 GiB: each sum is made from an  *)
(* address that was read.  What is left is a slot beyond 2^64, and there   *)
(* the walk does panic: it never returns a table with such a slot in it.   *)
(***************************************************************************)
PanicsAtTheTops ==
  /\ ipc = "panic" => checked /\ (NearTop \/ SlotsTooHigh)
  /\ ipc = "some" /\ checked => NearTop \/ ~SlotsTooHigh
=============================================================================
