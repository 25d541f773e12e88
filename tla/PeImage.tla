------------------------------ MODULE PeImage -------------------------------
(***************************************************************************)
(* The address arithmetic of src/pe.rs: sections, and the maps from a VA   *)
(* and an RVA to the bytes of the file.  Addresses of the image are u32.   *)
(***************************************************************************)
EXTENDS Integers, Sequences

CONSTANT U32_RANGE   \* 2^32

ASSUME U32Assumption == U32_RANGE \in Nat \ {0}

U32 == 0 .. U32_RANGE - 1

\* A Section: virtual_address, virtual_size, raw_pointer and raw_size.
Section(name, va, vsize, raw, rsize) ==
  [name |-> name, va |-> va, vsize |-> vsize, raw |-> raw, rsize |-> rsize]

SectionType ==
  [name : STRING, va : U32, vsize : U32, raw : U32, rsize : U32]

None == -1

FirstOf(S) == CHOOSE k \in S : \A j \in S : k <= j

\* section(name): the first of that name.
Named(secs, name) == {k \in DOMAIN secs : secs[k].name = name}
SectionNamed(secs, name) == secs[FirstOf(Named(secs, name))]

\* virtual_address.wrapping_add(virtual_size)
EndOf(s) == (s.va + s.vsize) % U32_RANGE

Covers(s, rva) == s.va <= rva /\ rva < EndOf(s)

Covering(secs, rva) == {k \in DOMAIN secs : Covers(secs[k], rva)}

\* The section both loops stop at.
SectionAt(secs, rva) == secs[FirstOf(Covering(secs, rva))]

RvaToFile(secs, rva) ==
  IF Covering(secs, rva) = {} THEN None
  ELSE LET s == SectionAt(secs, rva)
       IN  IF rva - s.va < s.rsize THEN s.raw + (rva - s.va) ELSE None

\* Mutant: the last byte before the gap is taken for its first.
IsBssEarly(secs, rva) ==
  /\ Covering(secs, rva) # {}
  /\ rva - SectionAt(secs, rva).va + 1 >= SectionAt(secs, rva).rsize

IsBss(secs, rva) ==
  /\ Covering(secs, rva) # {}
  /\ rva - SectionAt(secs, rva).va >= SectionAt(secs, rva).rsize

\* checked_sub(image_base).map(|r| r as u32)
VaToRva(base, va) == IF va < base THEN None ELSE (va - base) % U32_RANGE

VaToFile(base, secs, va) ==
  IF VaToRva(base, va) = None THEN None ELSE RvaToFile(secs, VaToRva(base, va))

\* file_slice(off, n) is Some
InFile(len, off, n) == off + n <= len

-----------------------------------------------------------------------------
(***************************************************************************)
(* What the maps should be, with no first section and no wrapping: section *)
(* s puts the byte of the file at off at rva, or puts a zero there.        *)
(***************************************************************************)
Spans(s, rva) == s.va <= rva /\ rva < s.va + s.vsize
Backs(s, rva, off) == Spans(s, rva) /\ rva - s.va < s.rsize /\ off = s.raw + rva - s.va

\* A section table as linkers write it: no section reaches the end of the
\* address space, and no two share an address.
WellFormed(secs) ==
  /\ \A k \in DOMAIN secs : secs[k].va + secs[k].vsize < U32_RANGE
  /\ \A j, k \in DOMAIN secs : \A rva \in U32 :
       Spans(secs[j], rva) /\ Spans(secs[k], rva) => j = k
=============================================================================
