------------------------------- MODULE Loader -------------------------------
(***************************************************************************)
(* load and resolve_tables of src/decrypt/file.rs: from the bytes of the   *)
(* two files to the Metadata every other part reads, or to the first error *)
(* met.  Also va_to_image_off of src/metadata.rs, the second map from a VA *)
(* to the image, which lives on what resolve_tables puts into Tables.      *)
(***************************************************************************)
EXTENDS PeImage, FiniteSets

CONSTANTS
  BODY_OFFSET,   \* 0x210
  Anchors,       \* the VAs of the three pointers: typearr, methodptrs, generic
  PTR_LEN,       \* 8
  TYPE_LEN,      \* 16, the stride of typearr
  KIND_OFF,      \* 0xA, of the kind in an entry
  CHECKED,       \* 256, the entries of typearr looked at
  NEEDED,        \* 240, how many of them must have a kind there is
  Exes, Dats     \* the files considered

(***************************************************************************)
(* A global-metadata.dat: its length, and whether it begins with "MHY\0".  *)
(* An executable: whether pelite parses it, ImageBase, the sections, the   *)
(* length of the file, whether a header in .rdata validates (HeaderScan),  *)
(* the u64 at a file offset, and the offsets of the bytes that are a kind. *)
(***************************************************************************)
IsExe(e) ==
  /\ e.base \in Nat /\ e.len \in Nat
  /\ e.sections \in Seq(SectionType)
  /\ e.ptr \in [0 .. e.len -> Nat]

ASSUME LoaderAssumption ==
  /\ Anchors \in Seq(Nat) /\ Len(Anchors) = 3
  /\ PTR_LEN \in Nat \ {0}
  /\ \A e \in Exes : IsExe(e)

VARIABLES
  exe, dat,   \* the files
  chain,      \* the VAs read at the anchors
  placed,     \* their file offsets: typearr, methodptrs, generic_classes
  window,     \* rdata_va_start, rdata_file_start and rdata_size
  lpc         \* the check to come; "ok" and "err" are the results

loadVars == <<exe, dat, chain, placed, window, lpc>>

NoWindow == [va |-> 0, file |-> 0, size |-> 0]

Init ==
  /\ exe \in Exes /\ dat \in Dats
  /\ chain = <<>> /\ placed = <<>>
  /\ window = NoWindow
  /\ lpc = "dat"

-----------------------------------------------------------------------------
Rdata(e) == SectionNamed(e.sections, ".rdata")

\* img_len: the end of the raw data that ends last; too long a file_slice is
\* not clamped but None.
ImgFits(e) == \A k \in DOMAIN e.sections : e.sections[k].raw + e.sections[k].rsize <= e.len

\* Mutant: the slice of the whole file is clamped.
HeaderFoundClamped(e) == Named(e.sections, ".rdata") # {} /\ e.embedded

\* find_embedded_header is Some; its search is HeaderScan.
HeaderFound(e) == Named(e.sections, ".rdata") # {} /\ ImgFits(e) /\ e.embedded

ToFile(e, va) == VaToFile(e.base, e.sections, va)

\* read_va_u64
ReadPtr(e, va) ==
  IF ToFile(e, va) # None /\ InFile(e.len, ToFile(e, va), PTR_LEN)
    THEN e.ptr[ToFile(e, va)]
    ELSE None

\* img_full ends where the raw data that ends last does.
InImage(e, off) ==
  \E k \in DOMAIN e.sections : off < e.sections[k].raw + e.sections[k].rsize

\* The valid kinds among the first entries of typearr.
GoodKinds(e, typearr) ==
  {n \in 0 .. CHECKED - 1 :
     LET off == typearr + TYPE_LEN * n + KIND_OFF
     IN  InImage(e, off) /\ off \in e.kinds}

Pass(pc, next, ok) ==
  /\ lpc = pc
  /\ lpc' = IF ok THEN next ELSE "err"
  /\ UNCHANGED <<exe, dat>>

CheckDat ==
  /\ Pass("dat", "parse", dat.len > BODY_OFFSET /\ dat.magic)
  /\ UNCHANGED <<chain, placed, window>>

ParseImage ==
  /\ Pass("parse", "header", exe.parses)
  /\ UNCHANGED <<chain, placed, window>>

FindHeader ==
  /\ Pass("header", "chain", HeaderFound(exe))
  /\ UNCHANGED <<chain, placed, window>>

\* Mutant: the third is forgotten.
SecondDue(s) == Len(s) = 1

\* Of the three pointers, and the three tables, the last is due.
LastDue(s) == Len(s) = 2

\* F400_VA + 0x18, F3F8_VA + 0x60, F400_VA + 0x30
ReadAnchor ==
  LET va == ReadPtr(exe, Anchors[Len(chain) + 1])
  IN  /\ Pass("chain", IF LastDue(chain) THEN "place" ELSE "chain", va # None)
      /\ chain' = IF va # None THEN Append(chain, va) ELSE chain
      /\ UNCHANGED <<placed, window>>

\* Mutant: the VA before the one that is due is placed again.
NextVaAgain(c, p) == c[IF p = <<>> THEN 1 ELSE Len(p)]

\* typearr_va, methodptrs_va, generic_va
NextVa(c, p) == c[Len(p) + 1]

\* to_file(va, ..)?, in the order of the fields of Tables.  The section is
\* there: without .rdata no header was found.
PlaceTable ==
  LET off == ToFile(exe, NextVa(chain, placed))
  IN  /\ Pass("place", IF LastDue(placed) THEN "window" ELSE "place", off # None)
      /\ placed' = IF off # None THEN Append(placed, off) ELSE placed
      /\ UNCHANGED <<chain, window>>

\* Mutant: the window begins at the section's address in the file.
WindowByFile(e) ==
  [va |-> e.base + Rdata(e).raw, file |-> Rdata(e).raw, size |-> Rdata(e).rsize]

WindowOf(e) ==
  [va |-> e.base + Rdata(e).va, file |-> Rdata(e).raw, size |-> Rdata(e).rsize]

SetWindow ==
  /\ Pass("window", "kinds", TRUE)
  /\ window' = WindowOf(exe)
  /\ UNCHANGED <<chain, placed>>

CheckKinds ==
  /\ Pass("kinds", "ok", Cardinality(GoodKinds(exe, placed[1])) >= NEEDED)
  /\ UNCHANGED <<chain, placed, window>>

Next ==
  \/ CheckDat
  \/ ParseImage
  \/ FindHeader
  \/ ReadAnchor
  \/ PlaceTable
  \/ SetWindow
  \/ CheckKinds

Spec == Init /\ [][Next]_loadVars

\* va_to_image_off
VaToImageOff(w, va) ==
  IF w.va <= va /\ va - w.va < w.size THEN w.file + (va - w.va) ELSE None

-----------------------------------------------------------------------------
Placing == lpc \in {"place", "window", "kinds", "ok"}

LoadTypeOK ==
  /\ chain \in Seq(Nat) /\ placed \in Seq(Nat)
  /\ Len(chain) <= 3 /\ Len(placed) <= 3
  /\ lpc = "chain" => Len(chain) < 3
  /\ Placing => Len(chain) = 3
  /\ lpc = "place" => Len(placed) < 3
  /\ lpc \in {"window", "kinds", "ok"} => Len(placed) = 3
  /\ window = NoWindow \/ window = WindowOf(exe)

(***************************************************************************)
(* No table begins past the end of the file, and no address in .rdata maps *)
(* there, in a truncated file either.  resolve_tables does not look: it    *)
(* relies on find_embedded_header, which refuses a file that is shorter    *)
(* than its section table says.                                            *)
(***************************************************************************)
TablesInFile ==
  /\ \A n \in DOMAIN placed : placed[n] < exe.len
  /\ window.file + window.size <= exe.len

(***************************************************************************)
(* In an image a linker could have written, what load returns is what the  *)
(* program itself would find: each table is the byte behind the pointer    *)
(* that lies at its anchor.                                                *)
(***************************************************************************)
BehindVa(va, off) ==
  \E k \in DOMAIN exe.sections : Backs(exe.sections[k], va - exe.base, off)

InReach(va) == va - exe.base < U32_RANGE

LoadedAsMapped ==
  lpc = "ok" /\ WellFormed(exe.sections) =>
    \A n \in 1 .. 3 :
      /\ InReach(chain[n]) => BehindVa(chain[n], placed[n])
      /\ InReach(Anchors[n]) =>
           \E off \in 0 .. exe.len - PTR_LEN :
             BehindVa(Anchors[n], off) /\ chain[n] = exe.ptr[off]

(***************************************************************************)
(* The two maps from a VA to the image, va_to_file of pe.rs and            *)
(* va_to_image_off of metadata.rs, agree on every address of .rdata, those *)
(* that no byte of the file backs included.                                *)
(***************************************************************************)
MappingsAgree ==
  lpc \in {"kinds", "ok"} /\ WellFormed(exe.sections) =>
    \A rva \in U32 :
      Spans(Rdata(exe), rva) =>
        ToFile(exe, exe.base + rva) = VaToImageOff(window, exe.base + rva)

(***************************************************************************)
(* rva_to_file and is_bss share out the address space: a byte of the file  *)
(* backs an address, or it is BSS, or no section spans it.                 *)
(***************************************************************************)
BssIffNoBytes ==
  WellFormed(exe.sections) =>
    \A rva \in U32 :
      LET off   == RvaToFile(exe.sections, rva)
          spans == {k \in DOMAIN exe.sections : Spans(exe.sections[k], rva)}
      IN  /\ IsBss(exe.sections, rva) => spans # {} /\ off = None
          /\ off # None => \E k \in spans : Backs(exe.sections[k], rva, off)
          /\ spans # {} => IsBss(exe.sections, rva) \/ off # None
=============================================================================
