---------------------------- MODULE LoaderProofs ----------------------------
(* Proofs about the executable: load, for every pair of files and every     *)
(* section table, the walk over the imports, for every file, and the search  *)
(* for the embedded header, for every image and every length.               *)
EXTENDS MCImage, HeaderScan, NaturalLemmas, SequenceTheorems

(***************************************************************************)
(* The inductive invariant: nothing is read before the header was found,   *)
(* and so before the file is known to be as long as its section table      *)
(* says; every VA of the chain was read at its anchor; every table is      *)
(* where the map of pe.rs puts that VA.                                    *)
(***************************************************************************)
LoadInv ==
  /\ exe \in Exes
  /\ LoadTypeOK
  /\ lpc \in {"dat", "parse", "header"} => chain = <<>>
  /\ lpc \in {"dat", "parse", "header", "chain"} => placed = <<>>
  /\ lpc = "chain" \/ Placing \/ placed # <<>> \/ window # NoWindow => HeaderFound(exe)
  /\ \A m \in DOMAIN chain : ReadPtr(exe, Anchors[m]) = chain[m] /\ chain[m] # None
  /\ \A m \in DOMAIN placed :
       m \in DOMAIN chain /\ ToFile(exe, chain[m]) = placed[m] /\ placed[m] # None
  /\ lpc \in {"kinds", "ok"} => window = WindowOf(exe)

LEMMA OneOfThree ==
  ASSUME NEW S, NEW s \in Seq(S), Len(s) = 3, NEW m \in Nat, 1 <= m, m <= 3
  PROVE  m \in DOMAIN s /\ s[m] \in S
<1>1. m \in 1 .. Len(s)
  OBVIOUS
<1>2. s[m] \in S
  BY <1>1, ElementOfSeq
<1>3. DOMAIN s = 1 .. Len(s)
  OBVIOUS
<1> QED
  BY <1>1, <1>2, <1>3

LEMMA BelowTwo == \A m \in Nat : m <= 2 /\ m # 2 => m + 1 < 3
OBVIOUS

LEMMA AnchorsAreVAs == \A m \in Nat : 1 <= m /\ m <= 3 => Anchors[m] \in Nat
<1>1. Anchors \in Seq(Nat) /\ Len(Anchors) = 3
  BY LoaderAssumption
<1> QED
  BY <1>1, OneOfThree

LEMMA ExesAreExes == \A e \in Exes : IsExe(e)
BY LoaderAssumption

-----------------------------------------------------------------------------
\* A lookup by FirstOf finds a member of the set, and the only one if so.
LEMMA FirstIsMember ==
  ASSUME NEW S, S \subseteq Nat, S # {}
  PROVE  FirstOf(S) \in S
BY LeastNatural DEF FirstOf

\* What the loop of rva_to_file returns comes from a section that covers the
\* address and has raw data there.
LEMMA MapInside ==
  ASSUME NEW secs \in Seq(SectionType), NEW rva \in Nat,
         RvaToFile(secs, rva) # None
  PROVE  \E k \in DOMAIN secs :
           /\ Covers(secs[k], rva)
           /\ rva - secs[k].va < secs[k].rsize
           /\ RvaToFile(secs, rva) = secs[k].raw + (rva - secs[k].va)
<1>1. Covering(secs, rva) # {} /\ Covering(secs, rva) \subseteq Nat
  BY DEF RvaToFile, Covering
<1>2. FirstOf(Covering(secs, rva)) \in Covering(secs, rva)
  BY <1>1, FirstIsMember
<1>3. /\ FirstOf(Covering(secs, rva)) \in DOMAIN secs
      /\ Covers(secs[FirstOf(Covering(secs, rva))], rva)
  BY <1>2 DEF Covering
<1> QED
  BY <1>1, <1>3 DEF RvaToFile, SectionAt

\* In a well-formed table a section covers the addresses it spans, and is
\* the first to do so.
LEMMA CoversIsSpans ==
  ASSUME NEW secs \in Seq(SectionType), WellFormed(secs),
         NEW k \in DOMAIN secs, NEW rva \in Int
  PROVE  Covers(secs[k], rva) <=> Spans(secs[k], rva)
<1>1. /\ secs[k].va \in Nat /\ secs[k].vsize \in Nat
      /\ secs[k].va + secs[k].vsize < U32_RANGE
  <2>1. secs[k] \in SectionType
    OBVIOUS
  <2> QED
    BY <2>1 DEF SectionType, U32, WellFormed
<1>2. EndOf(secs[k]) = secs[k].va + secs[k].vsize
  <2>1. ASSUME NEW m \in Nat, m < U32_RANGE
        PROVE  m % U32_RANGE = m
    BY <2>1, U32Assumption
  <2>2. secs[k].va + secs[k].vsize \in Nat
    BY <1>1
  <2> QED
    BY <1>1, <2>1, <2>2 DEF EndOf
<1> QED
  BY <1>2 DEF Covers, Spans

LEMMA MapWhereSpanned ==
  ASSUME NEW secs \in Seq(SectionType), WellFormed(secs),
         NEW k \in DOMAIN secs, NEW rva \in U32, Spans(secs[k], rva)
  PROVE  RvaToFile(secs, rva) =
           IF rva - secs[k].va < secs[k].rsize
             THEN secs[k].raw + (rva - secs[k].va) ELSE None
<1>1. Covering(secs, rva) = {k}
  <2>1. \A j \in DOMAIN secs : Spans(secs[j], rva) => j = k
    BY DEF WellFormed
  <2> QED
    BY <2>1, CoversIsSpans DEF Covering, U32
<1>2. FirstOf(Covering(secs, rva)) = k
  <2>1. k \in Nat
    OBVIOUS
  <2>2. FirstOf({k}) \in {k}
    BY <2>1, FirstIsMember
  <2> QED
    BY <1>1, <2>2
<1> QED
  BY <1>1, <1>2 DEF RvaToFile, SectionAt

\* Inside the 32 bits after ImageBase, a VA is ImageBase and its RVA.
LEMMA RvaOfVa ==
  ASSUME NEW base \in Nat, NEW rva \in U32
  PROVE  VaToRva(base, base + rva) = rva
<1>1. rva \in Nat /\ rva < U32_RANGE /\ base + rva - base = rva
  BY U32Assumption DEF U32
<1>2. rva % U32_RANGE = rva
  BY <1>1, U32Assumption
<1> QED
  BY <1>1, <1>2 DEF VaToRva

LEMMA RvaRange ==
  ASSUME NEW base \in Nat, NEW va \in Nat, VaToRva(base, va) # None
  PROVE  VaToRva(base, va) \in U32 /\ base <= va
<1>1. base <= va /\ va - base \in Nat
  BY DEF VaToRva
<1>2. (va - base) % U32_RANGE \in 0 .. U32_RANGE - 1
  BY <1>1, U32Assumption
<1> QED
  BY <1>1, <1>2 DEF VaToRva, U32

-----------------------------------------------------------------------------
\* An offset that va_to_file returns lies in the file once the header was
\* found.
LEMMA ToFileInside ==
  ASSUME NEW e \in Exes, NEW va \in Nat, ToFile(e, va) # None
  PROVE  /\ ToFile(e, va) \in Nat
         /\ HeaderFound(e) => ToFile(e, va) < e.len
<1> DEFINE rva == VaToRva(e.base, va)
<1>1. e.base \in Nat /\ e.sections \in Seq(SectionType) /\ e.len \in Nat
  BY ExesAreExes DEF IsExe
<1>2. rva # None /\ RvaToFile(e.sections, rva) = ToFile(e, va)
  BY DEF ToFile, VaToFile
<1>3. rva \in Nat
  BY <1>1, <1>2, RvaRange DEF U32
<1>4. PICK k \in DOMAIN e.sections :
        /\ Covers(e.sections[k], rva)
        /\ rva - e.sections[k].va < e.sections[k].rsize
        /\ ToFile(e, va) = e.sections[k].raw + (rva - e.sections[k].va)
  BY <1>1, <1>2, <1>3, MapInside
<1>5. e.sections[k] \in SectionType
  BY <1>1
<1>6. /\ e.sections[k].va \in Nat /\ e.sections[k].raw \in Nat
      /\ e.sections[k].rsize \in Nat /\ e.sections[k].va <= rva
  BY <1>4, <1>5 DEF SectionType, U32, Covers
<1>7. HeaderFound(e) => e.sections[k].raw + e.sections[k].rsize <= e.len
  BY DEF HeaderFound, ImgFits
<1>8. ToFile(e, va) \in Nat /\ ToFile(e, va) < e.sections[k].raw + e.sections[k].rsize
  <2> HIDE DEF rva
  <2> QED
    BY <1>3, <1>4, <1>6
<1> QED
  BY <1>1, <1>6, <1>7, <1>8

LEMMA ReadPtrNat ==
  ASSUME NEW e \in Exes, NEW va \in Nat, ReadPtr(e, va) # None
  PROVE  ReadPtr(e, va) \in Nat
<1>1. e.ptr \in [0 .. e.len -> Nat] /\ e.len \in Nat
  BY ExesAreExes DEF IsExe
<1>2. ToFile(e, va) # None /\ ToFile(e, va) + PTR_LEN <= e.len
      /\ ReadPtr(e, va) = e.ptr[ToFile(e, va)]
  BY DEF ReadPtr, InFile
<1>3. ToFile(e, va) \in 0 .. e.len
  BY <1>1, <1>2, ToFileInside, LoaderAssumption
<1> QED
  BY <1>1, <1>2, <1>3

LEMMA RdataIsSection ==
  ASSUME NEW e \in Exes, HeaderFound(e)
  PROVE  \E k \in DOMAIN e.sections : Rdata(e) = e.sections[k]
<1>1. /\ Named(e.sections, ".rdata") # {}
      /\ Named(e.sections, ".rdata") \subseteq DOMAIN e.sections
  BY DEF HeaderFound, Named
<1>2. DOMAIN e.sections \subseteq Nat
  BY ExesAreExes DEF IsExe
<1>3. FirstOf(Named(e.sections, ".rdata")) \in Named(e.sections, ".rdata")
  BY <1>1, <1>2, FirstIsMember
<1> QED
  BY <1>1, <1>3 DEF Rdata, SectionNamed

-----------------------------------------------------------------------------
LEMMA InitLoadInv == Init => LoadInv
<1> SUFFICES ASSUME Init PROVE LoadInv
  OBVIOUS
<1>1. /\ chain = <<>> /\ placed = <<>> /\ lpc = "dat" /\ window = NoWindow
      /\ exe \in Exes
  BY DEF Init
<1>2. /\ chain \in Seq(Nat) /\ Len(chain) = 0 /\ DOMAIN chain = {}
      /\ placed \in Seq(Nat) /\ Len(placed) = 0 /\ DOMAIN placed = {}
  BY <1>1
<1> QED
  BY <1>1, <1>2 DEF LoadInv, LoadTypeOK, Placing

LEMMA NextLoadInv == LoadInv /\ [Next]_loadVars => LoadInv'
<1> SUFFICES ASSUME LoadInv, [Next]_loadVars
             PROVE  LoadInv'
  OBVIOUS
<1>0. /\ exe \in Exes /\ chain \in Seq(Nat) /\ placed \in Seq(Nat)
      /\ window = NoWindow \/ window = WindowOf(exe)
  BY DEF LoadInv, LoadTypeOK
<1>l. Len(chain) \in Nat /\ Len(placed) \in Nat
  BY <1>0
<1>f. exe' = exe
  BY DEF Next, CheckDat, ParseImage, FindHeader, ReadAnchor, PlaceTable,
         SetWindow, CheckKinds, Pass, loadVars
<1>1. CASE CheckDat
  BY <1>1, <1>f DEF CheckDat, Pass, LoadInv, LoadTypeOK, Placing
<1>2. CASE ParseImage
  BY <1>2, <1>f DEF ParseImage, Pass, LoadInv, LoadTypeOK, Placing
<1>3. CASE FindHeader
  BY <1>3, <1>f DEF FindHeader, Pass, LoadInv, LoadTypeOK, Placing
<1>4. CASE ReadAnchor
  <2> DEFINE va == ReadPtr(exe, Anchors[Len(chain) + 1])
  <2>1. /\ lpc = "chain" /\ placed' = placed /\ window' = window
        /\ lpc' = IF va # None
                    THEN IF Len(chain) = 2 THEN "place" ELSE "chain"
                    ELSE "err"
        /\ chain' = IF va # None THEN Append(chain, va) ELSE chain
    BY <1>4 DEF ReadAnchor, Pass, LastDue
  <2>2. Len(chain) \in Nat /\ Len(chain) <= 2 /\ HeaderFound(exe)
    BY <1>l, <2>1 DEF LoadInv, LoadTypeOK
  <2>3. CASE va = None
    BY <2>1, <2>2, <2>3, <1>0, <1>f DEF LoadInv, LoadTypeOK, Placing
  <2>4. CASE va # None
    <3>1. va \in Nat /\ va = ReadPtr(exe, Anchors[Len(chain) + 1])
      <4>1. Anchors[Len(chain) + 1] \in Nat
        <5>1. Len(chain) + 1 \in Nat /\ 1 <= Len(chain) + 1 /\ Len(chain) + 1 <= 3
          BY <2>2
        <5> QED
          BY <5>1, AnchorsAreVAs
      <4> QED
        BY <2>4, <4>1, <1>0, ReadPtrNat
    <3> HIDE DEF va
    <3>2. chain' = Append(chain, va)
      BY <2>1, <2>4
    <3>3. /\ chain' \in Seq(Nat) /\ Len(chain') = Len(chain) + 1
          /\ \A m \in DOMAIN chain' : m \in DOMAIN chain \/ m = Len(chain) + 1
          /\ \A m \in DOMAIN chain : m \in DOMAIN chain' /\ chain'[m] = chain[m]
          /\ chain'[Len(chain) + 1] = va
      BY <3>1, <3>2, <1>0
    <3>4. \A m \in DOMAIN chain' : ReadPtr(exe, Anchors[m]) = chain'[m] /\ chain'[m] # None
      BY <3>1, <3>3, <2>4 DEF LoadInv
    <3>5. \A m \in DOMAIN placed :
            m \in DOMAIN chain' /\ ToFile(exe, chain'[m]) = placed[m] /\ placed[m] # None
      BY <3>3 DEF LoadInv
    <3>6. LoadTypeOK'
      <4>1. placed' = <<>> /\ Len(placed') = 0 /\ placed' \in Seq(Nat)
        BY <2>1 DEF LoadInv
      <4>2. \/ lpc' = "place" /\ Len(chain') = 3
            \/ lpc' = "chain" /\ Len(chain') < 3
        <5>1. lpc' = IF Len(chain) = 2 THEN "place" ELSE "chain"
          BY <2>1, <2>4
        <5>2. Len(chain) = 2 => Len(chain') = 3
          BY <3>3
        <5>3. Len(chain) # 2 => Len(chain') < 3
          <6>1. Len(chain') = Len(chain) + 1
            BY <3>3
          <6> QED
            BY <2>2, <6>1, BelowTwo
        <5> QED
          BY <5>1, <5>2, <5>3
      <4>3. window' = NoWindow \/ window' = WindowOf(exe')
        BY <2>1, <1>0, <1>f
      <4> QED
        BY <3>3, <4>1, <4>2, <4>3 DEF LoadTypeOK, Placing
    <3> QED
      BY <2>1, <2>2, <2>4, <3>4, <3>5, <3>6, <1>f, <1>0 DEF LoadInv, Placing
  <2> QED
    BY <2>3, <2>4
<1>5. CASE PlaceTable
  <2> DEFINE off == ToFile(exe, NextVa(chain, placed))
  <2>1. /\ lpc = "place" /\ chain' = chain /\ window' = window
        /\ lpc' = IF off # None
                    THEN IF Len(placed) = 2 THEN "window" ELSE "place"
                    ELSE "err"
        /\ placed' = IF off # None THEN Append(placed, off) ELSE placed
    BY <1>5 DEF PlaceTable, Pass, LastDue
  <2>2. Len(placed) \in Nat /\ Len(placed) <= 2 /\ Len(chain) = 3 /\ HeaderFound(exe)
    BY <1>l, <2>1 DEF LoadInv, LoadTypeOK, Placing
  <2>3. CASE off = None
    BY <2>1, <2>2, <2>3, <1>0, <1>f DEF LoadInv, LoadTypeOK, Placing
  <2>4. CASE off # None
    <3>1. /\ Len(placed) + 1 \in DOMAIN chain
          /\ off = ToFile(exe, chain[Len(placed) + 1]) /\ off \in Nat
      <4>1. Len(placed) + 1 \in DOMAIN chain /\ chain[Len(placed) + 1] \in Nat
        <5>1. \A m \in Nat : 1 <= m /\ m <= 3 => m \in DOMAIN chain /\ chain[m] \in Nat
          BY <2>2, <1>0, OneOfThree
        <5>2. Len(placed) + 1 \in Nat /\ 1 <= Len(placed) + 1 /\ Len(placed) + 1 <= 3
          BY <2>2
        <5> QED
          BY <5>1, <5>2
      <4> QED
        BY <2>4, <4>1, <1>0, ToFileInside DEF NextVa
    <3> HIDE DEF off
    <3>2. placed' = Append(placed, off)
      BY <2>1, <2>4
    <3>3. /\ placed' \in Seq(Nat) /\ Len(placed') = Len(placed) + 1
          /\ \A m \in DOMAIN placed' : m \in DOMAIN placed \/ m = Len(placed) + 1
          /\ \A m \in DOMAIN placed : m \in DOMAIN placed' /\ placed'[m] = placed[m]
          /\ placed'[Len(placed) + 1] = off
      BY <3>1, <3>2, <1>0
    <3>4. \A m \in DOMAIN placed' :
            m \in DOMAIN chain /\ ToFile(exe, chain[m]) = placed'[m] /\ placed'[m] # None
      BY <3>1, <3>3, <2>4 DEF LoadInv
    <3>5. LoadTypeOK'
      <4>1. \/ lpc' = "window" /\ Len(placed') = 3
            \/ lpc' = "place" /\ Len(placed') < 3
        <5>1. lpc' = IF Len(placed) = 2 THEN "window" ELSE "place"
          BY <2>1, <2>4
        <5>2. Len(placed) = 2 => Len(placed') = 3
          BY <3>3
        <5>3. Len(placed) # 2 => Len(placed') < 3
          <6>1. Len(placed') = Len(placed) + 1
            BY <3>3
          <6> QED
            BY <2>2, <6>1, BelowTwo
        <5> QED
          BY <5>1, <5>2, <5>3
      <4>2. window' = NoWindow \/ window' = WindowOf(exe')
        BY <2>1, <1>0, <1>f
      <4>3. chain' \in Seq(Nat) /\ Len(chain') = 3
        BY <2>1, <2>2, <1>0
      <4> QED
        BY <3>3, <4>1, <4>2, <4>3 DEF LoadTypeOK, Placing
    <3> QED
      BY <2>1, <2>2, <2>4, <3>4, <3>5, <1>f, <1>0 DEF LoadInv, Placing
  <2> QED
    BY <2>3, <2>4
<1>6. CASE SetWindow
  BY <1>6, <1>f DEF SetWindow, Pass, LoadInv, LoadTypeOK, Placing
<1>7. CASE CheckKinds
  BY <1>7, <1>f DEF CheckKinds, Pass, LoadInv, LoadTypeOK, Placing
<1>8. CASE UNCHANGED loadVars
  BY <1>8, <1>f DEF loadVars, LoadInv, LoadTypeOK, Placing
<1> QED
  BY <1>1, <1>2, <1>3, <1>4, <1>5, <1>6, <1>7, <1>8 DEF Next

THEOREM LoadInvariant == Spec => []LoadInv
BY InitLoadInv, NextLoadInv, PTL DEF Spec

-----------------------------------------------------------------------------
(***************************************************************************)
(* load keeps at most three VAs and three offsets, and has all of them     *)
(* where it needs them.                                                    *)
(***************************************************************************)
THEOREM LoadTypeCorrect == Spec => []LoadTypeOK
<1>1. LoadInv => LoadTypeOK
  BY DEF LoadInv
<1> QED
  BY <1>1, LoadInvariant, PTL

(***************************************************************************)
(* Whatever the section table says, no table and no address of .rdata is   *)
(* placed past the end of the file: find_embedded_header has refused the   *)
(* files that are cut short before anything is placed.                     *)
(***************************************************************************)
THEOREM TablesStayInFile == Spec => []TablesInFile
<1>1. LoadInv => TablesInFile
  <2> SUFFICES ASSUME LoadInv
               PROVE  TablesInFile
    OBVIOUS
  <2>1. exe \in Exes /\ chain \in Seq(Nat) /\ exe.len \in Nat
    BY ExesAreExes DEF LoadInv, LoadTypeOK, IsExe
  <2>2. ASSUME NEW m \in DOMAIN placed
        PROVE  placed[m] < exe.len
    <3>1. /\ m \in DOMAIN chain /\ ToFile(exe, chain[m]) = placed[m]
          /\ placed[m] # None
      BY DEF LoadInv
    <3>2. chain[m] \in Nat
      BY <2>1, <3>1
    <3>3. HeaderFound(exe)
      <4>1. placed # <<>>
        OBVIOUS
      <4> QED
        BY <4>1 DEF LoadInv
    <3> QED
      BY <2>1, <3>1, <3>2, <3>3, ToFileInside
  <2>3. window.file + window.size <= exe.len
    <3>1. CASE window = NoWindow
      BY <3>1, <2>1 DEF NoWindow
    <3>2. CASE window # NoWindow
      <4>1. window = WindowOf(exe) /\ HeaderFound(exe)
        BY <3>2 DEF LoadInv, LoadTypeOK
      <4>2. PICK k \in DOMAIN exe.sections : Rdata(exe) = exe.sections[k]
        BY <2>1, <4>1, RdataIsSection
      <4>3. exe.sections[k].raw + exe.sections[k].rsize <= exe.len
        BY <4>1 DEF HeaderFound, ImgFits
      <4> QED
        BY <4>1, <4>2, <4>3 DEF WindowOf
    <3> QED
      BY <3>1, <3>2
  <2> QED
    BY <2>2, <2>3 DEF TablesInFile
<1> QED
  BY <1>1, LoadInvariant, PTL

(***************************************************************************)
(* In every well-formed image, va_to_file and va_to_image_off agree on all *)
(* addresses of .rdata.                                                    *)
(***************************************************************************)
THEOREM MapsAgree == Spec => []MappingsAgree
<1>1. LoadInv => MappingsAgree
  <2> SUFFICES ASSUME LoadInv, lpc \in {"kinds", "ok"}, WellFormed(exe.sections),
                      NEW rva \in U32, Spans(Rdata(exe), rva)
               PROVE  ToFile(exe, exe.base + rva)
                        = VaToImageOff(window, exe.base + rva)
    BY DEF MappingsAgree
  <2>1. /\ exe \in Exes /\ window = WindowOf(exe) /\ HeaderFound(exe)
        /\ exe.base \in Nat /\ exe.sections \in Seq(SectionType)
    BY ExesAreExes DEF LoadInv, IsExe, Placing
  <2>2. PICK k \in DOMAIN exe.sections : Rdata(exe) = exe.sections[k]
    BY <2>1, RdataIsSection
  <2> DEFINE s == exe.sections[k]
  <2>3. s \in SectionType
    BY <2>1
  <2>4. s.va \in Nat /\ s.raw \in Nat /\ s.rsize \in Nat /\ rva \in Nat /\ s.va <= rva
    BY <2>2, <2>3, U32Assumption DEF SectionType, U32, Spans
  <2>5. RvaToFile(exe.sections, rva) =
          IF rva - s.va < s.rsize THEN s.raw + (rva - s.va) ELSE None
    BY <2>1, <2>2, MapWhereSpanned
  <2>6. ToFile(exe, exe.base + rva) = RvaToFile(exe.sections, rva)
    <3>1. VaToRva(exe.base, exe.base + rva) = rva /\ rva # None
      <4>1. VaToRva(exe.base, exe.base + rva) = rva
        BY <2>1, RvaOfVa
      <4>2. rva # None
        BY <2>4 DEF None
      <4> QED
        BY <4>1, <4>2
    <3> QED
      BY <3>1 DEF ToFile, VaToFile
  <2>7. /\ window.va = exe.base + s.va /\ window.file = s.raw
        /\ window.size = s.rsize
    BY <2>1, <2>2 DEF WindowOf
  <2>8. /\ window.va <= exe.base + rva
        /\ (exe.base + rva) - window.va = rva - s.va
    <3> HIDE DEF s
    <3> QED
      BY <2>1, <2>4, <2>7
  <2>9. VaToImageOff(window, exe.base + rva) =
          IF rva - s.va < s.rsize THEN s.raw + (rva - s.va) ELSE None
    <3> DEFINE va == exe.base + rva
    <3>1. VaToImageOff(window, va) =
            IF window.va <= va /\ va - window.va < window.size
              THEN window.file + (va - window.va) ELSE None
      <4> HIDE DEF va, s
      <4> QED
        BY DEF VaToImageOff
    <3>2. window.va <= va /\ va - window.va = rva - s.va
      BY <2>8
    <3>3. VaToImageOff(window, va) =
            IF rva - s.va < s.rsize THEN s.raw + (rva - s.va) ELSE None
      <4> HIDE DEF va, s
      <4> QED
        BY <2>7, <3>1, <3>2
    <3> QED
      BY <3>3
  <2> QED
    BY <2>5, <2>6, <2>9
<1> QED
  BY <1>1, LoadInvariant, PTL
-----------------------------------------------------------------------------
\* What va_to_file finds in a well-formed image is the byte that a section
\* puts at the address.
LEMMA MapBacks ==
  ASSUME NEW e \in Exes, WellFormed(e.sections), NEW va \in Nat, va - e.base < U32_RANGE,
         ToFile(e, va) # None
  PROVE  \E k \in DOMAIN e.sections : Backs(e.sections[k], va - e.base, ToFile(e, va))
<1>1. e.base \in Nat /\ e.sections \in Seq(SectionType)
  BY ExesAreExes DEF IsExe
<1>2. VaToRva(e.base, va) # None /\ ToFile(e, va) = RvaToFile(e.sections, VaToRva(e.base, va))
  BY DEF ToFile, VaToFile
<1>3. e.base <= va
  BY <1>1, <1>2, RvaRange
<1> DEFINE rva == va - e.base
<1>4. rva \in U32 /\ rva \in Nat
  BY <1>1, <1>3, U32Assumption DEF U32
<1>5. VaToRva(e.base, va) = rva
  <2>1. e.base + rva = va
    BY <1>1
  <2> HIDE DEF rva
  <2> QED
    BY <1>1, <1>4, <2>1, RvaOfVa
<1> HIDE DEF rva
<1>6. PICK k \in DOMAIN e.sections :
        /\ Covers(e.sections[k], rva)
        /\ rva - e.sections[k].va < e.sections[k].rsize
        /\ ToFile(e, va) = e.sections[k].raw + (rva - e.sections[k].va)
  BY <1>1, <1>2, <1>4, <1>5, MapInside
<1>7. Spans(e.sections[k], rva)
  BY <1>1, <1>4, <1>6, CoversIsSpans
<1>8. e.sections[k].raw + (rva - e.sections[k].va) = e.sections[k].raw + rva - e.sections[k].va
  <2>1. e.sections[k] \in SectionType
    BY <1>1
  <2> QED
    BY <1>4, <2>1 DEF SectionType, U32
<1> QED
  BY <1>6, <1>7, <1>8 DEF Backs, rva

(***************************************************************************)
(* In every well-formed image, each table load places is the byte behind   *)
(* the pointer that lies at its anchor, and no other.                      *)
(***************************************************************************)
THEOREM PlacedBehindAnchors == Spec => []LoadedAsMapped
<1>1. LoadInv => LoadedAsMapped
  <2> SUFFICES ASSUME LoadInv, lpc = "ok", WellFormed(exe.sections), NEW m \in 1 .. 3
               PROVE  /\ InReach(chain[m]) => BehindVa(chain[m], placed[m])
                      /\ InReach(Anchors[m]) =>
                           \E off \in 0 .. exe.len - PTR_LEN :
                             BehindVa(Anchors[m], off) /\ chain[m] = exe.ptr[off]
    BY DEF LoadedAsMapped
  <2>1. /\ exe \in Exes /\ chain \in Seq(Nat) /\ placed \in Seq(Nat)
        /\ Len(chain) = 3 /\ Len(placed) = 3
    BY DEF LoadInv, LoadTypeOK, Placing
  <2>2. m \in DOMAIN chain /\ m \in DOMAIN placed /\ chain[m] \in Nat /\ Anchors[m] \in Nat
    BY <2>1, OneOfThree, AnchorsAreVAs
  <2>3. ToFile(exe, chain[m]) = placed[m] /\ placed[m] # None
    BY <2>2 DEF LoadInv
  <2>4. ASSUME InReach(chain[m])
        PROVE  BehindVa(chain[m], placed[m])
    BY <2>1, <2>2, <2>3, <2>4, MapBacks DEF InReach, BehindVa
  <2>5. ASSUME InReach(Anchors[m])
        PROVE  \E off \in 0 .. exe.len - PTR_LEN :
                 BehindVa(Anchors[m], off) /\ chain[m] = exe.ptr[off]
    <3> DEFINE off == ToFile(exe, Anchors[m])
    <3>1. ReadPtr(exe, Anchors[m]) = chain[m] /\ chain[m] # None
      BY <2>2 DEF LoadInv
    <3>2. off # None /\ off + PTR_LEN <= exe.len /\ chain[m] = exe.ptr[off]
      BY <3>1 DEF ReadPtr, InFile
    <3>3. off \in Nat
      BY <2>1, <2>2, <3>2, ToFileInside
    <3>4. BehindVa(Anchors[m], off)
      BY <2>1, <2>2, <2>5, <3>2, MapBacks DEF InReach, BehindVa
    <3> HIDE DEF off
    <3>5. off \in 0 .. exe.len - PTR_LEN
      <4>1. exe.len \in Nat /\ PTR_LEN \in Nat
        BY <2>1, ExesAreExes, LoaderAssumption DEF IsExe
      <4> QED
        BY <3>2, <3>3, <4>1
    <3> QED
      BY <3>2, <3>4, <3>5
  <2> QED
    BY <2>4, <2>5
<1> QED
  BY <1>1, LoadInvariant, PTL

(***************************************************************************)
(* In every well-formed image, rva_to_file and is_bss share out the        *)
(* addresses that a section spans.                                         *)
(***************************************************************************)
THEOREM BssOrBytes == Spec => []BssIffNoBytes
<1>1. LoadInv => BssIffNoBytes
  <2> SUFFICES ASSUME LoadInv, WellFormed(exe.sections), NEW rva \in U32
               PROVE  LET off   == RvaToFile(exe.sections, rva)
                          spans == {k \in DOMAIN exe.sections : Spans(exe.sections[k], rva)}
                      IN  /\ IsBss(exe.sections, rva) => spans # {} /\ off = None
                          /\ off # None => \E k \in spans : Backs(exe.sections[k], rva, off)
                          /\ spans # {} => IsBss(exe.sections, rva) \/ off # None
    BY DEF BssIffNoBytes
  <2> DEFINE secs  == exe.sections
             off   == RvaToFile(secs, rva)
             spans == {k \in DOMAIN secs : Spans(secs[k], rva)}
  <2>1. secs \in Seq(SectionType) /\ rva \in Nat
    BY ExesAreExes DEF LoadInv, IsExe, U32
  <2>2. ASSUME NEW k \in DOMAIN secs
        PROVE  /\ secs[k].va \in Nat /\ secs[k].raw \in Nat /\ secs[k].rsize \in Nat
               /\ Covers(secs[k], rva) <=> Spans(secs[k], rva)
    <3>1. secs[k] \in SectionType
      BY <2>1
    <3>2. Covers(secs[k], rva) <=> Spans(secs[k], rva)
      BY <2>1, CoversIsSpans
    <3> QED
      BY <3>1, <3>2 DEF SectionType, U32
  <2> HIDE DEF secs
  <2>3. Covering(secs, rva) = spans
    BY <2>2 DEF Covering
  <2>4. ASSUME spans # {}
        PROVE  \E k \in spans : SectionAt(secs, rva) = secs[k]
    <3>1. spans \subseteq Nat
      BY <2>1
    <3>2. FirstOf(spans) \in spans
      BY <2>4, <3>1, FirstIsMember
    <3>3. SectionAt(secs, rva) = secs[FirstOf(spans)]
      BY <2>3 DEF SectionAt
    <3> QED
      BY <3>2, <3>3
  <2>5. CASE spans = {}
    BY <2>3, <2>5 DEF IsBss, RvaToFile, secs
  <2>6. CASE spans # {}
    <3>1. PICK k \in spans : SectionAt(secs, rva) = secs[k]
      BY <2>4, <2>6
    <3>2. /\ k \in DOMAIN secs /\ Spans(secs[k], rva)
          /\ secs[k].va \in Nat /\ secs[k].raw \in Nat /\ secs[k].rsize \in Nat
      BY <2>2
    <3>3. /\ IsBss(secs, rva) <=> rva - secs[k].va >= secs[k].rsize
          /\ off = IF rva - secs[k].va < secs[k].rsize
                     THEN secs[k].raw + (rva - secs[k].va) ELSE None
      BY <2>3, <2>6, <3>1 DEF IsBss, RvaToFile
    <3>4. CASE rva - secs[k].va < secs[k].rsize
      <4>1. off = secs[k].raw + rva - secs[k].va /\ off # None /\ ~IsBss(secs, rva)
        BY <2>1, <3>2, <3>3, <3>4 DEF None, Spans
      <4> QED
        BY <3>1, <3>2, <3>4, <4>1 DEF Backs, secs
    <3>5. CASE ~(rva - secs[k].va < secs[k].rsize)
      BY <2>6, <3>2, <3>3, <3>5, <2>1 DEF secs
    <3> QED
      BY <3>4, <3>5
  <2> QED
    BY <2>5, <2>6 DEF secs
<1> QED
  BY <1>1, LoadInvariant, PTL

-----------------------------------------------------------------------------
(***************************************************************************)
(* The function that FlattenSeq defines by recursion: its value at l is    *)
(* the first l sequences, one behind the other.                            *)
(***************************************************************************)
IsFlat(q, g) ==
  g = [l \in 1 .. Len(q) |-> IF l = 1 THEN q[l] ELSE g[l - 1] \o q[l]]

FlatOf(q) == CHOOSE g : IsFlat(q, g)

LEMMA FlattenIsFlat ==
  \A q : FlattenSeq(q) = IF Len(q) = 0 THEN q ELSE FlatOf(q)[Len(q)]
BY DEF FlattenSeq, FlatOf, IsFlat

LEMMA FlatExists ==
  ASSUME NEW T, NEW q \in Seq(Seq(T))
  PROVE  /\ IsFlat(q, FlatOf(q))
         /\ FlatOf(q) \in [1 .. Len(q) -> Seq(T)]
<1> DEFINE S == Seq(T)
           at(l) == IF l \in DOMAIN q THEN q[l] ELSE <<>>
           step == [p \in Nat \X S |-> p[2] \o at(p[1] + 1)]
<1>1. <<>> \in S /\ \A l : at(l) \in S
  OBVIOUS
<1> HIDE DEF at
<1>2. step \in [Nat \X S -> S]
  BY <1>1
<1>3. \A l \in Nat, v \in S : step[<<l, v>>] = v \o at(l + 1)
  OBVIOUS
<1> HIDE DEF step, S
<1>4. PICK f \in [Nat -> S] : f[0] = <<>> /\ \A l \in Nat : f[l + 1] = step[<<l, f[l]>>]
  <2>1. <<>> \in S
    BY <1>1
  <2>2. PICK f : IsIteration(f, S, <<>>, step)
    BY <1>2, <2>1, IterationExists
  <2> QED
    BY <2>2 DEF IsIteration
<1>5. ASSUME NEW l \in 1 .. Len(q)
      PROVE  f[l] = IF l = 1 THEN q[l] ELSE f[l - 1] \o q[l]
  <2>1. l - 1 \in Nat /\ l - 1 + 1 = l /\ l \in DOMAIN q
    OBVIOUS
  <2>a. q[l] \in Seq(T) /\ at(l) = q[l]
    BY <2>1, ElementOfSeq DEF at
  <2>2. f[l] = f[l - 1] \o q[l]
    <3>1. f[l - 1] \in S
      BY <1>4, <2>1
    <3>2. f[l] = step[<<l - 1, f[l - 1]>>]
      BY <1>4, <2>1
    <3>3. step[<<l - 1, f[l - 1]>>] = f[l - 1] \o at(l - 1 + 1)
      BY <1>3, <2>1, <3>1
    <3> QED
      BY <2>1, <2>a, <3>2, <3>3
  <2>3. l = 1 => f[l] = <<>> \o q[l]
    BY <1>4, <2>2
  <2>4. <<>> \o q[l] = q[l]
    BY <2>a
  <2> QED
    BY <2>2, <2>3, <2>4
<1> DEFINE g == [l \in 1 .. Len(q) |-> f[l]]
<1>6. ASSUME NEW l \in 1 .. Len(q)
      PROVE  g[l] = IF l = 1 THEN q[l] ELSE g[l - 1] \o q[l]
  <2>1. l # 1 => l - 1 \in 1 .. Len(q)
    OBVIOUS
  <2> QED
    BY <1>5, <2>1
<1>7. IsFlat(q, g)
  BY <1>6 DEF IsFlat
<1>8. IsFlat(q, FlatOf(q))
  BY <1>7 DEF FlatOf
<1> DEFINE h == FlatOf(q)
<1>9. ASSUME NEW l \in 1 .. Len(q)
      PROVE  h[l] = IF l = 1 THEN q[l] ELSE h[l - 1] \o q[l]
  BY <1>8 DEF IsFlat
<1>10. ASSUME NEW l \in 1 .. Len(q)
       PROVE  h[l] = f[l]
  <2> DEFINE D == {k \in 1 .. Len(q) : h[k] # f[k]}
  <2> SUFFICES ASSUME D # {} PROVE FALSE
    OBVIOUS
  <2>1. D \subseteq Nat
    OBVIOUS
  <2>2. PICK k \in D : \A j \in D : k <= j
    BY <2>1, LeastNatural
  <2>3. k \in 1 .. Len(q) /\ h[k] # f[k]
    BY <2>2
  <2>4. CASE k = 1
    BY <1>5, <1>9, <2>3, <2>4
  <2>5. CASE k # 1
    <3>1. k - 1 \in 1 .. Len(q) /\ ~(k <= k - 1)
      BY <2>3, <2>5
    <3>2. h[k - 1] = f[k - 1]
      BY <2>2, <3>1
    <3> QED
      BY <1>5, <1>9, <2>3, <2>5, <3>2
  <2> QED
    BY <2>4, <2>5
<1>11. DOMAIN h = 1 .. Len(q) /\ h = [l \in DOMAIN h |-> h[l]]
  BY <1>8 DEF IsFlat
<1> HIDE DEF h
<1>12. h \in [1 .. Len(q) -> S]
  BY <1>4, <1>10, <1>11
<1> QED
  BY <1>8, <1>12 DEF h, S

LEMMA FlatStep ==
  ASSUME NEW q, NEW g, IsFlat(q, g), NEW l \in 1 .. Len(q)
  PROVE  g[l] = IF l = 1 THEN q[l] ELSE g[l - 1] \o q[l]
BY DEF IsFlat

LEMMA FlattenType ==
  ASSUME NEW T, NEW q \in Seq(Seq(T))
  PROVE  FlattenSeq(q) \in Seq(T)
<1>1. CASE Len(q) = 0
  <2>1. q = <<>> /\ <<>> \in Seq(T)
    BY <1>1
  <2> QED
    BY <1>1, <2>1, FlattenIsFlat, Zenon
<1>2. CASE Len(q) # 0
  <2>1. Len(q) \in 1 .. Len(q)
    BY <1>2
  <2> QED
    BY <1>2, <2>1, FlattenIsFlat, FlatExists
<1> QED
  BY <1>1, <1>2

(***************************************************************************)
(* One more sequence goes behind what the others make.                     *)
(***************************************************************************)
LEMMA FlattenAppend ==
  ASSUME NEW T, NEW q \in Seq(Seq(T)), NEW s \in Seq(T)
  PROVE  FlattenSeq(Append(q, s)) = FlattenSeq(q) \o s
<1> DEFINE r == Append(q, s)
           L == Len(q)
           g == FlatOf(q)
           h == FlatOf(r)
<1>1. /\ r \in Seq(Seq(T)) /\ Len(r) = L + 1 /\ L \in Nat
      /\ r[L + 1] = s /\ \A l \in 1 .. L : r[l] = q[l]
  OBVIOUS
<1> HIDE DEF r
<1>2. \A l \in 1 .. L : g[l] = IF l = 1 THEN q[l] ELSE g[l - 1] \o q[l]
  <2>1. IsFlat(q, g)
    BY FlatExists, Zenon
  <2> HIDE DEF g
  <2> QED
    BY <2>1, FlatStep
<1>a. IsFlat(r, h)
  BY <1>1, FlatExists
<1>3. \A l \in 1 .. L + 1 : h[l] = IF l = 1 THEN r[l] ELSE h[l - 1] \o r[l]
  BY <1>1, <1>a DEF IsFlat
<1>4. FlattenSeq(r) = h[L + 1]
  BY <1>1, FlattenIsFlat
<1> HIDE DEF g, h
<1>5. CASE L = 0
  <2>1. q = <<>> /\ FlattenSeq(q) = q
    BY <1>5, FlattenIsFlat
  <2>2. h[L + 1] = s
    BY <1>1, <1>3, <1>5
  <2> QED
    BY <1>4, <2>1, <2>2 DEF r
<1>6. CASE L # 0
  <2>1. ASSUME NEW l \in 1 .. L
        PROVE  h[l] = g[l]
    <3> DEFINE D == {k \in 1 .. L : h[k] # g[k]}
    <3> SUFFICES ASSUME D # {} PROVE FALSE
      OBVIOUS
    <3>1. D \subseteq Nat
      OBVIOUS
    <3>2. PICK k \in D : \A j \in D : k <= j
      BY <3>1, LeastNatural
    <3>3. k \in 1 .. L /\ k \in 1 .. L + 1 /\ h[k] # g[k] /\ r[k] = q[k]
      BY <1>1, <3>2
    <3>4. CASE k = 1
      BY <1>2, <1>3, <3>3, <3>4
    <3>5. CASE k # 1
      <4>1. k - 1 \in 1 .. L /\ ~(k <= k - 1)
        BY <3>3, <3>5
      <4>2. h[k - 1] = g[k - 1]
        BY <3>2, <4>1
      <4> QED
        BY <1>2, <1>3, <3>3, <3>5, <4>2
    <3> QED
      BY <3>4, <3>5
  <2>2. L \in 1 .. L /\ L + 1 \in 1 .. L + 1 /\ L + 1 # 1 /\ L + 1 - 1 = L
    BY <1>1, <1>6
  <2>3. h[L + 1] = h[L] \o s
    <3> DEFINE t == L + 1
    <3>1. t \in 1 .. Len(r) /\ t # 1 /\ t - 1 = L /\ r[t] = s
      BY <1>1, <1>6
    <3> HIDE DEF t
    <3>2. h[t] = IF t = 1 THEN r[t] ELSE h[t - 1] \o r[t]
      BY <1>a, <3>1, FlatStep
    <3>3. h[t] = h[L] \o s
      BY <3>1, <3>2
    <3> QED
      BY <3>3 DEF t
  <2>4. FlattenSeq(q) = g[L]
    BY <1>6, FlattenIsFlat DEF g
  <2> QED
    BY <1>4, <2>1, <2>2, <2>3, <2>4 DEF r
<1> QED
  BY <1>5, <1>6

-----------------------------------------------------------------------------
(***************************************************************************)
(* The walk over the imports, as it is where no section ends near 4 GiB:   *)
(* no RVA wraps there, so the walk looks at the descriptors and the thunks *)
(* that the table has at n and i, and out is the table up to them.  A      *)
(* build that checks for overflow gets so far only with slots that fit.    *)
(***************************************************************************)
NamesAt(k) == IF DescAt(k)[1] # 0 THEN DescAt(k)[1] ELSE DescAt(k)[3]

DescRecord(k) ==
  [names |-> NamesAt(k), slots |-> DescAt(k)[3], dll |-> TextAt(DescAt(k)[2])]

Complete(k) == Thunks(k) > MAX_THUNKS \/ ThunkAt(k, Thunks(k)) = 0

FirstImports(k, l) == [t \in 1 .. l |-> ImportAt(k, t - 1)]
ImportsOf(k) == FirstImports(k, Thunks(k))
ListsUpTo(m) == [k \in 1 .. m |-> ImportsOf(k - 1)]
ImportsUpTo(m) == FlattenSeq(ListsUpTo(m))

SlotsFit(k, l) == \A t \in 0 .. l - 1 : ~(SlotAt(k, t) >= U64_RANGE)

InTable ==
  /\ pe.dir \in U32 /\ pe.dir # 0
  /\ n \in 0 .. MAX_DESCS
  /\ desc = pe.dir + DESC_LEN * n /\ desc \in U32
  /\ \A k \in 0 .. n - 1 : ~IsLast(k) /\ Complete(k)
  /\ checked => \A k \in 0 .. n - 1 : SlotsFit(k, Thunks(k))

InThunks ==
  /\ ~IsLast(n) /\ d = DescRecord(n)
  /\ desc + DESC_LEN < U32_RANGE
  /\ i \in 0 .. MAX_THUNKS + 1
  /\ \A t \in 0 .. i - 1 : ThunkAt(n, t) \notin {None, 0}
  /\ checked => SlotsFit(n, i)

Walked ==
  /\ ipc \in {"start", "desc", "thunks", "some", "none", "panic"}
  /\ ipc = "start" => n = 0 /\ out = <<>>
  /\ ipc \in {"desc", "thunks"} => InTable
  /\ ipc = "desc" => out = ImportsUpTo(n)
  /\ ipc = "thunks" => InThunks /\ out = ImportsUpTo(n) \o FirstImports(n, i)
  /\ ipc = "some" => IsWhole /\ out = ImportTable /\ (checked => ~SlotsTooHigh)
  /\ ipc = "none" => ~IsWhole /\ out = <<>>
  /\ ipc = "panic" => SlotsTooHigh

ImportsInv ==
  /\ pe \in ImportImages /\ checked \in BOOLEAN
  /\ ipc = "panic" => checked
  /\ ~NearTop => Walked

-----------------------------------------------------------------------------
LEMMA ImportSizes ==
  /\ DESC_LEN \in Nat /\ NAME_AT \in Nat /\ THUNKS_AT \in Nat
  /\ WORD \in Nat \ {0} /\ THUNK_LEN \in Nat \ {0} /\ MAX_DESCS \in Nat \ {0}
  /\ MAX_THUNKS \in Nat
  /\ NAME_AT <= DESC_LEN /\ THUNKS_AT <= DESC_LEN /\ THUNK_LEN <= DESC_LEN
  /\ U32_RANGE \in Nat \ {0}
<1>1. /\ DESC_LEN \in Nat /\ NAME_AT \in Nat /\ THUNKS_AT \in Nat
      /\ WORD \in Nat \ {0} /\ THUNK_LEN \in Nat \ {0} /\ MAX_DESCS \in Nat \ {0}
      /\ MAX_THUNKS \in Nat /\ U32_RANGE \in Nat \ {0}
  BY ImportsAssumption, U32Assumption
<1>2. /\ NAME_AT + WORD <= DESC_LEN /\ THUNKS_AT + WORD <= DESC_LEN
      /\ THUNK_LEN <= DESC_LEN
  BY ImportsAssumption
<1> QED
  BY <1>1, <1>2

LEMMA ImageFacts ==
  ASSUME pe \in ImportImages
  PROVE  /\ pe.sections \in Seq(SectionType) /\ pe.dir \in U32 \union {None}
         /\ pe.len \in Nat /\ \A o \in 0 .. pe.len - 1 : pe.data[o] \in Nat
BY ImportsAssumption

\* A sum below 2^32 neither wraps nor panics.
LEMMA AddFits ==
  ASSUME NEW a \in Nat, NEW b \in Nat, a + b < U32_RANGE
  PROVE  Add(a, b) = a + b /\ ~SumPanics(a, b)
<1>1. a + b \in Int /\ a + b \in 0 .. U32_RANGE - 1 /\ U32_RANGE \in Nat \ {0}
  BY ImportSizes
<1>2. (a + b) % U32_RANGE = a + b
  BY <1>1, ResidueOf
<1>3. ~(a + b >= U32_RANGE)
  BY <1>1
<1> QED
  BY <1>2, <1>3 DEF Add, SumPanics

\* What is read lies in a section, and so a descriptor below 4 GiB.
LEMMA ReadInside ==
  ASSUME pe \in ImportImages, ~NearTop, NEW rva \in Nat, NEW l, ReadRva(rva, l) # None
  PROVE  rva + DESC_LEN < U32_RANGE
<1>1. RvaToFile(pe.sections, rva) # None
  BY DEF ReadRva
<1>2. PICK k \in DOMAIN pe.sections : Covers(pe.sections[k], rva)
  BY <1>1, ImageFacts, MapInside
<1>3. rva < EndOf(pe.sections[k]) /\ ~(EndOf(pe.sections[k]) > U32_RANGE - DESC_LEN)
  BY <1>2 DEF Covers, NearTop
<1>4. EndOf(pe.sections[k]) \in Nat
  <2>1. pe.sections[k] \in SectionType
    BY <1>2, ImageFacts
  <2>2. pe.sections[k].va + pe.sections[k].vsize \in Int
    BY <2>1 DEF SectionType, U32
  <2> QED
    BY <2>2, ImportSizes, ResidueOf DEF EndOf
<1> QED
  BY <1>3, <1>4, ImportSizes

LEMMA ReadNumber ==
  ASSUME pe \in ImportImages, NEW rva \in Nat, NEW l \in Nat \ {0}, ReadRva(rva, l) # None
  PROVE  ReadRva(rva, l) \in Nat /\ (l = WORD => ReadRva(rva, l) \in U32)
<1> DEFINE off == RvaToFile(pe.sections, rva)
<1>1. off # None /\ off + l <= pe.len
  BY DEF ReadRva, InFile
<1>2. PICK k \in DOMAIN pe.sections :
        Covers(pe.sections[k], rva) /\ off = pe.sections[k].raw + (rva - pe.sections[k].va)
  BY <1>1, ImageFacts, MapInside
<1>3. pe.sections[k].va \in Nat /\ pe.sections[k].raw \in Nat
  <2>1. pe.sections[k] \in SectionType
    BY <1>2, ImageFacts
  <2> QED
    BY <2>1 DEF SectionType, U32
<1>4. ReadRva(rva, l) = IF l = WORD THEN pe.data[off] % U32_RANGE ELSE pe.data[off]
  BY <1>1 DEF ReadRva, InFile
<1> HIDE DEF off
<1>5. off \in 0 .. pe.len - 1
  <2>1. off \in Nat
    BY <1>2, <1>3 DEF Covers
  <2> QED
    BY <1>1, <2>1, ImageFacts
<1>6. pe.data[off] \in Nat
  BY <1>5, ImageFacts
<1>7. pe.data[off] % U32_RANGE \in 0 .. U32_RANGE - 1
  <2>1. pe.data[off] \in Int /\ U32_RANGE \in Nat \ {0}
    BY <1>6, ImportSizes
  <2> QED
    BY <2>1, ResidueOf, Zenon
<1> QED
  BY <1>4, <1>6, <1>7, ImportSizes DEF U32

-----------------------------------------------------------------------------
LEMMA ThunksThere ==
  ASSUME NEW k
  PROVE  /\ Thunks(k) \in 0 .. MAX_THUNKS + 1
         /\ Thunks(k) > MAX_THUNKS \/ ThunkAt(k, Thunks(k)) \in {None, 0}
<1> DEFINE S == {t \in 0 .. MAX_THUNKS + 1 : t > MAX_THUNKS \/ ThunkAt(k, t) \in {None, 0}}
<1>1. MAX_THUNKS + 1 \in S /\ S \subseteq Nat
  BY ImportSizes
<1> HIDE DEF S
<1>2. \E x \in S : \A y \in S : x <= y
  BY <1>1, LeastNatural
<1>3. Least(S) \in S
  BY <1>2 DEF Least
<1> QED
  BY <1>3 DEF S, Thunks

\* The first thunk that ends the list is where it ends.
LEMMA ThunksEnd ==
  ASSUME NEW k, NEW l \in 0 .. MAX_THUNKS + 1,
         l > MAX_THUNKS \/ ThunkAt(k, l) \in {None, 0},
         \A t \in 0 .. l - 1 : ThunkAt(k, t) \notin {None, 0}
  PROVE  Thunks(k) = l
<1> DEFINE S == {t \in 0 .. MAX_THUNKS + 1 : t > MAX_THUNKS \/ ThunkAt(k, t) \in {None, 0}}
<1>1. S \subseteq Int /\ l \in S
  OBVIOUS
<1>2. ASSUME NEW t \in S PROVE l <= t
  <2>1. t \in Int /\ t >= 0 /\ (t > MAX_THUNKS \/ ThunkAt(k, t) \in {None, 0})
    OBVIOUS
  <2>2. ~(t \in 0 .. l - 1) \/ t > MAX_THUNKS
    BY <2>1
  <2> QED
    BY <2>1, <2>2, ImportSizes
<1> HIDE DEF S
<1>3. Least(S) = l
  BY <1>1, <1>2, ChosenLeast DEF Least
<1> QED
  BY <1>3 DEF S, Thunks

LEMMA DescsEnd ==
  ASSUME NEW m \in 0 .. MAX_DESCS, IsLast(m), \A k \in 0 .. m - 1 : ~IsLast(k)
  PROVE  Descs = m
<1> DEFINE S == {k \in 0 .. MAX_DESCS : IsLast(k)}
<1>1. S \subseteq Int /\ m \in S
  OBVIOUS
<1>2. ASSUME NEW k \in S PROVE m <= k
  <2>1. k \in Int /\ k >= 0 /\ IsLast(k)
    OBVIOUS
  <2>2. ~(k \in 0 .. m - 1)
    BY <2>1
  <2> QED
    BY <2>1, <2>2
<1> HIDE DEF S
<1>3. Least(S) = m
  BY <1>1, <1>2, ChosenLeast DEF Least
<1> QED
  BY <1>3 DEF S, Descs

LEMMA DescsThere ==
  /\ Descs \in 0 .. MAX_DESCS /\ IsLast(Descs)
<1> DEFINE S == {k \in 0 .. MAX_DESCS : IsLast(k)}
<1>1. MAX_DESCS \in S /\ S \subseteq Nat
  BY ImportSizes DEF IsLast
<1> HIDE DEF S
<1>2. \E x \in S : \A y \in S : x <= y
  BY <1>1, LeastNatural
<1>3. Least(S) \in S
  BY <1>2 DEF Least
<1> QED
  BY <1>3 DEF S, Descs

(***************************************************************************)
(* The imports of the descriptors in turn, and one more of either kind.    *)
(***************************************************************************)
Imports == {ImportAt(k, t) : k \in Nat, t \in Nat}

LEMMA FirstImportsType ==
  ASSUME NEW k \in Nat, NEW l \in Nat
  PROVE  FirstImports(k, l) \in Seq(Imports)
<1>1. ASSUME NEW t \in 1 .. l PROVE ImportAt(k, t - 1) \in Imports
  <2>1. t - 1 \in Nat
    OBVIOUS
  <2> QED
    BY <2>1 DEF Imports
<1> QED
  BY <1>1 DEF FirstImports

LEMMA ListsType ==
  ASSUME NEW m \in Nat
  PROVE  ListsUpTo(m) \in Seq(Seq(Imports)) /\ ImportsUpTo(m) \in Seq(Imports)
<1>1. ASSUME NEW k \in 1 .. m PROVE ImportsOf(k - 1) \in Seq(Imports)
  <2>1. k - 1 \in Nat /\ Thunks(k - 1) \in Nat
    BY ThunksThere, ImportSizes
  <2> QED
    BY <2>1, FirstImportsType DEF ImportsOf
<1>2. ListsUpTo(m) \in Seq(Seq(Imports))
  BY <1>1 DEF ListsUpTo
<1> QED
  BY <1>2, FlattenType DEF ImportsUpTo

LEMMA OneImportMore ==
  ASSUME NEW k \in Nat, NEW l \in Nat
  PROVE  FirstImports(k, l + 1) = Append(FirstImports(k, l), ImportAt(k, l))
BY DEF FirstImports

LEMMA OneMoreBehind ==
  ASSUME NEW k \in Nat, NEW l \in Nat
  PROVE  Append(ImportsUpTo(k) \o FirstImports(k, l), ImportAt(k, l))
           = ImportsUpTo(k) \o FirstImports(k, l + 1)
<1> DEFINE q == ImportsUpTo(k)
           r == FirstImports(k, l)
           e == ImportAt(k, l)
<1>1. q \in Seq(Imports) /\ r \in Seq(Imports)
  BY ListsType, FirstImportsType
<1>2. e \in Imports
  BY DEF Imports
<1> HIDE DEF q, r, e
<1>3. Append(q \o r, e) = q \o Append(r, e)
  BY <1>1, <1>2
<1> QED
  BY <1>3, OneImportMore DEF q, r, e

LEMMA OneListMore ==
  ASSUME NEW m \in Nat
  PROVE  ImportsUpTo(m + 1) = ImportsUpTo(m) \o ImportsOf(m)
<1>1. ListsUpTo(m + 1) = Append(ListsUpTo(m), ImportsOf(m))
  <2> HIDE DEF ImportsOf
  <2> QED
    BY DEF ListsUpTo
<1>2. ImportsOf(m) \in Seq(Imports)
  BY ThunksThere, ImportSizes, FirstImportsType DEF ImportsOf
<1> QED
  BY <1>1, <1>2, ListsType, FlattenAppend DEF ImportsUpTo

-----------------------------------------------------------------------------
\* The table is a matter of the file alone.
LEMMA SameTable ==
  ASSUME pe' = pe
  PROVE  /\ NearTop' = NearTop /\ IsWhole' = IsWhole /\ ImportTable' = ImportTable
         /\ \A k : IsLast(k)' = IsLast(k) /\ Complete(k)' = Complete(k)
         /\ \A k : DescRecord(k)' = DescRecord(k) /\ DescAt(k)' = DescAt(k)
         /\ \A k, t : ThunkAt(k, t)' = ThunkAt(k, t)
         /\ \A k, l : FirstImports(k, l)' = FirstImports(k, l)
         /\ \A m : ImportsUpTo(m)' = ImportsUpTo(m)
         /\ SlotsTooHigh' = SlotsTooHigh
         /\ \A k, l : SlotsFit(k, l)' = SlotsFit(k, l)
         /\ \A k : SlotsFit(k, Thunks(k))' = SlotsFit(k, Thunks(k))
<1>1. \A a, l : ReadRva(a, l)' = ReadRva(a, l)
  BY DEF ReadRva
<1>2. ASSUME NEW k PROVE DescAt(k)' = DescAt(k)
  BY <1>1 DEF DescAt
<1>3. ASSUME NEW k, NEW t PROVE ThunkAt(k, t)' = ThunkAt(k, t)
  BY <1>1, <1>2 DEF ThunkAt
<1>4. \A a : TextAt(a)' = TextAt(a) /\ NameOf(a)' = NameOf(a)
  BY DEF TextAt, NameOf
<1>5. ASSUME NEW k PROVE Thunks(k)' = Thunks(k)
  BY <1>3 DEF Thunks
<1>6. ASSUME NEW k PROVE IsLast(k)' = IsLast(k)
  BY <1>2 DEF IsLast
<1>7. Descs' = Descs
  BY <1>6 DEF Descs
<1>8. ASSUME NEW k PROVE Complete(k)' = Complete(k)
  BY <1>3, <1>5 DEF Complete
<1>9. ASSUME NEW k PROVE DescRecord(k)' = DescRecord(k)
  BY <1>2, <1>4 DEF DescRecord, NamesAt
<1>10. ASSUME NEW k, NEW t PROVE ImportAt(k, t)' = ImportAt(k, t)
  <2>1. SlotAt(k, t)' = SlotAt(k, t)
    BY <1>2 DEF SlotAt
  <2> QED
    BY <1>2, <1>3, <1>4, <2>1 DEF ImportAt
<1>11. ASSUME NEW k, NEW l PROVE FirstImports(k, l)' = FirstImports(k, l)
  BY <1>10 DEF FirstImports
<1>12. ASSUME NEW k PROVE ImportsOf(k)' = ImportsOf(k)
  BY <1>5, <1>11 DEF ImportsOf
<1>13. ASSUME NEW m PROVE ImportsUpTo(m)' = ImportsUpTo(m)
  <2>1. ListsUpTo(m)' = ListsUpTo(m)
    BY <1>12 DEF ListsUpTo
  <2> QED
    BY <2>1 DEF ImportsUpTo
<1>14. ImportTable' = ImportTable
  <2>1. ImportTable = ImportsUpTo(Descs)
    BY DEF ImportTable, ImportsUpTo, ListsUpTo, ImportsOf, FirstImports
  <2>2. ImportTable' = ImportsUpTo(Descs)'
    BY DEF ImportTable, ImportsUpTo, ListsUpTo, ImportsOf, FirstImports
  <2>3. ImportsUpTo(Descs)' = ImportsUpTo(Descs)
    <3>1. ListsUpTo(Descs)' = ListsUpTo(Descs)
      BY <1>7, <1>12 DEF ListsUpTo
    <3> QED
      BY <3>1 DEF ImportsUpTo
  <2> QED
    BY <2>1, <2>2, <2>3
<1>15. IsWhole' = IsWhole
  BY <1>2, <1>3, <1>5, <1>7 DEF IsWhole
<1>16. NearTop' = NearTop
  BY DEF NearTop
<1>17. \A k, t : SlotAt(k, t)' = SlotAt(k, t)
  BY <1>2 DEF SlotAt
<1>18. SlotsTooHigh' = SlotsTooHigh
  BY <1>5, <1>7, <1>17 DEF SlotsTooHigh
<1>19. \A k, l : SlotsFit(k, l)' = SlotsFit(k, l)
  BY <1>17 DEF SlotsFit
<1>20. \A k : SlotsFit(k, Thunks(k))' = SlotsFit(k, Thunks(k))
  BY <1>5, <1>17 DEF SlotsFit
<1> QED
  BY <1>2, <1>3, <1>6, <1>8, <1>9, <1>11, <1>13, <1>14, <1>15, <1>16, <1>18, <1>19, <1>20

\* Where a descriptor is due, its fields are those that the table has at n.
LEMMA FieldsOfDesc ==
  ASSUME pe \in ImportImages, ~NearTop, InTable
  PROVE  /\ Field(0) = DescAt(n)[1]
         /\ Field(0) # None =>
              /\ desc + DESC_LEN < U32_RANGE /\ ~DescOverflows
              /\ Fields = DescAt(n)
<1>1. /\ desc \in Nat /\ n \in Nat /\ pe.dir \in Nat /\ desc = pe.dir + DESC_LEN * n
      /\ desc + 0 < U32_RANGE /\ desc + 0 = desc
  BY ImportSizes DEF InTable, U32
<1>2. \A f \in 1 .. 3 : DescAt(n)[f] = ReadRva(desc + <<0, NAME_AT, THUNKS_AT>>[f], WORD)
  BY <1>1 DEF DescAt
<1>3. DescAt(n)[1] = ReadRva(desc + 0, WORD)
  BY <1>2
<1>4. Field(0) = ReadRva(desc + 0, WORD)
  BY <1>1, AddFits DEF Field
<1>5. ASSUME Field(0) # None
      PROVE  /\ desc + DESC_LEN < U32_RANGE /\ ~DescOverflows
             /\ Fields = DescAt(n)
  <2>1. desc + DESC_LEN < U32_RANGE
    BY <1>1, <1>4, <1>5, ReadInside
  <2>2. desc + NAME_AT < U32_RANGE /\ desc + THUNKS_AT < U32_RANGE
    BY <1>1, <2>1, ImportSizes
  <2>3. ~SumPanics(desc, NAME_AT) /\ ~SumPanics(desc, THUNKS_AT)
    BY <1>1, <2>2, AddFits, ImportSizes
  <2>4. /\ Field(NAME_AT) = ReadRva(desc + NAME_AT, WORD)
        /\ Field(THUNKS_AT) = ReadRva(desc + THUNKS_AT, WORD)
    BY <1>1, <2>2, AddFits, ImportSizes DEF Field
  <2>5. /\ DescAt(n)[2] = ReadRva(desc + NAME_AT, WORD)
        /\ DescAt(n)[3] = ReadRva(desc + THUNKS_AT, WORD)
    BY <1>2
  <2>6. DescAt(n) = <<Field(0), Field(NAME_AT), Field(THUNKS_AT)>>
    <3>1. DescAt(n) = [f \in 1 .. 3 |-> DescAt(n)[f]]
      BY DEF DescAt
    <3> HIDE DEF Field
    <3> QED
      BY <1>3, <1>4, <2>4, <2>5, <3>1
  <2> QED
    BY <2>1, <2>3, <2>6 DEF DescOverflows, Fields
<1> QED
  BY <1>1, <1>3, <1>4, <1>5

\* A descriptor that was read has u32s.
LEMMA DescNumbers ==
  ASSUME pe \in ImportImages, NEW k \in Nat, pe.dir \in U32, ~IsLast(k)
  PROVE  DescAt(k)[1] \in U32 /\ DescAt(k)[3] \in U32 /\ NamesAt(k) \in U32
<1>1. ASSUME NEW f \in 1 .. 3
      PROVE  DescAt(k)[f] \in U32
  <2> DEFINE at == pe.dir + DESC_LEN * k + <<0, NAME_AT, THUNKS_AT>>[f]
  <2>1. DescAt(k)[f] = ReadRva(at, WORD) /\ f \in DOMAIN DescAt(k)
    BY DEF DescAt
  <2>2. DescAt(k)[f] # None
    <3>1. DescAt(k)[f] \in Range(DescAt(k))
      BY <2>1 DEF Range
    <3> QED
      BY <3>1 DEF IsLast
  <2>3. at \in Nat
    <3>1. <<0, NAME_AT, THUNKS_AT>>[f] \in Nat
      BY ImportSizes
    <3>2. DESC_LEN * k \in Nat /\ pe.dir \in Nat
      BY ImportSizes DEF U32
    <3> QED
      BY <3>1, <3>2
  <2> HIDE DEF at
  <2> QED
    BY <2>1, <2>2, <2>3, ReadNumber, ImportSizes
<1>2. DescAt(k)[1] \in U32 /\ DescAt(k)[3] \in U32
  BY <1>1
<1> QED
  BY <1>2 DEF NamesAt

\* Where a thunk is due, it is the one that the table has at i.
LEMMA ThunkOfDesc ==
  ASSUME pe \in ImportImages, ~NearTop, InTable, InThunks
  PROVE  Thunk = ThunkAt(n, i) /\ ~ThunkOverflows
<1>1. /\ n \in Nat /\ pe.dir \in U32 /\ ~IsLast(n) /\ i \in Nat
  BY ImportSizes DEF InTable, InThunks
<1> DEFINE names == NamesAt(n)
<1>2. names \in Nat /\ names < U32_RANGE /\ d.names = names
  BY <1>1, DescNumbers, ImportSizes DEF U32, InThunks, DescRecord
<1>3. \A t : ThunkAt(n, t) = ReadRva(names + THUNK_LEN * t, THUNK_LEN)
  BY DEF ThunkAt, NamesAt
<1> HIDE DEF names
<1>4. names + THUNK_LEN * i < U32_RANGE
  <2>1. CASE i = 0
    BY <1>2, <2>1, ImportSizes
  <2>2. CASE i # 0
    <3>1. i - 1 \in 0 .. i - 1 /\ i - 1 \in Nat
      BY <1>1, <2>2
    <3>2. ThunkAt(n, i - 1) # None
      BY <3>1 DEF InThunks
    <3>3. names + THUNK_LEN * (i - 1) \in Nat
      BY <1>2, <3>1, ImportSizes
    <3>4. names + THUNK_LEN * (i - 1) + DESC_LEN < U32_RANGE
      BY <1>3, <3>2, <3>3, ReadInside
    <3>5. THUNK_LEN * (i - 1) = THUNK_LEN * i - THUNK_LEN /\ THUNK_LEN * i \in Nat
      BY <1>1, ImportSizes
    <3> QED
      BY <1>2, <3>4, <3>5, ImportSizes
  <2> QED
    BY <2>1, <2>2
<1>5. i * THUNK_LEN = THUNK_LEN * i /\ i * THUNK_LEN \in Nat
  BY <1>1, ImportSizes
<1>6. /\ Add(d.names, i * THUNK_LEN) = names + i * THUNK_LEN
      /\ ~SumPanics(d.names, i * THUNK_LEN)
  BY <1>2, <1>4, <1>5, AddFits
<1> QED
  BY <1>3, <1>5, <1>6 DEF Thunk, ThunkOverflows

-----------------------------------------------------------------------------
LEMMA InitImportsInv == ImportsInit => ImportsInv
BY DEF ImportsInit, ImportsInv, Walked

\* A whole table is all that is left where the walk ends.
LEMMA WholeAtEnd ==
  ASSUME pe \in ImportImages, ~NearTop, InTable,
         n = MAX_DESCS \/ DescAt(n) = <<0, 0, 0>>
  PROVE  IsWhole /\ ImportTable = ImportsUpTo(n) /\ (checked => ~SlotsTooHigh)
<1>1. Descs = n
  BY DescsEnd DEF InTable, IsLast
<1>2. pe.dir \notin {None, 0}
  BY DEF InTable, U32, None
<1>3. IsWhole
  BY <1>1, <1>2 DEF IsWhole, InTable, Complete
<1>4. checked => ~SlotsTooHigh
  BY <1>1 DEF InTable, SlotsFit, SlotsTooHigh
<1> QED
  BY <1>1, <1>3, <1>4 DEF ImportTable, ImportsUpTo, ListsUpTo, ImportsOf, FirstImports

\* A slot that does not fit is one of the table.
LEMMA SlotInTable ==
  ASSUME pe \in ImportImages, ~NearTop, InTable, InThunks, SlotDue, SlotPanics(d.slots, i)
  PROVE  SlotsTooHigh
<1>1. /\ n \in Nat /\ i \in Nat /\ i <= MAX_THUNKS /\ d = DescRecord(n)
      /\ ThunkAt(n, i) \notin {None, 0}
  BY ThunkOfDesc, ImportSizes DEF InTable, InThunks, SlotDue, ThunkDue, PastCap
<1>2. n \in 0 .. Descs - 1
  <2>1. ASSUME ~(n < Descs)
        PROVE  FALSE
    <3>1. Descs \in 0 .. n - 1 \/ Descs = n
      BY <2>1, <1>1, DescsThere, ImportSizes
    <3> QED
      BY <3>1, DescsThere DEF InTable, InThunks
  <2> QED
    BY <2>1, <1>1, DescsThere, ImportSizes
<1>3. i \in 0 .. Thunks(n) - 1
  <2>1. ASSUME ~(i < Thunks(n))
        PROVE  FALSE
    <3>1. Thunks(n) \in 0 .. i - 1 \/ Thunks(n) = i
      BY <2>1, <1>1, ThunksThere, ImportSizes
    <3>2. ~(Thunks(n) > MAX_THUNKS)
      BY <3>1, <1>1, ImportSizes
    <3> QED
      BY <3>1, <3>2, <1>1, ThunksThere DEF InThunks
  <2> QED
    BY <2>1, <1>1, ThunksThere, ImportSizes
<1>4. SlotAt(n, i) >= U64_RANGE
  <2>1. i * THUNK_LEN = THUNK_LEN * i /\ d.slots = DescAt(n)[3]
    BY <1>1, ImportSizes DEF DescRecord
  <2> QED
    BY <2>1 DEF SlotAt, SlotPanics
<1> QED
  BY <1>2, <1>3, <1>4 DEF SlotsTooHigh

LEMMA NextImportsInv == ImportsInv /\ [ImportsNext]_importVars => ImportsInv'
<1> SUFFICES ASSUME ImportsInv, [ImportsNext]_importVars
             PROVE  ImportsInv'
  OBVIOUS
<1> USE DEF Goto, Fail
<1>1. pe' = pe /\ checked' = checked /\ pe \in ImportImages
  BY DEF ImportsInv, ImportsNext, NoDirectory, FirstDesc, DescFails, ReadDesc,
         NoMoreDescs, ReadThunk, ThunkFails, NextDesc, Overflow, importVars
<1>s. /\ ImportsUpTo(n)' = ImportsUpTo(n')
      /\ FirstImports(n, i)' = FirstImports(n', i')
      /\ IsLast(n)' = IsLast(n') /\ DescRecord(n)' = DescRecord(n')
      /\ \A t : ThunkAt(n, t)' = ThunkAt(n', t)
      /\ SlotsFit(n, i)' = SlotsFit(n', i')
  BY <1>1, SameTable
<1>2. (ipc = "panic" => checked)'
  <2>1. CASE Overflow
    BY <2>1, <1>1 DEF Overflow, DescOverflows, ThunkOverflows, SumPanics, SlotPanics
  <2>2. CASE ~Overflow
    BY <2>2, <1>1 DEF ImportsInv, ImportsNext, NoDirectory, FirstDesc, DescFails,
       ReadDesc, NoMoreDescs, ReadThunk, ThunkFails, NextDesc, importVars
  <2> QED
    BY <2>1, <2>2
<1>3. ASSUME ~NearTop
      PROVE  Walked'
  <2>1. Walked
    BY <1>3 DEF ImportsInv
  <2>2. CASE NoDirectory
    <3>1. ~IsWhole
      BY <2>2 DEF NoDirectory, IsWhole
    <3> QED
      BY <2>2, <3>1, <1>1, SameTable DEF NoDirectory, Walked
  <2>3. CASE FirstDesc
    <3>1. /\ ipc = "start" /\ pe.dir \notin {None, 0} /\ desc' = pe.dir
          /\ ipc' = "desc" /\ n' = n /\ out' = out /\ n = 0 /\ out = <<>>
      BY <2>1, <2>3 DEF FirstDesc, Walked
    <3>2. pe.dir \in U32 /\ pe.dir = pe.dir + DESC_LEN * 0
      <4>1. pe.dir \in U32
        BY <1>1, <3>1, ImageFacts
      <4> QED
        BY <4>1, ImportSizes DEF U32
    <3>3. InTable'
      BY <1>1, <3>1, <3>2, ImportSizes DEF InTable
    <3>4. ImportsUpTo(0) = <<>>
      <4>1. ListsUpTo(0) = <<>>
        BY DEF ListsUpTo
      <4>2. Len(ListsUpTo(0)) = 0
        BY <4>1
      <4> QED
        BY <4>1, <4>2, FlattenIsFlat, Zenon DEF ImportsUpTo
    <3>5. out' = ImportsUpTo(n)'
      BY <1>s, <3>1, <3>4
    <3> QED
      BY <3>1, <3>3, <3>5 DEF Walked
  <2>4. CASE DescFails
    <3>1. /\ ipc = "desc" /\ n < MAX_DESCS /\ ~DescOverflows
          /\ ipc' = "none" /\ out' = <<>>
      BY <2>4 DEF DescFails, Reading
    <3>2. InTable
      BY <2>1, <3>1 DEF Walked
    <3>3. None \in Range(DescAt(n))
      <4>1. PICK f \in 1 .. 3 : Fields[f] = None
        BY <2>4 DEF DescFails
      <4>2. CASE Field(0) = None
        <5>1. DescAt(n)[1] = None /\ 1 \in DOMAIN DescAt(n)
          BY <1>1, <1>3, <3>2, <4>2, FieldsOfDesc DEF DescAt
        <5> QED
          BY <5>1 DEF Range
      <4>3. CASE Field(0) # None
        <5>1. DescAt(n)[f] = None /\ f \in DOMAIN DescAt(n)
          <6>1. Fields = DescAt(n)
            BY <1>1, <1>3, <3>2, <4>3, FieldsOfDesc
          <6> QED
            BY <4>1, <6>1 DEF DescAt
        <5> QED
          BY <5>1 DEF Range
      <4> QED
        BY <4>2, <4>3
    <3>4. Descs = n /\ n # MAX_DESCS
      <4>1. n # MAX_DESCS
        BY <3>1, <3>2, ImportSizes DEF InTable
      <4> QED
        BY <3>2, <3>3, <4>1, DescsEnd DEF InTable, IsLast
    <3>5. DescAt(n) # <<0, 0, 0>>
      <4>1. Range(<<0, 0, 0>>) = {0} /\ None # 0
        BY DEF Range, None
      <4> QED
        BY <3>3, <4>1
    <3>6. ~IsWhole
      BY <3>4, <3>5 DEF IsWhole
    <3> QED
      BY <3>1, <3>6, <1>1, SameTable DEF Walked
  <2>5. CASE ReadDesc
    <3>1. /\ ipc = "desc" /\ n < MAX_DESCS /\ ipc' = "thunks"
          /\ Fields # <<0, 0, 0>> /\ i' = 0
          /\ d' = [names |-> NamesFrom(Fields[1], Fields[3]), slots |-> Fields[3],
                   dll |-> TextAt(Fields[2])]
          /\ desc' = desc /\ n' = n /\ out' = out
      BY <2>5 DEF ReadDesc, Reading
    <3>2. InTable /\ out = ImportsUpTo(n) /\ n \in Nat
      BY <2>1, <3>1, ImportSizes DEF Walked, InTable
    <3>3. \A f \in 1 .. 3 : Fields[f] # None
      BY <2>5 DEF ReadDesc
    <3>4. Fields[1] = Field(0)
      BY DEF Fields
    <3>5. desc + DESC_LEN < U32_RANGE /\ Fields = DescAt(n)
      BY <1>1, <1>3, <3>2, <3>3, <3>4, FieldsOfDesc
    <3>6. ~IsLast(n)
      <4>1. n # MAX_DESCS
        BY <3>1, <3>2, ImportSizes
      <4>2. None \notin Range(DescAt(n))
        BY <3>3, <3>5 DEF Range, DescAt
      <4> QED
        BY <3>1, <3>5, <4>1, <4>2 DEF IsLast
    <3>7. d' = DescRecord(n)
      BY <3>1, <3>5 DEF DescRecord, NamesAt, NamesFrom
    <3>8. InTable'
      BY <1>1, <3>1, <3>2, SameTable DEF InTable
    <3>9. InThunks'
      <4>1. IsLast(n)' = IsLast(n) /\ DescRecord(n)' = DescRecord(n)
        BY <1>s, <3>1
      <4>2. i' \in 0 .. MAX_THUNKS + 1 /\ 0 .. i' - 1 = {}
        BY <3>1, ImportSizes
      <4>3. SlotsFit(n, i)'
        <5>1. SlotsFit(n', i')
          BY <4>2 DEF SlotsFit
        <5> QED
          BY <1>s, <5>1
      <4> QED
        BY <3>1, <3>5, <3>6, <3>7, <4>1, <4>2, <4>3 DEF InThunks
    <3>10. out' = ImportsUpTo(n)' \o FirstImports(n, i)'
      <4>1. ImportsUpTo(n)' = ImportsUpTo(n) /\ FirstImports(n, i)' = FirstImports(n, 0)
        BY <1>s, <3>1
      <4>2. FirstImports(n, 0) = <<>>
        BY DEF FirstImports
      <4>3. ImportsUpTo(n) \in Seq(Imports)
        BY <3>2, ListsType
      <4>4. ImportsUpTo(n) \o <<>> = ImportsUpTo(n)
        BY <4>3
      <4> QED
        BY <3>1, <3>2, <4>1, <4>2, <4>4
    <3> QED
      BY <3>1, <3>8, <3>9, <3>10 DEF Walked
  <2>6. CASE NoMoreDescs
    <3>1. ipc = "desc" /\ ipc' = "some" /\ out' = out
      BY <2>6 DEF NoMoreDescs, Reading
    <3>2. InTable /\ out = ImportsUpTo(n)
      BY <2>1, <3>1 DEF Walked
    <3>3. n = MAX_DESCS \/ DescAt(n) = <<0, 0, 0>>
      <4>1. CASE Fields = <<0, 0, 0>>
        <5>1. Field(0) # None
          BY <4>1 DEF Fields, None
        <5> QED
          BY <1>1, <1>3, <3>2, <4>1, <5>1, FieldsOfDesc
      <4> QED
        BY <2>6, <4>1 DEF NoMoreDescs
    <3>4. IsWhole /\ ImportTable = ImportsUpTo(n) /\ (checked => ~SlotsTooHigh)
      BY <1>1, <1>3, <3>2, <3>3, WholeAtEnd
    <3> QED
      BY <3>1, <3>2, <3>4, <1>1, SameTable DEF Walked
  <2>7. CASE ReadThunk
    <3>1. /\ ipc = "thunks" /\ ~PastCap /\ Thunk \notin {None, 0}
          /\ out' = Append(out, [dll |-> d.dll, name |-> NameOf(Thunk), slot |-> Slot(d.slots, i)])
          /\ i' = i + 1 /\ ipc' = ipc /\ desc' = desc /\ n' = n /\ d' = d
      BY <2>7 DEF ReadThunk, SlotDue, ThunkDue
    <3>2. /\ InTable /\ InThunks /\ out = ImportsUpTo(n) \o FirstImports(n, i)
          /\ n \in Nat /\ i \in Nat /\ i <= MAX_THUNKS
      BY <2>1, <3>1, ImportSizes DEF Walked, InTable, InThunks, PastCap
    <3>3. Thunk = ThunkAt(n, i)
      BY <1>1, <1>3, <3>2, ThunkOfDesc
    <3>4. [dll |-> d.dll, name |-> NameOf(Thunk), slot |-> Slot(d.slots, i)] = ImportAt(n, i)
      <4>1. d = DescRecord(n) /\ i * THUNK_LEN = THUNK_LEN * i
        BY <3>2, ImportSizes DEF InThunks
      <4> QED
        BY <3>3, <4>1 DEF ImportAt, Slot, SlotAt, DescRecord
    <3>5. out' = ImportsUpTo(n)' \o FirstImports(n, i)'
      <4>1. /\ ImportsUpTo(n)' = ImportsUpTo(n)
            /\ FirstImports(n, i)' = FirstImports(n, i + 1)
        BY <1>s, <3>1
      <4>2. Append(out, ImportAt(n, i)) = ImportsUpTo(n) \o FirstImports(n, i + 1)
        BY <3>2, OneMoreBehind
      <4> QED
        BY <3>1, <3>4, <4>1, <4>2
    <3>6. InTable'
      BY <1>1, <3>1, <3>2, SameTable DEF InTable
    <3>7. InThunks'
      <4>1. IsLast(n)' = IsLast(n) /\ DescRecord(n)' = DescRecord(n)
        BY <1>s, <3>1
      <4>2. i' \in 0 .. MAX_THUNKS + 1
        BY <3>1, <3>2, ImportSizes
      <4>3. ASSUME NEW t \in 0 .. i' - 1
            PROVE  ThunkAt(n, t)' \notin {None, 0}
        <5>1. t \in 0 .. i - 1 \/ t = i
          BY <3>1, <3>2
        <5>2. ThunkAt(n, t)' = ThunkAt(n, t)
          BY <1>s, <3>1
        <5> QED
          BY <3>1, <3>2, <3>3, <5>1, <5>2 DEF InThunks
      <4>4. checked => SlotsFit(n, i + 1)
        <5>1. ASSUME checked
              PROVE  SlotsFit(n, i) /\ ~(SlotAt(n, i) >= U64_RANGE)
          <6>1. i * THUNK_LEN = THUNK_LEN * i /\ d.slots = DescAt(n)[3]
            BY <3>2, ImportSizes DEF InThunks, DescRecord
          <6> QED
            BY <2>7, <3>2, <5>1, <6>1 DEF ReadThunk, SlotPanics, SlotAt, InThunks
        <5>2. \A t \in 0 .. (i + 1) - 1 : t \in 0 .. i - 1 \/ t = i
          BY <3>2
        <5> HIDE DEF SlotAt
        <5> QED
          BY <5>1, <5>2 DEF SlotsFit
      <4>5. (checked => SlotsFit(n, i))'
        BY <1>1, <1>s, <3>1, <4>4
      <4> QED
        BY <3>1, <3>2, <4>1, <4>2, <4>3, <4>5 DEF InThunks
    <3> QED
      BY <3>1, <3>5, <3>6, <3>7 DEF Walked
  <2>8. CASE ThunkFails
    <3>1. ipc = "thunks" /\ ~PastCap /\ Thunk = None /\ ipc' = "none" /\ out' = <<>>
      BY <2>8 DEF ThunkFails, ThunkDue
    <3>2. /\ InTable /\ InThunks /\ n \in Nat /\ i \in Nat /\ i <= MAX_THUNKS
          /\ i \in 0 .. MAX_THUNKS + 1
      BY <2>1, <3>1, ImportSizes DEF Walked, InTable, InThunks, PastCap
    <3>3. ThunkAt(n, i) = None
      BY <1>1, <1>3, <3>1, <3>2, ThunkOfDesc
    <3>4. Thunks(n) = i
      BY <3>2, <3>3, ThunksEnd DEF InThunks
    <3>5. ~(Thunks(n) > MAX_THUNKS \/ ThunkAt(n, Thunks(n)) = 0)
      BY <3>2, <3>3, <3>4, ImportSizes DEF None
    <3>6. n \in 0 .. Descs - 1
      <4>1. ASSUME ~(n < Descs)
            PROVE  FALSE
        <5>1. Descs \in 0 .. n - 1 \/ Descs = n
          BY <4>1, <3>2, DescsThere, ImportSizes
        <5> QED
          BY <5>1, <3>2, DescsThere DEF InTable, InThunks
      <4> QED
        BY <4>1, <3>2, DescsThere, ImportSizes
    <3>7. ~IsWhole
      BY <3>5, <3>6 DEF IsWhole
    <3> QED
      BY <3>1, <3>7, <1>1, SameTable DEF Walked
  <2>9. CASE NextDesc
    <3>1. /\ ipc = "thunks" /\ ipc' = "desc" /\ n' = n + 1 /\ out' = out
          /\ desc' = Add(desc, DESC_LEN) /\ (PastCap \/ Thunk = 0)
      BY <2>9 DEF NextDesc, AllThunks, ThunkDue
    <3>2. /\ InTable /\ InThunks /\ out = ImportsUpTo(n) \o FirstImports(n, i)
          /\ n \in Nat /\ i \in Nat /\ i \in 0 .. MAX_THUNKS + 1
      BY <2>1, <3>1, ImportSizes DEF Walked, InTable, InThunks
    <3>3. i > MAX_THUNKS \/ ThunkAt(n, i) = 0
      BY <1>1, <1>3, <3>1, <3>2, ThunkOfDesc DEF PastCap
    <3>4. Thunks(n) = i
      BY <3>2, <3>3, ThunksEnd DEF InThunks
    <3>5. Complete(n)
      BY <3>3, <3>4 DEF Complete
    <3>6. out = ImportsUpTo(n + 1)
      BY <3>2, <3>4, OneListMore DEF ImportsOf
    <3>7. /\ desc \in Nat /\ pe.dir \in Nat /\ desc = pe.dir + DESC_LEN * n
          /\ desc + DESC_LEN < U32_RANGE /\ n # MAX_DESCS /\ n <= MAX_DESCS
      <4>1. n # MAX_DESCS
        BY <3>2, Zenon DEF InThunks, IsLast
      <4> QED
        BY <3>2, <4>1, ImportSizes DEF InTable, InThunks, U32
    <3>8. desc' = desc + DESC_LEN
      BY <3>1, <3>7, AddFits, ImportSizes
    <3>9. desc' = pe.dir + DESC_LEN * (n + 1) /\ desc' \in U32
      <4>1. DESC_LEN * (n + 1) = DESC_LEN * n + DESC_LEN /\ DESC_LEN * n \in Nat
        BY <3>2, ImportSizes
      <4> QED
        BY <3>7, <3>8, <4>1, ImportSizes DEF U32
    <3>10. InTable'
      <4>1. ASSUME NEW k \in 0 .. n' - 1
            PROVE  ~IsLast(k)' /\ Complete(k)'
        <5>1. k \in 0 .. n - 1 \/ k = n
          BY <3>1, <3>2
        <5> QED
          BY <5>1, <1>1, <3>2, <3>5, SameTable DEF InTable, InThunks
      <4>2. n' \in 0 .. MAX_DESCS
        BY <3>1, <3>2, <3>7, ImportSizes
      <4>3. ASSUME checked, NEW k \in 0 .. n' - 1
            PROVE  SlotsFit(k, Thunks(k))'
        <5>1. k \in 0 .. n - 1 \/ k = n
          BY <3>1, <3>2
        <5>2. SlotsFit(k, Thunks(k))
          BY <4>3, <5>1, <3>2, <3>4 DEF InTable, InThunks
        <5> QED
          BY <5>2, <1>1, SameTable
      <4> QED
        BY <1>1, <3>1, <3>2, <3>9, <4>1, <4>2, <4>3 DEF InTable
    <3>11. out' = ImportsUpTo(n)'
      BY <1>s, <3>1, <3>6
    <3> QED
      BY <3>1, <3>10, <3>11 DEF Walked
  <2>10. CASE Overflow
    <3>1. CASE ipc = "desc" /\ n < MAX_DESCS /\ DescOverflows
      <4>1. InTable /\ Field(0) # None
        BY <2>1, <3>1 DEF Walked, DescOverflows
      <4> QED
        BY <1>1, <1>3, <3>1, <4>1, FieldsOfDesc
    <3>2. CASE ThunkDue /\ ThunkOverflows
      BY <1>1, <1>3, <2>1, <3>2, ThunkOfDesc DEF Walked, ThunkDue
    <3>3. CASE AllThunks /\ SumPanics(desc, DESC_LEN)
      <4>1. InTable /\ InThunks
        BY <2>1, <3>3 DEF Walked, AllThunks, ThunkDue
      <4>2. desc \in Nat /\ desc + DESC_LEN < U32_RANGE
        BY <4>1, ImportSizes DEF InTable, InThunks, U32
      <4> QED
        BY <3>3, <4>2, AddFits, ImportSizes
    <3>4. CASE SlotDue /\ SlotPanics(d.slots, i)
      <4>1. InTable /\ InThunks
        BY <2>1, <3>4 DEF Walked, SlotDue, ThunkDue
      <4>2. SlotsTooHigh
        BY <1>1, <1>3, <3>4, <4>1, SlotInTable
      <4> QED
        BY <2>10, <4>2, <1>1, SameTable DEF Overflow, Walked
    <3> QED
      BY <2>10, <3>1, <3>2, <3>3, <3>4 DEF Overflow
  <2>11. CASE UNCHANGED importVars
    <3>1. /\ desc' = desc /\ n' = n /\ d' = d /\ i' = i /\ out' = out /\ ipc' = ipc
      BY <2>11 DEF importVars
    <3>2. InTable => InTable'
      BY <1>1, <3>1, SameTable DEF InTable
    <3>3. InThunks => InThunks'
      BY <1>1, <3>1, SameTable DEF InThunks
    <3>4. ImportsUpTo(n)' = ImportsUpTo(n) /\ FirstImports(n, i)' = FirstImports(n, i)
      BY <1>s, <3>1
    <3> QED
      BY <1>1, <2>1, <3>1, <3>2, <3>3, <3>4, SameTable DEF Walked
  <2> QED
    BY <2>2, <2>3, <2>4, <2>5, <2>6, <2>7, <2>8, <2>9, <2>10, <2>11 DEF ImportsNext
<1> QED
  BY <1>1, <1>2, <1>3, SameTable DEF ImportsInv

THEOREM ImportsInvariant == ImportsSpec => []ImportsInv
BY InitImportsInv, NextImportsInv, PTL DEF ImportsSpec

(***************************************************************************)
(* Whatever the file holds, at any ImageBase: the imports are the whole    *)
(* table, each name with its slot, which wraps beyond 2^64, or nothing,    *)
(* where no section ends near 4 GiB.                                       *)
(***************************************************************************)
THEOREM ImportsAllOrNothing == ImportsSpec => []AllOrNothing
<1>1. ImportsInv => AllOrNothing
  BY DEF ImportsInv, Walked, AllOrNothing
<1> QED
  BY <1>1, ImportsInvariant, PTL

(***************************************************************************)
(* In a file without a section near 4 GiB no sum of u32s overflows, and    *)
(* that of a slot panics just where one of the table lies beyond 2^64.     *)
(***************************************************************************)
THEOREM NoOverflowBelow == ImportsSpec => []PanicsAtTheTops
<1>1. ImportsInv => PanicsAtTheTops
  BY DEF ImportsInv, Walked, PanicsAtTheTops
<1> QED
  BY <1>1, ImportsInvariant, PTL


-----------------------------------------------------------------------------
(***************************************************************************)
(* load and the walk over the imports, together: the two share the image   *)
(* and write nothing of each other's, so each behaves in the composition   *)
(* as it does alone.                                                       *)
(***************************************************************************)
LEMMA PartsBegin == ImageInit => Init /\ ImportsInit
BY DEF ImageInit, LoadIdle, ImportsIdle

LEMMA PartsMove ==
  ASSUME [ImageNext]_imageVars
  PROVE  [Next]_loadVars /\ [ImportsNext]_importVars
BY DEF ImageNext, imageVars

(***************************************************************************)
(* A behaviour of the composed readers of the image is one of load and one *)
(* of the walk over the imports.                                           *)
(***************************************************************************)
THEOREM ImageImplementsParts == ImageSpec => Spec /\ ImportsSpec
BY PartsBegin, PartsMove, PTL DEF ImageSpec, Spec, ImportsSpec

-----------------------------------------------------------------------------
(***************************************************************************)
(* The inductive invariant: no header starts before pos, so the first one  *)
(* is still ahead; and what has been returned is the first one.            *)
(***************************************************************************)
HeaderInv ==
  /\ HeaderTypeOK
  /\ hpc = "scan" => HasRegion /\ found = NoHeader /\ \A at \in Headers : pos <= at
  /\ hpc = "region" => found = NoHeader /\ pos = 0
  /\ hpc = "done" /\ ~HasRegion => found = NoHeader
  /\ hpc = "done" /\ HasRegion =>
       \/ found \in Headers /\ \A at \in Headers : found <= at
       \/ found = NoHeader /\ Headers = {}

USE HeaderAssumption

-----------------------------------------------------------------------------
\* The region lies in the file and the magic is found inside the region.
LEMMA RegionFacts ==
  ASSUME IsImage(img), HasRegion
  PROVE  /\ RegionLen = img.size
         /\ img.size \in Nat /\ img.ptr \in Nat /\ img.len \in Nat
         /\ img.ptr + img.size <= img.len
BY DEF IsImage, HasRegion, RegionLen

LEMMA HitFacts ==
  ASSUME IsImage(img), HasRegion, NEW p \in Nat
  PROVE  /\ \A at \in Hits(p) : /\ at \in Nat /\ p <= at
                               /\ at + MAGIC_LEN <= RegionLen
         /\ \A at \in Hits(p) : at \in Hits(0)
         /\ \A at \in Hits(0) : p <= at => at \in Hits(p)
<1>1. DOMAIN img.strsec \subseteq Nat /\ RegionLen \in Nat /\ img.ptr \in Nat
  BY RegionFacts DEF IsImage
<1>2. ASSUME NEW q \in Nat, NEW at \in Hits(q)
      PROVE  /\ img.ptr + at \in DOMAIN img.strsec /\ at \in Nat /\ q <= at
             /\ at + MAGIC_LEN <= RegionLen
  <2>1. PICK x \in DOMAIN img.strsec :
          /\ at = x - img.ptr
          /\ img.ptr + q <= x /\ x + MAGIC_LEN <= img.ptr + RegionLen
    BY <1>2 DEF Hits
  <2>2. x \in Nat /\ img.ptr + at = x
    BY <1>1, <2>1
  <2> QED
    BY <1>1, <2>1, <2>2
<1>3. ASSUME NEW q \in Nat, NEW at \in Nat, img.ptr + at \in DOMAIN img.strsec,
             q <= at, at + MAGIC_LEN <= RegionLen
      PROVE  at \in Hits(q)
  <2>1. /\ at = (img.ptr + at) - img.ptr
        /\ img.ptr + q <= img.ptr + at
        /\ img.ptr + at + MAGIC_LEN <= img.ptr + RegionLen
    BY <1>1, <1>3
  <2> QED
    BY <1>3, <2>1 DEF Hits
<1> QED
  BY <1>2, <1>3

(***************************************************************************)
(* While some magic is ahead, one of the hits is the first.                *)
(***************************************************************************)
LEMMA FirstHitAhead ==
  ASSUME IsImage(img), HasRegion, pos \in Nat, NEW at, FirstHit(at),
         \A h \in Headers : pos <= h
  PROVE  /\ at \in Nat /\ at + 1 <= RegionLen
         /\ Fits(at) /\ Validates(at) => at \in Headers
         /\ \A h \in Headers : at <= h
         /\ ~(Fits(at) /\ Validates(at)) => \A h \in Headers : at + 1 <= h
<1>1. at \in Hits(pos) /\ at \in Hits(0) /\ at \in Nat /\ at + MAGIC_LEN <= RegionLen
  BY HitFacts DEF FirstHit
<1>2. at + 1 <= RegionLen
  BY <1>1, RegionFacts
<1>3. ASSUME NEW h \in Headers
      PROVE  at <= h /\ h \in Nat
  <2>1. h \in Hits(0) /\ pos <= h
    BY DEF Headers
  <2>2. h \in Hits(pos) /\ h \in Nat
    BY <2>1, HitFacts
  <2> QED
    BY <2>2 DEF FirstHit
<1>4. ASSUME ~(Fits(at) /\ Validates(at)), NEW h \in Headers
      PROVE  at + 1 <= h
  <2>1. h # at
    BY <1>4 DEF Headers
  <2> QED
    BY <1>1, <1>3, <2>1
<1> QED
  BY <1>1, <1>2, <1>3, <1>4 DEF Headers

-----------------------------------------------------------------------------
(***************************************************************************)
(* HeaderInv is an invariant of find_embedded_header.                      *)
(***************************************************************************)
THEOREM HeaderInvariant == HeaderSpec => []HeaderInv
<1>1. HeaderInit => HeaderInv
  <2> SUFFICES ASSUME HeaderInit PROVE HeaderInv
    OBVIOUS
  <2>1. IsImage(img)
    BY DEF HeaderInit
  <2>2. HasRegion => 0 <= RegionLen
    BY <2>1, RegionFacts
  <2> QED
    BY <2>1, <2>2 DEF HeaderInit, HeaderInv, HeaderTypeOK
<1>2. HeaderInv /\ [HeaderNext]_headerVars => HeaderInv'
  <2> SUFFICES ASSUME HeaderInv, [HeaderNext]_headerVars
               PROVE  HeaderInv'
    OBVIOUS
  <2> USE DEF HeaderInv
  <2>1. CASE NoRegion
    <3>1. /\ img' = img /\ pos' = pos /\ found' = found /\ hpc' = "done"
          /\ found = NoHeader /\ IsImage(img)
      BY <2>1 DEF NoRegion, HeaderTypeOK
    <3>2. ~HasRegion
      BY <2>1, <3>1 DEF NoRegion, HasRegion, IsImage
    <3> QED
      BY <3>1, <3>2 DEF HeaderTypeOK, HasRegion
  <2>2. CASE TakeRegion
    <3>1. HasRegion /\ img' = img /\ hpc' = "scan" /\ pos' = 0 /\ found' = NoHeader
      BY <2>2 DEF TakeRegion, HasRegion
    <3>2. \A at \in Headers : 0 <= at
      BY <3>1, HitFacts DEF Headers, HeaderTypeOK
    <3>3. 0 <= RegionLen
      BY <3>1, RegionFacts DEF HeaderTypeOK
    <3> QED
      BY <3>1, <3>2, <3>3 DEF HeaderTypeOK, HasRegion, Headers, Hits, Fits,
         Validates, RegionLen
  <2>3. CASE Accept
    <3>1. PICK at \in Hits(pos) :
            FirstHit(at) /\ Fits(at) /\ Validates(at) /\ found' = at
      BY <2>3 DEF Accept
    <3>2. HasRegion /\ img' = img /\ pos' = pos /\ hpc' = "done"
      BY <2>3 DEF Accept
    <3>3. at \in Nat /\ at \in Headers /\ \A h \in Headers : at <= h
      BY <2>3, <3>1, <3>2, FirstHitAhead DEF Accept, HeaderTypeOK
    <3> QED
      BY <3>1, <3>2, <3>3 DEF HeaderTypeOK, HasRegion, Headers, Hits, Fits,
         Validates, RegionLen
  <2>4. CASE Reject
    <3>1. PICK at \in Hits(pos) :
            FirstHit(at) /\ ~(Fits(at) /\ Validates(at)) /\ pos' = at + 1
      BY <2>4 DEF Reject, ResumeAt
    <3>2. /\ HasRegion /\ img' = img /\ found' = found /\ found = NoHeader
          /\ hpc' = IF pos' >= RegionLen THEN "done" ELSE "scan"
      BY <2>4 DEF Reject
    <3>3. /\ at \in Nat /\ pos' <= RegionLen
          /\ \A h \in Headers : pos' <= h
      BY <2>4, <3>1, <3>2, FirstHitAhead DEF Reject, HeaderTypeOK
    <3>4. Headers' = Headers /\ RegionLen' = RegionLen
      BY <3>2 DEF Headers, Hits, Fits, Validates, RegionLen
    <3>5. CASE pos' >= RegionLen
      <4>1. ASSUME NEW h \in Headers
            PROVE  FALSE
        <5>1. h \in Nat /\ h + MAGIC_LEN <= RegionLen
          BY <3>2, HitFacts DEF Headers, HeaderTypeOK
        <5> QED
          BY <3>1, <3>2, <3>3, <3>5, <5>1, RegionFacts DEF HeaderTypeOK
      <4> QED
        BY <3>1, <3>2, <3>3, <3>4, <3>5, <4>1 DEF HeaderTypeOK, HasRegion
    <3>6. CASE ~(pos' >= RegionLen)
      BY <3>1, <3>2, <3>3, <3>4, <3>6 DEF HeaderTypeOK, HasRegion
    <3> QED
      BY <3>5, <3>6
  <2>5. CASE Exhausted
    <3>1. /\ HasRegion /\ img' = img /\ pos' = pos /\ found' = found
          /\ found = NoHeader /\ hpc' = "done" /\ Hits(pos) = {}
      BY <2>5 DEF Exhausted
    <3>2. ASSUME NEW h \in Headers
          PROVE  FALSE
      <4>1. h \in Hits(0) /\ pos <= h
        BY <2>5 DEF Exhausted, Headers
      <4>2. h \in Hits(pos)
        BY <3>1, <4>1, HitFacts DEF HeaderTypeOK
      <4> QED
        BY <3>1, <4>2
    <3>3. Headers' = Headers /\ RegionLen' = RegionLen
      BY <3>1 DEF Headers, Hits, Fits, Validates, RegionLen
    <3> QED
      BY <3>1, <3>2, <3>3 DEF HeaderTypeOK, HasRegion
  <2>6. CASE UNCHANGED headerVars
    BY <2>6 DEF headerVars, HeaderTypeOK, HasRegion, Headers, Hits, Fits,
       Validates, RegionLen
  <2> QED
    BY <2>1, <2>2, <2>3, <2>4, <2>5, <2>6 DEF HeaderNext
<1> QED
  BY <1>1, <1>2, PTL DEF HeaderSpec

\* The search stays inside the region.
THEOREM HeaderTypeCorrect == HeaderSpec => []HeaderTypeOK
  BY HeaderInvariant, PTL DEF HeaderInv

(***************************************************************************)
(* The first header that validates is the one returned, for every image.   *)
(***************************************************************************)
THEOREM FirstHeader == HeaderSpec => []FirstHeaderFound
<1>1. HeaderInv => FirstHeaderFound
  BY DEF HeaderInv, FirstHeaderFound
<1> QED
  BY <1>1, HeaderInvariant, PTL

(***************************************************************************)
(* The header captured is HDR_LEN bytes of the file.                       *)
(***************************************************************************)
THEOREM HeaderCaptured == HeaderSpec => []HeaderInsideFile
<1>1. HeaderInv => HeaderInsideFile
  <2> SUFFICES ASSUME HeaderInv, found # NoHeader
               PROVE  img.ptr + found + HDR_LEN <= img.len
    BY DEF HeaderInsideFile
  <2>1. HasRegion /\ found \in Headers /\ IsImage(img)
    BY DEF HeaderInv, HeaderTypeOK
  <2>2. found \in Nat /\ found + HDR_LEN <= RegionLen
    BY <2>1, HitFacts DEF Headers, Fits
  <2> QED
    BY <2>1, <2>2, RegionFacts
<1> QED
  BY <1>1, HeaderInvariant, PTL

-----------------------------------------------------------------------------
(***************************************************************************)
(* What the search still has before it: the bytes of .rdata behind pos,    *)
(* and the steps that take the region and that return.                     *)
(***************************************************************************)
SearchLeft ==
  (IF HasRegion THEN RegionLen - pos ELSE 0)
    + (IF hpc = "region" THEN 2 ELSE IF hpc = "scan" THEN 1 ELSE 0)

\* As long as some magic is ahead, there is a first one to look at.
SearchGoesOn == hpc = "scan" /\ Hits(pos) # {} => \E at \in Hits(pos) : FirstHit(at)

LEMMA SearchSize ==
  ASSUME HeaderInv
  PROVE  /\ HasRegion => RegionLen - pos \in Nat
         /\ SearchLeft \in Nat
<1>1. HasRegion => RegionLen \in Nat /\ pos \in Nat /\ pos <= RegionLen
  BY RegionFacts DEF HeaderInv, HeaderTypeOK
<1>2. HasRegion => RegionLen - pos \in Nat
  BY <1>1
<1> QED
  BY <1>2 DEF SearchLeft

(***************************************************************************)
(* find_embedded_header cannot go on for ever, whatever the image is: with *)
(* every step it has less before it, and it stands only at its result.     *)
(***************************************************************************)
THEOREM SearchAdvances ==
  HeaderSpec => /\ [](SearchLeft \in Nat /\ SearchGoesOn)
                /\ [][SearchLeft' < SearchLeft]_headerVars
<1>1. HeaderInv => SearchLeft \in Nat /\ SearchGoesOn
  <2> SUFFICES ASSUME HeaderInv PROVE SearchLeft \in Nat /\ SearchGoesOn
    OBVIOUS
  <2>1. ASSUME hpc = "scan", Hits(pos) # {}
        PROVE  \E at \in Hits(pos) : FirstHit(at)
    <3>1. Hits(pos) \subseteq Nat
      BY <2>1, HitFacts DEF HeaderInv, HeaderTypeOK
    <3> QED
      BY <2>1, <3>1, LeastNatural DEF FirstHit
  <2> QED
    BY <2>1, SearchSize DEF SearchGoesOn
<1>2. HeaderInv /\ HeaderInv' /\ [HeaderNext]_headerVars => [SearchLeft' < SearchLeft]_headerVars
  <2> SUFFICES ASSUME HeaderInv, HeaderInv', HeaderNext
               PROVE  SearchLeft' < SearchLeft
    OBVIOUS
  <2>1. img' = img /\ HasRegion' = HasRegion /\ RegionLen' = RegionLen
    BY DEF HeaderNext, NoRegion, TakeRegion, Accept, Reject, Exhausted, HasRegion, RegionLen
  <2>2. HasRegion => RegionLen - pos \in Nat /\ RegionLen - pos' \in Nat
    <3>1. HasRegion => pos' \in Nat /\ pos' <= RegionLen
      BY <2>1 DEF HeaderInv, HeaderTypeOK
    <3>2. HasRegion => RegionLen \in Nat
      BY RegionFacts DEF HeaderInv, HeaderTypeOK
    <3> QED
      BY <3>1, <3>2, SearchSize
  <2>3. CASE NoRegion \/ TakeRegion \/ Accept \/ Exhausted
    <3>1. /\ pos' = pos
          /\ \/ hpc = "region" /\ hpc' \in {"scan", "done"}
             \/ hpc = "scan" /\ hpc' = "done"
      BY <2>3 DEF NoRegion, TakeRegion, Accept, Exhausted
    <3> QED
      BY <2>1, <2>2, <3>1 DEF SearchLeft
  <2>4. CASE Reject
    <3>1. /\ HasRegion /\ hpc = "scan" /\ hpc' \in {"scan", "done"}
          /\ \E at \in Hits(pos) : pos' = at + 1
      BY <2>4 DEF Reject, ResumeAt, HeaderInv
    <3>2. pos \in Nat /\ pos' \in Nat /\ pos < pos' /\ RegionLen \in Nat
      <4>1. \A at \in Hits(pos) : at \in Nat /\ pos <= at
        BY <3>1, HitFacts DEF HeaderInv, HeaderTypeOK
      <4>2. pos \in Nat /\ RegionLen \in Nat
        BY <3>1, RegionFacts DEF HeaderInv, HeaderTypeOK
      <4> QED
        BY <3>1, <4>1, <4>2
    <3> QED
      BY <2>1, <2>2, <3>1, <3>2 DEF SearchLeft
  <2> QED
    BY <2>3, <2>4 DEF HeaderNext
<1> QED
  BY <1>1, <1>2, HeaderInvariant, PTL DEF HeaderSpec

=============================================================================
