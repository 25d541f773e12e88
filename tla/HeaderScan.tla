----------------------------- MODULE HeaderScan -----------------------------
(***************************************************************************)
(* find_embedded_header and header_validates of src/decrypt/file.rs: the   *)
(* search of .rdata for the embedded "MHY" header.  A candidate is real    *)
(* when the string section its own field points at decodes "mscorlib".     *)
(***************************************************************************)
EXTENDS Integers

CONSTANTS
  MAGIC_LEN,   \* 4, the length of "MHY\0"
  HDR_LEN,     \* 0x600, the bytes captured
  DOC_LEN,     \* 0x200, the bytes the comment of the function speaks of
  BODY_LEN,    \* body.len()
  Oracle,      \* the offsets at which the body decodes to "mscorlib"
  Images          \* the images considered

(***************************************************************************)
(* An image: its length, whether it has an .rdata section and where its    *)
(* raw data lies, img_len (the end of the raw data that ends last) and,    *)
(* for every file offset where "MHY\0" occurs, the string section that a   *)
(* header starting there names: its +272 field less STRSEC_BIAS.           *)
(***************************************************************************)
IsImage(e) ==
  /\ e.len \in Nat /\ e.imgLen \in Nat /\ e.ptr \in Nat /\ e.size \in Nat
  /\ e.hasRdata => e.ptr + e.size <= e.imgLen
  /\ DOMAIN e.strsec \subseteq Nat
  /\ \A m \in DOMAIN e.strsec : e.strsec[m] \in Int

ASSUME HeaderAssumption ==
  /\ MAGIC_LEN \in Nat \ {0} /\ HDR_LEN \in Nat /\ BODY_LEN \in Nat
  /\ \A e \in Images : IsImage(e)

VARIABLES
  img,     \* the image
  pos,     \* where in the region the next search starts
  found,   \* the offset of the header in the region, or NoHeader
  hpc      \* "region", "scan" or "done"

headerVars == <<img, pos, found, hpc>>

NoHeader == -1

HeaderInit ==
  /\ img \in Images
  /\ pos = 0
  /\ found = NoHeader
  /\ hpc = "region"

\* region = &bytes[raw_start..raw_end.min(bytes.len())], bytes of img_len.
RegionLen ==
  (IF img.ptr + img.size <= img.imgLen THEN img.ptr + img.size ELSE img.imgLen)
    - img.ptr

\* Where find_subslice could report the magic, searching from p.
Hits(p) ==
  {m - img.ptr : m \in {x \in DOMAIN img.strsec :
     img.ptr + p <= x /\ x + MAGIC_LEN <= img.ptr + RegionLen}}

\* Mutant: a header cut short by the end of the region still fits.
FitsClipped(at) == at + MAGIC_LEN <= RegionLen

\* region.get(at..at + HDR_LEN) is Some
Fits(at) == at + HDR_LEN <= RegionLen

\* header_validates
Validates(at) ==
  LET s == img.strsec[img.ptr + at]
  IN  0 <= s /\ s < BODY_LEN /\ s \in Oracle

\* Mutants: the search resumes after the bytes a header would take, or where
\* it just found the magic.
AfterHeader(at) == at + HDR_LEN
SamePlace(at) == at

\* Where the search resumes after a candidate that is not the header.
ResumeAt(at) == at + 1

\* Mutant: the search runs from the end of the region.
LastHit(at) == at \in Hits(pos) /\ \A b \in Hits(pos) : b <= at

FirstHit(at) == at \in Hits(pos) /\ \A b \in Hits(pos) : at <= b

\* section(".rdata")? and file_slice(0, img_len)?
NoRegion ==
  /\ hpc = "region"
  /\ ~img.hasRdata \/ img.imgLen > img.len
  /\ hpc' = "done"
  /\ UNCHANGED <<img, pos, found>>

TakeRegion ==
  /\ hpc = "region"
  /\ img.hasRdata /\ img.imgLen <= img.len
  /\ hpc' = "scan"
  /\ UNCHANGED <<img, pos, found>>

Accept ==
  /\ hpc = "scan"
  /\ \E at \in Hits(pos) :
       /\ FirstHit(at) /\ Fits(at) /\ Validates(at)
       /\ found' = at
  /\ hpc' = "done"
  /\ UNCHANGED <<img, pos>>

Reject ==
  /\ hpc = "scan"
  /\ \E at \in Hits(pos) :
       /\ FirstHit(at)
       /\ ~(Fits(at) /\ Validates(at))
       /\ pos' = ResumeAt(at)
  /\ hpc' = IF pos' >= RegionLen THEN "done" ELSE "scan"
  /\ UNCHANGED <<img, found>>

Exhausted ==
  /\ hpc = "scan"
  /\ Hits(pos) = {}
  /\ hpc' = "done"
  /\ UNCHANGED <<img, pos, found>>

HeaderNext ==
  \/ NoRegion
  \/ TakeRegion
  \/ Accept
  \/ Reject
  \/ Exhausted

HeaderSpec == HeaderInit /\ [][HeaderNext]_headerVars

\* The search is one thread that runs whenever it can.
FairSpec == HeaderSpec /\ WF_headerVars(HeaderNext)

-----------------------------------------------------------------------------
HasRegion == img.hasRdata /\ img.imgLen <= img.len

\* The search stays in the region.
HeaderTypeOK ==
  /\ IsImage(img)
  /\ pos \in Nat
  /\ HasRegion => pos <= RegionLen   \* &region[pos..] is in bounds
  /\ found \in Nat \union {NoHeader}
  /\ hpc \in {"region", "scan", "done"}

\* The offsets of .rdata at which a whole header starts that validates.
Headers == {at \in Hits(0) : Fits(at) /\ Validates(at)}

(***************************************************************************)
(* The search returns the first header that validates, and gives up only   *)
(* when there is none: a candidate never hides the header, not even one    *)
(* that starts within the bytes of a candidate already refused.            *)
(***************************************************************************)
FirstHeaderFound ==
  hpc = "done" =>
    IF HasRegion /\ Headers # {}
      THEN found \in Headers /\ \A at \in Headers : found <= at
      ELSE found = NoHeader

(***************************************************************************)
(* The header is HDR_LEN bytes of the file, so DecodedMetadata::new, which *)
(* indexes it up to +524 without a check, stays inside it.                 *)
(***************************************************************************)
HeaderInsideFile ==
  found # NoHeader => img.ptr + found + HDR_LEN <= img.len

\* The loop ends: candidates are finitely many and none is visited twice.
SearchEnds == <>(hpc = "done")

(***************************************************************************)
(* What the comment of find_embedded_header says, "Returns its first 0x200 *)
(* bytes": a header that validates and has DOC_LEN bytes left in .rdata is *)
(* found.  The code wants HDR_LEN bytes.                                   *)
(***************************************************************************)
ShortHeaderFound ==
  hpc = "done" /\ HasRegion /\ found = NoHeader =>
    \A at \in Hits(0) : ~(Validates(at) /\ at + DOC_LEN <= RegionLen)
=============================================================================
