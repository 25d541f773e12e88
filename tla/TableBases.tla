----------------------------- MODULE TableBases -----------------------------
(***************************************************************************)
(* DecodedMetadata::new of src/metadata.rs and what header_dump of         *)
(* src/main.rs says of it: the bases of the tables in the body, from the   *)
(* words of the header that the search has let through (HeaderScan).       *)
(***************************************************************************)
EXTENDS Memory, Sequences

CONSTANTS
  Subs, Xors,  \* the tables whose base is i32 - bias and u32 ^ key
  Strings,     \* the one the header search decodes from
  Bias,        \* of each of Subs
  Order,       \* in which header_dump prints them
  Words,       \* the words considered: an i32, or a u32 with its key removed
  BodyLens     \* the lengths of the body considered

Tables == Subs \union Xors

ASSUME BasesAssumption ==
  /\ Strings \in Subs /\ Subs \intersect Xors = {}
  /\ \A t \in Subs : Bias[t] \in Word32 /\ 2 * Bias[t] < U32_RANGE
  /\ {Order[k] : k \in DOMAIN Order} = Tables /\ Len(Order) = Cardinality(Tables)
  /\ \A t \in Subs : Words[t] \subseteq {AsI32(n) : n \in Word32}
  /\ \A t \in Xors : Words[t] \subseteq Word32
  /\ BodyLens \subseteq 0 .. LONGEST

VARIABLES
  word,     \* table |-> its word of the header
  bodyLen,  \* body.len()
  bases,    \* table |-> its base, a usize
  report,   \* the lines printed: <<table, "OK" or "OOB">>
  bpc       \* "search", "resolve", "print"; "none" is load's error, "done"

baseVars == <<word, bodyLen, bases, report, bpc>>

AnyWords == {w \in [Tables -> UNION {Words[t] : t \in Tables}] :
               \A t \in Tables : w[t] \in Words[t]}

BasesInit ==
  /\ word \in AnyWords /\ bodyLen \in BodyLens
  /\ bases = [t \in Tables |-> 0]
  /\ report = <<>>
  /\ bpc = "search"

-----------------------------------------------------------------------------
\* sub and xor, before the cast.
Signed(t, w) == IF t \in Subs THEN w - Bias[t] ELSE w

\* Mutant: the cast goes through a u32.
BaseOfU32(t, w) == Signed(t, w) % U32_RANGE

BaseOf(t, w) == AsUsize(Signed(t, w))

\* if strsec < 0 || strsec as usize >= body.len()
StringsInside(strsec, len) == strsec >= 0 /\ AsUsize(strsec) < len

\* header_validates; whether "mscorlib" is there is for the body to say.
Validate ==
  /\ bpc = "search"
  /\ \/ bpc' = "none"
     \/ StringsInside(Signed(Strings, word[Strings]), bodyLen) /\ bpc' = "resolve"
  /\ UNCHANGED <<word, bodyLen, bases, report>>

\* new
Resolve ==
  /\ bpc = "resolve"
  /\ bases' = [t \in Tables |-> BaseOf(t, word[t])]
  /\ bpc' = "print"
  /\ UNCHANGED <<word, bodyLen, report>>

Flag(off) == IF off < bodyLen THEN "OK" ELSE "OOB"

ReportLine ==
  /\ bpc = "print" /\ Len(report) < Len(Order)
  /\ LET t == Order[Len(report) + 1]
     IN  report' = Append(report, <<t, Flag(bases[t])>>)
  /\ UNCHANGED <<word, bodyLen, bases, bpc>>

BasesDone ==
  /\ bpc = "print" /\ Len(report) = Len(Order)
  /\ bpc' = "done"
  /\ UNCHANGED <<word, bodyLen, bases, report>>

BasesNext == Validate \/ Resolve \/ ReportLine \/ BasesDone

BasesSpec == BasesInit /\ [][BasesNext]_baseVars

-----------------------------------------------------------------------------
Lines == {report[k] : k \in DOMAIN report}

(***************************************************************************)
(* A table is reported inside the body exactly if the whole number its     *)
(* word stands for is: a base below zero, which the cast makes a huge      *)
(* usize, is never taken for an offset into the body.                      *)
(***************************************************************************)
OobIfOutside ==
  \A line \in Lines :
    LET whole == IF line[1] \in Subs THEN word[line[1]] - Bias[line[1]] ELSE word[line[1]]
    IN  line[2] = "OK" <=> whole \in 0 .. bodyLen - 1
=============================================================================
