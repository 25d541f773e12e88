---------------------------- MODULE MCHeaderScan ----------------------------
(* A small instance of HeaderScan: regions of up to 6 bytes in files of up  *)
(* to 8, with every placement of the magic and every kind of candidate.     *)
EXTENDS HeaderScan, FiniteSets

\* "MHY\0" cannot overlap itself.
Placements ==
  {M \in SUBSET (0 .. 5) : \A a, b \in M : a < b => a + MAGIC_LEN <= b}

\* A candidate names no string section, one past the body, the right one or
\* another one.
StringSections == {-1, BODY_LEN, 0, 1}

MCImages ==
  {[len |-> p + n + d, imgLen |-> p + n + e, ptr |-> p, size |-> n,
    hasRdata |-> h, strsec |-> s] :
     p \in 0 .. 1, n \in 0 .. 6, d \in 0 .. 1, e \in 0 .. 1,
     h \in BOOLEAN, s \in UNION {[M -> StringSections] : M \in Placements}}

=============================================================================
