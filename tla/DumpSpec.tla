------------------------------ MODULE DumpSpec ------------------------------
(***************************************************************************)
(* What dump_all of src/dump.rs promises its caller, however it finds out: *)
(* it writes the lines of a listing, each once and in order, and then      *)
(* reports how many types, fields and methods it wrote; or it stops with   *)
(* an error and has written a beginning of the listing.                    *)
(***************************************************************************)
EXTENDS Integers, Sequences, FiniteSets

VARIABLES
  listing,   \* the lines to write: records [pos, sec, key, val]
  written,   \* the lines written
  status,    \* "running", "ok" or "err"
  totals     \* the result: <<types, fields, methods>>

dumpVars == <<listing, written, status, totals>>

\* The kinds of lines, in the order they have within one type.
Namespace == 0
Open == 1
FieldsHeading == 2
FieldLine == 3
MethodsHeading == 4
MethodLine == 5
Close == 6

\* Lines go by place in the list of types, then by kind, then by index.
Before(l, m) ==
  \/ l.pos < m.pos
  \/ l.pos = m.pos /\ l.sec < m.sec
  \/ l.pos = m.pos /\ l.sec = m.sec /\ l.key < m.key

Lines == {written[n] : n \in DOMAIN written}

CountOf(sec) == Cardinality({l \in listing : l.sec = sec})

DumpInit ==
  /\ written = <<>>
  /\ status = "running"
  /\ totals = <<0, 0, 0>>

Emit ==
  /\ status = "running"
  /\ \E l \in listing \ Lines :
       /\ \A m \in listing : Before(m, l) => m \in Lines
       /\ written' = Append(written, l)
  /\ UNCHANGED <<listing, status, totals>>

Complete ==
  /\ status = "running"
  /\ listing \subseteq Lines
  /\ status' = "ok"
  /\ totals' = <<CountOf(Open), CountOf(FieldLine), CountOf(MethodLine)>>
  /\ UNCHANGED <<listing, written>>

\* A write fails.
Fail ==
  /\ status = "running"
  /\ status' = "err"
  /\ UNCHANGED <<listing, written, totals>>

DumpNext == Emit \/ Complete \/ Fail

Spec == DumpInit /\ [][DumpNext]_dumpVars
=============================================================================
