---------------------------- MODULE DefaultScan ----------------------------
(***************************************************************************)
(* field_default_values of src/dump.rs: the map from field index to the    *)
(* <<typeIndex, dataIndex>> of its default value.                          *)
(*                                                                         *)
(* The table has no length: the code reads rows until one is unreadable,   *)
(* is out of range, or does not continue the strictly ascending field      *)
(* indices, and takes that row as the first one past the table.            *)
(***************************************************************************)
EXTENDS Integers

CONSTANTS
  MAX_ROWS,    \* 400_000, the bound of the loop
  MAX_INDEX,   \* 2_000_000, the bound of type and field indices
  Row          \* the rows considered, read as signed 32-bit integers

ASSUME ScanAssumption ==
  /\ MAX_ROWS \in Nat /\ MAX_INDEX \in Nat
  /\ Row \subseteq [ti : Int, fi : Int, di : Int]

VARIABLES
  rows,   \* i |-> row, for the rows the body is long enough for
  i,      \* the loop variable
  prev,   \* the field index of the last row taken
  dv,     \* the HashMap
  spc     \* "scan" or "done"

scanVars == <<rows, i, prev, dv, spc>>

\* The rows before the end of the body, up to one past the bound of the loop.
RowTables == UNION {[0 .. k - 1 -> Row] : k \in 0 .. MAX_ROWS + 1}

\* Mutant: a field index above MAX_INDEX does not end the table.
InRangeUncapped(r) == 0 <= r.fi /\ -1 <= r.ti /\ r.ti <= MAX_INDEX /\ -1 <= r.di

\* The range checks on one row.
InRange(r) ==
  /\ 0 <= r.fi /\ r.fi <= MAX_INDEX
  /\ -1 <= r.ti /\ r.ti <= MAX_INDEX
  /\ -1 <= r.di

\* Mutant: a repeated field index does not end the table.
TakesRepeats(r) == prev <= r.fi /\ InRange(r)

\* Mutant: the order of the rows is not checked.
TakesAnyOrder(r) == InRange(r)

Takes(r) == prev < r.fi /\ InRange(r)

ScanInit ==
  /\ i = 0
  /\ prev = -1
  /\ dv = [f \in {} |-> <<>>]
  /\ spc = "scan"

\* HashMap::insert.
Put(m, k, v) == [f \in DOMAIN m \union {k} |-> IF f = k THEN v ELSE m[f]]

InsertRow ==
  /\ spc = "scan"
  /\ i < MAX_ROWS /\ i \in DOMAIN rows
  /\ Takes(rows[i])
  /\ prev' = rows[i].fi
  /\ dv' = Put(dv, rows[i].fi, <<rows[i].ti, rows[i].di>>)
  /\ i' = i + 1
  /\ UNCHANGED <<rows, spc>>

\* break: the row is not one of the table.
StopAtBadRow ==
  /\ spc = "scan"
  /\ i < MAX_ROWS /\ i \in DOMAIN rows
  /\ ~Takes(rows[i])
  /\ spc' = "done"
  /\ UNCHANGED <<rows, i, prev, dv>>

\* The end of the body, or of the loop.
StopAtEnd ==
  /\ spc = "scan"
  /\ i = MAX_ROWS \/ i \notin DOMAIN rows
  /\ spc' = "done"
  /\ UNCHANGED <<rows, i, prev, dv>>

ScanNext == InsertRow \/ StopAtBadRow \/ StopAtEnd

-----------------------------------------------------------------------------
\* On its own, the scan starts from any rows.
ScanAlone == rows \in RowTables /\ ScanInit

ScanSpec == ScanAlone /\ [][ScanNext]_scanVars

-----------------------------------------------------------------------------
ScanTypeOK ==
  /\ rows \in RowTables
  /\ i \in 0 .. MAX_ROWS
  /\ prev \in -1 .. MAX_INDEX
  /\ \A f \in DOMAIN dv : f \in 0 .. MAX_INDEX /\ dv[f] \in Int \X Int
  /\ spc \in {"scan", "done"}

\* The first n rows look like a table: all in range, in ascending order of
\* their field indices.
TableSized(n) ==
  /\ n <= MAX_ROWS
  /\ \A k \in 0 .. n - 1 : k \in DOMAIN rows /\ InRange(rows[k])
  /\ \A j, k \in 0 .. n - 1 : j < k => rows[j].fi < rows[k].fi

\* dv holds what the first n rows say, and nothing else.
HoldsRows(n) ==
  /\ DOMAIN dv = {rows[k].fi : k \in 0 .. n - 1}
  /\ \A k \in 0 .. n - 1 : dv[rows[k].fi] = <<rows[k].ti, rows[k].di>>

(***************************************************************************)
(* The scan returns exactly the longest prefix of the rows that looks like *)
(* a table: one comparison with the previous row is enough to order all    *)
(* rows taken, and no row is taken past the first that breaks the order.   *)
(***************************************************************************)
DefaultsAreLongestTable ==
  spc = "done" =>
    \E n \in 0 .. MAX_ROWS :
      TableSized(n) /\ ~TableSized(n + 1) /\ HoldsRows(n)

(***************************************************************************)
(* HashMap::insert would replace an earlier default of the same field; the *)
(* scan never lets it.                                                     *)
(***************************************************************************)
NoDefaultReplaced ==
  [][\A f \in DOMAIN dv : f \in DOMAIN dv' /\ dv'[f] = dv[f]]_scanVars
=============================================================================
