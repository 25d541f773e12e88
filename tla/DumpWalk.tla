------------------------------ MODULE DumpWalk ------------------------------
(***************************************************************************)
(* dump_all of src/dump.rs: method_counts, field_default_values, then the  *)
(* walk over the type definitions that writes dump.cs line by line.        *)
(***************************************************************************)
EXTENDS Integers, Sequences, FiniteSets

CONSTANTS
  TYPE_COUNT, U32_MAX, SortDedup(_),   \* see MethodCounts
  MAX_ROWS, MAX_INDEX, Row,            \* see DefaultScan
  MAX_METHODS,   \* 0x4000, from which on methods() gives a type none
  Databases,     \* the metadata considered
  Requests       \* the lists of type indices asked for (--only, or all)

VARIABLES
  records, starts, sorted, counts, tdi, mpc,   \* method_counts
  rows, i, prev, dv, spc,                      \* field_default_values
  db,        \* the rest of the metadata
  indices,   \* the type indices to list
  at,        \* the place reached in indices
  todo,      \* the decoded fields or methods still to write
  out,       \* the lines written to w
  ntypes, nfields, nmethods,
  wpc        \* where the walk is; "ok" and "err" are its results

countsVars == <<records, starts, sorted, counts, tdi, mpc>>
scanVars   == <<rows, i, prev, dv, spc>>
inputVars  == <<db, indices>>
walkVars   == <<at, todo, out, ntypes, nfields, nmethods, wpc>>
vars       == <<countsVars, scanVars, inputVars, walkVars>>

Counts == INSTANCE MethodCounts
Scan   == INSTANCE DefaultScan

Types == Counts!Types

(***************************************************************************)
(* The metadata, as far as the walk tells it apart:                        *)
(*   records, rows    the tables of method_counts, field_default_values    *)
(*   named            the type definitions whose name is not empty         *)
(*   fieldStart, fieldCount   of every type definition                     *)
(*   nFieldDefs, nMethodDefs  how many fieldDefs, methodDefs are readable  *)
(*   consts           the fields whose modifiers contain "const "          *)
(*   literals         the <<typeIndex, dataIndex>> dv_literal can render   *)
(***************************************************************************)
IsDatabase(d) ==
  /\ \A t \in DOMAIN d.records : d.records[t] \in Counts!U32
  /\ d.rows \in Scan!RowTables
  /\ {d.nFieldDefs, d.nMethodDefs} \subseteq Nat
  /\ \A t \in Types \cap DOMAIN d.records :
       d.fieldStart[t] \in Int /\ d.fieldCount[t] \in Nat

ASSUME DumpAssumption ==
  /\ {TYPE_COUNT, U32_MAX, MAX_ROWS, MAX_INDEX, MAX_METHODS} \subseteq Nat
  /\ Row \subseteq [ti : Int, fi : Int, di : Int]
  /\ \A S \in SUBSET Counts!U32 : Counts!Ascending(S, SortDedup(S))
  /\ \A d \in Databases : IsDatabase(d)
  /\ Requests \subseteq Seq(Nat)

Input(d, list) ==
  /\ records = d.records
  /\ rows = d.rows
  /\ db = d
  /\ indices = list

Init ==
  /\ \E d \in Databases, list \in Requests : Input(d, list)
  /\ Counts!CountsInit
  /\ Scan!ScanInit
  /\ at = 1
  /\ todo = <<>>
  /\ out = <<>>
  /\ ntypes = 0 /\ nfields = 0 /\ nmethods = 0
  /\ wpc = "type"

-----------------------------------------------------------------------------
\* The two passes that come before the walk.
CountStep ==
  /\ mpc # "done"
  /\ Counts!CountsNext
  /\ UNCHANGED <<scanVars, inputVars, walkVars>>

ScanStep ==
  /\ mpc = "done" /\ spc # "done"
  /\ Scan!ScanNext
  /\ UNCHANGED <<countsVars, inputVars, walkVars>>

Walking(pc) ==
  /\ mpc = "done" /\ spc = "done"
  /\ wpc = pc
  /\ UNCHANGED <<countsVars, scanVars, inputVars>>

Line(sec, key, val) == [pos |-> at, sec |-> sec, key |-> key, val |-> val]

\* Mutant: the table is trusted to end with the last type.
ReadableRecord(t) == t \in DOMAIN records

\* type_def(t) is Some.
HasTypeDef(t) == t \in Types /\ t \in DOMAIN records

\* let Some(td) = cm.type_def(i) else { continue }; td.name.is_empty()
Listed(t) == HasTypeDef(t) /\ t \in db.named

\* continue
SkipType ==
  /\ Walking("type")
  /\ at \in DOMAIN indices
  /\ ~Listed(indices[at])
  /\ at' = at + 1
  /\ UNCHANGED <<todo, out, ntypes, nfields, nmethods, wpc>>

EnterType ==
  /\ Walking("type")
  /\ at \in DOMAIN indices
  /\ Listed(indices[at])
  /\ ntypes' = ntypes + 1
  /\ wpc' = "namespace"
  /\ UNCHANGED <<at, todo, out, nfields, nmethods>>

WriteNamespace ==
  /\ Walking("namespace")
  /\ out' = Append(out, Line(0, 0, <<>>))
  /\ wpc' = "open"
  /\ UNCHANGED <<at, todo, ntypes, nfields, nmethods>>

WriteOpen ==
  /\ Walking("open")
  /\ out' = Append(out, Line(1, 0, <<>>))
  /\ wpc' = "fields"
  /\ UNCHANGED <<at, todo, ntypes, nfields, nmethods>>

\* Of count consecutive indices, those below the end of their table.
Readable(first, count, end) ==
  [n \in 1 .. (IF first + count <= end THEN count ELSE end - first) |-> first + n - 1]

\* fields(): the fields whose fieldDef is readable.
DecodedFields(t) ==
  IF db.fieldStart[t] < 0
    THEN <<>>
    ELSE Readable(db.fieldStart[t], db.fieldCount[t], db.nFieldDefs)

DecodeFields ==
  /\ Walking("fields")
  /\ todo' = DecodedFields(indices[at])
  /\ wpc' = IF todo' = <<>> THEN "methods" ELSE "fieldsHeading"
  /\ UNCHANGED <<at, out, ntypes, nfields, nmethods>>

WriteFieldsHeading ==
  /\ Walking("fieldsHeading")
  /\ out' = Append(out, Line(2, 0, <<>>))
  /\ wpc' = "field"
  /\ UNCHANGED <<at, todo, ntypes, nfields, nmethods>>

\* The " = value" of a const field; <<>> when there is none.
Default(g) ==
  IF g \in db.consts /\ g \in DOMAIN dv /\ dv[g] \in db.literals
    THEN dv[g] ELSE <<>>

\* for f in fields, for m in methods
More(rest) == rest # <<>>

WriteField ==
  /\ Walking("field")
  /\ out' = Append(out, Line(3, Head(todo), Default(Head(todo))))
  /\ nfields' = nfields + 1
  /\ todo' = Tail(todo)
  /\ wpc' = IF More(todo') THEN "field" ELSE "methods"
  /\ UNCHANGED <<at, ntypes, nmethods>>

\* Mutant: the limit is taken as inclusive.
DecodedUpToLimit(t) ==
  IF counts[t] = 0 \/ counts[t] > MAX_METHODS \/ records[t] = U32_MAX
    THEN <<>>
    ELSE Readable(records[t], counts[t], db.nMethodDefs)

\* methods(): the methods whose methodDef is readable.
DecodedMethods(t) ==
  IF counts[t] = 0 \/ counts[t] >= MAX_METHODS \/ records[t] = U32_MAX
    THEN <<>>
    ELSE Readable(records[t], counts[t], db.nMethodDefs)

DecodeMethods ==
  /\ Walking("methods")
  /\ todo' = DecodedMethods(indices[at])
  /\ wpc' = IF todo' = <<>> THEN "close" ELSE "methodsHeading"
  /\ UNCHANGED <<at, out, ntypes, nfields, nmethods>>

WriteMethodsHeading ==
  /\ Walking("methodsHeading")
  /\ out' = Append(out, Line(4, 0, <<>>))
  /\ wpc' = "method"
  /\ UNCHANGED <<at, todo, ntypes, nfields, nmethods>>

WriteMethod ==
  /\ Walking("method")
  /\ out' = Append(out, Line(5, Head(todo), <<>>))
  /\ nmethods' = nmethods + 1
  /\ todo' = Tail(todo)
  /\ wpc' = IF More(todo') THEN "method" ELSE "close"
  /\ UNCHANGED <<at, ntypes, nfields>>

CloseType ==
  /\ Walking("close")
  /\ out' = Append(out, Line(6, 0, <<>>))
  /\ at' = at + 1
  /\ wpc' = "type"
  /\ UNCHANGED <<todo, ntypes, nfields, nmethods>>

ReturnTotals ==
  /\ Walking("type")
  /\ at \notin DOMAIN indices
  /\ wpc' = "ok"
  /\ UNCHANGED <<at, todo, out, ntypes, nfields, nmethods>>

\* Any writeln!(w, ...)? may fail.
WriteFails ==
  /\ \E pc \in {"namespace", "open", "fieldsHeading", "field",
                "methodsHeading", "method", "close"} : Walking(pc)
  /\ wpc' = "err"
  /\ UNCHANGED <<at, todo, out, ntypes, nfields, nmethods>>

Next ==
  \/ CountStep
  \/ ScanStep
  \/ SkipType
  \/ EnterType
  \/ WriteNamespace
  \/ WriteOpen
  \/ DecodeFields
  \/ WriteFieldsHeading
  \/ WriteField
  \/ DecodeMethods
  \/ WriteMethodsHeading
  \/ WriteMethod
  \/ CloseType
  \/ ReturnTotals
  \/ WriteFails

Spec == Init /\ [][Next]_vars

-----------------------------------------------------------------------------
(***************************************************************************)
(* mcounts[i] is never out of bounds in a type the walk has entered,       *)
(* whatever --only asks for and however many bytes follow the type table:  *)
(* mcounts has TYPE_COUNT entries.                                         *)
(***************************************************************************)
IndexInRange ==
  wpc \notin {"type", "ok", "err"} =>
    at \in DOMAIN indices /\ indices[at] \in DOMAIN counts

(***************************************************************************)
(* The listing the metadata defines, with no regard to how the code finds  *)
(* it out: who owns which method follows from the methodStarts alone, a    *)
(* default is one of the longest table the rows begin with.                *)
(***************************************************************************)
LaterStarts(t) ==
  {records[u] : u \in {v \in Types \cap DOMAIN records :
                         records[v] # U32_MAX /\ records[v] > records[t]}}

OwnMethods(t) ==
  IF records[t] = U32_MAX \/ LaterStarts(t) = {}
    THEN {}
    ELSE {g \in Counts!U32 : records[t] <= g /\ \A s \in LaterStarts(t) : g < s}

OwnFields(t) ==
  IF db.fieldStart[t] < 0
    THEN {}
    ELSE db.fieldStart[t] .. db.fieldStart[t] + db.fieldCount[t] - 1

TableRows ==
  {k \in DOMAIN rows : \E n \in 0 .. MAX_ROWS : k < n /\ Scan!TableSized(n)}

ListedDefault(g) ==
  LET own == {k \in TableRows : rows[k].fi = g}
      val == {<<rows[k].ti, rows[k].di>> : k \in own}
  IN  IF g \in db.consts /\ val \cap db.literals # {}
        THEN CHOOSE v \in val : v \in db.literals
        ELSE <<>>

ListedFields(t)  == {g \in OwnFields(t) : g < db.nFieldDefs}
ListedMethods(t) ==
  IF Cardinality(OwnMethods(t)) >= MAX_METHODS THEN {}
  ELSE {g \in OwnMethods(t) : g < db.nMethodDefs}

LinesOf(p) ==
  LET t == indices[p]
      L(sec, key, val) == [pos |-> p, sec |-> sec, key |-> key, val |-> val]
  IN  {L(0, 0, <<>>), L(1, 0, <<>>), L(6, 0, <<>>)}
        \union {L(2, 0, <<>>) : g \in ListedFields(t)}
        \union {L(3, g, ListedDefault(g)) : g \in ListedFields(t)}
        \union {L(4, 0, <<>>) : g \in ListedMethods(t)}
        \union {L(5, g, <<>>) : g \in ListedMethods(t)}

Listing ==
  UNION {LinesOf(p) : p \in {q \in DOMAIN indices :
                               indices[q] \in Types \cap DOMAIN records \cap db.named}}

Dump == INSTANCE DumpSpec WITH
  listing <- Listing,
  written <- out,
  status  <- IF wpc \in {"ok", "err"} THEN wpc ELSE "running",
  totals  <- IF wpc = "ok" THEN <<ntypes, nfields, nmethods>> ELSE <<0, 0, 0>>

(***************************************************************************)
(* The walk implements DumpSpec: it writes exactly the lines the metadata  *)
(* defines, in order, and on success its totals count them.                *)
(***************************************************************************)
ImplementsDump == Dump!Spec
=============================================================================
