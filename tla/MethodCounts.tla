---------------------------- MODULE MethodCounts ----------------------------
(***************************************************************************)
(* method_counts of src/dump.rs: the number of methods of every type.      *)
(*                                                                         *)
(* The typeDef records have no method count.  The code infers it: it       *)
(* collects the methodStart of every type, sorts and deduplicates those    *)
(* that are not the sentinel u32::MAX, and gives each type the distance    *)
(* from its own methodStart to the next larger one.                        *)
(***************************************************************************)
EXTENDS Integers, Sequences, FiniteSets

CONSTANTS
  TYPE_COUNT,    \* class_model::TYPE_COUNT, the number of type definitions
  U32_MAX,       \* u32::MAX, the sentinel "no methods" of methodStart
  SortDedup(_)   \* what Vec::sort_unstable and Vec::dedup make of a set

Types == 0 .. TYPE_COUNT - 1
U32   == 0 .. U32_MAX

\* s lists the elements of S, each once, in ascending order.
Ascending(S, s) ==
  /\ s \in Seq(S)
  /\ \A x \in S : \E i \in 1 .. Len(s) : s[i] = x
  /\ \A i, j \in 1 .. Len(s) : i < j => s[i] < s[j]

ASSUME CountsAssumption == TYPE_COUNT \in Nat /\ U32_MAX \in Nat

ASSUME SortDedupAssumption == \A S \in SUBSET U32 : Ascending(S, SortDedup(S))

VARIABLES
  records,   \* tdi |-> methodStart, for the records the body is long enough for
  starts,    \* the vector of all methodStarts, unreadable records included
  sorted,    \* the sorted, deduplicated, sentinel-free vector
  counts,    \* the result
  tdi,       \* index of the counting loop
  mpc        \* "collect", "sort", "count" or "done"

countVars == <<records, starts, sorted, counts, tdi, mpc>>

\* The readable records are consecutive ones.  They begin with the first,
\* except when the base of the table is negative and the sums of type_def
\* wrap (in a build that checks them dump_all panics before it counts); they
\* end with the body, and may go on past TYPE_COUNT.
MethodTables(n) == UNION {[j .. k - 1 -> U32] : j, k \in 0 .. n}

CountsInit ==
  /\ starts = [t \in Types |-> U32_MAX]
  /\ sorted = <<>>
  /\ counts = [t \in Types |-> 0]
  /\ tdi = 0
  /\ mpc = "collect"

(***************************************************************************)
(* The mutants below, like those of the other modules, are forms a         *)
(* plausible bug would give to the definition that follows them.           *)
(***************************************************************************)
\* Mutant: an unreadable record is marked by a signed -1.
StartOrMinusOne(t) == IF t \in DOMAIN records THEN records[t] ELSE -1

\* type_def(tdi).map(|t| t.method_start).unwrap_or(u32::MAX)
StartOf(t) == IF t \in DOMAIN records THEN records[t] ELSE U32_MAX

Collect ==
  /\ mpc = "collect"
  /\ starts' = [t \in Types |-> StartOf(t)]
  /\ mpc' = "sort"
  /\ UNCHANGED <<records, sorted, counts, tdi>>

\* Mutant: the sentinel is not filtered out.
AllStarts == {starts[t] : t \in Types}

RealStarts == {starts[t] : t \in Types} \ {U32_MAX}

SortStarts ==
  /\ mpc = "sort"
  /\ sorted' = SortDedup(RealStarts)
  /\ mpc' = "count"
  /\ UNCHANGED <<records, starts, counts, tdi>>

\* Mutant: the position of m itself rather than the one after it.
SamePosition(m) == {i \in 1 .. Len(sorted) : sorted[i] = m}

\* Positions binary_search(&m) leads to: one past a hit (Ok(i) => i + 1), or
\* the insertion point (Err(i) => i).
NextPositions(m) ==
  LET hits == {i \in 1 .. Len(sorted) : sorted[i] = m}
  IN  IF hits # {}
        THEN {i + 1 : i \in hits}
        ELSE {Cardinality({i \in 1 .. Len(sorted) : sorted[i] < m}) + 1}

\* Mutant: the interval to the next methodStart is taken as closed.
GapClosed(m, p) == IF p \in 1 .. Len(sorted) THEN sorted[p] - m + 1 ELSE 0

\* next.map(|n| n.saturating_sub(m)).unwrap_or(0)
Gap(m, p) ==
  IF p \in 1 .. Len(sorted) /\ sorted[p] > m THEN sorted[p] - m ELSE 0

SkipSentinel ==
  /\ mpc = "count"
  /\ tdi < TYPE_COUNT
  /\ starts[tdi] = U32_MAX
  /\ tdi' = tdi + 1
  /\ UNCHANGED <<records, starts, sorted, counts, mpc>>

CountMethods ==
  /\ mpc = "count"
  /\ tdi < TYPE_COUNT
  /\ starts[tdi] # U32_MAX
  /\ \E p \in NextPositions(starts[tdi]) :
       counts' = [counts EXCEPT ![tdi] = Gap(starts[tdi], p)]
  /\ tdi' = tdi + 1
  /\ UNCHANGED <<records, starts, sorted, mpc>>

ReturnCounts ==
  /\ mpc = "count"
  /\ tdi = TYPE_COUNT
  /\ mpc' = "done"
  /\ UNCHANGED <<records, starts, sorted, counts, tdi>>

CountsNext ==
  \/ Collect
  \/ SortStarts
  \/ SkipSentinel
  \/ CountMethods
  \/ ReturnCounts

-----------------------------------------------------------------------------
\* On its own, the computation starts from any table.
Init == records \in MethodTables(TYPE_COUNT) /\ CountsInit

Spec == Init /\ [][CountsNext]_countVars

-----------------------------------------------------------------------------
CountsTypeOK ==
  /\ \A t \in DOMAIN records : records[t] \in U32
  /\ starts \in [Types -> U32]
  /\ sorted \in Seq(U32)
  /\ counts \in [Types -> U32]
  /\ tdi \in 0 .. TYPE_COUNT
  /\ mpc \in {"collect", "sort", "count", "done"}

HasMethods(t) == starts[t] # U32_MAX

IsLast(t) == HasMethods(t) /\ \A u \in Types : HasMethods(u) => starts[u] <= starts[t]

\* The method indices the dump attributes to type t.
MethodRange(t) == starts[t] .. starts[t] + counts[t] - 1

\* real is a true assignment of method counts the table could encode: types
\* without methods carry the sentinel, the others own disjoint ranges laid end
\* to end, in any order of the types.
IsLayout(real) ==
  /\ \A t \in Types : real[t] > 0 <=> HasMethods(t)
  /\ \A t, u \in Types : HasMethods(t) /\ HasMethods(u) /\ t # u =>
       \/ starts[t] + real[t] <= starts[u]
       \/ starts[u] + real[u] <= starts[t]
  /\ \A t \in Types : HasMethods(t) /\ ~IsLast(t) =>
       \E u \in Types : HasMethods(u) /\ starts[u] = starts[t] + real[t]

(***************************************************************************)
(* The inference is right: whatever the true counts were, if the table     *)
(* lays the ranges end to end, each type gets its true count.  The last    *)
(* range is the exception: the table does not say where it ends.           *)
(***************************************************************************)
RecoversLayout ==
  mpc = "done" =>
    \A real \in [Types -> U32] :
      IsLayout(real) => \A t \in Types : IsLast(t) \/ counts[t] = real[t]

(***************************************************************************)
(* Even for a table that is not a layout (types sharing a methodStart, any *)
(* order), the ranges of types that start apart never overlap and leave no *)
(* hole before the last start: a method is attributed to exactly one start.*)
(***************************************************************************)
OneStartPerMethod ==
  mpc = "done" =>
    \A g \in U32 :
      ((\E t \in Types : HasMethods(t) /\ starts[t] <= g)
        /\ (\E t \in Types : HasMethods(t) /\ g < starts[t]))
      <=> \E t \in Types :
            /\ HasMethods(t) /\ g \in MethodRange(t)
            /\ \A u \in Types : HasMethods(u) /\ g \in MethodRange(u)
                                  => starts[u] = starts[t]

(***************************************************************************)
(* methods() walks method_start.wrapping_add(slot) for slot < count: the   *)
(* sum never wraps around, nor does it reach the sentinel index.           *)
(***************************************************************************)
NoIndexWrap ==
  \A t \in Types : HasMethods(t) => starts[t] + counts[t] < U32_MAX

(***************************************************************************)
(* What the comment of method_counts says, "method_count for every type    *)
(* [...] (0 for sentinel types)": the true count of every type, the last   *)
(* one included.  The code gives the last one 0.                           *)
(***************************************************************************)
CountForEveryType ==
  mpc = "done" => \A t \in Types : counts[t] = 0 => ~HasMethods(t)
=============================================================================
