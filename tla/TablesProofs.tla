---------------------------- MODULE TablesProofs ----------------------------
(* Proofs about method_counts and field_default_values, the two passes of   *)
(* dump_all over whole tables: for every table and every bound.             *)
EXTENDS MethodCounts, DefaultScan, NaturalLemmas, SequenceTheorems

\* u is the type whose methodStart is the next larger one after t's.
IsNext(t, u) ==
  /\ HasMethods(u) /\ starts[t] < starts[u]
  /\ \A v \in Types : HasMethods(v) /\ starts[t] < starts[v]
                        => starts[u] <= starts[v]

\* The count of t is final: 0 after the last start, else the distance to the
\* next larger start.
Counted(t) ==
  \/ IsLast(t) /\ counts[t] = 0
  \/ \E u \in Types : IsNext(t, u) /\ counts[t] = starts[u] - starts[t]

\* The vector of starts says what the records do.
StartsRead == mpc # "collect" => \A t \in Types : starts[t] = StartOf(t)

(***************************************************************************)
(* The inductive invariant.  What the properties say holds of `counts'     *)
(* alone is not inductive: it rests on `sorted' being the ascending vector *)
(* of the starts while the loop runs.                                      *)
(***************************************************************************)
CountsInv ==
  /\ CountsTypeOK
  /\ mpc \in {"collect", "sort"} => tdi = 0
  /\ StartsRead
  /\ mpc = "done" => tdi = TYPE_COUNT
  /\ mpc \in {"count", "done"} => Ascending(RealStarts, sorted)
  /\ \A t \in Types : t < tdi /\ HasMethods(t) => Counted(t)
  /\ \A t \in Types : t >= tdi \/ ~HasMethods(t) => counts[t] = 0

USE CountsAssumption

-----------------------------------------------------------------------------
\* One lookup: in an ascending vector the entry after m is the least above m.
LEMMA NextEntry ==
  ASSUME NEW S \in SUBSET U32, NEW s, Ascending(S, s),
         NEW at \in 1 .. Len(s)
  PROVE  /\ s[at] \in S
         /\ at + 1 \in 1 .. Len(s) =>
              /\ s[at + 1] \in S /\ s[at] < s[at + 1]
              /\ \A x \in S : s[at] < x => s[at + 1] <= x
         /\ at + 1 \notin 1 .. Len(s) => \A x \in S : x <= s[at]
<1>1. s \in Seq(S) /\ Len(s) \in Nat /\ \A k \in 1 .. Len(s) : s[k] \in S
  BY DEF Ascending
<1>2. \A k, l \in 1 .. Len(s) : k < l => s[k] < s[l]
  BY DEF Ascending
<1>3. \A k \in 1 .. Len(s) : s[k] \in Int
  <2>1. U32 \subseteq Int
    BY DEF U32
  <2> QED
    BY <1>1, <2>1
<1>4. ASSUME NEW x \in S, at + 1 \in 1 .. Len(s), s[at] < x
      PROVE  s[at + 1] <= x
  <2>1. PICK k \in 1 .. Len(s) : s[k] = x
    BY DEF Ascending
  <2>2. ~(k < at) /\ k # at
    BY <1>2, <1>3, <1>4, <2>1
  <2>3. k = at + 1 \/ at + 1 < k
    BY <2>2, <1>1
  <2> QED
    BY <1>2, <1>3, <1>4, <2>1, <2>3
<1>5. ASSUME NEW x \in S, at + 1 \notin 1 .. Len(s)
      PROVE  x <= s[at]
  <2>1. PICK k \in 1 .. Len(s) : s[k] = x
    BY DEF Ascending
  <2>2. k = at \/ k < at
    BY <1>1, <1>5
  <2> QED
    BY <1>2, <1>3, <2>1, <2>2
<1> QED
  BY <1>1, <1>2, <1>4, <1>5

-----------------------------------------------------------------------------
(***************************************************************************)
(* CountsInv is an invariant of method_counts: the bookkeeping of the      *)
(* three loops of the function.                                            *)
(***************************************************************************)
LEMMA InitCountsInv ==
  ASSUME CountsInit, \A t \in DOMAIN records : records[t] \in U32
  PROVE  CountsInv
<1>1. CountsTypeOK
  BY DEF CountsInit, CountsTypeOK, U32
<1>2. \A t \in Types : ~HasMethods(t) /\ counts[t] = 0
  BY DEF CountsInit, HasMethods
<1> QED
  BY <1>1, <1>2 DEF CountsInit, CountsInv, StartsRead

LEMMA NextCountsInv == CountsInv /\ [CountsNext]_countVars => CountsInv'
<1> SUFFICES ASSUME CountsInv, [CountsNext]_countVars
             PROVE  CountsInv'
  OBVIOUS
<1> USE DEF CountsInv
<1>0. StartsRead'
  BY DEF StartsRead, StartOf, CountsNext, Collect, SortStarts, SkipSentinel, CountMethods,
     ReturnCounts, countVars, Types
<1>1. CASE Collect
  <2>1. starts' \in [Types -> U32]
    BY <1>1 DEF Collect, StartOf, CountsTypeOK, MethodTables, U32
  <2>2. CountsTypeOK'
    BY <1>1, <2>1 DEF Collect, CountsTypeOK
  <2>3. \A t \in Types : counts'[t] = 0
    BY <1>1 DEF Collect, Types
  <2> QED
    BY <1>0, <1>1, <2>2, <2>3 DEF Collect, Types
<1>2. CASE SortStarts
  <2>1. RealStarts \in SUBSET U32 /\ RealStarts' = RealStarts
    BY <1>2 DEF SortStarts, RealStarts, CountsTypeOK
  <2>2. Ascending(RealStarts, sorted')
    BY <1>2, <2>1, SortDedupAssumption DEF SortStarts
  <2>3. sorted' \in Seq(U32)
    BY <2>1, <2>2, SeqMonotonic DEF Ascending
  <2>4. CountsTypeOK'
    BY <1>2, <2>3 DEF SortStarts, CountsTypeOK
  <2>5. Ascending(RealStarts, sorted)'
    BY <2>1, <2>2 DEF Ascending
  <2> QED
    BY <1>0, <1>2, <2>4, <2>5 DEF SortStarts, Types, HasMethods
<1>3. CASE SkipSentinel
  <2>1. CountsTypeOK'
    BY <1>3 DEF SkipSentinel, CountsTypeOK
  <2>2. Ascending(RealStarts, sorted)'
    BY <1>3 DEF SkipSentinel, RealStarts, Ascending
  <2>3. \A t \in Types : t < tdi' /\ HasMethods(t)' => Counted(t)'
    BY <1>3 DEF SkipSentinel, HasMethods, Counted, IsLast, IsNext, Types, CountsTypeOK
  <2>4. \A t \in Types : t >= tdi' \/ ~HasMethods(t)' => counts'[t] = 0
    BY <1>3 DEF SkipSentinel, HasMethods, Types, CountsTypeOK
  <2> QED
    BY <1>0, <1>3, <2>1, <2>2, <2>3, <2>4 DEF SkipSentinel
<1>4. CASE CountMethods
  <2> DEFINE m == starts[tdi]
  <2>1. /\ tdi \in Types /\ m \in U32 /\ HasMethods(tdi)
        /\ Ascending(RealStarts, sorted) /\ m \in RealStarts
        /\ RealStarts \in SUBSET U32
    BY <1>4 DEF CountMethods, CountsTypeOK, Types, HasMethods, RealStarts
  <2>2. PICK p \in NextPositions(m) : counts' = [counts EXCEPT ![tdi] = Gap(m, p)]
    BY <1>4 DEF CountMethods
  <2>3. PICK at \in 1 .. Len(sorted) : sorted[at] = m /\ p = at + 1
    BY <2>1, <2>2 DEF NextPositions, Ascending
  <2>4. \A t \in Types : HasMethods(t) <=> starts[t] \in RealStarts
    BY DEF HasMethods, RealStarts
  <2>5. \/ IsLast(tdi) /\ Gap(m, p) = 0
        \/ \E u \in Types : IsNext(tdi, u) /\ Gap(m, p) = starts[u] - m
    <3>1. CASE p \in 1 .. Len(sorted)
      <4>1. /\ sorted[p] \in RealStarts /\ m < sorted[p]
            /\ \A x \in RealStarts : m < x => sorted[p] <= x
        BY <3>1, <2>1, <2>3, NextEntry
      <4>2. PICK u \in Types : starts[u] = sorted[p]
        BY <4>1 DEF RealStarts
      <4>3. IsNext(tdi, u)
        BY <4>1, <4>2, <2>4 DEF IsNext
      <4> QED
        BY <3>1, <4>1, <4>2, <4>3 DEF Gap
    <3>2. CASE p \notin 1 .. Len(sorted)
      <4>1. \A x \in RealStarts : x <= m
        <5>1. at + 1 \notin 1 .. Len(sorted)
          BY <3>2, <2>3
        <5>2. \A x \in RealStarts : x <= sorted[at]
          BY <5>1, <2>1, NextEntry
        <5> QED
          BY <5>2, <2>3
      <4>2. IsLast(tdi)
        BY <4>1, <2>1, <2>4 DEF IsLast
      <4> QED
        BY <3>2, <4>2 DEF Gap
    <3> QED
      BY <3>1, <3>2
  <2>6. Gap(m, p) \in U32
    BY <2>5, <2>1 DEF IsNext, CountsTypeOK, U32
  <2>7. /\ tdi' = tdi + 1 /\ tdi < TYPE_COUNT
        /\ mpc = "count" /\ mpc' = "count"
        /\ UNCHANGED <<records, starts, sorted>>
    BY <1>4 DEF CountMethods
  <2>8. CountsTypeOK'
    <3>1. counts' \in [Types -> U32]
      BY <2>2, <2>6 DEF CountsTypeOK
    <3>2. tdi' \in 0 .. TYPE_COUNT
      BY <2>7 DEF CountsTypeOK
    <3> QED
      BY <2>7, <3>1, <3>2 DEF CountsTypeOK
  <2>9. Ascending(RealStarts, sorted)'
    BY <2>1, <2>7 DEF RealStarts, Ascending
  <2>10. ASSUME NEW t \in Types, t < tdi', HasMethods(t)'
         PROVE  Counted(t)'
    <3>1. /\ IsLast(t)' = IsLast(t) /\ HasMethods(t)
          /\ \A u \in Types : IsNext(t, u)' = IsNext(t, u)
      BY <2>7, <2>10 DEF IsLast, IsNext, HasMethods
    <3>2. CASE t = tdi
      <4>1. counts'[t] = Gap(m, p)
        BY <2>1, <2>2, <3>2 DEF CountsTypeOK
      <4> QED
        BY <2>5, <2>7, <3>1, <3>2, <4>1 DEF Counted
    <3>3. CASE t # tdi
      <4>1. t < tdi /\ counts'[t] = counts[t]
        BY <2>2, <2>7, <2>10, <3>3 DEF CountsTypeOK, Types
      <4>2. Counted(t)
        BY <4>1, <3>1
      <4> QED
        BY <4>1, <4>2, <3>1, <2>7 DEF Counted
    <3> QED
      BY <3>2, <3>3
  <2>11. ASSUME NEW t \in Types, t >= tdi' \/ ~HasMethods(t)'
         PROVE  counts'[t] = 0
    <3>1. t # tdi /\ (t >= tdi \/ ~HasMethods(t))
      BY <2>1, <2>7, <2>11 DEF HasMethods, Types
    <3> QED
      BY <3>1, <2>2 DEF CountsTypeOK
  <2> QED
    BY <1>0, <2>7, <2>8, <2>9, <2>10, <2>11
<1>5. CASE ReturnCounts
  <2>1. CountsTypeOK'
    BY <1>5 DEF ReturnCounts, CountsTypeOK
  <2> QED
    BY <1>0, <1>5, <2>1 DEF ReturnCounts, RealStarts, Ascending, HasMethods, Counted,
       IsLast, IsNext
<1>6. CASE UNCHANGED countVars
  BY <1>0, <1>6 DEF countVars, CountsTypeOK, RealStarts, Ascending, HasMethods, Counted,
     IsLast, IsNext
<1> QED
  BY <1>1, <1>2, <1>3, <1>4, <1>5, <1>6 DEF CountsNext

THEOREM CountsInvariant == Spec => []CountsInv
<1>1. Init => CountsInv
  <2>1. Init => \A t \in DOMAIN records : records[t] \in U32
    BY DEF Init, MethodTables
  <2> QED
    BY <2>1, InitCountsInv DEF Init
<1> QED
  BY <1>1, NextCountsInv, PTL DEF Spec

-----------------------------------------------------------------------------
\* The vectors have the types the code gives them, whatever the table holds.
THEOREM CountsTypeCorrect == Spec => []CountsTypeOK
  BY CountsInvariant, PTL DEF CountsInv

(***************************************************************************)
(* The type with the next larger start, which exists unless t has the last.*)
(***************************************************************************)
LEMMA NextExists ==
  ASSUME CountsInv, mpc = "done", NEW t \in Types, HasMethods(t)
  PROVE  /\ starts[t] \in Nat /\ starts[t] < U32_MAX
         /\ \/ IsLast(t) /\ counts[t] = 0
            \/ \E u \in Types : IsNext(t, u) /\ counts[t] = starts[u] - starts[t]
<1>1. starts[t] \in U32 /\ starts[t] # U32_MAX
  BY DEF CountsInv, CountsTypeOK, HasMethods
<1>2. t < tdi
  BY DEF CountsInv, Types
<1>3. Counted(t)
  BY <1>2 DEF CountsInv
<1> QED
  BY <1>1, <1>3 DEF Counted, U32

(***************************************************************************)
(* No table makes methods() compute a method index that wraps around, nor  *)
(* the sentinel index itself.                                              *)
(***************************************************************************)
THEOREM NoWrap == Spec => []NoIndexWrap
<1>1. CountsInv => NoIndexWrap
  <2> SUFFICES ASSUME CountsInv, NEW t \in Types, HasMethods(t)
               PROVE  starts[t] + counts[t] < U32_MAX
    BY DEF NoIndexWrap
  <2>1. /\ starts[t] \in 0 .. U32_MAX /\ starts[t] # U32_MAX
        /\ tdi \in Int /\ t \in Int
    BY DEF CountsInv, CountsTypeOK, HasMethods, U32, Types
  <2>2. CASE t < tdi
    <3>1. CASE counts[t] = 0
      BY <2>1, <3>1
    <3>2. CASE counts[t] # 0
      <4>1. PICK u \in Types : IsNext(t, u) /\ counts[t] = starts[u] - starts[t]
        BY <2>2, <3>2 DEF CountsInv, Counted
      <4>2. starts[u] \in 0 .. U32_MAX /\ starts[u] # U32_MAX
        BY <4>1 DEF CountsInv, CountsTypeOK, IsNext, HasMethods, U32
      <4> QED
        BY <2>1, <4>1, <4>2
    <3> QED
      BY <3>1, <3>2
  <2>3. CASE t >= tdi
    <3>1. counts[t] = 0
      BY <2>3 DEF CountsInv
    <3> QED
      BY <2>1, <3>1
  <2> QED
    BY <2>1, <2>2, <2>3
<1> QED
  BY <1>1, CountsInvariant, PTL

(***************************************************************************)
(* The inference recovers the true method counts of every table that lays  *)
(* the ranges end to end, the last range excepted.                         *)
(***************************************************************************)
THEOREM LayoutRecovered == Spec => []RecoversLayout
<1>1. CountsInv => RecoversLayout
  <2> SUFFICES ASSUME CountsInv, mpc = "done",
                      NEW real \in [Types -> U32], IsLayout(real),
                      NEW t \in Types, ~IsLast(t)
               PROVE  counts[t] = real[t]
    BY DEF RecoversLayout
  <2>1. \A v \in Types : starts[v] \in Nat /\ real[v] \in Nat
    BY DEF CountsInv, CountsTypeOK, U32
  <2>2. CASE ~HasMethods(t)
    <3>1. counts[t] = 0 /\ ~(real[t] > 0)
      BY <2>2 DEF CountsInv, IsLayout
    <3> QED
      BY <3>1, <2>1
  <2>3. CASE HasMethods(t)
    <3>1. PICK u \in Types : IsNext(t, u) /\ counts[t] = starts[u] - starts[t]
      BY <2>3, NextExists
    <3>2. PICK w \in Types : HasMethods(w) /\ starts[w] = starts[t] + real[t]
      BY <2>3 DEF IsLayout
    <3>3. real[t] > 0 /\ real[u] > 0 /\ HasMethods(u) /\ starts[t] < starts[u]
      BY <2>3, <3>1 DEF IsLayout, IsNext
    <3>4. starts[u] <= starts[w]
      <4>1. starts[t] < starts[w]
        BY <3>2, <3>3, <2>1
      <4> QED
        BY <4>1, <3>1, <3>2 DEF IsNext
    <3>5. starts[t] + real[t] <= starts[u]
      <4>1. t # u
        BY <3>3, <2>1
      <4>2. \/ starts[t] + real[t] <= starts[u]
            \/ starts[u] + real[u] <= starts[t]
        BY <2>3, <3>3, <4>1 DEF IsLayout
      <4> QED
        BY <4>2, <3>3, <2>1
    <3> QED
      BY <3>1, <3>2, <3>4, <3>5, <2>1
  <2> QED
    BY <2>2, <2>3
<1> QED
  BY <1>1, CountsInvariant, PTL

(***************************************************************************)
(* The method ranges of types that start apart are disjoint and leave no   *)
(* hole before the last start, whatever the table holds.                   *)
(***************************************************************************)
THEOREM StartsPartition == Spec => []OneStartPerMethod
<1>1. CountsInv => OneStartPerMethod
  <2> SUFFICES ASSUME CountsInv, mpc = "done", NEW g \in U32
      PROVE  ((\E t \in Types : HasMethods(t) /\ starts[t] <= g)
               /\ (\E t \in Types : HasMethods(t) /\ g < starts[t]))
             <=> \E t \in Types :
                   /\ HasMethods(t) /\ g \in MethodRange(t)
                   /\ \A u \in Types : HasMethods(u) /\ g \in MethodRange(u)
                                         => starts[u] = starts[t]
    BY DEF OneStartPerMethod
  <2>1. g \in Int /\ \A v \in Types : starts[v] \in Int
    BY DEF CountsInv, CountsTypeOK, U32
  <2>2. ASSUME NEW t \in Types, HasMethods(t), g \in MethodRange(t)
        PROVE  \E v \in Types : /\ IsNext(t, v) /\ counts[t] = starts[v] - starts[t]
                               /\ starts[t] <= g /\ g < starts[v]
    <3>1. starts[t] <= g /\ g <= starts[t] + counts[t] - 1
      BY <2>1, <2>2 DEF MethodRange
    <3>2. ~(counts[t] = 0)
      BY <2>1, <3>1
    <3>3. PICK v \in Types : IsNext(t, v) /\ counts[t] = starts[v] - starts[t]
      BY <2>2, <3>2, NextExists
    <3> QED
      BY <2>1, <3>1, <3>3
  <2>3. ASSUME NEW t \in Types, HasMethods(t), starts[t] <= g,
               NEW w \in Types, HasMethods(w), g < starts[w]
        PROVE  \E x \in Types :
                 /\ HasMethods(x) /\ g \in MethodRange(x)
                 /\ \A u \in Types : HasMethods(u) /\ g \in MethodRange(u)
                                       => starts[u] = starts[x]
    <3> DEFINE Below == {starts[x] : x \in {y \in Types : HasMethods(y) /\ starts[y] <= g}}
    <3>1. PICK b \in Below : \A c \in Below : c <= b
      <4>1. Below \subseteq Int /\ starts[t] \in Below /\ \A c \in Below : c <= g
        BY <2>1, <2>3
      <4> QED
        BY <2>1, <4>1, GreatestBounded
    <3>2. PICK x \in Types : HasMethods(x) /\ starts[x] <= g /\ starts[x] = b
      BY <3>1
    <3>3. \A y \in Types : HasMethods(y) /\ starts[y] <= g => starts[y] <= starts[x]
      BY <3>1, <3>2
    <3> HIDE DEF Below
    <3>4. ~IsLast(x)
      BY <2>1, <2>3, <3>2 DEF IsLast
    <3>5. PICK v \in Types : IsNext(x, v) /\ counts[x] = starts[v] - starts[x]
      BY <3>2, <3>4, NextExists
    <3>6. g < starts[v]
      BY <2>1, <3>3, <3>5 DEF IsNext
    <3>7. g \in MethodRange(x)
      BY <2>1, <3>2, <3>5, <3>6 DEF MethodRange
    <3>8. ASSUME NEW u \in Types, HasMethods(u), g \in MethodRange(u)
          PROVE  starts[u] = starts[x]
      <4>1. PICK z \in Types : IsNext(u, z) /\ starts[u] <= g /\ g < starts[z]
        BY <2>2, <3>8
      <4>2. starts[u] <= starts[x]
        BY <3>3, <3>8, <4>1
      <4>3. ~(starts[u] < starts[x])
        BY <2>1, <3>2, <4>1 DEF IsNext
      <4> QED
        BY <2>1, <4>2, <4>3
    <3> QED
      BY <3>2, <3>7, <3>8
  <2>4. ASSUME NEW t \in Types, HasMethods(t), g \in MethodRange(t)
        PROVE  /\ \E x \in Types : HasMethods(x) /\ starts[x] <= g
               /\ \E x \in Types : HasMethods(x) /\ g < starts[x]
    BY <2>2, <2>4 DEF IsNext
  <2> QED
    BY <2>3, <2>4
<1> QED
  BY <1>1, CountsInvariant, PTL

-----------------------------------------------------------------------------
(***************************************************************************)
(* The inductive invariant: so far the rows look like a table, prev is the *)
(* greatest field index taken, and the scan has stopped only at a row that *)
(* does not continue the table.                                            *)
(***************************************************************************)
ScanInv ==
  /\ ScanTypeOK
  /\ TableSized(i)
  /\ HoldsRows(i)
  /\ \A k \in 0 .. i - 1 : rows[k].fi <= prev
  /\ prev = IF i = 0 THEN -1 ELSE rows[i - 1].fi
  /\ spc = "done" => i = MAX_ROWS \/ i \notin DOMAIN rows \/ ~Takes(rows[i])

USE ScanAssumption

-----------------------------------------------------------------------------
LEMMA RowsTyped ==
  ASSUME ScanTypeOK, NEW k \in DOMAIN rows
  PROVE  rows[k] \in [ti : Int, fi : Int, di : Int]
BY DEF ScanTypeOK, RowTables

(***************************************************************************)
(* Taking row i extends the table by one row.                              *)
(***************************************************************************)
LEMMA InsertKeepsTable ==
  ASSUME ScanInv, InsertRow
  PROVE  ScanInv'
<1>1. /\ spc = "scan" /\ spc' = "scan" /\ rows' = rows
      /\ i \in Nat /\ i < MAX_ROWS /\ i \in DOMAIN rows /\ i' = i + 1
      /\ prev < rows[i].fi /\ InRange(rows[i])
      /\ prev' = rows[i].fi
      /\ dv' = Put(dv, rows[i].fi, <<rows[i].ti, rows[i].di>>)
  BY DEF InsertRow, Takes, ScanInv, ScanTypeOK
<1>2. rows[i] \in [ti : Int, fi : Int, di : Int]
  BY <1>1, RowsTyped DEF ScanInv
<1>3. prev \in Int /\ \A k \in 0 .. i - 1 : rows[k].fi \in Int
  <2>1. ASSUME NEW k \in 0 .. i - 1
        PROVE  rows[k].fi \in Int
    <3>1. k \in DOMAIN rows
      BY DEF ScanInv, TableSized
    <3>2. rows[k] \in [ti : Int, fi : Int, di : Int]
      BY <3>1, RowsTyped DEF ScanInv
    <3> QED
      BY <3>2
  <2> QED
    BY <2>1 DEF ScanInv, ScanTypeOK
<1>4. \A k \in 0 .. i - 1 : rows[k].fi < rows[i].fi
  BY <1>1, <1>2, <1>3 DEF ScanInv
<1>5. \A k \in 0 .. i' - 1 : k \in 0 .. i - 1 \/ k = i
  BY <1>1
<1>6. ScanTypeOK'
  <2>1. i' \in 0 .. MAX_ROWS /\ prev' \in -1 .. MAX_INDEX
    BY <1>1, <1>2 DEF InRange
  <2>2. ASSUME NEW f \in DOMAIN dv'
        PROVE  f \in 0 .. MAX_INDEX /\ dv'[f] \in Int \X Int
    <3>1. CASE f = rows[i].fi
      BY <1>1, <1>2, <3>1, <2>2 DEF Put, InRange
    <3>2. CASE f # rows[i].fi
      BY <1>1, <3>2, <2>2 DEF Put, ScanInv, ScanTypeOK
    <3> QED
      BY <3>1, <3>2
  <2> QED
    BY <1>1, <2>1, <2>2 DEF ScanTypeOK, ScanInv
<1>7. TableSized(i)'
  <2>1. i' <= MAX_ROWS
    BY <1>1
  <2>2. \A k \in 0 .. i' - 1 : k \in DOMAIN rows /\ InRange(rows[k])
    BY <1>1, <1>5 DEF ScanInv, TableSized
  <2>3. ASSUME NEW j \in 0 .. i' - 1, NEW k \in 0 .. i' - 1, j < k
        PROVE  rows[j].fi < rows[k].fi
    <3>1. j \in 0 .. i - 1
      BY <1>1, <2>3
    <3>2. CASE k = i
      BY <1>4, <3>1, <3>2
    <3>3. CASE k \in 0 .. i - 1
      BY <2>3, <3>1, <3>3 DEF ScanInv, TableSized
    <3> QED
      BY <1>5, <3>2, <3>3
  <2> QED
    BY <1>1, <2>1, <2>2, <2>3 DEF TableSized, InRange
<1>8. HoldsRows(i)'
  <2>1. DOMAIN dv = {rows[k].fi : k \in 0 .. i - 1}
    BY DEF ScanInv, HoldsRows
  <2>2. DOMAIN dv' = {rows[k].fi : k \in 0 .. i - 1} \union {rows[i].fi}
    BY <1>1, <2>1 DEF Put
  <2>3. {rows[k].fi : k \in 0 .. i - 1} \union {rows[i].fi}
          = {rows[k].fi : k \in 0 .. i' - 1}
    <3>1. 0 .. i' - 1 = (0 .. i - 1) \union {i}
      BY <1>1
    <3> QED
      BY <3>1
  <2>4. ASSUME NEW k \in 0 .. i' - 1
        PROVE  dv'[rows[k].fi] = <<rows[k].ti, rows[k].di>>
    <3>1. CASE k = i
      BY <1>1, <3>1 DEF Put
    <3>2. CASE k \in 0 .. i - 1
      <4>1. /\ rows[k].fi \in DOMAIN dv /\ rows[k].fi # rows[i].fi
            /\ dv[rows[k].fi] = <<rows[k].ti, rows[k].di>>
        <5>1. rows[k].fi < rows[i].fi /\ rows[k].fi \in Int /\ rows[i].fi \in Int
          BY <1>2, <1>3, <1>4, <3>2
        <5>2. rows[k].fi # rows[i].fi
          BY <5>1
        <5> QED
          BY <2>1, <3>2, <5>2 DEF ScanInv, HoldsRows
      <4> QED
        BY <1>1, <4>1 DEF Put
    <3> QED
      BY <1>5, <3>1, <3>2
  <2> QED
    BY <1>1, <2>2, <2>3, <2>4 DEF HoldsRows
<1>9. /\ \A k \in 0 .. i' - 1 : rows[k].fi <= prev'
      /\ prev' = IF i' = 0 THEN -1 ELSE rows[i' - 1].fi
  BY <1>1, <1>2, <1>3, <1>4, <1>5
<1> QED
  BY <1>1, <1>6, <1>7, <1>8, <1>9 DEF ScanInv

-----------------------------------------------------------------------------
(***************************************************************************)
(* ScanInv is an invariant of field_default_values.                        *)
(***************************************************************************)
LEMMA InitScanInv == ScanAlone => ScanInv
<1> SUFFICES ASSUME ScanAlone PROVE ScanInv
  OBVIOUS
<1>1. ScanTypeOK
  BY DEF ScanAlone, ScanInit, ScanTypeOK
<1>2. TableSized(i) /\ HoldsRows(i)
  BY DEF ScanAlone, ScanInit, TableSized, HoldsRows
<1> QED
  BY <1>1, <1>2 DEF ScanAlone, ScanInit, ScanInv

LEMMA NextScanInv == ScanInv /\ [ScanNext]_scanVars => ScanInv'
<1> SUFFICES ASSUME ScanInv, [ScanNext]_scanVars
             PROVE  ScanInv'
  OBVIOUS
<1>1. CASE InsertRow
  BY <1>1, InsertKeepsTable
<1>2. CASE StopAtBadRow
  BY <1>2 DEF StopAtBadRow, ScanInv, ScanTypeOK, TableSized, HoldsRows, Takes
<1>3. CASE StopAtEnd
  BY <1>3 DEF StopAtEnd, ScanInv, ScanTypeOK, TableSized, HoldsRows
<1>4. CASE UNCHANGED scanVars
  BY <1>4 DEF scanVars, ScanInv, ScanTypeOK, TableSized, HoldsRows, Takes
<1> QED
  BY <1>1, <1>2, <1>3, <1>4 DEF ScanNext

THEOREM ScanInvariant == ScanSpec => []ScanInv
BY InitScanInv, NextScanInv, PTL DEF ScanSpec

\* The map holds pairs of integers at valid field indices.
THEOREM ScanTypeCorrect == ScanSpec => []ScanTypeOK
  BY ScanInvariant, PTL DEF ScanInv

(***************************************************************************)
(* Where the scan has stopped, the table is at its longest.                *)
(***************************************************************************)
LEMMA LongestFound ==
  ASSUME ScanInv, spc = "done"
  PROVE  ~TableSized(i + 1)
<1> SUFFICES ASSUME TableSized(i + 1)
             PROVE  FALSE
  OBVIOUS
<1>1. i \in Nat /\ i \in 0 .. i + 1 - 1
  BY DEF ScanInv, ScanTypeOK
<1>2. i # MAX_ROWS /\ i \in DOMAIN rows /\ InRange(rows[i])
  BY <1>1 DEF TableSized
<1>3. prev < rows[i].fi
  <2>1. CASE i = 0
    <3>1. rows[i].fi \in Int
      BY <1>2, RowsTyped DEF ScanInv
    <3> QED
      BY <1>2, <2>1, <3>1 DEF ScanInv, InRange
  <2>2. CASE i # 0
    <3>1. i - 1 \in 0 .. i + 1 - 1 /\ i - 1 < i
      BY <1>1, <2>2
    <3> QED
      BY <1>1, <2>2, <3>1 DEF ScanInv, TableSized
  <2> QED
    BY <2>1, <2>2
<1> QED
  BY <1>2, <1>3 DEF ScanInv, Takes

(***************************************************************************)
(* The scan returns the longest prefix of the rows that looks like a table.*)
(***************************************************************************)
THEOREM LongestTable == ScanSpec => []DefaultsAreLongestTable
<1>1. ScanInv => DefaultsAreLongestTable
  BY LongestFound DEF DefaultsAreLongestTable, ScanInv, ScanTypeOK
<1> QED
  BY <1>1, ScanInvariant, PTL

(***************************************************************************)
(* No default is ever replaced by that of a later row.                     *)
(***************************************************************************)
THEOREM DefaultsKept == ScanSpec => NoDefaultReplaced
<1>1. ScanInv /\ [ScanNext]_scanVars
        => [\A f \in DOMAIN dv : f \in DOMAIN dv' /\ dv'[f] = dv[f]]_scanVars
  <2> SUFFICES ASSUME ScanInv, ScanNext, NEW f \in DOMAIN dv
               PROVE  f \in DOMAIN dv' /\ dv'[f] = dv[f]
    OBVIOUS
  <2>1. CASE InsertRow
    <3>1. PICK k \in 0 .. i - 1 : f = rows[k].fi
      BY DEF ScanInv, HoldsRows
    <3>2. /\ rows[k].fi <= prev /\ prev < rows[i].fi /\ prev \in Int
          /\ k \in DOMAIN rows /\ i \in DOMAIN rows
      BY <2>1 DEF InsertRow, Takes, ScanInv, ScanTypeOK, TableSized
    <3>3. rows[k].fi \in Int /\ rows[i].fi \in Int
      <4>1. /\ rows[k] \in [ti : Int, fi : Int, di : Int]
            /\ rows[i] \in [ti : Int, fi : Int, di : Int]
        BY <3>2, RowsTyped DEF ScanInv
      <4> QED
        BY <4>1
    <3>4. f # rows[i].fi
      BY <3>1, <3>2, <3>3
    <3> QED
      BY <2>1, <3>4 DEF InsertRow, Put
  <2>2. CASE StopAtBadRow \/ StopAtEnd
    BY <2>2 DEF StopAtBadRow, StopAtEnd
  <2> QED
    BY <2>1, <2>2 DEF ScanNext
<1> QED
  BY <1>1, ScanInvariant, PTL DEF ScanSpec, NoDefaultReplaced
=============================================================================
