--------------------------- MODULE DumpWalkProofs ---------------------------
(* Proofs about dump_all: for every metadata, every list of types and every *)
(* bound, the walk writes the listing that DumpSpec promises.               *)
EXTENDS DumpWalk, NaturalLemmas, SequenceTheorems, FiniteSetTheorems

\* The theorems about the two passes, at the walk's variables.
Passes == INSTANCE TablesProofs

USE DumpAssumption

-----------------------------------------------------------------------------
(***************************************************************************)
(* The passes' assumptions, in the walk's words.                           *)
(***************************************************************************)
LEMMA PassAssumptions ==
  /\ TYPE_COUNT \in Nat /\ U32_MAX \in Nat /\ MAX_ROWS \in Nat /\ MAX_INDEX \in Nat
  /\ MAX_METHODS \in Nat
  /\ \A S \in SUBSET Passes!U32 : Passes!Ascending(S, SortDedup(S))
  /\ Row \subseteq [ti : Int, fi : Int, di : Int]
<1>1. \A S, s : Passes!Ascending(S, s) <=> Counts!Ascending(S, s)
  BY DEF Passes!Ascending, Counts!Ascending
<1>2. Passes!U32 = Counts!U32
  BY DEF Passes!U32, Counts!U32
<1> QED
  BY <1>1, <1>2

(***************************************************************************)
(* What method_counts has found out when the walk begins: the methods of a *)
(* type are those from its methodStart to the next larger one.             *)
(***************************************************************************)
LEMMA CountedMethods ==
  ASSUME Passes!CountsInv, mpc = "done",
         NEW t \in Types \cap DOMAIN records
  PROVE  /\ DOMAIN counts = Types
         /\ records[t] \in 0 .. U32_MAX /\ counts[t] \in 0 .. U32_MAX
         /\ records[t] # U32_MAX =>
              /\ LaterStarts(t) = {} => counts[t] = 0
              /\ LaterStarts(t) # {} =>
                   /\ counts[t] > 0
                   /\ OwnMethods(t) = records[t] .. records[t] + counts[t] - 1
<1>1. /\ Types = Passes!Types /\ Types = 0 .. TYPE_COUNT - 1
      /\ Counts!U32 = 0 .. U32_MAX /\ Passes!U32 = 0 .. U32_MAX
  BY DEF Types, Counts!Types, Passes!Types, Counts!U32, Passes!U32
<1>2. /\ \A u \in DOMAIN records : records[u] \in 0 .. U32_MAX
      /\ counts \in [Types -> 0 .. U32_MAX]
      /\ tdi = TYPE_COUNT
      /\ \A u \in Types : starts[u] = IF u \in DOMAIN records THEN records[u] ELSE U32_MAX
  BY <1>1 DEF Passes!CountsInv, Passes!CountsTypeOK, Passes!StartsRead, Passes!StartOf
<1>3. \A u \in Types : Passes!HasMethods(u)
                         <=> u \in DOMAIN records /\ records[u] # U32_MAX
  BY <1>2 DEF Passes!HasMethods
<1>4. ASSUME records[t] # U32_MAX
      PROVE  /\ Passes!HasMethods(t) /\ starts[t] = records[t]
             /\ \/ Passes!IsLast(t) /\ counts[t] = 0
                \/ \E u \in Types : Passes!IsNext(t, u) /\ counts[t] = starts[u] - starts[t]
  <2>1. Passes!HasMethods(t) /\ t < tdi
    BY <1>1, <1>2, <1>3, <1>4
  <2> QED
    BY <1>1, <1>2, <2>1 DEF Passes!CountsInv, Passes!Counted
<1>5. ASSUME records[t] # U32_MAX, LaterStarts(t) = {}
      PROVE  counts[t] = 0
  <2>1. SUFFICES ASSUME NEW u \in Types, Passes!IsNext(t, u) PROVE FALSE
    BY <1>4, <1>5
  <2>2. /\ u \in DOMAIN records /\ records[u] # U32_MAX /\ starts[u] = records[u]
        /\ records[u] > records[t]
    BY <2>1, <1>1, <1>2, <1>3, <1>4, <1>5 DEF Passes!IsNext
  <2> QED
    BY <1>5, <2>2 DEF LaterStarts
<1>6. ASSUME records[t] # U32_MAX, LaterStarts(t) # {}
      PROVE  /\ counts[t] > 0
             /\ OwnMethods(t) = records[t] .. records[t] + counts[t] - 1
  <2>1. PICK v \in Types \cap DOMAIN records :
          records[v] # U32_MAX /\ records[v] > records[t]
    BY <1>6 DEF LaterStarts
  <2>2. ~Passes!IsLast(t)
    BY <1>1, <1>2, <1>3, <1>6, <2>1 DEF Passes!IsLast
  <2>3. PICK u \in Types : Passes!IsNext(t, u) /\ counts[t] = starts[u] - starts[t]
    BY <1>4, <1>6, <2>2
  <2>4. /\ u \in DOMAIN records /\ records[u] # U32_MAX /\ starts[u] = records[u]
        /\ records[t] < records[u] /\ counts[t] = records[u] - records[t]
    BY <1>2, <1>3, <1>4, <1>6, <2>3 DEF Passes!IsNext
  <2>5. records[u] \in LaterStarts(t)
    BY <2>4, <1>2 DEF LaterStarts
  <2>6. ASSUME NEW s \in LaterStarts(t) PROVE s \in Int /\ records[u] <= s
    <3>1. PICK w \in Types \cap DOMAIN records :
            records[w] # U32_MAX /\ records[w] > records[t] /\ s = records[w]
      BY DEF LaterStarts
    <3>2. Passes!HasMethods(w) /\ starts[w] = records[w]
      BY <1>2, <1>3, <3>1
    <3>3. w \in Passes!Types /\ starts[t] < starts[w]
      BY <1>1, <1>4, <1>6, <3>1, <3>2
    <3>4. starts[u] <= starts[w]
      BY <2>3, <3>2, <3>3 DEF Passes!IsNext
    <3> QED
      BY <1>2, <2>4, <3>1, <3>2, <3>4
  <2>7. OwnMethods(t) = {g \in 0 .. U32_MAX : records[t] <= g /\ g < records[u]}
    <3>1. \A g \in 0 .. U32_MAX : (\A s \in LaterStarts(t) : g < s) <=> g < records[u]
      BY <1>2, <2>4, <2>5, <2>6
    <3> QED
      BY <1>1, <1>6, <3>1 DEF OwnMethods
  <2>8. records[t] \in 0 .. U32_MAX /\ records[u] \in 0 .. U32_MAX
    BY <1>2, <2>4
  <2> QED
    BY <2>4, <2>7, <2>8
<1> QED
  BY <1>1, <1>2, <1>5, <1>6

(***************************************************************************)
(* What field_default_values has found out: the default the walk writes    *)
(* for a field is the one the longest table of rows gives it.              *)
(***************************************************************************)
LEMMA DefaultsFound ==
  ASSUME Passes!ScanInv, spc = "done", NEW g
  PROVE  Default(g) = ListedDefault(g)
<1>1. /\ i \in 0 .. MAX_ROWS /\ Passes!TableSized(i) /\ Passes!HoldsRows(i)
      /\ \A n : Scan!TableSized(n) <=> Passes!TableSized(n)
  BY DEF Passes!ScanInv, Passes!ScanTypeOK, Scan!TableSized, Passes!TableSized,
         Scan!InRange, Passes!InRange
<1>2. ~Passes!TableSized(i + 1)
  BY PassAssumptions, Passes!LongestFound
<1>3. \A n \in 0 .. MAX_ROWS : Scan!TableSized(n) => n <= i
  <2> SUFFICES ASSUME NEW n \in 0 .. MAX_ROWS, Passes!TableSized(n), i + 1 <= n
               PROVE  FALSE
    BY <1>1
  <2> QED
    BY <1>1, <1>2 DEF Passes!TableSized
<1>4. TableRows = 0 .. i - 1
  <2>1. \A k \in 0 .. i - 1 : k \in DOMAIN rows /\ k < i
    BY <1>1 DEF Passes!TableSized
  <2>2. ASSUME NEW k \in TableRows PROVE k \in 0 .. i - 1
    <3>1. PICK n \in 0 .. MAX_ROWS : k < n /\ Scan!TableSized(n)
      BY DEF TableRows
    <3>2. k \in Nat
      BY DEF TableRows, Passes!ScanInv, Passes!ScanTypeOK, Passes!RowTables
    <3> QED
      BY <1>1, <1>3, <3>1, <3>2
  <2> QED
    BY <1>1, <2>1, <2>2 DEF TableRows
<1> DEFINE val == {<<rows[k].ti, rows[k].di>> : k \in {j \in TableRows : rows[j].fi = g}}
<1>5. /\ g \notin DOMAIN dv => val = {}
      /\ g \in DOMAIN dv => val = {dv[g]}
  BY <1>1, <1>4 DEF Passes!HoldsRows
<1>6. ListedDefault(g) = IF g \in db.consts /\ val \cap db.literals # {}
                           THEN CHOOSE v \in val : v \in db.literals
                           ELSE <<>>
  BY DEF ListedDefault
<1> HIDE DEF val
<1>7. CASE g \in DOMAIN dv
  BY <1>5, <1>6, <1>7 DEF Default
<1>8. CASE g \notin DOMAIN dv
  BY <1>5, <1>6, <1>8 DEF Default
<1> QED
  BY <1>7, <1>8
-----------------------------------------------------------------------------
\* The kind of the first line of a type that is still to be written.
DueSec(pc) ==
  IF pc \in {"type", "namespace"} THEN 0
  ELSE IF pc = "open" THEN 1
  ELSE IF pc \in {"fields", "fieldsHeading"} THEN 2
  ELSE IF pc = "field" THEN 3
  ELSE IF pc \in {"methods", "methodsHeading"} THEN 4
  ELSE IF pc = "method" THEN 5 ELSE 6

\* The line is still to be written.
Due(l) ==
  \/ l.pos > at
  \/ l.pos = at /\ l.sec > DueSec(wpc)
  \/ l.pos = at /\ l.sec = DueSec(wpc) /\ (wpc \in {"field", "method"} => todo[1] <= l.key)

\* s lists the elements of S from s[1] on, and they are consecutive.
Rest(S, s) ==
  /\ s \in Seq(Int) /\ s # <<>>
  /\ \A n \in 1 .. Len(s) : s[n] = s[1] + n - 1
  /\ \A g \in Int : s[1] <= g => (g \in S <=> g < s[1] + Len(s))

Whole(S, s) == Rest(S, s) /\ \A g \in S : s[1] <= g

Written == {out[n] : n \in DOMAIN out}

OfSec(sec) == {l \in Written : l.sec = sec}

InputInv ==
  /\ db \in Databases /\ indices \in Requests
  /\ records = db.records /\ rows = db.rows

Places ==
  {"type", "namespace", "open", "fields", "fieldsHeading", "field", "methods",
   "methodsHeading", "method", "close", "ok", "err"}

\* The walk begins when both passes are done, and is inside the types asked for.
PlaceInv ==
  /\ mpc # "done" \/ spc # "done" => at = 1 /\ wpc = "type"
  /\ wpc \in Places
  /\ at \in 1 .. Len(indices) + 1
  /\ wpc \notin {"type", "ok", "err"} => at \in DOMAIN indices /\ Listed(indices[at])
  /\ wpc = "ok" => at \notin DOMAIN indices

\* What has been decoded is what the listing has left.
TodoInv ==
  /\ wpc = "fieldsHeading"  => Whole(ListedFields(indices[at]), todo)
  /\ wpc = "field"          => Rest(ListedFields(indices[at]), todo)
  /\ wpc = "methodsHeading" => Whole(ListedMethods(indices[at]), todo)
  /\ wpc = "method"         => Rest(ListedMethods(indices[at]), todo)

\* What is written is what is not due.
LinesInv ==
  /\ out \in Seq(Listing)
  /\ \A l \in Listing : l \in Written <=> ~Due(l)

\* The totals count the lines written; a type counts from when it is entered.
TotalsInv ==
  /\ \A sec \in {1, 3, 5} : IsFiniteSet(OfSec(sec))
  /\ ntypes = Cardinality(OfSec(1)) + (IF wpc \in {"namespace", "open"} THEN 1 ELSE 0)
  /\ nfields = Cardinality(OfSec(3))
  /\ nmethods = Cardinality(OfSec(5))

(***************************************************************************)
(* The inductive invariant.  That the lines come in order is not enough    *)
(* for the next one to be right: the place of the walk has to say exactly  *)
(* which lines are written, and the decoded vector which are left.         *)
(***************************************************************************)
WalkInv ==
  /\ Passes!CountsInv
  /\ Passes!ScanInv
  /\ InputInv
  /\ PlaceInv
  /\ out \in Seq(Listing)
  /\ wpc # "err" => TodoInv /\ LinesInv /\ TotalsInv

-----------------------------------------------------------------------------
(***************************************************************************)
(* The decoded fields and methods of a type are those the listing has.     *)
(***************************************************************************)
LEMMA ReadableRange ==
  ASSUME NEW first \in Int, NEW count \in Nat, NEW end \in Nat,
         NEW S, S = {g \in first .. first + count - 1 : g < end}
  PROVE  LET s == Readable(first, count, end)
         IN  IF s = <<>> THEN S = {} ELSE Whole(S, s)
<1> DEFINE len == IF first + count <= end THEN count ELSE end - first
           s == Readable(first, count, end)
<1>1. s = [n \in 1 .. len |-> first + n - 1]
  BY DEF Readable
<1>2. len \in Int
  OBVIOUS
<1>3. CASE len <= 0
  <2>1. 1 .. len = {} /\ S = {}
    BY <1>3
  <2>2. s = [n \in {} |-> first + n - 1]
    BY <2>1, <1>1
  <2>3. s = <<>>
    BY <2>2
  <2> QED
    BY <2>1, <2>3
<1>4. CASE len > 0
  <2>1. len \in Nat /\ len > 0
    BY <1>2, <1>4
  <2> HIDE DEF len
  <2>2. s \in Seq(Int) /\ Len(s) = len
    <3>1. \A n \in 1 .. len : first + n - 1 \in Int
      BY <2>1
    <3>2. s \in [1 .. len -> Int]
      BY <1>1, <3>1
    <3> QED
      BY <2>1, <3>2, <1>1
  <2> HIDE DEF s
  <2>3. s # <<>> /\ s[1] = first /\ \A n \in 1 .. Len(s) : s[n] = s[1] + n - 1
    <3>1. \A n \in 1 .. len : s[n] = first + n - 1
      BY <1>1
    <3>2. 1 \in 1 .. len
      BY <2>1
    <3>3. s[1] = first
      BY <3>1, <3>2
    <3>4. s # <<>>
      BY <2>1, <2>2
    <3> QED
      BY <2>2, <3>1, <3>3, <3>4
  <2>4. \A g \in Int : g \in S <=> first <= g /\ g < first + len
    BY <2>1 DEF len
  <2>5. S \subseteq Int
    OBVIOUS
  <2>6. Whole(S, s)
    BY <2>2, <2>3, <2>4, <2>5 DEF Whole, Rest
  <2> QED
    BY <2>3, <2>6 DEF s
<1> QED
  BY <1>2, <1>3, <1>4

LEMMA DecodedFieldsListed ==
  ASSUME InputInv, NEW t \in Types \cap DOMAIN records
  PROVE  IF DecodedFields(t) = <<>>
           THEN ListedFields(t) = {}
           ELSE Whole(ListedFields(t), DecodedFields(t))
<1>1. /\ db.fieldStart[t] \in Int /\ db.fieldCount[t] \in Nat
      /\ db.nFieldDefs \in Nat
  BY DEF InputInv, IsDatabase
<1>2. CASE db.fieldStart[t] < 0
  BY <1>2 DEF DecodedFields, ListedFields, OwnFields
<1>3. CASE ~(db.fieldStart[t] < 0)
  <2>1. DecodedFields(t) = Readable(db.fieldStart[t], db.fieldCount[t], db.nFieldDefs)
    BY <1>3 DEF DecodedFields
  <2>2. ListedFields(t)
          = {g \in db.fieldStart[t] .. db.fieldStart[t] + db.fieldCount[t] - 1 :
               g < db.nFieldDefs}
    BY <1>3 DEF ListedFields, OwnFields
  <2> QED
    BY <1>1, <2>1, <2>2, ReadableRange
<1> QED
  BY <1>2, <1>3

LEMMA DecodedMethodsListed ==
  ASSUME InputInv, Passes!CountsInv, mpc = "done",
         NEW t \in Types \cap DOMAIN records
  PROVE  IF DecodedMethods(t) = <<>>
           THEN ListedMethods(t) = {}
           ELSE Whole(ListedMethods(t), DecodedMethods(t))
<1>1. db.nMethodDefs \in Nat /\ MAX_METHODS \in Nat
  BY DEF InputInv, IsDatabase
<1>2. records[t] \in Nat /\ counts[t] \in Nat
  BY CountedMethods
<1>3. CASE records[t] = U32_MAX
  BY <1>3 DEF DecodedMethods, ListedMethods, OwnMethods
<1>4. CASE records[t] # U32_MAX /\ LaterStarts(t) = {}
  <2>1. counts[t] = 0
    BY <1>4, CountedMethods
  <2> QED
    BY <1>4, <2>1 DEF DecodedMethods, ListedMethods, OwnMethods
<1>5. CASE records[t] # U32_MAX /\ LaterStarts(t) # {}
  <2>1. /\ counts[t] > 0
        /\ OwnMethods(t) = records[t] .. records[t] + counts[t] - 1
    BY <1>5, CountedMethods
  <2>2. Cardinality(OwnMethods(t)) = counts[t]
    <3>1. records[t] + counts[t] - 1 \in Int /\ ~(records[t] > records[t] + counts[t] - 1)
      BY <1>2, <2>1
    <3>2. Cardinality(records[t] .. records[t] + counts[t] - 1)
            = records[t] + counts[t] - 1 - records[t] + 1
      BY <1>2, <3>1, FS_Interval
    <3> QED
      BY <1>2, <2>1, <3>2
  <2>3. CASE counts[t] >= MAX_METHODS
    BY <2>2, <2>3 DEF DecodedMethods, ListedMethods
  <2>4. CASE ~(counts[t] >= MAX_METHODS)
    <3>1. DecodedMethods(t) = Readable(records[t], counts[t], db.nMethodDefs)
      BY <1>2, <1>5, <2>1, <2>4 DEF DecodedMethods
    <3>2. ListedMethods(t) = {g \in records[t] .. records[t] + counts[t] - 1 :
                                g < db.nMethodDefs}
      <4>1. ListedMethods(t) = {g \in OwnMethods(t) : g < db.nMethodDefs}
        BY <2>2, <2>4 DEF ListedMethods
      <4> QED
        BY <2>1, <4>1
    <3>3. LET r == Readable(records[t], counts[t], db.nMethodDefs)
          IN  IF r = <<>> THEN ListedMethods(t) = {} ELSE Whole(ListedMethods(t), r)
      <4>1. records[t] \in Int /\ counts[t] \in Nat /\ db.nMethodDefs \in Nat
        BY <1>1, <1>2
      <4> QED
        BY <4>1, <3>2, ReadableRange, Zenon
    <3> QED
      BY <3>1, <3>3, Zenon
  <2> QED
    BY <2>3, <2>4
<1> QED
  BY <1>3, <1>4, <1>5

-----------------------------------------------------------------------------
(***************************************************************************)
(* The listing depends on the inputs alone.                                *)
(***************************************************************************)
LEMMA ListingFixed ==
  ASSUME UNCHANGED <<records, rows, db, indices>>
  PROVE  /\ Listing' = Listing
         /\ \A t : ListedFields(t)' = ListedFields(t) /\ ListedMethods(t)' = ListedMethods(t)
         /\ \A t : Listed(t)' = Listed(t)
<1>1. TableRows' = TableRows
  BY DEF TableRows, Scan!TableSized, Scan!InRange
<1>2. \A g : ListedDefault(g)' = ListedDefault(g)
  BY <1>1 DEF ListedDefault
<1>3. \A t : ListedFields(t)' = ListedFields(t)
  BY DEF ListedFields, OwnFields
<1>4. \A t : ListedMethods(t)' = ListedMethods(t)
  <2>1. \A t : LaterStarts(t)' = LaterStarts(t)
    BY DEF LaterStarts
  <2>2. \A t : OwnMethods(t)' = OwnMethods(t)
    BY <2>1 DEF OwnMethods
  <2> QED
    BY <2>2 DEF ListedMethods
<1>5. \A p : LinesOf(p)' = LinesOf(p)
  BY <1>2, <1>3, <1>4 DEF LinesOf
<1>6. Listing' = Listing
  BY <1>5 DEF Listing
<1> QED
  BY <1>3, <1>4, <1>6 DEF Listed, HasTypeDef

(***************************************************************************)
(* The lines of the listing, sorted by kind.                               *)
(***************************************************************************)
LEMMA ListingLines ==
  ASSUME NEW l \in Listing
  PROVE  LET t == indices[l.pos]
         IN  /\ l.pos \in DOMAIN indices /\ Listed(t)
             /\ l.sec \in 0 .. 6
             /\ l.sec \notin {3, 5} => l = [pos |-> l.pos, sec |-> l.sec, key |-> 0, val |-> <<>>]
             /\ l.sec = 2 => ListedFields(t) # {}
             /\ l.sec = 3 => /\ l.key \in ListedFields(t)
                             /\ l = [pos |-> l.pos, sec |-> 3, key |-> l.key,
                                     val |-> ListedDefault(l.key)]
             /\ l.sec = 4 => ListedMethods(t) # {}
             /\ l.sec = 5 => /\ l.key \in ListedMethods(t)
                             /\ l = [pos |-> l.pos, sec |-> 5, key |-> l.key, val |-> <<>>]
<1>1. PICK p \in DOMAIN indices : Listed(indices[p]) /\ l \in LinesOf(p)
  BY DEF Listing, Listed, HasTypeDef
<1> DEFINE L(sec, key, val) == [pos |-> p, sec |-> sec, key |-> key, val |-> val]
           t == indices[p]
<1>2. \/ l \in {L(0, 0, <<>>), L(1, 0, <<>>), L(6, 0, <<>>)}
      \/ \E g \in ListedFields(t) : l = L(2, 0, <<>>) \/ l = L(3, g, ListedDefault(g))
      \/ \E g \in ListedMethods(t) : l = L(4, 0, <<>>) \/ l = L(5, g, <<>>)
  BY <1>1 DEF LinesOf
<1>3. CASE l \in {L(0, 0, <<>>), L(1, 0, <<>>), L(6, 0, <<>>)}
  BY <1>1, <1>3
<1>4. CASE \E g \in ListedFields(t) : l = L(2, 0, <<>>) \/ l = L(3, g, ListedDefault(g))
  BY <1>1, <1>4
<1>5. CASE \E g \in ListedMethods(t) : l = L(4, 0, <<>>) \/ l = L(5, g, <<>>)
  BY <1>1, <1>5
<1> QED
  BY <1>2, <1>3, <1>4, <1>5

LEMMA ListingHas ==
  ASSUME at \in DOMAIN indices, Listed(indices[at])
  PROVE  /\ \A sec \in {0, 1, 6} : Line(sec, 0, <<>>) \in Listing
         /\ \A g \in ListedFields(indices[at]) :
              Line(2, 0, <<>>) \in Listing /\ Line(3, g, ListedDefault(g)) \in Listing
         /\ \A g \in ListedMethods(indices[at]) :
              Line(4, 0, <<>>) \in Listing /\ Line(5, g, <<>>) \in Listing
<1>1. LinesOf(at) \subseteq Listing
  BY DEF Listing, Listed, HasTypeDef
<1> QED
  BY <1>1 DEF LinesOf, Line

LEMMA ListedInts ==
  ASSUME InputInv, NEW t \in Types \cap DOMAIN records
  PROVE  ListedFields(t) \subseteq Int /\ ListedMethods(t) \subseteq Int
<1>1. db.fieldStart[t] \in Int /\ db.fieldCount[t] \in Nat
  BY DEF InputInv, IsDatabase
<1>2. OwnFields(t) \subseteq Int
  BY <1>1 DEF OwnFields
<1>3. OwnMethods(t) \subseteq Int
  BY DEF OwnMethods, Counts!U32
<1> QED
  BY <1>2, <1>3 DEF ListedFields, ListedMethods

LEMMA LineTypes ==
  ASSUME InputInv, NEW l \in Listing
  PROVE  l.pos \in 1 .. Len(indices) /\ l.sec \in 0 .. 6 /\ l.key \in Int
<1>1. indices \in Seq(Nat)
  BY DEF InputInv
<1>2. DOMAIN indices = 1 .. Len(indices)
  BY <1>1
<1>3. l.pos \in DOMAIN indices /\ Listed(indices[l.pos]) /\ l.sec \in 0 .. 6
  BY ListingLines
<1>4. indices[l.pos] \in Types \cap DOMAIN records
  BY <1>3 DEF Listed, HasTypeDef
<1>5. CASE l.sec \notin {3, 5}
  <2>1. l = [pos |-> l.pos, sec |-> l.sec, key |-> 0, val |-> <<>>]
    BY <1>5, ListingLines
  <2>2. l.key = 0
    BY <2>1
  <2> QED
    BY <1>2, <1>3, <2>2
<1>6. CASE l.sec \in {3, 5}
  <2>1. l.key \in ListedFields(indices[l.pos]) \union ListedMethods(indices[l.pos])
    BY <1>6, ListingLines
  <2>2. l.key \in Int
    BY <1>4, <2>1, ListedInts
  <2> QED
    BY <1>2, <1>3, <2>2
<1> QED
  BY <1>5, <1>6

\* Inside a type, the place is one of the list and the type is listed.
LEMMA Inside ==
  ASSUME WalkInv, wpc \notin {"type", "ok", "err"}
  PROVE  /\ mpc = "done" /\ spc = "done"
         /\ at \in Int /\ at \in DOMAIN indices /\ at \in 1 .. Len(indices)
         /\ indices \in Seq(Nat)
         /\ Listed(indices[at]) /\ indices[at] \in Types \cap DOMAIN records
         /\ TodoInv /\ LinesInv /\ TotalsInv
<1>1. indices \in Seq(Nat) /\ DOMAIN indices = 1 .. Len(indices)
  BY DEF WalkInv, InputInv
<1> QED
  BY <1>1 DEF WalkInv, PlaceInv, Listed, HasTypeDef

-----------------------------------------------------------------------------
(***************************************************************************)
(* A step that writes the line l: l is the first of the lines due, and     *)
(* afterwards the others are due.                                          *)
(***************************************************************************)
Writes(l) ==
  /\ l \in Listing /\ Due(l)
  /\ out' = Append(out, l)
  /\ \A m \in Listing : Due(m)' <=> Due(m) /\ m # l
  /\ \A m \in Listing : Dump!Before(m, l) => ~Due(m)

InputsFixed == UNCHANGED <<countsVars, scanVars, inputVars>>

LEMMA WritesLines ==
  ASSUME LinesInv, TotalsInv, InputsFixed, NEW l, Writes(l)
  PROVE  /\ LinesInv'
         /\ \A sec \in {1, 3, 5} :
              /\ IsFiniteSet(OfSec(sec)')
              /\ Cardinality(OfSec(sec)')
                   = Cardinality(OfSec(sec)) + (IF l.sec = sec THEN 1 ELSE 0)
<1>1. Listing' = Listing
  BY ListingFixed DEF InputsFixed, countsVars, scanVars, inputVars
<1>2. out \in Seq(Listing) /\ l \in Listing /\ out' = Append(out, l)
  BY DEF LinesInv, Writes
<1>3. out' \in Seq(Listing)
  BY <1>2
<1>4. Written' = Written \union {l}
  <2>1. DOMAIN out = 1 .. Len(out) /\ DOMAIN out' = 1 .. Len(out) + 1 /\ Len(out) \in Nat
    BY <1>2
  <2>2. out'[Len(out) + 1] = l /\ \A n \in 1 .. Len(out) : out'[n] = out[n]
    BY <1>2
  <2>3. 1 .. Len(out) + 1 = (1 .. Len(out)) \union {Len(out) + 1}
    BY <2>1
  <2> QED
    BY <2>1, <2>2, <2>3 DEF Written
<1>5. LinesInv'
  BY <1>1, <1>3, <1>4 DEF LinesInv, Writes
<1>6. l \notin Written
  BY DEF LinesInv, Writes
<1>7. ASSUME NEW sec \in {1, 3, 5}
      PROVE  /\ IsFiniteSet(OfSec(sec)')
             /\ Cardinality(OfSec(sec)')
                  = Cardinality(OfSec(sec)) + (IF l.sec = sec THEN 1 ELSE 0)
  <2>1. IsFiniteSet(OfSec(sec)) /\ Cardinality(OfSec(sec)) \in Nat
    BY FS_CardinalityType DEF TotalsInv
  <2>2. CASE l.sec = sec
    <3>1. OfSec(sec)' = OfSec(sec) \union {l} /\ l \notin OfSec(sec)
      BY <1>4, <1>6, <2>2 DEF OfSec
    <3> QED
      BY <2>1, <2>2, <3>1, FS_AddElement
  <2>3. CASE l.sec # sec
    <3>1. OfSec(sec)' = OfSec(sec)
      BY <1>4, <2>3 DEF OfSec
    <3> QED
      BY <2>1, <2>3, <3>1
  <2> QED
    BY <2>2, <2>3
<1> QED
  BY <1>5, <1>7

\* A step that writes a line is one DumpSpec allows.
LEMMA WritesEmits ==
  ASSUME LinesInv, InputsFixed, NEW l, Writes(l),
         {wpc, wpc'} \cap {"ok", "err"} = {}
  PROVE  Dump!Emit
<1>1. Listing' = Listing
  BY ListingFixed DEF InputsFixed, countsVars, scanVars, inputVars
<1>2. Dump!Lines = Written
  BY DEF Dump!Lines, Written
<1>3. l \in Listing \ Dump!Lines /\ \A m \in Listing : Dump!Before(m, l) => m \in Dump!Lines
  BY <1>2 DEF LinesInv, Writes
<1> QED
  BY <1>1, <1>3 DEF Dump!Emit, Writes

\* A step that leaves the lines due as they are.
LEMMA SilentLines ==
  ASSUME LinesInv, InputsFixed, out' = out, \A m \in Listing : Due(m)' <=> Due(m)
  PROVE  LinesInv' /\ \A sec : OfSec(sec)' = OfSec(sec)
<1>1. Listing' = Listing
  BY ListingFixed DEF InputsFixed, countsVars, scanVars, inputVars
<1> QED
  BY <1>1 DEF LinesInv, Written, OfSec

-----------------------------------------------------------------------------
(***************************************************************************)
(* The write actions, one by one.                                          *)
(***************************************************************************)
\* The first line due is that of another place after a step.
LEMMA DueAfter ==
  ASSUME NEW l
  PROVE  Due(l)' <=>
           \/ l.pos > at'
           \/ l.pos = at' /\ l.sec > DueSec(wpc')
           \/ /\ l.pos = at' /\ l.sec = DueSec(wpc')
              /\ wpc' \in {"field", "method"} => todo'[1] <= l.key
BY DEF Due, DueSec

\* Outside the loops over fields and methods, all keys of a kind are due.
LEMMA DueBefore ==
  ASSUME NEW l, l.pos \in Int, l.sec \in Int, at \in Int,
         wpc \notin {"field", "method"}
  PROVE  Due(l) <=> l.pos > at \/ (l.pos = at /\ l.sec >= DueSec(wpc))
<1>1. DueSec(wpc) \in Int
  BY DEF DueSec
<1> QED
  BY <1>1 DEF Due

LEMMA DueBeforeNext ==
  ASSUME NEW l, l.pos \in Int, l.sec \in Int, at' \in Int,
         wpc' \notin {"field", "method"}
  PROVE  Due(l)' <=> l.pos > at' \/ (l.pos = at' /\ l.sec >= DueSec(wpc'))
<1>1. DueSec(wpc') \in Int
  BY DEF DueSec
<1> QED
  BY <1>1, DueAfter

\* What a step makes of the places, the decoded vector and the lines.
Moves(l) ==
  /\ InputsFixed /\ {wpc, wpc'} \cap {"ok", "err"} = {}
  /\ PlaceInv' /\ TodoInv' /\ Writes(l)

LEMMA StepWriteNamespace ==
  ASSUME WalkInv, WriteNamespace
  PROVE  Moves(Line(0, 0, <<>>)) /\ UNCHANGED <<ntypes, nfields, nmethods>>
<1> DEFINE l == Line(0, 0, <<>>)
<1>1. /\ wpc = "namespace" /\ wpc' = "open" /\ at' = at /\ todo' = todo
      /\ out' = Append(out, l) /\ InputsFixed
      /\ UNCHANGED <<indices, records, mpc, spc, db>>
      /\ UNCHANGED <<ntypes, nfields, nmethods>>
  BY DEF WriteNamespace, Walking, InputsFixed, countsVars, scanVars, inputVars
<1>2. /\ at \in Int /\ at \in DOMAIN indices /\ Listed(indices[at])
      /\ mpc = "done" /\ spc = "done"
  BY <1>1, Inside
<1>3. l \in Listing /\ l.pos = at /\ l.sec = 0 /\ l.key = 0
  BY <1>2, ListingHas DEF Line
<1>4. ASSUME NEW m \in Listing
      PROVE  /\ m.pos \in Int /\ m.sec \in Int /\ m.sec >= 0 /\ m.key \in Int
             /\ m.pos = at /\ m.sec = 0 => m = l
  BY LineTypes, ListingLines DEF WalkInv, Line
<1> HIDE DEF l
<1>5. Writes(l)
  <2>1. \A m \in Listing : Due(m) <=> m.pos > at \/ m.pos = at
    BY <1>1, <1>2, <1>4 DEF Due, DueSec
  <2>2. \A m \in Listing : Due(m)' <=> m.pos > at \/ (m.pos = at /\ m.sec > 0)
    BY DueAfter, <1>1, <1>2, <1>4 DEF DueSec
  <2>3. \A m \in Listing : Due(m)' <=> Due(m) /\ m # l
    BY <1>2, <1>3, <1>4, <2>1, <2>2
  <2>4. \A m \in Listing : Dump!Before(m, l) => ~Due(m)
    BY <1>2, <1>3, <1>4, <2>1 DEF Dump!Before
  <2> QED
    BY <1>1, <1>3, <2>1, <2>3, <2>4 DEF Writes
<1>6. PlaceInv'
  BY <1>1, <1>2 DEF WalkInv, PlaceInv, Places, Listed, HasTypeDef
<1>7. TodoInv'
  BY <1>1 DEF TodoInv
<1> QED
  BY <1>1, <1>5, <1>6, <1>7 DEF Moves, l

LEMMA StepWriteOpen ==
  ASSUME WalkInv, WriteOpen
  PROVE  Moves(Line(1, 0, <<>>)) /\ UNCHANGED <<ntypes, nfields, nmethods>>
<1> DEFINE l == Line(1, 0, <<>>)
<1>1. /\ wpc = "open" /\ wpc' = "fields" /\ at' = at /\ todo' = todo
      /\ out' = Append(out, l) /\ InputsFixed
      /\ UNCHANGED <<indices, records, mpc, spc, db>>
      /\ UNCHANGED <<ntypes, nfields, nmethods>>
  BY DEF WriteOpen, Walking, InputsFixed, countsVars, scanVars, inputVars
<1>2. /\ at \in Int /\ at \in DOMAIN indices /\ Listed(indices[at])
      /\ mpc = "done" /\ spc = "done"
  BY <1>1, Inside
<1>3. l \in Listing /\ l.pos = at /\ l.sec = 1 /\ l.key = 0
  BY <1>2, ListingHas DEF Line
<1>4. ASSUME NEW m \in Listing
      PROVE  /\ m.pos \in Int /\ m.sec \in Int /\ m.key \in Int
             /\ m.pos = at /\ m.sec = 1 => m = l
  BY LineTypes, ListingLines DEF WalkInv, Line
<1> HIDE DEF l
<1>5. Writes(l)
  <2>1. \A m \in Listing : Due(m) <=> m.pos > at \/ (m.pos = at /\ m.sec >= 1)
    BY <1>1, <1>2, <1>4 DEF Due, DueSec
  <2>2. \A m \in Listing : Due(m)' <=> m.pos > at \/ (m.pos = at /\ m.sec > 1)
    BY DueAfter, <1>1, <1>2, <1>4 DEF DueSec
  <2>3. \A m \in Listing : Due(m)' <=> Due(m) /\ m # l
    BY <1>2, <1>3, <1>4, <2>1, <2>2
  <2>4. \A m \in Listing : Dump!Before(m, l) => ~Due(m)
    BY <1>2, <1>3, <1>4, <2>1 DEF Dump!Before
  <2> QED
    BY <1>1, <1>3, <2>1, <2>3, <2>4 DEF Writes
<1>6. PlaceInv'
  BY <1>1, <1>2 DEF WalkInv, PlaceInv, Places, Listed, HasTypeDef
<1>7. TodoInv'
  BY <1>1 DEF TodoInv
<1> QED
  BY <1>1, <1>5, <1>6, <1>7 DEF Moves, l

LEMMA StepCloseType ==
  ASSUME WalkInv, CloseType
  PROVE  Moves(Line(6, 0, <<>>)) /\ UNCHANGED <<ntypes, nfields, nmethods>>
<1> DEFINE l == Line(6, 0, <<>>)
<1>1. /\ wpc = "close" /\ wpc' = "type" /\ at' = at + 1 /\ todo' = todo
      /\ out' = Append(out, l) /\ InputsFixed
      /\ UNCHANGED <<indices, records, mpc, spc, db>>
      /\ UNCHANGED <<ntypes, nfields, nmethods>>
  BY DEF CloseType, Walking, InputsFixed, countsVars, scanVars, inputVars
<1>2. /\ at \in Int /\ at \in 1 .. Len(indices) /\ indices \in Seq(Nat)
      /\ at \in DOMAIN indices /\ Listed(indices[at])
      /\ mpc = "done" /\ spc = "done"
  BY <1>1, Inside
<1>3. l \in Listing /\ l.pos = at /\ l.sec = 6 /\ l.key = 0
  BY <1>2, ListingHas DEF Line
<1>4. ASSUME NEW m \in Listing
      PROVE  /\ m.pos \in Int /\ m.sec \in Int /\ m.key \in Int /\ m.sec \in 0 .. 6
             /\ m.pos = at /\ m.sec = 6 => m = l
  BY LineTypes, ListingLines DEF WalkInv, Line
<1> HIDE DEF l
<1>5. Writes(l)
  <2>1. \A m \in Listing : Due(m) <=> m.pos > at \/ (m.pos = at /\ m.sec >= 6)
    BY <1>1, <1>2, <1>4 DEF Due, DueSec
  <2>2. ASSUME NEW m \in Listing
        PROVE  Due(m)' <=> m.pos > at
    <3>1. m.pos \in Int /\ m.sec \in Int /\ m.sec >= 0
      BY <1>4
    <3>2. DueSec(wpc') = 0 /\ wpc' \notin {"field", "method"} /\ at' \in Int
      BY <1>1, <1>2 DEF DueSec
    <3>3. Due(m)' <=> m.pos > at + 1 \/ (m.pos = at + 1 /\ m.sec >= 0)
      BY <1>1, <3>1, <3>2, DueBeforeNext
    <3> QED
      BY <1>2, <3>1, <3>3
  <2>3. ASSUME NEW m \in Listing
        PROVE  Due(m)' <=> Due(m) /\ m # l
    <3>1. m.pos \in Int /\ m.sec \in 0 .. 6
      BY <1>4
    <3>2. m = l <=> m.pos = at /\ m.sec = 6
      BY <1>3, <1>4
    <3> QED
      BY <1>2, <2>1, <2>2, <3>1, <3>2
  <2>4. \A m \in Listing : Dump!Before(m, l) => ~Due(m)
    BY <1>2, <1>3, <1>4, <2>1 DEF Dump!Before
  <2> QED
    BY <1>1, <1>3, <2>1, <2>3, <2>4 DEF Writes
<1>6. PlaceInv'
  BY <1>1, <1>2 DEF WalkInv, PlaceInv, Places
<1>7. TodoInv'
  BY <1>1 DEF TodoInv
<1> QED
  BY <1>1, <1>5, <1>6, <1>7 DEF Moves, l

LEMMA StepWriteFieldsHeading ==
  ASSUME WalkInv, WriteFieldsHeading
  PROVE  Moves(Line(2, 0, <<>>)) /\ UNCHANGED <<ntypes, nfields, nmethods>>
<1> DEFINE l == Line(2, 0, <<>>)
           t == indices[at]
<1>1. /\ wpc = "fieldsHeading" /\ wpc' = "field" /\ at' = at /\ todo' = todo
      /\ out' = Append(out, l) /\ InputsFixed
      /\ UNCHANGED <<indices, records, rows, mpc, spc, db>>
      /\ UNCHANGED <<ntypes, nfields, nmethods>>
  BY DEF WriteFieldsHeading, Walking, InputsFixed, countsVars, scanVars, inputVars
<1>2. /\ at \in Int /\ at \in DOMAIN indices /\ Listed(t)
      /\ t \in Types \cap DOMAIN records
      /\ mpc = "done" /\ spc = "done" /\ TodoInv
  BY <1>1, Inside
<1>3. Whole(ListedFields(t), todo)
  BY <1>1, <1>2 DEF TodoInv
<1>4. todo[1] \in ListedFields(t) /\ todo[1] \in Int
  BY <1>3 DEF Whole, Rest
<1>5. l \in Listing /\ l.pos = at /\ l.sec = 2 /\ l.key = 0
  BY <1>2, <1>4, ListingHas DEF Line
<1>6. ASSUME NEW m \in Listing
      PROVE  /\ m.pos \in Int /\ m.sec \in Int /\ m.key \in Int
             /\ m.pos = at /\ m.sec = 2 => m = l
             /\ m.pos = at /\ m.sec = 3 => todo[1] <= m.key
  <2>1. m.pos \in Int /\ m.sec \in Int /\ m.key \in Int
    BY LineTypes DEF WalkInv
  <2>2. m.pos = at /\ m.sec = 2 => m = l
    BY ListingLines DEF Line
  <2>3. m.pos = at /\ m.sec = 3 => m.key \in ListedFields(t)
    BY ListingLines
  <2> QED
    BY <1>3, <2>1, <2>2, <2>3 DEF Whole
<1> HIDE DEF l
<1>7. Writes(l)
  <2>1. \A m \in Listing : Due(m) <=> m.pos > at \/ (m.pos = at /\ m.sec >= 2)
    BY <1>1, <1>2, <1>6 DEF Due, DueSec
  <2>2. \A m \in Listing : Due(m)' <=> m.pos > at \/ (m.pos = at /\ m.sec > 2)
    BY DueAfter, <1>1, <1>2, <1>6 DEF DueSec
  <2>3. \A m \in Listing : Due(m)' <=> Due(m) /\ m # l
    BY <1>2, <1>5, <1>6, <2>1, <2>2
  <2>4. \A m \in Listing : Dump!Before(m, l) => ~Due(m)
    BY <1>2, <1>5, <1>6, <2>1 DEF Dump!Before
  <2> QED
    BY <1>1, <1>5, <2>1, <2>3, <2>4 DEF Writes
<1>8. PlaceInv'
  BY <1>1, <1>2 DEF WalkInv, PlaceInv, Places, Listed, HasTypeDef
<1>9. TodoInv'
  BY <1>1, <1>3, ListingFixed DEF TodoInv, Whole
<1> QED
  BY <1>1, <1>7, <1>8, <1>9 DEF Moves, l

LEMMA StepWriteMethodsHeading ==
  ASSUME WalkInv, WriteMethodsHeading
  PROVE  Moves(Line(4, 0, <<>>)) /\ UNCHANGED <<ntypes, nfields, nmethods>>
<1> DEFINE l == Line(4, 0, <<>>)
           t == indices[at]
<1>1. /\ wpc = "methodsHeading" /\ wpc' = "method" /\ at' = at /\ todo' = todo
      /\ out' = Append(out, l) /\ InputsFixed
      /\ UNCHANGED <<indices, records, rows, mpc, spc, db>>
      /\ UNCHANGED <<ntypes, nfields, nmethods>>
  BY DEF WriteMethodsHeading, Walking, InputsFixed, countsVars, scanVars, inputVars
<1>2. /\ at \in Int /\ at \in DOMAIN indices /\ Listed(t)
      /\ t \in Types \cap DOMAIN records
      /\ mpc = "done" /\ spc = "done" /\ TodoInv
  BY <1>1, Inside
<1>3. Whole(ListedMethods(t), todo)
  BY <1>1, <1>2 DEF TodoInv
<1>4. todo[1] \in ListedMethods(t) /\ todo[1] \in Int
  BY <1>3 DEF Whole, Rest
<1>5. l \in Listing /\ l.pos = at /\ l.sec = 4 /\ l.key = 0
  BY <1>2, <1>4, ListingHas DEF Line
<1>6. ASSUME NEW m \in Listing
      PROVE  /\ m.pos \in Int /\ m.sec \in Int /\ m.key \in Int
             /\ m.pos = at /\ m.sec = 4 => m = l
             /\ m.pos = at /\ m.sec = 5 => todo[1] <= m.key
  <2>1. m.pos \in Int /\ m.sec \in Int /\ m.key \in Int
    BY LineTypes DEF WalkInv
  <2>2. m.pos = at /\ m.sec = 4 => m = l
    BY ListingLines DEF Line
  <2>3. m.pos = at /\ m.sec = 5 => m.key \in ListedMethods(t)
    BY ListingLines
  <2> QED
    BY <1>3, <2>1, <2>2, <2>3 DEF Whole
<1> HIDE DEF l
<1>7. Writes(l)
  <2>1. \A m \in Listing : Due(m) <=> m.pos > at \/ (m.pos = at /\ m.sec >= 4)
    BY <1>1, <1>2, <1>6 DEF Due, DueSec
  <2>2. \A m \in Listing : Due(m)' <=> m.pos > at \/ (m.pos = at /\ m.sec > 4)
    BY DueAfter, <1>1, <1>2, <1>6 DEF DueSec
  <2>3. \A m \in Listing : Due(m)' <=> Due(m) /\ m # l
    BY <1>2, <1>5, <1>6, <2>1, <2>2
  <2>4. \A m \in Listing : Dump!Before(m, l) => ~Due(m)
    BY <1>2, <1>5, <1>6, <2>1 DEF Dump!Before
  <2> QED
    BY <1>1, <1>5, <2>1, <2>3, <2>4 DEF Writes
<1>8. PlaceInv'
  BY <1>1, <1>2 DEF WalkInv, PlaceInv, Places, Listed, HasTypeDef
<1>9. TodoInv'
  BY <1>1, <1>3, ListingFixed DEF TodoInv, Whole
<1> QED
  BY <1>1, <1>7, <1>8, <1>9 DEF Moves, l

\* Writing the first element of the vector leaves the rest of the listing.
LEMMA RestShrinks ==
  ASSUME NEW S, NEW s, Rest(S, s)
  PROVE  /\ s[1] \in S /\ s[1] \in Int /\ Head(s) = s[1]
         /\ Tail(s) # <<>> => Rest(S, Tail(s)) /\ Tail(s)[1] = s[1] + 1
         /\ Tail(s) = <<>> => \A g \in S : g \in Int /\ s[1] <= g => g = s[1]
<1> DEFINE r == Tail(s)
<1>1. s \in Seq(Int) /\ s # <<>> /\ Len(s) \in Nat /\ Len(s) > 0
  BY DEF Rest
<1>2. s[1] \in Int /\ s[1] \in S /\ Head(s) = s[1]
  BY <1>1 DEF Rest
<1>3. /\ r \in Seq(Int) /\ Len(r) = Len(s) - 1
      /\ \A n \in 1 .. Len(s) - 1 : r[n] = s[n + 1]
  BY <1>1
<1> HIDE DEF r
<1>4. ASSUME r # <<>>
      PROVE  Rest(S, r) /\ r[1] = s[1] + 1
  <2>1. Len(s) > 1
    BY <1>1, <1>3, <1>4
  <2>2. r[1] = s[1] + 1
    <3>1. 1 \in 1 .. Len(s) - 1 /\ 2 \in 1 .. Len(s)
      BY <1>1, <2>1
    <3>2. r[1] = s[2] /\ s[2] = s[1] + 2 - 1
      BY <1>3, <3>1 DEF Rest
    <3> QED
      BY <1>2, <3>2
  <2>3. ASSUME NEW n \in 1 .. Len(r)
        PROVE  r[n] = r[1] + n - 1
    <3>1. n + 1 \in 1 .. Len(s) /\ n \in 1 .. Len(s) - 1
      BY <1>1, <1>3
    <3>2. r[n] = s[1] + (n + 1) - 1
      BY <1>3, <3>1 DEF Rest
    <3> QED
      BY <1>2, <2>2, <3>1, <3>2
  <2>4. ASSUME NEW g \in Int, r[1] <= g
        PROVE  g \in S <=> g < r[1] + Len(r)
    <3>1. s[1] <= g
      BY <1>2, <2>2, <2>4
    <3>2. g \in S <=> g < s[1] + Len(s)
      BY <3>1 DEF Rest
    <3>3. r[1] + Len(r) = s[1] + Len(s)
      BY <1>1, <1>2, <1>3, <2>2
    <3> QED
      BY <3>2, <3>3
  <2> QED
    BY <1>3, <1>4, <2>2, <2>3, <2>4 DEF Rest
<1>5. ASSUME r = <<>>, NEW g \in S, g \in Int, s[1] <= g
      PROVE  g = s[1]
  <2>1. Len(s) = 1
    <3>1. Len(r) = 0
      BY <1>5
    <3> QED
      BY <1>1, <1>3, <3>1
  <2>2. g < s[1] + 1
    BY <1>5, <2>1 DEF Rest
  <2> QED
    BY <1>2, <1>5, <2>2
<1> QED
  BY <1>2, <1>4, <1>5 DEF r

LEMMA StepWriteField ==
  ASSUME WalkInv, WriteField
  PROVE  /\ Moves(Line(3, Head(todo), Default(Head(todo))))
         /\ nfields' = nfields + 1 /\ UNCHANGED <<ntypes, nmethods>>
         /\ wpc' \in {"field", "methods"}
<1> DEFINE l == Line(3, Head(todo), Default(Head(todo)))
           t == indices[at]
<1>1. /\ wpc = "field" /\ at' = at /\ todo' = Tail(todo)
      /\ wpc' = IF Tail(todo) # <<>> THEN "field" ELSE "methods"
      /\ out' = Append(out, l) /\ InputsFixed
      /\ UNCHANGED <<indices, records, rows, mpc, spc, db>>
      /\ nfields' = nfields + 1 /\ UNCHANGED <<ntypes, nmethods>>
  BY DEF WriteField, Walking, InputsFixed, countsVars, scanVars, inputVars, More
<1>2. /\ at \in Int /\ at \in DOMAIN indices /\ Listed(t)
      /\ t \in Types \cap DOMAIN records
      /\ mpc = "done" /\ spc = "done" /\ TodoInv
  BY <1>1, Inside
<1>3. Rest(ListedFields(t), todo)
  BY <1>1, <1>2 DEF TodoInv
<1>4. /\ todo[1] \in ListedFields(t) /\ todo[1] \in Int /\ Head(todo) = todo[1]
      /\ Tail(todo) # <<>> => Rest(ListedFields(t), Tail(todo)) /\ Tail(todo)[1] = todo[1] + 1
      /\ Tail(todo) = <<>> =>
           \A g \in ListedFields(t) : g \in Int /\ todo[1] <= g => g = todo[1]
  BY <1>3, RestShrinks
<1>5. l = Line(3, todo[1], ListedDefault(todo[1]))
  BY <1>2, <1>4, DefaultsFound DEF WalkInv
<1>6. l \in Listing /\ l.pos = at /\ l.sec = 3 /\ l.key = todo[1]
  BY <1>2, <1>4, <1>5, ListingHas DEF Line
<1>7. ASSUME NEW m \in Listing
      PROVE  /\ m.pos \in Int /\ m.sec \in Int /\ m.key \in Int
             /\ m.pos = at /\ m.sec = 3 => m.key \in ListedFields(t)
             /\ m.pos = at /\ m.sec = 3 /\ m.key = todo[1] => m = l
  BY <1>5, LineTypes, ListingLines DEF WalkInv, Line
<1> HIDE DEF l
<1>8. Writes(l)
  <2>1. \A m \in Listing : Due(m) <=>
         m.pos > at \/ (m.pos = at /\ (m.sec > 3 \/ (m.sec = 3 /\ todo[1] <= m.key)))
    BY <1>1, <1>2, <1>7 DEF Due, DueSec
  <2>2. \A m \in Listing : Due(m)' <=>
         m.pos > at \/ (m.pos = at /\ (m.sec > 3 \/ (m.sec = 3 /\ todo[1] < m.key)))
    <3>1. CASE Tail(todo) # <<>>
      <4>1. /\ DueSec(wpc') = 3 /\ wpc' \in {"field", "method"}
            /\ at' = at /\ todo'[1] = todo[1] + 1
        BY <1>1, <1>4, <3>1 DEF DueSec
      <4> QED
        BY DueAfter, <1>2, <1>4, <1>7, <4>1
    <3>2. CASE Tail(todo) = <<>>
      <4>1. DueSec(wpc') = 4 /\ wpc' \notin {"field", "method"} /\ at' = at
        BY <1>1, <3>2 DEF DueSec
      <4>2. ASSUME NEW m \in Listing
            PROVE  Due(m)' <=> m.pos > at \/ (m.pos = at /\ m.sec > 3)
        <5>1. m.pos \in Int /\ m.sec \in Int
          BY <1>7
        <5>2. Due(m)' <=> m.pos > at \/ (m.pos = at /\ m.sec >= 4)
          BY <1>2, <4>1, <5>1, DueBeforeNext
        <5> QED
          BY <1>2, <5>1, <5>2
      <4>3. ASSUME NEW m \in Listing, m.pos = at, m.sec = 3
            PROVE  ~(todo[1] < m.key)
        <5>1. m.key \in Int /\ m.key \in ListedFields(t)
          BY <1>7, <4>3
        <5> QED
          BY <1>4, <3>2, <5>1
      <4> QED
        BY <4>2, <4>3
    <3> QED
      BY <3>1, <3>2
  <2>3. ASSUME NEW m \in Listing
        PROVE  Due(m)' <=> Due(m) /\ m # l
    <3>1. m.pos \in Int /\ m.sec \in Int /\ m.key \in Int
      BY <1>7
    <3>2. m = l <=> m.pos = at /\ m.sec = 3 /\ m.key = todo[1]
      BY <1>6, <1>7
    <3>3. /\ Due(m) <=> m.pos > at \/ (m.pos = at /\ (m.sec > 3 \/ (m.sec = 3 /\ todo[1] <= m.key)))
          /\ Due(m)' <=> m.pos > at \/ (m.pos = at /\ (m.sec > 3 \/ (m.sec = 3 /\ todo[1] < m.key)))
      BY <2>1, <2>2
    <3>4. at \in Int /\ todo[1] \in Int
      BY <1>2, <1>4
    <3> QED
      BY <3>1, <3>2, <3>3, <3>4
  <2>4. \A m \in Listing : Dump!Before(m, l) => ~Due(m)
    BY <1>2, <1>4, <1>6, <1>7, <2>1 DEF Dump!Before
  <2> QED
    BY <1>1, <1>4, <1>6, <2>1, <2>3, <2>4 DEF Writes
<1>9. PlaceInv'
  BY <1>1, <1>2 DEF WalkInv, PlaceInv, Places, Listed, HasTypeDef
<1>10. TodoInv'
  BY <1>1, <1>4, ListingFixed DEF TodoInv
<1> QED
  BY <1>1, <1>8, <1>9, <1>10 DEF Moves, l

LEMMA StepWriteMethod ==
  ASSUME WalkInv, WriteMethod
  PROVE  /\ Moves(Line(5, Head(todo), <<>>))
         /\ nmethods' = nmethods + 1 /\ UNCHANGED <<ntypes, nfields>>
         /\ wpc' \in {"method", "close"}
<1> DEFINE l == Line(5, Head(todo), <<>>)
           t == indices[at]
<1>1. /\ wpc = "method" /\ at' = at /\ todo' = Tail(todo)
      /\ wpc' = IF Tail(todo) # <<>> THEN "method" ELSE "close"
      /\ out' = Append(out, l) /\ InputsFixed
      /\ UNCHANGED <<indices, records, rows, mpc, spc, db>>
      /\ nmethods' = nmethods + 1 /\ UNCHANGED <<ntypes, nfields>>
  BY DEF WriteMethod, Walking, InputsFixed, countsVars, scanVars, inputVars, More
<1>2. /\ at \in Int /\ at \in DOMAIN indices /\ Listed(t)
      /\ t \in Types \cap DOMAIN records
      /\ mpc = "done" /\ spc = "done" /\ TodoInv
  BY <1>1, Inside
<1>3. Rest(ListedMethods(t), todo)
  BY <1>1, <1>2 DEF TodoInv
<1>4. /\ todo[1] \in ListedMethods(t) /\ todo[1] \in Int /\ Head(todo) = todo[1]
      /\ Tail(todo) # <<>> => Rest(ListedMethods(t), Tail(todo)) /\ Tail(todo)[1] = todo[1] + 1
      /\ Tail(todo) = <<>> =>
           \A g \in ListedMethods(t) : g \in Int /\ todo[1] <= g => g = todo[1]
  BY <1>3, RestShrinks
<1>6. l \in Listing /\ l.pos = at /\ l.sec = 5 /\ l.key = todo[1]
  BY <1>2, <1>4, ListingHas DEF Line
<1>7. ASSUME NEW m \in Listing
      PROVE  /\ m.pos \in Int /\ m.sec \in Int /\ m.key \in Int
             /\ m.pos = at /\ m.sec = 5 => m.key \in ListedMethods(t)
             /\ m.pos = at /\ m.sec = 5 /\ m.key = todo[1] => m = l
  BY <1>4, LineTypes, ListingLines DEF WalkInv, Line
<1> HIDE DEF l
<1>8. Writes(l)
  <2>1. \A m \in Listing : Due(m) <=>
         m.pos > at \/ (m.pos = at /\ (m.sec > 5 \/ (m.sec = 5 /\ todo[1] <= m.key)))
    BY <1>1, <1>2, <1>7 DEF Due, DueSec
  <2>2. \A m \in Listing : Due(m)' <=>
         m.pos > at \/ (m.pos = at /\ (m.sec > 5 \/ (m.sec = 5 /\ todo[1] < m.key)))
    <3>1. CASE Tail(todo) # <<>>
      <4>1. /\ DueSec(wpc') = 5 /\ wpc' \in {"field", "method"}
            /\ at' = at /\ todo'[1] = todo[1] + 1
        BY <1>1, <1>4, <3>1 DEF DueSec
      <4> QED
        BY DueAfter, <1>2, <1>4, <1>7, <4>1
    <3>2. CASE Tail(todo) = <<>>
      <4>1. DueSec(wpc') = 6 /\ wpc' \notin {"field", "method"} /\ at' = at
        BY <1>1, <3>2 DEF DueSec
      <4>2. ASSUME NEW m \in Listing
            PROVE  Due(m)' <=> m.pos > at \/ (m.pos = at /\ m.sec > 5)
        <5>1. m.pos \in Int /\ m.sec \in Int
          BY <1>7
        <5>2. Due(m)' <=> m.pos > at \/ (m.pos = at /\ m.sec >= 6)
          BY <1>2, <4>1, <5>1, DueBeforeNext
        <5> QED
          BY <1>2, <5>1, <5>2
      <4>3. ASSUME NEW m \in Listing, m.pos = at, m.sec = 5
            PROVE  ~(todo[1] < m.key)
        <5>1. m.key \in Int /\ m.key \in ListedMethods(t)
          BY <1>7, <4>3
        <5> QED
          BY <1>4, <3>2, <5>1
      <4> QED
        BY <4>2, <4>3
    <3> QED
      BY <3>1, <3>2
  <2>3. ASSUME NEW m \in Listing
        PROVE  Due(m)' <=> Due(m) /\ m # l
    <3>1. m.pos \in Int /\ m.sec \in Int /\ m.key \in Int
      BY <1>7
    <3>2. m = l <=> m.pos = at /\ m.sec = 5 /\ m.key = todo[1]
      BY <1>6, <1>7
    <3>3. /\ Due(m) <=> m.pos > at \/ (m.pos = at /\ (m.sec > 5 \/ (m.sec = 5 /\ todo[1] <= m.key)))
          /\ Due(m)' <=> m.pos > at \/ (m.pos = at /\ (m.sec > 5 \/ (m.sec = 5 /\ todo[1] < m.key)))
      BY <2>1, <2>2
    <3>4. at \in Int /\ todo[1] \in Int
      BY <1>2, <1>4
    <3> QED
      BY <3>1, <3>2, <3>3, <3>4
  <2>4. \A m \in Listing : Dump!Before(m, l) => ~Due(m)
    BY <1>2, <1>4, <1>6, <1>7, <2>1 DEF Dump!Before
  <2> QED
    BY <1>1, <1>4, <1>6, <2>1, <2>3, <2>4 DEF Writes
<1>9. PlaceInv'
  BY <1>1, <1>2 DEF WalkInv, PlaceInv, Places, Listed, HasTypeDef
<1>10. TodoInv'
  BY <1>1, <1>4, ListingFixed DEF TodoInv
<1> QED
  BY <1>1, <1>8, <1>9, <1>10 DEF Moves, l

-----------------------------------------------------------------------------
(***************************************************************************)
(* The steps that write nothing leave the lines due as they are.           *)
(***************************************************************************)
Keeps ==
  /\ InputsFixed /\ out' = out
  /\ PlaceInv' /\ TodoInv'
  /\ \A m \in Listing : Due(m)' <=> Due(m)

LEMMA StepSkipType ==
  ASSUME WalkInv, SkipType
  PROVE  Keeps
<1>1. /\ wpc = "type" /\ wpc' = "type" /\ at \in DOMAIN indices /\ at' = at + 1
      /\ ~Listed(indices[at]) /\ todo' = todo /\ out' = out /\ InputsFixed
      /\ UNCHANGED <<indices, records, mpc, spc, db>> /\ mpc = "done" /\ spc = "done"
  BY DEF SkipType, Walking, InputsFixed, countsVars, scanVars, inputVars
<1>2. indices \in Seq(Nat) /\ at \in 1 .. Len(indices) /\ at \in Int
  <2>1. indices \in Seq(Nat)
    BY DEF WalkInv, InputInv
  <2> QED
    BY <1>1, <2>1
<1>3. ASSUME NEW m \in Listing
      PROVE  m.pos \in Int /\ m.sec \in Int /\ m.sec >= 0 /\ m.pos # at
  <2>1. Listed(indices[m.pos])
    BY ListingLines
  <2>2. m.pos \in 1 .. Len(indices) /\ m.sec \in 0 .. 6
    BY LineTypes DEF WalkInv
  <2>3. m.pos # at
    BY <1>1, <2>1
  <2> QED
    BY <2>2, <2>3
<1>4. ASSUME NEW m \in Listing
      PROVE  Due(m)' <=> Due(m)
  <2>1. Due(m) <=> m.pos > at
    BY <1>1, <1>2, <1>3 DEF Due, DueSec
  <2>2. Due(m)' <=> m.pos > at + 1 \/ (m.pos = at + 1 /\ m.sec >= 0)
    <3>1. DueSec(wpc') = 0 /\ wpc' \notin {"field", "method"} /\ at' = at + 1
      BY <1>1 DEF DueSec
    <3> QED
      BY DueAfter, <1>2, <1>3, <3>1
  <2> QED
    BY <1>2, <1>3, <2>1, <2>2
<1>5. PlaceInv'
  BY <1>1, <1>2 DEF PlaceInv, Places
<1>6. TodoInv'
  BY <1>1 DEF TodoInv
<1> QED
  BY <1>1, <1>4, <1>5, <1>6 DEF Keeps

LEMMA StepEnterType ==
  ASSUME WalkInv, EnterType
  PROVE  Keeps
<1>1. /\ wpc = "type" /\ wpc' = "namespace" /\ at \in DOMAIN indices /\ at' = at
      /\ Listed(indices[at]) /\ todo' = todo /\ out' = out /\ InputsFixed
      /\ UNCHANGED <<indices, records, rows, mpc, spc, db>> /\ mpc = "done" /\ spc = "done"
  BY DEF EnterType, Walking, InputsFixed, countsVars, scanVars, inputVars
<1>2. \A m \in Listing : Due(m)' <=> Due(m)
  BY <1>1, DueAfter DEF Due, DueSec
<1>3. PlaceInv'
  BY <1>1 DEF WalkInv, PlaceInv, Places, Listed, HasTypeDef
<1>4. TodoInv'
  BY <1>1 DEF TodoInv
<1> QED
  BY <1>1, <1>2, <1>3, <1>4 DEF Keeps

LEMMA StepDecodeFields ==
  ASSUME WalkInv, DecodeFields
  PROVE  Keeps
<1> DEFINE t == indices[at]
<1>1. /\ wpc = "fields" /\ at' = at /\ todo' = DecodedFields(t)
      /\ wpc' = IF DecodedFields(t) = <<>> THEN "methods" ELSE "fieldsHeading"
      /\ out' = out /\ InputsFixed
      /\ UNCHANGED <<indices, records, rows, mpc, spc, db>>
  BY DEF DecodeFields, Walking, InputsFixed, countsVars, scanVars, inputVars
<1>2. /\ at \in Int /\ at \in DOMAIN indices /\ Listed(t)
      /\ t \in Types \cap DOMAIN records
      /\ mpc = "done" /\ spc = "done"
  BY <1>1, Inside
<1>3. IF DecodedFields(t) = <<>>
        THEN ListedFields(t) = {} ELSE Whole(ListedFields(t), DecodedFields(t))
  BY <1>2, DecodedFieldsListed DEF WalkInv
<1>4. ASSUME NEW m \in Listing
      PROVE  Due(m)' <=> Due(m)
  <2>1. m.pos \in Int /\ m.sec \in Int
    BY LineTypes DEF WalkInv
  <2>2. Due(m) <=> m.pos > at \/ (m.pos = at /\ m.sec >= 2)
    <3>1. DueSec(wpc) = 2 /\ wpc \notin {"field", "method"}
      BY <1>1 DEF DueSec
    <3> QED
      BY <1>2, <2>1, <3>1, DueBefore
  <2>3. CASE DecodedFields(t) = <<>>
    <3>1. m.pos = at => m.sec \notin {2, 3}
      BY <1>3, <2>3, ListingLines
    <3>2. DueSec(wpc') = 4 /\ wpc' \notin {"field", "method"}
      BY <1>1, <2>3 DEF DueSec
    <3>3. Due(m)' <=> m.pos > at \/ (m.pos = at /\ m.sec >= 4)
      BY <1>1, <1>2, <2>1, <3>2, DueBeforeNext
    <3> QED
      BY <1>2, <2>1, <2>2, <3>1, <3>3
  <2>4. CASE DecodedFields(t) # <<>>
    <3>1. DueSec(wpc') = 2 /\ wpc' \notin {"field", "method"}
      BY <1>1, <2>4 DEF DueSec
    <3>2. Due(m)' <=> m.pos > at \/ (m.pos = at /\ m.sec >= 2)
      BY <1>1, <1>2, <2>1, <3>1, DueBeforeNext
    <3> QED
      BY <2>2, <3>2
  <2> QED
    BY <2>3, <2>4
<1>5. PlaceInv'
  BY <1>1, <1>2 DEF WalkInv, PlaceInv, Places, Listed, HasTypeDef
<1>6. TodoInv'
  BY <1>1, <1>3, ListingFixed DEF TodoInv
<1> QED
  BY <1>1, <1>4, <1>5, <1>6 DEF Keeps

LEMMA StepDecodeMethods ==
  ASSUME WalkInv, DecodeMethods
  PROVE  Keeps
<1> DEFINE t == indices[at]
<1>1. /\ wpc = "methods" /\ at' = at /\ todo' = DecodedMethods(t)
      /\ wpc' = IF DecodedMethods(t) = <<>> THEN "close" ELSE "methodsHeading"
      /\ out' = out /\ InputsFixed
      /\ UNCHANGED <<indices, records, rows, mpc, spc, db>>
  BY DEF DecodeMethods, Walking, InputsFixed, countsVars, scanVars, inputVars
<1>2. /\ at \in Int /\ at \in DOMAIN indices /\ Listed(t)
      /\ t \in Types \cap DOMAIN records
      /\ mpc = "done" /\ spc = "done"
  BY <1>1, Inside
<1>3. IF DecodedMethods(t) = <<>>
        THEN ListedMethods(t) = {} ELSE Whole(ListedMethods(t), DecodedMethods(t))
  BY <1>2, DecodedMethodsListed DEF WalkInv
<1>4. ASSUME NEW m \in Listing
      PROVE  Due(m)' <=> Due(m)
  <2>1. m.pos \in Int /\ m.sec \in Int
    BY LineTypes DEF WalkInv
  <2>2. Due(m) <=> m.pos > at \/ (m.pos = at /\ m.sec >= 4)
    <3>1. DueSec(wpc) = 4 /\ wpc \notin {"field", "method"}
      BY <1>1 DEF DueSec
    <3> QED
      BY <1>2, <2>1, <3>1, DueBefore
  <2>3. CASE DecodedMethods(t) = <<>>
    <3>1. m.pos = at => m.sec \notin {4, 5}
      BY <1>3, <2>3, ListingLines
    <3>2. DueSec(wpc') = 6 /\ wpc' \notin {"field", "method"}
      BY <1>1, <2>3 DEF DueSec
    <3>3. Due(m)' <=> m.pos > at \/ (m.pos = at /\ m.sec >= 6)
      BY <1>1, <1>2, <2>1, <3>2, DueBeforeNext
    <3> QED
      BY <1>2, <2>1, <2>2, <3>1, <3>3
  <2>4. CASE DecodedMethods(t) # <<>>
    <3>1. DueSec(wpc') = 4 /\ wpc' \notin {"field", "method"}
      BY <1>1, <2>4 DEF DueSec
    <3>2. Due(m)' <=> m.pos > at \/ (m.pos = at /\ m.sec >= 4)
      BY <1>1, <1>2, <2>1, <3>1, DueBeforeNext
    <3> QED
      BY <2>2, <3>2
  <2> QED
    BY <2>3, <2>4
<1>5. PlaceInv'
  BY <1>1, <1>2 DEF WalkInv, PlaceInv, Places, Listed, HasTypeDef
<1>6. TodoInv'
  BY <1>1, <1>3, ListingFixed DEF TodoInv
<1> QED
  BY <1>1, <1>4, <1>5, <1>6 DEF Keeps

-----------------------------------------------------------------------------
LEMMA InitWalkInv == Init => WalkInv
<1> SUFFICES ASSUME Init PROVE WalkInv
  OBVIOUS
<1>1. PICK d \in Databases, list \in Requests : Input(d, list)
  BY DEF Init
<1>2. IsDatabase(d) /\ InputInv
  BY <1>1 DEF InputInv, Input
<1>3. indices \in Seq(Nat)
  BY <1>2 DEF InputInv
<1>4. Passes!CountsInv
  <2>1. Passes!CountsInit
    BY DEF Init, Counts!CountsInit, Passes!CountsInit, Counts!Types, Passes!Types
  <2>2. \A t \in DOMAIN records : records[t] \in Passes!U32
    BY <1>1, <1>2 DEF Input, IsDatabase, Counts!U32, Passes!U32
  <2> QED
    BY <2>1, <2>2, PassAssumptions, Passes!InitCountsInv
<1>5. Passes!ScanInv
  <2>1. Passes!ScanAlone
    BY <1>1, <1>2 DEF Init, Input, IsDatabase, Passes!ScanAlone, Passes!ScanInit,
       Scan!ScanInit, Passes!RowTables, Scan!RowTables
  <2> QED
    BY <2>1, PassAssumptions, Passes!InitScanInv
<1>6. at = 1 /\ out = <<>> /\ ntypes = 0 /\ nfields = 0 /\ nmethods = 0 /\ wpc = "type"
  BY DEF Init
<1>7. PlaceInv
  BY <1>3, <1>6 DEF PlaceInv, Places
<1>8. TodoInv
  BY <1>6 DEF TodoInv
<1>9. Written = {} /\ out \in Seq(Listing)
  BY <1>6 DEF Written
<1>10. LinesInv
  <2>1. ASSUME NEW l \in Listing PROVE Due(l)
    <3>1. l.pos \in 1 .. Len(indices) /\ l.sec \in 0 .. 6
      BY <1>2, LineTypes
    <3> QED
      BY <1>3, <1>6, <3>1 DEF Due, DueSec
  <2> QED
    BY <1>9, <2>1 DEF LinesInv
<1>11. TotalsInv
  <2>1. \A sec \in {1, 3, 5} : OfSec(sec) = {}
    BY <1>9 DEF OfSec
  <2>2. IsFiniteSet({}) /\ Cardinality({}) = 0
    BY FS_EmptySet
  <2>3. \A sec \in {1, 3, 5} : IsFiniteSet(OfSec(sec)) /\ Cardinality(OfSec(sec)) = 0
    BY <2>1, <2>2, Zenon
  <2> QED
    BY <1>6, <2>3 DEF TotalsInv
<1> QED
  BY <1>2, <1>4, <1>5, <1>7, <1>8, <1>9, <1>10, <1>11 DEF WalkInv

\* The results of the passes and the inputs stay what they are.
LEMMA InputsKept ==
  ASSUME WalkInv, InputsFixed
  PROVE  /\ Passes!CountsInv' /\ Passes!ScanInv' /\ InputInv'
         /\ Listing' = Listing
<1>1. UNCHANGED Passes!countVars /\ UNCHANGED Passes!scanVars
  BY DEF InputsFixed, countsVars, scanVars, Passes!countVars, Passes!scanVars
<1>2. Passes!CountsInv' /\ Passes!ScanInv'
  BY <1>1, PassAssumptions, Passes!NextCountsInv, Passes!NextScanInv DEF WalkInv
<1>3. InputInv'
  BY DEF WalkInv, InputInv, InputsFixed, countsVars, scanVars, inputVars
<1> QED
  BY <1>2, <1>3, ListingFixed DEF InputsFixed, countsVars, scanVars, inputVars

\* A step that writes a line and counts it keeps the invariant.
LEMMA MovesKeepInv ==
  ASSUME WalkInv, NEW l, Moves(l), wpc # "err",
         ntypes' = ntypes, l.sec = 1 <=> wpc = "open",
         wpc' = "open" <=> wpc = "namespace", wpc' # "namespace",
         nfields' = IF l.sec = 3 THEN nfields + 1 ELSE nfields,
         nmethods' = IF l.sec = 5 THEN nmethods + 1 ELSE nmethods
  PROVE  WalkInv'
<1>1. LinesInv /\ TotalsInv /\ InputsFixed /\ Writes(l) /\ PlaceInv' /\ TodoInv'
  BY DEF WalkInv, Moves
<1>2. Passes!CountsInv' /\ Passes!ScanInv' /\ InputInv'
  BY <1>1, InputsKept
<1>3. /\ LinesInv'
      /\ \A sec \in {1, 3, 5} :
           /\ IsFiniteSet(OfSec(sec)')
           /\ Cardinality(OfSec(sec)')
                = Cardinality(OfSec(sec)) + (IF l.sec = sec THEN 1 ELSE 0)
  BY <1>1, WritesLines
<1>4. \A sec \in {1, 3, 5} : Cardinality(OfSec(sec)) \in Nat
  BY <1>1, FS_CardinalityType DEF TotalsInv
<1>5. TotalsInv'
  <2>1. nfields' = Cardinality(OfSec(3)') /\ nmethods' = Cardinality(OfSec(5)')
    <3>1. nfields = Cardinality(OfSec(3)) /\ nmethods = Cardinality(OfSec(5))
      BY <1>1 DEF TotalsInv
    <3> QED
      BY <1>3, <1>4, <3>1
  <2>2. ntypes' = Cardinality(OfSec(1)') + (IF wpc' \in {"namespace", "open"} THEN 1 ELSE 0)
    <3>1. ntypes = Cardinality(OfSec(1)) + (IF wpc \in {"namespace", "open"} THEN 1 ELSE 0)
      BY <1>1 DEF TotalsInv
    <3>2. Cardinality(OfSec(1)') = Cardinality(OfSec(1)) + (IF l.sec = 1 THEN 1 ELSE 0)
      BY <1>3
    <3>3. Cardinality(OfSec(1)) \in Nat
      BY <1>4
    <3> QED
      BY <3>1, <3>2, <3>3
  <2> QED
    BY <1>3, <2>1, <2>2 DEF TotalsInv
<1>6. out' \in Seq(Listing)'
  BY <1>3 DEF LinesInv
<1> QED
  BY <1>1, <1>2, <1>3, <1>5, <1>6 DEF WalkInv

\* A step that writes nothing keeps the invariant.
LEMMA KeepsKeepsInv ==
  ASSUME WalkInv, Keeps, wpc \notin {"namespace", "open", "err"}, wpc' # "open",
         ntypes' = IF wpc' = "namespace" THEN ntypes + 1 ELSE ntypes,
         UNCHANGED <<nfields, nmethods>>
  PROVE  WalkInv'
<1>1. LinesInv /\ TotalsInv /\ InputsFixed /\ out' = out /\ PlaceInv' /\ TodoInv'
  BY DEF WalkInv, Keeps
<1>2. Passes!CountsInv' /\ Passes!ScanInv' /\ InputInv'
  BY <1>1, InputsKept
<1>3. LinesInv' /\ \A sec : OfSec(sec)' = OfSec(sec)
  BY <1>1, SilentLines DEF Keeps
<1>4. TotalsInv'
  <2>1. ntypes' = Cardinality(OfSec(1)) + (IF wpc' \in {"namespace", "open"} THEN 1 ELSE 0)
    <3>1. Cardinality(OfSec(1)) \in Nat
      BY <1>1, FS_CardinalityType DEF TotalsInv
    <3>2. ntypes = Cardinality(OfSec(1)) + (IF wpc \in {"namespace", "open"} THEN 1 ELSE 0)
      BY <1>1 DEF TotalsInv
    <3> QED
      BY <3>1, <3>2
  <2> QED
    BY <1>1, <1>3, <2>1 DEF TotalsInv
<1>5. out' \in Seq(Listing)'
  BY <1>3 DEF LinesInv
<1> QED
  BY <1>1, <1>2, <1>3, <1>4, <1>5 DEF WalkInv

\* A step of one of the passes: the walk has not begun.
LEMMA PassSteps ==
  ASSUME WalkInv, CountStep \/ ScanStep
  PROVE  /\ WalkInv' /\ Listing' = Listing
         /\ UNCHANGED walkVars
<1>1. /\ UNCHANGED walkVars /\ UNCHANGED inputVars /\ UNCHANGED <<records, rows>>
      /\ mpc # "done" \/ (mpc = "done" /\ mpc' = "done" /\ spc # "done")
  BY DEF CountStep, ScanStep, Counts!CountsNext, Counts!Collect, Counts!SortStarts,
     Counts!SkipSentinel, Counts!CountMethods, Counts!ReturnCounts, Scan!ScanNext,
     Scan!InsertRow, Scan!StopAtBadRow, Scan!StopAtEnd, countsVars, scanVars
<1>2. Passes!CountsInv'
  <2>1. [Passes!CountsNext]_(Passes!countVars)
    <3>1. CASE CountStep
      <4>1. Counts!CountsNext
        BY <3>1 DEF CountStep
      <4>2. \A t : Counts!StartOf(t) = Passes!StartOf(t)
        BY DEF Counts!StartOf, Passes!StartOf
      <4>3. Counts!Types = Passes!Types /\ Counts!RealStarts = Passes!RealStarts
        BY DEF Counts!Types, Passes!Types, Counts!RealStarts, Passes!RealStarts
      <4>4. Counts!Collect => Passes!Collect
        BY <4>2, <4>3 DEF Counts!Collect, Passes!Collect
      <4>5. Counts!SortStarts => Passes!SortStarts
        BY <4>3 DEF Counts!SortStarts, Passes!SortStarts
      <4>6. Counts!SkipSentinel => Passes!SkipSentinel
        BY DEF Counts!SkipSentinel, Passes!SkipSentinel
      <4>7. Counts!CountMethods => Passes!CountMethods
        <5> SUFFICES ASSUME Counts!CountMethods PROVE Passes!CountMethods
          OBVIOUS
        <5> DEFINE m == starts[tdi]
        <5>1. {k \in 1 .. Len(sorted) : sorted[k] = m} # {}
          <6>1. /\ Passes!Ascending(Passes!RealStarts, sorted)
                /\ mpc = "count" /\ tdi < TYPE_COUNT /\ m # U32_MAX /\ tdi \in 0 .. TYPE_COUNT
            BY DEF Counts!CountMethods, WalkInv, Passes!CountsInv, Passes!CountsTypeOK
          <6>2. m \in Passes!RealStarts
            BY <6>1 DEF Passes!RealStarts, Passes!Types
          <6> QED
            BY <6>1, <6>2 DEF Passes!Ascending
        <5>2. Counts!NextPositions(m) = Passes!NextPositions(m)
          BY <5>1 DEF Counts!NextPositions, Passes!NextPositions
        <5>3. \A p : Counts!Gap(m, p) = Passes!Gap(m, p)
          BY DEF Counts!Gap, Passes!Gap
        <5> QED
          BY <5>2, <5>3 DEF Counts!CountMethods, Passes!CountMethods
      <4>8. Counts!ReturnCounts => Passes!ReturnCounts
        BY DEF Counts!ReturnCounts, Passes!ReturnCounts
      <4> QED
        BY <4>1, <4>4, <4>5, <4>6, <4>7, <4>8 DEF Counts!CountsNext, Passes!CountsNext
    <3>2. CASE ScanStep
      BY <3>2 DEF ScanStep, countsVars, Passes!countVars
    <3> QED
      BY <3>1, <3>2
  <2> QED
    BY <2>1, PassAssumptions, Passes!NextCountsInv DEF WalkInv
<1>3. Passes!ScanInv'
  <2>1. [Passes!ScanNext]_(Passes!scanVars)
    <3>1. CASE ScanStep
      <4>1. Scan!ScanNext
        BY <3>1 DEF ScanStep
      <4>2. \A r : Scan!Takes(r) = Passes!Takes(r)
        BY DEF Scan!Takes, Passes!Takes, Scan!InRange, Passes!InRange
      <4>3. ASSUME NEW m, NEW k, NEW v
            PROVE  Scan!Put(m, k, v) = Passes!Put(m, k, v)
        BY Zenon DEF Scan!Put, Passes!Put
      <4>4. Scan!InsertRow => Passes!InsertRow
        BY <4>2, <4>3 DEF Scan!InsertRow, Passes!InsertRow
      <4>5. Scan!StopAtBadRow => Passes!StopAtBadRow
        BY <4>2 DEF Scan!StopAtBadRow, Passes!StopAtBadRow
      <4>6. Scan!StopAtEnd => Passes!StopAtEnd
        BY DEF Scan!StopAtEnd, Passes!StopAtEnd
      <4> QED
        BY <4>1, <4>4, <4>5, <4>6 DEF Scan!ScanNext, Passes!ScanNext
    <3>2. CASE CountStep
      BY <3>2 DEF CountStep, scanVars, Passes!scanVars
    <3> QED
      BY <3>1, <3>2
  <2> QED
    BY <2>1, PassAssumptions, Passes!NextScanInv DEF WalkInv
<1>4. InputInv'
  BY <1>1 DEF WalkInv, InputInv, inputVars
<1>5. Listing' = Listing
  BY <1>1, ListingFixed DEF inputVars
<1>6. at = 1 /\ wpc = "type"
  BY <1>1 DEF WalkInv, PlaceInv
<1>7. PlaceInv'
  BY <1>1, <1>6 DEF WalkInv, PlaceInv, walkVars, inputVars, Places
<1>8. TodoInv'
  BY <1>1, <1>6 DEF TodoInv, walkVars
<1>9. LinesInv' /\ TotalsInv'
  <2>1. \A m \in Listing : Due(m)' <=> Due(m)
    BY <1>1 DEF Due, walkVars
  <2> QED
    BY <1>1, <1>5, <1>6, <2>1 DEF WalkInv, LinesInv, TotalsInv, Written, OfSec, walkVars
<1> QED
  BY <1>1, <1>2, <1>3, <1>4, <1>5, <1>7, <1>8, <1>9 DEF WalkInv, LinesInv

\* The steps that end the walk.
LEMMA StepEnds ==
  ASSUME WalkInv, ReturnTotals \/ WriteFails
  PROVE  WalkInv' /\ Listing' = Listing
<1>1. /\ InputsFixed /\ UNCHANGED <<at, todo, out, ntypes, nfields, nmethods>>
      /\ UNCHANGED <<indices, mpc, spc>>
      /\ \/ wpc = "type" /\ wpc' = "ok" /\ at \notin DOMAIN indices
         \/ wpc' = "err"
      /\ mpc = "done" /\ spc = "done"
  BY DEF ReturnTotals, WriteFails, Walking, InputsFixed, countsVars, scanVars, inputVars
<1>2. Passes!CountsInv' /\ Passes!ScanInv' /\ InputInv' /\ Listing' = Listing
  BY <1>1, InputsKept
<1>3. PlaceInv'
  BY <1>1 DEF WalkInv, PlaceInv, Places
<1>4. CASE wpc' = "err"
  BY <1>1, <1>2, <1>3, <1>4 DEF WalkInv
<1>5. CASE wpc = "type" /\ wpc' = "ok" /\ at \notin DOMAIN indices
  <2>1. TodoInv'
    BY <1>5 DEF TodoInv
  <2>2. indices \in Seq(Nat) /\ at = Len(indices) + 1
    <3>1. indices \in Seq(Nat)
      BY DEF WalkInv, InputInv
    <3> QED
      BY <1>5, <3>1 DEF WalkInv, PlaceInv
  <2>3. \A m \in Listing : ~Due(m) /\ ~Due(m)'
    BY <1>1, <2>2, LineTypes DEF WalkInv, Due
  <2>4. LinesInv' /\ TotalsInv'
    BY <1>1, <1>2, <1>5, <2>3 DEF WalkInv, LinesInv, TotalsInv, Written, OfSec
  <2> QED
    BY <1>1, <1>2, <1>3, <1>5, <2>1, <2>4 DEF WalkInv
<1> QED
  BY <1>1, <1>2, <1>4, <1>5

LEMMA NextWalkInv == WalkInv /\ [Next]_vars => WalkInv'
<1> SUFFICES ASSUME WalkInv, [Next]_vars
             PROVE  WalkInv'
  OBVIOUS
<1>1. CASE CountStep \/ ScanStep
  BY <1>1, PassSteps
<1>2. CASE SkipType
  <2>1. wpc = "type" /\ wpc' = "type"
    BY <1>2 DEF SkipType, Walking
  <2>2. UNCHANGED <<nfields, nmethods>> /\ ntypes' = ntypes
    BY <1>2 DEF SkipType
  <2> QED
    BY <1>2, <2>1, <2>2, StepSkipType, KeepsKeepsInv
<1>3. CASE EnterType
  <2>1. wpc = "type" /\ wpc' = "namespace"
    BY <1>3 DEF EnterType, Walking
  <2>2. UNCHANGED <<nfields, nmethods>> /\ ntypes' = ntypes + 1
    BY <1>3 DEF EnterType
  <2> QED
    BY <1>3, <2>1, <2>2, StepEnterType, KeepsKeepsInv
<1>4. CASE WriteNamespace
  <2> DEFINE l == Line(0, 0, <<>>)
  <2>1. wpc = "namespace" /\ wpc' = "open" /\ l.sec = 0
    BY <1>4 DEF WriteNamespace, Walking, More, Line
  <2>2. /\ Moves(l) /\ ntypes' = ntypes
        /\ nfields' = nfields /\ nmethods' = nmethods
    BY <1>4, StepWriteNamespace
  <2> HIDE DEF l
  <2> QED
    BY <2>1, <2>2, MovesKeepInv
<1>5. CASE WriteOpen
  <2> DEFINE l == Line(1, 0, <<>>)
  <2>1. wpc = "open" /\ wpc' = "fields" /\ l.sec = 1
    BY <1>5 DEF WriteOpen, Walking, More, Line
  <2>2. /\ Moves(l) /\ ntypes' = ntypes
        /\ nfields' = nfields /\ nmethods' = nmethods
    BY <1>5, StepWriteOpen
  <2> HIDE DEF l
  <2> QED
    BY <2>1, <2>2, MovesKeepInv
<1>6. CASE DecodeFields
  <2>1. wpc = "fields" /\ wpc' \in {"methods", "fieldsHeading"}
    BY <1>6 DEF DecodeFields, Walking
  <2>2. UNCHANGED <<nfields, nmethods>> /\ ntypes' = ntypes
    BY <1>6 DEF DecodeFields
  <2> QED
    BY <1>6, <2>1, <2>2, StepDecodeFields, KeepsKeepsInv
<1>7. CASE WriteFieldsHeading
  <2> DEFINE l == Line(2, 0, <<>>)
  <2>1. wpc = "fieldsHeading" /\ wpc' = "field" /\ l.sec = 2
    BY <1>7 DEF WriteFieldsHeading, Walking, More, Line
  <2>2. /\ Moves(l) /\ ntypes' = ntypes
        /\ nfields' = nfields /\ nmethods' = nmethods
    BY <1>7, StepWriteFieldsHeading
  <2> HIDE DEF l
  <2> QED
    BY <2>1, <2>2, MovesKeepInv
<1>8. CASE WriteField
  <2> DEFINE l == Line(3, Head(todo), Default(Head(todo)))
  <2>1. wpc = "field" /\ wpc' \in {"field", "methods"} /\ l.sec = 3
    BY <1>8 DEF WriteField, Walking, More, Line
  <2>2. /\ Moves(l) /\ ntypes' = ntypes
        /\ nfields' = nfields + 1 /\ nmethods' = nmethods
    BY <1>8, StepWriteField
  <2> HIDE DEF l
  <2> QED
    BY <2>1, <2>2, MovesKeepInv
<1>9. CASE DecodeMethods
  <2>1. wpc = "methods" /\ wpc' \in {"close", "methodsHeading"}
    BY <1>9 DEF DecodeMethods, Walking
  <2>2. UNCHANGED <<nfields, nmethods>> /\ ntypes' = ntypes
    BY <1>9 DEF DecodeMethods
  <2> QED
    BY <1>9, <2>1, <2>2, StepDecodeMethods, KeepsKeepsInv
<1>10. CASE WriteMethodsHeading
  <2> DEFINE l == Line(4, 0, <<>>)
  <2>1. wpc = "methodsHeading" /\ wpc' = "method" /\ l.sec = 4
    BY <1>10 DEF WriteMethodsHeading, Walking, More, Line
  <2>2. /\ Moves(l) /\ ntypes' = ntypes
        /\ nfields' = nfields /\ nmethods' = nmethods
    BY <1>10, StepWriteMethodsHeading
  <2> HIDE DEF l
  <2> QED
    BY <2>1, <2>2, MovesKeepInv
<1>11. CASE WriteMethod
  <2> DEFINE l == Line(5, Head(todo), <<>>)
  <2>1. wpc = "method" /\ wpc' \in {"method", "close"} /\ l.sec = 5
    BY <1>11 DEF WriteMethod, Walking, More, Line
  <2>2. /\ Moves(l) /\ ntypes' = ntypes
        /\ nfields' = nfields /\ nmethods' = nmethods + 1
    BY <1>11, StepWriteMethod
  <2> HIDE DEF l
  <2> QED
    BY <2>1, <2>2, MovesKeepInv
<1>12. CASE CloseType
  <2> DEFINE l == Line(6, 0, <<>>)
  <2>1. wpc = "close" /\ wpc' = "type" /\ l.sec = 6
    BY <1>12 DEF CloseType, Walking, More, Line
  <2>2. /\ Moves(l) /\ ntypes' = ntypes
        /\ nfields' = nfields /\ nmethods' = nmethods
    BY <1>12, StepCloseType
  <2> HIDE DEF l
  <2> QED
    BY <2>1, <2>2, MovesKeepInv
<1>13. CASE ReturnTotals \/ WriteFails
  BY <1>13, StepEnds
<1>14. CASE UNCHANGED vars
  <2>1. /\ InputsFixed /\ UNCHANGED <<records, rows, db, indices, mpc, spc>>
        /\ UNCHANGED <<at, todo, out, wpc, ntypes, nfields, nmethods>>
    BY <1>14 DEF vars, InputsFixed, countsVars, scanVars, inputVars, walkVars
  <2>2. /\ Passes!CountsInv' /\ Passes!ScanInv' /\ InputInv' /\ Listing' = Listing
        /\ \A t : Listed(t)' = Listed(t)
    BY <2>1, InputsKept, ListingFixed
  <2>3. PlaceInv'
    BY <2>1, <2>2 DEF WalkInv, PlaceInv, Listed, HasTypeDef
  <2>4. CASE wpc = "err"
    BY <2>1, <2>2, <2>3, <2>4 DEF WalkInv
  <2>5. CASE wpc # "err"
    <3>1. TodoInv'
      BY <2>1, <2>5, ListingFixed DEF WalkInv, TodoInv
    <3>2. \A m \in Listing : Due(m)' <=> Due(m)
      BY <2>1 DEF Due
    <3>3. LinesInv' /\ \A sec : OfSec(sec)' = OfSec(sec)
      BY <2>1, <2>5, <3>2, SilentLines DEF WalkInv
    <3>4. TotalsInv'
      BY <2>1, <2>5, <3>3 DEF WalkInv, TotalsInv
    <3> QED
      BY <2>1, <2>2, <2>3, <3>1, <3>3, <3>4 DEF WalkInv
  <2> QED
    BY <2>4, <2>5
<1> QED
  BY <1>1, <1>2, <1>3, <1>4, <1>5, <1>6, <1>7, <1>8, <1>9, <1>10, <1>11, <1>12, <1>13, <1>14
     DEF Next

(***************************************************************************)
(* WalkInv is an invariant of dump_all: at every step what is written is   *)
(* the part of the listing before the place of the walk, and the totals    *)
(* count it.                                                               *)
(***************************************************************************)
THEOREM WalkInvariant == Spec => []WalkInv
  BY InitWalkInv, NextWalkInv, PTL DEF Spec

(***************************************************************************)
(* mcounts[i] is in bounds in every type the walk enters.                  *)
(***************************************************************************)
THEOREM IndicesInRange == Spec => []IndexInRange
<1>1. WalkInv => IndexInRange
  <2> SUFFICES ASSUME WalkInv, wpc \notin {"type", "ok", "err"}
               PROVE  at \in DOMAIN indices /\ indices[at] \in DOMAIN counts
    BY DEF IndexInRange
  <2>1. at \in DOMAIN indices /\ indices[at] \in Types \cap DOMAIN records /\ mpc = "done"
    BY Inside
  <2>2. DOMAIN counts = Types
    BY <2>1, CountedMethods DEF WalkInv
  <2> QED
    BY <2>1, <2>2
<1> QED
  BY <1>1, WalkInvariant, PTL

-----------------------------------------------------------------------------
\* DumpSpec counts the lines of a kind as the invariant does.
LEMMA SameCardinality == \A S : Dump!Cardinality(S) = Cardinality(S)
  BY DEF Dump!Cardinality, Cardinality

\* Between the beginning and the end of the walk, only a line is visible.
LEMMA Unseen ==
  ASSUME Listing' = Listing, out' = out, {wpc, wpc'} \cap {"ok", "err"} = {}
  PROVE  UNCHANGED Dump!dumpVars
BY DEF Dump!dumpVars

\* The totals returned are those of the whole listing.
LEMMA ReturnCompletes ==
  ASSUME WalkInv, ReturnTotals
  PROVE  Dump!Complete
<1>1. /\ wpc = "type" /\ wpc' = "ok" /\ at \notin DOMAIN indices
      /\ UNCHANGED <<out, ntypes, nfields, nmethods>>
  BY DEF ReturnTotals, Walking
<1>2. LinesInv /\ TotalsInv /\ Listing' = Listing
  BY <1>1, StepEnds DEF WalkInv
<1>3. Dump!Lines = Written /\ Written \subseteq Listing
  <2>1. Dump!Lines = Written
    BY DEF Dump!Lines, Written
  <2>2. \A n \in DOMAIN out : out[n] \in Listing
    BY <1>2 DEF LinesInv
  <2> QED
    BY <2>1, <2>2 DEF Written
<1>4. Listing \subseteq Written
  <2>1. indices \in Seq(Nat)
    BY DEF WalkInv, InputInv
  <2>2. at = Len(indices) + 1
    BY <1>1, <2>1 DEF WalkInv, PlaceInv
  <2>3. \A m \in Listing : ~Due(m)
    BY <2>1, <2>2, LineTypes DEF WalkInv, Due
  <2> QED
    BY <1>2, <2>3 DEF LinesInv
<1>5. \A sec : {l \in Listing : l.sec = sec} = OfSec(sec)
  BY <1>3, <1>4 DEF OfSec
<1>6. /\ Dump!CountOf(1) = Cardinality(OfSec(1))
      /\ Dump!CountOf(3) = Cardinality(OfSec(3))
      /\ Dump!CountOf(5) = Cardinality(OfSec(5))
  BY <1>5, SameCardinality, Zenon DEF Dump!CountOf
<1>7. Cardinality(OfSec(1)) \in Nat
  BY <1>2, FS_CardinalityType DEF TotalsInv
<1>8. /\ ntypes = Dump!CountOf(1) /\ nfields = Dump!CountOf(3)
      /\ nmethods = Dump!CountOf(5)
  BY <1>1, <1>2, <1>6, <1>7 DEF TotalsInv
<1> QED
  BY <1>1, <1>2, <1>3, <1>4, <1>8 DEF Dump!Complete, Dump!Open, Dump!FieldLine, Dump!MethodLine

\* A write that fails is visible as such.
LEMMA WriteFailsFails ==
  ASSUME WalkInv, WriteFails
  PROVE  Dump!Fail
<1>1. wpc \notin {"ok", "err"} /\ wpc' = "err" /\ out' = out
  BY DEF WriteFails, Walking
<1>2. Listing' = Listing
  BY StepEnds
<1> QED
  BY <1>1, <1>2 DEF Dump!Fail

LEMMA MovesEmit ==
  ASSUME WalkInv, NEW l, Moves(l)
  PROVE  Dump!Emit
<1>1. LinesInv /\ InputsFixed /\ Writes(l) /\ {wpc, wpc'} \cap {"ok", "err"} = {}
  BY DEF WalkInv, Moves
<1> QED
  BY <1>1, WritesEmits

\* Every step of the walk is a step of DumpSpec, or none.
LEMMA NextImplements == WalkInv /\ [Next]_vars => [Dump!DumpNext]_(Dump!dumpVars)
<1> SUFFICES ASSUME WalkInv, [Next]_vars
             PROVE  [Dump!DumpNext]_(Dump!dumpVars)
  OBVIOUS
<1>1. CASE CountStep \/ ScanStep
  <2>1. wpc = "type"
    BY <1>1 DEF CountStep, ScanStep, WalkInv, PlaceInv
  <2> QED
    BY <1>1, <2>1, PassSteps, Unseen DEF walkVars
<1>2. CASE SkipType \/ EnterType \/ DecodeFields \/ DecodeMethods
  <2>1. Keeps
    BY <1>2, StepSkipType, StepEnterType, StepDecodeFields, StepDecodeMethods
  <2>2. {wpc, wpc'} \cap {"ok", "err"} = {}
    BY <1>2 DEF SkipType, EnterType, DecodeFields, DecodeMethods, Walking
  <2>3. Listing' = Listing /\ out' = out
    BY <2>1, InputsKept DEF Keeps
  <2> QED
    BY <2>2, <2>3, Unseen
<1>3. CASE WriteNamespace \/ WriteOpen \/ WriteFieldsHeading \/ WriteField
             \/ WriteMethodsHeading \/ WriteMethod \/ CloseType
  <2>1. \E l : Moves(l)
    BY <1>3, StepWriteNamespace, StepWriteOpen, StepWriteFieldsHeading, StepWriteField,
       StepWriteMethodsHeading, StepWriteMethod, StepCloseType
  <2> QED
    BY <2>1, MovesEmit DEF Dump!DumpNext
<1>4. CASE ReturnTotals
  BY <1>4, ReturnCompletes DEF Dump!DumpNext
<1>5. CASE WriteFails
  BY <1>5, WriteFailsFails DEF Dump!DumpNext
<1>6. CASE UNCHANGED vars
  <2>1. UNCHANGED <<records, rows, db, indices>>
        /\ UNCHANGED <<out, ntypes, nfields, nmethods, wpc>>
    BY <1>6 DEF vars, countsVars, scanVars, inputVars, walkVars
  <2>2. Listing' = Listing
    BY <2>1, ListingFixed
  <2> QED
    BY <2>1, <2>2 DEF Dump!dumpVars
<1> QED
  BY <1>1, <1>2, <1>3, <1>4, <1>5, <1>6 DEF Next

(***************************************************************************)
(* dump_all keeps the promise of DumpSpec for every metadata, every list   *)
(* of types and every bound: it writes the lines the metadata defines,     *)
(* each once and in order, and returns their numbers; an error leaves a    *)
(* beginning of them.                                                      *)
(***************************************************************************)
THEOREM WalkImplementsDump == Spec => ImplementsDump
<1>1. Init => Dump!DumpInit
  BY DEF Init, Dump!DumpInit
<1>2. Spec => Dump!Spec
  BY <1>1, NextImplements, WalkInvariant, PTL DEF Spec, Dump!Spec
<1> QED
  BY <1>2 DEF ImplementsDump
=============================================================================
