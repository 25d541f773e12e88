----------------------------- MODULE MCDumpWalk -----------------------------
(* A small instance of DumpWalk: three types, methodStarts in and out of    *)
(* order, shared, missing and unreadable, fields that are readable or not,  *)
(* constant or not, and default tables that break off.                      *)
EXTENDS DumpWalk, MCData
LOCAL INSTANCE SequencesExt

MCSortDedup(S) == SetToSortSeq(S, <)

R(t, f, d) == [ti |-> t, fi |-> f, di |-> d]

MCRow == {R(0, 0, 0), R(0, 1, 1), R(1, 2, 0), R(1, 1, 2), R(-2, 3, 0)}

\* U32_MAX (6 here) marks a type without methods; a fourth record lies past
\* the end of the type table; in the last table the first record is not there.
MethodStarts ==
  {FromZero(m) : m \in {<<0, 2, 5>>, <<4, 1, 3>>, <<2, 2, 3>>, <<6, 0, 3>>, <<0, 1>>,
                        <<3, 1, 4, 2>>}}
    \union {[t \in 1 .. 2 |-> 2 * t]}

DefaultRows ==
  {<<>>,
   <<R(0, 0, 0), R(0, 1, 1), R(1, 2, 0)>>,
   <<R(0, 1, 1), R(1, 1, 2), R(1, 2, 0)>>,
   <<R(0, 0, 0), R(-2, 3, 0), R(0, 1, 1)>>}

Fields ==
  {[start |-> <<0, 1, 2>>, count |-> <<1, 2, 0>>, defs |-> 3],
   [start |-> <<-1, 0, 1>>, count |-> <<1, 1, 2>>, defs |-> 2]}

MCDatabases ==
  {[records |-> m, rows |-> FromZero(r), named |-> n,
    fieldStart |-> FromZero(f.start), fieldCount |-> FromZero(f.count),
    nFieldDefs |-> f.defs, nMethodDefs |-> d,
    consts |-> c, literals |-> {<<0, 0>>, <<0, 1>>, <<1, 0>>}] :
     m \in MethodStarts, r \in DefaultRows, f \in Fields,
     n \in {0 .. 3, {0, 2}}, d \in {2, 5}, c \in {{1, 2}, {0}}}

MCRequests == {<<0, 1, 2>>, <<2, 0, 2>>, <<3, 1>>, <<>>}
=============================================================================
