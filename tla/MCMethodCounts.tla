--------------------------- MODULE MCMethodCounts ---------------------------
(* Model-checking instance of MethodCounts: every table over a small index. *)
EXTENDS MethodCounts

LOCAL INSTANCE SequencesExt

MCSortDedup(S) == SetToSortSeq(S, LAMBDA x, y : x < y)
=============================================================================
