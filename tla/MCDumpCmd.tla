----------------------------- MODULE MCDumpCmd -----------------------------
(* A small instance of DumpCmd: up to three writes, each smaller than, as   *)
(* large as or larger than the buffer.                                      *)
EXTENDS DumpCmd
LOCAL INSTANCE Functions

MCOld == <<0>>

\* The ends of writes of the sizes s.
EndsOf(s) == [n \in DOMAIN s |-> FoldFunctionOnSet(+, 0, s, 1 .. n)]

MCDumps == {EndsOf(s) : s \in UNION {[1 .. n -> 1 .. 4] : n \in 0 .. 3}}
=============================================================================
