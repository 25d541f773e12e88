------------------------------- MODULE MCParts ------------------------------
(* Instances of several parts that share nothing they write: a behaviour is  *)
(* about one of them and the others do not begin, as every interleaving of   *)
(* their steps would show the same.                                          *)
EXTENDS MCData

VARIABLE part   \* the one this behaviour is about
=============================================================================
