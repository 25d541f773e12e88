------------------------------- MODULE MCData -------------------------------
(* What the instances for model checking write their inputs with.            *)
EXTENDS Integers, Sequences

\* A table or a body of bytes: the members of a sequence at offsets from 0.
FromZero(s) == [o \in 0 .. Len(s) - 1 |-> s[o + 1]]

\* The input of a part that does not begin.
One(S) == CHOOSE x \in S : TRUE
=============================================================================
