---------------------------- MODULE MCClassModel ----------------------------
(* Three records of three words: the first of any name, parent and flags,    *)
(* the second a root, Enum or a long name, the third one of four.  The table *)
(* begins before, at and behind the start of the body, and its last record   *)
(* may be cut off.  A zero for a name is A: so is a record outside the body. *)
EXTENDS ClassModel, MCData

MCTexts ==
  [n \in 0 .. 15 |->
    IF n < 8 THEN <<"Enum", "ValueType", "Object", "A", "Long", "", "B", "C">>[n + 1] ELSE "X"]

\* The numbers that decode to text n and to parent n.
N(n) == (n + 13) % 16
P(n) == (n + 14) % 16

TypeRecords(names, parents, flags) ==
  {<<N(n), P(p), f>> : n \in names, p \in parents, f \in flags}

MCClassBodies ==
  {FromZero(SubSeq(a \o b \o c, 1, l)) :
     a \in TypeRecords({0, 3, 4, 5}, {0, 2, 3, 4, 15}, {0, 1, 4, 6}),
     b \in TypeRecords({0, 1, 2, 4}, {0, 15}, {0}),
     c \in TypeRecords({1, 6}, {1, 15}, {6}),
     l \in {8, 9}}

\* Il2CppTypes of two words, the data before the kind, behind one of another
\* table: plain parents, in the table, behind it and outside of the body; a
\* generic one; and one that is cut off.
MCTypeArrays ==
  {FromZero(<<0, 1, k[1], 0, 18, 2, 21, k[2], 17>>) : k \in {<<17, 2>>, <<28, 3>>, <<17, 6>>}}

MCClassBases == {-4, -3, -2, 0, 1}
MCLists == {<<0, 1, 2>>, <<2, 0, 2, 3>>}
=============================================================================
