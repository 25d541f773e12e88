----------------------------- MODULE MCTypeName -----------------------------
(* A small instance of TypeName: every image of three offsets, so chains,   *)
(* cycles, array structs read as types and types that run off the file.     *)
EXTENDS TypeName, TLC

Targets == Off \union {Unmapped}

MCCells ==
  {Cell(16, "prim", Unmapped, 0, 0), Cell(16, "other", Unmapped, 0, 0)}
    \union {Cell(16, "class", Unmapped, t, 2) : t \in 0 .. 3}
    \union {Cell(16, "var", Unmapped, p, 0) : p \in 0 .. 2}
    \union {Cell(16, "inst", Unmapped, 1, 0)}
    \union {Cell(16, k, o, 0, 2) : k \in {"ptr", "szarray"}, o \in Targets}
    \union {Cell(16, "array", o, 0, 0) : o \in Targets}
    \union {Cell(9, "prim", o, 0, 3) : o \in {Unmapped, 1}}
    \union {Cell(8, "prim", 2, 0, 0)}

\* Record 2 is unreadable, index 3 is past the type table.
MCShortNames ==
  (0 :> Word("Object")) @@ (1 :> [id |-> "List", arity |-> TRUE])

MCZeroName == Word("whatever")

MCGenericClasses == (0 :> 0) @@ (1 :> 1)

\* A negative table base: record 0 lies at the end of the address space and
\* is unreadable, the address of record 1 overflows, and 2 stands for u32::MAX.
MCGenericParams == 1 :> Word("TKey")
=============================================================================
