------------------------------ MODULE TypeName ------------------------------
(***************************************************************************)
(* type_name and generic_inst_name of src/typenames.rs, with short_name of *)
(* src/class_model.rs: the C# name of an Il2CppType in the image.          *)
(*                                                                         *)
(* Pointers and arrays refer to their element type by an address, so in a  *)
(* damaged image the types may form a cycle.  The recursion has one branch *)
(* at most; its stack is the suffixes still to be appended.                *)
(***************************************************************************)
EXTENDS Integers, Sequences, FiniteSets

CONSTANTS
  MAX_DEPTH,       \* 8
  TYPE_COUNT,      \* class_model::TYPE_COUNT
  Off,             \* the file offsets types and array structs may lie at
  Cells,           \* what may lie there
  ShortNames,      \* typeDefIndex |-> name, for the readable records
  ZeroName,        \* what name() makes of a record that reads as zeroes
  GenericClasses,  \* genericClasses: index |-> typeDefIndex
  GenericParams,   \* index |-> name in genericParameters, if readable
  Overflowing      \* the indices whose record has an address past usize::MAX

Unmapped == 0   \* va_to_image_off is None

(***************************************************************************)
(* The bytes at one offset: how many are readable, the kind byte at +0xA,  *)
(* where the address at +0 leads, the index at +0 and the rank byte at +8. *)
(* An offset can be read as a type and as an array struct.                 *)
(***************************************************************************)
Cell(room, kind, to, data, rank) ==
  [room |-> room, kind |-> kind, to |-> to, data |-> data, rank |-> rank]

\* The kinds that name no other type; "prim" stands for the primitive kinds.
LeafKinds == {"prim", "class", "var", "inst", "other"}

ASSUME TypeNameAssumption ==
  /\ MAX_DEPTH \in Nat /\ TYPE_COUNT \in Nat
  /\ Off \subseteq Nat \ {Unmapped}
  /\ \A c \in Cells :
       /\ c.to \in Off \union {Unmapped} /\ c.rank \in Nat
       /\ c.kind \in LeafKinds \union {"ptr", "szarray", "array"}

VARIABLES
  cell,     \* the image
  start,    \* the type to name
  tp,       \* the type being looked at
  depth,    \* the depth of the call
  stack,    \* the suffixes of the calls that wait for their element
  base,     \* the name returned so far: its first word
  suffixes, \* and its suffixes
  nchecked, \* whether the build checks sums for overflow
  npc       \* "call", "return"; "done" and "panic"

nameVars == <<cell, start, tp, depth, stack, base, suffixes, nchecked, npc>>

\* A name, and whether it ends in the arity of a generic type ("List`1").
Word(id) == [id |-> id, arity |-> FALSE]

Init ==
  /\ cell \in [Off -> Cells]
  /\ start \in Off
  /\ tp = start
  /\ depth = 0
  /\ stack = <<>>
  /\ base = Word("")
  /\ suffixes = <<>>
  /\ nchecked \in BOOLEAN
  /\ npc = "call"

-----------------------------------------------------------------------------
\* ClassModel::short_name; Word("") stands for None.
ShortName(t) ==
  IF t >= TYPE_COUNT THEN Word("")
  ELSE IF t \in DOMAIN ShortNames THEN ShortNames[t] ELSE ZeroName

OrElse(word, default) == IF word.id = "" THEN Word(default) ELSE word

\* CLASS, VALUETYPE: names that are C# keywords become them.
ClassName(t) ==
  LET n == OrElse(ShortName(t), "object")
  IN  IF n = Word("Object") THEN Word("object")
      ELSE IF n = Word("String") THEN Word("string")
      ELSE n

\* generic_inst_name: the arity is cut off, the arguments are left out.
InstanceName(data) ==
  IF data \in DOMAIN GenericClasses
    THEN Word(OrElse(ShortName(GenericClasses[data]), "object").id)
    ELSE Word("object")

\* VAR, MVAR; the index u32::MAX is "T" before any address is computed.
ParameterName(data) ==
  IF data \in DOMAIN GenericParams THEN OrElse(GenericParams[data], "T") ELSE Word("T")

\* dm.generic_params + 14 * data overflows: the base is negative as an i32.
\* (short_name adds to a base too; dump_all has done every sum of it before
\* it names a type, see ClassModel.)
ParameterPanics(c) == nchecked /\ c.kind = "var" /\ c.data \in Overflowing

LeafName(c) ==
  CASE c.kind = "prim"  -> Word("int")
    [] c.kind = "class" -> ClassName(c.data)
    [] c.kind = "var"   -> ParameterName(c.data)
    [] c.kind = "inst"  -> InstanceName(c.data)
    [] c.kind = "other" -> Word("object/*k*/")

Leaf(o)  == cell[o].kind \in LeafKinds
Array(o) == cell[o].kind = "array"

\* 0x14: data -> Il2CppArrayType { etype@0, rank@8 }; an etype that does not
\* map is replaced by the struct's own offset.
ArrayElement(at) ==
  IF at = Unmapped \/ cell[at].room < 9 THEN Unmapped
  ELSE IF cell[at].to # Unmapped THEN cell[at].to
  ELSE at

Element(o) == IF Array(o) THEN ArrayElement(cell[o].to) ELSE cell[o].to

\* "*" is 0, "[]" is 1, "[,]" is 2, ...
Suffix(o) ==
  CASE cell[o].kind = "ptr"     -> 0
    [] cell[o].kind = "szarray" -> 1
    [] Array(o) -> IF cell[cell[o].to].rank = 0 THEN 1 ELSE cell[cell[o].to].rank

TooDeep(d) == d > MAX_DEPTH

Readable(o) == cell[o].room >= 16

Answer(word, last) ==
  /\ base' = word
  /\ suffixes' = last
  /\ npc' = "return"
  /\ UNCHANGED <<cell, start, tp, depth, stack, nchecked>>

GiveUp ==
  /\ npc = "call"
  /\ TooDeep(depth) \/ ~Readable(tp)
  /\ Answer(Word("object"), <<>>)

NameLeaf ==
  /\ npc = "call"
  /\ ~TooDeep(depth) /\ Readable(tp)
  /\ Leaf(tp)
  /\ ~ParameterPanics(cell[tp])
  /\ Answer(LeafName(cell[tp]), <<>>)

PanicAtParameter ==
  /\ npc = "call"
  /\ ~TooDeep(depth) /\ Readable(tp)
  /\ ParameterPanics(cell[tp])
  /\ npc' = "panic"
  /\ UNCHANGED <<cell, start, tp, depth, stack, base, suffixes, nchecked>>

\* Mutant: the branch of arrays unwraps a pointer that does not map.
NoElementUnwrapped ==
  /\ npc = "call"
  /\ ~TooDeep(depth) /\ Readable(tp)
  /\ ~Leaf(tp) /\ Element(tp) = Unmapped
  /\ ~Array(tp)
  /\ Answer(Word("object"), <<Suffix(tp)>>)

\* The element type is not there: "object*", "object[]" or "Array".
NoElement ==
  /\ npc = "call"
  /\ ~TooDeep(depth) /\ Readable(tp)
  /\ ~Leaf(tp) /\ Element(tp) = Unmapped
  /\ IF Array(tp)
       THEN Answer(Word("Array"), <<>>)
       ELSE Answer(Word("object"), <<Suffix(tp)>>)

\* Mutant: the depth is not passed on.
SameDepth(d) == d

Deeper(d) == d + 1

Descend ==
  /\ npc = "call"
  /\ ~TooDeep(depth) /\ Readable(tp)
  /\ ~Leaf(tp) /\ Element(tp) # Unmapped
  /\ stack' = Append(stack, Suffix(tp))
  /\ tp' = Element(tp)
  /\ depth' = Deeper(depth)
  /\ UNCHANGED <<cell, start, base, suffixes, nchecked, npc>>

\* Mutant: the suffix goes before those of the element.
PutFirst(s, x) == <<x>> \o s

\* format!("{et}..."): the suffix goes after those of the element.
PutLast(s, x) == Append(s, x)

Wrap ==
  /\ npc = "return"
  /\ stack # <<>>
  /\ suffixes' = PutLast(suffixes, stack[Len(stack)])
  /\ stack' = SubSeq(stack, 1, Len(stack) - 1)
  /\ UNCHANGED <<cell, start, tp, depth, base, nchecked, npc>>

Return ==
  /\ npc = "return"
  /\ stack = <<>>
  /\ npc' = "done"
  /\ UNCHANGED <<cell, start, tp, depth, stack, base, suffixes, nchecked>>

Next ==
  \/ GiveUp
  \/ NameLeaf
  \/ PanicAtParameter
  \/ NoElement
  \/ Descend
  \/ Wrap
  \/ Return

\* A recursive function of one thread: it runs whenever it can.
Spec == Init /\ [][Next]_nameVars /\ WF_nameVars(Next)

-----------------------------------------------------------------------------
NameTypeOK ==
  /\ tp \in Off /\ start \in Off
  /\ Len(stack) \in 0 .. MAX_DEPTH + 1   \* the call stack of the program
  /\ \A n \in DOMAIN stack : stack[n] \in Nat
  /\ npc = "call" => Len(stack) = depth
  /\ npc \in {"return", "done"} => base.id # ""

(***************************************************************************)
(* The name a type should have: follow the elements from the start as far  *)
(* as they go, but MAX_DEPTH + 1 steps at most; the type arrived at gives  *)
(* the first word, the types passed give the suffixes, the last one first. *)
(***************************************************************************)
StepFrom(o) ==
  IF o = Unmapped \/ ~Readable(o) \/ Leaf(o) THEN Unmapped ELSE Element(o)

Passed[n \in 0 .. MAX_DEPTH + 1] ==
  IF n = 0 THEN start ELSE StepFrom(Passed[n - 1])

Steps == Cardinality({n \in 1 .. MAX_DEPTH + 1 : Passed[n] # Unmapped})

Arrived == Passed[Steps]

Broken == ~Leaf(Arrived) /\ Readable(Arrived) /\ Steps <= MAX_DEPTH

FirstWord ==
  IF Steps > MAX_DEPTH \/ ~Readable(Arrived) THEN Word("object")
  ELSE IF Leaf(Arrived) THEN LeafName(cell[Arrived])
  ELSE IF Array(Arrived) THEN Word("Array")
  ELSE Word("object")

PanicDue == Steps <= MAX_DEPTH /\ Readable(Arrived) /\ ParameterPanics(cell[Arrived])

(***************************************************************************)
(* type_name returns that name for every image, cyclic ones included: the  *)
(* suffixes come out in the right order and none is lost at the bound.     *)
(* Only at a generic parameter within that bound may it panic instead, and *)
(* in such a build it never names one whose address overflows.             *)
(***************************************************************************)
NameIsWhole ==
  /\ npc = "done" =>
       /\ ~PanicDue
       /\ base = FirstWord
       /\ suffixes =
            (IF Broken /\ ~Array(Arrived) THEN <<Suffix(Arrived)>> ELSE <<>>)
              \o [k \in 1 .. Steps |-> Suffix(Passed[Steps - k])]
  /\ npc = "panic" => PanicDue

\* The recursion ends, also on a cycle of types.
NamingEnds == <>(npc \in {"done", "panic"})

(***************************************************************************)
(* What the comment of ClassNames says, "caller strips the arity": no name *)
(* keeps it.  The CLASS and VALUETYPE branch of type_name does not strip.  *)
(***************************************************************************)
ArityStripped == npc = "done" => ~base.arity

(***************************************************************************)
(* What the comment of short_name says, "`None` if out of range /          *)
(* unreadable": a type whose record is unreadable has no name of its own.  *)
(* ClassModel's short_name does not look whether the record is readable.   *)
(***************************************************************************)
UnreadableHasNoName ==
  npc = "done" /\ Steps <= MAX_DEPTH /\ Readable(Arrived)
    /\ cell[Arrived].kind = "class"
    /\ cell[Arrived].data \notin DOMAIN ShortNames
    => base = Word("object")
=============================================================================
