------------------------------ MODULE MCRecords ------------------------------
(* What is read from the decrypted body: the bases of its tables, its        *)
(* strings, and the types with their fields and methods.  The five read the  *)
(* same bytes and share nothing they write, so a behaviour is about one part *)
(* and the others do not begin: every interleaving would show the same.      *)
EXTENDS MCParts, MCClassModel, FieldTable, MethodTable, TableBases, DecodeStr

recordVars == <<part, classVars, fieldVars, methodVars, baseVars, decodeVars>>

\* Bodies of 5 to 16 words, a word standing for a byte too, an index at 0,
\* rows from 0 or 3 on, and tables anywhere in the body, before it, or across
\* its end; 14 and 15 are -2 and -1 as an i32.
MCFieldBodies ==
  UNION {{[o \in 0 .. n - 1 |-> IF o = 0 THEN v ELSE IF o < 6 THEN s ELSE o % 8] :
            v \in {0, 1, 2, 14, 15}, s \in {0, 1, 5}} : n \in {5, 8, 12, 16}}

MCFieldInputs ==
  [fieldDefs : {-4, -1, 0, 6, 14}, fieldOffs : {-3, 0, 8}, tableB : {0, 3},
   rows : {0, 3}, tdi : {0, 4}, fieldStart : {-1, 0, 2}, fieldCount : {0, 3}]

\* Four method records of three words and up to four parameters behind them,
\* cut off at several places; parameters that begin anywhere, at the last u32
\* as well; an image of three method pointers and two types.
MCMethodBodies ==
  {FromZero(SubSeq(<<0, 0, 1>> \o a \o b \o <<0, 0, 0, 0>>, 1, l)) :
    a \in {<<p, r, c>> : p \in {0, 2, 15}, r \in {0, 1, 2, 3}, c \in 0 .. 3},
    b \in {<<3, 0, c>> : c \in {0, 2}},
    l \in {5, 9, 11, 13}}

MCMethodImages ==
  {FromZero(<<a, 9, b, 0, 0, 0, 0>>) : a \in {0, 9, 10}, b \in {0, 12, 13, 127}}

MethodInput(m, p, t) ==
  [methodDefs |-> m, params |-> p, typearr |-> 2, methodptrs |-> 0,
   start |-> t[1], count |-> t[2], imageBase |-> 9]

MCMethodInputs ==
  {MethodInput(b[1], b[2], t) :
     b \in {<<0, 9>>, <<-3, 9>>, <<-2, 6>>, <<0, -2>>},
     t \in {<<0, 3>>, <<1, 2>>, <<12, 2>>, <<0, 0>>, <<0, 4>>, <<15, 0>>}}

\* Two tables of each kind: words that give bases far below zero, around zero,
\* around the end of the body and far beyond it.
MCBias == [t \in {"strings", "params"} |-> IF t = "strings" THEN 3 ELSE 5]

MCOrder == <<"strings", "params", "table_b", "blob">>

MCWords ==
  [t \in {"strings", "params", "table_b", "blob"} |->
    CASE t = "strings" -> {-8, 2, 3, 4, 7}
      [] t = "params"  -> {-8, -7, 4, 5, 7}
      [] OTHER         -> {0, 3, 4, 5, 15}]

\* A string of one, two or three blocks at offset 0 of the section, which
\* begins at byte s, and another one at offset b.
Bytes(m, s, b) ==
  {[p \in 0 .. m - 1 |->
      IF p - s < b THEN Byte(0, p - s, c[p]) ELSE Byte(b, p - s - b, c[p])] :
     c \in [0 .. m - 1 -> {NUL, 1}]}

MCDecodeBodies == UNION {Bytes(m, s, b) : m \in {5, 8}, s \in {0, 1}, b \in {2, 4}}

-----------------------------------------------------------------------------
ClassIdle ==
  /\ cbody = One(ClassBodies) /\ cimage = One(TypeArrays) /\ cbase = 0
  /\ cchecked = TRUE /\ list = One(Lists)
  /\ ClassInit
FieldIdle == fbody = One(FieldBodies) /\ fin = One(FieldInputs) /\ fchecked = TRUE /\ FieldInit
MethodIdle ==
  /\ mbody = One(MethodBodies) /\ mimage = One(MethodImages) /\ minp = One(MethodInputs)
  /\ mchecked = TRUE
  /\ MethodInit
BasesIdle == word = One(AnyWords) /\ bodyLen = One(BodyLens) /\ BasesInit
DecodeIdle == dbody = One(DecodeBodies) /\ strsec = 0 /\ idx = 0 /\ DecodeInit

RecordsInit ==
  \/ part = "class"  /\ FieldIdle /\ MethodIdle /\ BasesIdle /\ DecodeIdle /\ ClassInit
  \/ part = "field"  /\ ClassIdle /\ MethodIdle /\ BasesIdle /\ DecodeIdle /\ FieldInit
  \/ part = "method" /\ ClassIdle /\ FieldIdle /\ BasesIdle /\ DecodeIdle /\ MethodInit
  \/ part = "bases"  /\ ClassIdle /\ FieldIdle /\ MethodIdle /\ DecodeIdle /\ BasesInit
  \/ part = "decode" /\ ClassIdle /\ FieldIdle /\ MethodIdle /\ BasesIdle /\ DecodeInit

RecordsNext ==
  /\ part' = part
  /\ \/ /\ part = "class" /\ ClassNext
        /\ UNCHANGED <<fieldVars, methodVars, baseVars, decodeVars>>
     \/ /\ part = "field" /\ FieldNext
        /\ UNCHANGED <<classVars, methodVars, baseVars, decodeVars>>
     \/ /\ part = "method" /\ MethodNext
        /\ UNCHANGED <<classVars, fieldVars, baseVars, decodeVars>>
     \/ /\ part = "bases" /\ BasesNext
        /\ UNCHANGED <<classVars, fieldVars, methodVars, decodeVars>>
     \/ /\ part = "decode" /\ DecodeNext
        /\ UNCHANGED <<classVars, fieldVars, methodVars, baseVars>>

RecordsSpec == RecordsInit /\ [][RecordsNext]_recordVars

-----------------------------------------------------------------------------
\* The type invariants of the parts: none reports more records than it read.
RecordsTypeOK == ClassTypeOK /\ FieldTypeOK /\ MethodTypeOK /\ DecodeTypeOK
=============================================================================
