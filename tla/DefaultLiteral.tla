--------------------------- MODULE DefaultLiteral ---------------------------
(***************************************************************************)
(* dv_literal of src/default_values.rs: the default value of a constant,   *)
(* from the kind of its type and the bytes of the blob.  A float stands    *)
(* for its bits (FmtNet is about its text), a string for its bytes.        *)
(***************************************************************************)
EXTENDS Memory, Sequences

CONSTANTS
  BYTE,      \* 2^8
  MAX_LEN,   \* 0x10_0000, of a string, whose length is a u32
  Constants  \* the type image, typearr, the body, blob_base, ti and di

IsConstant(x) ==
  /\ IsBuffer(x.image) /\ IsBuffer(x.body)
  /\ \A o \in DOMAIN x.body : x.body[o] \in 0 .. BYTE - 1
  /\ x.typearr \in 0 .. LONGEST /\ x.blobBase \in Word32
  /\ {x.ti, x.di} \subseteq {AsI32(n) : n \in Word32}

ASSUME LiteralAssumption ==
  /\ BYTE \in Nat \ {0, 1} /\ MAX_LEN \in Nat
  /\ FitsUsize(TYPE_LEN)
  /\ \A x \in Constants : IsConstant(x)

VARIABLES
  in,       \* the arguments
  literal,  \* the result: [kind, value]
  len,      \* the length of the string that is being read
  vpc       \* "type", "value", "bytes"; "some" and "none"

literalVars == <<in, literal, len, vpc>>

NoLiteral == [kind |-> 0, value |-> <<>>]

LiteralInit ==
  /\ in \in Constants
  /\ literal = NoLiteral
  /\ len = 0
  /\ vpc = "type"

-----------------------------------------------------------------------------
\* The kinds of fixed width, by width; the signed ones, and the string.
Bytes1 == {2, 4, 5}
Bytes2 == {3, 6, 7}
Bytes4 == {8, 9, 12}
Bytes8 == {10, 11, 13}
SignedKinds == {4, 6, 8, 10}
BOOL == 2
STR == 14

Fixed == Bytes1 \union Bytes2 \union Bytes4 \union Bytes8
Width(kind) ==
  IF kind \in Bytes1 THEN 1 ELSE IF kind \in Bytes2 THEN 2 ELSE IF kind \in Bytes4 THEN 4 ELSE 8

\* BYTE ^ n, and a little-endian number of n bytes.
Weight[n \in Nat] == IF n = 0 THEN 1 ELSE BYTE * Weight[n - 1]

Number(off, n) ==
  LET sum[k \in Nat] ==
        IF k = 0 THEN 0 ELSE sum[k - 1] + Weight[k - 1] * ReadAt(in.body, off + k - 1, 1)
  IN  sum[n]

\* Mutant: the sign is taken from the byte, not from the value.
SignOfByte(v, n) == IF v >= BYTE \div 2 THEN v - Weight[n] ELSE v

AsSigned(v, n) == IF 2 * v >= Weight[n] THEN v - Weight[n] ELSE v

TypeRecord == Entry(in.typearr, TYPE_LEN, AsUsize(in.ti))
ValueKind == in.image[TypeRecord + KIND_AT]
ValueAt == Entry(in.blobBase, 1, AsUsize(in.di))

Rd(n) == Readable(in.body, ValueAt, n)

\* Mutant: -1 is not recognised as no default.
HasTypeRecord == Readable(in.image, TypeRecord, TYPE_LEN)

HasType == in.ti >= 0 /\ in.di >= 0 /\ Readable(in.image, TypeRecord, TYPE_LEN)

ReadType ==
  /\ vpc = "type"
  /\ vpc' = IF HasType THEN "value" ELSE "none"
  /\ UNCHANGED <<in, literal, len>>

Value(kind) ==
  LET v == Number(ValueAt, Width(kind))
  IN  CASE kind = BOOL           -> IF v # 0 THEN 1 ELSE 0
        [] kind \in SignedKinds  -> AsSigned(v, Width(kind))
        [] OTHER                 -> v

ReadNumber ==
  /\ vpc = "value" /\ ValueKind \in Fixed /\ Rd(Width(ValueKind))
  /\ literal' = [kind |-> ValueKind, value |-> Value(ValueKind)]
  /\ vpc' = "some"
  /\ UNCHANGED <<in, len>>

StringFits ==
  /\ Number(ValueAt, WORD) <= MAX_LEN
  /\ Readable(in.body, ValueAt + WORD, Number(ValueAt, WORD))

ReadLength ==
  /\ vpc = "value" /\ ValueKind = STR /\ Rd(WORD) /\ StringFits
  /\ len' = Number(ValueAt, WORD)
  /\ literal' = [kind |-> STR, value |-> <<>>]
  /\ vpc' = "bytes"
  /\ UNCHANGED in

ReadByte ==
  LET n == Len(literal.value)
  IN  /\ vpc = "bytes" /\ n < len
      /\ literal' = [literal EXCEPT !.value = Append(@, in.body[ValueAt + WORD + n])]
      /\ UNCHANGED <<in, len, vpc>>

FinishString ==
  /\ vpc = "bytes" /\ Len(literal.value) = len
  /\ vpc' = "some"
  /\ UNCHANGED <<in, literal, len>>

\* rd! or the length gives up, or the kind has no literal.
GiveUp ==
  /\ vpc = "value"
  /\ IF ValueKind = STR THEN ~(Rd(WORD) /\ StringFits)
     ELSE ValueKind \in Fixed => ~Rd(Width(ValueKind))
  /\ vpc' = "none"
  /\ UNCHANGED <<in, literal, len>>

LiteralNext ==
  \/ ReadType
  \/ ReadNumber
  \/ ReadLength
  \/ ReadByte
  \/ FinishString
  \/ GiveUp

LiteralSpec == LiteralInit /\ [][LiteralNext]_literalVars

-----------------------------------------------------------------------------
(***************************************************************************)
(* The bytes a literal stands for: the way back.                           *)
(***************************************************************************)
Encoding(v, n) == [k \in 1 .. n |-> (v \div Weight[k - 1]) % BYTE]

Encoded(lit) ==
  IF lit.kind = STR THEN Encoding(Len(lit.value), WORD) \o lit.value
  ELSE Encoding(lit.value % Weight[Width(lit.kind)], Width(lit.kind))

InBlob(s) ==
  LET at == in.blobBase + in.di
  IN  /\ at + Len(s) <= SizeOf(in.body)
      /\ \A k \in DOMAIN s : s[k] = in.body[at + k - 1]

OfItsType(lit) ==
  LET max == Weight[Width(lit.kind)]
  IN  IF lit.kind \in SignedKinds THEN 2 * lit.value \in -max .. max - 1
      ELSE lit.value \in 0 .. max - 1

(***************************************************************************)
(* A literal that is written says what the blob holds: encoded as a value  *)
(* of its type it gives the bytes at the data index, all of them inside    *)
(* the body, none zero-filled; a signed one is in the range of its type.   *)
(***************************************************************************)
LiteralIsTheBytes ==
  vpc = "some" =>
    /\ literal.kind # STR => OfItsType(literal)
    /\ IF literal.kind = BOOL
         THEN (literal.value = 0) = InBlob(<<0>>)
         ELSE InBlob(Encoded(literal))

(***************************************************************************)
(* There is a literal exactly if the constant has a default (-1 is none)   *)
(* of a type that has literals, all of whose bytes are in the body; a text *)
(* of more than 0x10_0000 bytes has none.                                  *)
(***************************************************************************)
HasDefault ==
  LET at   == in.blobBase + in.di
      kind == in.image[in.typearr + TYPE_LEN * in.ti + KIND_AT]
      size == SizeOf(in.body) - at
      text == Number(at, WORD)
  IN  /\ in.ti >= 0 /\ in.di >= 0
      /\ in.typearr + TYPE_LEN * (in.ti + 1) <= SizeOf(in.image)
      /\ IF kind = STR
           THEN size >= WORD /\ text <= MAX_LEN /\ size >= WORD + text
           ELSE kind \in Fixed /\ size >= Width(kind)

NoneIfAbsent == vpc \in {"some", "none"} => (vpc = "some" <=> HasDefault)
=============================================================================
