----------------------------- MODULE DecodeStr ------------------------------
(***************************************************************************)
(* decode_str and decode_at of src/decode_str.rs: from a packed index to   *)
(* the bytes of a string.  The key stream is abstracted to what matters of *)
(* it: a block can be read only with the key of that block of that string. *)
(***************************************************************************)
EXTENDS Memory, Sequences

CONSTANTS
  OFF_RANGE,    \* 2^24: an index is an offset and, above it, a length
  LEN_RANGE,    \* 2^8
  BLOCK,        \* 8, the length of a u64
  Garbled,      \* what a wrong key makes of a byte
  DecodeBodies  \* the bodies considered

NUL == 0

\* A byte of the body: char, written at place at of the string of offset off.
Byte(off, at, char) == [off |-> off, at |-> at, char |-> char]

ASSUME DecodeAssumption ==
  /\ {OFF_RANGE, LEN_RANGE, BLOCK} \subseteq Nat \ {0}
  /\ \A b \in DecodeBodies : IsBuffer(b)

VARIABLES
  dbody,   \* the bytes, a function from 0 .. len - 1
  strsec,  \* the string section: in the body, as header_validates made sure
  idx,     \* the packed index
  k, key,  \* the block, and how often the key has moved on
  buf,
  dpc      \* "start", "blocks", "nul", "done"

decodeVars == <<dbody, strsec, idx, k, key, buf, dpc>>

DecodeInit ==
  /\ dbody \in DecodeBodies
  /\ strsec \in DOMAIN dbody
  /\ idx \in 0 .. OFF_RANGE * LEN_RANGE - 1
  /\ k = 0 /\ key = 0
  /\ buf = <<>>
  /\ dpc = "start"

-----------------------------------------------------------------------------
NoIndex == idx = OFF_RANGE * LEN_RANGE - 1   \* 0xFFFF_FFFF
Off == idx % OFF_RANGE
Length == (idx \div OFF_RANGE) % LEN_RANGE

\* nq
Blocks(len) == (len + BLOCK - 1) \div BLOCK

Src == strsec + Off

\* Mutant: as many bytes as the string has, though whole blocks are read.
NeedsLength(len) == len

\* readable(src, nq * 8 + 8)
Needs(len) == Blocks(len) * BLOCK + BLOCK

NoString ==
  /\ dpc = "start"
  /\ NoIndex \/ ~Readable(dbody, Src, Needs(Length))
  /\ dpc' = "done"
  /\ UNCHANGED <<dbody, strsec, idx, k, key, buf>>

Seed ==
  /\ dpc = "start"
  /\ ~NoIndex /\ Readable(dbody, Src, Needs(Length))
  /\ dpc' = "blocks"
  /\ UNCHANGED <<dbody, strsec, idx, k, key, buf>>

\* Byte j of a block, with the key moved on n times.
Plain(b, n, j) == IF b.off = Off /\ b.at = n * BLOCK + j THEN b.char ELSE Garbled

\* enc ^ key, where an unreadable enc is zero.
DecodeBlock ==
  LET at  == Src + BLOCK * k
      enc == Readable(dbody, at, BLOCK)
  IN  /\ dpc = "blocks" /\ k < Blocks(Length)
      /\ buf' = buf \o [j \in 1 .. BLOCK |->
                          IF enc THEN Plain(dbody[at + j - 1], key, j - 1) ELSE Garbled]
      /\ k' = k + 1
      /\ key' = key + 1
      /\ UNCHANGED <<dbody, strsec, idx, dpc>>

\* truncate(len)
Cut(s) == IF Length < Len(s) THEN SubSeq(s, 1, Length) ELSE s

Truncate ==
  /\ dpc = "blocks" /\ k >= Blocks(Length)
  /\ buf' = Cut(buf)
  /\ dpc' = "nul"
  /\ UNCHANGED <<dbody, strsec, idx, k, key>>

Nuls == {n \in DOMAIN buf : buf[n] = NUL}

CutAtNul ==
  /\ dpc = "nul"
  /\ IF Nuls = {} THEN buf' = buf
     ELSE \E z \in Nuls :
            (\A n \in Nuls : z <= n) /\ buf' = SubSeq(buf, 1, z - 1)
  /\ dpc' = "done"
  /\ UNCHANGED <<dbody, strsec, idx, k, key>>

DecodeNext == NoString \/ Seed \/ DecodeBlock \/ Truncate \/ CutAtNul

DecodeSpec == DecodeInit /\ [][DecodeNext]_decodeVars

\* decode_at: None for an empty string.
DecodeAtIsNone == dpc = "done" /\ buf = <<>>

-----------------------------------------------------------------------------
DecodeTypeOK ==
  /\ k \in 0 .. Blocks(Length) /\ key = k
  /\ dpc \in {"start", "blocks"} => Len(buf) = k * BLOCK
  /\ dpc = "done" => Len(buf) <= Length

\* Character n of the string the index names, in a body that has it.
CharAt(n) == Plain(dbody[Src + n], n \div BLOCK, n % BLOCK)

(***************************************************************************)
(* The text of a string is what was written at its offset, up to its       *)
(* length or its first NUL, for every length and every neighbour; and a    *)
(* string is empty, never padded with zeroes or garbage, if the body ends  *)
(* less than a block behind it.  decode_at gives None in that case, and    *)
(* for a string that is there and empty.                                   *)
(***************************************************************************)
TextAsWritten ==
  dpc = "done" =>
    LET whole == ~NoIndex /\ Readable(dbody, Src, (Blocks(Length) + 1) * BLOCK)
        ends  == {n \in 0 .. Length : n = Length \/ CharAt(n) = NUL}
        end   == CHOOSE n \in ends : \A m \in ends : n <= m
    IN  /\ buf = IF whole THEN [n \in 1 .. end |-> CharAt(n - 1)] ELSE <<>>
        /\ DecodeAtIsNone <=> ~whole \/ end = 0
=============================================================================
