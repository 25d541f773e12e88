------------------------------- MODULE FmtNet -------------------------------
(***************************************************************************)
(* fmt_net of src/default_values.rs: a float as .NET writes it, from the   *)
(* sign, the digits and the exponent of format!("{:e}"), which rounds to   *)
(* SIG digits.  A digit is a number, any other character a negative one.   *)
(***************************************************************************)
EXTENDS Integers, Sequences

CONSTANTS
  TEN,      \* the base of the digits
  SIG,      \* 7 for a float, 15 for a double
  MIN_EXP,  \* -4, the least exponent written out
  Exps      \* the exponents considered

ASSUME FmtNetAssumption ==
  /\ TEN \in Nat \ {0, 1} /\ SIG \in Nat \ {0}
  /\ MIN_EXP \in Int /\ MIN_EXP <= 0
  /\ Exps \subseteq 1 - TEN * TEN * TEN .. TEN * TEN * TEN - 1

VARIABLES
  class,          \* "nan", "infinite", "zero" or "normal"
  neg,            \* v < 0.0
  mantissa, exp,  \* SIG digits, the first before the point, and the exponent
  text            \* the result

fmtVars == <<class, neg, mantissa, exp, text>>

Digit == 0 .. TEN - 1

FmtInit ==
  /\ class \in {"nan", "infinite", "zero", "normal"} /\ neg \in BOOLEAN
  /\ mantissa \in [1 .. SIG -> Digit] /\ mantissa[1] # 0
  /\ exp \in Exps
  /\ text = <<>>

-----------------------------------------------------------------------------
Minus == -1
Plus == -2
Dot == -3
E == -4
NaN == -5
Infinity == -6

Zeros(n) == [k \in 1 .. n |-> 0]

\* trim_end_matches('0')
Digits ==
  LET used == {k \in 1 .. SIG : mantissa[k] # 0}
  IN  SubSeq(mantissa, 1, CHOOSE k \in used : \A j \in used : j <= k)

\* format!("{:02}", exp.abs())
Abs(n) == IF n < 0 THEN -n ELSE n
AtLeastTwo(n) ==
  (IF n < TEN * TEN THEN <<>> ELSE <<n \div (TEN * TEN)>>) \o <<(n \div TEN) % TEN, n % TEN>>

Scientific ==
  <<Digits[1]>> \o (IF Len(Digits) > 1 THEN <<Dot>> \o Tail(Digits) ELSE <<>>)
  \o (<<E, IF exp < 0 THEN Minus ELSE Plus>> \o AtLeastTwo(Abs(exp)))

Integral ==
  LET ip == exp + 1
  IN  IF Len(Digits) <= ip THEN Digits \o Zeros(ip - Len(Digits))
      ELSE SubSeq(Digits, 1, ip) \o (<<Dot>> \o SubSeq(Digits, ip + 1, Len(Digits)))

\* Mutant: as many zeros as the exponent says.
FractionalByExp == <<0>> \o (<<Dot>> \o (Zeros(-exp) \o Digits))

Fractional == <<0>> \o (<<Dot>> \o (Zeros(-exp - 1) \o Digits))

\* Mutant: the digits are written out one place too far.
WithinOneMore == exp < MIN_EXP \/ exp > SIG

IsScientific == exp < MIN_EXP \/ exp >= SIG

Layout ==
  (IF neg THEN <<Minus>> ELSE <<>>)
  \o (IF IsScientific THEN Scientific ELSE IF exp >= 0 THEN Integral ELSE Fractional)

Format ==
  /\ text = <<>>
  /\ text' =
       CASE class = "nan"      -> <<NaN>>
         [] class = "infinite" -> IF neg THEN <<Minus, Infinity>> ELSE <<Infinity>>
         [] class = "zero"     -> <<0>>
         [] class = "normal"   -> Layout
  /\ UNCHANGED <<class, neg, mantissa, exp>>

FmtNext == Format

FmtSpec == FmtInit /\ [][FmtNext]_fmtVars

-----------------------------------------------------------------------------
(***************************************************************************)
(* Reading a text: its sign, the digits of it, how many of them are behind *)
(* the point, and the exponent.                                            *)
(***************************************************************************)
Where(c) == {k \in DOMAIN text : text[k] = c}

Num(s) ==
  LET num[k \in 0 .. Len(s)] == IF k = 0 THEN 0 ELSE num[k - 1] * TEN + s[k]
  IN  num[Len(s)]

Power[n \in Nat] == IF n = 0 THEN 1 ELSE TEN * Power[n - 1]

IsMinus == text[1] = Minus
Start == IF IsMinus THEN 2 ELSE 1
End == IF Where(E) = {} THEN Len(text) ELSE (CHOOSE k \in Where(E) : TRUE) - 1
Point == IF Where(Dot) = {} THEN End ELSE CHOOSE k \in Where(Dot) : TRUE
Written ==
  IF Where(Dot) = {} THEN SubSeq(text, Start, End)
  ELSE SubSeq(text, Start, Point - 1) \o SubSeq(text, Point + 1, End)
Decimals == End - Point
Whole == Len(Written) - Decimals
Exponent ==
  IF End = Len(text) THEN 0
  ELSE LET n == Num(SubSeq(text, End + 3, Len(text)))
       IN  IF text[End + 2] = Minus THEN -n ELSE n

\* How many of mantissa's digits are left out behind the last one written.
LeftOut == (Exponent - Decimals) - (exp - (SIG - 1))

Formatted == class = "normal" /\ text # <<>>

(***************************************************************************)
(* The text of a number reads back as the number: its sign, its digits and *)
(* its exponent, whichever of the three layouts was chosen; and no digit   *)
(* is written below the last of the SIG.                                   *)
(***************************************************************************)
ReadsBack ==
  Formatted =>
    /\ IsMinus = neg
    /\ LeftOut \in Nat
    /\ Num(Written) * Power[LeftOut] = Num(mantissa)

(***************************************************************************)
(* There is one text for a number: no zero ends the digits behind a point, *)
(* none begins a number but the one before a point, and a text in full has *)
(* no more than SIG digits before the point or MIN_EXP zeros behind it.    *)
(***************************************************************************)
OneText ==
  Formatted =>
    /\ Where(Dot) # {} => Decimals > 0 /\ text[End] # 0
    /\ text[Start] = 0 => Whole = 1 /\ Decimals > 0
    /\ Whole <= SIG /\ Len(Written) <= SIG - MIN_EXP
    /\ End < Len(text) => Whole = 1 /\ text[Start] # 0
=============================================================================
