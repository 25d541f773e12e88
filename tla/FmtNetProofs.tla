---------------------------- MODULE FmtNetProofs ----------------------------
(* Proofs about fmt_net, which writes the floats among the default values,   *)
(* for every number and every bound; and that each of the passes before the  *)
(* walk behaves in their composition as it does alone.                       *)
EXTENDS MCTables, NaturalLemmas, SequenceTheorems

-----------------------------------------------------------------------------
(***************************************************************************)
(* The text of a float.  The powers of the base, and what a text of digits *)
(* reads as.                                                               *)
(***************************************************************************)
LEMMA Bases ==
  /\ TEN \in Nat /\ TEN > 1 /\ SIG \in Nat /\ SIG > 0
  /\ MIN_EXP \in Int /\ MIN_EXP <= 0
  /\ Exps \subseteq 1 - TEN * TEN * TEN .. TEN * TEN * TEN - 1
BY FmtNetAssumption

IsPower(f) == f = [n \in Nat |-> IF n = 0 THEN 1 ELSE TEN * f[n - 1]]

LEMMA PowerChosen == Power = CHOOSE f : IsPower(f)
  BY DEF Power, IsPower

LEMMA PowerIs == IsPower(Power)
<1> DEFINE step == [p \in Nat \X Nat |-> TEN * p[2]]
<1>1. step \in [Nat \X Nat -> Nat]
  BY Bases
<1>2. \A l \in Nat, v \in Nat : step[<<l, v>>] = TEN * v
  OBVIOUS
<1> HIDE DEF step
<1>3. PICK f : IsIteration(f, Nat, 1, step)
  BY <1>1, IterationExists
<1>4. f \in [Nat -> Nat] /\ f[0] = 1 /\ \A l \in Nat : f[l + 1] = step[<<l, f[l]>>]
  BY <1>3 DEF IsIteration
<1>5. ASSUME NEW n \in Nat
      PROVE  f[n] = IF n = 0 THEN 1 ELSE TEN * f[n - 1]
  <2>1. CASE n # 0
    <3>1. n - 1 \in Nat /\ n - 1 + 1 = n
      BY <2>1
    <3>2. f[n] = step[<<n - 1, f[n - 1]>>] /\ f[n - 1] \in Nat
      BY <1>4, <3>1
    <3> QED
      BY <1>2, <2>1, <3>1, <3>2
  <2> QED
    BY <1>4, <2>1
<1>6. IsPower(f)
  BY <1>4, <1>5 DEF IsPower
<1> QED
  BY <1>6, PowerChosen

LEMMA PowerSteps ==
  /\ Power[0] = 1
  /\ \A n \in Nat : Power[n + 1] = TEN * Power[n]
<1>1. \A n \in Nat : Power[n] = IF n = 0 THEN 1 ELSE TEN * Power[n - 1]
  BY PowerIs DEF IsPower
<1>2. ASSUME NEW n \in Nat
      PROVE  Power[n + 1] = TEN * Power[n]
  <2>1. n + 1 \in Nat /\ n + 1 # 0 /\ n + 1 - 1 = n
    OBVIOUS
  <2> QED
    BY <1>1, <2>1
<1> QED
  BY <1>1, <1>2

LEMMA PowerNatural == \A n \in Nat : Power[n] \in Nat
<1> DEFINE T == {n \in Nat : Power[n] \in Nat}
<1>1. 0 \in T
  BY PowerSteps
<1>2. ASSUME NEW n \in Nat, n \in T
      PROVE  n + 1 \in T
  BY <1>2, PowerSteps, Bases
<1>3. Nat \subseteq T
  BY <1>1, <1>2, SetInduction
<1> QED
  BY <1>3

\* f holds what the first k elements of s read as.
Reads(s, f) ==
  /\ f \in [0 .. Len(s) -> Int] /\ f[0] = 0
  /\ \A k \in 0 .. Len(s) - 1 : f[k + 1] = f[k] * TEN + s[k + 1]

IsReading(s, f) ==
  f = [k \in 0 .. Len(s) |-> IF k = 0 THEN 0 ELSE f[k - 1] * TEN + s[k]]

LEMMA NumChosen ==
  ASSUME NEW s
  PROVE  Num(s) = (CHOOSE f : IsReading(s, f))[Len(s)]
BY DEF Num, IsReading

LEMMA ReadingExists ==
  ASSUME NEW s \in Seq(Int)
  PROVE  \E f : IsReading(s, f)
<1> DEFINE n == Len(s)
           digit(k) == IF k \in 1 .. n THEN s[k] ELSE 0
           step == [p \in Nat \X Int |-> p[2] * TEN + digit(p[1] + 1)]
<1>1. n \in Nat /\ \A k \in 1 .. n : s[k] \in Int
  OBVIOUS
<1>2. \A k : digit(k) \in Int
  BY <1>1
<1> HIDE DEF digit
<1>3. step \in [Nat \X Int -> Int]
  BY <1>2, Bases
<1>4. \A l \in Nat, v \in Int : step[<<l, v>>] = v * TEN + digit(l + 1)
  OBVIOUS
<1> HIDE DEF step
<1>5. PICK g : IsIteration(g, Int, 0, step)
  <2>1. 0 \in Int
    OBVIOUS
  <2> QED
    BY <1>3, <2>1, IterationExists, Zenon
<1>6. g \in [Nat -> Int] /\ g[0] = 0 /\ \A l \in Nat : g[l + 1] = step[<<l, g[l]>>]
  BY <1>5 DEF IsIteration
<1> DEFINE f == [k \in 0 .. n |-> g[k]]
<1>7. ASSUME NEW k \in 0 .. n
      PROVE  f[k] = IF k = 0 THEN 0 ELSE f[k - 1] * TEN + s[k]
  <2>1. CASE k # 0
    <3>1. k - 1 \in Nat /\ k - 1 + 1 = k /\ k - 1 \in 0 .. n /\ k \in 1 .. n
      BY <1>1, <2>1
    <3>2. g[k] = step[<<k - 1, g[k - 1]>>] /\ g[k - 1] \in Int
      BY <1>6, <3>1
    <3>3. g[k] = g[k - 1] * TEN + digit(k)
      BY <1>4, <3>1, <3>2
    <3>4. digit(k) = s[k]
      BY <3>1 DEF digit
    <3>5. f[k] = g[k] /\ f[k - 1] = g[k - 1]
      BY <3>1
    <3> QED
      BY <2>1, <3>3, <3>4, <3>5
  <2>2. CASE k = 0
    BY <1>1, <1>6, <2>2
  <2> QED
    BY <2>1, <2>2
<1>8. IsReading(s, f)
  BY <1>7 DEF IsReading
<1> QED
  BY <1>8

LEMMA NumReads ==
  ASSUME NEW s \in Seq(Int)
  PROVE  \E f : Reads(s, f) /\ Num(s) = f[Len(s)]
<1> DEFINE f == CHOOSE g : IsReading(s, g)
           n == Len(s)
<1>1. n \in Nat /\ \A k \in 1 .. n : s[k] \in Int
  OBVIOUS
<1>2. IsReading(s, f)
  BY ReadingExists
<1>3. Num(s) = f[n]
  BY NumChosen
<1> HIDE DEF f
<1>4. \A k \in 0 .. n : f[k] = IF k = 0 THEN 0 ELSE f[k - 1] * TEN + s[k]
  BY <1>2 DEF IsReading
<1>5. DOMAIN f = 0 .. n /\ f = [k \in 0 .. n |-> f[k]]
  BY <1>2 DEF IsReading
<1>6. f[0] = 0
  BY <1>1, <1>4
<1> HIDE DEF n
<1>7. ASSUME NEW k \in 0 .. n - 1
      PROVE  f[k + 1] = f[k] * TEN + s[k + 1]
  <2>1. k + 1 \in 0 .. n /\ k + 1 # 0 /\ k + 1 - 1 = k
    BY <1>1
  <2> QED
    BY <1>4, <2>1
<1> DEFINE T == {k \in Nat : k <= n => f[k] \in Int}
<1>8. 0 \in T
  BY <1>6
<1>9. ASSUME NEW k \in Nat, k \in T
      PROVE  k + 1 \in T
  <2>1. CASE k + 1 <= n
    <3>1. k \in 0 .. n - 1 /\ k + 1 \in 1 .. n
      BY <1>1, <2>1
    <3>2. f[k] \in Int /\ s[k + 1] \in Int
      BY <1>1, <1>9, <3>1
    <3> QED
      BY <1>7, <3>1, <3>2, Bases
  <2> QED
    BY <2>1
<1>10. Nat \subseteq T
  BY <1>8, <1>9, SetInduction
<1>11. f \in [0 .. n -> Int]
  BY <1>1, <1>5, <1>10
<1> QED
  BY <1>3, <1>6, <1>7, <1>11 DEF Reads, n

LEMMA ReadsOnce ==
  ASSUME NEW s \in Seq(Int), NEW f, NEW g, Reads(s, f), Reads(s, g)
  PROVE  f[Len(s)] = g[Len(s)]
<1> DEFINE n == Len(s)
           T == {k \in Nat : k <= n => f[k] = g[k]}
<1>1. n \in Nat
  OBVIOUS
<1>2. 0 \in T
  BY DEF Reads
<1>3. ASSUME NEW k \in Nat, k \in T
      PROVE  k + 1 \in T
  <2>1. CASE k + 1 <= n
    <3>1. k \in 0 .. n - 1
      BY <1>1, <2>1
    <3>2. f[k] = g[k]
      BY <1>1, <1>3, <3>1
    <3> QED
      BY <3>1, <3>2 DEF Reads
  <2> QED
    BY <2>1
<1>4. Nat \subseteq T
  BY <1>2, <1>3, SetInduction
<1> QED
  BY <1>1, <1>4

LEMMA NumOf ==
  ASSUME NEW s \in Seq(Int), NEW f, Reads(s, f)
  PROVE  Num(s) = f[Len(s)] /\ Num(s) \in Int
<1>1. PICK g : Reads(s, g) /\ Num(s) = g[Len(s)]
  BY NumReads
<1>2. g[Len(s)] = f[Len(s)]
  BY <1>1, ReadsOnce
<1>3. f[Len(s)] \in Int
  BY DEF Reads
<1> QED
  BY <1>1, <1>2, <1>3

\* Digits in front of a text weigh the power of its length.
LEMMA NumJoined ==
  ASSUME NEW s \in Seq(Int), NEW t \in Seq(Int)
  PROVE  /\ Num(s) \in Int /\ Num(t) \in Int
         /\ Num(s \o t) = Num(s) * Power[Len(t)] + Num(t)
<1> DEFINE a == Len(s)
           b == Len(t)
           st == s \o t
<1>1. /\ a \in Nat /\ b \in Nat /\ st \in Seq(Int) /\ Len(st) = a + b
      /\ \A k \in 1 .. a + b : st[k] = IF k <= a THEN s[k] ELSE t[k - a]
      /\ \A k \in 1 .. b : t[k] \in Int
  BY ConcatProperties
<1>2. PICK f : Reads(st, f) /\ Num(st) = f[Len(st)]
  BY <1>1, NumReads
<1>3. PICK h : Reads(t, h) /\ Num(t) = h[b]
  BY NumReads
<1> DEFINE g == [k \in 0 .. a |-> f[k]]
<1> HIDE DEF st
<1>4. /\ f \in [0 .. a + b -> Int] /\ f[0] = 0 /\ Num(st) = f[a + b]
      /\ \A k \in 0 .. a + b - 1 : f[k + 1] = f[k] * TEN + st[k + 1]
  BY <1>1, <1>2 DEF Reads
<1>5. /\ h \in [0 .. b -> Int] /\ h[0] = 0
      /\ \A k \in 0 .. b - 1 : h[k + 1] = h[k] * TEN + t[k + 1]
  BY <1>3 DEF Reads
<1>6. Reads(s, g)
  <2>1. g \in [0 .. a -> Int] /\ g[0] = 0
    BY <1>1, <1>4
  <2>2. ASSUME NEW k \in 0 .. a - 1
        PROVE  g[k + 1] = g[k] * TEN + s[k + 1]
    <3>1. k \in 0 .. a + b - 1 /\ k + 1 \in 1 .. a + b /\ k + 1 <= a
          /\ k \in 0 .. a /\ k + 1 \in 0 .. a
      BY <1>1
    <3>2. st[k + 1] = s[k + 1] /\ g[k + 1] = f[k + 1] /\ g[k] = f[k]
      BY <1>1, <3>1
    <3> QED
      BY <1>4, <3>1, <3>2
  <2> QED
    BY <2>1, <2>2 DEF Reads
<1>7. Num(s) = f[a] /\ Num(s) \in Int
  <2>1. Num(s) = g[a] /\ Num(s) \in Int
    BY <1>6, NumOf
  <2> QED
    BY <1>1, <2>1
<1> DEFINE T == {k \in Nat : k <= b => f[a + k] = f[a] * Power[k] + h[k]}
<1>8. 0 \in T
  <2>1. f[a] \in Int /\ a + 0 = a /\ h[0] = 0 /\ Power[0] = 1
    BY <1>1, <1>5, <1>7, PowerSteps
  <2>2. f[a] * 1 + 0 = f[a]
    BY <2>1
  <2>3. f[a + 0] = f[a] * Power[0] + h[0]
    BY <2>1, <2>2
  <2> QED
    BY <2>3
<1>9. ASSUME NEW k \in Nat, k \in T
      PROVE  k + 1 \in T
  <2>1. CASE k + 1 <= b
    <3>1. /\ a + k \in 0 .. a + b - 1 /\ k \in 0 .. b - 1 /\ k \in 0 .. b
          /\ a + (k + 1) = a + k + 1 /\ a + k + 1 \in 1 .. a + b
          /\ ~(a + k + 1 <= a) /\ a + k + 1 - a = k + 1 /\ k + 1 \in 1 .. b
      BY <1>1, <2>1
    <3> DEFINE x == f[a]
               p == Power[k]
               y == h[k]
               d == t[k + 1]
    <3>2. x \in Int /\ p \in Nat /\ y \in Int /\ d \in Int
      BY <1>1, <1>5, <1>7, <3>1, PowerNatural
    <3>3. f[a + k + 1] = f[a + k] * TEN + d
      BY <1>1, <1>4, <3>1
    <3>4. f[a + k] = x * p + y
      BY <1>9, <3>1
    <3>5. h[k + 1] = y * TEN + d /\ Power[k + 1] = TEN * p
      BY <1>5, <3>1, PowerSteps
    <3> HIDE DEF x, p, y, d
    <3>6. (x * p + y) * TEN + d = x * (TEN * p) + (y * TEN + d)
      BY <3>2, Bases
    <3>7. f[a + (k + 1)] = x * Power[k + 1] + h[k + 1]
      BY <3>1, <3>3, <3>4, <3>5, <3>6
    <3> QED
      BY <3>7 DEF x
  <2> QED
    BY <2>1
<1>10. Nat \subseteq T
  BY <1>8, <1>9, SetInduction
<1>11. f[a + b] = f[a] * Power[b] + h[b]
  <2>1. b \in T
    BY <1>1, <1>10
  <2> QED
    BY <1>1, <2>1
<1>12. Num(t) \in Int
  BY <1>3, NumOf
<1> QED
  BY <1>3, <1>4, <1>7, <1>11, <1>12 DEF st

LEMMA ZerosText ==
  ASSUME NEW n \in Nat
  PROVE  /\ Zeros(n) \in Seq(Digit) /\ Zeros(n) \in Seq(Int) /\ Len(Zeros(n)) = n
         /\ Num(Zeros(n)) = 0
<1>1. Zeros(n) \in Seq(Digit) /\ Zeros(n) \in Seq(Int) /\ Len(Zeros(n)) = n
  BY Bases DEF Zeros, Digit
<1> DEFINE f == [k \in 0 .. n |-> 0]
<1>2. ASSUME NEW k \in 0 .. n - 1
      PROVE  f[k + 1] = f[k] * TEN + Zeros(n)[k + 1]
  <2>1. f[k + 1] = 0 /\ f[k] = 0 /\ Zeros(n)[k + 1] = 0
    BY DEF Zeros
  <2> QED
    BY <2>1, Bases
<1>3. f \in [0 .. n -> Int] /\ f[0] = 0
  OBVIOUS
<1> HIDE DEF f
<1>4. Reads(Zeros(n), f) /\ f[n] = 0
  <2>1. f[n] = 0
    BY DEF f
  <2> QED
    BY <1>1, <1>2, <1>3, <2>1 DEF Reads
<1> QED
  BY <1>1, <1>4, NumOf

LEMMA OneDigit ==
  ASSUME NEW d \in Int
  PROVE  <<d>> \in Seq(Int) /\ Len(<<d>>) = 1 /\ Num(<<d>>) = d
<1> DEFINE f == [k \in 0 .. 1 |-> IF k = 0 THEN 0 ELSE d]
<1>1. <<d>> \in Seq(Int) /\ Len(<<d>>) = 1 /\ <<d>>[1] = d
  OBVIOUS
<1>2. f \in [0 .. 1 -> Int] /\ f[0] = 0 /\ f[1] = d
  OBVIOUS
<1>3. \A k \in 0 .. 0 : f[k + 1] = f[k] * TEN + <<d>>[k + 1]
  <2>1. f[0 + 1] = f[0] * TEN + <<d>>[0 + 1]
    BY <1>1, <1>2, Bases
  <2> QED
    BY <2>1
<1>4. Reads(<<d>>, f)
  BY <1>1, <1>2, <1>3 DEF Reads
<1> QED
  BY <1>1, <1>2, <1>4, NumOf
\* format!("{:02}", n) reads back as n, for every exponent considered.
LEMMA ExponentReads ==
  ASSUME NEW n \in Nat, n < TEN * TEN * TEN
  PROVE  /\ AtLeastTwo(n) \in Seq(Int) /\ Num(AtLeastTwo(n)) = n
         /\ \A k \in DOMAIN AtLeastTwo(n) : AtLeastTwo(n)[k] >= 0
<1> DEFINE q == n \div TEN
           r == n % TEN
           q2 == q \div TEN
           r2 == q % TEN
<1>1. q \in Nat /\ r \in Nat /\ r < TEN /\ n = q * TEN + r
  BY Bases
<1>2. q2 \in Nat /\ r2 \in Nat /\ r2 < TEN /\ q = q2 * TEN + r2
  BY <1>1, Bases
<1>3. n = q2 * (TEN * TEN) + (r2 * TEN + r) /\ r2 * TEN + r \in 0 .. TEN * TEN - 1
  <2> HIDE DEF q, r, q2, r2
  <2>1. (q2 * TEN + r2) * TEN + r = q2 * (TEN * TEN) + (r2 * TEN + r)
    BY <1>1, <1>2, Bases
  <2>2. r2 * TEN + r \in Nat /\ r2 * TEN + r < TEN * TEN
    <3>1. r2 + 1 <= TEN /\ r + 1 <= TEN
      BY <1>1, <1>2, Bases
    <3>2. (r2 + 1) * TEN <= TEN * TEN /\ (r2 + 1) * TEN = r2 * TEN + TEN
      BY <1>2, <3>1, Bases
    <3>3. r2 * TEN \in Nat /\ TEN * TEN \in Nat
      BY <1>2, Bases
    <3> QED
      BY <1>1, <3>1, <3>2, <3>3, Bases
  <2> QED
    BY <1>1, <1>2, <2>1, <2>2, Bases
<1>4. n \div (TEN * TEN) = q2
  <2> DEFINE hundred == TEN * TEN
             low == r2 * TEN + r
  <2>1. /\ hundred \in Nat \ {0} /\ q2 \in Int /\ n \in Int
        /\ low \in 0 .. hundred - 1 /\ n = q2 * hundred + low
    <3> HIDE DEF q, r, q2, r2
    <3> QED
      BY <1>2, <1>3, Bases
  <2> HIDE DEF hundred, low, q, r, q2, r2
  <2>2. n \div hundred = q2
    BY <2>1, QuotientUnique, Zenon
  <2> QED
    BY <2>2 DEF hundred
<1> HIDE DEF q, r, q2, r2
<1>5. <<r2, r>> \in Seq(Int) /\ Len(<<r2, r>>) = 2 /\ <<r2, r>> = <<r2>> \o <<r>>
  BY <1>1, <1>2
<1>6. Power[1] = TEN /\ Power[2] = TEN * TEN
  <2>1. Power[0 + 1] = TEN * Power[0] /\ Power[1 + 1] = TEN * Power[1] /\ Power[0] = 1
    BY PowerSteps
  <2> QED
    BY <2>1, Bases
<1>7. Num(<<r2, r>>) = r2 * TEN + r
  <2>1. /\ <<r2>> \in Seq(Int) /\ <<r>> \in Seq(Int) /\ Len(<<r>>) = 1
        /\ Num(<<r2>>) = r2 /\ Num(<<r>>) = r
    BY <1>1, <1>2, OneDigit
  <2>2. Num(<<r2>> \o <<r>>) = Num(<<r2>>) * Power[Len(<<r>>)] + Num(<<r>>)
    BY <2>1, NumJoined
  <2> QED
    BY <1>5, <1>6, <2>1, <2>2
<1>8. AtLeastTwo(n) = (IF n < TEN * TEN THEN <<>> ELSE <<q2>>) \o <<r2, r>>
  BY <1>4 DEF AtLeastTwo, q, r, r2
<1>9. CASE n < TEN * TEN
  <2>1. q2 = 0
    <3>1. TEN * TEN \in Nat \ {0} /\ n \in 0 .. TEN * TEN - 1 /\ n = 0 * (TEN * TEN) + n
      BY <1>9, Bases
    <3> QED
      BY <1>4, <3>1, QuotientUnique
  <2>2. AtLeastTwo(n) = <<r2, r>>
    BY <1>5, <1>8, <1>9, ConcatEmptySeq
  <2>3. n = r2 * TEN + r
    BY <1>1, <1>2, <1>3, <2>1, Bases
  <2>4. \A k \in DOMAIN <<r2, r>> : <<r2, r>>[k] >= 0
    BY <1>1, <1>2
  <2> QED
    BY <1>5, <1>7, <2>2, <2>3, <2>4
<1>10. CASE ~(n < TEN * TEN)
  <2>1. AtLeastTwo(n) = <<q2>> \o <<r2, r>>
    BY <1>8, <1>10
  <2>2. Num(AtLeastTwo(n)) = q2 * (TEN * TEN) + (r2 * TEN + r)
    <3> DEFINE one == <<q2>>
               two == <<r2, r>>
    <3>1. one \in Seq(Int) /\ Num(one) = q2
      BY <1>2, OneDigit
    <3>2. two \in Seq(Int) /\ Len(two) = 2 /\ Num(two) = r2 * TEN + r
      BY <1>5, <1>7
    <3>3. AtLeastTwo(n) = one \o two
      BY <2>1
    <3> HIDE DEF one, two
    <3>4. Num(one \o two) = Num(one) * Power[Len(two)] + Num(two)
      BY <3>1, <3>2, NumJoined
    <3>5. Num(one \o two) = q2 * (TEN * TEN) + (r2 * TEN + r)
      BY <1>6, <3>1, <3>2, <3>4
    <3> QED
      BY <3>3, <3>5
  <2> DEFINE both == <<q2>> \o <<r2, r>>
  <2>3. /\ both \in Seq(Int) /\ Len(both) = 1 + 2
        /\ \A k \in 1 .. 1 + 2 : both[k] = IF k <= 1 THEN <<q2>>[k] ELSE <<r2, r>>[k - 1]
    <3>1. <<q2>> \in Seq(Int) /\ Len(<<q2>>) = 1
      BY <1>2
    <3> QED
      BY <1>5, <3>1, ConcatProperties
  <2> HIDE DEF both
  <2>4. \A k \in DOMAIN both : both[k] >= 0
    <3>1. both[1] = q2 /\ both[2] = r2 /\ both[3] = r
      BY <2>3
    <3> QED
      BY <1>1, <1>2, <2>3, <3>1
  <2>5. Num(AtLeastTwo(n)) = n
    BY <1>3, <2>2
  <2> QED
    BY <2>1, <2>3, <2>4, <2>5 DEF both
<1> QED
  BY <1>9, <1>10

-----------------------------------------------------------------------------
FmtTypes ==
  /\ class \in {"nan", "infinite", "zero", "normal"} /\ neg \in BOOLEAN
  /\ mantissa \in [1 .. SIG -> Digit] /\ mantissa[1] # 0
  /\ exp \in Exps

LEMMA DigitIsNatural == \A d \in Digit : d \in Nat /\ d < TEN
BY Bases DEF Digit

\* The digits written are those up to the last that is not 0.
LEMMA DigitsFacts ==
  ASSUME FmtTypes
  PROVE  /\ Digits \in Seq(Nat) /\ Len(Digits) \in 1 .. SIG
         /\ Digits[1] # 0 /\ Digits[Len(Digits)] # 0
         /\ mantissa = Digits \o Zeros(SIG - Len(Digits))
<1> DEFINE used == {k \in 1 .. SIG : mantissa[k] # 0}
           last == CHOOSE k \in used : \A j \in used : j <= k
<1>1. mantissa \in [1 .. SIG -> Nat] /\ 1 \in used
  BY DigitIsNatural, Bases DEF FmtTypes
<1>2. PICK e \in used : \A j \in used : j <= e
  <2>1. used \subseteq Int /\ used # {} /\ SIG \in Int /\ \A j \in used : j <= SIG
    BY <1>1, Bases
  <2> HIDE DEF used
  <2> QED
    BY <2>1, GreatestBounded
<1>3. last = e
  BY <1>2, Bases
<1> HIDE DEF last
<1>4. Digits = SubSeq(mantissa, 1, e)
  BY <1>3 DEF Digits, last
<1>5. e \in 1 .. SIG /\ mantissa[e] # 0 /\ \A k \in e + 1 .. SIG : mantissa[k] = 0
  BY <1>2, Bases
<1>6. mantissa \in Seq(Nat) /\ Len(mantissa) = SIG
  BY <1>1, Bases
<1>7. Digits \in Seq(Nat) /\ Len(Digits) = e /\ \A k \in 1 .. e : Digits[k] = mantissa[k]
  BY <1>4, <1>5, <1>6, Bases
<1>8. mantissa = Digits \o Zeros(SIG - e)
  <2> DEFINE z == Zeros(SIG - e)
  <2>1. /\ SIG - e \in Nat /\ z \in Seq(Int) /\ Len(z) = SIG - e /\ e \in Nat
        /\ Digits \in Seq(Int)
    <3>1. SIG - e \in Nat /\ e \in Nat
      BY <1>5, Bases
    <3>2. z \in Seq(Int) /\ Len(z) = SIG - e
      BY <3>1, ZerosText
    <3>3. Digits \in Seq(Int)
      BY <1>7
    <3> QED
      BY <3>1, <3>2, <3>3
  <2>2. /\ Digits \o z \in Seq(Int) /\ Len(Digits \o z) = SIG
        /\ \A k \in 1 .. SIG : (Digits \o z)[k] = IF k <= e THEN Digits[k] ELSE z[k - e]
    <3> HIDE DEF z
    <3>1. /\ Digits \o z \in Seq(Int) /\ Len(Digits \o z) = Len(Digits) + Len(z)
          /\ \A k \in 1 .. Len(Digits) + Len(z) :
               (Digits \o z)[k] = IF k <= Len(Digits) THEN Digits[k] ELSE z[k - Len(Digits)]
      BY <2>1, ConcatProperties
    <3>3. Len(Digits) = e /\ Len(z) = SIG - e
      BY <1>7, <2>1
    <3>2. e + (SIG - e) = SIG
      BY <2>1, Bases
    <3> QED
      BY <3>1, <3>2, <3>3
  <2>3. \A k \in 1 .. SIG - e : z[k] = 0
    BY DEF Zeros
  <2> HIDE DEF z
  <2>4. \A k \in 1 .. SIG : (Digits \o z)[k] = mantissa[k]
    <3> SUFFICES ASSUME NEW k \in 1 .. SIG
                 PROVE  (Digits \o z)[k] = mantissa[k]
      OBVIOUS
    <3>1. CASE k <= e
      BY <1>7, <2>1, <2>2, <3>1, Bases
    <3>2. CASE ~(k <= e)
      <4>1. k - e \in 1 .. SIG - e /\ k \in e + 1 .. SIG
        BY <2>1, <3>2, Bases
      <4> QED
        BY <1>5, <2>2, <2>3, <3>2, <4>1
    <3> QED
      BY <3>1, <3>2
  <2> DEFINE whole == Digits \o z
  <2>5. whole \in [1 .. SIG -> Int] /\ \A k \in 1 .. SIG : whole[k] = mantissa[k]
    <3>1. whole \in Seq(Int) /\ Len(whole) = SIG /\ \A k \in 1 .. SIG : whole[k] = mantissa[k]
      BY <2>2, <2>4
    <3> HIDE DEF whole
    <3> QED
      BY <3>1
  <2> HIDE DEF whole
  <2>6. whole = mantissa
    <3>1. mantissa = [k \in 1 .. SIG |-> mantissa[k]] /\ whole = [k \in 1 .. SIG |-> whole[k]]
      BY <1>1, <2>5
    <3>2. [k \in 1 .. SIG |-> mantissa[k]] = [k \in 1 .. SIG |-> whole[k]]
      BY <2>5
    <3> QED
      BY <3>1, <3>2
  <2> QED
    BY <2>6 DEF whole, z
<1> QED
  BY <1>1, <1>5, <1>7, <1>8, Bases

-----------------------------------------------------------------------------
(***************************************************************************)
(* Every text of a number is a sign, the digits w before the point, those  *)
(* behind it if there are any, and the exponent if there is one.           *)
(***************************************************************************)
Sign == IF neg THEN <<Minus>> ELSE <<>>
Fraction(f) == IF f = <<>> THEN <<>> ELSE <<Dot>> \o f
ExpSign == IF exp < 0 THEN Minus ELSE Plus
Scale(sci) == IF sci THEN <<E, ExpSign>> \o AtLeastTwo(Abs(exp)) ELSE <<>>
FloatText(w, f, sci) == Sign \o ((w \o Fraction(f)) \o Scale(sci))

LEMMA JoinedText ==
  ASSUME NEW a \in Seq(Int), NEW b \in Seq(Int)
  PROVE  /\ a \o b \in Seq(Int) /\ Len(a \o b) = Len(a) + Len(b)
         /\ Len(a) \in Nat /\ Len(b) \in Nat
         /\ \A k \in 1 .. Len(a) : (a \o b)[k] = a[k]
         /\ \A k \in 1 .. Len(b) : (a \o b)[Len(a) + k] = b[k]
<1> DEFINE m == Len(a)
           n == Len(b)
           ab == a \o b
<1>1. /\ ab \in Seq(Int) /\ Len(ab) = m + n /\ m \in Nat /\ n \in Nat
      /\ \A k \in 1 .. m + n : ab[k] = IF k <= m THEN a[k] ELSE b[k - m]
  BY ConcatProperties
<1> HIDE DEF m, n, ab
<1>2. \A k \in 1 .. m : ab[k] = a[k]
  BY <1>1
<1>3. ASSUME NEW k \in 1 .. n
      PROVE  ab[m + k] = b[k]
  <2>1. m + k \in 1 .. m + n /\ ~(m + k <= m) /\ m + k - m = k
    BY <1>1
  <2> QED
    BY <1>1, <2>1
<1> QED
  BY <1>1, <1>2, <1>3 DEF m, n, ab

\* t is a, b, c and d, one after the other.
Parted(t, a, b, c, d) ==
  /\ t \in Seq(Int) /\ Len(t) = Len(a) + Len(b) + Len(c) + Len(d)
  /\ Len(a) \in Nat /\ Len(b) \in Nat /\ Len(c) \in Nat /\ Len(d) \in Nat
  /\ \A k \in 1 .. Len(a) : t[k] = a[k]
  /\ \A k \in 1 .. Len(b) : t[Len(a) + k] = b[k]
  /\ \A k \in 1 .. Len(c) : t[Len(a) + Len(b) + k] = c[k]
  /\ \A k \in 1 .. Len(d) : t[Len(a) + Len(b) + Len(c) + k] = d[k]

LEMMA FourParts ==
  ASSUME NEW a \in Seq(Int), NEW b \in Seq(Int), NEW c \in Seq(Int), NEW d \in Seq(Int),
         NEW t, t = a \o ((b \o c) \o d)
  PROVE  Parted(t, a, b, c, d)
<1> DEFINE bc == b \o c
           bcd == bc \o d
           la == Len(a)
           lb == Len(b)
           lc == Len(c)
           ld == Len(d)
<1>1. /\ bc \in Seq(Int) /\ Len(bc) = lb + lc /\ lb \in Nat /\ lc \in Nat
      /\ \A k \in 1 .. lb : bc[k] = b[k]
      /\ \A k \in 1 .. lc : bc[lb + k] = c[k]
  BY JoinedText
<1> HIDE DEF bc
<1>2. /\ bcd \in Seq(Int) /\ Len(bcd) = Len(bc) + ld /\ ld \in Nat
      /\ \A k \in 1 .. Len(bc) : bcd[k] = bc[k]
      /\ \A k \in 1 .. ld : bcd[Len(bc) + k] = d[k]
  BY <1>1, JoinedText
<1> HIDE DEF bcd
<1>3. t = a \o bcd
  BY DEF bcd, bc
<1>4. /\ t \in Seq(Int) /\ Len(t) = la + Len(bcd) /\ la \in Nat
      /\ \A k \in 1 .. la : t[k] = a[k]
      /\ \A k \in 1 .. Len(bcd) : t[la + k] = bcd[k]
  <2>1. /\ a \o bcd \in Seq(Int) /\ Len(a \o bcd) = Len(a) + Len(bcd)
        /\ Len(a) \in Nat
        /\ \A k \in 1 .. Len(a) : (a \o bcd)[k] = a[k]
        /\ \A k \in 1 .. Len(bcd) : (a \o bcd)[Len(a) + k] = bcd[k]
    BY <1>2, JoinedText
  <2> QED
    BY <1>3, <2>1
<1> HIDE DEF la, lb, lc, ld
<1>5. Len(bcd) = lb + lc + ld /\ Len(t) = la + lb + lc + ld
  BY <1>1, <1>2, <1>4
<1>6. la \in Nat /\ lb \in Nat /\ lc \in Nat /\ ld \in Nat
  BY <1>1, <1>2, <1>4
<1>7. ASSUME NEW k \in 1 .. lb
      PROVE  t[la + k] = b[k]
  <2>1. k \in 1 .. Len(bcd) /\ k \in 1 .. Len(bc)
    BY <1>1, <1>2, <1>5
  <2> QED
    BY <1>1, <1>2, <1>4, <2>1
<1>8. ASSUME NEW k \in 1 .. lc
      PROVE  t[la + lb + k] = c[k]
  <2>1. Len(bcd) = lb + lc + ld /\ Len(bc) = lb + lc
    BY <1>1, <1>5
  <2>2. lb + k \in 1 .. Len(bcd) /\ lb + k \in 1 .. Len(bc) /\ la + (lb + k) = la + lb + k
    BY <1>6, <2>1
  <2>3. t[la + (lb + k)] = bcd[lb + k] /\ bcd[lb + k] = bc[lb + k] /\ bc[lb + k] = c[k]
    BY <1>1, <1>2, <1>4, <2>2
  <2> QED
    BY <2>2, <2>3
<1>9. ASSUME NEW k \in 1 .. ld
      PROVE  t[la + lb + lc + k] = d[k]
  <2>1. lb + lc + k \in 1 .. Len(bcd) /\ la + (lb + lc + k) = la + lb + lc + k
    BY <1>5, <1>6
  <2>2. t[la + (lb + lc + k)] = bcd[lb + lc + k]
    BY <1>4, <2>1
  <2>3. bcd[lb + lc + k] = d[k]
    BY <1>1, <1>2
  <2> QED
    BY <2>1, <2>2, <2>3
<1> QED
  BY <1>4, <1>5, <1>6, <1>7, <1>8, <1>9 DEF Parted, la, lb, lc, ld

\* The only marks of a text are where its parts meet.
LEMMA Marks ==
  ASSUME FmtTypes, NEW w \in Seq(Nat), NEW f \in Seq(Nat), NEW sci \in BOOLEAN, w # <<>>,
         text = FloatText(w, f, sci)
  PROVE  LET la == Len(Sign)
             lb == Len(w)
             lc == Len(Fraction(f))
             ld == Len(Scale(sci))
         IN  /\ text \in Seq(Int) /\ Len(text) = la + lb + lc + ld
             /\ la \in Nat /\ lb \in Nat \ {0} /\ lc \in Nat /\ ld \in Nat
             /\ la = (IF neg THEN 1 ELSE 0)
             /\ lc = (IF f = <<>> THEN 0 ELSE Len(f) + 1)
             /\ ld = (IF sci THEN Len(AtLeastTwo(Abs(exp))) + 2 ELSE 0)
             /\ IsMinus <=> neg
             /\ \A k \in 1 .. lb : text[la + k] = w[k]
             /\ f # <<>> => \A k \in 1 .. Len(f) : text[la + lb + 1 + k] = f[k]
             /\ Where(Dot) = IF f = <<>> THEN {} ELSE {la + lb + 1}
             /\ Where(E) = IF sci THEN {la + lb + lc + 1} ELSE {}
             /\ sci => /\ text[la + lb + lc + 2] = ExpSign
                       /\ \A k \in 1 .. Len(AtLeastTwo(Abs(exp))) :
                            text[la + lb + lc + 2 + k] = AtLeastTwo(Abs(exp))[k]
<1> DEFINE la == Len(Sign)
           lb == Len(w)
           lc == Len(Fraction(f))
           ld == Len(Scale(sci))
           x == AtLeastTwo(Abs(exp))
<1>1. x \in Seq(Int) /\ \A k \in DOMAIN x : x[k] >= 0
  <2>1. Abs(exp) \in Nat /\ Abs(exp) < TEN * TEN * TEN
    BY Bases DEF FmtTypes, Abs
  <2> QED
    BY <2>1, ExponentReads
<1> HIDE DEF x
<1>2. /\ Sign \in Seq(Int) /\ la = (IF neg THEN 1 ELSE 0)
      /\ \A k \in 1 .. la : Sign[k] = -1
  BY DEF Sign, Minus
<1>3. w \in Seq(Int) /\ lb \in Nat \ {0} /\ \A k \in 1 .. lb : w[k] >= 0
  <2>1. lb # 0
    BY EmptySeq
  <2> QED
    BY <2>1
<1>4. /\ Fraction(f) \in Seq(Int) /\ lc = (IF f = <<>> THEN 0 ELSE Len(f) + 1)
      /\ f # <<>> => /\ Fraction(f)[1] = -3
                     /\ \A k \in 1 .. Len(f) : Fraction(f)[1 + k] = f[k] /\ f[k] >= 0
  <2>1. CASE f = <<>>
    BY <2>1 DEF Fraction
  <2>2. CASE f # <<>>
    <3>1. /\ <<Dot>> \in Seq(Int) /\ f \in Seq(Int) /\ Len(<<Dot>>) = 1 /\ <<Dot>>[1] = -3
          /\ \A k \in 1 .. Len(f) : f[k] >= 0
      BY DEF Dot
    <3>2. Fraction(f) = <<Dot>> \o f
      BY <2>2 DEF Fraction
    <3> DEFINE dot == <<Dot>>
    <3> HIDE DEF dot
    <3>3. /\ dot \o f \in Seq(Int) /\ Len(dot \o f) = Len(dot) + Len(f) /\ Len(f) \in Nat
          /\ \A k \in 1 .. Len(dot) : (dot \o f)[k] = dot[k]
          /\ \A k \in 1 .. Len(f) : (dot \o f)[Len(dot) + k] = f[k]
      BY <3>1, JoinedText DEF dot
    <3> QED
      BY <2>2, <3>1, <3>2, <3>3 DEF dot
  <2> QED
    BY <2>1, <2>2
<1>5. /\ Scale(sci) \in Seq(Int) /\ ld = (IF sci THEN Len(x) + 2 ELSE 0)
      /\ sci => /\ Scale(sci)[1] = -4 /\ Scale(sci)[2] = ExpSign
                /\ \A k \in 1 .. Len(x) : Scale(sci)[2 + k] = x[k] /\ x[k] >= 0
  <2>1. CASE ~sci
    BY <2>1 DEF Scale
  <2>2. CASE sci
    <3> DEFINE mark == <<E, ExpSign>>
    <3>1. mark \in Seq(Int) /\ Len(mark) = 2 /\ mark[1] = -4 /\ mark[2] = ExpSign
      BY DEF E, ExpSign, Minus, Plus
    <3>2. Scale(sci) = mark \o x
      BY <2>2 DEF Scale, x
    <3> HIDE DEF mark
    <3>3. /\ mark \o x \in Seq(Int) /\ Len(mark \o x) = Len(mark) + Len(x) /\ Len(x) \in Nat
          /\ \A k \in 1 .. Len(mark) : (mark \o x)[k] = mark[k]
          /\ \A k \in 1 .. Len(x) : (mark \o x)[Len(mark) + k] = x[k]
      BY <1>1, <3>1, JoinedText
    <3>4. \A k \in 1 .. Len(x) : x[k] >= 0
      BY <1>1
    <3> QED
      <4>1. Scale(sci)[1] = -4 /\ Scale(sci)[2] = ExpSign
        BY <3>1, <3>2, <3>3
      <4>2. \A k \in 1 .. Len(x) : Scale(sci)[2 + k] = x[k]
        BY <3>1, <3>2, <3>3
      <4>3. Scale(sci) \in Seq(Int) /\ ld = Len(x) + 2
        BY <3>1, <3>2, <3>3
      <4> HIDE DEF ld
      <4> QED
        BY <2>2, <3>4, <4>1, <4>2, <4>3
  <2> QED
    BY <2>1, <2>2
<1>6. ExpSign \in {-1, -2}
  BY DEF ExpSign, Minus, Plus
<1>7. /\ text \in Seq(Int) /\ Len(text) = la + lb + lc + ld
      /\ la \in Nat /\ lc \in Nat /\ ld \in Nat
      /\ \A k \in 1 .. la : text[k] = Sign[k]
      /\ \A k \in 1 .. lb : text[la + k] = w[k]
      /\ \A k \in 1 .. lc : text[la + lb + k] = Fraction(f)[k]
      /\ \A k \in 1 .. ld : text[la + lb + lc + k] = Scale(sci)[k]
  <2>1. text = Sign \o ((w \o Fraction(f)) \o Scale(sci))
    BY DEF FloatText
  <2>2. Sign \in Seq(Int) /\ w \in Seq(Int) /\ Fraction(f) \in Seq(Int) /\ Scale(sci) \in Seq(Int)
    BY <1>2, <1>3, <1>4, <1>5
  <2>3. Parted(text, Sign, w, Fraction(f), Scale(sci))
    BY <2>1, <2>2, FourParts
  <2> QED
    BY <2>3, Zenon DEF Parted
<1> HIDE DEF la, lb, lc, ld
<1> DEFINE lf == Len(f)
           lx == Len(x)
<1>8. /\ la \in Nat /\ lb \in Nat /\ lb > 0 /\ lc \in Nat /\ ld \in Nat
      /\ lf \in Nat /\ lx \in Nat
  <2>1. Len(f) \in Nat /\ Len(x) \in Nat
    BY <1>1
  <2>2. lb \in Nat /\ lb > 0
    BY <1>3
  <2> QED
    BY <1>7, <2>1, <2>2
<1>9. /\ f = <<>> => lc = 0
      /\ f # <<>> => lc = lf + 1
  BY <1>4
<1>10. /\ ~sci => ld = 0
       /\ sci => ld = lx + 2
  BY <1>5
<1>11. DOMAIN text = 1 .. la + lb + lc + ld
  BY <1>7
<1>12. IsMinus <=> neg
  <2>1. CASE neg
    BY <1>2, <1>7, <2>1 DEF IsMinus, Minus
  <2>2. CASE ~neg
    <3>1. la + 1 = 1 /\ 1 \in 1 .. lb
      BY <1>2, <1>3, <2>2
    <3>2. text[1] = w[1] /\ w[1] >= 0 /\ w[1] \in Int
      BY <1>3, <1>7, <3>1
    <3> QED
      BY <2>2, <3>2 DEF IsMinus, Minus
  <2> QED
    BY <2>1, <2>2
<1>13. f # <<>> => /\ text[la + lb + 1] = -3
                   /\ \A k \in 1 .. Len(f) : text[la + lb + 1 + k] = f[k] /\ f[k] >= 0
  <2> SUFFICES ASSUME f # <<>>
               PROVE  /\ text[la + lb + 1] = -3
                      /\ \A k \in 1 .. Len(f) : text[la + lb + 1 + k] = f[k] /\ f[k] >= 0
    OBVIOUS
  <2>1. lc = Len(f) + 1 /\ Len(f) \in Nat
    BY <1>4
  <2>2. text[la + lb + 1] = -3
    <3>1. 1 \in 1 .. lc
      BY <2>1
    <3> QED
      BY <1>4, <1>7, <3>1
  <2>3. ASSUME NEW k \in 1 .. Len(f)
        PROVE  text[la + lb + 1 + k] = f[k] /\ f[k] >= 0
    <3>1. 1 + k \in 1 .. lc /\ la + lb + (1 + k) = la + lb + 1 + k
      BY <1>3, <1>7, <2>1
    <3>2. text[la + lb + (1 + k)] = Fraction(f)[1 + k]
      BY <1>7, <3>1
    <3> QED
      BY <1>4, <3>1, <3>2
  <2> QED
    BY <2>2, <2>3
<1>14. sci => /\ text[la + lb + lc + 1] = -4 /\ text[la + lb + lc + 2] = ExpSign
              /\ \A k \in 1 .. Len(x) : text[la + lb + lc + 2 + k] = x[k] /\ x[k] >= 0
  <2> SUFFICES ASSUME sci
               PROVE  /\ text[la + lb + lc + 1] = -4 /\ text[la + lb + lc + 2] = ExpSign
                      /\ \A k \in 1 .. Len(x) : text[la + lb + lc + 2 + k] = x[k] /\ x[k] >= 0
    OBVIOUS
  <2>1. ld = Len(x) + 2 /\ Len(x) \in Nat
    BY <1>1, <1>5
  <2>2. text[la + lb + lc + 1] = -4 /\ text[la + lb + lc + 2] = ExpSign
    <3>1. 1 \in 1 .. ld /\ 2 \in 1 .. ld
      BY <2>1
    <3> QED
      BY <1>5, <1>7, <3>1
  <2>3. ASSUME NEW k \in 1 .. Len(x)
        PROVE  text[la + lb + lc + 2 + k] = x[k] /\ x[k] >= 0
    <3>1. 2 + k \in 1 .. ld /\ la + lb + lc + (2 + k) = la + lb + lc + 2 + k
      BY <1>3, <1>7, <2>1
    <3>2. text[la + lb + lc + (2 + k)] = Scale(sci)[2 + k]
      BY <1>7, <3>1
    <3> QED
      BY <1>5, <3>1, <3>2
  <2> QED
    BY <2>2, <2>3
\* Every place but the two marks holds a digit or a sign.
<1>15. ASSUME NEW k \in DOMAIN text
       PROVE  \/ text[k] = -1 \/ text[k] = -2 \/ text[k] >= 0
              \/ f # <<>> /\ k = la + lb + 1 /\ text[k] = -3
              \/ sci /\ k = la + lb + lc + 1 /\ text[k] = -4
  <2> HIDE DEF lf, lx
  <2>1. k \in 1 .. la + lb + lc + ld
    BY <1>11, Zenon
  <2>2. k \in Nat \ {0} /\ k <= la + lb + lc + ld
    BY <1>8, <2>1
  <2>3. CASE k <= la
    <3>1. k \in 1 .. la
      BY <1>8, <2>2, <2>3
    <3> QED
      BY <1>2, <1>7, <3>1
  <2>4. CASE la < k /\ k <= la + lb
    <3>1. k - la \in 1 .. lb /\ la + (k - la) = k
      BY <1>8, <2>2, <2>4
    <3>2. text[la + (k - la)] = w[k - la] /\ w[k - la] >= 0
      BY <1>3, <1>7, <3>1
    <3> QED
      BY <3>1, <3>2
  <2>5. CASE la + lb < k /\ k <= la + lb + lc
    <3>1. lc # 0 /\ f # <<>> /\ lc = lf + 1 /\ lf \in Nat
      <4>1. lc # 0
        BY <1>8, <2>2, <2>5
      <4>2. f # <<>> /\ lc = lf + 1
        BY <1>9, <4>1
      <4> QED
        BY <1>8, <4>1, <4>2
    <3>2. CASE k = la + lb + 1
      BY <1>13, <3>1, <3>2
    <3>3. CASE k # la + lb + 1
      <4> DEFINE j == k - (la + lb + 1)
      <4>1. j \in 1 .. lf /\ la + lb + 1 + j = k
        <5>1. lc = lf + 1
          BY <3>1
        <5> DEFINE mark == la + lb + 1
        <5>2. mark \in Nat /\ k \in Nat /\ k >= mark /\ k # mark
          BY <1>8, <2>2, <2>5, <3>3
        <5>3. k > la + lb + 1
          <6> HIDE DEF mark
          <6>1. k > mark
            BY <5>2
          <6> QED
            BY <6>1 DEF mark
        <5> QED
          BY <1>8, <2>2, <2>5, <5>1, <5>3
      <4>2. text[la + lb + 1 + j] = f[j] /\ f[j] >= 0
        BY <1>13, <3>1, <4>1 DEF lf
      <4> QED
        BY <4>1, <4>2
    <3> QED
      BY <3>2, <3>3
  <2>6. CASE la + lb + lc < k
    <3>1. ld # 0 /\ sci /\ ld = lx + 2 /\ lx \in Nat
      <4>1. ld # 0
        BY <1>8, <2>2, <2>6
      <4> QED
        BY <1>8, <1>10, <4>1
    <3>2. CASE k = la + lb + lc + 1
      BY <1>14, <3>1, <3>2
    <3>3. CASE k = la + lb + lc + 2
      BY <1>6, <1>14, <3>1, <3>3
    <3>4. CASE k # la + lb + lc + 1 /\ k # la + lb + lc + 2
      <4> DEFINE j == k - (la + lb + lc + 2)
      <4>1. j \in 1 .. lx /\ la + lb + lc + 2 + j = k
        <5> DEFINE front == la + lb + lc
        <5>1. /\ front \in Nat /\ k \in Nat /\ lx \in Nat /\ front < k
              /\ k # front + 1 /\ k # front + 2 /\ k <= front + (lx + 2)
          <6>1. ld = lx + 2
            BY <3>1
          <6> QED
            BY <1>8, <2>2, <2>6, <3>4, <6>1
        <5> HIDE DEF front
        <5>2. k > front + 1
          BY <5>1
        <5>3. k > front + 2
          BY <5>1, <5>2
        <5>4. k - (front + 2) \in 1 .. lx /\ front + 2 + (k - (front + 2)) = k
          BY <5>1, <5>3
        <5> QED
          BY <5>4 DEF front
      <4>2. text[la + lb + lc + 2 + j] = x[j] /\ x[j] >= 0
        BY <1>14, <3>1, <4>1 DEF lx
      <4> QED
        BY <4>1, <4>2
    <3> QED
      BY <3>2, <3>3, <3>4
  <2>7. k <= la \/ (la < k /\ k <= la + lb) \/ (la + lb < k /\ k <= la + lb + lc)
          \/ la + lb + lc < k
    BY <1>8, <2>2
  <2> QED
    BY <2>3, <2>4, <2>5, <2>6, <2>7, Zenon
<1>16. \A k \in DOMAIN text : text[k] \in Int
  BY <1>7
<1>17. Where(Dot) = IF f = <<>> THEN {} ELSE {la + lb + 1}
  <2>1. f # <<>> => la + lb + 1 \in DOMAIN text
    <3> HIDE DEF lf, lx
    <3>1. f # <<>> => la + lb + 1 \in 1 .. la + lb + lc + ld
      <4>1. lc = lf + 1 => la + lb + 1 \in 1 .. la + lb + lc + ld
        BY <1>8
      <4>2. f # <<>> => lc = lf + 1
        BY <1>9
      <4> QED
        BY <4>1, <4>2
    <3> QED
      BY <1>11, <3>1
  <2> QED
    BY <1>13, <1>15, <1>16, <2>1 DEF Where, Dot
<1>18. Where(E) = IF sci THEN {la + lb + lc + 1} ELSE {}
  <2>1. sci => la + lb + lc + 1 \in DOMAIN text
    <3> HIDE DEF lf, lx
    <3>1. sci => la + lb + lc + 1 \in 1 .. la + lb + lc + ld
      <4>1. ld = lx + 2 => la + lb + lc + 1 \in 1 .. la + lb + lc + ld
        BY <1>8
      <4> QED
        BY <1>10, <4>1, Zenon
    <3> QED
      BY <1>11, <3>1
  <2> QED
    BY <1>14, <1>15, <1>16, <2>1 DEF Where, E
<1> QED
  BY <1>2, <1>3, <1>4, <1>5, <1>7, <1>12, <1>13, <1>14, <1>17, <1>18
     DEF la, lb, lc, ld, x

LEMMA SliceOfText ==
  ASSUME NEW t \in Seq(Int), NEW x \in Seq(Int), NEW m \in Nat, m + Len(x) <= Len(t),
         \A k \in 1 .. Len(x) : t[m + k] = x[k]
  PROVE  SubSeq(t, m + 1, m + Len(x)) = x
<1> DEFINE n == Len(x)
           sub == SubSeq(t, m + 1, m + n)
<1>1. n \in Nat /\ x = [k \in 1 .. n |-> x[k]]
  OBVIOUS
<1>2. /\ sub \in Seq(Int) /\ Len(sub) = n
      /\ \A k \in 1 .. n : sub[k] = t[m + k]
  <2>1. m + 1 \in Int /\ m + n \in Int /\ \A k \in m + 1 .. m + n : t[k] \in Int
    <3>1. \A k \in 1 .. Len(t) : t[k] \in Int
      OBVIOUS
    <3>2. Len(t) \in Nat
      OBVIOUS
    <3> QED
      BY <1>1, <3>1, <3>2
  <2>2. /\ sub \in Seq(Int)
        /\ Len(sub) = (IF m + 1 <= m + n THEN (m + n) - (m + 1) + 1 ELSE 0)
        /\ \A k \in 1 .. (m + n) - (m + 1) + 1 : sub[k] = t[m + 1 + k - 1]
    <3> DEFINE from == m + 1
               to == m + n
    <3>1. from \in Int /\ to \in Int /\ \A k \in from .. to : t[k] \in Int
      BY <2>1
    <3> HIDE DEF from, to
    <3>2. /\ SubSeq(t, from, to) \in Seq(Int)
          /\ Len(SubSeq(t, from, to)) = (IF from <= to THEN to - from + 1 ELSE 0)
          /\ \A k \in 1 .. to - from + 1 : SubSeq(t, from, to)[k] = t[from + k - 1]
      BY <3>1, SubSeqProperties
    <3> QED
      BY <3>2 DEF from, to
  <2> HIDE DEF sub, n
  <2>3. Len(sub) = n /\ (m + n) - (m + 1) + 1 = n
    BY <1>1, <2>2
  <2>4. ASSUME NEW k \in 1 .. n
        PROVE  sub[k] = t[m + k]
    <3>1. m + 1 + k - 1 = m + k
      OBVIOUS
    <3> QED
      BY <2>2, <2>3, <3>1
  <2> QED
    BY <2>2, <2>3, <2>4
<1> HIDE DEF sub
<1>3. sub = [k \in 1 .. n |-> sub[k]]
  BY <1>2
<1>4. \A k \in 1 .. n : sub[k] = x[k]
  BY <1>2
<1> HIDE DEF n
<1> QED
  BY <1>1, <1>3, <1>4 DEF sub, n

LEMMA TextReads ==
  ASSUME FmtTypes, NEW w \in Seq(Nat), NEW f \in Seq(Nat), NEW sci \in BOOLEAN, w # <<>>,
         text = FloatText(w, f, sci)
  PROVE  /\ IsMinus <=> neg
         /\ text[Start] = w[1]
         /\ End < Len(text) <=> sci
         /\ Where(Dot) # {} <=> f # <<>>
         /\ f # <<>> => text[End] = f[Len(f)]
         /\ Written = w \o f
         /\ Decimals = Len(f)
         /\ Exponent = IF sci THEN exp ELSE 0
<1> DEFINE la == Len(Sign)
           lb == Len(w)
           lc == Len(Fraction(f))
           ld == Len(Scale(sci))
           lf == Len(f)
           lx == Len(AtLeastTwo(Abs(exp)))
<1>1. /\ text \in Seq(Int) /\ Len(text) = la + lb + lc + ld
      /\ \A k \in 1 .. lb : text[la + k] = w[k]
      /\ f # <<>> => \A k \in 1 .. lf : text[la + lb + 1 + k] = f[k]
      /\ Where(Dot) = IF f = <<>> THEN {} ELSE {la + lb + 1}
      /\ Where(E) = IF sci THEN {la + lb + lc + 1} ELSE {}
      /\ IsMinus <=> neg
  <2>1. text \in Seq(Int) /\ Len(text) = la + lb + lc + ld
    BY Marks
  <2>2. \A k \in 1 .. lb : text[la + k] = w[k]
    BY Marks
  <2>3. f # <<>> => \A k \in 1 .. lf : text[la + lb + 1 + k] = f[k]
    BY Marks
  <2>4. Where(Dot) = IF f = <<>> THEN {} ELSE {la + lb + 1}
    BY Marks
  <2>5. Where(E) = IF sci THEN {la + lb + lc + 1} ELSE {}
    BY Marks
  <2>6. IsMinus <=> neg
    BY Marks
  <2> QED
    BY <2>1, <2>2, <2>3, <2>4, <2>5, <2>6
<1>2. sci => /\ text[la + lb + lc + 2] = ExpSign
             /\ \A k \in 1 .. lx :
                  text[la + lb + lc + 2 + k] = AtLeastTwo(Abs(exp))[k]
  BY Marks
<1>3. /\ Abs(exp) \in Nat /\ Num(AtLeastTwo(Abs(exp))) = Abs(exp)
      /\ AtLeastTwo(Abs(exp)) \in Seq(Int) /\ lx \in Nat
  <2>1. Abs(exp) \in Nat /\ Abs(exp) < TEN * TEN * TEN
    BY Bases DEF FmtTypes, Abs
  <2>2. Num(AtLeastTwo(Abs(exp))) = Abs(exp) /\ AtLeastTwo(Abs(exp)) \in Seq(Int)
    BY <2>1, ExponentReads
  <2> QED
    BY <2>1, <2>2
<1>4. /\ la \in Nat /\ lb \in Nat \ {0} /\ lc \in Nat /\ ld \in Nat /\ lf \in Nat
      /\ la = (IF neg THEN 1 ELSE 0)
      /\ f = <<>> => lc = 0 /\ lf = 0
      /\ f # <<>> => lc = lf + 1 /\ lf > 0
      /\ ~sci => ld = 0
      /\ sci => ld = lx + 2
  <2>1. /\ la \in Nat /\ lb \in Nat \ {0} /\ lc \in Nat /\ ld \in Nat
        /\ la = (IF neg THEN 1 ELSE 0)
        /\ lc = (IF f = <<>> THEN 0 ELSE lf + 1)
        /\ ld = (IF sci THEN lx + 2 ELSE 0)
    BY Marks
  <2>2. lf \in Nat /\ (f = <<>> <=> lf = 0)
    BY EmptySeq
  <2> HIDE DEF la, lb, lc, ld, lf, lx
  <2> QED
    BY <2>1, <2>2
<1> HIDE DEF la, lb, lc, ld, lf, lx
<1> DEFINE last == la + lb + lc
<1>5. End = last
  <2>1. CASE sci
    <3>1. Where(E) = {last + 1}
      BY <1>1, <2>1
    <3> DEFINE e == CHOOSE k \in Where(E) : TRUE
    <3>2. e = last + 1 /\ Where(E) # {}
      BY <3>1
    <3>3. End = e - 1
      BY <3>2 DEF End
    <3> HIDE DEF e
    <3> QED
      BY <1>4, <3>2, <3>3
  <2>2. CASE ~sci
    <3>1. Where(E) = {} /\ Len(text) = last
      BY <1>1, <1>4, <2>2
    <3> QED
      BY <3>1 DEF End
  <2> QED
    BY <2>1, <2>2
<1>6. Start = la + 1 /\ text[Start] = w[1]
  <2>1. Start = la + 1
    BY <1>1, <1>4 DEF Start
  <2>2. 1 \in 1 .. lb
    BY <1>4
  <2> QED
    BY <1>1, <2>1, <2>2
<1>7. End < Len(text) <=> sci
  <2>1. lx \in Nat
    BY <1>3
  <2> QED
    BY <1>1, <1>4, <1>5, <2>1
<1>8. /\ Where(Dot) # {} <=> f # <<>>
      /\ Point = IF f = <<>> THEN last ELSE la + lb + 1
  <2>1. CASE f = <<>>
    BY <1>1, <1>5, <2>1 DEF Point
  <2>2. CASE f # <<>>
    <3>1. Where(Dot) = {la + lb + 1}
      BY <1>1, <2>2
    <3>2. Where(Dot) # {} /\ (CHOOSE k \in Where(Dot) : TRUE) = la + lb + 1
      BY <3>1
    <3> QED
      BY <2>2, <3>2 DEF Point
  <2> QED
    BY <2>1, <2>2
<1>9. Decimals = lf
  <2>1. CASE f = <<>>
    BY <1>4, <1>5, <1>8, <2>1 DEF Decimals
  <2>2. CASE f # <<>>
    <3>1. Point = la + lb + 1 /\ lc = lf + 1
      BY <1>4, <1>8, <2>2
    <3> QED
      BY <1>4, <1>5, <3>1 DEF Decimals
  <2> QED
    BY <2>1, <2>2
<1>10. f # <<>> => text[End] = f[lf]
  <2> SUFFICES ASSUME f # <<>>
               PROVE  text[End] = f[lf]
    OBVIOUS
  <2>1. lc = lf + 1 /\ lf > 0
    BY <1>4
  <2>2. lf \in 1 .. lf /\ la + lb + 1 + lf = last
    BY <1>4, <2>1
  <2>3. text[la + lb + 1 + lf] = f[lf]
    BY <1>1, <2>2
  <2> QED
    BY <1>5, <2>2, <2>3
<1>11. SubSeq(text, la + 1, la + lb) = w
  <2>1. w \in Seq(Int) /\ lb = Len(w)
    BY DEF lb
  <2>2. la + Len(w) <= Len(text)
    BY <1>1, <1>4, <2>1
  <2> QED
    BY <1>1, <1>4, <2>1, <2>2, SliceOfText
<1>12. Written = w \o f
  <2>1. CASE f = <<>>
    <3>1. Where(Dot) = {} /\ End = la + lb
      BY <1>4, <1>5, <1>8, <2>1
    <3>2. Written = w
      BY <1>6, <1>11, <3>1 DEF Written
    <3> QED
      BY <2>1, <3>2, ConcatEmptySeq
  <2>2. CASE f # <<>>
    <3>1. /\ Where(Dot) # {} /\ Point = la + lb + 1 /\ lc = lf + 1
      BY <1>4, <1>8, <2>2
    <3>2. Point - 1 = la + lb /\ Point + 1 = la + lb + 2 /\ End = la + lb + lf + 1
      BY <1>4, <1>5, <3>1
    <3>3. SubSeq(text, la + lb + 2, la + lb + lf + 1) = f
      <4> DEFINE front == la + lb + 1
      <4>5. front \in Nat /\ front + lf <= Len(text)
        BY <1>1, <1>4, <3>1
      <4>1. f \in Seq(Int) /\ lf = Len(f) /\ front \in Nat /\ front + lf <= Len(text)
        BY <4>5 DEF lf
      <4>2. \A k \in 1 .. Len(f) : text[front + k] = f[k]
        BY <1>1, <2>2 DEF lf
      <4>3. front + 1 = la + lb + 2 /\ front + lf = la + lb + lf + 1
        BY <1>4
      <4> HIDE DEF front
      <4>4. SubSeq(text, front + 1, front + Len(f)) = f
        BY <1>1, <4>1, <4>2, SliceOfText
      <4> QED
        BY <4>1, <4>3, <4>4
    <3>4. Written = SubSeq(text, la + 1, la + lb) \o SubSeq(text, la + lb + 2, la + lb + lf + 1)
      BY <1>6, <3>1, <3>2 DEF Written
    <3> QED
      BY <1>11, <3>3, <3>4
  <2> QED
    BY <2>1, <2>2
<1>13. Exponent = IF sci THEN exp ELSE 0
  <2>1. CASE ~sci
    <3>1. End = Len(text)
      BY <1>1, <1>4, <1>5, <2>1
    <3> QED
      BY <2>1, <3>1 DEF Exponent
  <2>2. CASE sci
    <3> DEFINE x == AtLeastTwo(Abs(exp))
               sub == SubSeq(text, End + 3, Len(text))
    <3>1. lx \in Nat /\ Len(text) = last + (lx + 2) /\ End = last /\ last \in Nat
      BY <1>1, <1>3, <1>4, <1>5, <2>2
    <3>2. sub = x
      <4> DEFINE front == last + 2
      <4>1. x \in Seq(Int) /\ lx = Len(x)
        BY <1>3 DEF lx
      <4>2. \A k \in 1 .. Len(x) : text[front + k] = x[k]
        BY <1>2, <2>2 DEF lx
      <4> HIDE DEF x, last
      <4>3. /\ front \in Nat /\ front + lx = Len(text) /\ front + 1 = End + 3
            /\ front + lx <= Len(text)
        BY <3>1
      <4> HIDE DEF front
      <4>4. SubSeq(text, front + 1, front + Len(x)) = x
        BY <1>1, <4>1, <4>2, <4>3, SliceOfText
      <4> QED
        BY <4>1, <4>3, <4>4
    <3> HIDE DEF sub
    <3>3. Num(sub) = Abs(exp)
      BY <1>3, <3>2
    <3>4. text[End + 2] = ExpSign
      BY <1>2, <1>5, <2>2
    <3>5. End # Len(text)
      BY <3>1
    <3>6. Exponent = IF ExpSign = Minus THEN -Abs(exp) ELSE Abs(exp)
      BY <3>3, <3>4, <3>5 DEF Exponent, sub
    <3>7. exp \in Int
      BY Bases DEF FmtTypes
    <3> QED
      BY <2>2, <3>6, <3>7 DEF ExpSign, Minus, Plus, Abs
  <2> QED
    BY <2>1, <2>2
<1> QED
  BY <1>1, <1>6, <1>7, <1>8, <1>9, <1>10, <1>12, <1>13 DEF lf

-----------------------------------------------------------------------------
(***************************************************************************)
(* What each of the three layouts writes.                                  *)
(***************************************************************************)
LeftOutBy(f, sci) == ((IF sci THEN exp ELSE 0) - Len(f)) - (exp - (SIG - 1))

Shape(w, f, sci) ==
  /\ w \in Seq(Nat) /\ f \in Seq(Nat) /\ sci \in BOOLEAN /\ w # <<>>
  /\ Layout = FloatText(w, f, sci)
  /\ f # <<>> => f[Len(f)] # 0
  /\ w[1] = 0 => Len(w) = 1 /\ f # <<>>
  /\ Len(w) <= SIG /\ Len(w) + Len(f) <= SIG - MIN_EXP
  /\ sci => Len(w) = 1 /\ w[1] # 0
  /\ LeftOutBy(f, sci) \in Nat
  /\ Num(w \o f) * Power[LeftOutBy(f, sci)] = Num(mantissa)

LEMMA PowerSum ==
  ASSUME NEW m \in Nat, NEW n \in Nat
  PROVE  Power[m + n] = Power[m] * Power[n]
<1> DEFINE T == {k \in Nat : Power[m + k] = Power[m] * Power[k]}
<1>1. 0 \in T
  <2>1. Power[m] \in Nat /\ Power[0] = 1 /\ m + 0 = m
    BY PowerNatural, PowerSteps
  <2> QED
    BY <2>1
<1>2. ASSUME NEW k \in Nat, k \in T
      PROVE  k + 1 \in T
  <2> DEFINE p == Power[m]
             q == Power[k]
  <2>1. p \in Nat /\ q \in Nat /\ Power[m + k] = p * q
    BY <1>2, PowerNatural
  <2>2. Power[m + k + 1] = TEN * Power[m + k] /\ Power[k + 1] = TEN * q
    BY PowerSteps
  <2>3. m + (k + 1) = m + k + 1
    OBVIOUS
  <2> HIDE DEF p, q
  <2>4. TEN * (p * q) = p * (TEN * q)
    BY <2>1, Bases
  <2>5. Power[m + (k + 1)] = p * Power[k + 1]
    BY <2>1, <2>2, <2>3, <2>4
  <2> QED
    BY <2>5 DEF p
<1>3. Nat \subseteq T
  BY <1>1, <1>2, SetInduction
<1> QED
  BY <1>3

LEMMA Trimmed ==
  ASSUME FmtTypes
  PROVE  /\ Num(Digits) \in Int
         /\ Num(mantissa) = Num(Digits) * Power[SIG - Len(Digits)]
<1> DEFINE n == SIG - Len(Digits)
           z == Zeros(n)
<1>1. Digits \in Seq(Int) /\ n \in Nat /\ mantissa = Digits \o z
  <2>1. Digits \in Seq(Nat) /\ Len(Digits) \in 1 .. SIG /\ mantissa = Digits \o z
    BY DigitsFacts
  <2>2. n \in Nat
    BY <2>1, Bases
  <2> QED
    BY <2>1, <2>2
<1>2. z \in Seq(Int) /\ Len(z) = n /\ Num(z) = 0
  BY <1>1, ZerosText
<1> HIDE DEF z, n
<1>3. Num(Digits) \in Int /\ Num(Digits \o z) = Num(Digits) * Power[Len(z)] + Num(z)
  BY <1>1, <1>2, NumJoined
<1>4. Num(Digits) * Power[n] \in Int
  BY <1>1, <1>3, PowerNatural
<1> QED
  BY <1>1, <1>2, <1>3, <1>4 DEF n

LEMMA ScientificShape ==
  ASSUME FmtTypes, IsScientific
  PROVE  \E w, f, sci : Shape(w, f, sci)
<1> DEFINE d == Digits
           n == Len(d)
           w == <<d[1]>>
           f == Tail(d)
<1>1. d \in Seq(Nat) /\ n \in 1 .. SIG /\ d[1] # 0 /\ d[n] # 0
  BY DigitsFacts
<1>2. /\ w \in Seq(Nat) /\ w # <<>> /\ Len(w) = 1 /\ w[1] = d[1]
      /\ f \in Seq(Nat) /\ Len(f) = n - 1 /\ (f = <<>> <=> n = 1) /\ w \o f = d
  <2> HIDE DEF d
  <2>1. d # <<>> /\ n \in Nat \ {0}
    BY <1>1, Bases
  <2>2. d[1] \in Nat
    BY <1>1, <2>1
  <2>3. f \in Seq(Nat) /\ Len(f) = n - 1
    BY <1>1, <2>1
  <2>4. f = <<>> <=> n = 1
    <3>1. f = <<>> <=> Len(f) = 0
      BY <2>3, EmptySeq
    <3> QED
      BY <2>1, <2>3, <3>1
  <2>5. w \o f = d
    BY <1>1, <2>1
  <2> QED
    BY <2>2, <2>3, <2>4, <2>5
<1>3. Layout = FloatText(w, f, TRUE)
  <2>1. Layout = Sign \o Scientific
    BY DEF Layout, Sign
  <2>2. Len(Digits) > 1 <=> f # <<>>
    BY <1>1, <1>2, Bases
  <2>3. Scientific = (w \o Fraction(f)) \o Scale(TRUE)
    BY <2>2, Zenon DEF Scientific, Fraction, Scale, ExpSign
  <2> QED
    BY <2>1, <2>3 DEF FloatText
<1>4. f # <<>> => f[Len(f)] # 0
  BY <1>1, <1>2, Bases
<1>5. LeftOutBy(f, TRUE) = SIG - n
  <2>1. exp \in Int /\ n \in Int
    BY <1>1, Bases DEF FmtTypes
  <2> HIDE DEF n, f
  <2> QED
    BY <1>2, <2>1, Bases DEF LeftOutBy
<1>6. Num(w \o f) * Power[LeftOutBy(f, TRUE)] = Num(mantissa) /\ SIG - n \in Nat
  <2>1. SIG - n \in Nat
    BY <1>1, Bases
  <2> QED
    BY <1>2, <1>5, <2>1, Trimmed
<1>7. Len(w) <= SIG /\ Len(w) + Len(f) <= SIG - MIN_EXP
  BY <1>1, <1>2, Bases
<1> HIDE DEF d, n, w, f
<1>8. Shape(w, f, TRUE)
  BY <1>1, <1>2, <1>3, <1>4, <1>5, <1>6, <1>7 DEF Shape
<1> QED
  BY <1>8

LEMMA PaddedShape ==
  ASSUME FmtTypes, ~IsScientific, exp >= 0, Len(Digits) <= exp + 1
  PROVE  \E w, f, sci : Shape(w, f, sci)
<1> DEFINE d == Digits
           n == Len(d)
           ip == exp + 1
           z == Zeros(ip - n)
           w == d \o z
<1>1. d \in Seq(Nat) /\ d \in Seq(Int) /\ n \in 1 .. SIG /\ d[1] # 0
  BY DigitsFacts
<1>2. exp \in Nat /\ ip \in Nat /\ ip <= SIG /\ ip - n \in Nat /\ n \in Nat \ {0}
  BY <1>1, Bases DEF FmtTypes, IsScientific
<1>3. z \in Seq(Digit) /\ z \in Seq(Int) /\ Len(z) = ip - n /\ Num(z) = 0
  BY <1>2, ZerosText
<1>4. z \in Seq(Nat)
  BY <1>3, DigitIsNatural
<1> HIDE DEF d, z, ip
<1>5. /\ w \in Seq(Nat) /\ w \in Seq(Int) /\ Len(w) = Len(d) + Len(z)
      /\ \A k \in 1 .. Len(d) : w[k] = d[k]
  <2>1. w \in Seq(Nat)
    BY <1>1, <1>4, ConcatProperties
  <2> QED
    BY <1>1, <1>3, <2>1, JoinedText
<1>6. Len(w) = ip /\ w[1] = d[1] /\ w # <<>>
  BY <1>1, <1>2, <1>3, <1>5
<1>7. w \o <<>> = w /\ <<>> \in Seq(Nat) /\ Len(<<>>) = 0
  BY <1>5, ConcatEmptySeq
<1>8. Layout = FloatText(w, <<>>, FALSE)
  <2>1. Layout = Sign \o w
    BY DEF Layout, Sign, Integral, w, d, z, ip
  <2>2. FloatText(w, <<>>, FALSE) = Sign \o ((w \o <<>>) \o <<>>)
    BY DEF FloatText, Fraction, Scale
  <2> QED
    BY <1>7, <2>1, <2>2
<1>9. LeftOutBy(<<>>, FALSE) = SIG - ip /\ SIG - ip \in Nat
  BY <1>2, <1>7, Bases DEF LeftOutBy, ip
<1>10. Num(w) * Power[SIG - ip] = Num(mantissa)
  <2> DEFINE x == Num(d)
             p == Power[ip - n]
             q == Power[SIG - ip]
  <2>1. x \in Int /\ Num(mantissa) = x * Power[SIG - n]
    BY Trimmed DEF d
  <2>2. p \in Nat /\ q \in Nat
    BY <1>2, <1>9, PowerNatural
  <2>3. Num(w) = x * p + Num(z)
    BY <1>1, <1>3, NumJoined
  <2>4. Power[(ip - n) + (SIG - ip)] = p * q
    BY <1>2, <1>9, PowerSum
  <2>5. (ip - n) + (SIG - ip) = SIG - n
    BY <1>2, Bases
  <2> HIDE DEF x, p, q, n
  <2>6. (x * p + 0) * q = x * (p * q)
    BY <2>1, <2>2
  <2>7. Num(w) * q = x * (p * q)
    BY <1>3, <2>3, <2>6
  <2>8. Num(w) * q = Num(mantissa)
    BY <2>1, <2>4, <2>5, <2>7
  <2> QED
    BY <2>8 DEF q
<1> HIDE DEF w
<1>11. Shape(w, <<>>, FALSE)
  <2>1. Len(w) <= SIG /\ Len(w) + 0 <= SIG - MIN_EXP
    BY <1>2, <1>6, Bases
  <2> QED
    BY <1>1, <1>5, <1>6, <1>7, <1>8, <1>9, <1>10, <2>1 DEF Shape
<1> QED
  BY <1>11

LEMMA PointedShape ==
  ASSUME FmtTypes, ~IsScientific, exp >= 0, ~(Len(Digits) <= exp + 1)
  PROVE  \E w, f, sci : Shape(w, f, sci)
<1> DEFINE d == Digits
           n == Len(d)
           ip == exp + 1
           w == SubSeq(d, 1, ip)
           f == SubSeq(d, ip + 1, n)
<1>1. d \in Seq(Nat) /\ n \in 1 .. SIG /\ d[1] # 0 /\ d[n] # 0
  BY DigitsFacts
<1>2. exp \in Nat /\ ip \in Nat \ {0} /\ ip <= SIG /\ ip < n /\ n \in Nat
  BY <1>1, Bases DEF FmtTypes, IsScientific
<1> HIDE DEF d, ip
<1>3. w \in Seq(Nat) /\ Len(w) = ip /\ w[1] = d[1] /\ w # <<>>
  <2>1. w \in Seq(Nat) /\ Len(w) = ip /\ w[1] = d[1]
    BY <1>1, <1>2
  <2> QED
    BY <1>2, <2>1
<1>4. f \in Seq(Nat) /\ Len(f) = n - ip /\ f[n - ip] = d[n] /\ f # <<>>
  <2>1. f \in Seq(Nat) /\ Len(f) = n - ip
    BY <1>1, <1>2
  <2>2. f[n - ip] = d[n]
    BY <1>1, <1>2
  <2>3. n - ip # 0
    BY <1>2
  <2> HIDE DEF f
  <2>4. f # <<>>
    BY <2>1, <2>3
  <2> QED
    BY <2>1, <2>2, <2>4
<1>5. w \o f = d
  <2>1. SubSeq(d, 1, ip) \o SubSeq(d, ip + 1, n) = SubSeq(d, 1, n)
    <3>1. 1 \in 1 .. Len(d) + 1 /\ ip \in 1 - 1 .. Len(d) /\ n \in ip .. Len(d)
      BY <1>2
    <3> QED
      BY <1>1, <3>1, ConcatAdjacentSubSeq
  <2>2. SubSeq(d, 1, n) = d
    BY <1>1
  <2> QED
    BY <2>1, <2>2
<1>6. Layout = FloatText(w, f, FALSE)
  <2>1. Layout = Sign \o (w \o (<<Dot>> \o f))
    BY DEF Layout, Sign, Integral, w, f, d, ip
  <2>2. FloatText(w, f, FALSE) = Sign \o ((w \o (<<Dot>> \o f)) \o <<>>)
    BY <1>4 DEF FloatText, Fraction, Scale
  <2>3. w \o (<<Dot>> \o f) \in Seq(Int)
    <3> HIDE DEF w, f
    <3>1. <<Dot>> \in Seq(Int) /\ f \in Seq(Int) /\ w \in Seq(Int)
      BY <1>3, <1>4 DEF Dot
    <3>2. <<Dot>> \o f \in Seq(Int)
      BY <3>1, ConcatProperties
    <3> QED
      BY <3>1, <3>2, ConcatProperties
  <2> QED
    BY <2>1, <2>2, <2>3, ConcatEmptySeq
<1>7. LeftOutBy(f, FALSE) = SIG - n /\ SIG - n \in Nat
  <2> HIDE DEF f, n
  <2>1. n <= SIG
    BY <1>1, Bases
  <2> QED
    BY <1>2, <1>4, <2>1, Bases DEF LeftOutBy, ip
<1>8. Num(w \o f) * Power[SIG - n] = Num(mantissa)
  BY <1>5, Trimmed DEF d
<1>9. Len(w) <= SIG /\ Len(w) + Len(f) <= SIG - MIN_EXP
  <2>1. n <= SIG
    BY <1>1, Bases
  <2> HIDE DEF w, f, n
  <2> QED
    BY <1>2, <1>3, <1>4, <2>1, Bases
<1> HIDE DEF w, f, n
<1>10. Shape(w, f, FALSE)
  BY <1>1, <1>3, <1>4, <1>6, <1>7, <1>8, <1>9 DEF Shape
<1> QED
  BY <1>10

LEMMA FractionalShape ==
  ASSUME FmtTypes, ~IsScientific, ~(exp >= 0)
  PROVE  \E w, f, sci : Shape(w, f, sci)
<1> DEFINE d == Digits
           n == Len(d)
           m == -exp - 1
           z == Zeros(m)
           w == <<0>>
           f == z \o d
<1>1. d \in Seq(Nat) /\ d \in Seq(Int) /\ n \in 1 .. SIG /\ d[n] # 0
  BY DigitsFacts
<1>2. exp \in Int /\ m \in Nat /\ n \in Nat \ {0} /\ exp >= MIN_EXP
  BY <1>1, Bases DEF FmtTypes, IsScientific
<1>3. z \in Seq(Digit) /\ z \in Seq(Int) /\ Len(z) = m /\ Num(z) = 0
  BY <1>2, ZerosText
<1>4. z \in Seq(Nat)
  BY <1>3, DigitIsNatural
<1> HIDE DEF d, z, m
<1>5. /\ f \in Seq(Nat) /\ f \in Seq(Int) /\ Len(f) = Len(z) + Len(d)
      /\ \A k \in 1 .. Len(d) : f[Len(z) + k] = d[k]
      /\ Num(f) = Num(z) * Power[Len(d)] + Num(d)
  <2>1. f \in Seq(Nat)
    BY <1>1, <1>4, ConcatProperties
  <2> QED
    BY <1>1, <1>3, <2>1, JoinedText, NumJoined
<1>6. Len(f) = m + n /\ f[m + n] = d[n] /\ f # <<>>
  <2>1. n \in 1 .. Len(d) /\ Len(f) = m + n
    BY <1>2, <1>3, <1>5
  <2> QED
    BY <1>2, <1>3, <1>5, <2>1
<1>7. Num(d) \in Int /\ Num(mantissa) = Num(d) * Power[SIG - n]
  BY Trimmed DEF d
<1>8. Num(f) = Num(d)
  <2>1. Power[Len(d)] \in Nat
    BY <1>2, PowerNatural
  <2> QED
    BY <1>3, <1>5, <1>7, <2>1
<1> HIDE DEF f
<1>9. w \in Seq(Nat) /\ w \in Seq(Int) /\ Len(w) = 1 /\ w[1] = 0 /\ w # <<>> /\ Num(w) = 0
  BY OneDigit
<1> HIDE DEF w
<1>10. Num(w \o f) = Num(d)
  <2>1. Num(w \o f) = Num(w) * Power[Len(f)] + Num(f)
    BY <1>5, <1>9, NumJoined
  <2>2. Power[Len(f)] \in Nat
    BY <1>2, <1>6, PowerNatural
  <2> QED
    BY <1>7, <1>8, <1>9, <2>1, <2>2
<1>11. Layout = FloatText(w, f, FALSE)
  <2>1. Layout = Sign \o (w \o (<<Dot>> \o f))
    BY DEF Layout, Sign, Fractional, w, f, d, z, m
  <2>2. FloatText(w, f, FALSE) = Sign \o ((w \o (<<Dot>> \o f)) \o <<>>)
    BY <1>6 DEF FloatText, Fraction, Scale
  <2>3. w \o (<<Dot>> \o f) \in Seq(Int)
    <3>1. <<Dot>> \in Seq(Int)
      BY DEF Dot
    <3>2. <<Dot>> \o f \in Seq(Int)
      BY <1>5, <3>1, ConcatProperties
    <3> QED
      BY <1>9, <3>2, ConcatProperties
  <2> QED
    BY <2>1, <2>2, <2>3, ConcatEmptySeq
<1>12. LeftOutBy(f, FALSE) = SIG - n /\ SIG - n \in Nat
  <2>1. n <= SIG
    BY <1>1, Bases
  <2> HIDE DEF n
  <2> QED
    BY <1>2, <1>6, <2>1, Bases DEF LeftOutBy, m
<1>13. Len(w) <= SIG /\ Len(w) + Len(f) <= SIG - MIN_EXP
  <2>1. n <= SIG
    BY <1>1, Bases
  <2> HIDE DEF n
  <2> QED
    BY <1>2, <1>6, <1>9, <2>1, Bases DEF m
<1> HIDE DEF n
<1>14. Shape(w, f, FALSE)
  BY <1>1, <1>5, <1>6, <1>7, <1>9, <1>10, <1>11, <1>12, <1>13 DEF Shape
<1> QED
  BY <1>14

LEMMA LayoutShape ==
  ASSUME FmtTypes
  PROVE  \E w, f, sci : Shape(w, f, sci)
BY ScientificShape, PaddedShape, PointedShape, FractionalShape

\* A text as a layout writes it is the one text of the number, and reads back.
LEMMA LayoutGood ==
  ASSUME FmtTypes, text = Layout
  PROVE  ReadsBack /\ OneText
<1>1. PICK w, f, sci : Shape(w, f, sci)
  BY LayoutShape
<1>2. /\ w \in Seq(Nat) /\ f \in Seq(Nat) /\ sci \in BOOLEAN /\ w # <<>>
      /\ text = FloatText(w, f, sci)
      /\ f # <<>> => f[Len(f)] # 0
      /\ w[1] = 0 => Len(w) = 1 /\ f # <<>>
      /\ Len(w) <= SIG /\ Len(w) + Len(f) <= SIG - MIN_EXP
      /\ sci => Len(w) = 1 /\ w[1] # 0
      /\ LeftOutBy(f, sci) \in Nat
      /\ Num(w \o f) * Power[LeftOutBy(f, sci)] = Num(mantissa)
  BY <1>1 DEF Shape
<1>3. /\ IsMinus <=> neg
      /\ text[Start] = w[1]
      /\ End < Len(text) <=> sci
      /\ Where(Dot) # {} <=> f # <<>>
      /\ f # <<>> => text[End] = f[Len(f)]
      /\ Written = w \o f
      /\ Decimals = Len(f)
      /\ Exponent = IF sci THEN exp ELSE 0
  BY <1>2, TextReads
<1>4. Len(Written) = Len(w) + Len(f) /\ Whole = Len(w) /\ Len(f) \in Nat
  <2>1. Len(w \o f) = Len(w) + Len(f) /\ Len(w) \in Nat /\ Len(f) \in Nat
    BY <1>2, ConcatProperties
  <2> QED
    BY <1>3, <2>1 DEF Whole
<1>5. f # <<>> => Len(f) > 0
  BY <1>2, <1>4, EmptySeq
<1>6. OneText
  BY <1>2, <1>3, <1>4, <1>5 DEF OneText
<1>7. LeftOut = LeftOutBy(f, sci)
  BY <1>3 DEF LeftOut, LeftOutBy
<1>8. IsMinus = neg
  BY <1>3 DEF FmtTypes, IsMinus
<1>9. ReadsBack
  BY <1>2, <1>3, <1>7, <1>8 DEF ReadsBack
<1> QED
  BY <1>6, <1>9

-----------------------------------------------------------------------------
(***************************************************************************)
(* The inductive invariant: what is written of a number is its layout.     *)
(***************************************************************************)
FmtInv ==
  /\ FmtTypes
  /\ Formatted => text = Layout

LEMMA FormatKeepsLayout == FmtInv /\ [FmtNext]_fmtVars => FmtInv'
<1> SUFFICES ASSUME FmtInv, [FmtNext]_fmtVars
             PROVE  FmtInv'
  OBVIOUS
<1>1. UNCHANGED <<class, neg, mantissa, exp>>
  BY DEF FmtNext, Format, fmtVars
<1>2. FmtTypes'
  BY <1>1 DEF FmtInv, FmtTypes
<1>3. Layout' = Layout
  <2>1. Digits' = Digits
    BY <1>1 DEF Digits
  <2>2. Scientific' = Scientific /\ Integral' = Integral /\ Fractional' = Fractional
    BY <1>1, <2>1 DEF Scientific, Integral, Fractional
  <2> QED
    BY <1>1, <2>2 DEF Layout, IsScientific
<1>4. CASE FmtNext
  BY <1>1, <1>2, <1>3, <1>4 DEF FmtNext, Format, FmtInv, Formatted
<1>5. CASE UNCHANGED fmtVars
  BY <1>1, <1>2, <1>3, <1>5 DEF fmtVars, FmtInv, Formatted
<1> QED
  BY <1>4, <1>5

\* The text of a number is its layout, in every state.
THEOREM FmtInvariant == FmtSpec => []FmtInv
<1>1. FmtInit => FmtInv
  BY DEF FmtInit, FmtInv, FmtTypes, Formatted
<1> QED
  BY <1>1, FormatKeepsLayout, PTL DEF FmtSpec

LEMMA FmtInvGood == FmtInv => ReadsBack /\ OneText
<1>1. FmtInv /\ Formatted => ReadsBack /\ OneText
  BY LayoutGood DEF FmtInv
<1> QED
  BY <1>1 DEF ReadsBack, OneText

(***************************************************************************)
(* Whatever a float is written as, fmt_net has lost none of its digits:    *)
(* read again, the text is the number that was rounded to SIG digits.      *)
(***************************************************************************)
THEOREM FloatsReadBack == FmtSpec => []ReadsBack
BY FmtInvariant, FmtInvGood, PTL

(***************************************************************************)
(* fmt_net writes each number in one way only: no zero too many on either  *)
(* side, and an exponent exactly where the digits would become too many.   *)
(***************************************************************************)
THEOREM FloatsHaveOneText == FmtSpec => []OneText
BY FmtInvariant, FmtInvGood, PTL

-----------------------------------------------------------------------------
(***************************************************************************)
(* The passes over whole tables, together.  None writes what another one   *)
(* reads, so each behaves in the composition as it does alone.             *)
(***************************************************************************)
LEMMA PartsBegin == TablesInit => Init /\ ScanAlone /\ LiteralInit /\ FmtInit
BY DEF TablesInit, CountsIdle, ScanIdle, LiteralIdle, FmtIdle

LEMMA PartsMove ==
  ASSUME [TablesNext]_tableVars
  PROVE  /\ [CountsNext]_countVars /\ [ScanNext]_scanVars
         /\ [LiteralNext]_literalVars /\ [FmtNext]_fmtVars
BY DEF TablesNext, tableVars

(***************************************************************************)
(* The counts of methods, the table of defaults, a literal and the text of *)
(* a float: a behaviour of the composed passes is one of each pass.        *)
(***************************************************************************)
THEOREM TablesImplementParts ==
  TablesSpec => Spec /\ ScanSpec /\ LiteralSpec /\ FmtSpec
BY PartsBegin, PartsMove, PTL DEF TablesSpec, Spec, ScanSpec, LiteralSpec, FmtSpec
=============================================================================
