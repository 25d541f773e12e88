---------------------------- MODULE NaturalLemmas ----------------------------
(* Facts about the natural numbers that several proof modules rest on.      *)
EXTENDS Integers, TLAPS, WellFoundedInduction

(***************************************************************************)
(* A non-empty set of natural numbers has a least element: what the proofs *)
(* about "the next larger" and "the first" of src/ need of the naturals.   *)
(***************************************************************************)
LEMMA LeastNatural ==
  ASSUME NEW T, T \subseteq Nat, T # {}
  PROVE  \E x \in T : \A y \in T : x <= y
<1>1. \E R : /\ IsWellFoundedOn(R, Nat)
             /\ \A x, y \in Nat : x < y => <<x, y>> \in R
  <2>1. \A x, y \in Nat : x < y => <<x, y>> \in OpToRel(<, Nat)
    BY DEF OpToRel
  <2> QED
    BY <2>1, NatLessThanWellFounded, Zenon
<1>2. PICK R : /\ IsWellFoundedOn(R, Nat)
               /\ \A x, y \in Nat : x < y => <<x, y>> \in R
  BY <1>1
<1>3. PICK x \in T : \A y \in T : ~(<<y, x>> \in R)
  BY <1>2, WFMin, ZenonT(60)
<1>4. ASSUME NEW y \in T
      PROVE  x <= y
  <2>1. ~(y < x)
    BY <1>2, <1>3, Zenon
  <2> QED
    BY <2>1
<1> QED
  BY <1>4

\* A set that holds 0, and n + 1 with every n, holds all natural numbers.
LEMMA SetInduction ==
  ASSUME NEW T, 0 \in T, \A n \in Nat : n \in T => n + 1 \in T
  PROVE  Nat \subseteq T
<1> DEFINE Rest == {n \in Nat : n \notin T}
<1> SUFFICES ASSUME Rest # {} PROVE FALSE
  OBVIOUS
<1>1. Rest \subseteq Nat
  OBVIOUS
<1>2. PICK n \in Rest : \A m \in Rest : n <= m
  BY <1>1, LeastNatural
<1>3. n \in Nat /\ n \notin T /\ n # 0
  BY <1>2
<1>4. n - 1 \in Nat /\ n - 1 + 1 = n /\ ~(n <= n - 1)
  BY <1>3
<1>5. n - 1 \in T
  BY <1>2, <1>4
<1> QED
  BY <1>3, <1>4, <1>5

(***************************************************************************)
(* A non-empty set of integers bounded from above has a greatest element.  *)
(***************************************************************************)
LEMMA GreatestBounded ==
  ASSUME NEW b \in Int, NEW T, T \subseteq Int, T # {}, \A y \in T : y <= b
  PROVE  \E x \in T : \A y \in T : y <= x
<1> DEFINE D == {b - y : y \in T}
<1>1. D \subseteq Nat /\ D # {}
  <2>1. PICK t : t \in T
    OBVIOUS
  <2>2. b - t \in D
    BY <2>1
  <2>3. ASSUME NEW y \in T
        PROVE  b - y \in Nat
    <3>1. y \in Int /\ y <= b
      OBVIOUS
    <3> QED
      BY <3>1
  <2> QED
    BY <2>2, <2>3
<1> HIDE DEF D
<1>2. PICK d \in D : \A e \in D : d <= e
  BY <1>1, LeastNatural
<1>3. PICK x \in T : d = b - x
  BY <1>2 DEF D
<1>4. ASSUME NEW y \in T
      PROVE  y <= x
  <2>1. b - y \in D
    BY DEF D
  <2> QED
    BY <1>2, <1>3, <2>1
<1> QED
  BY <1>4

(***************************************************************************)
(* The least and the greatest of a set are what CHOOSE finds.              *)
(***************************************************************************)
LEMMA ChosenLeast ==
  ASSUME NEW T, T \subseteq Int, NEW e \in T, \A y \in T : e <= y
  PROVE  (CHOOSE x \in T : \A y \in T : x <= y) = e
<1> DEFINE c == CHOOSE x \in T : \A y \in T : x <= y
<1>1. c \in T /\ \A y \in T : c <= y
  OBVIOUS
<1> HIDE DEF c
<1>2. c = e
  BY <1>1
<1> QED
  BY <1>2 DEF c

LEMMA ChosenGreatest ==
  ASSUME NEW T, T \subseteq Int, NEW e \in T, \A y \in T : y <= e
  PROVE  (CHOOSE x \in T : \A y \in T : y <= x) = e
<1> DEFINE c == CHOOSE x \in T : \A y \in T : y <= x
<1>1. c \in T /\ \A y \in T : y <= c
  OBVIOUS
<1> HIDE DEF c
<1>2. c = e
  BY <1>1
<1> QED
  BY <1>2 DEF c

-----------------------------------------------------------------------------
(***************************************************************************)
(* Residues: what a sum is as an unsigned number of some width.            *)
(***************************************************************************)
LEMMA ResidueOf ==
  ASSUME NEW u \in Nat \ {0}, NEW x \in Int
  PROVE  /\ x % u \in 0 .. u - 1
         /\ x \in 0 .. u - 1 => x % u = x
         /\ x \in -u .. -1 => x % u = x + u
OBVIOUS

LEMMA QuotientUnique ==
  ASSUME NEW u \in Nat \ {0}, NEW q \in Int, NEW r \in 0 .. u - 1, NEW x \in Int,
         x = q * u + r
  PROVE  x % u = r /\ x \div u = q
OBVIOUS

LEMMA ResidueShift ==
  ASSUME NEW u \in Nat \ {0}, NEW x \in Int, NEW k \in Int
  PROVE  (x + k * u) % u = x % u
<1> DEFINE q == x \div u
           r == x % u
<1>1. q \in Int /\ r \in 0 .. u - 1 /\ x = q * u + r
  OBVIOUS
<1> HIDE DEF q, r
<1>2. x + k * u = (q + k) * u + r /\ q + k \in Int
  BY <1>1
<1>3. (x + k * u) % u = r
  BY <1>1, <1>2, QuotientUnique
<1> QED
  BY <1>3 DEF r

LEMMA ResidueSum ==
  ASSUME NEW u \in Nat \ {0}, NEW x \in Int, NEW y \in Int
  PROVE  ((x % u) + y) % u = (x + y) % u
<1> DEFINE q == x \div u
           r == x % u
<1>1. q \in Int /\ r \in Int /\ x = q * u + r
  OBVIOUS
<1> HIDE DEF q, r
<1>2. x + y = (r + y) + q * u /\ r + y \in Int
  BY <1>1
<1>3. ((r + y) + q * u) % u = (r + y) % u
  BY <1>1, <1>2, ResidueShift, Zenon
<1> QED
  BY <1>2, <1>3 DEF r

(***************************************************************************)
(* A number counted in blocks, and the blocks that n of something fill.    *)
(***************************************************************************)
LEMMA BlockPosition ==
  ASSUME NEW b \in Nat \ {0}, NEW k \in Nat, NEW j \in 0 .. b - 1
  PROVE  (k * b + j) \div b = k /\ (k * b + j) % b = j
BY QuotientUnique

LEMMA BlocksFill ==
  ASSUME NEW b \in Nat \ {0}, NEW n \in Nat
  PROVE  (n + b - 1) \div b \in Nat /\ n <= ((n + b - 1) \div b) * b
OBVIOUS
-----------------------------------------------------------------------------
(***************************************************************************)
(* A function on the naturals may be defined by its first value and a step *)
(* from each value to the next.                                            *)
(***************************************************************************)
IsIteration(f, S, first, step) ==
  /\ f \in [Nat -> S] /\ f[0] = first
  /\ \A n \in Nat : f[n + 1] = step[<<n, f[n]>>]

LEMMA IterationExists ==
  ASSUME NEW S, NEW first \in S, NEW step \in [Nat \X S -> S]
  PROVE  \E f : IsIteration(f, S, first, step)
<1> DEFINE Upto(m, g) == /\ g \in [0 .. m -> S] /\ g[0] = first
                         /\ \A n \in 0 .. m - 1 : g[n + 1] = step[<<n, g[n]>>]
<1>1. ASSUME NEW m \in Nat
      PROVE  \E g : Upto(m, g)
  <2> DEFINE T == {n \in Nat : ~\E g : Upto(n, g)}
  <2> SUFFICES ASSUME T # {} PROVE FALSE
    OBVIOUS
  <2>1. PICK l \in T : \A n \in T : l <= n
    BY LeastNatural
  <2>2. l # 0
    <3>1. Upto(0, [n \in 0 .. 0 |-> first])
      OBVIOUS
    <3> QED
      BY <2>1, <3>1
  <2>3. PICK g : Upto(l - 1, g)
    <3>1. l - 1 \in Nat /\ ~(l <= l - 1)
      BY <2>1, <2>2
    <3> QED
      BY <2>1, <3>1
  <2> DEFINE h == [n \in 0 .. l |-> IF n = l THEN step[<<l - 1, g[l - 1]>>] ELSE g[n]]
  <2>4. l \in Nat /\ l - 1 \in 0 .. l - 1 /\ g[l - 1] \in S /\ 0 \in 0 .. l
    BY <2>1, <2>2, <2>3
  <2>5. h \in [0 .. l -> S] /\ h[0] = first
    <3>1. step[<<l - 1, g[l - 1]>>] \in S
      BY <2>4
    <3>2. ASSUME NEW n \in 0 .. l
          PROVE  h[n] \in S
      BY <2>3, <2>4, <3>1
    <3> QED
      BY <2>2, <2>3, <2>4, <3>2
  <2>6. ASSUME NEW n \in 0 .. l - 1
        PROVE  h[n + 1] = step[<<n, h[n]>>]
    <3>1. n \in 0 .. l /\ n + 1 \in 0 .. l /\ n # l /\ h[n] = g[n]
      BY <2>4
    <3>2. CASE n + 1 = l
      BY <2>4, <3>1, <3>2
    <3>3. CASE n + 1 # l
      <4>1. n \in 0 .. l - 1 - 1
        BY <2>4, <3>3
      <4>2. g[n + 1] = step[<<n, g[n]>>]
        BY <2>3, <4>1
      <4> QED
        BY <3>1, <3>3, <4>2
    <3> QED
      BY <3>2, <3>3
  <2>7. Upto(l, h)
    BY <2>5, <2>6
  <2> QED
    BY <2>1, <2>7
<1>2. ASSUME NEW m \in Nat, NEW l \in Nat, m <= l, NEW g, Upto(m, g), NEW h, Upto(l, h),
             NEW n \in 0 .. m
      PROVE  g[n] = h[n]
  <2> DEFINE T == {i \in 0 .. m : g[i] # h[i]}
  <2> SUFFICES ASSUME T # {} PROVE FALSE
    OBVIOUS
  <2>1. T \subseteq Nat
    OBVIOUS
  <2>2. PICK i \in T : \A j \in T : i <= j
    BY <2>1, LeastNatural
  <2>3. i # 0 /\ i \in 0 .. m
    BY <1>2, <2>2
  <2>4. i - 1 \in 0 .. m - 1 /\ i - 1 \in 0 .. l - 1 /\ i - 1 \in 0 .. m /\ i - 1 + 1 = i
        /\ ~(i <= i - 1)
    BY <1>2, <2>3
  <2>5. g[i - 1] = h[i - 1]
    BY <2>2, <2>4
  <2>6. g[i] = step[<<i - 1, g[i - 1]>>]
    BY <1>2, <2>4
  <2>7. h[i] = step[<<i - 1, h[i - 1]>>]
    BY <1>2, <2>4
  <2> QED
    BY <2>2, <2>5, <2>6, <2>7
<1> DEFINE G(m) == CHOOSE g : Upto(m, g)
           f == [m \in Nat |-> G(m)[m]]
<1>3. \A m \in Nat : Upto(m, G(m))
  BY <1>1
<1> HIDE DEF G
<1>4. ASSUME NEW m \in Nat
      PROVE  G(m) \in [0 .. m -> S] /\ G(m)[0] = first /\ m \in 0 .. m
  BY <1>3
<1>5. f \in [Nat -> S] /\ f[0] = first
  BY <1>4
<1>6. ASSUME NEW n \in Nat
      PROVE  f[n + 1] = step[<<n, f[n]>>]
  <2>1. n + 1 \in Nat /\ n \in 0 .. n + 1 - 1 /\ n \in 0 .. n /\ n <= n + 1
    OBVIOUS
  <2>2. Upto(n, G(n)) /\ Upto(n + 1, G(n + 1))
    BY <1>3, <2>1
  <2>3. G(n + 1)[n + 1] = step[<<n, G(n + 1)[n]>>]
    BY <2>1, <2>2
  <2> HIDE DEF Upto
  <2>4. G(n)[n] = G(n + 1)[n]
    BY <1>2, <2>1, <2>2
  <2> QED
    BY <2>1, <2>3, <2>4
<1>7. IsIteration(f, S, first, step)
  BY <1>5, <1>6 DEF IsIteration
<1> QED
  BY <1>7

=============================================================================
