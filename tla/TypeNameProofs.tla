--------------------------- MODULE TypeNameProofs ---------------------------
(* Proofs about type_name: for every image, cyclic ones included, and for   *)
(* every bound on the depth.                                                *)
EXTENDS TypeName, NaturalLemmas, FiniteSetTheorems, SequenceTheorems

(***************************************************************************)
(* The inductive invariant: the calls made so far stand at the types       *)
(* passed, one after the other; while they return, the suffixes of the     *)
(* innermost ones are out and those of the others still on the stack.      *)
(***************************************************************************)
Stacked == [k \in 1 .. Len(stack) |-> Suffix(Passed[k - 1])]

\* What the innermost call returns behind its word, and the first c wrapped
\* around it.
Innermost == IF Broken /\ ~Array(Arrived) THEN <<Suffix(Arrived)>> ELSE <<>>
Wrapped(c) == Innermost \o [k \in 1 .. c |-> Suffix(Passed[Steps - k])]

Calling == npc \in {"call", "panic"}
Finished == npc = "done"
Panicked == npc = "panic"
HasText(w) == w.id # ""

NameInv ==
  /\ cell \in [Off -> Cells] /\ start \in Off /\ tp \in Off
  /\ depth \in 0 .. MAX_DEPTH + 1
  /\ \A k \in 0 .. depth : Passed[k] # Unmapped
  /\ tp = Passed[depth]
  /\ stack \in Seq(Nat) /\ stack = Stacked
  /\ Calling => Len(stack) = depth
  /\ Panicked => ~TooDeep(depth) /\ Readable(tp) /\ ParameterPanics(cell[tp])
  /\ ~Calling =>
       /\ ~PanicDue
       /\ Len(stack) <= depth /\ depth = Steps
       /\ HasText(base) /\ base = FirstWord
       /\ suffixes = Wrapped(depth - Len(stack))
  /\ Finished => stack = <<>>

-----------------------------------------------------------------------------
LEMMA Depths == MAX_DEPTH \in Nat
BY TypeNameAssumption

LEMMA CellFacts ==
  ASSUME cell \in [Off -> Cells], NEW o \in Off
  PROVE  /\ cell[o].to \in Off \union {Unmapped} /\ cell[o].rank \in Nat
         /\ o \in Nat /\ o # Unmapped
BY TypeNameAssumption

LEMMA CellKinds ==
  ASSUME cell \in [Off -> Cells], NEW o \in Off
  PROVE  cell[o].kind \in LeafKinds \union {"ptr", "szarray", "array"}
BY TypeNameAssumption

\* An element is another type of the image, or there is none.
LEMMA ElementThere ==
  ASSUME cell \in [Off -> Cells], NEW o \in Off
  PROVE  Element(o) \in Off \union {Unmapped}
<1>1. cell[o].to \in Off \union {Unmapped}
  BY CellFacts
<1>2. ASSUME NEW a \in Off PROVE cell[a].to \in Off \union {Unmapped}
  BY CellFacts
<1> QED
  BY <1>1, <1>2 DEF Element, ArrayElement

LEMMA StepThere ==
  ASSUME cell \in [Off -> Cells], NEW o \in Off \union {Unmapped}
  PROVE  StepFrom(o) \in Off \union {Unmapped}
BY ElementThere DEF StepFrom

(***************************************************************************)
(* The recursive function of the types passed is the one it says.          *)
(***************************************************************************)
IsPassed(g) ==
  g = [k \in 0 .. MAX_DEPTH + 1 |-> IF k = 0 THEN start ELSE StepFrom(g[k - 1])]

LEMMA PassedChosen == Passed = CHOOSE g : IsPassed(g)
BY DEF Passed, IsPassed

LEMMA PassedIs ==
  ASSUME cell \in [Off -> Cells], start \in Off
  PROVE  IsPassed(Passed)
<1> DEFINE S == Off \union {Unmapped}
           step == [p \in Nat \X S |-> StepFrom(p[2])]
<1>1. step \in [Nat \X S -> S] /\ start \in S
  BY StepThere
<1>2. \A l \in Nat, v \in S : step[<<l, v>>] = StepFrom(v)
  OBVIOUS
<1> HIDE DEF step, S
<1>3. PICK f : IsIteration(f, S, start, step)
  BY <1>1, IterationExists
<1>4. /\ f \in [Nat -> S] /\ f[0] = start
      /\ \A l \in Nat : f[l + 1] = step[<<l, f[l]>>]
  BY <1>3 DEF IsIteration
<1> DEFINE g == [k \in 0 .. MAX_DEPTH + 1 |-> f[k]]
<1>5. ASSUME NEW k \in 0 .. MAX_DEPTH + 1
      PROVE  g[k] = IF k = 0 THEN start ELSE StepFrom(g[k - 1])
  <2>1. CASE k = 0
    BY <1>4, <2>1
  <2>2. CASE k # 0
    <3>1. k - 1 \in Nat /\ k - 1 \in 0 .. MAX_DEPTH + 1 /\ k - 1 + 1 = k
      BY <2>2, Depths
    <3>2. f[k] = step[<<k - 1, f[k - 1]>>] /\ f[k - 1] \in S
      BY <1>4, <3>1
    <3>3. f[k] = StepFrom(f[k - 1])
      BY <1>2, <3>1, <3>2
    <3> QED
      BY <2>2, <3>1, <3>3
  <2> QED
    BY <2>1, <2>2
<1>6. IsPassed(g)
  <2> HIDE DEF StepFrom
  <2> QED
    BY <1>5 DEF IsPassed
<1> QED
  BY <1>6, PassedChosen

LEMMA PassedSteps ==
  ASSUME cell \in [Off -> Cells], start \in Off
  PROVE  /\ Passed[0] = start
         /\ \A k \in 0 .. MAX_DEPTH : Passed[k + 1] = StepFrom(Passed[k])
<1>1. \A k \in 0 .. MAX_DEPTH + 1 :
        Passed[k] = IF k = 0 THEN start ELSE StepFrom(Passed[k - 1])
  BY PassedIs DEF IsPassed
<1>2. 0 \in 0 .. MAX_DEPTH + 1
  BY Depths
<1>3. ASSUME NEW k \in 0 .. MAX_DEPTH
      PROVE  Passed[k + 1] = StepFrom(Passed[k])
  <2>1. k + 1 \in 0 .. MAX_DEPTH + 1 /\ k + 1 # 0 /\ k + 1 - 1 = k
    BY Depths
  <2> QED
    BY <1>1, <2>1
<1> QED
  BY <1>1, <1>2, <1>3

\* Past the last type there is nothing more.
LEMMA PassedEnds ==
  ASSUME cell \in [Off -> Cells], start \in Off,
         NEW m \in 0 .. MAX_DEPTH + 1, Passed[m] = Unmapped,
         NEW k \in m .. MAX_DEPTH + 1
  PROVE  Passed[k] = Unmapped
<1> DEFINE T == {l \in m .. MAX_DEPTH + 1 : Passed[l] # Unmapped}
<1> SUFFICES ASSUME T # {} PROVE FALSE
  OBVIOUS
<1>1. T \subseteq Nat
  BY Depths
<1>2. PICK l \in T : \A j \in T : l <= j
  BY <1>1, LeastNatural
<1>3. l \in m .. MAX_DEPTH + 1 /\ Passed[l] # Unmapped /\ l # m
  BY <1>2
<1>4. l - 1 \in m .. MAX_DEPTH + 1 /\ l - 1 \in 0 .. MAX_DEPTH /\ l - 1 + 1 = l /\ ~(l <= l - 1)
  BY <1>3, Depths
<1>5. Passed[l - 1] = Unmapped
  BY <1>2, <1>4
<1>6. Passed[l] = StepFrom(Unmapped)
  BY <1>4, <1>5, PassedSteps
<1> QED
  BY <1>3, <1>6 DEF StepFrom

LEMMA StepsAre ==
  ASSUME cell \in [Off -> Cells], start \in Off,
         NEW m \in 0 .. MAX_DEPTH + 1,
         \A k \in 0 .. m : Passed[k] # Unmapped,
         m = MAX_DEPTH + 1 \/ Passed[m + 1] = Unmapped
  PROVE  Steps = m
<1> DEFINE T == {l \in 1 .. MAX_DEPTH + 1 : Passed[l] # Unmapped}
<1>1. T = 1 .. m
  <2>1. ASSUME NEW l \in 1 .. m PROVE l \in T
    BY Depths
  <2>2. ASSUME NEW l \in T, l \notin 1 .. m PROVE FALSE
    <3>1. m # MAX_DEPTH + 1 /\ m + 1 \in 0 .. MAX_DEPTH + 1 /\ l \in m + 1 .. MAX_DEPTH + 1
      BY <2>2, Depths
    <3>2. Passed[l] = Unmapped
      BY <3>1, PassedEnds
    <3> QED
      BY <2>2, <3>2
  <2> QED
    BY <2>1, <2>2
<1> HIDE DEF T
<1>2. Cardinality(1 .. m) = m
  <2>1. m \in Int /\ 1 \in Int /\ m >= 0
    BY Depths
  <2> QED
    BY <2>1, FS_Interval
<1> QED
  BY <1>1, <1>2 DEF T, Steps
-----------------------------------------------------------------------------
\* The name a type should have is a matter of the image and the build alone.
LEMMA SameImage ==
  ASSUME cell' = cell, start' = start, nchecked' = nchecked
  PROVE  /\ Passed' = Passed /\ Steps' = Steps /\ FirstWord' = FirstWord
         /\ PanicDue' = PanicDue
         /\ \A k : Suffix(k)' = Suffix(k)
         /\ \A c : Wrapped(c)' = Wrapped(c)
<1>1. \A o : /\ StepFrom(o)' = StepFrom(o) /\ Suffix(o)' = Suffix(o)
             /\ Readable(o)' = Readable(o) /\ Leaf(o)' = Leaf(o)
             /\ Array(o)' = Array(o) /\ ParameterPanics(cell[o])' = ParameterPanics(cell[o])
  BY DEF StepFrom, Readable, Leaf, Element, Array, ArrayElement, Suffix, ParameterPanics
<1>2. Passed' = Passed
  BY <1>1 DEF Passed
<1>3. Steps' = Steps
  BY <1>2 DEF Steps
<1>4. Arrived' = Arrived
  BY <1>2, <1>3 DEF Arrived
<1>5. Broken' = Broken
  BY <1>1, <1>3, <1>4 DEF Broken
<1>6. FirstWord' = FirstWord
  BY <1>1, <1>3, <1>4 DEF FirstWord
<1>7. Innermost' = Innermost
  BY <1>1, <1>4, <1>5 DEF Innermost
<1>8. ASSUME NEW c PROVE Wrapped(c)' = Wrapped(c)
  BY <1>1, <1>2, <1>3, <1>7 DEF Wrapped
<1>9. PanicDue' = PanicDue
  BY <1>1, <1>3, <1>4 DEF PanicDue
<1> QED
  BY <1>1, <1>2, <1>3, <1>6, <1>8, <1>9

\* Nothing is left out of a word: each kind has one.
LEMMA WordsThere ==
  ASSUME NEW o, Leaf(o)
  PROVE  HasText(LeafName(cell[o]))
<1>1. \A w : OrElse(w, "object").id # "" /\ OrElse(w, "T").id # ""
  BY DEF OrElse, Word
<1>2. \A t : ClassName(t).id # ""
  BY <1>1 DEF ClassName, Word
<1>3. \A t : InstanceName(t).id # ""
  BY <1>1 DEF InstanceName, Word
<1>4. \A t : ParameterName(t).id # ""
  BY <1>1 DEF ParameterName, Word
<1>5. cell[o].kind \in {"prim", "class", "var", "inst", "other"}
  BY DEF Leaf, LeafKinds
<1>6. Word("int").id # "" /\ Word("object/*k*/").id # ""
  BY DEF Word
<1> QED
  BY <1>2, <1>3, <1>4, <1>5, <1>6 DEF LeafName, HasText

LEMMA SuffixNumber ==
  ASSUME cell \in [Off -> Cells], NEW o \in Off, ~Leaf(o), Element(o) # Unmapped \/ ~Array(o)
  PROVE  Suffix(o) \in Nat
<1>1. cell[o].kind \in {"ptr", "szarray", "array"}
  BY CellKinds DEF Leaf
<1>2. CASE cell[o].kind = "ptr"
  BY <1>2 DEF Suffix, Array
<1>3. CASE cell[o].kind = "szarray"
  BY <1>3 DEF Suffix, Array
<1>4. CASE cell[o].kind = "array"
  <2>1. Array(o) /\ Element(o) # Unmapped
    BY <1>4 DEF Array
  <2>2. cell[o].to # Unmapped
    BY <2>1 DEF Element, ArrayElement
  <2>3. cell[cell[o].to].rank \in Nat
    BY <2>2, CellFacts
  <2> QED
    BY <1>4, <2>1, <2>3 DEF Suffix
<1> QED
  BY <1>1, <1>2, <1>3, <1>4

(***************************************************************************)
(* The call that does not descend any more is at the last type, and its    *)
(* answer is the first word with what it says itself.                      *)
(***************************************************************************)
LEMMA LastCall ==
  ASSUME NameInv, Calling,
         TooDeep(depth) \/ StepFrom(tp) = Unmapped
  PROVE  Steps = depth /\ Arrived = tp /\ (TooDeep(depth) <=> Steps > MAX_DEPTH)
<1>1. depth = MAX_DEPTH + 1 \/ Passed[depth + 1] = Unmapped
  <2>1. CASE TooDeep(depth)
    BY <2>1, Depths DEF NameInv, TooDeep
  <2>2. CASE ~TooDeep(depth)
    <3>1. depth \in 0 .. MAX_DEPTH
      BY <2>2, Depths DEF NameInv, TooDeep
    <3>2. Passed[depth + 1] = StepFrom(Passed[depth])
      BY <3>1, PassedSteps DEF NameInv
    <3> QED
      BY <2>2, <3>2 DEF NameInv
  <2> QED
    BY <2>1, <2>2
<1>2. Steps = depth
  BY <1>1, StepsAre DEF NameInv
<1> QED
  BY <1>2 DEF NameInv, Arrived, TooDeep

LEMMA NothingWrapped == Wrapped(0) = Innermost
<1> DEFINE e == Suffix(Arrived)
<1>1. Innermost \in Seq({e})
  <2>1. Innermost = <<e>> \/ Innermost = <<>>
    BY DEF Innermost
  <2> HIDE DEF e
  <2>2. <<e>> \in Seq({e}) /\ <<>> \in Seq({e})
    OBVIOUS
  <2> QED
    BY <2>1, <2>2, Zenon
<1>2. [k \in 1 .. 0 |-> Suffix(Passed[Steps - k])] = <<>>
  OBVIOUS
<1>3. Innermost \o <<>> = Innermost
  BY <1>1
<1> QED
  BY <1>2, <1>3 DEF Wrapped

LEMMA Answered ==
  ASSUME NameInv, Calling, Steps = depth, ~PanicDue,
         NEW word, NEW last, Answer(word, last),
         word = FirstWord, HasText(word), last = Innermost
  PROVE  NameInv'
<1>1. /\ cell' = cell /\ start' = start /\ tp' = tp /\ depth' = depth /\ stack' = stack
      /\ nchecked' = nchecked
      /\ base' = word /\ suffixes' = last /\ ~Calling' /\ ~Finished' /\ ~Panicked'
  BY DEF Answer, Calling, Finished, Panicked
<1>2. Stacked' = Stacked
  BY <1>1, SameImage DEF Stacked
<1>3. Wrapped(0) = Innermost
  BY NothingWrapped
<1>4. depth - Len(stack) = 0 /\ Len(stack) <= depth
  BY Depths DEF NameInv
<1>5. suffixes' = Wrapped(depth - Len(stack))'
  BY <1>1, <1>3, <1>4, SameImage
<1> QED
  BY <1>1, <1>2, <1>4, <1>5, SameImage DEF NameInv

-----------------------------------------------------------------------------
LEMMA InitNameInv == Init => NameInv
<1> SUFFICES ASSUME Init PROVE NameInv
  OBVIOUS
<1>1. /\ cell \in [Off -> Cells] /\ start \in Off /\ tp = start /\ depth = 0
      /\ stack = <<>> /\ Calling /\ ~Finished /\ ~Panicked
  BY DEF Init, Calling, Finished, Panicked
<1>2. Passed[0] = start /\ start # Unmapped
  BY <1>1, PassedSteps, CellFacts
<1>3. stack \in Seq(Nat) /\ Len(stack) = 0
  BY <1>1
<1>4. stack = Stacked
  BY <1>1, <1>3 DEF Stacked
<1>5. \A k \in 0 .. depth : Passed[k] # Unmapped
  BY <1>1, <1>2
<1> QED
  BY <1>1, <1>2, <1>3, <1>4, <1>5, Depths DEF NameInv

LEMMA PrefixIs ==
  ASSUME NEW q \in Seq(Nat), NEW m \in 0 .. Len(q)
  PROVE  /\ SubSeq(q, 1, m) \in Seq(Nat) /\ Len(SubSeq(q, 1, m)) = m
         /\ \A k \in 1 .. m : SubSeq(q, 1, m)[k] = q[k]
<1>1. m \in Int /\ 1 \in Int /\ \A k \in 1 .. m : q[k] \in Nat
  OBVIOUS
<1>2. /\ SubSeq(q, 1, m) \in Seq(Nat)
      /\ Len(SubSeq(q, 1, m)) = IF 1 <= m THEN m - 1 + 1 ELSE 0
      /\ \A k \in 1 .. m - 1 + 1 : SubSeq(q, 1, m)[k] = q[1 + k - 1]
  BY <1>1, SubSeqProperties
<1>3. m - 1 + 1 = m /\ \A k \in 1 .. m : 1 + k - 1 = k
  OBVIOUS
<1> DEFINE r == SubSeq(q, 1, m)
<1> HIDE DEF r
<1> QED
  BY <1>2, <1>3 DEF r

LEMMA NextNameInv == NameInv /\ [Next]_nameVars => NameInv'
<1> SUFFICES ASSUME NameInv, [Next]_nameVars
             PROVE  NameInv'
  OBVIOUS
<1>0. /\ cell \in [Off -> Cells] /\ start \in Off /\ tp \in Off
      /\ depth \in 0 .. MAX_DEPTH + 1 /\ depth \in Nat /\ stack \in Seq(Nat)
      /\ Len(stack) \in Nat /\ MAX_DEPTH \in Nat
  BY Depths DEF NameInv
<1>t. tp # Unmapped
  BY <1>0, CellFacts
<1>1. CASE GiveUp
  <2>1. /\ Calling /\ (TooDeep(depth) \/ ~Readable(tp))
        /\ Answer(Word("object"), <<>>)
    BY <1>1 DEF GiveUp, Calling
  <2>2. TooDeep(depth) \/ StepFrom(tp) = Unmapped
    BY <2>1 DEF StepFrom
  <2>3. Steps = depth /\ Arrived = tp /\ (TooDeep(depth) <=> Steps > MAX_DEPTH)
    BY <2>1, <2>2, LastCall
  <2>4. Steps > MAX_DEPTH \/ ~Readable(Arrived)
    BY <2>1, <2>3
  <2>5. FirstWord = Word("object") /\ HasText(Word("object"))
    BY <2>4 DEF FirstWord, Word, HasText
  <2>6. ~Broken /\ ~PanicDue
    BY <1>0, <2>3, <2>4 DEF Broken, PanicDue
  <2>7. Innermost = <<>>
    BY <2>6 DEF Innermost
  <2> QED
    BY <2>1, <2>3, <2>5, <2>6, <2>7, Answered
<1>2. CASE NameLeaf
  <2>1. /\ Calling /\ ~TooDeep(depth) /\ Readable(tp) /\ Leaf(tp)
        /\ ~ParameterPanics(cell[tp])
        /\ Answer(LeafName(cell[tp]), <<>>)
    BY <1>2 DEF NameLeaf, Calling
  <2>2. Steps = depth /\ Arrived = tp /\ ~(Steps > MAX_DEPTH)
    <3>1. StepFrom(tp) = Unmapped
      BY <2>1 DEF StepFrom
    <3> QED
      BY <2>1, <3>1, LastCall
  <2>3. FirstWord = LeafName(cell[tp]) /\ HasText(LeafName(cell[tp]))
    BY <2>1, <2>2, WordsThere DEF FirstWord
  <2>4. Innermost = <<>> /\ ~PanicDue
    BY <2>1, <2>2 DEF Innermost, Broken, PanicDue
  <2> QED
    BY <2>1, <2>2, <2>3, <2>4, Answered
<1>3. CASE NoElement
  <2>1. /\ Calling /\ ~TooDeep(depth) /\ Readable(tp) /\ ~Leaf(tp)
        /\ Element(tp) = Unmapped
        /\ IF Array(tp) THEN Answer(Word("Array"), <<>>)
                        ELSE Answer(Word("object"), <<Suffix(tp)>>)
    BY <1>3 DEF NoElement, Calling
  <2>2. Steps = depth /\ Arrived = tp /\ ~(Steps > MAX_DEPTH)
    <3>1. StepFrom(tp) = Unmapped
      BY <2>1 DEF StepFrom
    <3> QED
      BY <2>1, <3>1, LastCall
  <2>3. Broken /\ ~PanicDue
    BY <1>0, <2>1, <2>2 DEF Broken, PanicDue, ParameterPanics, Leaf, LeafKinds
  <2>4. CASE Array(tp)
    <3>1. FirstWord = Word("Array") /\ HasText(Word("Array"))
      BY <2>1, <2>2, <2>4 DEF FirstWord, Word, HasText
    <3>2. Innermost = <<>>
      BY <2>2, <2>4 DEF Innermost
    <3> QED
      BY <2>1, <2>2, <2>3, <2>4, <3>1, <3>2, Answered
  <2>5. CASE ~Array(tp)
    <3>1. FirstWord = Word("object") /\ HasText(Word("object"))
      BY <2>1, <2>2, <2>5 DEF FirstWord, Word, HasText
    <3>2. Innermost = <<Suffix(tp)>>
      BY <2>2, <2>3, <2>5 DEF Innermost
    <3> QED
      BY <2>1, <2>2, <2>3, <2>5, <3>1, <3>2, Answered
  <2> QED
    BY <2>4, <2>5
<1>4. CASE Descend
  <2>1. /\ Calling /\ ~TooDeep(depth) /\ Readable(tp) /\ ~Leaf(tp)
        /\ Element(tp) # Unmapped /\ stack' = Append(stack, Suffix(tp))
        /\ tp' = Element(tp) /\ depth' = depth + 1
        /\ cell' = cell /\ start' = start /\ nchecked' = nchecked
        /\ Calling' /\ ~Finished' /\ ~Panicked'
    BY <1>4 DEF Descend, Deeper, Calling, Finished, Panicked
  <2>2. depth \in 0 .. MAX_DEPTH /\ depth' \in 0 .. MAX_DEPTH + 1
    BY <1>0, <2>1 DEF TooDeep
  <2>3. StepFrom(tp) = Element(tp)
    BY <1>t, <2>1 DEF StepFrom
  <2>4. Passed[depth'] = tp' /\ tp' \in Off
    <3>1. Passed[depth + 1] = StepFrom(Passed[depth]) /\ Passed[depth] = tp
      BY <1>0, <2>2, PassedSteps DEF NameInv
    <3>2. Element(tp) \in Off
      BY <1>0, <2>1, ElementThere
    <3> QED
      BY <2>1, <2>3, <3>1, <3>2
  <2>5. ASSUME NEW k \in 0 .. depth' PROVE Passed[k] # Unmapped
    <3>1. k \in 0 .. depth \/ k = depth'
      BY <1>0, <2>1
    <3> QED
      BY <2>1, <2>4, <3>1 DEF NameInv
  <2>6. Suffix(tp) \in Nat
    BY <1>0, <2>1, SuffixNumber
  <2>7. stack' \in Seq(Nat) /\ Len(stack') = depth'
    BY <1>0, <2>1, <2>6 DEF NameInv
  <2>8. stack' = Stacked'
    <3>1. ASSUME NEW k \in 1 .. Len(stack')
          PROVE  stack'[k] = Suffix(Passed[k - 1])
      <4>1. CASE k \in 1 .. Len(stack)
        <5>1. stack'[k] = stack[k]
          BY <1>0, <2>1, <4>1, <2>6
        <5>2. stack[k] = Stacked[k]
          BY DEF NameInv
        <5>3. Stacked[k] = Suffix(Passed[k - 1])
          BY <4>1 DEF Stacked
        <5> QED
          BY <5>1, <5>2, <5>3
      <4>2. CASE k \notin 1 .. Len(stack)
        <5>1. k = Len(stack) + 1 /\ Len(stack) = depth
          BY <1>0, <2>1, <2>6, <4>2 DEF NameInv
        <5>2. k - 1 = depth /\ stack'[k] = Suffix(tp)
          BY <1>0, <2>1, <2>6, <5>1
        <5> QED
          BY <5>2 DEF NameInv
      <4> QED
        BY <4>1, <4>2
    <3>2. stack' = [k \in 1 .. Len(stack') |-> Suffix(Passed[k - 1])]
      <4>1. stack' = [k \in 1 .. Len(stack') |-> stack'[k]]
        BY <2>7
      <4> QED
        BY <3>1, <4>1
    <3>3. Stacked' = [k \in 1 .. Len(stack') |-> Suffix(Passed[k - 1])]
      BY <2>1, SameImage DEF Stacked
    <3> QED
      BY <3>2, <3>3
  <2> QED
    BY <1>0, <2>1, <2>2, <2>4, <2>5, <2>7, <2>8, SameImage DEF NameInv
<1>5. CASE Wrap
  <2> DEFINE l == Len(stack)
  <2>1. /\ ~Calling /\ ~Finished /\ stack # <<>>
        /\ suffixes' = Append(suffixes, stack[l])
        /\ stack' = SubSeq(stack, 1, l - 1)
        /\ cell' = cell /\ start' = start /\ tp' = tp /\ depth' = depth
        /\ nchecked' = nchecked
        /\ base' = base /\ ~Calling' /\ ~Finished' /\ ~Panicked'
    BY <1>5 DEF Wrap, PutLast, Calling, Finished, Panicked
  <2>2. l \in 1 .. depth /\ depth = Steps /\ suffixes = Wrapped(depth - l)
    BY <1>0, <2>1 DEF NameInv
  <2>3. stack' \in Seq(Nat) /\ Len(stack') = l - 1
        /\ \A k \in 1 .. l - 1 : stack'[k] = stack[k]
    <3>1. l - 1 \in 0 .. Len(stack)
      BY <2>2
    <3> HIDE DEF l
    <3> QED
      BY <1>0, <2>1, <3>1, PrefixIs
  <2>4. \A k \in 1 .. l : stack[k] = Suffix(Passed[k - 1])
    <3>1. stack = [k \in 1 .. Len(stack) |-> Suffix(Passed[k - 1])]
      BY DEF NameInv, Stacked
    <3> QED
      BY <3>1
  <2>5. stack' = Stacked'
    <3>1. Stacked' = [k \in 1 .. Len(stack') |-> Suffix(Passed[k - 1])]
      BY <2>1, SameImage DEF Stacked
    <3>2. stack' = [k \in 1 .. Len(stack') |-> stack'[k]]
      BY <2>3
    <3>3. ASSUME NEW k \in 1 .. Len(stack') PROVE stack'[k] = Suffix(Passed[k - 1])
      <4>1. k \in 1 .. l - 1 /\ k \in 1 .. l
        BY <2>2, <2>3
      <4> QED
        BY <2>3, <2>4, <4>1
    <3> QED
      BY <3>1, <3>2, <3>3
  <2>6. suffixes' = Wrapped(depth - (l - 1))
    <3> DEFINE c == depth - l
               S == {Suffix(Passed[Steps - k]) : k \in Nat} \union {Suffix(Arrived)}
               q == [k \in 1 .. c |-> Suffix(Passed[Steps - k])]
               r == [k \in 1 .. c + 1 |-> Suffix(Passed[Steps - k])]
               e == Suffix(Passed[Steps - (c + 1)])
    <3>1. c \in Nat /\ depth - (l - 1) = c + 1 /\ Steps - (c + 1) = l - 1
      BY <1>0, <2>2
    <3>2. stack[l] = e
      BY <2>2, <2>4, <3>1
    <3>3. Innermost \in Seq(S)
      <4>1. Suffix(Arrived) \in S
        OBVIOUS
      <4> HIDE DEF S
      <4> QED
        BY <4>1 DEF Innermost
    <3>4. q \in Seq(S) /\ e \in S
      <4>1. ASSUME NEW k \in Nat PROVE Suffix(Passed[Steps - k]) \in S
        OBVIOUS
      <4> HIDE DEF S, c
      <4> QED
        BY <3>1, <4>1
    <3>5. r = Append(q, e)
      <4> HIDE DEF c
      <4> QED
        BY <3>1
    <3> HIDE DEF S, q, r, e
    <3>6. Append(Innermost \o q, e) = Innermost \o Append(q, e)
      BY <3>3, <3>4
    <3>7. Wrapped(c) = Innermost \o q /\ Wrapped(c + 1) = Innermost \o r
      BY DEF Wrapped, q, r
    <3> HIDE DEF c
    <3>8. suffixes = Wrapped(c)
      BY <2>2 DEF c
    <3> QED
      BY <2>1, <3>1, <3>2, <3>5, <3>6, <3>7, <3>8
  <2>7. suffixes' = Wrapped(depth - Len(stack))'
    BY <2>1, <2>3, <2>6, SameImage
  <2>8. Len(stack') <= depth'
    BY <1>0, <2>1, <2>2, <2>3
  <2> QED
    BY <1>0, <2>1, <2>3, <2>5, <2>7, <2>8, SameImage DEF NameInv
<1>6. CASE Return
  <2>1. /\ ~Calling /\ stack = <<>> /\ ~Calling' /\ ~Panicked' /\ nchecked' = nchecked
        /\ cell' = cell /\ start' = start /\ tp' = tp /\ depth' = depth /\ stack' = stack
        /\ base' = base /\ suffixes' = suffixes
    BY <1>6 DEF Return, Calling, Panicked
  <2>2. Stacked' = Stacked
    BY <2>1, SameImage DEF Stacked
  <2>3. /\ ~PanicDue' /\ Len(stack') <= depth' /\ depth' = Steps'
        /\ HasText(base') /\ base' = FirstWord'
        /\ suffixes' = Wrapped(depth - Len(stack))'
    BY <2>1, SameImage DEF NameInv
  <2> QED
    BY <1>0, <2>1, <2>2, <2>3, SameImage DEF NameInv
<1>7. CASE PanicAtParameter
  <2>1. /\ Calling /\ Calling' /\ ~Finished' /\ nchecked' = nchecked
        /\ ~TooDeep(depth) /\ Readable(tp) /\ ParameterPanics(cell[tp])
        /\ cell' = cell /\ start' = start /\ tp' = tp /\ depth' = depth /\ stack' = stack
    BY <1>7 DEF PanicAtParameter, Calling, Finished
  <2>2. Stacked' = Stacked
    BY <2>1, SameImage DEF Stacked
  <2>3. ~TooDeep(depth') /\ Readable(tp)' /\ ParameterPanics(cell[tp])'
    BY <2>1 DEF TooDeep, Readable, ParameterPanics
  <2> QED
    BY <2>1, <2>2, <2>3, SameImage DEF NameInv
<1>8. CASE UNCHANGED nameVars
  <2>1. /\ cell' = cell /\ start' = start /\ tp' = tp /\ depth' = depth /\ stack' = stack
        /\ base' = base /\ suffixes' = suffixes /\ Calling' = Calling
        /\ Finished' = Finished /\ Panicked' = Panicked /\ nchecked' = nchecked
    BY <1>8 DEF nameVars, Calling, Finished, Panicked
  <2>2. Stacked' = Stacked
    BY <2>1, SameImage DEF Stacked
  <2>3. /\ TooDeep(depth)' = TooDeep(depth) /\ Readable(tp)' = Readable(tp)
        /\ ParameterPanics(cell[tp])' = ParameterPanics(cell[tp])
    BY <2>1 DEF TooDeep, Readable, ParameterPanics
  <2> QED
    BY <2>1, <2>2, <2>3, SameImage DEF NameInv
<1> QED
  BY <1>1, <1>2, <1>3, <1>4, <1>5, <1>6, <1>7, <1>8 DEF Next

THEOREM NameInvariant == Spec => []NameInv
BY InitNameInv, NextNameInv, PTL DEF Spec

(***************************************************************************)
(* type_name stays in the image, and its call stack never gets deeper than *)
(* its bound on the depth allows; every call returns a word.               *)
(***************************************************************************)
THEOREM NameTypeCorrect == Spec => []NameTypeOK
<1>1. NameInv => NameTypeOK
  <2> SUFFICES ASSUME NameInv PROVE NameTypeOK
    OBVIOUS
  <2>1. Len(stack) \in 0 .. MAX_DEPTH + 1
    BY Depths DEF NameInv
  <2>2. \A k \in DOMAIN stack : stack[k] \in Nat
    BY DEF NameInv
  <2>3. /\ tp \in Off /\ start \in Off
        /\ npc = "call" => Len(stack) = depth
        /\ npc \in {"return", "done"} => base.id # ""
    BY Zenon DEF NameInv, Calling, HasText
  <2> QED
    BY <2>1, <2>2, <2>3, Zenon DEF NameTypeOK
<1> QED
  BY <1>1, NameInvariant, PTL

(***************************************************************************)
(* For every image and every bound on the depth, type_name returns the     *)
(* name the type should have, with all of its suffixes in order; it        *)
(* panics at a generic parameter whose address overflows, and only there.  *)
(***************************************************************************)
THEOREM NameIsRight == Spec => []NameIsWhole
<1>1. NameInv => NameIsWhole
  <2> SUFFICES ASSUME NameInv PROVE NameIsWhole
    OBVIOUS
  <2>1. ASSUME Finished, ~Calling
        PROVE  ~PanicDue /\ base = FirstWord /\ suffixes = Wrapped(Steps)
    <3>1. stack = <<>> /\ depth = Steps /\ depth - Len(stack) = depth
      BY <2>1, Depths DEF NameInv
    <3> QED
      BY <2>1, <3>1 DEF NameInv
  <2>2. ASSUME Panicked, Calling PROVE PanicDue
    <3>1. ~TooDeep(depth) /\ Readable(tp) /\ ParameterPanics(cell[tp])
      BY <2>2 DEF NameInv
    <3>2. StepFrom(tp) = Unmapped
      BY <3>1 DEF StepFrom, Leaf, LeafKinds, ParameterPanics
    <3>3. Steps = depth /\ Arrived = tp /\ (TooDeep(depth) <=> Steps > MAX_DEPTH)
      BY <2>2, <3>2, LastCall
    <3>4. Steps <= MAX_DEPTH
      BY <3>1, <3>3, Depths DEF NameInv
    <3> QED
      BY <3>1, <3>3, <3>4 DEF PanicDue
  <2> QED
    BY <2>1, <2>2 DEF NameIsWhole, Wrapped, Innermost, Calling, Finished, Panicked
<1> QED
  BY <1>1, NameInvariant, PTL


-----------------------------------------------------------------------------
(***************************************************************************)
(* What the naming still has before it: in the calls, the depths that are  *)
(* left and the way back; in the returns, the calls that still wait.       *)
(***************************************************************************)
NamingLeft ==
  IF npc = "call" THEN 2 * (MAX_DEPTH + 1 - depth) + Len(stack) + 2
  ELSE IF npc = "return" THEN Len(stack) + 1
  ELSE 0

(***************************************************************************)
(* type_name cannot go on for ever, on a cycle of types as little as on    *)
(* any other image: with every step, into an element or out of one, there  *)
(* is less before it.                                                      *)
(***************************************************************************)
THEOREM NamingAdvances ==
  Spec => [](NamingLeft \in Nat) /\ [][NamingLeft' < NamingLeft]_nameVars
<1>1. NameInv => NamingLeft \in Nat
  <2> SUFFICES ASSUME NameInv PROVE NamingLeft \in Nat
    OBVIOUS
  <2>1. Len(stack) \in Nat /\ MAX_DEPTH + 1 - depth \in Nat
    BY Depths DEF NameInv
  <2> QED
    BY <2>1 DEF NamingLeft
<1>2. NameInv /\ [Next]_nameVars => [NamingLeft' < NamingLeft]_nameVars
  <2> SUFFICES ASSUME NameInv, Next
               PROVE  NamingLeft' < NamingLeft
    OBVIOUS
  <2>1. /\ Len(stack) \in Nat /\ depth \in Nat /\ MAX_DEPTH \in Nat
        /\ MAX_DEPTH + 1 - depth \in Nat
        /\ stack \in Seq(Nat)
    BY Depths DEF NameInv
  <2>2. CASE GiveUp \/ NameLeaf \/ NoElement
    <3>1. npc = "call" /\ npc' = "return" /\ stack' = stack
      BY <2>2 DEF GiveUp, NameLeaf, NoElement, Answer
    <3> QED
      BY <2>1, <3>1 DEF NamingLeft
  <2>3. CASE Descend
    <3>1. /\ npc = "call" /\ npc' = "call" /\ depth' = depth + 1
          /\ stack' = Append(stack, Suffix(tp))
      BY <2>3 DEF Descend, Deeper
    <3>2. Len(stack') = Len(stack) + 1
      BY <2>1, <3>1
    <3> QED
      BY <2>1, <3>1, <3>2 DEF NamingLeft
  <2>4. CASE Wrap
    <3>1. /\ npc = "return" /\ npc' = "return" /\ stack # <<>>
          /\ stack' = SubSeq(stack, 1, Len(stack) - 1)
      BY <2>4 DEF Wrap
    <3>2. Len(stack) - 1 \in 0 .. Len(stack)
      BY <2>1, <3>1, EmptySeq
    <3>3. Len(stack') = Len(stack) - 1
      BY <2>1, <3>1, <3>2, PrefixIs
    <3> QED
      BY <2>1, <3>1, <3>3 DEF NamingLeft
  <2>5. CASE Return
    <3>1. npc = "return" /\ npc' = "done"
      BY <2>5 DEF Return
    <3> QED
      BY <2>1, <3>1 DEF NamingLeft
  <2>6. CASE PanicAtParameter
    <3>1. npc = "call" /\ npc' = "panic"
      BY <2>6 DEF PanicAtParameter
    <3> QED
      BY <2>1, <3>1 DEF NamingLeft
  <2> QED
    BY <2>2, <2>3, <2>4, <2>5, <2>6 DEF Next
<1> QED
  BY <1>1, <1>2, NameInvariant, PTL DEF Spec

=============================================================================
