--------------------------- MODULE VersionsProofs ---------------------------
(***************************************************************************)
(* That the parser, the printer and the order of version.cpp are what      *)
(* Versions states of them, for every text over its alphabet and integers  *)
(* of any width, not only for the texts that the run types.                *)
(*                                                                         *)
(* The code reads a text once, from the left, and so do the recursive      *)
(* functions of Versions: each is shown to be a fold over the text, a fold *)
(* has two equations, and the rest follows by induction over texts.  No    *)
(* operator with an operator parameter is induced over: the predicate is a *)
(* set, and a set of numbers that is not all of Nat leaves out a least one.*)
(*                                                                         *)
(* From there the argument follows the code.  A text that parse looks at   *)
(* is a core, a prerelease after a dash and a build after a plus, in       *)
(* exactly one way (JoinedExists, JoinedParts).  What it does with each is *)
(* what the grammar asks (ParseJoined, GrammarForm), what it reads is      *)
(* printed back digit by digit (PrintNumber), and its comparison walks to  *)
(* the first difference (LoopVerdict), as a lexicographic order does.      *)
(***************************************************************************)
EXTENDS Versions, WellFoundedInduction, SequenceTheorems, TLAPS

-----------------------------------------------------------------------------
(* Induction                                                               *)

\* A set of numbers that is not empty has a least one.
LEMMA Least ==
  ASSUME NEW T, T \subseteq Nat, T # {}
  PROVE  \E m \in T : \A k \in T : m <= k
<1> DEFINE R == {p \in Nat \X Nat : p[1] < p[2]}
<1>1. IsWellFoundedOn(R, Nat)
  BY NatLessThanWellFounded DEF OpToRel
<1>2. PICK m \in T : \A k \in T : ~(<<k, m>> \in R)
  <2> HIDE DEF R
  <2> QED BY <1>1, WFMin
<1>3. m \in Nat /\ \A k \in T : k \in Nat /\ ~(k < m)
  BY <1>2
<1>4. \A k \in T : m <= k
  BY <1>3
<1>5. QED
  BY <1>4

\* Induction over numbers, with the predicate as a set.
LEMMA Induction ==
  ASSUME NEW S, 0 \in S, \A n \in Nat : n \in S => n + 1 \in S
  PROVE  \A n \in Nat : n \in S
<1> SUFFICES ASSUME Nat \ S # {} PROVE FALSE
  OBVIOUS
<1>1. PICK m \in Nat \ S : \A k \in Nat \ S : m <= k
  BY Least
<1>2. m - 1 \in Nat /\ m - 1 \notin Nat \ S
  BY <1>1
<1>3. QED
  BY <1>1, <1>2

\* Structural induction over sequences, with the predicate as a set.
LEMMA SeqInduction ==
  ASSUME NEW A, NEW X, << >> \in X,
         \A s \in Seq(A), c \in A : s \in X => Append(s, c) \in X
  PROVE  \A s \in Seq(A) : s \in X
<1> DEFINE S == {n \in Nat : \A s \in Seq(A) : Len(s) = n => s \in X}
<1>1. 0 \in S
  BY EmptySeq
<1>2. ASSUME NEW n \in Nat, n \in S PROVE n + 1 \in S
  <2> SUFFICES ASSUME NEW s \in Seq(A), Len(s) = n + 1 PROVE s \in X
    OBVIOUS
  <2>1. s # << >>
    BY <1>2
  <2>2. PICK t \in Seq(A), c \in A : s = Append(t, c)
    BY <2>1, SequenceEmptyOrAppend
  <2>3. Len(t) = n
    BY <2>2
  <2>4. QED
    BY <1>2, <2>2, <2>3
<1>3. \A n \in Nat : n \in S
  <2> HIDE DEF S
  <2> QED
    BY <1>1, <1>2, Induction
<1>4. QED
  BY <1>3

-----------------------------------------------------------------------------
(* Folds                                                                   *)

\* f runs through the sequence s from b, taking the step g at each element.
Runs(f, g, b, s) ==
  /\ DOMAIN f = 0 .. Len(s) /\ f[0] = b
  /\ \A k \in 1 .. Len(s) : f[k] = g[<<f[k - 1], s[k]>>]

\* There is at most one run.
LEMMA RunsUnique ==
  ASSUME NEW s, NEW t, Len(s) \in Nat, Len(t) \in Nat,
         NEW n \in Nat, n <= Len(s), n <= Len(t),
         \A k \in 1 .. n : s[k] = t[k],
         NEW g, NEW b, NEW f, NEW h, Runs(f, g, b, s), Runs(h, g, b, t)
  PROVE  f[n] = h[n]
<1> DEFINE S == {k \in Nat : k <= n => f[k] = h[k]}
<1>1. 0 \in S
  BY DEF Runs
<1>2. ASSUME NEW k \in Nat, k \in S PROVE k + 1 \in S
  <2> SUFFICES ASSUME k + 1 <= n PROVE f[k + 1] = h[k + 1]
    OBVIOUS
  <2>1. k + 1 \in 1 .. Len(s) /\ k + 1 \in 1 .. Len(t) /\ k + 1 \in 1 .. n /\ (k + 1) - 1 = k
    OBVIOUS
  <2>2. f[k + 1] = g[<<f[k], s[k + 1]>>] /\ h[k + 1] = g[<<h[k], t[k + 1]>>]
    BY <2>1 DEF Runs
  <2>3. s[k + 1] = t[k + 1] /\ f[k] = h[k]
    BY <1>2, <2>1
  <2>4. QED
    BY <2>2, <2>3
<1>3. n \in S
  <2> HIDE DEF S
  <2> QED
    BY <1>1, <1>2, Induction
<1>4. QED
  BY <1>3

\* There is a run through every sequence.
LEMMA RunsExists ==
  ASSUME NEW A, NEW V, NEW b \in V, NEW g \in [V \X A -> V], NEW s \in Seq(A)
  PROVE  \E f \in [0 .. Len(s) -> V] : Runs(f, g, b, s)
<1> DEFINE X == {t \in Seq(A) : \E f \in [0 .. Len(t) -> V] : Runs(f, g, b, t)}
<1>1. << >> \in X
  <2> DEFINE f == [k \in 0 .. 0 |-> b]
  <2>1. f \in [0 .. 0 -> V] /\ Len(<< >>) = 0 /\ << >> \in Seq(A)
    OBVIOUS
  <2>2. Runs(f, g, b, << >>)
    BY <2>1 DEF Runs
  <2>3. QED
    BY <2>1, <2>2
<1>2. ASSUME NEW t \in Seq(A), NEW c \in A, t \in X PROVE Append(t, c) \in X
  <2> DEFINE n == Len(t)
             u == Append(t, c)
  <2>1. PICK f \in [0 .. n -> V] : Runs(f, g, b, t)
    BY <1>2
  <2> DEFINE h == [k \in 0 .. n + 1 |-> IF k <= n THEN f[k] ELSE g[<<f[n], c>>]]
  <2>2. /\ n \in Nat /\ u \in Seq(A) /\ Len(u) = n + 1 /\ u[n + 1] = c
        /\ \A k \in 1 .. n : u[k] = t[k]
    BY AppendProperties, LenProperties
  <2> HIDE DEF n, u
  <2>3. f[n] \in V /\ <<f[n], c>> \in V \X A /\ g[<<f[n], c>>] \in V
    BY <2>2
  <2>4. h \in [0 .. n + 1 -> V]
    BY <2>2, <2>3
  <2>5. h[0] = b
    <3>1. f[0] = b
      BY <2>1 DEF Runs
    <3>2. QED
      BY <2>2, <3>1
  <2>6. ASSUME NEW k \in 1 .. n + 1
        PROVE  h[k] = g[<<h[k - 1], u[k]>>]
    <3>1. CASE k \in 1 .. n
      <4>1. f[k] = g[<<f[k - 1], t[k]>>]
        BY <2>1, <2>2, <3>1 DEF Runs, n
      <4>2. h[k] = f[k] /\ h[k - 1] = f[k - 1] /\ u[k] = t[k]
        BY <2>2, <3>1
      <4> HIDE DEF h
      <4>3. QED
        BY <4>1, <4>2
    <3>2. CASE k = n + 1
      <4>1. h[k] = g[<<f[n], c>>] /\ h[k - 1] = f[n] /\ u[k] = c
        BY <2>2, <3>2
      <4>2. QED
        BY <4>1
    <3>3. QED
      BY <2>2, <3>1, <3>2
  <2> HIDE DEF h
  <2>7. Runs(h, g, b, u)
    BY <2>2, <2>4, <2>5, <2>6 DEF Runs
  <2>8. QED
    BY <2>2, <2>4, <2>7 DEF u
<1> HIDE DEF X
<1>3. s \in X
  BY <1>1, <1>2, SeqInduction
<1>4. QED
  BY <1>3 DEF X

\* What the fold of g over s ends with.
Fold(g, b, s) == (CHOOSE f : Runs(f, g, b, s))[Len(s)]

\* The fold is the end of the run.
LEMMA FoldRuns ==
  ASSUME NEW b, NEW g, NEW s, Len(s) \in Nat, NEW f, Runs(f, g, b, s)
  PROVE  Fold(g, b, s) = f[Len(s)]
<1> DEFINE h == CHOOSE h : Runs(h, g, b, s)
<1>1. Runs(h, g, b, s)
  BY Zenon
<1> HIDE DEF h
<1>2. Len(s) <= Len(s)
  OBVIOUS
<1>3. h[Len(s)] = f[Len(s)]
  BY <1>1, <1>2, RunsUnique
<1>4. QED
  BY <1>3 DEF Fold, h

\* The equations of the fold, and its type.
LEMMA FoldEmpty ==
  ASSUME NEW g, NEW b
  PROVE  Fold(g, b, << >>) = b
<1> DEFINE f == [k \in 0 .. 0 |-> b]
<1>1. Runs(f, g, b, << >>) /\ f[0] = b /\ Len(<< >>) = 0
  BY DEF Runs
<1> HIDE DEF f
<1>2. QED
  BY <1>1, FoldRuns

\* A fold stays in the set its step stays in.
LEMMA FoldType ==
  ASSUME NEW A, NEW V, NEW b \in V, NEW g \in [V \X A -> V], NEW s \in Seq(A)
  PROVE  Fold(g, b, s) \in V
<1>1. PICK f \in [0 .. Len(s) -> V] : Runs(f, g, b, s)
  BY RunsExists
<1>2. Fold(g, b, s) = f[Len(s)]
  BY <1>1, LenProperties, FoldRuns
<1>3. QED
  BY <1>2, LenProperties

\* A run of the longer sequence passes through the fold of the shorter one.
LEMMA FoldAppend ==
  ASSUME NEW g, NEW b, NEW s, NEW t, Len(s) \in Nat, Len(t) = Len(s) + 1,
         \A k \in 1 .. Len(s) : s[k] = t[k],
         NEW f, Runs(f, g, b, s), NEW h, Runs(h, g, b, t)
  PROVE  Fold(g, b, s) = h[Len(s)] /\ Fold(g, b, t) = h[Len(s) + 1]
<1> DEFINE n == Len(s)
<1>1. n <= Len(s) /\ n <= Len(t) /\ Len(t) \in Nat
  OBVIOUS
<1>2. f[n] = h[n]
  BY <1>1, RunsUnique
<1>3. Fold(g, b, s) = f[n] /\ Fold(g, b, t) = h[n + 1]
  BY <1>1, FoldRuns
<1>4. QED
  BY <1>2, <1>3

-----------------------------------------------------------------------------
(* Characters                                                              *)

Text == Seq(Alphabet)

\* What the characters are and are not.
LEMMA Characters ==
  /\ Digit = {"0", "1", "2"} /\ DigitValue["0"] = 0
  /\ DigitValue["1"] = 1 /\ DigitValue["2"] = 2
  /\ Range(Collation) = {"-", "0", "1", "2", "a"}
  /\ Alphabet = {".", "+", "-", "0", "1", "2", "a"}
<1>1. Digit = {"0", "1", "2"}
  BY DEF Digit, DigitValue
<1>2. /\ DigitValue["0"] = 0 /\ DigitValue["1"] = 1 /\ DigitValue["2"] = 2
  BY DEF DigitValue
<1>3. Range(Collation) = {"-", "0", "1", "2", "a"}
  <2>1. DOMAIN Collation = 1 .. 5
    BY DEF Collation
  <2>2. Range(Collation) = {Collation[i] : i \in 1 .. 5}
    BY <2>1 DEF Range
  <2>3. /\ Collation[1] = "-" /\ Collation[2] = "0" /\ Collation[3] = "1"
        /\ Collation[4] = "2" /\ Collation[5] = "a"
    BY DEF Collation
  <2>4. QED
    BY <2>2, <2>3
<1>4. QED
  BY <1>1, <1>2, <1>3 DEF Alphabet

-----------------------------------------------------------------------------
(* Numbers                                                                 *)

\* One digit more.
NumberStep == [x \in Nat \X Digit |-> 10 * x[1] + DigitValue[x[2]]]

\* The function Number is defined by is the run of that step.
LEMMA NumberIsFold ==
  ASSUME NEW s \in Seq(Digit)
  PROVE  Number(s) = Fold(NumberStep, 0, s)
<1> DEFINE n == Len(s)
           D(v) == v = [k \in 0 .. n |->
                          IF k = 0 THEN 0 ELSE 10 * v[k - 1] + DigitValue[s[k]]]
           h == CHOOSE v : D(v)
<1>1. n \in Nat /\ \A k \in 1 .. n : s[k] \in Digit /\ DigitValue[s[k]] \in Nat
  BY Characters
<1>2. NumberStep \in [Nat \X Digit -> Nat]
  BY Characters DEF NumberStep
<1>3. ASSUME NEW v \in Nat, NEW d \in Digit
      PROVE  NumberStep[<<v, d>>] = 10 * v + DigitValue[d]
  BY DEF NumberStep
<1>4. PICK f \in [0 .. n -> Nat] : Runs(f, NumberStep, 0, s)
  BY <1>2, RunsExists
<1>5. D(f)
  <2>1. ASSUME NEW k \in 1 .. n PROVE f[k] = 10 * f[k - 1] + DigitValue[s[k]]
    <3>1. f[k - 1] \in Nat
      BY <1>1
    <3>2. QED
      BY <1>1, <1>3, <1>4, <3>1 DEF Runs
  <2>2. f[0] = 0
    BY <1>4 DEF Runs
  <2>3. QED
    BY <1>1, <2>1, <2>2
<1>6. D(h)
  <2> HIDE DEF D
  <2> QED
    BY <1>5
<1>7. Number(s) = h[n]
  BY DEF Number
<1> HIDE DEF h
<1>8. DOMAIN h = 0 .. n /\ h[0] = 0
  BY <1>1, <1>6
<1>9. ASSUME NEW k \in 1 .. n PROVE h[k] = 10 * h[k - 1] + DigitValue[s[k]]
  BY <1>1, <1>6
<1> HIDE DEF D
<1> DEFINE S == {k \in Nat : k <= n => h[k] \in Nat}
<1>10. \A k \in Nat : k \in S
  <2>1. 0 \in S
    BY <1>8
  <2>2. ASSUME NEW k \in Nat, k \in S PROVE k + 1 \in S
    <3> SUFFICES ASSUME k + 1 <= n PROVE h[k + 1] \in Nat
      OBVIOUS
    <3>1. k + 1 \in 1 .. n /\ (k + 1) - 1 = k /\ h[k] \in Nat
      BY <1>1, <2>2
    <3>2. QED
      BY <1>1, <1>9, <3>1
  <2> HIDE DEF S
  <2>3. QED
    BY <2>1, <2>2, Induction
<1>11. ASSUME NEW k \in 1 .. n PROVE h[k] = NumberStep[<<h[k - 1], s[k]>>]
  <2>1. h[k - 1] \in Nat /\ s[k] \in Digit
    BY <1>1, <1>10
  <2>2. QED
    BY <1>3, <1>9, <2>1
<1>12. Runs(h, NumberStep, 0, s)
  BY <1>8, <1>11 DEF Runs
<1>13. QED
  BY <1>1, <1>7, <1>12, FoldRuns

\* Number, one digit after the other.
LEMMA NumberEquations ==
  /\ Number(<< >>) = 0
  /\ \A s \in Seq(Digit) : Number(s) \in Nat
  /\ \A s \in Seq(Digit), d \in Digit : Number(Append(s, d)) = 10 * Number(s) + DigitValue[d]
<1>1. NumberStep \in [Nat \X Digit -> Nat]
  BY Characters DEF NumberStep
<1>2. /\ Fold(NumberStep, 0, << >>) = 0
      /\ \A s \in Seq(Digit) : Fold(NumberStep, 0, s) \in Nat
      /\ \A s \in Seq(Digit), c \in Digit :
            Fold(NumberStep, 0, Append(s, c)) = NumberStep[<<Fold(NumberStep, 0, s), c>>]
  <2>1. Fold(NumberStep, 0, << >>) = 0
    BY FoldEmpty
  <2>2. ASSUME NEW s \in Seq(Digit) PROVE Fold(NumberStep, 0, s) \in Nat
    BY <1>1, FoldType
  <2>3. ASSUME NEW s \in Seq(Digit), NEW c \in Digit
        PROVE  Fold(NumberStep, 0, Append(s, c)) = NumberStep[<<Fold(NumberStep, 0, s), c>>]
    <3> DEFINE t == Append(s, c)
    <3>1. /\ t \in Seq(Digit) /\ Len(s) \in Nat /\ Len(t) = Len(s) + 1
          /\ t[Len(s) + 1] = c /\ \A k \in 1 .. Len(s) : s[k] = t[k]
      BY AppendProperties, LenProperties
    <3> HIDE DEF t
    <3>2. PICK f \in [0 .. Len(s) -> Nat] : Runs(f, NumberStep, 0, s)
      BY <1>1, RunsExists
    <3>3. PICK h \in [0 .. Len(t) -> Nat] : Runs(h, NumberStep, 0, t)
      BY <1>1, <3>1, RunsExists
    <3>4. Fold(NumberStep, 0, s) = h[Len(s)] /\ Fold(NumberStep, 0, t) = h[Len(s) + 1]
      BY <3>1, <3>2, <3>3, FoldAppend
    <3>5. Len(s) + 1 \in 1 .. Len(t) /\ (Len(s) + 1) - 1 = Len(s)
      BY <3>1
    <3>6. h[Len(s) + 1] = NumberStep[<<h[Len(s)], c>>]
      BY <3>1, <3>3, <3>5 DEF Runs
    <3>7. QED
      BY <3>4, <3>6 DEF t
  <2>4. QED
    BY <2>1, <2>2, <2>3
<1>3. << >> \in Seq(Digit) /\ \A s \in Seq(Digit), d \in Digit : Append(s, d) \in Seq(Digit)
  BY EmptySeq, AppendProperties
<1>4. ASSUME NEW s \in Seq(Digit), NEW d \in Digit
      PROVE  Number(Append(s, d)) = 10 * Number(s) + DigitValue[d]
  <2>1. Number(Append(s, d)) = NumberStep[<<Number(s), d>>] /\ Number(s) \in Nat
    BY <1>2, <1>3, NumberIsFold
  <2>2. QED
    BY <2>1 DEF NumberStep
<1>5. QED
  BY <1>2, <1>3, <1>4, NumberIsFold

-----------------------------------------------------------------------------
(* Splitting at dots                                                       *)

\* The parts of the empty text, and the parts after one character more.
OnePart == << << >> >>
Parts == Seq(Text) \ {<< >>}
Extended(p, c) == IF c = "." THEN Append(p, << >>) ELSE [p EXCEPT ![Len(p)] = Append(@, c)]
SplitStep == [x \in Parts \X Alphabet |-> Extended(x[1], x[2])]

\* That step goes from parts to parts.
LEMMA SplitStepType ==
  /\ SplitStep \in [Parts \X Alphabet -> Parts] /\ OnePart \in Parts
  /\ \A p \in Parts, c \in Alphabet : SplitStep[<<p, c>>] = Extended(p, c)
<1>1. OnePart \in Parts
  BY EmptySeq DEF Parts, Text, OnePart
<1>2. ASSUME NEW p \in Parts, NEW c \in Alphabet
      PROVE  Extended(p, c) \in Parts
  <2>1. p \in Seq(Text) /\ Len(p) \in 1 .. Len(p) /\ p[Len(p)] \in Text
    BY EmptySeq, LenProperties, ElementOfSeq DEF Parts
  <2>2. << >> \in Text /\ Append(p[Len(p)], c) \in Text
    BY <2>1, EmptySeq, AppendProperties DEF Text
  <2>3. Append(p, << >>) \in Parts
    BY <2>1, <2>2, AppendProperties DEF Parts
  <2> DEFINE q == [p EXCEPT ![Len(p)] = Append(p[Len(p)], c)]
  <2>4. q \in Seq(Text) /\ Len(q) = Len(p)
    BY <2>1, <2>2, ExceptSeq
  <2>5. q \in Parts
    BY <2>1, <2>4, EmptySeq DEF Parts
  <2>6. QED
    BY <2>3, <2>5 DEF Extended
<1>3. SplitStep \in [Parts \X Alphabet -> Parts]
  BY <1>2 DEF SplitStep
<1>4. \A p \in Parts, c \in Alphabet : SplitStep[<<p, c>>] = Extended(p, c)
  BY DEF SplitStep
<1>5. QED
  BY <1>1, <1>3, <1>4

\* The function Split is defined by is the run of that step.
LEMMA SplitIsFold ==
  ASSUME NEW s \in Text
  PROVE  Split(s) = Fold(SplitStep, OnePart, s)
<1> DEFINE n == Len(s)
           D(v) == v = [k \in 0 .. n |->
                          IF k = 0 THEN OnePart ELSE Extended(v[k - 1], s[k])]
           h == CHOOSE v : D(v)
<1>1. n \in Nat /\ \A k \in 1 .. n : s[k] \in Alphabet
  BY DEF Text
<1>2. PICK f \in [0 .. n -> Parts] : Runs(f, SplitStep, OnePart, s)
  BY SplitStepType, RunsExists DEF Text
<1>3. D(f)
  <2>1. ASSUME NEW k \in 1 .. n
        PROVE  f[k] = Extended(f[k - 1], s[k])
    <3>1. f[k - 1] \in Parts
      BY <1>1
    <3>2. f[k] = SplitStep[<<f[k - 1], s[k]>>]
      BY <1>2 DEF Runs
    <3>3. QED
      BY <1>1, <3>1, <3>2, SplitStepType
  <2>2. f[0] = OnePart
    BY <1>2 DEF Runs
  <2>3. \A k \in 0 .. n : f[k] = IF k = 0 THEN OnePart ELSE Extended(f[k - 1], s[k])
    <3> TAKE k \in 0 .. n
    <3>1. CASE k = 0
      BY <2>2, <3>1
    <3>2. CASE k \in 1 .. n
      BY <2>1, <3>2
    <3>3. QED
      BY <1>1, <3>1, <3>2
  <2>4. QED
    BY <2>3
<1>4. D(h)
  <2> HIDE DEF D
  <2> QED
    BY <1>3
<1>5. Split(s) = h[n]
  BY DEF Split, Extended, OnePart
<1> HIDE DEF h
<1>6. DOMAIN h = 0 .. n /\ h[0] = OnePart
  BY <1>1, <1>4
<1>7. ASSUME NEW k \in 1 .. n PROVE h[k] = Extended(h[k - 1], s[k])
  BY <1>1, <1>4
<1> HIDE DEF D
<1>8. ASSUME NEW k \in 1 .. n, h[k - 1] \in Parts
      PROVE  h[k] = SplitStep[<<h[k - 1], s[k]>>]
  BY <1>1, <1>7, <1>8, SplitStepType
<1> DEFINE S == {k \in Nat : k <= n => h[k] \in Parts}
<1>9. \A k \in Nat : k \in S
  <2>1. 0 \in S
    BY <1>6, SplitStepType
  <2>2. ASSUME NEW k \in Nat, k \in S PROVE k + 1 \in S
    <3> SUFFICES ASSUME k + 1 <= n PROVE h[k + 1] \in Parts
      OBVIOUS
    <3>1. k + 1 \in 1 .. n /\ (k + 1) - 1 = k /\ h[k] \in Parts
      BY <1>1, <2>2
    <3>2. h[k + 1] = SplitStep[<<h[k], s[k + 1]>>] /\ s[k + 1] \in Alphabet
      BY <1>1, <1>8, <3>1
    <3>3. QED
      BY <3>1, <3>2, SplitStepType
  <2> HIDE DEF S
  <2>3. QED
    BY <2>1, <2>2, Induction
<1>10. ASSUME NEW k \in 1 .. n PROVE h[k] = SplitStep[<<h[k - 1], s[k]>>]
  <2>1. h[k - 1] \in Parts
    BY <1>1, <1>9
  <2>2. QED
    BY <1>8, <2>1
<1>11. Runs(h, SplitStep, OnePart, s)
  BY <1>6, <1>10 DEF Runs
<1>12. QED
  BY <1>1, <1>5, <1>11, FoldRuns

\* Split, one character after the other.
LEMMA SplitEquations ==
  /\ Split(<< >>) = << << >> >>
  /\ \A s \in Text : Split(s) \in Parts
  /\ \A s \in Text : Split(Append(s, ".")) = Append(Split(s), << >>)
  /\ \A s \in Text, c \in Alphabet \ {"."} :
       Split(Append(s, c)) = [Split(s) EXCEPT ![Len(Split(s))] = Append(@, c)]
<1>1. /\ Fold(SplitStep, OnePart, << >>) = OnePart
      /\ \A s \in Text : Fold(SplitStep, OnePart, s) \in Parts
      /\ \A s \in Text, c \in Alphabet :
            Fold(SplitStep, OnePart, Append(s, c))
              = SplitStep[<<Fold(SplitStep, OnePart, s), c>>]
  <2>0. SplitStep \in [Parts \X Alphabet -> Parts] /\ OnePart \in Parts
    BY SplitStepType
  <2>1. Fold(SplitStep, OnePart, << >>) = OnePart
    BY FoldEmpty
  <2>2. ASSUME NEW s \in Text PROVE Fold(SplitStep, OnePart, s) \in Parts
    BY <2>0, FoldType DEF Text
  <2>3. ASSUME NEW s \in Text, NEW c \in Alphabet
        PROVE  Fold(SplitStep, OnePart, Append(s, c)) = SplitStep[<<Fold(SplitStep, OnePart, s), c>>]
    <3> DEFINE t == Append(s, c)
    <3>1. /\ t \in Text /\ Len(s) \in Nat /\ Len(t) = Len(s) + 1
          /\ t[Len(s) + 1] = c /\ \A k \in 1 .. Len(s) : s[k] = t[k]
      BY AppendProperties, LenProperties DEF Text
    <3> HIDE DEF t
    <3>2. PICK f \in [0 .. Len(s) -> Parts] : Runs(f, SplitStep, OnePart, s)
      BY <2>0, RunsExists DEF Text
    <3>3. PICK h \in [0 .. Len(t) -> Parts] : Runs(h, SplitStep, OnePart, t)
      BY <2>0, <3>1, RunsExists DEF Text
    <3>4. Fold(SplitStep, OnePart, s) = h[Len(s)] /\ Fold(SplitStep, OnePart, t) = h[Len(s) + 1]
      <4>1. Runs(f, SplitStep, OnePart, s) /\ Runs(h, SplitStep, OnePart, t)
        BY <3>2, <3>3
      <4>2. /\ Len(s) \in Nat /\ Len(t) = Len(s) + 1
            /\ \A k \in 1 .. Len(s) : s[k] = t[k]
        BY <3>1
      <4> QED
        BY ONLY <4>1, <4>2, FoldAppend
    <3>5. Len(s) + 1 \in 1 .. Len(t) /\ (Len(s) + 1) - 1 = Len(s)
      BY <3>1
    <3>6. h[Len(s) + 1] = SplitStep[<<h[Len(s)], c>>]
      BY <3>1, <3>3, <3>5 DEF Runs
    <3>7. QED
      BY <3>4, <3>6 DEF t
  <2>4. QED
    BY <2>1, <2>2, <2>3
<1>2. << >> \in Text /\ \A s \in Text, c \in Alphabet : Append(s, c) \in Text
  BY EmptySeq, AppendProperties DEF Text
<1>3. ASSUME NEW s \in Text, NEW c \in Alphabet
      PROVE  Split(Append(s, c)) = Extended(Split(s), c) /\ Split(s) \in Parts
  BY <1>1, <1>2, SplitIsFold, SplitStepType
<1>4. "." \in Alphabet
  BY Characters
<1>5. QED
  BY <1>1, <1>2, <1>3, <1>4, SplitIsFold DEF Extended, OnePart
\* Words are texts without a dot; Dot(x, y) is x, a dot and y.
Word == Seq(Alphabet \ {"."})
Dot(x, y) == x \o <<".">> \o y

\* Words are texts.
LEMMA WordIsText == Word \subseteq Text
BY SeqMonotonic DEF Word, Text

\* Two sequences with the element c between them.
LEMMA CutProperties ==
  ASSUME NEW A, NEW c \in A, NEW x \in Seq(A), NEW y \in Seq(A)
  PROVE  /\ x \o <<c>> \o y \in Seq(A)
         /\ Len(x) \in Nat /\ Len(y) \in Nat /\ Len(x \o <<c>> \o y) = Len(x) + 1 + Len(y)
         /\ (x \o <<c>> \o y)[Len(x) + 1] = c
         /\ \A k \in 1 .. Len(x) : (x \o <<c>> \o y)[k] = x[k]
         /\ \A k \in 1 .. Len(y) : (x \o <<c>> \o y)[Len(x) + 1 + k] = y[k]
<1>1. <<c>> \in Seq(A) /\ Len(<<c>>) = 1 /\ <<c>>[1] = c
  OBVIOUS
<1>2. Len(x) \in Nat /\ Len(y) \in Nat
  BY LenProperties
<1> DEFINE z == x \o <<c>>
<1>3. /\ z \in Seq(A) /\ Len(z) = Len(x) + 1 /\ z[Len(x) + 1] = c
      /\ \A k \in 1 .. Len(x) : z[k] = x[k]
  BY <1>1, <1>2, ConcatProperties
<1> HIDE DEF z
<1>4. /\ z \o y \in Seq(A) /\ Len(z \o y) = Len(z) + Len(y)
      /\ \A i \in 1 .. Len(z) + Len(y) :
            (z \o y)[i] = IF i <= Len(z) THEN z[i] ELSE y[i - Len(z)]
  BY <1>2, <1>3, ConcatProperties
<1> DEFINE w == z \o y
<1>5. w = x \o <<c>> \o y
  BY DEF z
<1> HIDE DEF w
<1>6. /\ w \in Seq(A) /\ Len(w) = Len(x) + 1 + Len(y)
      /\ \A i \in 1 .. Len(x) + 1 + Len(y) :
            w[i] = IF i <= Len(x) + 1 THEN z[i] ELSE y[i - (Len(x) + 1)]
  BY <1>2, <1>3, <1>4 DEF w
<1>7. w[Len(x) + 1] = c /\ \A k \in 1 .. Len(x) : w[k] = x[k]
  BY <1>2, <1>3, <1>6
<1>8. ASSUME NEW k \in 1 .. Len(y) PROVE w[Len(x) + 1 + k] = y[k]
  <2>1. Len(x) + 1 + k \in 1 .. Len(x) + 1 + Len(y)
    BY <1>2
  <2>2. ~(Len(x) + 1 + k <= Len(x) + 1) /\ (Len(x) + 1 + k) - (Len(x) + 1) = k
    BY <1>2
  <2>3. w[Len(x) + 1 + k] = y[(Len(x) + 1 + k) - (Len(x) + 1)]
    BY <1>6, <2>1, <2>2
  <2>4. QED
    BY <2>2, <2>3
<1>9. QED
  BY <1>2, <1>5, <1>6, <1>7, <1>8

\* Dot(x, y) is a text.
LEMMA DotText ==
  ASSUME NEW x \in Text, NEW y \in Text
  PROVE  /\ Dot(x, y) \in Text /\ Len(Dot(x, y)) = Len(x) + 1 + Len(y)
         /\ Dot(x, y)[Len(x) + 1] = "."
         /\ \A k \in 1 .. Len(x) : Dot(x, y)[k] = x[k]
         /\ \A k \in 1 .. Len(y) : Dot(x, y)[Len(x) + 1 + k] = y[k]
BY CutProperties, Characters DEF Dot, Text

\* A character more on the right of the dot.
LEMMA DotAppend ==
  ASSUME NEW x \in Text, NEW y \in Text, NEW c \in Alphabet
  PROVE  Dot(x, << >>) = Append(x, ".") /\ Dot(x, Append(y, c)) = Append(Dot(x, y), c)
<1>1. "." \in Alphabet /\ << >> \in Text /\ Append(y, c) \in Text /\ Append(x, ".") \in Text
  BY Characters, EmptySeq, AppendProperties DEF Text
<1>2. Dot(x, << >>) = Append(x, ".")
  <2>1. x \o <<".">> \in Seq(Alphabet) /\ x \o <<".">> = Append(x, ".")
    BY <1>1, ConcatProperties, AppendIsConcat DEF Text
  <2>2. QED
    BY <2>1, ConcatEmptySeq DEF Dot
<1>3. Dot(x, Append(y, c)) = Append(Dot(x, y), c)
  <2> DEFINE z == x \o <<".">>
  <2>1. z \in Seq(Alphabet) /\ y \in Seq(Alphabet) /\ <<c>> \in Seq(Alphabet)
    BY <1>1, ConcatProperties DEF Text
  <2>2. Append(y, c) = y \o <<c>> /\ Append(z \o y, c) = (z \o y) \o <<c>>
    BY <2>1, ConcatProperties, AppendIsConcat
  <2> HIDE DEF z
  <2>3. z \o (y \o <<c>>) = (z \o y) \o <<c>>
    BY <2>1, ConcatAssociative
  <2>4. QED
    BY <2>2, <2>3 DEF z, Dot
<1>4. QED
  BY <1>2, <1>3

\* A word is its only part.
LEMMA SplitWord ==
  ASSUME NEW s \in Word
  PROVE  Split(s) = <<s>>
<1> DEFINE X == {t \in Word : Split(t) = <<t>>}
<1>1. << >> \in X
  BY SplitEquations, EmptySeq DEF Word
<1>2. ASSUME NEW t \in Word, NEW c \in Alphabet \ {"."}, t \in X PROVE Append(t, c) \in X
  <2>1. Split(Append(t, c)) = [<<t>> EXCEPT ![1] = Append(t, c)]
    <3>1. t \in Text /\ Split(t) = <<t>> /\ Len(<<t>>) = 1 /\ <<t>>[1] = t
      BY <1>2, WordIsText
    <3>2. QED
      BY <3>1, SplitEquations
  <2>2. Append(t, c) \in Word
    BY AppendProperties DEF Word
  <2>3. QED
    BY <2>1, <2>2
<1> HIDE DEF X
<1>3. s \in X
  BY <1>1, <1>2, SeqInduction DEF Word
<1>4. QED
  BY <1>3 DEF X

\* A word after a dot is a part more.
LEMMA SplitDot ==
  ASSUME NEW x \in Text, NEW s \in Word
  PROVE  Split(Dot(x, s)) = Append(Split(x), s)
<1> DEFINE X == {t \in Word : Split(Dot(x, t)) = Append(Split(x), t)}
<1>0. Split(x) \in Seq(Text) /\ Len(Split(x)) \in Nat
  BY SplitEquations, LenProperties DEF Parts
<1>1. << >> \in X
  BY SplitEquations, DotAppend, EmptySeq, Characters DEF Word, Text
<1>2. ASSUME NEW t \in Word, NEW c \in Alphabet \ {"."}, t \in X PROVE Append(t, c) \in X
  <2> DEFINE p == Split(x)
             n == Len(p)
             q == Append(p, t)
             u == Append(t, c)
  <2>1. t \in Text /\ u \in Text /\ u \in Word /\ Dot(x, t) \in Text
    BY WordIsText, AppendProperties, DotText DEF Word, Text
  <2>2. Split(Dot(x, u)) = [q EXCEPT ![Len(q)] = Append(@, c)]
    <3>1. Split(Dot(x, t)) = q /\ Dot(x, u) = Append(Dot(x, t), c)
      BY <1>2, <2>1, DotAppend
    <3> DEFINE d == Dot(x, t)
    <3> HIDE DEF d, q, u
    <3>2. Split(Append(d, c)) = [Split(d) EXCEPT ![Len(Split(d))] = Append(@, c)]
      BY <2>1, SplitEquations DEF d
    <3>3. QED
      BY <3>1, <3>2 DEF d
  <2>3. /\ q \in Seq(Text) /\ Len(q) = n + 1 /\ q[n + 1] = t
        /\ \A k \in 1 .. n : q[k] = p[k]
    BY <1>0, <2>1, AppendProperties
  <2> DEFINE r == [q EXCEPT ![n + 1] = u]
             v == Append(p, u)
  <2>4. Split(Dot(x, u)) = r
    BY <2>2, <2>3
  <2>5. r \in Seq(Text) /\ Len(r) = n + 1 /\ \A k \in 1 .. n + 1 : r[k] = IF k = n + 1 THEN u ELSE q[k]
    <3>1. n + 1 \in 1 .. Len(q)
      BY <1>0, <2>3
    <3> HIDE DEF q, u, n
    <3>2. QED
      BY <2>1, <2>3, <3>1, ExceptSeq
  <2>6. v \in Seq(Text) /\ Len(v) = n + 1 /\ v[n + 1] = u /\ \A k \in 1 .. n : v[k] = p[k]
    BY <1>0, <2>1, AppendProperties
  <2>7. r = v
    <3> HIDE DEF r, v, q, u, p
    <3>1. \A k \in 1 .. n + 1 : r[k] = v[k]
      BY <1>0, <2>3, <2>5, <2>6 DEF p
    <3>2. QED
      BY <2>5, <2>6, <3>1, SeqEqual
  <2>8. QED
    BY <2>1, <2>4, <2>7
<1> HIDE DEF X
<1>3. s \in X
  BY <1>1, <1>2, SeqInduction DEF Word
<1>4. QED
  BY <1>3 DEF X

\* Every text is a word, or what is before its last dot, the dot and a word.
LEMMA LastDot ==
  ASSUME NEW s \in Text
  PROVE  s \in Word \/ \E x \in Text, y \in Word : s = Dot(x, y)
<1> DEFINE X == {t \in Text : t \in Word \/ \E x \in Text, y \in Word : t = Dot(x, y)}
<1>1. << >> \in X
  BY EmptySeq DEF Word, Text
<1>2. ASSUME NEW t \in Text, NEW c \in Alphabet, t \in X PROVE Append(t, c) \in X
  <2>1. Append(t, c) \in Text /\ << >> \in Word
    BY AppendProperties, EmptySeq DEF Text, Word
  <2>2. CASE c = "."
    <3>1. Append(t, c) = Dot(t, << >>)
      BY <2>2, <2>1, DotAppend, WordIsText
    <3>2. QED
      BY <2>1, <3>1
  <2>3. CASE c # "." /\ t \in Word
    BY <2>1, <2>3, AppendProperties DEF Word
  <2>4. CASE c # "." /\ t \notin Word
    <3>1. PICK x \in Text, y \in Word : t = Dot(x, y)
      BY <1>2, <2>4
    <3>2. Append(y, c) \in Word /\ y \in Text
      BY <2>4, AppendProperties, WordIsText DEF Word
    <3>3. Append(t, c) = Dot(x, Append(y, c))
      BY <3>1, <3>2, DotAppend
    <3>4. QED
      BY <2>1, <3>2, <3>3
  <2>5. QED
    BY <2>2, <2>3, <2>4
<1> HIDE DEF X
<1>3. s \in X
  BY <1>1, <1>2, SeqInduction DEF Text
<1>4. QED
  BY <1>3 DEF X
\* Induction over texts, one part after the other.
LEMMA TextInduction ==
  ASSUME NEW X, Word \subseteq X, \A x \in Text, y \in Word : x \in X => Dot(x, y) \in X
  PROVE  \A s \in Text : s \in X
<1> DEFINE S == {n \in Nat : \A s \in Text : Len(s) <= n => s \in X}
<1>1. 0 \in S
  <2> SUFFICES ASSUME NEW s \in Text, Len(s) <= 0 PROVE s \in X
    OBVIOUS
  <2>1. s = << >> /\ << >> \in Word
    BY EmptySeq DEF Text, Word
  <2>2. QED
    BY <2>1
<1>2. ASSUME NEW n \in Nat, n \in S PROVE n + 1 \in S
  <2> SUFFICES ASSUME NEW s \in Text, Len(s) <= n + 1 PROVE s \in X
    OBVIOUS
  <2>1. CASE s \in Word
    BY <2>1
  <2>2. ASSUME NEW x \in Text, NEW y \in Word, s = Dot(x, y) PROVE s \in X
    <3>1. Len(x) \in Nat /\ Len(y) \in Nat /\ Len(s) = Len(x) + 1 + Len(y)
      BY <2>2, DotText, WordIsText, LenProperties DEF Text
    <3>2. x \in X
      BY <1>2, <3>1
    <3>3. QED
      BY <2>2, <3>2
  <2>3. QED
    BY <2>1, <2>2, LastDot
<1> HIDE DEF S
<1>3. \A n \in Nat : n \in S
  BY <1>1, <1>2, Induction
<1>4. \A s \in Text : Len(s) \in Nat
  BY LenProperties DEF Text
<1>5. QED
  BY <1>3, <1>4 DEF S

\* Short tuples.
LEMMA Tuples ==
  /\ \A a, b : <<a>> = <<b>> => a = b
  /\ \A a, b : Append(<<a>>, b) = <<a, b>>
  /\ \A a, b, c : Append(<<a, b>>, c) = <<a, b, c>>
  /\ \A a : Len(<<a>>) = 1
<1>1. ASSUME NEW a, NEW b, <<a>> = <<b>> PROVE a = b
  <2>1. <<a>>[1] = a /\ <<b>>[1] = b
    OBVIOUS
  <2>2. QED
    BY <1>1, <2>1
<1>2. ASSUME NEW a, NEW b PROVE Append(<<a>>, b) = <<a, b>>
  <2> DEFINE S == {a, b}
             p == <<a>>
             q == <<a, b>>
             r == Append(p, b)
  <2>1. p \in Seq(S) /\ Len(p) = 1 /\ p[1] = a /\ b \in S
    OBVIOUS
  <2>2. q \in Seq(S) /\ Len(q) = 2 /\ q[1] = a /\ q[2] = b
    OBVIOUS
  <2> HIDE DEF S, p, q
  <2>3. r \in Seq(S) /\ Len(r) = 2 /\ r[1] = a /\ r[2] = b
    <3>1. /\ r \in Seq(S) /\ Len(r) = Len(p) + 1 /\ r[Len(p) + 1] = b
          /\ \A k \in 1 .. Len(p) : r[k] = p[k]
      <4>1. p \in Seq(S) /\ b \in S
        BY <2>1
      <4>2. QED
        BY ONLY <4>1, AppendProperties
    <3>2. 1 \in 1 .. 1 /\ 1 + 1 = 2
      OBVIOUS
    <3> QED
      BY <2>1, <3>1, <3>2, Zenon
  <2> HIDE DEF r
  <2>4. r = q
    BY <2>2, <2>3, SeqEqual
  <2>5. QED
    BY <2>4 DEF p, q, r
<1>3. ASSUME NEW a, NEW b, NEW c PROVE Append(<<a, b>>, c) = <<a, b, c>>
  <2> DEFINE S == {a, b, c}
             p == <<a, b>>
             q == <<a, b, c>>
             r == Append(p, c)
  <2>1. p \in Seq(S) /\ Len(p) = 2 /\ p[1] = a /\ p[2] = b /\ c \in S
    OBVIOUS
  <2>2. q \in Seq(S) /\ Len(q) = 3 /\ q[1] = a /\ q[2] = b /\ q[3] = c
    OBVIOUS
  <2> HIDE DEF S, p, q
  <2>3. r \in Seq(S) /\ Len(r) = 3 /\ r[1] = a /\ r[2] = b /\ r[3] = c
    <3>1. /\ r \in Seq(S) /\ Len(r) = Len(p) + 1 /\ r[Len(p) + 1] = c
          /\ \A k \in 1 .. Len(p) : r[k] = p[k]
      <4>1. p \in Seq(S) /\ c \in S
        BY <2>1
      <4>2. QED
        BY ONLY <4>1, AppendProperties
    <3>2. 1 \in 1 .. 2 /\ 2 \in 1 .. 2 /\ 2 + 1 = 3
      OBVIOUS
    <3> QED
      BY <2>1, <3>1, <3>2, Zenon
  <2> HIDE DEF r
  <2>4. r = q
    BY <2>2, <2>3, SeqEqual
  <2>5. QED
    BY <2>4 DEF p, q, r
<1>4. QED
  BY <1>1, <1>2, <1>3

\* The last part of a text.
LEMMA SplitForm ==
  ASSUME NEW s \in Text
  PROVE  \/ s \in Word /\ Split(s) = <<s>>
         \/ \E x \in Text, y \in Word : s = Dot(x, y) /\ Split(s) = Append(Split(x), y)
BY LastDot, SplitWord, SplitDot

\* The parts of a text are words, and there is one at least.
LEMMA SplitLen ==
  ASSUME NEW s \in Text
  PROVE  /\ Split(s) \in Seq(Word) /\ Len(Split(s)) \in Nat \ {0}
         /\ \A y \in Word : /\ Len(Append(Split(s), y)) = Len(Split(s)) + 1
                            /\ Append(Split(s), y)[Len(Split(s)) + 1] = y
                            /\ \A k \in 1 .. Len(Split(s)) : Append(Split(s), y)[k] = Split(s)[k]
<1> DEFINE X == {t \in Text : Split(t) \in Seq(Word)}
<1>1. Word \subseteq X
  <2> SUFFICES ASSUME NEW w \in Word PROVE Split(w) \in Seq(Word)
    BY WordIsText
  <2>1. <<w>> \in Seq(Word)
    OBVIOUS
  <2>2. QED
    BY <2>1, SplitWord
<1>2. ASSUME NEW x \in Text, NEW y \in Word, x \in X PROVE Dot(x, y) \in X
  <2>1. Append(Split(x), y) \in Seq(Word)
    BY <1>2, AppendProperties
  <2>2. QED
    BY <2>1, SplitDot, DotText, WordIsText
<1> HIDE DEF X
<1>3. s \in X
  BY <1>1, <1>2, TextInduction
<1>4. Split(s) \in Seq(Word)
  BY <1>3 DEF X
<1>5. Split(s) # << >>
  BY SplitEquations DEF Parts
<1>6. Len(Split(s)) \in Nat \ {0}
  BY <1>4, <1>5, EmptySeq
<1>7. QED
  BY <1>4, <1>6, AppendProperties

\* Texts of one, two and three parts.
LEMMA SplitShort ==
  ASSUME NEW s \in Text
  PROVE  /\ Len(Split(s)) = 1 => s \in Word /\ Split(s) = <<s>>
         /\ Len(Split(s)) = 2 => \E a, b \in Word : s = Dot(a, b) /\ Split(s) = <<a, b>>
         /\ Len(Split(s)) = 3 =>
              \E a, b, c \in Word : s = Dot(Dot(a, b), c) /\ Split(s) = <<a, b, c>>
<1>1. ASSUME NEW t \in Text, Len(Split(t)) = 1 PROVE t \in Word /\ Split(t) = <<t>>
  <2>1. ASSUME NEW x \in Text, NEW y \in Word, Split(t) = Append(Split(x), y) PROVE FALSE
    BY <1>1, <2>1, SplitLen
  <2>2. QED
    BY <2>1, SplitForm
<1>2. ASSUME NEW t \in Text, Len(Split(t)) = 2
      PROVE  \E a, b \in Word : t = Dot(a, b) /\ Split(t) = <<a, b>>
  <2>1. t \notin Word
    BY <1>2, SplitWord
  <2>2. PICK x \in Text, y \in Word : t = Dot(x, y) /\ Split(t) = Append(Split(x), y)
    BY <2>1, SplitForm
  <2>3. Len(Split(x)) = 1
    <3> DEFINE p == Split(x)
               q == Append(p, y)
    <3>1. Len(q) = 2
      BY <1>2, <2>2
    <3>2. Len(q) = Len(p) + 1 /\ Len(p) \in Nat
      BY SplitLen
    <3> HIDE DEF p, q
    <3>3. \A n \in Nat : 2 = n + 1 => n = 1
      OBVIOUS
    <3>4. Len(p) = 1
      BY <3>1, <3>2, <3>3, Zenon
    <3>5. QED
      BY <3>4 DEF p
  <2>4. x \in Word /\ Split(x) = <<x>>
    BY <1>1, <2>3
  <2>5. Append(Split(x), y) = <<x, y>>
    BY <2>4, Tuples, Zenon
  <2>6. QED
    BY <2>2, <2>4, <2>5, Zenon
<1>3. ASSUME Len(Split(s)) = 3
      PROVE  \E a, b, c \in Word : s = Dot(Dot(a, b), c) /\ Split(s) = <<a, b, c>>
  <2>1. s \notin Word
    BY <1>3, SplitWord
  <2>2. PICK x \in Text, y \in Word : s = Dot(x, y) /\ Split(s) = Append(Split(x), y)
    BY <2>1, SplitForm
  <2>3. Len(Split(x)) = 2
    <3> DEFINE p == Split(x)
               q == Append(p, y)
    <3>1. Len(q) = 3
      BY <1>3, <2>2
    <3>2. Len(q) = Len(p) + 1 /\ Len(p) \in Nat
      BY SplitLen
    <3> HIDE DEF p, q
    <3>3. \A n \in Nat : 3 = n + 1 => n = 2
      OBVIOUS
    <3>4. Len(p) = 2
      BY <3>1, <3>2, <3>3, Zenon
    <3>5. QED
      BY <3>4 DEF p
  <2>4. PICK a \in Word, b \in Word : x = Dot(a, b) /\ Split(x) = <<a, b>>
    BY <1>2, <2>3
  <2>5. Append(Split(x), y) = <<a, b, y>>
    BY <2>4, Tuples, Zenon
  <2>6. QED
    BY <2>2, <2>4, <2>5, Zenon
<1>4. QED
  BY <1>1, <1>2, <1>3

\* The same from the parts.
LEMMA SplitWords ==
  ASSUME NEW a \in Word, NEW b \in Word, NEW c \in Word
  PROVE  /\ Split(a) = <<a>> /\ Split(Dot(a, b)) = <<a, b>>
         /\ Split(Dot(Dot(a, b), c)) = <<a, b, c>>
<1>1. a \in Text /\ b \in Text /\ Dot(a, b) \in Text
  BY WordIsText, DotText
<1>2. Split(a) = <<a>>
  BY SplitWord
<1>3. Split(Dot(a, b)) = <<a, b>>
  BY <1>1, <1>2, SplitDot, Tuples, Zenon
<1>4. Split(Dot(Dot(a, b), c)) = <<a, b, c>>
  <2> DEFINE d == Dot(a, b)
  <2>1. d \in Text /\ Split(d) = <<a, b>>
    BY <1>1, <1>3
  <2> HIDE DEF d
  <2>2. Split(Dot(d, c)) = Append(Split(d), c)
    BY <2>1, SplitDot
  <2>3. Append(<<a, b>>, c) = <<a, b, c>>
    BY Tuples, Zenon
  <2>4. QED
    BY <2>1, <2>2, <2>3 DEF d
<1>5. QED
  BY <1>2, <1>3, <1>4

\* No two texts have the same parts.
LEMMA SplitInjective ==
  ASSUME NEW s \in Text, NEW t \in Text, Split(s) = Split(t)
  PROVE  s = t
<1> DEFINE X == {u \in Text : \A v \in Text : Split(u) = Split(v) => u = v}
<1>1. Word \subseteq X
  <2> SUFFICES ASSUME NEW u \in Word, NEW v \in Text, Split(u) = Split(v) PROVE u = v
    BY WordIsText
  <2>1. Split(u) = <<u>> /\ Len(Split(v)) = 1
    BY SplitWord, Tuples
  <2>2. Split(v) = <<v>>
    BY <2>1, SplitShort
  <2>3. QED
    BY <2>1, <2>2, Tuples, Zenon
<1>2. ASSUME NEW x \in Text, NEW y \in Word, x \in X PROVE Dot(x, y) \in X
  <2> SUFFICES ASSUME NEW v \in Text, Split(Dot(x, y)) = Split(v) PROVE Dot(x, y) = v
    BY WordIsText, DotText
  <2>1. Split(v) = Append(Split(x), y)
    BY SplitDot
  <2>2. v \notin Word
    BY <2>1, SplitLen, SplitWord
  <2>3. PICK a \in Text, b \in Word : v = Dot(a, b) /\ Split(v) = Append(Split(a), b)
    BY <2>2, SplitForm
  <2>4. Split(x) = Split(a) /\ y = b
    BY <2>1, <2>3, SplitLen, AppendInjective
  <2>5. QED
    BY <1>2, <2>3, <2>4
<1> HIDE DEF X
<1>3. s \in X
  BY <1>1, <1>2, TextInduction
<1>4. QED
  BY <1>3 DEF X

-----------------------------------------------------------------------------
(* Cutting a text at a character                                           *)

\* The least element of a set of numbers.
LEMMA MinIs ==
  ASSUME NEW K, K \subseteq Nat, NEW m \in K, \A k \in K : m <= k
  PROVE  Min(K) = m
<1> DEFINE x == CHOOSE x \in K : \A y \in K : x <= y
<1>1. x \in K /\ \A y \in K : x <= y
  OBVIOUS
<1>2. x = Min(K)
  BY DEF Min
<1> HIDE DEF x
<1>3. x <= m /\ m <= x /\ x \in Nat /\ m \in Nat
  BY <1>1
<1>4. x = m
  BY <1>3
<1>5. QED
  BY <1>2, <1>4

\* The first occurrence of a character that x does not contain.
LEMMA CutAtFirst ==
  ASSUME NEW A, NEW c \in A, NEW x \in Seq(A \ {c}), NEW y \in Seq(A)
  PROVE  /\ c \in Range(x \o <<c>> \o y)
         /\ Upto(x \o <<c>> \o y, c) = x /\ After(x \o <<c>> \o y, c) = y
<1> DEFINE w == x \o <<c>> \o y
           n == Len(x)
<1>1. x \in Seq(A)
  BY SeqMonotonic
<1>2. /\ w \in Seq(A) /\ n \in Nat /\ Len(y) \in Nat /\ Len(w) = n + 1 + Len(y) /\ w[n + 1] = c
      /\ \A k \in 1 .. n : w[k] = x[k]
      /\ \A k \in 1 .. Len(y) : w[n + 1 + k] = y[k]
  BY <1>1, CutProperties
<1>3. \A k \in 1 .. n : x[k] # c
  BY ElementOfSeq
<1> HIDE DEF w, n
<1>4. DOMAIN w = 1 .. n + 1 + Len(y) /\ n + 1 \in DOMAIN w
  BY <1>2, LenProperties
<1>5. c \in Range(w)
  BY <1>2, <1>4 DEF Range
<1> DEFINE K == {k \in DOMAIN w : w[k] = c}
<1>6. n + 1 \in K /\ \A k \in K : n + 1 <= k
  BY <1>2, <1>3, <1>4
<1>7. K \subseteq Nat
  BY <1>4
<1>8. Find(w, c) = Min(K)
  BY <1>5 DEF Find
<1> HIDE DEF K
<1>9. Min(K) = n + 1
  BY <1>6, <1>7, MinIs
<1>10. Upto(w, c) = SubSeq(w, 1, n) /\ After(w, c) = SubSeq(w, n + 2, Len(w))
  <2>1. (n + 1) - 1 = n /\ (n + 1) + 1 = n + 2
    BY <1>2
  <2>2. QED
    BY <1>5, <1>8, <1>9, <2>1 DEF Upto, After
<1>11. SubSeq(w, 1, n) = x
  <2>1. \A k \in 1 .. n : w[k] \in A
    BY <1>2, ElementOfSeq
  <2>2. /\ SubSeq(w, 1, n) \in Seq(A) /\ Len(SubSeq(w, 1, n)) = n
        /\ \A k \in 1 .. n : SubSeq(w, 1, n)[k] = w[k]
    <3> DEFINE u == SubSeq(w, 1, n)
    <3>1. /\ u \in Seq(A) /\ Len(u) = IF 1 <= n THEN n - 1 + 1 ELSE 0
          /\ \A k \in 1 .. n - 1 + 1 : u[k] = w[1 + k - 1]
      BY <1>2, <2>1, SubSeqProperties
    <3> HIDE DEF u
    <3>2. QED
      BY <1>2, <3>1 DEF u
  <2>3. QED
    BY <1>1, <1>2, <2>2, SeqEqual DEF n
<1>12. SubSeq(w, n + 2, Len(w)) = y
  <2> DEFINE m == Len(w)
             u == SubSeq(w, n + 2, m)
  <2>1. \A k \in n + 2 .. m : w[k] \in A
    BY <1>2, ElementOfSeq
  <2>2. /\ u \in Seq(A) /\ Len(u) = IF n + 2 <= m THEN m - (n + 2) + 1 ELSE 0
        /\ \A k \in 1 .. m - (n + 2) + 1 : u[k] = w[(n + 2) + k - 1]
    BY <1>2, <2>1, SubSeqProperties
  <2> HIDE DEF u
  <2>3. Len(u) = Len(y)
    BY <1>2, <2>2
  <2>4. ASSUME NEW k \in 1 .. Len(u) PROVE u[k] = y[k]
    <3>1. k \in 1 .. m - (n + 2) + 1 /\ (n + 2) + k - 1 = n + 1 + k /\ k \in 1 .. Len(y)
      BY <1>2, <2>3
    <3>2. u[k] = w[n + 1 + k]
      BY <2>2, <3>1
    <3>3. QED
      BY <1>2, <3>1, <3>2
  <2>5. QED
    BY <2>2, <2>3, <2>4, SeqEqual DEF u
<1>13. QED
  BY <1>5, <1>10, <1>11, <1>12 DEF w

\* Without one there is nothing to cut.
LEMMA CutNowhere ==
  ASSUME NEW A, NEW c, NEW s \in Seq(A)
  PROVE  c \notin Range(s) <=> s \in Seq(A \ {c})
<1>1. /\ Len(s) \in Nat /\ DOMAIN s = 1 .. Len(s) /\ s \in [1 .. Len(s) -> A]
  BY LenProperties
<1>2. Range(s) = {s[i] : i \in 1 .. Len(s)}
  BY RangeEquality
<1>3. ASSUME c \notin Range(s) PROVE s \in Seq(A \ {c})
  <2>1. s \in Seq(Range(s)) /\ Range(s) \subseteq A \ {c}
    BY <1>3, SeqOfRange, RangeOfSeq
  <2>2. QED
    BY <2>1, SeqMonotonic
<1>4. ASSUME s \in Seq(A \ {c}) PROVE c \notin Range(s)
  BY <1>4, RangeOfSeq
<1>5. QED
  BY <1>3, <1>4

\* s is cut at a c that has none before it.
IsCut(A, c, s) == \E x \in Seq(A \ {c}), y \in Seq(A) : s = x \o <<c>> \o y

\* Every sequence with a c in it is cut at the first.
LEMMA CutExists ==
  ASSUME NEW A, NEW c \in A, NEW s \in Seq(A), c \in Range(s)
  PROVE  IsCut(A, c, s)
<1> DEFINE X == {t \in Seq(A) : c \notin Range(t)
                   \/ \E x \in Seq(A \ {c}), y \in Seq(A) : t = x \o <<c>> \o y}
<1>1. << >> \in X
  <2>1. Range(<< >>) = {} /\ << >> \in Seq(A)
    BY EmptySeq DEF Range
  <2>2. QED
    BY <2>1
<1>2. ASSUME NEW t \in Seq(A), NEW d \in A, t \in X PROVE Append(t, d) \in X
  <2>1. Append(t, d) \in Seq(A) /\ << >> \in Seq(A) /\ <<c>> \in Seq(A) /\ <<d>> \in Seq(A)
    BY AppendProperties, EmptySeq
  <2>2. Append(t, d) = t \o <<d>>
    BY AppendIsConcat
  <2>3. CASE c \notin Range(t) /\ d = c
    <3>1. t \in Seq(A \ {c})
      BY <2>3, CutNowhere
    <3>2. t \o <<c>> \o << >> = t \o <<c>>
      BY <2>1, ConcatProperties, ConcatEmptySeq
    <3>3. QED
      BY <2>1, <2>2, <2>3, <3>1, <3>2
  <2>4. CASE c \notin Range(t) /\ d # c
    <3>1. t \in Seq(A \ {c}) /\ d \in A \ {c}
      BY <2>4, CutNowhere
    <3>2. Append(t, d) \in Seq(A \ {c})
      BY <3>1, AppendProperties
    <3>3. QED
      BY <2>1, <3>2, CutNowhere
  <2>5. CASE c \in Range(t)
    <3>1. PICK x \in Seq(A \ {c}), y \in Seq(A) : t = x \o <<c>> \o y
      BY <1>2, <2>5
    <3> DEFINE z == x \o <<c>>
    <3>2. x \in Seq(A) /\ z \in Seq(A)
      BY <2>1, SeqMonotonic, ConcatProperties
    <3>3. t \o <<d>> = z \o (y \o <<d>>)
      <4> HIDE DEF z
      <4>1. (z \o y) \o <<d>> = z \o (y \o <<d>>)
        BY <2>1, <3>2, ConcatAssociative
      <4>2. QED
        BY <3>1, <4>1 DEF z
    <3>4. y \o <<d>> \in Seq(A)
      BY <2>1, ConcatProperties
    <3>5. QED
      BY <2>1, <2>2, <3>3, <3>4
  <2>6. QED
    BY <2>3, <2>4, <2>5
<1> HIDE DEF X
<1>3. s \in X
  BY <1>1, <1>2, SeqInduction
<1>4. QED
  BY <1>3 DEF X, IsCut

-----------------------------------------------------------------------------
(* Printing numbers                                                        *)

\* Division by ten.
LEMMA Decimal ==
  /\ \A n \in Nat : n >= 10 => n \div 10 \in 0 .. n - 1
  /\ \A a \in Nat, d \in 0 .. 2 : (10 * a + d) \div 10 = a /\ (10 * a + d) % 10 = d
<1>1. \A n \in Nat : n >= 10 => n \div 10 \in 0 .. n - 1
  OBVIOUS
<1>2. \A a \in Nat, d \in 0 .. 2 : (10 * a + d) \div 10 = a
  OBVIOUS
<1>3. \A a \in Nat, d \in 0 .. 2 : (10 * a + d) % 10 = d
  OBVIOUS
<1>4. QED
  BY <1>1, <1>2, <1>3

\* The digit that to_string appends.
LastDigit(n) == CHOOSE d \in Digit : DigitValue[d] = n % 10

\* It is the digit of the remainder.
LEMMA LastDigitIs ==
  ASSUME NEW a \in Nat, NEW d \in Digit
  PROVE  LastDigit(10 * a + DigitValue[d]) = d
<1>1. DigitValue[d] \in 0 .. 2 /\ \A e \in Digit : DigitValue[e] = DigitValue[d] => e = d
  BY Characters
<1> DEFINE v == DigitValue[d]
           n == 10 * a + v
<1>2. n % 10 = v
  BY <1>1, Decimal
<1> HIDE DEF v, n
<1>3. LastDigit(n) = CHOOSE e \in Digit : DigitValue[e] = v
  BY <1>2 DEF LastDigit
<1> DEFINE e == CHOOSE e \in Digit : DigitValue[e] = v
<1>4. e \in Digit /\ DigitValue[e] = v
  BY DEF v
<1> HIDE DEF e
<1>5. e = d
  BY <1>1, <1>4 DEF v
<1>6. QED
  BY <1>3, <1>5 DEF e, n, v

\* The defining equation of to_string, whose recursion is on smaller numbers.
LEMMA ToStringEquation ==
  \A n \in 0 .. MaxInt :
    to_string[n] = IF n < 10 THEN <<LastDigit(n)>>
                   ELSE Append(to_string[n \div 10], LastDigit(n))
<1> DEFINE E(f, n) == IF n < 10 THEN <<LastDigit(n)>> ELSE Append(f[n \div 10], LastDigit(n))
           D(f) == f = [n \in 0 .. MaxInt |-> E(f, n)]
           S == {m \in Nat : \E f : DOMAIN f = 0 .. m /\ \A n \in 0 .. m : f[n] = E(f, n)}
<1>1. 0 \in S
  <2> DEFINE f == [n \in 0 .. 0 |-> <<LastDigit(n)>>]
  <2>1. DOMAIN f = 0 .. 0 /\ \A n \in 0 .. 0 : f[n] = E(f, n)
    OBVIOUS
  <2> HIDE DEF f, E
  <2>2. QED
    BY <2>1
<1>2. ASSUME NEW m \in Nat, m \in S PROVE m + 1 \in S
  <2>1. PICK f : DOMAIN f = 0 .. m /\ \A n \in 0 .. m : f[n] = E(f, n)
    BY <1>2
  <2> DEFINE g == [n \in 0 .. m + 1 |-> IF n <= m THEN f[n] ELSE E(f, m + 1)]
  <2>2. DOMAIN g = 0 .. m + 1 /\ \A n \in 0 .. m : g[n] = f[n]
    OBVIOUS
  <2>3. g[m + 1] = E(f, m + 1)
    OBVIOUS
  <2> HIDE DEF g
  <2>4. ASSUME NEW n \in 0 .. m + 1 PROVE g[n] = E(g, n)
    <3>1. n >= 10 => n \div 10 \in 0 .. m
      BY Decimal
    <3>2. E(g, n) = E(f, n)
      BY <2>2, <3>1
    <3>3. CASE n <= m
      <4>1. n \in 0 .. m
        BY <3>3
      <4>2. g[n] = f[n] /\ f[n] = E(f, n)
        BY <2>1, <2>2, <4>1
      <4> HIDE DEF E
      <4>3. QED
        BY <3>2, <4>2
    <3>4. CASE n = m + 1
      <4> HIDE DEF E
      <4>1. QED
        BY <2>3, <3>2, <3>4
    <3>5. QED
      BY <3>3, <3>4
  <2> HIDE DEF E
  <2>5. QED
    BY <2>2, <2>4
<1>3. MaxInt \in S
  <2> HIDE DEF S
  <2>1. QED
    BY <1>1, <1>2, Induction, VersionsAssumption
<1>4. PICK f : DOMAIN f = 0 .. MaxInt /\ \A n \in 0 .. MaxInt : f[n] = E(f, n)
  BY <1>3
<1> DEFINE g == [n \in 0 .. MaxInt |-> f[n]]
<1>5. D(g)
  <2>1. \A n \in 0 .. MaxInt : g[n] = E(f, n)
    <3> HIDE DEF E
    <3>1. QED
      BY <1>4
  <2>2. ASSUME NEW n \in 0 .. MaxInt PROVE E(f, n) = E(g, n)
    <3>1. n >= 10 => n \div 10 \in 0 .. MaxInt
      BY Decimal, VersionsAssumption
    <3>2. QED
      BY <3>1
  <2> HIDE DEF E
  <2>3. QED
    BY <2>1, <2>2
<1>6. to_string = CHOOSE h : D(h)
  BY DEF to_string, LastDigit
<1>7. D(to_string)
  <2> HIDE DEF D
  <2>1. QED
    BY <1>5, <1>6
<1>8. QED
  BY <1>7

\* A sequence of digits that does not start with 0 is a positive number.
LEMMA PositiveNumber ==
  ASSUME NEW s \in Seq(Digit), s # << >>, s[1] # "0"
  PROVE  Number(s) \in Nat \ {0}
<1> DEFINE X == {t \in Seq(Digit) : t # << >> /\ t[1] # "0" => Number(t) >= 1}
<1>1. << >> \in X
  BY EmptySeq
<1>2. ASSUME NEW t \in Seq(Digit), NEW d \in Digit, t \in X PROVE Append(t, d) \in X
  <2> DEFINE u == Append(t, d)
  <2> SUFFICES ASSUME u[1] # "0" PROVE Number(u) >= 1
    BY AppendProperties
  <2>1. /\ u \in Seq(Digit) /\ Len(t) \in Nat /\ u[Len(t) + 1] = d
        /\ \A k \in 1 .. Len(t) : u[k] = t[k]
    BY AppendProperties, LenProperties
  <2>2. Number(u) = 10 * Number(t) + DigitValue[d] /\ Number(t) \in Nat
    BY NumberEquations
  <2> HIDE DEF u
  <2>3. CASE t = << >>
    <3>1. Len(t) = 0 /\ u[1] = d
      BY <2>1, <2>3
    <3>2. d # "0" => DigitValue[d] >= 1
      BY Characters
    <3>3. DigitValue[d] \in Nat
      BY Characters
    <3>4. QED
      BY <2>2, <3>1, <3>2, <3>3
  <2>4. CASE t # << >>
    <3>1. 1 \in 1 .. Len(t)
      BY <2>4, EmptySeq
    <3>2. u[1] = t[1] /\ DigitValue[d] \in Nat
      BY <2>1, <3>1, Characters
    <3>3. u[1] # "0" => Number(t) >= 1
      BY <1>2, <2>4, <3>2
    <3>4. QED
      BY <2>2, <3>2, <3>3
  <2>5. QED
    BY <2>3, <2>4
<1> HIDE DEF X
<1>3. s \in X
  BY <1>1, <1>2, SeqInduction
<1>4. Number(s) >= 1 /\ Number(s) \in Nat
  BY <1>3, NumberEquations DEF X
<1>5. QED
  BY <1>4

\* A numeric text is a sequence of digits, and the other way round.
LEMMA NumeralDigits ==
  ASSUME NEW s \in Text
  PROVE  /\ Numeric(s) <=> s \in Seq(Digit)
         /\ Numeric(s) => s \in Word
<1>1. Range(s) \subseteq Digit => s \in Seq(Digit)
  BY SeqOfRange, SeqMonotonic DEF Text
<1>2. s \in Seq(Digit) => Range(s) \subseteq Digit
  BY RangeOfSeq
<1>3. Digit \subseteq Alphabet \ {"."}
  BY Characters
<1>4. QED
  BY <1>1, <1>2, <1>3, SeqMonotonic DEF Numeric, Word

\* A numeral printed is the numeral.
LEMMA PrintNumber ==
  ASSUME NEW s \in Seq(Digit), s # << >>, ~LeadingZero(s), Number(s) <= MaxInt
  PROVE  to_string[Number(s)] = s
<1> DEFINE X == {t \in Seq(Digit) : t # << >> /\ ~LeadingZero(t) /\ Number(t) <= MaxInt
                                      => to_string[Number(t)] = t}
<1>1. << >> \in X
  BY EmptySeq
<1>2. ASSUME NEW t \in Seq(Digit), NEW d \in Digit, t \in X PROVE Append(t, d) \in X
  <2> DEFINE u == Append(t, d)
             m == Number(t)
             v == DigitValue[d]
             n == Number(u)
  <2> SUFFICES ASSUME ~LeadingZero(u), n <= MaxInt PROVE to_string[n] = u
    BY AppendProperties
  <2>1. /\ u \in Seq(Digit) /\ Len(t) \in Nat /\ Len(u) = Len(t) + 1 /\ u[Len(t) + 1] = d
        /\ \A k \in 1 .. Len(t) : u[k] = t[k]
    BY AppendProperties, LenProperties
  <2>2. n = 10 * m + v /\ m \in Nat
    BY NumberEquations
  <2>3. v \in 0 .. 2
    BY Characters
  <2>4. LastDigit(n) = d
    BY <2>2, LastDigitIs
  <2> HIDE DEF u, n, v
  <2>5. n \in 0 .. MaxInt
    BY <2>2, <2>3, VersionsAssumption
  <2>6. CASE t = << >>
    <3>1. m = 0
      BY <2>6, NumberEquations
    <3>2. n < 10
      BY <2>2, <2>3, <3>1
    <3>3. to_string[n] = <<d>>
      BY <2>4, <2>5, <3>2, ToStringEquation
    <3>4. u = <<d>>
      BY <2>6 DEF u
    <3>5. QED
      BY <3>3, <3>4
  <2>7. CASE t # << >>
    <3>1. 1 \in 1 .. Len(t) /\ Len(u) > 1
      BY <2>1, <2>7, EmptySeq
    <3>2. u[1] = t[1] /\ u[1] # "0"
      BY <2>1, <3>1 DEF LeadingZero
    <3>3. m \in Nat \ {0}
      BY <2>7, <3>2, PositiveNumber
    <3> HIDE DEF m
    <3>4. n >= 10 /\ m <= MaxInt
      BY <2>2, <2>3, <3>3, VersionsAssumption
    <3>5. to_string[m] = t
      BY <1>2, <2>7, <3>2, <3>4 DEF LeadingZero, m
    <3>6. n \div 10 = m
      BY <2>2, <2>3, Decimal
    <3>7. to_string[n] = Append(to_string[n \div 10], d)
      <4>1. to_string[n] = IF n < 10 THEN <<d>> ELSE Append(to_string[n \div 10], d)
        BY <2>4, <2>5, ToStringEquation, Zenon
      <4>2. ~(n < 10)
        BY <2>5, <3>4
      <4> QED
        BY <4>1, <4>2, Zenon
    <3>8. QED
      BY <3>5, <3>6, <3>7 DEF u
  <2>8. QED
    BY <2>6, <2>7
<1> HIDE DEF X
<1>3. s \in X
  BY <1>1, <1>2, SeqInduction
<1>4. QED
  BY <1>3 DEF X

-----------------------------------------------------------------------------
(* Texts whose numbers fit                                                 *)

\* Texts whose numbers fit: so do those of what they are put together from.
LEMMA InRangeConcat ==
  ASSUME NEW x \in Text, NEW y \in Text, InRange(x \o y)
  PROVE  InRange(x) /\ InRange(y)
<1> DEFINE w == x \o y
           n == Len(x)
           m == Len(y)
<1>1. /\ w \in Text /\ n \in Nat /\ m \in Nat /\ DOMAIN x = 1 .. n /\ DOMAIN y = 1 .. m
      /\ DOMAIN w = 1 .. n + m
  BY ConcatProperties, LenProperties DEF Text
<1>2. \A i, j \in DOMAIN w :
        i <= j /\ Numeric(SubSeq(w, i, j)) => Number(SubSeq(w, i, j)) <= MaxInt
  BY Zenon DEF InRange
<1>3. ASSUME NEW i \in 1 .. n, NEW j \in 1 .. n
      PROVE  SubSeq(w, i, j) = SubSeq(x, i, j)
  BY SubSeqOfConcat1 DEF Text
<1>4. ASSUME NEW i \in 1 .. m, NEW j \in 1 .. m
      PROVE  SubSeq(w, n + i, n + j) = SubSeq(y, i, j)
  <2>1. n + i \in n + 1 .. n + m /\ n + j \in n + 1 .. n + m /\ (n + i) - n = i /\ (n + j) - n = j
    BY <1>1
  <2>2. SubSeq(w, n + i, n + j) = SubSeq(y, (n + i) - n, (n + j) - n)
    BY <2>1, SubSeqOfConcat2 DEF Text
  <2>3. QED
    BY <2>1, <2>2
<1> HIDE DEF w, n, m
<1>5. InRange(x)
  <2> SUFFICES ASSUME NEW i \in 1 .. n, NEW j \in 1 .. n, i <= j, Numeric(SubSeq(x, i, j))
               PROVE  Number(SubSeq(x, i, j)) <= MaxInt
    BY <1>1 DEF InRange
  <2>1. i \in DOMAIN w /\ j \in DOMAIN w
    BY <1>1
  <2>2. QED
    BY <1>2, <1>3, <2>1
<1>6. InRange(y)
  <2> SUFFICES ASSUME NEW i \in 1 .. m, NEW j \in 1 .. m, i <= j, Numeric(SubSeq(y, i, j))
               PROVE  Number(SubSeq(y, i, j)) <= MaxInt
    BY <1>1 DEF InRange
  <2>1. n + i \in DOMAIN w /\ n + j \in DOMAIN w /\ n + i <= n + j
    BY <1>1
  <2>2. QED
    BY <1>2, <1>4, <2>1
<1>7. QED
  BY <1>5, <1>6

\* A numeric text whose numbers fit is a number that fits.
LEMMA InRangeNumber ==
  ASSUME NEW x \in Text, InRange(x), Numeric(x)
  PROVE  Number(x) \in 0 .. MaxInt
<1>1. x \in Seq(Digit)
  BY NumeralDigits
<1>2. Number(x) \in Nat
  BY <1>1, NumberEquations
<1>3. CASE x = << >>
  <2>1. Number(x) = 0
    BY <1>3, NumberEquations
  <2>2. QED
    BY <2>1, VersionsAssumption
<1>4. CASE x # << >>
  <2>1. SubSeq(x, 1, Len(x)) = x
    BY SubSeqFull DEF Text
  <2>2. 1 \in DOMAIN x /\ Len(x) \in DOMAIN x /\ 1 <= Len(x)
    BY <1>4, EmptySeq, LenProperties DEF Text
  <2>3. Number(x) <= MaxInt
    BY <2>1, <2>2 DEF InRange
  <2>4. QED
    BY <1>2, <2>3, VersionsAssumption
<1>5. QED
  BY <1>3, <1>4

\* The same for the two sides of a dot.
LEMMA InRangeDot ==
  ASSUME NEW x \in Text, NEW y \in Text, InRange(Dot(x, y))
  PROVE  InRange(x) /\ InRange(y)
<1>1. <<".">> \in Text /\ x \o <<".">> \in Text
  BY Characters, ConcatProperties DEF Text
<1>2. InRange(x \o <<".">>) /\ InRange(y)
  BY <1>1, InRangeConcat DEF Dot
<1>3. QED
  BY <1>1, <1>2, InRangeConcat

\* And for the parts of a text.
LEMMA InRangeParts ==
  ASSUME NEW s \in Text, InRange(s), NEW k \in DOMAIN Split(s)
  PROVE  Split(s)[k] \in Word /\ InRange(Split(s)[k])
<1> DEFINE X == {t \in Text : InRange(t) => \A i \in 1 .. Len(Split(t)) : InRange(Split(t)[i])}
<1>1. Word \subseteq X
  <2> SUFFICES ASSUME NEW w \in Word, InRange(w), NEW i \in 1 .. Len(Split(w))
               PROVE  InRange(Split(w)[i])
    BY WordIsText
  <2>1. Split(w) = <<w>> /\ Len(<<w>>) = 1 /\ <<w>>[1] = w
    BY SplitWord
  <2>2. i = 1
    BY <2>1
  <2>3. QED
    BY <2>1, <2>2
<1>2. ASSUME NEW x \in Text, NEW y \in Word, x \in X PROVE Dot(x, y) \in X
  <2> DEFINE p == Split(x)
             q == Append(p, y)
  <2>1. Split(Dot(x, y)) = q /\ Dot(x, y) \in Text /\ y \in Text
    BY SplitDot, DotText, WordIsText
  <2>2. /\ Len(p) \in Nat /\ Len(q) = Len(p) + 1 /\ q[Len(p) + 1] = y
        /\ \A i \in 1 .. Len(p) : q[i] = p[i]
    BY SplitLen
  <2> HIDE DEF p, q
  <2> SUFFICES ASSUME InRange(Dot(x, y)), NEW i \in 1 .. Len(q) PROVE InRange(q[i])
    BY <2>1
  <2>3. InRange(x) /\ InRange(y)
    BY <2>1, InRangeDot
  <2>4. \A j \in 1 .. Len(p) : InRange(p[j])
    BY <1>2, <2>3 DEF p
  <2>5. i \in 1 .. Len(p) \/ i = Len(p) + 1
    BY <2>2
  <2>6. QED
    BY <2>2, <2>3, <2>4, <2>5
<1> HIDE DEF X
<1>3. s \in X
  BY <1>1, <1>2, TextInduction
<1>4. Split(s) \in Seq(Word) /\ k \in 1 .. Len(Split(s))
  BY SplitLen, LenProperties
<1>5. Split(s)[k] \in Word
  BY <1>4, ElementOfSeq
<1>6. QED
  BY <1>3, <1>4, <1>5 DEF X

-----------------------------------------------------------------------------
(* Identifiers and numerals                                                *)

\* The patch that parse takes, the missing one supplied.
Patched(y) == IF y = << >> THEN <<"0">> ELSE y

\* Completing a text completes its last part.
LEMMA CompletedForm ==
  /\ \A s \in Word : Completed(s) = s
  /\ \A x \in Text, y \in Word : Completed(Dot(x, y)) = Dot(x, Patched(y))
<1>1. ASSUME NEW s \in Word PROVE Completed(s) = s
  <2>1. s # << >> => s[Len(s)] # "."
    BY EmptySeq, ElementOfSeq DEF Word
  <2>2. QED
    BY <2>1 DEF Completed
<1>2. ASSUME NEW x \in Text, NEW y \in Word PROVE Completed(Dot(x, y)) = Dot(x, Patched(y))
  <2> DEFINE d == Dot(x, y)
  <2>1. /\ d \in Text /\ Len(x) \in Nat /\ Len(y) \in Nat /\ Len(d) = Len(x) + 1 + Len(y)
        /\ d[Len(x) + 1] = "." /\ \A k \in 1 .. Len(y) : d[Len(x) + 1 + k] = y[k]
    BY DotText, WordIsText, LenProperties DEF Text
  <2> HIDE DEF d
  <2>2. d # << >>
    BY <2>1, EmptySeq
  <2>3. CASE y = << >>
    <3>1. Len(d) = Len(x) + 1
      BY <2>1, <2>3
    <3>2. d[Len(d)] = "."
      BY <2>1, <3>1
    <3>3. Completed(d) = Append(d, "0")
      BY <2>2, <3>2 DEF Completed
    <3>4. "0" \in Alphabet /\ y \in Text
      BY Characters, WordIsText
    <3>5. Dot(x, Append(y, "0")) = Append(d, "0")
      BY <3>4, DotAppend DEF d
    <3>6. Append(y, "0") = <<"0">>
      BY <2>3
    <3>7. QED
      BY <2>3, <3>3, <3>5, <3>6 DEF d, Patched
  <2>4. CASE y # << >>
    <3>1. Len(y) \in 1 .. Len(y)
      BY <2>1, <2>4, EmptySeq DEF Word
    <3>2. d[Len(d)] = y[Len(y)]
      BY <2>1, <3>1
    <3>3. y[Len(y)] # "."
      BY <3>1, ElementOfSeq DEF Word
    <3>4. QED
      BY <2>4, <3>2, <3>3 DEF Completed, d, Patched
  <2>5. QED
    BY <2>3, <2>4
<1>3. QED
  BY <1>1, <1>2

\* The characters of a text are dots and those of its parts.
LEMMA PartsCover ==
  ASSUME NEW A, A \subseteq Alphabet, NEW s \in Text, Split(s) \in Seq(Seq(A))
  PROVE  s \in Seq(A \cup {"."})
<1> DEFINE B == A \cup {"."}
           X == {t \in Text : Split(t) \in Seq(Seq(A)) => t \in Seq(B)}
<1>1. Word \subseteq X
  <2> SUFFICES ASSUME NEW w \in Word, Split(w) \in Seq(Seq(A)) PROVE w \in Seq(B)
    BY WordIsText
  <2>1. Split(w) = <<w>> /\ Len(<<w>>) = 1 /\ <<w>>[1] = w
    BY SplitWord
  <2>2. <<w>>[1] \in Seq(A)
    <3>1. 1 \in 1 .. Len(Split(w))
      BY <2>1
    <3>2. Split(w)[1] \in Seq(A)
      BY <3>1, ElementOfSeq
    <3>3. QED
      BY <2>1, <3>2
  <2>3. w \in Seq(B)
    BY <2>1, <2>2, SeqMonotonic
  <2>4. QED
    BY <2>3
<1>2. ASSUME NEW x \in Text, NEW y \in Word, x \in X PROVE Dot(x, y) \in X
  <2> DEFINE p == Split(x)
             q == Append(p, y)
  <2>1. Split(Dot(x, y)) = q /\ Dot(x, y) \in Text
    BY SplitDot, DotText, WordIsText
  <2>2. /\ Len(p) \in Nat /\ Len(q) = Len(p) + 1 /\ q[Len(p) + 1] = y
        /\ \A i \in 1 .. Len(p) : q[i] = p[i]
    BY SplitLen
  <2>3. p \in Seq(Word)
    BY SplitLen
  <2> HIDE DEF p, q
  <2> SUFFICES ASSUME q \in Seq(Seq(A)) PROVE Dot(x, y) \in Seq(B)
    BY <2>1
  <2>4. \A i \in 1 .. Len(p) + 1 : q[i] \in Seq(A)
    BY <2>2, ElementOfSeq
  <2>5. y \in Seq(A) /\ \A i \in 1 .. Len(p) : p[i] \in Seq(A)
    BY <2>2, <2>4
  <2>6. p \in Seq(Seq(A))
    <3>1. p \in Seq(Range(p)) /\ Range(p) = {p[i] : i \in 1 .. Len(p)}
      BY <2>3, SeqOfRange, RangeEquality
    <3>2. Range(p) \subseteq Seq(A)
      BY <2>5, <3>1
    <3>3. QED
      BY <3>1, <3>2, SeqMonotonic
  <2>7. x \in Seq(B)
    BY <1>2, <2>6 DEF p
  <2>8. y \in Seq(B) /\ "." \in B
    BY <2>5, SeqMonotonic
  <2> HIDE DEF B
  <2>9. QED
    BY <2>7, <2>8, CutProperties DEF Dot
<1> HIDE DEF X
<1>3. s \in X
  BY <1>1, <1>2, TextInduction
<1>4. QED
  BY <1>3 DEF X

\* The 0 that completes a text is a numeral and an identifier.
LEMMA PatchIdentifier ==
  /\ <<"0">> \in Word /\ Identifier(<<"0">>) /\ Numeral(<<"0">>)
  /\ Number(<<"0">>) = 0
  /\ ~Identifier(<< >>) /\ ~Numeral(<< >>)
<1> DEFINE z == <<"0">>
<1>1. /\ z \in Seq(Digit) /\ z # << >> /\ Len(z) = 1 /\ z \in Word /\ z \in Text
  <2>1. "0" \in Digit /\ "0" \in Alphabet \ {"."} /\ "0" \in Alphabet
    BY Characters
  <2>2. z # << >> /\ Len(z) = 1
    OBVIOUS
  <2>3. z \in Seq(Digit) /\ z \in Seq(Alphabet \ {"."}) /\ z \in Seq(Alphabet)
    BY <2>1
  <2>4. QED
    BY <2>2, <2>3 DEF Word, Text
<1>2. z = Append(<< >>, "0")
  OBVIOUS
<1>3. Number(z) = 10 * Number(<< >>) + DigitValue["0"]
  BY <1>2, EmptySeq, Characters, NumberEquations
<1>4. Number(z) = 0
  BY <1>3, Characters, NumberEquations
<1> HIDE DEF z
<1>5. ~LeadingZero(z) /\ Range(z) \subseteq Digit
  BY <1>1, RangeOfSeq DEF LeadingZero
<1>6. Numeral(z)
  BY <1>1, <1>5 DEF Numeral, Numeric
<1>7. Digit \subseteq Range(Collation)
  BY Characters
<1>8. Identifier(z)
  BY <1>1, <1>5, <1>6, <1>7 DEF Identifier
<1>9. QED
  BY <1>1, <1>4, <1>6, <1>8 DEF z, Identifier, Numeral

\* An identifier as valid_dot_identifiers checks it.
LEMMA IdentifierIs ==
  ASSUME NEW u
  PROVE  Identifier(u) <=> /\ u # << >> /\ \A c \in Range(u) : ident_char(c)
                           /\ Numeric(u) => ~LeadingZero(u)
BY DEF Identifier, Numeral, ident_char

\* The identifiers the code takes are those of the grammar, with a last one
\* that is left empty after its dot completed.
LEMMA ValidIdentifiers ==
  ASSUME NEW s \in Text
  PROVE  valid_dot_identifiers(s) <=> DotSeparated(Completed(s), Identifier)
<1>1. CASE s \in Word
  <2>1. Split(s) = <<s>> /\ Completed(s) = s
    BY <1>1, SplitWord, CompletedForm
  <2>2. DOMAIN <<s>> = {1} /\ <<s>>[1] = s /\ Len(<<s>>) = 1
    OBVIOUS
  <2>3. valid_dot_identifiers(s) <=> Identifier(s)
    <3>1. valid_dot_identifiers(s) <=>
            /\ s # << >>
            /\ s = << >> => 1 < 1 /\ 1 = 1
            /\ \A c \in Range(s) : ident_char(c)
            /\ Numeric(s) => ~LeadingZero(s)
      BY <2>1, <2>2, Zenon DEF valid_dot_identifiers
    <3>2. QED
      BY <3>1, IdentifierIs
  <2>4. QED
    BY <2>1, <2>2, <2>3 DEF DotSeparated
<1>2. ASSUME NEW x \in Text, NEW y \in Word, s = Dot(x, y)
      PROVE  valid_dot_identifiers(s) <=> DotSeparated(Completed(s), Identifier)
  <2> DEFINE p == Split(x)
             n == Len(p)
             q == Append(p, y)
             r == Append(p, Patched(y))
  <2>1. Patched(y) \in Word
    BY PatchIdentifier DEF Patched
  <2>2. Split(s) = q /\ Completed(s) = Dot(x, Patched(y)) /\ Split(Completed(s)) = r
    BY <1>2, <2>1, SplitDot, CompletedForm
  <2>3. n \in Nat \ {0}
    BY SplitLen
  <2>4. /\ DOMAIN q = 1 .. n + 1 /\ Len(q) = n + 1 /\ q[n + 1] = y
        /\ \A k \in 1 .. n : q[k] = p[k]
    BY SplitLen, AppendProperties, LenProperties
  <2>5. /\ DOMAIN r = 1 .. n + 1 /\ r[n + 1] = Patched(y)
        /\ \A k \in 1 .. n : r[k] = p[k]
    BY <2>1, SplitLen, AppendProperties, LenProperties
  <2>6. s # << >>
    <3>1. Len(s) = Len(x) + 1 + Len(y) /\ Len(x) \in Nat /\ Len(y) \in Nat
      BY <1>2, DotText, WordIsText, LenProperties DEF Text
    <3>2. QED
      BY <3>1, EmptySeq
  <2> HIDE DEF p, n, q, r
  <2>7. valid_dot_identifiers(s) <=>
          \A k \in 1 .. n + 1 : /\ q[k] = << >> => 1 < k /\ k = n + 1
                                /\ \A c \in Range(q[k]) : ident_char(c)
                                /\ Numeric(q[k]) => ~LeadingZero(q[k])
    BY <2>2, <2>4, <2>6, Zenon DEF valid_dot_identifiers
  <2>8. ASSUME NEW k \in 1 .. n
        PROVE  (/\ q[k] = << >> => 1 < k /\ k = n + 1
                /\ \A c \in Range(q[k]) : ident_char(c)
                /\ Numeric(q[k]) => ~LeadingZero(q[k])) <=> Identifier(p[k])
    <3>1. q[k] = p[k] /\ k # n + 1
      BY <2>3, <2>4
    <3>2. QED
      BY <3>1, IdentifierIs, Zenon
  <2>9. (/\ q[n + 1] = << >> => 1 < n + 1 /\ n + 1 = n + 1
         /\ \A c \in Range(q[n + 1]) : ident_char(c)
         /\ Numeric(q[n + 1]) => ~LeadingZero(q[n + 1])) <=> Identifier(Patched(y))
    <3>1. 1 < n + 1
      BY <2>3
    <3>2. CASE y = << >>
      <4>1. Range(<< >>) = {} /\ ~LeadingZero(<< >>)
        BY DEF Range, LeadingZero
      <4>2. QED
        BY <2>4, <3>1, <3>2, <4>1, PatchIdentifier DEF Patched
    <3>3. CASE y # << >>
      BY <2>4, <3>3, IdentifierIs, Zenon DEF Patched
    <3>4. QED
      BY <3>2, <3>3
  <2>10. DotSeparated(Completed(s), Identifier) <=> \A k \in 1 .. n + 1 : Identifier(r[k])
    BY <2>2, <2>5 DEF DotSeparated
  <2>11. \A k \in 1 .. n + 1 : k \in 1 .. n \/ k = n + 1
    BY <2>3
  <2>12. n + 1 \in 1 .. n + 1 /\ \A k \in 1 .. n : k \in 1 .. n + 1
    BY <2>3
  <2>13. valid_dot_identifiers(s)
           <=> (\A k \in 1 .. n : Identifier(p[k])) /\ Identifier(Patched(y))
    BY <2>7, <2>8, <2>9, <2>11, <2>12, Zenon
  <2>14. DotSeparated(Completed(s), Identifier)
           <=> (\A k \in 1 .. n : Identifier(p[k])) /\ Identifier(Patched(y))
    BY <2>5, <2>10, <2>11, <2>12, Zenon
  <2>15. QED
    BY <2>13, <2>14
<1>3. QED
  BY <1>1, <1>2, LastDot

\* parse_u64 takes the numerals whose numbers fit, and nothing else.
LEMMA ParseNumber ==
  ASSUME NEW s \in Text, InRange(s)
  PROVE  /\ Numeral(s) => parse_u64(s) = {<<Number(s)>>} /\ Number(s) \in 0 .. MaxInt
         /\ ~Numeral(s) => parse_u64(s) = {Nothing}
<1>1. CASE Numeral(s)
  <2>1. s # << >> /\ ~LeadingZero(s) /\ Numeric(s)
    BY <1>1 DEF Numeral
  <2>2. Number(s) \in 0 .. MaxInt
    BY <2>1, InRangeNumber
  <2>3. ~(Number(s) > MaxInt)
    BY <2>2, VersionsAssumption
  <2>4. parse_u64(s) = {<<Number(s)>>}
    BY <2>1, <2>3, Zenon DEF parse_u64
  <2>5. QED
    BY <1>1, <2>2, <2>4
<1>2. CASE ~Numeral(s)
  <2>1. parse_u64(s) = {Nothing}
    BY <1>2, Zenon DEF parse_u64, Numeral
  <2>2. QED
    BY <1>2, <2>1
<1>3. QED
  BY <1>1, <1>2

\* Three parts, numerals but for the last, which may be left empty.
Triple(c, x, y, z) ==
  c = Dot(Dot(x, y), z) /\ Numeral(x) /\ Numeral(y) /\ Numeral(Patched(z))

\* The patch, supplied or not, is a word.
LEMMA PatchedWord ==
  ASSUME NEW z \in Word
  PROVE  Patched(z) \in Word
BY PatchIdentifier DEF Patched

\* The core of the grammar.
LEMMA CoreForm ==
  ASSUME NEW c \in Text
  PROVE  (DotSeparated(Completed(c), Numeral) /\ Len(Split(Completed(c))) = 3)
           <=> \E x, y, z \in Word : Triple(c, x, y, z)
<1>1. ASSUME DotSeparated(Completed(c), Numeral), Len(Split(Completed(c))) = 3
      PROVE  \E x, y, z \in Word : Triple(c, x, y, z)
  <2>1. c \notin Word
    <3> SUFFICES ASSUME c \in Word PROVE FALSE
      OBVIOUS
    <3>1. Split(Completed(c)) = <<c>>
      BY CompletedForm, SplitWord
    <3>2. Len(<<c>>) = 1
      OBVIOUS
    <3>3. QED
      BY <1>1, <3>1, <3>2
  <2>2. PICK u \in Text, z \in Word : c = Dot(u, z)
    BY <2>1, LastDot
  <2> DEFINE w == Patched(z)
             p == Split(u)
             q == Append(p, w)
  <2>3. w \in Word /\ Split(Completed(c)) = q
    BY <2>2, PatchedWord, CompletedForm, SplitDot
  <2>4. Len(p) \in Nat /\ Len(q) = Len(p) + 1
    BY <2>3, SplitLen
  <2>5. Len(q) = 3
    BY <1>1, <2>3
  <2> HIDE DEF p, q, w
  <2>6. Len(p) = 2
    <3>1. \A n \in Nat : 3 = n + 1 => n = 2
      OBVIOUS
    <3>2. QED
      BY <2>4, <2>5, <3>1, Zenon
  <2>7. PICK x \in Word, y \in Word : u = Dot(x, y) /\ p = <<x, y>>
    BY <2>6, SplitShort DEF p
  <2>8. q = <<x, y, w>>
    BY <2>7, Tuples, Zenon DEF q
  <2>9. \A k \in 1 .. 3 : Numeral(q[k])
    <3>1. DOMAIN q = 1 .. 3
      BY <2>8
    <3>2. QED
      BY <1>1, <2>3, <3>1, Zenon DEF DotSeparated
  <2>10. Numeral(x) /\ Numeral(y) /\ Numeral(w)
    <3>1. q[1] = x /\ q[2] = y /\ q[3] = w
      BY <2>8
    <3>2. 1 \in 1 .. 3 /\ 2 \in 1 .. 3 /\ 3 \in 1 .. 3
      OBVIOUS
    <3>3. QED
      BY <2>9, <3>1, <3>2, Zenon
  <2>11. Triple(c, x, y, z)
    BY <2>2, <2>7, <2>10, Zenon DEF Triple, w
  <2>12. QED
    BY <2>11, Zenon
<1>2. ASSUME NEW x \in Word, NEW y \in Word, NEW z \in Word, Triple(c, x, y, z)
      PROVE  DotSeparated(Completed(c), Numeral) /\ Len(Split(Completed(c))) = 3
  <2> DEFINE w == Patched(z)
             q == <<x, y, w>>
  <2>1. w \in Word /\ Numeral(x) /\ Numeral(y) /\ Numeral(w)
    BY <1>2, PatchedWord DEF Triple
  <2>2. Dot(x, y) \in Text
    BY DotText, WordIsText
  <2>3. Completed(c) = Dot(Dot(x, y), w)
    BY <1>2, <2>2, CompletedForm DEF Triple
  <2>4. Split(Completed(c)) = q
    <3> HIDE DEF w
    <3>1. Split(Dot(Dot(x, y), w)) = <<x, y, w>>
      BY <2>1, SplitWords
    <3>2. QED
      BY <2>3, <3>1
  <2>5. DOMAIN q = 1 .. 3 /\ Len(q) = 3 /\ q[1] = x /\ q[2] = y /\ q[3] = w
    OBVIOUS
  <2> HIDE DEF q, w
  <2>6. \A k \in 1 .. 3 : k = 1 \/ k = 2 \/ k = 3
    OBVIOUS
  <2>7. \A k \in DOMAIN q : Numeral(q[k])
    BY <2>1, <2>5, <2>6, Zenon
  <2>8. QED
    BY <2>4, <2>5, <2>7, Zenon DEF DotSeparated
<1>3. QED
  BY <1>1, <1>2, Zenon

\* What parse does with three parts: their numbers, the missing patch zero.
LEMMA CoreNumbers ==
  ASSUME NEW c \in Text, \A k \in DOMAIN Split(c) : InRange(Split(c)[k]), Len(Split(c)) = 3
  PROVE  LET last == Split(c)[3]
             C == IF last = << >> THEN {<<0>>} ELSE parse_u64(last)
         IN  /\ \A x, y, z \in Word : Triple(c, x, y, z) =>
                  /\ parse_u64(Split(c)[1]) = {<<Number(x)>>} /\ Number(x) \in 0 .. MaxInt
                  /\ parse_u64(Split(c)[2]) = {<<Number(y)>>} /\ Number(y) \in 0 .. MaxInt
                  /\ C = {<<Number(Patched(z))>>} /\ Number(Patched(z)) \in 0 .. MaxInt
             /\ ~(\E x, y, z \in Word : Triple(c, x, y, z)) =>
                  \/ parse_u64(Split(c)[1]) = {Nothing}
                  \/ parse_u64(Split(c)[2]) = {Nothing}
                  \/ C = {Nothing}
             /\ C # {} /\ parse_u64(Split(c)[1]) # {} /\ parse_u64(Split(c)[2]) # {}
<1> DEFINE q == Split(c)
           C == IF q[3] = << >> THEN {<<0>>} ELSE parse_u64(q[3])
<1>1. PICK x \in Word, y \in Word, z \in Word : c = Dot(Dot(x, y), z) /\ q = <<x, y, z>>
  BY SplitShort
<1>2. q[1] = x /\ q[2] = y /\ q[3] = z
  BY <1>1
<1>3. InRange(x) /\ InRange(y) /\ InRange(z) /\ x \in Text /\ y \in Text /\ z \in Text
  <2>1. x \in Text /\ y \in Text /\ z \in Text
    BY WordIsText
  <2>2. 1 \in DOMAIN q /\ 2 \in DOMAIN q /\ 3 \in DOMAIN q
    BY <1>1
  <2>3. QED
    BY <1>2, <2>1, <2>2
<1>4. Numeral(Patched(z)) =>
        C = {<<Number(Patched(z))>>} /\ Number(Patched(z)) \in 0 .. MaxInt
  <2>1. CASE z = << >>
    <3>1. Patched(z) = <<"0">> /\ Number(Patched(z)) = 0 /\ 0 \in 0 .. MaxInt
      BY <2>1, PatchIdentifier, VersionsAssumption DEF Patched
    <3>2. C = {<<0>>}
      BY <1>2, <2>1
    <3>3. QED
      BY <3>1, <3>2
  <2>2. CASE z # << >>
    BY <1>2, <1>3, <2>2, ParseNumber, Zenon DEF Patched
  <2>3. QED
    BY <2>1, <2>2
<1>5. ~Numeral(Patched(z)) => C = {Nothing}
  BY <1>2, <1>3, ParseNumber, PatchIdentifier, Zenon DEF Patched
<1>6. /\ Numeral(x) => parse_u64(q[1]) = {<<Number(x)>>} /\ Number(x) \in 0 .. MaxInt
      /\ ~Numeral(x) => parse_u64(q[1]) = {Nothing}
      /\ Numeral(y) => parse_u64(q[2]) = {<<Number(y)>>} /\ Number(y) \in 0 .. MaxInt
      /\ ~Numeral(y) => parse_u64(q[2]) = {Nothing}
  BY <1>2, <1>3, ParseNumber, Zenon
<1>7. ASSUME NEW u \in Word, NEW v \in Word, NEW w \in Word, Triple(c, u, v, w)
      PROVE  u = x /\ v = y /\ w = z
  <2>1. q = <<u, v, w>>
    BY <1>7, SplitWords DEF Triple
  <2>2. q[1] = u /\ q[2] = v /\ q[3] = w
    BY <2>1
  <2>3. QED
    BY <1>2, <2>2
<1>8. Triple(c, x, y, z) <=> Numeral(x) /\ Numeral(y) /\ Numeral(Patched(z))
  BY <1>1 DEF Triple
<1> HIDE DEF C
<1>9. ASSUME NEW u \in Word, NEW v \in Word, NEW w \in Word, Triple(c, u, v, w)
      PROVE  /\ parse_u64(q[1]) = {<<Number(u)>>} /\ Number(u) \in 0 .. MaxInt
             /\ parse_u64(q[2]) = {<<Number(v)>>} /\ Number(v) \in 0 .. MaxInt
             /\ C = {<<Number(Patched(w))>>} /\ Number(Patched(w)) \in 0 .. MaxInt
  BY <1>4, <1>6, <1>7, <1>8, <1>9, Zenon
<1>10. ~(\E u, v, w \in Word : Triple(c, u, v, w)) =>
         \/ parse_u64(q[1]) = {Nothing} \/ parse_u64(q[2]) = {Nothing} \/ C = {Nothing}
  BY <1>5, <1>6, <1>8, Zenon
<1>11. C # {} /\ parse_u64(q[1]) # {} /\ parse_u64(q[2]) # {}
  <2>1. \A e : {e} # {}
    OBVIOUS
  <2>2. QED
    BY <1>4, <1>5, <1>6, <2>1, Zenon
<1>12. QED
  BY <1>9, <1>10, <1>11, Zenon DEF C

-----------------------------------------------------------------------------
(* The three pieces of a version                                           *)

\* A core, the prerelease after a dash and the build after a plus.
Joined(c, p, b) ==
  c \o (IF p = << >> THEN << >> ELSE <<"-">> \o p) \o (IF b = << >> THEN << >> ELSE <<"+">> \o b)

\* What stands before a dash and before a plus.
CoreText == Seq((Alphabet \ {"+"}) \ {"-"})
PreText == Seq(Alphabet \ {"+"})

\* Texts without those characters are texts.
LEMMA Plain == CoreText \subseteq PreText /\ PreText \subseteq Text /\ CoreText \subseteq Text
BY SeqMonotonic DEF CoreText, PreText, Text

\* The cuts at the first plus of a text and at the first dash before it.
LEMMA PlusCuts ==
  /\ \A x \in PreText, y \in Text :
       /\ "+" \in Range(x \o <<"+">> \o y)
       /\ Upto(x \o <<"+">> \o y, "+") = x /\ After(x \o <<"+">> \o y, "+") = y
  /\ \A s \in Text : "+" \in Range(s) =>
       \E x \in PreText, y \in Text : s = x \o <<"+">> \o y
  /\ \A s \in Text : "+" \notin Range(s) <=> s \in PreText
<1>1. "+" \in Alphabet
  BY Characters
<1>2. \A x \in PreText, y \in Text :
        /\ "+" \in Range(x \o <<"+">> \o y)
        /\ Upto(x \o <<"+">> \o y, "+") = x /\ After(x \o <<"+">> \o y, "+") = y
  BY <1>1, CutAtFirst, Zenon DEF PreText, Text
<1>3. \A s \in Text : "+" \in Range(s) => \E x \in PreText, y \in Text : s = x \o <<"+">> \o y
  <2> SUFFICES ASSUME NEW s \in Seq(Alphabet), "+" \in Range(s)
               PROVE  \E x \in Seq(Alphabet \ {"+"}), y \in Seq(Alphabet) : s = x \o <<"+">> \o y
    BY Zenon DEF PreText, Text
  <2>1. IsCut(Alphabet, "+", s)
    BY <1>1, CutExists
  <2>2. QED
    BY <2>1 DEF IsCut
<1>4. \A s \in Text : "+" \notin Range(s) <=> s \in PreText
  BY <1>1, CutNowhere, Zenon DEF PreText, Text
<1>5. QED
  BY <1>2, <1>3, <1>4

\* The cut at the first dash before it.
LEMMA DashCuts ==
  /\ \A x \in CoreText, y \in PreText :
       /\ "-" \in Range(x \o <<"-">> \o y)
       /\ Upto(x \o <<"-">> \o y, "-") = x /\ After(x \o <<"-">> \o y, "-") = y
  /\ \A s \in PreText : "-" \in Range(s) =>
       \E x \in CoreText, y \in PreText : s = x \o <<"-">> \o y
  /\ \A s \in PreText : "-" \notin Range(s) <=> s \in CoreText
<1>1. "-" \in Alphabet \ {"+"}
  BY Characters
<1>2. \A x \in CoreText, y \in PreText :
        /\ "-" \in Range(x \o <<"-">> \o y)
        /\ Upto(x \o <<"-">> \o y, "-") = x /\ After(x \o <<"-">> \o y, "-") = y
  BY <1>1, CutAtFirst, Zenon DEF PreText, CoreText
<1>3. \A s \in PreText : "-" \in Range(s) =>
        \E x \in CoreText, y \in PreText : s = x \o <<"-">> \o y
  <2> DEFINE A == Alphabet \ {"+"}
  <2> SUFFICES ASSUME NEW s \in Seq(A), "-" \in Range(s)
               PROVE  \E x \in Seq(A \ {"-"}), y \in Seq(A) : s = x \o <<"-">> \o y
    BY Zenon DEF PreText, CoreText
  <2>1. "-" \in A
    BY <1>1
  <2> HIDE DEF A
  <2>2. IsCut(A, "-", s)
    BY <2>1, CutExists
  <2>3. QED
    BY <2>2 DEF IsCut
<1>4. \A s \in PreText : "-" \notin Range(s) <=> s \in CoreText
  BY <1>1, CutNowhere, Zenon DEF PreText, CoreText
<1>5. QED
  BY <1>2, <1>3, <1>4

\* What is before the plus.
LEMMA JoinedPre ==
  ASSUME NEW c \in CoreText, NEW p \in PreText
  PROVE  LET rest == c \o (IF p = << >> THEN << >> ELSE <<"-">> \o p)
         IN  /\ rest \in PreText /\ Upto(rest, "-") = c
             /\ "-" \in Range(rest) <=> p # << >>
             /\ p # << >> => After(rest, "-") = p /\ rest = c \o <<"-">> \o p
<1>1. c \in PreText /\ <<"-">> \in PreText /\ "-" \in Alphabet \ {"+"}
  BY Plain, Characters DEF PreText
<1>2. CASE p = << >>
  <2>1. c \o << >> = c
    BY <1>1, ConcatEmptySeq DEF PreText
  <2>2. "-" \notin Range(c)
    BY <1>1, DashCuts
  <2>3. QED
    BY <1>1, <1>2, <2>1, <2>2 DEF Upto
<1>3. CASE p # << >>
  <2>1. c \o (<<"-">> \o p) = c \o <<"-">> \o p
    BY <1>1, ConcatAssociative DEF PreText
  <2>2. /\ "-" \in Range(c \o <<"-">> \o p) /\ Upto(c \o <<"-">> \o p, "-") = c
        /\ After(c \o <<"-">> \o p, "-") = p
    BY DashCuts
  <2>3. c \o <<"-">> \o p \in PreText
    BY <1>1, CutProperties DEF PreText
  <2>4. QED
    BY <1>3, <2>1, <2>2, <2>3
<1>4. QED
  BY <1>2, <1>3

\* The pieces that parse cuts a joined text into are those it was joined from.
LEMMA JoinedParts ==
  ASSUME NEW c \in CoreText, NEW p \in PreText, NEW b \in Text
  PROVE  LET t == Joined(c, p, b)
             rest == Upto(t, "+")
         IN  /\ t \in Text /\ rest = c \o (IF p = << >> THEN << >> ELSE <<"-">> \o p)
             /\ "+" \in Range(t) <=> b # << >>
             /\ b # << >> => After(t, "+") = b /\ t = rest \o <<"+">> \o b
             /\ b = << >> => t = rest
             /\ rest \in PreText /\ Upto(rest, "-") = c
             /\ "-" \in Range(rest) <=> p # << >>
             /\ p # << >> => After(rest, "-") = p
<1> DEFINE r == c \o (IF p = << >> THEN << >> ELSE <<"-">> \o p)
           t == Joined(c, p, b)
<1>1. "-" \in Alphabet \ {"+"} /\ "+" \in Alphabet
  BY Characters
<1>2. /\ r \in PreText /\ Upto(r, "-") = c /\ ("-" \in Range(r) <=> p # << >>)
      /\ p # << >> => After(r, "-") = p
  BY JoinedPre
<1>3. t = r \o (IF b = << >> THEN << >> ELSE <<"+">> \o b)
  BY DEF Joined
<1> HIDE DEF r, t
<1>4. r \in Text /\ <<"+">> \in Text
  BY <1>1, <1>2, Plain DEF Text
<1>5. CASE b = << >>
  <2>1. t = r
    BY <1>3, <1>4, <1>5, ConcatEmptySeq DEF Text
  <2>2. "+" \notin Range(r)
    BY <1>2, <1>4, PlusCuts
  <2>3. Upto(t, "+") = r
    BY <2>1, <2>2 DEF Upto
  <2>4. QED
    BY <1>2, <1>4, <1>5, <2>1, <2>2, <2>3 DEF r, t
<1>6. CASE b # << >>
  <2>1. t = r \o <<"+">> \o b
    BY <1>3, <1>4, <1>6, ConcatAssociative DEF Text
  <2>2. "+" \in Range(t) /\ Upto(t, "+") = r /\ After(t, "+") = b
    BY <1>2, <2>1, PlusCuts
  <2>3. t \in Text
    BY <1>1, <1>4, <2>1, CutProperties DEF Text
  <2>4. QED
    BY <1>2, <1>6, <2>1, <2>2, <2>3 DEF r, t
<1>7. QED
  BY <1>5, <1>6

\* Every text in which nothing is empty after its sign is joined so.
LEMMA JoinedExists ==
  ASSUME NEW t \in Text,
         "+" \in Range(t) => After(t, "+") # << >>,
         "-" \in Range(Upto(t, "+")) => After(Upto(t, "+"), "-") # << >>
  PROVE  \E c \in CoreText, p \in PreText, b \in Text : t = Joined(c, p, b)
<1>1. "-" \in Alphabet \ {"+"} /\ "+" \in Alphabet /\ << >> \in PreText /\ << >> \in Text
  BY Characters, EmptySeq DEF PreText, Text
<1> DEFINE B(b) == IF b = << >> THEN << >> ELSE <<"+">> \o b
           P(p) == IF p = << >> THEN << >> ELSE <<"-">> \o p
<1>2. \E r \in PreText, b \in Text : t = r \o B(b) /\ Upto(t, "+") = r
  <2>1. CASE "+" \notin Range(t)
    <3>1. t \in PreText /\ Upto(t, "+") = t
      BY <2>1, PlusCuts DEF Upto
    <3>2. t \o B(<< >>) = t
      BY ConcatEmptySeq DEF Text
    <3>3. QED
      BY <1>1, <3>1, <3>2
  <2>2. CASE "+" \in Range(t)
    <3>1. PICK r \in PreText, b \in Text : t = r \o <<"+">> \o b
      BY <2>2, PlusCuts
    <3>2. After(t, "+") = b /\ Upto(t, "+") = r
      BY <3>1, PlusCuts
    <3>3. b # << >>
      BY <2>2, <3>2
    <3>4. r \in Text /\ <<"+">> \in Text
      BY <1>1, Plain DEF Text
    <3>5. t = r \o B(b)
      BY <3>1, <3>3, <3>4, ConcatAssociative DEF Text
    <3>6. QED
      BY <3>2, <3>5
  <2>3. QED
    BY <2>1, <2>2
<1>3. PICK r \in PreText, b \in Text : t = r \o B(b) /\ Upto(t, "+") = r
  BY <1>2
<1>4. \E c \in CoreText, p \in PreText : r = c \o P(p)
  <2>1. CASE "-" \notin Range(r)
    <3>1. r \in CoreText
      BY <2>1, DashCuts
    <3>2. r \o P(<< >>) = r
      BY ConcatEmptySeq DEF PreText
    <3>3. QED
      BY <1>1, <3>1, <3>2
  <2>2. CASE "-" \in Range(r)
    <3>1. PICK c \in CoreText, p \in PreText : r = c \o <<"-">> \o p
      BY <2>2, DashCuts
    <3>2. After(r, "-") = p
      BY <3>1, DashCuts
    <3>3. p # << >>
      BY <1>3, <2>2, <3>2
    <3>4. c \in PreText /\ <<"-">> \in PreText
      BY <1>1, Plain DEF PreText
    <3>5. r = c \o P(p)
      BY <3>1, <3>3, <3>4, ConcatAssociative DEF PreText
    <3>6. QED
      BY <3>5
  <2>3. QED
    BY <2>1, <2>2
<1>5. PICK c \in CoreText, p \in PreText : r = c \o P(p)
  BY <1>4
<1>6. t = Joined(c, p, b)
  BY <1>3, <1>5 DEF Joined
<1>7. QED
  BY <1>6

\* The outcomes of parse once the three parts of the core are at hand.
Outcomes(core, pre, build) ==
  {IF Nothing \in {a, b, c} THEN Nothing
   ELSE <<[major |-> a[1], minor |-> b[1], patch |-> c[1],
           prerelease |-> pre, build |-> build]>> :
     a \in parse_u64(core[1]), b \in parse_u64(core[2]),
     c \in IF core[3] = << >> THEN {<<0>>} ELSE parse_u64(core[3])}

\* The checks of the prerelease and of the build.
ValidSuffixes(p, b) ==
  (p = << >> \/ valid_dot_identifiers(p)) /\ (b = << >> \/ valid_dot_identifiers(b))

\* parse, by the three pieces of its text.
LEMMA ParseSplit ==
  ASSUME NEW c \in CoreText, NEW p \in PreText, NEW b \in Text
  PROVE  parse(Joined(c, p, b)) =
           IF ~ValidSuffixes(p, b) \/ Len(Split(c)) # 3 THEN {Nothing} ELSE Outcomes(Split(c), p, b)
<1> DEFINE t == Joined(c, p, b)
           rest == Upto(t, "+")
           core == Split(Upto(rest, "-"))
           build == IF "+" \in Range(t) THEN After(t, "+") ELSE << >>
           pre == IF "-" \in Range(rest) THEN After(rest, "-") ELSE << >>
<1>1. parse(t) = IF \/ "+" \in Range(t) /\ ~valid_dot_identifiers(build)
                    \/ "-" \in Range(rest) /\ ~valid_dot_identifiers(pre)
                    \/ Len(core) # 3
                 THEN {Nothing} ELSE Outcomes(core, pre, build)
  BY DEF parse, Outcomes
<1>2. /\ "+" \in Range(t) <=> b # << >>
      /\ b # << >> => After(t, "+") = b
      /\ Upto(rest, "-") = c
      /\ "-" \in Range(rest) <=> p # << >>
      /\ p # << >> => After(rest, "-") = p
  BY JoinedParts
<1> HIDE DEF t, rest
<1>3. build = b /\ pre = p /\ core = Split(c)
  BY <1>2
<1> HIDE DEF build, pre, core
<1>4. QED
  BY <1>1, <1>2, <1>3 DEF ValidSuffixes, t

\* The version of five pieces.
Version(x, y, z, p, b) ==
  [major |-> Number(x), minor |-> Number(y), patch |-> Number(Patched(z)),
   prerelease |-> p, build |-> b]

\* What parse makes of a text whose numbers fit.
LEMMA ParseJoined ==
  ASSUME NEW c \in CoreText, NEW p \in PreText, NEW b \in Text,
         \A k \in DOMAIN Split(c) : InRange(Split(c)[k])
  PROVE  /\ \A x, y, z \in Word : Triple(c, x, y, z) /\ ValidSuffixes(p, b) =>
              /\ parse(Joined(c, p, b)) = {<<Version(x, y, z, p, b)>>}
              /\ Number(x) \in 0 .. MaxInt /\ Number(y) \in 0 .. MaxInt
              /\ Number(Patched(z)) \in 0 .. MaxInt
         /\ ~(ValidSuffixes(p, b) /\ \E x, y, z \in Word : Triple(c, x, y, z)) =>
              parse(Joined(c, p, b)) = {Nothing}
<1> DEFINE q == Split(c)
           C == IF q[3] = << >> THEN {<<0>>} ELSE parse_u64(q[3])
           t == Joined(c, p, b)
<1>0. c \in Text
  BY Plain
<1>1. parse(t) = IF ~ValidSuffixes(p, b) \/ Len(q) # 3 THEN {Nothing} ELSE Outcomes(q, p, b)
  BY ParseSplit
<1>2. Len(q) = 3 =>
        /\ \A x, y, z \in Word : Triple(c, x, y, z) =>
             /\ parse_u64(q[1]) = {<<Number(x)>>} /\ Number(x) \in 0 .. MaxInt
             /\ parse_u64(q[2]) = {<<Number(y)>>} /\ Number(y) \in 0 .. MaxInt
             /\ C = {<<Number(Patched(z))>>} /\ Number(Patched(z)) \in 0 .. MaxInt
        /\ ~(\E x, y, z \in Word : Triple(c, x, y, z)) =>
             \/ parse_u64(q[1]) = {Nothing} \/ parse_u64(q[2]) = {Nothing} \/ C = {Nothing}
        /\ C # {} /\ parse_u64(q[1]) # {} /\ parse_u64(q[2]) # {}
  BY <1>0, CoreNumbers
<1>3. ASSUME NEW x \in Word, NEW y \in Word, NEW z \in Word, Triple(c, x, y, z)
      PROVE  Len(q) = 3
  <2>1. q = <<x, y, z>>
    BY <1>3, SplitWords DEF Triple
  <2>2. QED
    BY <2>1
<1> DEFINE A == parse_u64(q[1])
           B == parse_u64(q[2])
           R == {IF Nothing \in {u, v, w} THEN Nothing
                 ELSE <<[major |-> u[1], minor |-> v[1], patch |-> w[1],
                         prerelease |-> p, build |-> b]>> : u \in A, v \in B, w \in C}
<1>4. Outcomes(q, p, b) = R
  BY DEF Outcomes
<1> HIDE DEF q, A, B, C, t
<1>5. ASSUME NEW u, NEW v, NEW w, A = {<<u>>}, B = {<<v>>}, C = {<<w>>}
      PROVE  R = {<<[major |-> u, minor |-> v, patch |-> w, prerelease |-> p, build |-> b]>>}
  <2>1. Nothing \notin {<<u>>, <<v>>, <<w>>} /\ <<u>>[1] = u /\ <<v>>[1] = v /\ <<w>>[1] = w
    BY DEF Nothing
  <2>2. QED
    BY <1>5, <2>1
<1>6. ASSUME A = {Nothing} \/ B = {Nothing} \/ C = {Nothing}, A # {}, B # {}, C # {}
      PROVE  R = {Nothing}
  BY <1>6
<1> HIDE DEF R
<1>7. ASSUME NEW x \in Word, NEW y \in Word, NEW z \in Word, Triple(c, x, y, z), ValidSuffixes(p, b)
      PROVE  parse(t) = {<<Version(x, y, z, p, b)>>}
  <2>1. A = {<<Number(x)>>} /\ B = {<<Number(y)>>} /\ C = {<<Number(Patched(z))>>}
    BY <1>2, <1>3, <1>7, Zenon DEF A, B
  <2>2. R = {<<Version(x, y, z, p, b)>>}
    BY <1>5, <2>1, Zenon DEF Version
  <2>3. Len(q) = 3
    BY <1>3, <1>7
  <2>4. QED
    BY <1>1, <1>4, <1>7, <2>2, <2>3, Zenon
<1>8. ASSUME ~(ValidSuffixes(p, b) /\ \E x, y, z \in Word : Triple(c, x, y, z))
      PROVE  parse(t) = {Nothing}
  <2>1. CASE ~ValidSuffixes(p, b) \/ Len(q) # 3
    BY <1>1, <2>1, Zenon
  <2>2. CASE ValidSuffixes(p, b) /\ Len(q) = 3
    <3>1. ~(\E x, y, z \in Word : Triple(c, x, y, z))
      BY <1>8, <2>2
    <3>2. R = {Nothing}
      BY <1>2, <1>6, <2>2, <3>1, Zenon DEF A, B
    <3>3. QED
      BY <1>1, <1>4, <2>2, <3>2, Zenon
  <2>3. QED
    BY <2>1, <2>2
<1>9. QED
  BY <1>2, <1>3, <1>7, <1>8, Zenon DEF t

\* An accepted text is joined from three pieces.
LEMMA ParseShape ==
  ASSUME NEW t \in Text, parse(t) # {Nothing}
  PROVE  \E c \in CoreText, p \in PreText, b \in Text : t = Joined(c, p, b)
<1>1. ~valid_dot_identifiers(<< >>)
  BY Zenon DEF valid_dot_identifiers
<1> DEFINE rest == Upto(t, "+")
           core == Split(Upto(rest, "-"))
           build == IF "+" \in Range(t) THEN After(t, "+") ELSE << >>
           pre == IF "-" \in Range(rest) THEN After(rest, "-") ELSE << >>
<1>2. parse(t) = IF \/ "+" \in Range(t) /\ ~valid_dot_identifiers(build)
                    \/ "-" \in Range(rest) /\ ~valid_dot_identifiers(pre)
                    \/ Len(core) # 3
                 THEN {Nothing} ELSE Outcomes(core, pre, build)
  BY DEF parse, Outcomes
<1>3. /\ "+" \in Range(t) => valid_dot_identifiers(build)
      /\ "-" \in Range(rest) => valid_dot_identifiers(pre)
  BY <1>2, Zenon
<1>4. /\ "+" \in Range(t) => After(t, "+") # << >>
      /\ "-" \in Range(rest) => After(rest, "-") # << >>
  BY <1>1, <1>3
<1>5. QED
  BY <1>4, JoinedExists

\* The numbers of the pieces fit when those of the text do.
LEMMA InRangeJoined ==
  ASSUME NEW c \in CoreText, NEW p \in PreText, NEW b \in Text, InRange(Joined(c, p, b))
  PROVE  InRange(c) /\ InRange(p) /\ InRange(b)
<1> DEFINE P == IF p = << >> THEN << >> ELSE <<"-">> \o p
           B == IF b = << >> THEN << >> ELSE <<"+">> \o b
<1>1. /\ c \in Text /\ p \in Text /\ <<"-">> \in Text /\ <<"+">> \in Text /\ << >> \in Text
  BY Plain, Characters, EmptySeq DEF Text
<1>2. P \in Text /\ B \in Text
  BY <1>1, ConcatProperties DEF Text
<1>3. c \o P \in Text /\ Joined(c, p, b) = (c \o P) \o B
  BY <1>1, <1>2, ConcatProperties DEF Text, Joined
<1> HIDE DEF P, B
<1>4. InRange(c \o P) /\ InRange(B)
  BY <1>2, <1>3, InRangeConcat
<1>5. InRange(c) /\ InRange(P)
  BY <1>1, <1>2, <1>4, InRangeConcat
<1>6. InRange(p)
  BY <1>1, <1>5, InRangeConcat DEF P
<1>7. InRange(b)
  BY <1>1, <1>4, InRangeConcat DEF B
<1>8. QED
  BY <1>5, <1>6, <1>7

\* A text with a sign before it.
LEMMA Prefixed ==
  ASSUME NEW c \in Alphabet, NEW p \in Text
  PROVE  /\ <<c>> \o p \in Text /\ <<c>> \o p # << >>
         /\ (<<c>> \o p)[1] = c /\ Tail(<<c>> \o p) = p
<1> DEFINE w == <<c>> \o p
           z == <<c>>
<1>1. z \in Seq(Alphabet) /\ Len(z) = 1 /\ z[1] = c
  OBVIOUS
<1>2. p \in Seq(Alphabet) /\ Len(p) \in Nat
  BY LenProperties DEF Text
<1> HIDE DEF z
<1>3. /\ z \o p \in Seq(Alphabet) /\ Len(z \o p) = 1 + Len(p)
      /\ \A i \in 1 .. 1 + Len(p) : (z \o p)[i] = IF i <= 1 THEN z[i] ELSE p[i - 1]
  <2>1. /\ z \o p \in Seq(Alphabet) /\ Len(z \o p) = Len(z) + Len(p)
        /\ \A i \in 1 .. Len(z) + Len(p) : (z \o p)[i] = IF i <= Len(z) THEN z[i] ELSE p[i - Len(z)]
    <3>1. z \in Seq(Alphabet) /\ p \in Seq(Alphabet)
      BY <1>1, <1>2
    <3>2. QED
      BY ONLY <3>1, ConcatProperties
  <2>2. QED
    BY <1>1, <2>1, Zenon
<1>4. w = z \o p
  BY DEF z
<1> HIDE DEF w
<1>5. w \in Seq(Alphabet) /\ Len(w) = 1 + Len(p) /\ w # << >> /\ w[1] = c
  BY <1>1, <1>2, <1>3, <1>4, EmptySeq
<1>6. ASSUME NEW i \in 1 .. Len(p) PROVE w[i + 1] = p[i]
  <2>1. i + 1 \in 1 .. 1 + Len(p) /\ ~(i + 1 <= 1) /\ (i + 1) - 1 = i
    BY <1>2
  <2>2. w[i + 1] = p[(i + 1) - 1]
    BY <1>3, <1>4, <2>1
  <2>3. QED
    BY <2>1, <2>2
<1> DEFINE u == Tail(w)
<1>7. u \in Seq(Alphabet) /\ Len(u) = Len(w) - 1 /\ \A i \in 1 .. Len(u) : u[i] = w[i + 1]
  BY <1>5, HeadTailProperties
<1> HIDE DEF u
<1>8. Len(u) = Len(p)
  BY <1>2, <1>5, <1>7
<1>9. \A i \in 1 .. Len(u) : u[i] = p[i]
  BY <1>6, <1>7, <1>8
<1>10. u = p
  BY <1>2, <1>7, <1>8, <1>9, SeqEqual
<1>11. QED
  BY <1>5, <1>10 DEF u, w, Text

\* Completing a text does not touch its first character.
LEMMA CompletedType ==
  ASSUME NEW s \in Text
  PROVE  /\ Completed(s) \in Text
         /\ s # << >> => Completed(s) # << >> /\ Completed(s)[1] = s[1]
         /\ Completed(<< >>) = << >>
<1>1. "0" \in Alphabet
  BY Characters
<1>2. Completed(s) \in Text
  BY <1>1, AppendProperties DEF Completed, Text
<1>3. ASSUME s # << >> PROVE Completed(s) # << >> /\ Completed(s)[1] = s[1]
  <2> DEFINE u == Append(s, "0")
  <2>1. 1 \in 1 .. Len(s)
    BY <1>3, EmptySeq DEF Text
  <2>2. u # << >> /\ \A k \in 1 .. Len(s) : u[k] = s[k]
    BY <1>1, AppendProperties DEF Text
  <2> HIDE DEF u
  <2>3. Completed(s) = s \/ Completed(s) = u
    BY DEF Completed, u
  <2>4. QED
    BY <1>3, <2>1, <2>2, <2>3
<1>4. QED
  BY <1>2, <1>3, Zenon DEF Completed

\* Completing goes through the sign.
LEMMA CompletedPrefixed ==
  ASSUME NEW c \in Alphabet \ {"."}, NEW p \in Text
  PROVE  Completed(<<c>> \o p) = <<c>> \o Completed(p)
<1> DEFINE w == <<c>> \o p
<1>1. /\ w \in Text /\ w # << >> /\ <<c>> \in Text /\ Len(<<c>>) = 1 /\ <<c>>[1] = c
      /\ "0" \in Alphabet /\ Len(p) \in Nat
  BY Prefixed, Characters, LenProperties DEF Text
<1>2. CASE p = << >>
  <2>1. w = <<c>>
    BY <1>1, <1>2, ConcatEmptySeq DEF Text
  <2>2. Completed(w) = w
    BY <1>1, <2>1 DEF Completed
  <2>3. Completed(p) = p
    BY <1>2 DEF Completed
  <2>4. QED
    BY <2>2, <2>3
<1>3. CASE p # << >>
  <2>1. Len(p) \in 1 .. Len(p)
    BY <1>3, EmptySeq DEF Text
  <2>2. w[Len(w)] = p[Len(p)]
    <3>1. /\ Len(w) = 1 + Len(p)
          /\ \A i \in 1 .. 1 + Len(p) : w[i] = IF i <= 1 THEN <<c>>[i] ELSE p[i - 1]
      BY <1>1, ConcatProperties DEF Text
    <3> HIDE DEF w
    <3>2. 1 + Len(p) \in 1 .. 1 + Len(p) /\ ~(1 + Len(p) <= 1) /\ (1 + Len(p)) - 1 = Len(p)
      BY <2>1, <1>1
    <3>3. QED
      BY <3>1, <3>2
  <2>3. Append(w, "0") = <<c>> \o Append(p, "0")
    <3>1. <<"0">> \in Text
      BY <1>1 DEF Text
    <3>2. Append(w, "0") = w \o <<"0">> /\ Append(p, "0") = p \o <<"0">>
      BY <1>1, AppendIsConcat DEF Text
    <3>3. w \o <<"0">> = <<c>> \o (p \o <<"0">>)
      BY <1>1, <3>1, ConcatAssociative DEF Text
    <3>4. QED
      BY <3>2, <3>3
  <2> HIDE DEF w
  <2>4. CASE p[Len(p)] = "."
    <3>1. Completed(w) = Append(w, "0") /\ Completed(p) = Append(p, "0")
      BY <1>1, <1>3, <2>2, <2>4 DEF Completed
    <3>2. QED
      BY <2>3, <3>1 DEF w
  <2>5. CASE p[Len(p)] # "."
    <3>1. Completed(w) = w /\ Completed(p) = p
      BY <2>2, <2>5 DEF Completed
    <3>2. QED
      BY <3>1 DEF w
  <2>6. QED
    BY <2>4, <2>5
<1>4. QED
  BY <1>2, <1>3

\* A sign and what follows it, in the grammar and in the parser.
LEMMA Signed ==
  ASSUME NEW c \in Alphabet \ {"."}, NEW s \in Text
  PROVE  (Completed(s) # << >> =>
             Completed(s)[1] = c /\ DotSeparated(Tail(Completed(s)), Identifier))
           <=> \E p \in Text : /\ s = IF p = << >> THEN << >> ELSE <<c>> \o p
                               /\ p = << >> \/ valid_dot_identifiers(p)
<1> DEFINE G == Completed(s) # << >> =>
                  Completed(s)[1] = c /\ DotSeparated(Tail(Completed(s)), Identifier)
           E == \E p \in Text : /\ s = IF p = << >> THEN << >> ELSE <<c>> \o p
                                /\ p = << >> \/ valid_dot_identifiers(p)
<1>0. << >> \in Text /\ ~valid_dot_identifiers(<< >>)
  BY EmptySeq, Zenon DEF valid_dot_identifiers, Text
<1>1. ASSUME NEW p \in Text, s = <<c>> \o p
      PROVE  G <=> valid_dot_identifiers(p)
  <2>1. Completed(s) = <<c>> \o Completed(p) /\ Completed(p) \in Text
    BY <1>1, CompletedPrefixed, CompletedType
  <2>2. /\ Completed(s) # << >> /\ Completed(s)[1] = c
        /\ Tail(Completed(s)) = Completed(p)
    BY <2>1, Prefixed
  <2>3. valid_dot_identifiers(p) <=> DotSeparated(Completed(p), Identifier)
    BY ValidIdentifiers
  <2>4. DotSeparated(Tail(Completed(s)), Identifier) <=> DotSeparated(Completed(p), Identifier)
    BY <2>2, Zenon
  <2>5. QED
    BY <2>2, <2>3, <2>4, Zenon
<1>2. ASSUME G PROVE E
  <2>1. CASE s = << >>
    BY <1>0, <2>1, Zenon
  <2>2. CASE s # << >>
    <3>1. Completed(s) # << >> /\ Completed(s)[1] = s[1]
      BY <2>2, CompletedType
    <3>2. s[1] = c
      BY <1>2, <3>1
    <3> DEFINE p == SubSeq(s, 2, Len(s))
    <3>3. Len(s) \in Nat \ {0} /\ 1 \in 1 .. Len(s) /\ Len(s) \in 1 .. Len(s)
      BY <2>2, EmptySeq DEF Text
    <3>4. p \in Text
      <4>1. p = Tail(s) /\ Tail(s) \in Seq(Alphabet)
        BY <2>2, TailIsSubSeq, HeadTailProperties DEF Text
      <4>2. QED
        BY <4>1 DEF Text
    <3>5. s = <<c>> \o p
      <4>1. SubSeq(s, 1, Len(s)) = s
        BY SubSeqFull DEF Text
      <4>2. SubSeq(s, 1, Len(s)) = <<s[1]>> \o SubSeq(s, 1 + 1, Len(s))
        BY <3>3, SubSeqRecursiveFirst DEF Text
      <4>3. 1 + 1 = 2
        OBVIOUS
      <4>4. QED
        BY <3>2, <4>1, <4>2, <4>3, Zenon
    <3> HIDE DEF p
    <3>6. valid_dot_identifiers(p)
      BY <1>1, <1>2, <3>4, <3>5
    <3>7. p # << >>
      BY <1>0, <3>6
    <3>8. QED
      BY <3>4, <3>5, <3>6, <3>7
  <2>3. QED
    BY <2>1, <2>2
<1>3. ASSUME E PROVE G
  <2>1. PICK p \in Text : /\ s = IF p = << >> THEN << >> ELSE <<c>> \o p
                          /\ p = << >> \/ valid_dot_identifiers(p)
    BY <1>3
  <2>2. CASE p = << >>
    BY <2>1, <2>2, CompletedType
  <2>3. CASE p # << >>
    BY <1>1, <2>1, <2>3
  <2>4. QED
    BY <2>2, <2>3
<1>4. QED
  BY <1>2, <1>3

\* A prerelease that parse takes has no plus.
LEMMA ValidPre ==
  ASSUME NEW p \in Text, valid_dot_identifiers(p)
  PROVE  p \in PreText
<1>1. Split(p) \in Seq(Word) /\ DOMAIN Split(p) = 1 .. Len(Split(p))
  BY SplitLen, LenProperties
<1> DEFINE C == Range(Collation)
           q == Split(p)
<1>2. C \subseteq Alphabet /\ C \cup {"."} \subseteq Alphabet \ {"+"}
  BY Characters
<1>3. ASSUME NEW k \in DOMAIN q PROVE q[k] \in Seq(C)
  <2>1. \A c \in Range(q[k]) : ident_char(c)
    BY Zenon DEF valid_dot_identifiers
  <2>2. Range(q[k]) \subseteq C
    BY <2>1 DEF ident_char
  <2>3. q[k] \in Word
    BY <1>1, ElementOfSeq
  <2>4. q[k] \in Seq(Range(q[k]))
    BY <2>3, SeqOfRange DEF Word
  <2>5. QED
    BY <2>2, <2>4, SeqMonotonic
<1>4. q \in Seq(Seq(C))
  <2>1. q \in Seq(Range(q)) /\ Range(q) = {q[i] : i \in 1 .. Len(q)}
    BY <1>1, SeqOfRange, RangeEquality
  <2>2. Range(q) \subseteq Seq(C)
    BY <1>1, <1>3, <2>1
  <2>3. QED
    BY <2>1, <2>2, SeqMonotonic
<1> HIDE DEF C
<1>5. p \in Seq(C \cup {"."})
  BY <1>2, <1>4, PartsCover
<1>6. QED
  BY <1>2, <1>5, SeqMonotonic DEF PreText

\* Three numerals with dots between them have neither sign.
LEMMA TripleCore ==
  ASSUME NEW c \in Text, NEW x \in Word, NEW y \in Word, NEW z \in Word, Triple(c, x, y, z)
  PROVE  c \in CoreText
<1> DEFINE A == Digit \cup {"."}
<1>1. A \subseteq (Alphabet \ {"+"}) \ {"-"} /\ "." \in A /\ Digit \subseteq A
  BY Characters
<1>2. x \in Text /\ y \in Text /\ z \in Text
  BY WordIsText
<1>3. Numeric(x) /\ Numeric(y)
  BY DEF Triple, Numeral
<1>4. z \in Seq(Digit)
  <2>1. CASE z = << >>
    BY <2>1, EmptySeq
  <2>2. CASE z # << >>
    BY <1>2, <2>2, NumeralDigits DEF Triple, Numeral, Patched
  <2>3. QED
    BY <2>1, <2>2
<1>5. x \in Seq(A) /\ y \in Seq(A) /\ z \in Seq(A)
  BY <1>1, <1>2, <1>3, <1>4, NumeralDigits, SeqMonotonic
<1> HIDE DEF A
<1>6. Dot(x, y) \in Seq(A)
  BY <1>1, <1>5, CutProperties DEF Dot
<1>7. Dot(Dot(x, y), z) \in Seq(A)
  BY <1>1, <1>5, <1>6, CutProperties DEF Dot
<1>8. QED
  BY <1>1, <1>7, SeqMonotonic DEF Triple, CoreText

\* The middle of three sequences in a row.
LEMMA Middle ==
  ASSUME NEW A, NEW x \in Seq(A), NEW y \in Seq(A), NEW z \in Seq(A)
  PROVE  SubSeq(x \o y \o z, Len(x) + 1, Len(x) + Len(y)) = y
<1> DEFINE n == Len(x)
           m == Len(y)
           w == x \o y \o z
           u == SubSeq(w, n + 1, n + m)
<1>1. n \in Nat /\ m \in Nat /\ Len(z) \in Nat
  BY LenProperties
<1> DEFINE v == x \o y
<1>2. /\ v \in Seq(A) /\ Len(v) = n + m
      /\ \A i \in 1 .. n + m : v[i] = IF i <= n THEN x[i] ELSE y[i - n]
  BY ConcatProperties
<1> HIDE DEF v
<1>3. /\ v \o z \in Seq(A) /\ Len(v \o z) = Len(v) + Len(z)
      /\ \A i \in 1 .. Len(v) + Len(z) : (v \o z)[i] = IF i <= Len(v) THEN v[i] ELSE z[i - Len(v)]
  <2>1. v \in Seq(A) /\ z \in Seq(A)
    BY <1>2
  <2>2. QED
    BY ONLY <2>1, ConcatProperties
<1>4. w = v \o z
  BY DEF v
<1> HIDE DEF w, n, m
<1>5. \A k \in 1 .. m : w[n + k] = y[k]
  <2> TAKE k \in 1 .. m
  <2>1. n + k \in 1 .. n + m /\ n + k \in 1 .. (n + m) + Len(z) /\ ~(n + k <= n) /\ (n + k) - n = k
    BY <1>1
  <2>2. w[n + k] = v[n + k]
    BY <1>2, <1>3, <1>4, <2>1
  <2>3. v[n + k] = y[(n + k) - n]
    BY <1>2, <2>1
  <2>4. QED
    BY <2>1, <2>2, <2>3
<1>6. \A k \in 1 .. m : y[k] \in A
  BY ElementOfSeq DEF m
<1>7. \A k \in n + 1 .. n + m : w[k] \in A
  <2> TAKE k \in n + 1 .. n + m
  <2>1. k - n \in 1 .. m /\ n + (k - n) = k
    BY <1>1
  <2>2. w[n + (k - n)] = y[k - n]
    BY <1>5, <2>1
  <2>3. QED
    BY <1>6, <2>1, <2>2
<1>8. /\ u \in Seq(A) /\ Len(u) = IF n + 1 <= n + m THEN (n + m) - (n + 1) + 1 ELSE 0
      /\ \A k \in 1 .. (n + m) - (n + 1) + 1 : u[k] = w[(n + 1) + k - 1]
  <2>1. n + 1 \in Int /\ n + m \in Int
    BY <1>1
  <2>2. QED
    BY ONLY <1>7, <2>1, SubSeqProperties
<1> HIDE DEF u
<1>9. Len(u) = m
  BY <1>1, <1>8
<1>10. \A k \in 1 .. m : u[k] = y[k]
  <2> TAKE k \in 1 .. m
  <2>1. k \in 1 .. (n + m) - (n + 1) + 1 /\ (n + 1) + k - 1 = n + k
    BY <1>1
  <2>2. u[k] = w[n + k]
    BY <1>8, <2>1
  <2>3. QED
    BY <1>5, <2>2
<1>11. u = y
  BY <1>8, <1>9, <1>10, SeqEqual DEF m
<1>12. QED
  BY <1>11 DEF u, w, n, m

\* Each of the three.
LEMMA ThreeSlices ==
  ASSUME NEW A, NEW x \in Seq(A), NEW y \in Seq(A), NEW z \in Seq(A),
         NEW t, t = x \o y \o z
  PROVE  /\ t \in Seq(A) /\ Len(x) \in 0 .. Len(t) /\ Len(x) + Len(y) \in Len(x) .. Len(t)
         /\ SubSeq(t, 1, Len(x)) = x
         /\ SubSeq(t, Len(x) + 1, Len(x) + Len(y)) = y
         /\ SubSeq(t, Len(x) + Len(y) + 1, Len(t)) = z
<1> DEFINE e == << >>
           n == Len(x)
           m == Len(y)
           xy == x \o y
           yz == y \o z
<1>1. /\ n \in Nat /\ m \in Nat /\ Len(z) \in Nat /\ e \in Seq(A) /\ Len(e) = 0
      /\ xy \in Seq(A) /\ Len(xy) = n + m /\ yz \in Seq(A)
  BY LenProperties, ConcatProperties, EmptySeq
<1>2. t \in Seq(A) /\ Len(t) = (n + m) + Len(z) /\ t = xy \o z
  BY <1>1, ConcatProperties
<1>3. t = e \o x \o yz
  <2>1. e \o x = x /\ xy \o z = x \o yz
    BY ConcatEmptySeq, ConcatAssociative
  <2>2. QED
    BY <1>2, <2>1
<1>4. t = xy \o z \o e
  <2>1. t \o e = t
    BY <1>2, ConcatEmptySeq
  <2>2. QED
    BY <1>2, <2>1
<1> HIDE DEF e, xy, yz
<1>5. SubSeq(t, 1, n) = x
  <2>1. SubSeq(e \o x \o yz, Len(e) + 1, Len(e) + Len(x)) = x
    BY <1>1, Middle
  <2>2. Len(e) + 1 = 1 /\ Len(e) + Len(x) = n
    BY <1>1
  <2>3. QED
    BY <1>3, <2>1, <2>2, Zenon
<1>6. SubSeq(t, n + 1, n + m) = y
  BY Middle
<1>7. SubSeq(t, n + m + 1, Len(t)) = z
  <2>1. SubSeq(xy \o z \o e, Len(xy) + 1, Len(xy) + Len(z)) = z
    BY <1>1, Middle
  <2>2. Len(xy) + 1 = n + m + 1 /\ Len(xy) + Len(z) = Len(t)
    BY <1>1, <1>2
  <2>3. QED
    BY <1>4, <2>1, <2>2, Zenon
<1>8. n \in 0 .. Len(t) /\ n + m \in n .. Len(t)
  BY <1>1, <1>2
<1>9. QED
  BY <1>2, <1>5, <1>6, <1>7, <1>8

\* And two cuts of a sequence leave three of them.
LEMMA SlicesJoin ==
  ASSUME NEW A, NEW t \in Seq(A), NEW i \in 0 .. Len(t), NEW j \in i .. Len(t)
  PROVE  /\ SubSeq(t, 1, i) \in Seq(A) /\ SubSeq(t, i + 1, j) \in Seq(A)
         /\ SubSeq(t, j + 1, Len(t)) \in Seq(A)
         /\ t = SubSeq(t, 1, i) \o SubSeq(t, i + 1, j) \o SubSeq(t, j + 1, Len(t))
<1> DEFINE n == Len(t)
<1>1. n \in Nat /\ \A k \in 1 .. n : t[k] \in A
  BY LenProperties, ElementOfSeq
<1>2. i \in Nat /\ j \in Nat /\ i <= j /\ j <= n
  BY <1>1
<1>3. SubSeq(t, 1, i) \in Seq(A)
  <2>1. \A k \in 1 .. i : t[k] \in A
    BY <1>1, <1>2
  <2>2. QED
    BY <1>2, <2>1, SubSeqProperties
<1>4. SubSeq(t, i + 1, j) \in Seq(A)
  <2>1. \A k \in i + 1 .. j : t[k] \in A
    BY <1>1, <1>2
  <2>2. i + 1 \in Int /\ j \in Int
    BY <1>2
  <2>3. QED
    BY <2>1, <2>2, SubSeqProperties
<1>5. SubSeq(t, j + 1, n) \in Seq(A)
  <2>1. \A k \in j + 1 .. n : t[k] \in A
    BY <1>1, <1>2
  <2>2. j + 1 \in Int /\ n \in Int
    BY <1>1, <1>2
  <2>3. QED
    BY <2>1, <2>2, SubSeqProperties
<1>6. SubSeq(t, 1, i) \o SubSeq(t, i + 1, j) = SubSeq(t, 1, j)
  <2>1. 1 \in 1 .. n + 1 /\ i \in 1 - 1 .. n /\ j \in i .. n
    BY <1>1, <1>2
  <2>2. QED
    BY <2>1, ConcatAdjacentSubSeq
<1>7. SubSeq(t, 1, j) \o SubSeq(t, j + 1, n) = SubSeq(t, 1, n)
  <2>1. 1 \in 1 .. n + 1 /\ j \in 1 - 1 .. n /\ n \in j .. n
    BY <1>1, <1>2
  <2>2. QED
    BY <2>1, ConcatAdjacentSubSeq
<1>8. SubSeq(t, 1, n) = t
  BY SubSeqFull
<1>9. QED
  BY <1>3, <1>4, <1>5, <1>6, <1>7, <1>8

-----------------------------------------------------------------------------
(* The grammar                                                             *)

\* The texts the parser takes, which turn out to be those of the grammar.
Accepted(t, c, p, b) ==
  /\ t = Joined(c, p, b) /\ ValidSuffixes(p, b)
  /\ \E x, y, z \in Word : Triple(c, x, y, z)
Acceptable(t) == \E c \in CoreText, p \in PreText, b \in Text : Accepted(t, c, p, b)

\* The texts that fit the grammar once their open parts are completed.
Lenient(t) ==
  \E i \in 0 .. Len(t) : \E j \in i .. Len(t) :
    WellFormed(Completed(SubSeq(t, 1, i)), Completed(SubSeq(t, i + 1, j)),
               Completed(SubSeq(t, j + 1, Len(t))))

\* They are the texts the parser takes.
LEMMA LenientForm ==
  ASSUME NEW t \in Text
  PROVE  Lenient(t) <=> Acceptable(t)
<1> DEFINE S(c, s) == Completed(s) # << >> =>
                        Completed(s)[1] = c /\ DotSeparated(Tail(Completed(s)), Identifier)
           K(s) == DotSeparated(Completed(s), Numeral) /\ Len(Split(Completed(s))) = 3
           P(p) == IF p = << >> THEN << >> ELSE <<"-">> \o p
           B(b) == IF b = << >> THEN << >> ELSE <<"+">> \o b
           G(i, j) == /\ K(SubSeq(t, 1, i)) /\ S("-", SubSeq(t, i + 1, j))
                      /\ S("+", SubSeq(t, j + 1, Len(t)))
<1>1. Lenient(t) <=> \E i \in 0 .. Len(t) : \E j \in i .. Len(t) : G(i, j)
  BY Zenon DEF Lenient, WellFormed
<1>2. "-" \in Alphabet \ {"."} /\ "+" \in Alphabet \ {"."} /\ t \in Seq(Alphabet)
  BY Characters DEF Text
<1>3. \A s \in Text : S("-", s) <=> \E p \in Text : s = P(p) /\ (p = << >> \/ valid_dot_identifiers(p))
  BY <1>2, Signed
<1>4. \A s \in Text : S("+", s) <=> \E b \in Text : s = B(b) /\ (b = << >> \/ valid_dot_identifiers(b))
  BY <1>2, Signed
<1>5. \A s \in Text : K(s) <=> \E x, y, z \in Word : Triple(s, x, y, z)
  BY CoreForm
<1> HIDE DEF S, K
<1>6. ASSUME NEW i \in 0 .. Len(t), NEW j \in i .. Len(t), G(i, j)
      PROVE  Acceptable(t)
  <2> DEFINE c == SubSeq(t, 1, i)
             d == SubSeq(t, i + 1, j)
             e == SubSeq(t, j + 1, Len(t))
  <2>1. c \in Text /\ d \in Text /\ e \in Text /\ t = c \o d \o e
    BY <1>2, SlicesJoin DEF Text
  <2>2. K(c) /\ S("-", d) /\ S("+", e)
    BY <1>6
  <2> HIDE DEF c, d, e
  <2>3. PICK x \in Word, y \in Word, z \in Word : Triple(c, x, y, z)
    BY <1>5, <2>1, <2>2
  <2>4. PICK p \in Text : d = P(p) /\ (p = << >> \/ valid_dot_identifiers(p))
    BY <1>3, <2>1, <2>2
  <2>5. PICK b \in Text : e = B(b) /\ (b = << >> \/ valid_dot_identifiers(b))
    BY <1>4, <2>1, <2>2
  <2>6. c \in CoreText
    BY <2>1, <2>3, TripleCore
  <2>7. p \in PreText
    <3>1. << >> \in PreText
      BY EmptySeq DEF PreText
    <3>2. QED
      BY <2>4, <3>1, ValidPre
  <2>8. t = Joined(c, p, b)
    BY <2>1, <2>4, <2>5, Zenon DEF Joined
  <2>9. Accepted(t, c, p, b)
    BY <2>3, <2>4, <2>5, <2>8, Zenon DEF Accepted, ValidSuffixes
  <2>10. QED
    BY <2>6, <2>7, <2>9 DEF Acceptable
<1>7. ASSUME NEW c \in CoreText, NEW p \in PreText, NEW b \in Text, Accepted(t, c, p, b)
      PROVE  \E i \in 0 .. Len(t) : \E j \in i .. Len(t) : G(i, j)
  <2> DEFINE d == P(p)
             e == B(b)
             i == Len(c)
             j == Len(c) + Len(d)
  <2>1. /\ c \in Text /\ p \in Text /\ <<"-">> \in Text /\ <<"+">> \in Text /\ << >> \in Text
    BY <1>2, Plain, EmptySeq DEF Text
  <2>2. d \in Text /\ e \in Text
    BY <2>1, ConcatProperties DEF Text
  <2>3. t = c \o d \o e
    BY <1>7 DEF Accepted, Joined
  <2>4. K(c)
    BY <1>5, <1>7, <2>1, Zenon DEF Accepted
  <2>5. S("-", d)
    BY <1>3, <1>7, <2>1, <2>2, Zenon DEF Accepted, ValidSuffixes
  <2>6. S("+", e)
    BY <1>4, <1>7, <2>2, Zenon DEF Accepted, ValidSuffixes
  <2> HIDE DEF d, e
  <2>7. /\ i \in 0 .. Len(t) /\ j \in i .. Len(t)
        /\ SubSeq(t, 1, i) = c /\ SubSeq(t, i + 1, j) = d /\ SubSeq(t, j + 1, Len(t)) = e
    BY <2>1, <2>2, <2>3, ThreeSlices DEF Text
  <2> HIDE DEF i, j
  <2>8. G(i, j)
    BY <2>4, <2>5, <2>6, <2>7, Zenon
  <2>9. QED
    BY <2>7, <2>8, Zenon
<1>8. QED
  BY <1>1, <1>6, <1>7, Zenon DEF Acceptable

\* A text none of whose parts is empty has nothing to complete.
LEMMA WholeParts ==
  ASSUME NEW s \in Text, \A k \in DOMAIN Split(s) : Split(s)[k] # << >>
  PROVE  Completed(s) = s
<1>1. CASE s \in Word
  BY <1>1, CompletedForm
<1>2. ASSUME NEW x \in Text, NEW y \in Word, s = Dot(x, y) PROVE Completed(s) = s
  <2>1. Split(s) = Append(Split(x), y)
    BY <1>2, SplitDot
  <2>2. Split(x) \in Seq(Text) /\ Len(Split(x)) \in Nat /\ y \in Text
    BY SplitEquations, LenProperties, WordIsText DEF Parts
  <2> DEFINE p == Split(x)
             n == Len(p) + 1
             q == Append(p, y)
  <2>3. n \in DOMAIN q /\ q[n] = y
    BY <2>2, AppendProperties
  <2> HIDE DEF p, q, n
  <2>4. y # << >>
    BY <2>1, <2>3 DEF p, q
  <2>5. QED
    BY <1>2, <2>4, CompletedForm DEF Patched
<1>3. QED
  BY <1>1, <1>2, LastDot, Zenon

\* Neither has one that follows a sign.
LEMMA WholeSuffix ==
  ASSUME NEW c \in Alphabet \ {"."}, NEW s \in Text,
         s # << >> => s[1] = c /\ DotSeparated(Tail(s), Identifier)
  PROVE  Completed(s) = s
<1>1. CASE s = << >>
  BY <1>1, CompletedType
<1>2. CASE s # << >>
  <2> DEFINE p == Tail(s)
  <2>1. p \in Text /\ p = SubSeq(s, 2, Len(s))
    BY <1>2, TailIsSubSeq, HeadTailProperties DEF Text
  <2>2. s = <<c>> \o p
    <3>1. Len(s) \in Nat \ {0} /\ 1 \in 1 .. Len(s) /\ Len(s) \in 1 .. Len(s)
      BY <1>2, EmptySeq DEF Text
    <3>2. SubSeq(s, 1, Len(s)) = s
      BY SubSeqFull DEF Text
    <3>3. SubSeq(s, 1, Len(s)) = <<s[1]>> \o SubSeq(s, 1 + 1, Len(s))
      BY <3>1, SubSeqRecursiveFirst DEF Text
    <3>4. 1 + 1 = 2 /\ s[1] = c
      BY <1>2
    <3>5. QED
      BY <2>1, <3>2, <3>3, <3>4, Zenon
  <2>3. \A k \in DOMAIN Split(p) : Split(p)[k] # << >>
    BY <1>2 DEF DotSeparated, Identifier
  <2> HIDE DEF p
  <2>4. Completed(p) = p
    BY <2>1, <2>3, WholeParts
  <2>5. QED
    BY <2>1, <2>2, <2>4, CompletedPrefixed
<1>3. QED
  BY <1>1, <1>2

\* A well-formed text has nothing to complete.
LEMMA WellFormedWhole ==
  ASSUME NEW core \in Text, NEW pre \in Text, NEW build \in Text,
         WellFormed(core, pre, build)
  PROVE  Completed(core) = core /\ Completed(pre) = pre /\ Completed(build) = build
<1>1. "-" \in Alphabet \ {"."} /\ "+" \in Alphabet \ {"."}
  BY Characters
<1>2. DotSeparated(core, Numeral)
  BY DEF WellFormed
<1>3. Completed(core) = core
  <2>1. \A k \in DOMAIN Split(core) : Split(core)[k] # << >>
    BY <1>2 DEF DotSeparated, Numeral
  <2>2. QED
    BY <2>1, WholeParts
<1>4. pre # << >> => pre[1] = "-" /\ DotSeparated(Tail(pre), Identifier)
  BY Zenon DEF WellFormed
<1>5. build # << >> => build[1] = "+" /\ DotSeparated(Tail(build), Identifier)
  BY Zenon DEF WellFormed
<1>6. Completed(pre) = pre
  BY <1>1, <1>4, WholeSuffix
<1>7. Completed(build) = build
  BY <1>1, <1>5, WholeSuffix
<1>8. QED
  BY <1>3, <1>6, <1>7

\* The texts the parser takes are those of the grammar and those left open.
LEMMA GrammarForm ==
  ASSUME NEW t \in Text
  PROVE  Grammar(t) \/ LeftOpen(t) <=> Acceptable(t)
<1> DEFINE core(i, j)  == SubSeq(t, 1, i)
           pre(i, j)   == SubSeq(t, i + 1, j)
           build(i, j) == SubSeq(t, j + 1, Len(t))
           done(i, j)  == <<Completed(core(i, j)), Completed(pre(i, j)), Completed(build(i, j))>>
           S(i, j) == WellFormed(core(i, j), pre(i, j), build(i, j))
           C(i, j) == WellFormed(Completed(core(i, j)), Completed(pre(i, j)), Completed(build(i, j)))
           D(i, j) == done(i, j) # <<core(i, j), pre(i, j), build(i, j)>>
<1>1. /\ Grammar(t) <=> \E i \in 0 .. Len(t) : \E j \in i .. Len(t) : S(i, j)
      /\ LeftOpen(t) <=> \E i \in 0 .. Len(t) : \E j \in i .. Len(t) : D(i, j) /\ C(i, j)
      /\ Lenient(t) <=> \E i \in 0 .. Len(t) : \E j \in i .. Len(t) : C(i, j)
  BY Zenon DEF Grammar, LeftOpen, Lenient
<1>2. ASSUME NEW i \in 0 .. Len(t), NEW j \in i .. Len(t)
      PROVE  S(i, j) => C(i, j)
  <2>1. core(i, j) \in Text /\ pre(i, j) \in Text /\ build(i, j) \in Text
    BY SlicesJoin DEF Text
  <2> HIDE DEF core, pre, build
  <2>2. S(i, j) => /\ Completed(core(i, j)) = core(i, j) /\ Completed(pre(i, j)) = pre(i, j)
                   /\ Completed(build(i, j)) = build(i, j)
    BY <2>1, WellFormedWhole
  <2>3. QED
    BY <2>2, Zenon
<1>3. ASSUME NEW i \in 0 .. Len(t), NEW j \in i .. Len(t)
      PROVE  ~D(i, j) => (C(i, j) <=> S(i, j))
  <2> HIDE DEF core, pre, build
  <2>1. ~D(i, j) => /\ Completed(core(i, j)) = core(i, j) /\ Completed(pre(i, j)) = pre(i, j)
                    /\ Completed(build(i, j)) = build(i, j)
    OBVIOUS
  <2>2. QED
    BY <2>1, Zenon
<1> HIDE DEF S, C, D
<1>4. Grammar(t) \/ LeftOpen(t) <=> Lenient(t)
  BY <1>1, <1>2, <1>3, Zenon
<1>5. QED
  BY <1>4, LenientForm

\* The parser takes those texts, when their numbers fit.
LEMMA ParseAccepts ==
  ASSUME NEW t \in Text, InRange(t)
  PROVE  parse(t) # {Nothing} <=> Acceptable(t)
<1>1. ASSUME NEW c \in CoreText, NEW p \in PreText, NEW b \in Text, t = Joined(c, p, b)
      PROVE  parse(t) # {Nothing} <=> Accepted(t, c, p, b)
  <2>1. \A k \in DOMAIN Split(c) : InRange(Split(c)[k])
    BY <1>1, InRangeJoined, InRangeParts, Plain
  <2>2. /\ \A x, y, z \in Word : Triple(c, x, y, z) /\ ValidSuffixes(p, b) =>
             parse(t) = {<<Version(x, y, z, p, b)>>}
        /\ ~(ValidSuffixes(p, b) /\ \E x, y, z \in Word : Triple(c, x, y, z)) =>
             parse(t) = {Nothing}
    BY <1>1, <2>1, ParseJoined
  <2>3. \A v : {<<v>>} # {Nothing}
    BY DEF Nothing
  <2>4. QED
    BY <1>1, <2>2, <2>3, Zenon DEF Accepted
<1>2. parse(t) # {Nothing} => Acceptable(t)
  BY <1>1, ParseShape, Zenon DEF Acceptable
<1>3. Acceptable(t) => parse(t) # {Nothing}
  BY <1>1, Zenon DEF Acceptable, Accepted
<1>4. QED
  BY <1>2, <1>3

-----------------------------------------------------------------------------
(* Accepting                                                               *)

\* What is typed is always a text.
LEMMA Typed == VersionsSpec => [](text \in Text)
<1>1. TextInit => text \in Text
  BY TextsAssumption DEF TextInit, Text
<1>2. text \in Text /\ [\E c \in Alphabet : Type(c)]_vvars => (text \in Text)'
  BY AppendProperties DEF Type, vvars, Text
<1>3. QED
  BY <1>1, <1>2, PTL DEF VersionsSpec

\* What is a version: whatever is typed, the cuts at the first plus and the first
\* dash, the loop of valid_dot_identifiers and the three calls of parse_u64 accept
\* exactly the grammar of version.hpp and the texts that leave a part open.
THEOREM AcceptsCorrect == VersionsSpec => []AcceptsGrammar
<1>1. text \in Text => AcceptsGrammar
  BY GrammarForm, ParseAccepts DEF AcceptsGrammar
<1>2. QED
  BY <1>1, Typed, PTL

-----------------------------------------------------------------------------
(* Printing versions                                                       *)

\* A number that the printer gives back as it was read.
Printable(n) ==
  n \in 0 .. MaxInt /\ to_string[n] \in Word /\ parse_u64(to_string[n]) = {<<n>>}

\* The number of a numeral is printed as that numeral.
LEMMA NumeralPrintable ==
  ASSUME NEW s \in Text, InRange(s), Numeral(s)
  PROVE  to_string[Number(s)] = s /\ Printable(Number(s))
<1>1. s \in Seq(Digit) /\ s \in Word /\ s # << >> /\ ~LeadingZero(s)
  BY NumeralDigits DEF Numeral
<1>2. parse_u64(s) = {<<Number(s)>>} /\ Number(s) \in 0 .. MaxInt
  BY ParseNumber
<1>3. to_string[Number(s)] = s
  BY <1>1, <1>2, PrintNumber, VersionsAssumption
<1>4. QED
  BY <1>1, <1>2, <1>3 DEF Printable

\* The text 0 has numbers that fit.
LEMMA InRangeZero == InRange(<<"0">>) /\ <<"0">> \in Text
<1> DEFINE z == <<"0">>
<1>1. z \in Text /\ Len(z) = 1 /\ DOMAIN z = {1}
  BY Characters DEF Text
<1>2. SubSeq(z, 1, 1) = z
  BY <1>1, SubSeqFull DEF Text
<1>3. Number(z) = 0
  BY PatchIdentifier
<1> HIDE DEF z
<1>4. \A i, j \in DOMAIN z : SubSeq(z, i, j) = z
  BY <1>1, <1>2
<1>5. 0 <= MaxInt
  BY VersionsAssumption
<1>6. InRange(z)
  BY <1>3, <1>4, <1>5 DEF InRange
<1>7. QED
  BY <1>1, <1>6 DEF z

\* The number that stands for a missing component.
LEMMA ZeroPrintable == Printable(0)
BY InRangeZero, NumeralPrintable, PatchIdentifier

\* What an accepted structured version consists of.
LEMMA StructuredParts ==
  ASSUME NEW t \in Text, InRange(t), NEW o \in parse_version_components(t) \ {Nothing}
  PROVE  \E i, j, k : /\ Printable(i) /\ Printable(j) /\ Printable(k)
                      /\ o = <<[major |-> i, minor |-> j, patch |-> k]>>
<1> DEFINE parts == Split(t)
           part(k) == IF k \in DOMAIN parts THEN parse_u64(parts[k]) ELSE {<<0>>}
<1>1. ASSUME NEW k, NEW u \in part(k), u # Nothing
      PROVE  \E n : u = <<n>> /\ Printable(n)
  <2>1. CASE k \in DOMAIN parts
    <3>1. parts[k] \in Text /\ InRange(parts[k])
      BY <2>1, InRangeParts, WordIsText
    <3>2. u \in parse_u64(parts[k])
      BY <2>1
    <3>3. Numeral(parts[k]) /\ u = <<Number(parts[k])>>
      BY <1>1, <3>1, <3>2, ParseNumber
    <3>4. QED
      BY <3>1, <3>3, NumeralPrintable
  <2>2. CASE k \notin DOMAIN parts
    BY <2>2, ZeroPrintable
  <2>3. QED
    BY <2>1, <2>2
<1>2. parse_version_components(t) =
        IF Len(parts) > 3 THEN {Nothing}
        ELSE {IF Nothing \in {a, b, c} THEN Nothing
              ELSE <<[major |-> a[1], minor |-> b[1], patch |-> c[1]]>> :
                a \in part(1), b \in part(2), c \in part(3)}
  BY DEF parse_version_components
<1> HIDE DEF parts, part
<1>3. PICK a \in part(1), b \in part(2), c \in part(3) :
        /\ Nothing \notin {a, b, c}
        /\ o = <<[major |-> a[1], minor |-> b[1], patch |-> c[1]]>>
  BY <1>2
<1>4. /\ \E i : a = <<i>> /\ Printable(i)
      /\ \E j : b = <<j>> /\ Printable(j)
      /\ \E k : c = <<k>> /\ Printable(k)
  BY <1>1, <1>3
<1>5. PICK i : a = <<i>> /\ Printable(i)
  BY <1>4
<1>6. PICK j : b = <<j>> /\ Printable(j)
  BY <1>4
<1>7. PICK k : c = <<k>> /\ Printable(k)
  BY <1>4
<1>8. a[1] = i /\ b[1] = j /\ c[1] = k
  BY <1>5, <1>6, <1>7
<1>9. QED
  BY <1>3, <1>5, <1>6, <1>7, <1>8

\* What is printed of such a version reads as the same version.
LEMMA StructuredReads ==
  ASSUME NEW i, NEW j, NEW k, Printable(i), Printable(j), Printable(k),
         NEW v, v = [major |-> i, minor |-> j, patch |-> k]
  PROVE  parse_version_components(structured_str(v)) = {<<v>>}
<1> DEFINE x == to_string[i]
           y == to_string[j]
           z == to_string[k]
           d == Dot(x, y)
           s == structured_str(v)
           parts == Split(s)
           part(n) == IF n \in DOMAIN parts THEN parse_u64(parts[n]) ELSE {<<0>>}
<1>1. /\ x \in Word /\ y \in Word /\ z \in Word
      /\ parse_u64(x) = {<<i>>} /\ parse_u64(y) = {<<j>>} /\ parse_u64(z) = {<<k>>}
  BY DEF Printable
<1>2. x \in Text /\ y \in Text /\ z \in Text /\ d \in Text /\ <<".">> \in Text
  <2>1. x \in Text /\ y \in Text /\ z \in Text
    BY <1>1, WordIsText
  <2>2. <<".">> \in Text
    BY Characters DEF Text
  <2>3. QED
    BY <2>1, <2>2, DotText
<1>3. parse_version_components(s) =
        IF Len(parts) > 3 THEN {Nothing}
        ELSE {IF Nothing \in {a, b, c} THEN Nothing
              ELSE <<[major |-> a[1], minor |-> b[1], patch |-> c[1]]>> :
                a \in part(1), b \in part(2), c \in part(3)}
  BY DEF parse_version_components
<1>4. s = x \o <<".">> \o y \o (IF k = 0 THEN << >> ELSE <<".">> \o z)
  <2>1. v.major = i /\ v.minor = j /\ v.patch = k
    OBVIOUS
  <2>2. QED
    BY <2>1, Zenon DEF structured_str
<1>5. /\ part(1) = {<<i>>} /\ part(2) = {<<j>>} /\ part(3) = {<<k>>} /\ ~(Len(parts) > 3)
  <2>1. CASE k = 0
    <3>1. s = d
      <4>1. s = d \o << >>
        BY <1>4, <2>1 DEF Dot
      <4>2. QED
        BY <1>2, <4>1, ConcatEmptySeq DEF Text
    <3> HIDE DEF s, x, y, d
    <3>2. parts = <<x, y>>
      BY <1>1, <3>1, SplitWords DEF d
    <3>3. DOMAIN parts = {1, 2} /\ Len(parts) = 2 /\ parts[1] = x /\ parts[2] = y
      BY <3>2
    <3>4. QED
      BY <1>1, <2>1, <3>3
  <2>2. CASE k # 0
    <3>1. s = Dot(d, z)
      <4>1. s = d \o (<<".">> \o z)
        BY <1>4, <2>2 DEF Dot
      <4>2. d \o (<<".">> \o z) = d \o <<".">> \o z
        <5> DEFINE e == <<".">>
        <5>1. d \in Seq(Alphabet) /\ e \in Seq(Alphabet) /\ z \in Seq(Alphabet)
          BY <1>2 DEF Text
        <5> HIDE DEF d, e, z
        <5>2. (d \o e) \o z = d \o (e \o z)
          BY ONLY <5>1, ConcatAssociative
        <5>3. QED
          BY <5>2 DEF e
      <4>3. QED
        BY <4>1, <4>2 DEF Dot
    <3> HIDE DEF s, x, y, z
    <3>2. parts = <<x, y, z>>
      BY <1>1, <3>1, SplitWords
    <3>3. /\ DOMAIN parts = {1, 2, 3} /\ Len(parts) = 3
          /\ parts[1] = x /\ parts[2] = y /\ parts[3] = z
      <4>1. DOMAIN parts = 1 .. 3
        BY <3>2
      <4>2. 1 .. 3 = {1, 2, 3}
        OBVIOUS
      <4>3. QED
        BY <3>2, <4>1, <4>2
    <3>4. QED
      BY <1>1, <3>3
  <2>3. QED
    BY <2>1, <2>2
<1> HIDE DEF part, parts
<1>6. Nothing \notin {<<i>>, <<j>>, <<k>>} /\ <<i>>[1] = i /\ <<j>>[1] = j /\ <<k>>[1] = k
  BY DEF Nothing
<1>7. {IF Nothing \in {a, b, c} THEN Nothing
       ELSE <<[major |-> a[1], minor |-> b[1], patch |-> c[1]]>> :
         a \in part(1), b \in part(2), c \in part(3)} = {<<v>>}
  <2> DEFINE A == part(1)
             B == part(2)
             C == part(3)
  <2>1. A = {<<i>>} /\ B = {<<j>>} /\ C = {<<k>>}
    BY <1>5
  <2> HIDE DEF A, B, C
  <2>2. {IF Nothing \in {a, b, c} THEN Nothing
         ELSE <<[major |-> a[1], minor |-> b[1], patch |-> c[1]]>> :
           a \in A, b \in B, c \in C} = {<<v>>}
    BY <1>6, <2>1
  <2>3. QED
    BY <2>2 DEF A, B, C
<1>8. QED
  BY <1>3, <1>5, <1>7

\* A numeral needs no patching.
LEMMA PatchedNumeral ==
  ASSUME NEW z \in Word, Numeral(Patched(z)), InRange(z)
  PROVE  /\ Patched(z) \in Text /\ InRange(Patched(z)) /\ Patched(Patched(z)) = Patched(z)
         /\ to_string[Number(Patched(z))] = Patched(z)
<1>1. Patched(z) \in Text /\ InRange(Patched(z))
  BY InRangeZero, WordIsText DEF Patched
<1>2. Patched(z) # << >>
  BY DEF Numeral
<1>3. Patched(Patched(z)) = Patched(z)
  BY <1>2, Zenon DEF Patched
<1>4. QED
  BY <1>1, <1>3, NumeralPrintable

\* The text of a version, its patch printed.
LEMMA PrintJoined ==
  ASSUME NEW x \in Word, NEW y \in Word, NEW z \in Word,
         Numeral(x), Numeral(y), Numeral(Patched(z)),
         InRange(x), InRange(y), InRange(z), NEW p, NEW b
  PROVE  str(Version(x, y, z, p, b)) = Joined(Dot(Dot(x, y), Patched(z)), p, b)
<1> DEFINE v == Version(x, y, z, p, b)
           P == IF p = << >> THEN << >> ELSE <<"-">> \o p
           B == IF b = << >> THEN << >> ELSE <<"+">> \o b
<1>1. /\ to_string[Number(x)] = x /\ to_string[Number(y)] = y
      /\ to_string[Number(Patched(z))] = Patched(z)
  BY NumeralPrintable, PatchedNumeral, WordIsText
<1>2. /\ v.major = Number(x) /\ v.minor = Number(y) /\ v.patch = Number(Patched(z))
      /\ v.prerelease = p /\ v.build = b
  BY DEF Version
<1> HIDE DEF v
<1>3. str(v) = to_string[v.major] \o <<".">> \o to_string[v.minor] \o <<".">> \o to_string[v.patch]
                 \o (IF v.prerelease = << >> THEN << >> ELSE <<"-">> \o v.prerelease)
                 \o (IF v.build = << >> THEN << >> ELSE <<"+">> \o v.build)
  BY Zenon DEF str
<1>4. str(v) = x \o <<".">> \o y \o <<".">> \o Patched(z) \o P \o B
  BY <1>1, <1>2, <1>3, Zenon
<1>5. QED
  BY <1>4, Zenon DEF v, Joined, Dot

\* What is printed of an accepted text, and that it reads as the same version.
LEMMA PrintsAccepted ==
  ASSUME NEW t \in Text, InRange(t), NEW o \in parse(t) \ {Nothing}
  PROVE  LET core == Upto(Upto(t, "+"), "-")
         IN  /\ parse(str(o[1])) = {o}
             /\ str(o[1]) = Completed(core) \o SubSeq(t, Len(core) + 1, Len(t))
<1>1. Acceptable(t)
  BY ParseAccepts
<1>2. PICK c \in CoreText, p \in PreText, b \in Text : Accepted(t, c, p, b)
  BY <1>1 DEF Acceptable
<1>3. PICK x \in Word, y \in Word, z \in Word : Triple(c, x, y, z)
  BY <1>2, Zenon DEF Accepted
<1>4. t = Joined(c, p, b) /\ ValidSuffixes(p, b)
  BY <1>2, Zenon DEF Accepted
<1>5. Numeral(x) /\ Numeral(y) /\ Numeral(Patched(z)) /\ c = Dot(Dot(x, y), z)
  BY <1>3, Zenon DEF Triple
<1> DEFINE v == Version(x, y, z, p, b)
           w == Patched(z)
           d == Dot(Dot(x, y), w)
           P == IF p = << >> THEN << >> ELSE <<"-">> \o p
           B == IF b = << >> THEN << >> ELSE <<"+">> \o b
           e == << >>
<1>6. c \in Text /\ InRange(c) /\ \A k \in DOMAIN Split(c) : InRange(Split(c)[k])
  BY <1>4, InRangeJoined, InRangeParts, Plain
<1>7. parse(t) = {<<v>>}
  BY <1>3, <1>4, <1>6, ParseJoined
<1>8. o = <<v>> /\ o[1] = v
  <2>1. o = <<v>>
    BY <1>7
  <2> HIDE DEF v
  <2>2. QED
    BY <2>1
<1>9. InRange(x) /\ InRange(y) /\ InRange(z) /\ x \in Text /\ y \in Text /\ z \in Text
  <2>1. x \in Text /\ y \in Text /\ z \in Text /\ Dot(x, y) \in Text
    BY WordIsText, DotText
  <2>2. InRange(Dot(x, y)) /\ InRange(z)
    BY <1>5, <1>6, <2>1, InRangeDot
  <2>3. QED
    BY <2>1, <2>2, InRangeDot
<1>10. w \in Word /\ w \in Text /\ InRange(w) /\ Patched(w) = w
  BY <1>5, <1>9, PatchedNumeral, PatchedWord
<1>11. str(v) = Joined(d, p, b)
  BY <1>5, <1>9, PrintJoined
<1> HIDE DEF w
<1>12. parse(Joined(d, p, b)) = {<<v>>}
  <2>1. Dot(x, y) \in Text /\ d \in Text
    BY <1>9, <1>10, DotText
  <2>2. Triple(d, x, y, w)
    BY <1>5, <1>10, Zenon DEF Triple, w
  <2>3. d \in CoreText
    BY <1>10, <2>1, <2>2, TripleCore
  <2>4. Split(d) = <<x, y, w>>
    BY <1>10, SplitWords
  <2>5. \A k \in DOMAIN Split(d) : InRange(Split(d)[k])
    <3>1. \A k \in DOMAIN Split(d) : Split(d)[k] \in {x, y, w}
      BY <2>4
    <3>2. QED
      BY <1>9, <1>10, <3>1
  <2>6. parse(Joined(d, p, b)) = {<<Version(x, y, w, p, b)>>}
    <3> HIDE DEF d
    <3>1. QED
      BY <1>4, <1>10, <2>2, <2>3, <2>5, ParseJoined
  <2>7. Version(x, y, w, p, b) = v
    BY <1>10, Zenon DEF Version, w
  <2>8. QED
    BY <2>6, <2>7
<1>13. Upto(Upto(t, "+"), "-") = c
  BY <1>4, JoinedParts
<1>14. /\ c \in Seq(Alphabet) /\ P \in Seq(Alphabet) /\ B \in Seq(Alphabet) /\ e \in Seq(Alphabet)
       /\ P \o B \in Seq(Alphabet) /\ d \in Seq(Alphabet)
  <2>1. /\ p \in Seq(Alphabet) /\ b \in Seq(Alphabet)
        /\ <<"-">> \in Seq(Alphabet) /\ <<"+">> \in Seq(Alphabet)
    BY Plain, Characters DEF Text
  <2>2. d \in Text
    BY <1>9, <1>10, DotText
  <2>3. P \in Seq(Alphabet) /\ B \in Seq(Alphabet) /\ e \in Seq(Alphabet)
    BY <2>1, ConcatProperties, EmptySeq
  <2> HIDE DEF P, B
  <2>4. P \o B \in Seq(Alphabet)
    BY <2>3, ConcatProperties
  <2>5. QED
    BY <1>6, <2>2, <2>3, <2>4 DEF Text
<1>15. SubSeq(t, Len(c) + 1, Len(t)) = P \o B
  <2> DEFINE r == P \o B
  <2>1. t = c \o P \o B
    BY <1>4 DEF Joined
  <2> HIDE DEF P, B
  <2>2. t = c \o r
    BY <1>14, <2>1, ConcatAssociative
  <2>3. c \o e = c
    BY <1>14, ConcatEmptySeq
  <2>4. t = c \o e \o r
    BY <2>2, <2>3
  <2> HIDE DEF r
  <2>5. SubSeq(t, Len(c) + Len(e) + 1, Len(t)) = r
    BY <1>14, <2>4, ThreeSlices DEF r
  <2>6. Len(c) + Len(e) + 1 = Len(c) + 1
    <3>1. Len(c) \in Nat /\ Len(e) = 0
      BY <1>14, LenProperties, EmptySeq
    <3>2. QED
      BY <3>1
  <2>7. QED
    BY <2>5, <2>6 DEF r
<1>16. Completed(c) = d
  <2>1. Dot(x, y) \in Text
    BY <1>9, DotText
  <2>2. QED
    BY <1>5, <2>1, CompletedForm DEF w
<1>17. Joined(d, p, b) = d \o (P \o B)
  <2>1. Joined(d, p, b) = d \o P \o B
    BY DEF Joined
  <2> HIDE DEF P, B, d
  <2>2. QED
    BY <1>14, <2>1, ConcatAssociative
<1> HIDE DEF v, d, P, B
<1>18. QED
  BY <1>8, <1>11, <1>12, <1>13, <1>15, <1>16, <1>17, Zenon

\* str and the structured str lose nothing: what parse accepted is printed as it
\* was read, the missing patch supplied, and reads back as the same version.
THEOREM PrintsCorrect == VersionsSpec => []PrintsBack
<1>1. text \in Text => PrintsBack
  <2> SUFFICES ASSUME text \in Text, InRange(text) PROVE PrintsBack
    BY DEF PrintsBack
  <2>1. \A o \in parse(text) \ {Nothing} :
          LET core == Upto(Upto(text, "+"), "-")
          IN  /\ parse(str(o[1])) = {o}
              /\ str(o[1]) = Completed(core) \o SubSeq(text, Len(core) + 1, Len(text))
    BY PrintsAccepted
  <2>2. ASSUME NEW o \in parse_version_components(text) \ {Nothing}
        PROVE  parse_version_components(structured_str(o[1])) = {o}
    <3>1. PICK i, j, k : /\ Printable(i) /\ Printable(j) /\ Printable(k)
                         /\ o = <<[major |-> i, minor |-> j, patch |-> k]>>
      BY StructuredParts
    <3> DEFINE v == [major |-> i, minor |-> j, patch |-> k]
    <3>2. parse_version_components(structured_str(v)) = {<<v>>}
      BY <3>1, StructuredReads
    <3>3. o = <<v>>
      BY <3>1
    <3> HIDE DEF v
    <3>4. o[1] = v
      BY <3>3
    <3>5. QED
      BY <3>2, <3>3, <3>4
  <2>3. QED
    BY <2>1, <2>2, Zenon DEF PrintsBack
<1>2. QED
  BY <1>1, Typed, PTL

-----------------------------------------------------------------------------
(* The order                                                               *)

\* The codes of the characters, all different.
LEMMA Codes ==
  /\ \A c \in Range(Collation) : Code(c) \in 1 .. 5
  /\ \A c, d \in Range(Collation) : Code(c) = Code(d) => c = d
<1>1. ASSUME NEW c \in Range(Collation) PROVE Code(c) \in DOMAIN Collation /\ Collation[Code(c)] = c
  <2>1. \E k \in DOMAIN Collation : Collation[k] = c
    BY DEF Range
  <2>2. QED
    BY <2>1, Zenon DEF Code
<1>2. DOMAIN Collation = 1 .. 5
  BY DEF Collation
<1>3. \A c \in Range(Collation) : Code(c) \in 1 .. 5
  BY <1>1, <1>2
<1>4. \A c, d \in Range(Collation) : Code(c) = Code(d) => c = d
  BY <1>1, Zenon
<1>5. QED
  BY <1>3, <1>4

\* Two sequences are equal, or they differ first at some place, or one of them
\* is a proper prefix of the other.
LEMMA FirstDifference ==
  ASSUME NEW A, NEW p \in Seq(A), NEW q \in Seq(A)
  PROVE  \/ p = q
         \/ \E k \in DOMAIN p \cap DOMAIN q : p[k] # q[k] /\ \A i \in 1 .. k - 1 : p[i] = q[i]
         \/ Len(p) # Len(q) /\ \A i \in DOMAIN p \cap DOMAIN q : p[i] = q[i]
<1> DEFINE D == {k \in DOMAIN p \cap DOMAIN q : p[k] # q[k]}
<1>1. /\ Len(p) \in Nat /\ Len(q) \in Nat /\ DOMAIN p = 1 .. Len(p) /\ DOMAIN q = 1 .. Len(q)
  BY LenProperties
<1>2. CASE D = {}
  <2>1. \A i \in DOMAIN p \cap DOMAIN q : p[i] = q[i]
    BY <1>2
  <2>2. Len(p) = Len(q) => p = q
    BY <1>1, <2>1, SeqEqual
  <2>3. QED
    BY <2>1, <2>2
<1>3. CASE D # {}
  <2>1. D \subseteq Nat
    BY <1>1
  <2>2. PICK k \in D : \A i \in D : k <= i
    <3> HIDE DEF D
    <3>1. QED
      BY <1>3, <2>1, Least
  <2>3. ASSUME NEW i \in 1 .. k - 1 PROVE p[i] = q[i]
    <3>1. k \in Nat /\ i \in DOMAIN p /\ i \in DOMAIN q /\ ~(k <= i)
      BY <1>1, <2>1, <2>2
    <3>2. QED
      BY <2>2, <3>1
  <2>4. QED
    BY <2>2, <2>3
<1>4. QED
  BY <1>2, <1>3

\* An equal start, said with SubSeq as the order does.
LEMMA SameStart ==
  ASSUME NEW A, NEW p \in Seq(A), NEW q \in Seq(A), NEW n \in Nat, n <= Len(p), n <= Len(q)
  PROVE  SubSeq(p, 1, n) = SubSeq(q, 1, n) <=> \A i \in 1 .. n : p[i] = q[i]
<1> DEFINE u == SubSeq(p, 1, n)
           v == SubSeq(q, 1, n)
<1>1. Len(p) \in Nat /\ Len(q) \in Nat
  BY LenProperties
<1>2. u \in Seq(A) /\ Len(u) = n /\ \A i \in 1 .. n : u[i] = p[i]
  <2>1. \A i \in 1 .. n : p[i] \in A
    BY <1>1, ElementOfSeq
  <2>2. /\ SubSeq(p, 1, n) \in Seq(A) /\ Len(SubSeq(p, 1, n)) = IF 1 <= n THEN n - 1 + 1 ELSE 0
        /\ \A i \in 1 .. n - 1 + 1 : SubSeq(p, 1, n)[i] = p[1 + i - 1]
    BY <2>1, SubSeqProperties
  <2> HIDE DEF u
  <2>3. QED
    BY <2>2 DEF u
<1>3. v \in Seq(A) /\ Len(v) = n /\ \A i \in 1 .. n : v[i] = q[i]
  <2>1. \A i \in 1 .. n : q[i] \in A
    BY <1>1, ElementOfSeq
  <2>2. /\ SubSeq(q, 1, n) \in Seq(A) /\ Len(SubSeq(q, 1, n)) = IF 1 <= n THEN n - 1 + 1 ELSE 0
        /\ \A i \in 1 .. n - 1 + 1 : SubSeq(q, 1, n)[i] = q[1 + i - 1]
    BY <2>1, SubSeqProperties
  <2> HIDE DEF v
  <2>3. QED
    BY <2>2 DEF v
<1> HIDE DEF u, v
<1>4. u = v <=> \A i \in 1 .. n : u[i] = v[i]
  BY <1>2, <1>3, SeqEqual
<1>5. QED
  BY <1>2, <1>3, <1>4 DEF u, v

\* Starts with, place by place: the two ways in which a sequence comes first.
LEMMA StartsWith ==
  ASSUME NEW A, NEW p \in Seq(A), NEW q \in Seq(A)
  PROVE  /\ p # q /\ IsPrefix(p, q)
               <=> Len(p) < Len(q) /\ \A i \in 1 .. Len(p) : p[i] = q[i]
         /\ \A k \in DOMAIN p \cap DOMAIN q :
              SubSeq(p, 1, k - 1) = SubSeq(q, 1, k - 1) <=> \A i \in 1 .. k - 1 : p[i] = q[i]
<1>1. /\ Len(p) \in Nat /\ Len(q) \in Nat /\ DOMAIN p = 1 .. Len(p) /\ DOMAIN q = 1 .. Len(q)
  BY LenProperties
<1>2. ASSUME NEW k \in DOMAIN p \cap DOMAIN q
      PROVE  SubSeq(p, 1, k - 1) = SubSeq(q, 1, k - 1) <=> \A i \in 1 .. k - 1 : p[i] = q[i]
  <2>1. k - 1 \in Nat /\ k - 1 <= Len(p) /\ k - 1 <= Len(q)
    BY <1>1
  <2>2. QED
    BY <2>1, SameStart
<1>3. Len(p) <= Len(q) =>
        (SubSeq(p, 1, Len(p)) = SubSeq(q, 1, Len(p)) <=> \A i \in 1 .. Len(p) : p[i] = q[i])
  BY <1>1, SameStart
<1>4. Len(p) = Len(q) /\ (\A i \in 1 .. Len(p) : p[i] = q[i]) => p = q
  BY SeqEqual
<1>5. p # q /\ IsPrefix(p, q) <=> Len(p) < Len(q) /\ \A i \in 1 .. Len(p) : p[i] = q[i]
  <2>1. IsPrefix(p, q) <=> Len(p) <= Len(q) /\ \A i \in 1 .. Len(p) : p[i] = q[i]
    BY <1>3, Zenon DEF IsPrefix
  <2>2. Len(p) < Len(q) => p # q
    BY <1>1
  <2>3. \A n, m \in Nat : n <= m <=> n < m \/ n = m
    OBVIOUS
  <2>4. Len(p) <= Len(q) <=> Len(p) < Len(q) \/ Len(p) = Len(q)
    BY <1>1, <2>3, Zenon
  <2>5. QED
    BY <1>4, <2>1, <2>2, <2>4, Zenon
<1>6. QED
  BY <1>2, <1>5

\* TextSign at the first difference, and without one.
LEMMA TextSignIs ==
  ASSUME NEW A, NEW s \in Seq(A), NEW t \in Seq(A)
  PROVE  /\ \A k \in DOMAIN s \cap DOMAIN t :
              s[k] # t[k] /\ (\A i \in 1 .. k - 1 : s[i] = t[i])
                => TextSign(s, t) = Sign(Code(s[k]), Code(t[k]))
         /\ (\A i \in DOMAIN s \cap DOMAIN t : s[i] = t[i])
                => TextSign(s, t) = Sign(Len(s), Len(t))
<1> DEFINE D == {k \in DOMAIN s \cap DOMAIN t : s[k] # t[k]}
<1>1. /\ Len(s) \in Nat /\ Len(t) \in Nat /\ DOMAIN s = 1 .. Len(s) /\ DOMAIN t = 1 .. Len(t)
  BY LenProperties
<1>2. TextSign(s, t) = IF D = {} THEN Sign(Len(s), Len(t)) ELSE Sign(Code(s[Min(D)]), Code(t[Min(D)]))
  BY DEF TextSign
<1>3. ASSUME NEW k \in DOMAIN s \cap DOMAIN t, s[k] # t[k], \A i \in 1 .. k - 1 : s[i] = t[i]
      PROVE  TextSign(s, t) = Sign(Code(s[k]), Code(t[k]))
  <2>1. k \in D /\ D \subseteq Nat
    BY <1>1, <1>3
  <2>2. ASSUME NEW i \in D PROVE k <= i
    <3>1. i \in Nat /\ k \in Nat /\ i >= 1 /\ s[i] # t[i]
      BY <1>1, <2>1
    <3>2. i \notin 1 .. k - 1
      BY <1>3, <3>1
    <3>3. QED
      BY <3>1, <3>2
  <2> HIDE DEF D
  <2>3. Min(D) = k
    BY <2>1, <2>2, MinIs
  <2>4. QED
    BY <1>2, <2>1, <2>3
<1>4. (\A i \in DOMAIN s \cap DOMAIN t : s[i] = t[i]) => D = {}
  OBVIOUS
<1> HIDE DEF D
<1>5. QED
  BY <1>2, <1>3, <1>4

\* The lexicographic order of the texts of identifiers.
TextBelow(s, t) == Lexicographic(s, t, LAMBDA c, d : Code(c) < Code(d))

\* The sign of a comparison.
LEMMA Signs ==
  \A x, y \in Int : /\ x < y => Sign(x, y) = -1
                    /\ x > y => Sign(x, y) = 1
                    /\ x = y => Sign(x, y) = 0
BY DEF Sign

\* TextSign agrees with that order,
LEMMA TextBelowSign ==
  ASSUME NEW s \in Seq(Range(Collation)), NEW t \in Seq(Range(Collation))
  PROVE  /\ TextBelow(s, t) => TextSign(s, t) = -1
         /\ TextBelow(t, s) => TextSign(s, t) = 1
<1> DEFINE C == Range(Collation)
<1>1. /\ Len(s) \in Nat /\ Len(t) \in Nat /\ DOMAIN s = 1 .. Len(s) /\ DOMAIN t = 1 .. Len(t)
  BY LenProperties
<1>2. \A k \in 1 .. Len(s) : Code(s[k]) \in Int
  BY Codes, ElementOfSeq
<1>3. \A k \in 1 .. Len(t) : Code(t[k]) \in Int
  BY Codes, ElementOfSeq
<1>4. ASSUME TextBelow(s, t) PROVE TextSign(s, t) = -1
  <2>1. CASE s # t /\ IsPrefix(s, t)
    <3>1. Len(s) < Len(t) /\ \A i \in 1 .. Len(s) : s[i] = t[i]
      BY <2>1, StartsWith
    <3>2. TextSign(s, t) = Sign(Len(s), Len(t))
      BY <1>1, <3>1, TextSignIs
    <3>3. QED
      BY <1>1, <3>1, <3>2, Signs
  <2>2. ASSUME NEW k \in DOMAIN s \cap DOMAIN t,
               SubSeq(s, 1, k - 1) = SubSeq(t, 1, k - 1), Code(s[k]) < Code(t[k])
        PROVE  TextSign(s, t) = -1
    <3>1. \A i \in 1 .. k - 1 : s[i] = t[i]
      BY <2>2, StartsWith
    <3>2. Code(s[k]) \in Int /\ Code(t[k]) \in Int
      BY <1>1, <1>2, <1>3
    <3>3. s[k] # t[k]
      BY <2>2, <3>2
    <3>4. TextSign(s, t) = Sign(Code(s[k]), Code(t[k]))
      BY <3>1, <3>3, TextSignIs
    <3>5. QED
      BY <2>2, <3>2, <3>4, Signs
  <2>3. QED
    BY <1>4, <2>1, <2>2 DEF TextBelow, Lexicographic
<1>5. ASSUME TextBelow(t, s) PROVE TextSign(s, t) = 1
  <2>1. CASE t # s /\ IsPrefix(t, s)
    <3>1. Len(t) < Len(s) /\ \A i \in 1 .. Len(t) : t[i] = s[i]
      BY <2>1, StartsWith
    <3>2. TextSign(s, t) = Sign(Len(s), Len(t))
      BY <1>1, <3>1, TextSignIs
    <3>3. QED
      BY <1>1, <3>1, <3>2, Signs
  <2>2. ASSUME NEW k \in DOMAIN t \cap DOMAIN s,
               SubSeq(t, 1, k - 1) = SubSeq(s, 1, k - 1), Code(t[k]) < Code(s[k])
        PROVE  TextSign(s, t) = 1
    <3>1. \A i \in 1 .. k - 1 : t[i] = s[i]
      BY <2>2, StartsWith
    <3>2. Code(s[k]) \in Int /\ Code(t[k]) \in Int
      BY <1>1, <1>2, <1>3
    <3>3. s[k] # t[k]
      BY <2>2, <3>2
    <3>4. TextSign(s, t) = Sign(Code(s[k]), Code(t[k]))
      BY <3>1, <3>3, TextSignIs
    <3>5. QED
      BY <2>2, <3>2, <3>4, Signs
  <2>3. QED
    BY <1>5, <2>1, <2>2 DEF TextBelow, Lexicographic
<1>6. QED
  BY <1>4, <1>5

\* which leaves out no two different texts.
LEMMA TextTrichotomy ==
  ASSUME NEW s \in Seq(Range(Collation)), NEW t \in Seq(Range(Collation))
  PROVE  TextBelow(s, t) \/ TextBelow(t, s) \/ s = t
<1>1. /\ Len(s) \in Nat /\ Len(t) \in Nat /\ DOMAIN s = 1 .. Len(s) /\ DOMAIN t = 1 .. Len(t)
  BY LenProperties
<1>2. ASSUME NEW k \in DOMAIN s \cap DOMAIN t, s[k] # t[k], \A i \in 1 .. k - 1 : s[i] = t[i]
      PROVE  TextBelow(s, t) \/ TextBelow(t, s)
  <2>1. s[k] \in Range(Collation) /\ t[k] \in Range(Collation)
    BY <1>1, ElementOfSeq
  <2>2. Code(s[k]) < Code(t[k]) \/ Code(t[k]) < Code(s[k])
    <3>1. Code(s[k]) \in 1 .. 5 /\ Code(t[k]) \in 1 .. 5 /\ Code(s[k]) # Code(t[k])
      BY <1>2, <2>1, Codes
    <3>2. QED
      BY <3>1
  <2>3. SubSeq(s, 1, k - 1) = SubSeq(t, 1, k - 1)
    BY <1>2, StartsWith
  <2>4. QED
    BY <2>2, <2>3 DEF TextBelow, Lexicographic
<1>3. ASSUME Len(s) # Len(t), \A i \in DOMAIN s \cap DOMAIN t : s[i] = t[i]
      PROVE  TextBelow(s, t) \/ TextBelow(t, s)
  <2>1. ASSUME NEW u \in Seq(Range(Collation)), NEW v \in Seq(Range(Collation)),
               Len(u) < Len(v), \A i \in DOMAIN u \cap DOMAIN v : u[i] = v[i]
        PROVE  TextBelow(u, v)
    <3>1. \A n, m \in Nat : n < m => 1 .. n = (1 .. n) \cap (1 .. m)
      OBVIOUS
    <3>2. /\ Len(u) \in Nat /\ Len(v) \in Nat /\ DOMAIN u = 1 .. Len(u) /\ DOMAIN v = 1 .. Len(v)
      BY LenProperties
    <3>3. 1 .. Len(u) = DOMAIN u \cap DOMAIN v
      BY <2>1, <3>1, <3>2, Zenon
    <3>4. \A i \in 1 .. Len(u) : u[i] = v[i]
      BY <2>1, <3>3, Zenon
    <3>5. u # v /\ IsPrefix(u, v)
      BY <2>1, <3>4, StartsWith
    <3>6. QED
      BY <3>5 DEF TextBelow, Lexicographic
  <2>2. \A n, m \in Nat : n # m => n < m \/ m < n
    OBVIOUS
  <2>3. Len(s) < Len(t) \/ Len(t) < Len(s)
    BY <1>1, <1>3, <2>2, Zenon
  <2>4. \A i \in DOMAIN t \cap DOMAIN s : t[i] = s[i]
    BY <1>3
  <2>5. QED
    BY <1>3, <2>1, <2>3, <2>4
<1>4. QED
  BY <1>2, <1>3, FirstDifference

-----------------------------------------------------------------------------
(* The order of two identifiers                                            *)

\* The identifiers of a prerelease, the last of which may be empty.
Ids == {s \in Word : (s = << >> \/ Identifier(s)) /\ InRange(s)}

\* What the round of the loop decides, and that it decides.
Decides(s, t) ==
  /\ IdentifierBelow(s, t) => identifier_signs(s, t) = {-1}
  /\ IdentifierBelow(t, s) => identifier_signs(s, t) = {1}
  /\ s = t => identifier_signs(s, t) = {0}
  /\ IdentifierBelow(s, t) \/ IdentifierBelow(t, s) \/ s = t

\* IdentifierBelow with that order in it.
LEMMA BelowText ==
  \A s, t : IdentifierBelow(s, t) <=>
    \/ s = << >> /\ t # << >>
    \/ Numeral(s) /\ t # << >> /\ ~Numeric(t)
    \/ Numeral(s) /\ Numeral(t) /\ Number(s) < Number(t)
    \/ ~Numeric(s) /\ ~Numeric(t) /\ TextBelow(s, t)
BY DEF IdentifierBelow, TextBelow

\* An identifier of digits is a numeral, and the others are texts of the collation.
LEMMA IdNumber ==
  ASSUME NEW s \in Ids, s # << >>
  PROVE  /\ Numeric(s) <=> Numeral(s)
         /\ Numeral(s) => Number(s) \in 0 .. MaxInt /\ to_string[Number(s)] = s
         /\ s \in Seq(Range(Collation))
<1>1. s \in Text /\ Identifier(s) /\ InRange(s)
  BY WordIsText DEF Ids
<1>2. Numeric(s) <=> Numeral(s)
  BY <1>1, Zenon DEF Identifier, Numeral
<1>3. Numeral(s) => Number(s) \in 0 .. MaxInt /\ to_string[Number(s)] = s
  BY <1>1, <1>2, InRangeNumber, NumeralPrintable
<1>4. s \in Seq(Range(Collation))
  BY <1>1, SeqOfRange, SeqMonotonic DEF Identifier, Text
<1>5. QED
  BY <1>2, <1>3, <1>4

\* The empty identifier.
LEMMA EmptyIs == Numeric(<< >>) /\ ~Numeral(<< >>) /\ Len(<< >>) = 0
BY DEF Numeric, Numeral, Range

\* Every two identifiers are decided, as the order has it.
LEMMA IdentifierOrder ==
  ASSUME NEW s \in Ids, NEW t \in Ids
  PROVE  Decides(s, t)
<1>1. CASE s = << >> \/ t = << >>
  <2>1. identifier_signs(s, t) = {Sign(Len(s), Len(t))}
    BY <1>1, Zenon DEF identifier_signs
  <2>2. IdentifierBelow(s, t) <=> s = << >> /\ t # << >>
    BY <1>1, BelowText, EmptyIs, Zenon
  <2>3. IdentifierBelow(t, s) <=> t = << >> /\ s # << >>
    BY <1>1, BelowText, EmptyIs, Zenon
  <2>4. \A u \in Ids : Len(u) \in Nat /\ (u # << >> => Len(u) > 0)
    BY EmptySeq, LenProperties DEF Ids, Word
  <2>5. s = << >> /\ t # << >> => Sign(Len(s), Len(t)) = -1
    <3>1. ASSUME s = << >>, t # << >> PROVE Sign(Len(s), Len(t)) = -1
      <4>1. Len(s) < Len(t) /\ Len(s) \in Int /\ Len(t) \in Int
        BY <2>4, <3>1, EmptyIs
      <4>2. QED
        BY <4>1, Signs
    <3>2. QED
      BY <3>1
  <2>6. t = << >> /\ s # << >> => Sign(Len(s), Len(t)) = 1
    <3>1. ASSUME t = << >>, s # << >> PROVE Sign(Len(s), Len(t)) = 1
      <4>1. Len(s) > Len(t) /\ Len(s) \in Int /\ Len(t) \in Int
        BY <2>4, <3>1, EmptyIs
      <4>2. QED
        BY <4>1, Signs
    <3>2. QED
      BY <3>1
  <2>7. s = t => Sign(Len(s), Len(t)) = 0
    BY DEF Sign
  <2>8. QED
    BY <1>1, <2>1, <2>2, <2>3, <2>5, <2>6, <2>7, Zenon DEF Decides
<1>2. CASE s # << >> /\ t # << >> /\ Numeric(s) /\ Numeric(t)
  <2> DEFINE n == Number(s)
             m == Number(t)
  <2>1. n \in 0 .. MaxInt /\ m \in 0 .. MaxInt /\ to_string[n] = s /\ to_string[m] = t
        /\ Numeral(s) /\ Numeral(t)
    BY <1>2, IdNumber
  <2>2. ~(n > MaxInt \/ m > MaxInt) /\ n \in Int /\ m \in Int
    BY <2>1, VersionsAssumption
  <2>3. identifier_signs(s, t) = {Sign(n, m)}
    BY <1>2, <2>2, Zenon DEF identifier_signs
  <2>4. IdentifierBelow(s, t) <=> n < m
    BY <1>2, <2>1, BelowText, Zenon
  <2>5. IdentifierBelow(t, s) <=> m < n
    BY <1>2, <2>1, BelowText, Zenon
  <2>6. s = t <=> n = m
    BY <2>1
  <2> HIDE DEF n, m
  <2>7. n < m \/ m < n \/ n = m
    BY <2>2
  <2>8. (n < m => Sign(n, m) = -1) /\ (m < n => Sign(n, m) = 1) /\ (n = m => Sign(n, m) = 0)
    BY <2>2 DEF Sign
  <2>9. QED
    BY <2>3, <2>4, <2>5, <2>6, <2>7, <2>8, Zenon DEF Decides
<1>3. CASE s # << >> /\ t # << >> /\ Numeric(s) /\ ~Numeric(t)
  <2>1. identifier_signs(s, t) = {-1}
    BY <1>3, Zenon DEF identifier_signs
  <2>2. Numeral(s) /\ ~Numeral(t)
    BY <1>3, IdNumber, Zenon DEF Numeral
  <2>3. IdentifierBelow(s, t) /\ ~IdentifierBelow(t, s) /\ s # t
    BY <1>3, <2>2, BelowText, Zenon
  <2>4. QED
    BY <2>1, <2>3, Zenon DEF Decides
<1>4. CASE s # << >> /\ t # << >> /\ ~Numeric(s) /\ Numeric(t)
  <2>1. identifier_signs(s, t) = {1}
    BY <1>4, Zenon DEF identifier_signs
  <2>2. Numeral(t) /\ ~Numeral(s)
    BY <1>4, IdNumber, Zenon DEF Numeral
  <2>3. IdentifierBelow(t, s) /\ ~IdentifierBelow(s, t) /\ s # t
    BY <1>4, <2>2, BelowText, Zenon
  <2>4. QED
    BY <2>1, <2>3, Zenon DEF Decides
<1>5. CASE s # << >> /\ t # << >> /\ ~Numeric(s) /\ ~Numeric(t)
  <2>1. identifier_signs(s, t) = {TextSign(s, t)}
    BY <1>5, Zenon DEF identifier_signs
  <2>2. ~Numeral(s) /\ ~Numeral(t)
    BY <1>5, Zenon DEF Numeral
  <2>3. (IdentifierBelow(s, t) <=> TextBelow(s, t)) /\ (IdentifierBelow(t, s) <=> TextBelow(t, s))
    BY <1>5, <2>2, BelowText, Zenon
  <2>4. s \in Seq(Range(Collation)) /\ t \in Seq(Range(Collation))
    BY <1>5, IdNumber
  <2>5. (TextBelow(s, t) => TextSign(s, t) = -1) /\ (TextBelow(t, s) => TextSign(s, t) = 1)
    BY <2>4, TextBelowSign
  <2>6. TextBelow(s, t) \/ TextBelow(t, s) \/ s = t
    BY <2>4, TextTrichotomy
  <2>7. s = t => TextSign(s, t) = 0
    <3>1. TextSign(s, s) = Sign(Len(s), Len(s))
      BY <2>4, TextSignIs
    <3>2. Sign(Len(s), Len(s)) = 0
      <4>1. Len(s) \in Int
        BY <2>4, LenProperties
      <4>2. QED
        BY <4>1 DEF Sign
    <3>3. QED
      BY <3>1, <3>2
  <2>8. QED
    BY <2>1, <2>3, <2>5, <2>6, <2>7, Zenon DEF Decides
<1>6. QED
  BY <1>1, <1>2, <1>3, <1>4, <1>5

-----------------------------------------------------------------------------
(* The loop over the identifiers                                           *)

\* The smaller of two numbers.
LEMMA MinPair ==
  ASSUME NEW a \in Nat, NEW b \in Nat
  PROVE  Min({a, b}) = IF a <= b THEN a ELSE b
<1> DEFINE m == IF a <= b THEN a ELSE b
           K == {a, b}
<1>1. K \subseteq Nat /\ m \in K /\ \A k \in K : m <= k
  OBVIOUS
<1> HIDE DEF K, m
<1>2. Min(K) = m
  BY <1>1, MinIs
<1>3. QED
  BY <1>2 DEF K, m

\* A loop from 1 to m that leaves with a verdict, goes on with 0, and gives last
\* at its end.
Goes(f, k, m, X, last) ==
  IF k > m THEN last ELSE (X[k] \ {0}) \cup (IF 0 \in X[k] THEN f[k + 1] ELSE {})

Loops(f, m, X, last) == f = [k \in 1 .. m + 1 |-> Goes(f, k, m, X, last)]

\* There is such a loop: its values are found from the end.
LEMMA LoopExists ==
  ASSUME NEW m \in Nat, NEW last, NEW X
  PROVE  \E f : Loops(f, m, X, last)
<1> DEFINE From(j) == m + 1 - j .. m + 1
           Good(f, j) == DOMAIN f = From(j) /\ \A k \in From(j) : f[k] = Goes(f, k, m, X, last)
           S == {j \in Nat : j <= m => \E f : Good(f, j)}
<1>1. 0 \in S
  <2> DEFINE f == [k \in From(0) |-> last]
  <2>1. DOMAIN f = From(0) /\ \A k \in From(0) : f[k] = last /\ k > m
    OBVIOUS
  <2> HIDE DEF f
  <2>2. Good(f, 0)
    BY <2>1 DEF Goes
  <2> HIDE DEF Good
  <2>3. QED
    BY <2>2
<1>2. ASSUME NEW j \in Nat, j \in S PROVE j + 1 \in S
  <2> SUFFICES ASSUME j + 1 <= m PROVE \E f : Good(f, j + 1)
    OBVIOUS
  <2>1. PICK f : Good(f, j)
    BY <1>2
  <2> DEFINE n == m - j
             g == [k \in From(j + 1) |-> IF k = n THEN Goes(f, n, m, X, last) ELSE f[k]]
  <2>2. /\ n \in From(j + 1) /\ n \notin From(j) /\ n + 1 \in From(j) /\ n <= m
        /\ From(j + 1) = From(j) \cup {n}
        /\ \A k \in From(j) : k \in Nat /\ (k <= m => k + 1 \in From(j))
    OBVIOUS
  <2>3. /\ DOMAIN g = From(j + 1) /\ g[n] = Goes(f, n, m, X, last)
        /\ \A k \in From(j) : g[k] = f[k]
    BY <2>2
  <2> HIDE DEF g, From, n
  <2>4. \A k \in From(j) : Goes(g, k, m, X, last) = Goes(f, k, m, X, last)
    <3> SUFFICES ASSUME NEW k \in From(j)
                 PROVE  Goes(g, k, m, X, last) = Goes(f, k, m, X, last)
      OBVIOUS
    <3>1. k > m \/ g[k + 1] = f[k + 1]
      BY <2>2, <2>3
    <3>2. QED
      BY <3>1, Zenon DEF Goes
  <2>5. Goes(g, n, m, X, last) = Goes(f, n, m, X, last)
    BY <2>2, <2>3 DEF Goes
  <2>6. \A k \in From(j) : f[k] = Goes(f, k, m, X, last)
    BY <2>1
  <2>7. \A k \in From(j + 1) : g[k] = Goes(g, k, m, X, last)
    BY <2>2, <2>3, <2>4, <2>5, <2>6
  <2>8. QED
    BY <2>3, <2>7
<1>3. m \in S
  <2> HIDE DEF S
  <2>1. QED
    BY <1>1, <1>2, Induction
<1>4. PICK f : Good(f, m)
  BY <1>3
<1>5. From(m) = 1 .. m + 1
  OBVIOUS
<1> HIDE DEF From
<1> DEFINE g == [k \in 1 .. m + 1 |-> f[k]]
<1>6. \A k \in 1 .. m + 1 : Goes(g, k, m, X, last) = Goes(f, k, m, X, last)
  <2> SUFFICES ASSUME NEW k \in 1 .. m + 1
               PROVE  Goes(g, k, m, X, last) = Goes(f, k, m, X, last)
    OBVIOUS
  <2>1. k > m \/ g[k + 1] = f[k + 1]
    OBVIOUS
  <2> HIDE DEF g
  <2>2. QED
    BY <2>1, Zenon DEF Goes
<1>7. g = [k \in 1 .. m + 1 |-> Goes(g, k, m, X, last)]
  <2>1. \A k \in 1 .. m + 1 : f[k] = Goes(g, k, m, X, last)
    BY <1>4, <1>5, <1>6
  <2>2. QED
    BY <2>1
<1> HIDE DEF g
<1>8. QED
  BY <1>7 DEF Loops

\* The loop of compare over the identifiers of two prereleases.
Rounds(h, s, t, m) ==
  /\ prerelease_signs(s, t) = h[1]
  /\ h[m + 1] = {Sign(Len(Split(s)), Len(Split(t)))}
  /\ \A k \in 1 .. m :
       LET signs == identifier_signs(Split(s)[k], Split(t)[k])
       IN  h[k] = (signs \ {0}) \cup (IF 0 \in signs THEN h[k + 1] ELSE {})

\* prerelease_signs is the first value of such a loop.
LEMMA LoopIs ==
  ASSUME NEW s, NEW t, Len(Split(s)) \in Nat, Len(Split(t)) \in Nat,
         NEW m, m = Min({Len(Split(s)), Len(Split(t))}), m \in Nat
  PROVE  \E h : Rounds(h, s, t, m)
<1> DEFINE P == Split(s)
           Q == Split(t)
           last == {Sign(Len(P), Len(Q))}
           E(f, k) == IF k > m THEN last
                      ELSE LET signs == identifier_signs(P[k], Q[k])
                           IN  (signs \ {0}) \cup (IF 0 \in signs THEN f[k + 1] ELSE {})
           D(f) == f = [k \in 1 .. m + 1 |-> E(f, k)]
           X == [k \in 1 .. m |-> identifier_signs(P[k], Q[k])]
           h == CHOOSE f : D(f)
<1>1. PICK f : Loops(f, m, X, last)
  <2> HIDE DEF X, last
  <2>1. QED
    BY LoopExists
<1>2. \A k \in 1 .. m + 1 : Goes(f, k, m, X, last) = E(f, k)
  <2> SUFFICES ASSUME NEW k \in 1 .. m + 1 PROVE Goes(f, k, m, X, last) = E(f, k)
    OBVIOUS
  <2>1. CASE k > m
    BY <2>1 DEF Goes
  <2>2. CASE ~(k > m)
    <3>1. k \in 1 .. m
      BY <2>2
    <3>2. X[k] = identifier_signs(P[k], Q[k])
      BY <3>1
    <3> HIDE DEF X, last, P, Q
    <3>3. QED
      BY <2>2, <3>2, Zenon DEF Goes
  <2>3. QED
    BY <2>1, <2>2
<1>3. D(f)
  <2> HIDE DEF E, X, last
  <2>1. QED
    BY <1>1, <1>2 DEF Loops
<1>4. D(h)
  <2> HIDE DEF D
  <2>1. QED
    BY <1>3
<1>5. prerelease_signs(s, t) = h[1]
  BY DEF prerelease_signs
<1> HIDE DEF h
<1>6. \A k \in 1 .. m + 1 : h[k] = E(h, k)
  <2> HIDE DEF E
  <2>1. QED
    BY <1>4
<1>7. h[m + 1] = last
  <2>1. m + 1 \in 1 .. m + 1 /\ m + 1 > m
    OBVIOUS
  <2> HIDE DEF last, P, Q
  <2>2. QED
    BY <1>6, <2>1, Zenon
<1>8. \A k \in 1 .. m : LET signs == identifier_signs(P[k], Q[k])
                        IN  h[k] = (signs \ {0}) \cup (IF 0 \in signs THEN h[k + 1] ELSE {})
  <2>1. \A k \in 1 .. m : k \in 1 .. m + 1 /\ ~(k > m)
    OBVIOUS
  <2> HIDE DEF last, P, Q
  <2>2. QED
    BY <1>6, <2>1, Zenon
<1>9. QED
  BY <1>5, <1>7, <1>8 DEF Rounds

\* What the loop over the identifiers gives: the verdict at the first difference,
\* and without one the comparison of the lengths.
LEMMA LoopVerdict ==
  ASSUME NEW s, NEW t, Split(s) \in Seq(Ids), Split(t) \in Seq(Ids)
  PROVE  /\ \A k \in DOMAIN Split(s) \cap DOMAIN Split(t), x \in {-1, 1} :
              /\ \A i \in 1 .. k - 1 : Split(s)[i] = Split(t)[i]
              /\ identifier_signs(Split(s)[k], Split(t)[k]) = {x}
              => prerelease_signs(s, t) = {x}
         /\ (\A i \in DOMAIN Split(s) \cap DOMAIN Split(t) : Split(s)[i] = Split(t)[i])
              => prerelease_signs(s, t) = {Sign(Len(Split(s)), Len(Split(t)))}
<1> DEFINE P == Split(s)
           Q == Split(t)
           m == Min({Len(P), Len(Q)})
           R(i) == identifier_signs(P[i], Q[i])
<1>1. /\ Len(P) \in Nat /\ Len(Q) \in Nat /\ DOMAIN P = 1 .. Len(P) /\ DOMAIN Q = 1 .. Len(Q)
  BY LenProperties
<1>2. m \in Nat /\ 1 .. m = DOMAIN P \cap DOMAIN Q
  <2>1. m = IF Len(P) <= Len(Q) THEN Len(P) ELSE Len(Q)
    BY <1>1, MinPair
  <2> HIDE DEF m, P, Q
  <2>2. QED
    BY <1>1, <2>1
<1>3. PICK h : /\ prerelease_signs(s, t) = h[1]
               /\ h[m + 1] = {Sign(Len(P), Len(Q))}
               /\ \A i \in 1 .. m : h[i] = (R(i) \ {0}) \cup (IF 0 \in R(i) THEN h[i + 1] ELSE {})
  <2>1. \E h : Rounds(h, s, t, m)
    BY <1>1, <1>2, LoopIs
  <2>2. QED
    BY <2>1 DEF Rounds
<1>4. ASSUME NEW i \in 1 .. m, P[i] = Q[i] PROVE h[i] = h[i + 1]
  <2>1. P[i] \in Ids
    BY <1>1, <1>2, ElementOfSeq
  <2>2. R(i) = {0}
    <3>1. Decides(P[i], P[i])
      BY <2>1, IdentifierOrder
    <3>2. QED
      BY <1>4, <3>1 DEF Decides
  <2> HIDE DEF R
  <2>3. QED
    BY <1>3, <2>2
<1> HIDE DEF m, P, Q, R
<1>5. ASSUME NEW k \in 1 .. m + 1, \A i \in 1 .. k - 1 : P[i] = Q[i]
      PROVE  h[1] = h[k]
  <2> DEFINE S == {n \in Nat : n <= k - 1 => h[1] = h[n + 1]}
  <2>1. 0 \in S
    OBVIOUS
  <2>2. ASSUME NEW n \in Nat, n \in S PROVE n + 1 \in S
    <3> SUFFICES ASSUME n + 1 <= k - 1 PROVE h[1] = h[(n + 1) + 1]
      OBVIOUS
    <3>1. n <= k - 1 /\ n + 1 \in 1 .. k - 1 /\ n + 1 \in 1 .. m
      BY <1>2
    <3>2. h[1] = h[n + 1]
      BY <2>2, <3>1
    <3>3. h[n + 1] = h[(n + 1) + 1]
      BY <1>4, <1>5, <3>1
    <3>4. QED
      BY <3>2, <3>3
  <2>3. k - 1 \in Nat
    BY <1>2
  <2>4. k - 1 \in S
    <3> HIDE DEF S
    <3>1. QED
      BY <2>1, <2>2, <2>3, Induction
  <2>5. (k - 1) + 1 = k /\ k - 1 <= k - 1
    BY <2>3, <1>2
  <2>6. QED
    BY <2>4, <2>5
<1>6. ASSUME NEW k \in DOMAIN P \cap DOMAIN Q, NEW x \in {-1, 1},
             \A i \in 1 .. k - 1 : P[i] = Q[i], identifier_signs(P[k], Q[k]) = {x}
      PROVE  prerelease_signs(s, t) = {x}
  <2>1. k \in 1 .. m /\ k \in 1 .. m + 1
    BY <1>2
  <2>2. h[1] = h[k]
    BY <1>5, <1>6, <2>1
  <2>3. R(k) = {x}
    BY <1>6 DEF R
  <2>4. h[k] = {x}
    BY <1>3, <2>1, <2>3
  <2>5. QED
    BY <1>3, <2>2, <2>4
<1>7. ASSUME \A i \in DOMAIN P \cap DOMAIN Q : P[i] = Q[i]
      PROVE  prerelease_signs(s, t) = {Sign(Len(P), Len(Q))}
  <2>1. m + 1 \in 1 .. m + 1 /\ (m + 1) - 1 = m
    BY <1>2
  <2>2. \A i \in 1 .. (m + 1) - 1 : P[i] = Q[i]
    BY <1>2, <1>7, <2>1
  <2>3. h[1] = h[m + 1]
    BY <1>5, <2>1, <2>2
  <2>4. QED
    BY <1>3, <2>3
<1>8. QED
  BY <1>6, <1>7 DEF P, Q

\* The order of two prereleases.
ListBelow(p, q) == Lexicographic(p, q, IdentifierBelow)

\* Place by place.
LEMMA ListBelowIs ==
  ASSUME NEW p \in Seq(Ids), NEW q \in Seq(Ids)
  PROVE  ListBelow(p, q) <=>
           \/ Len(p) < Len(q) /\ \A i \in 1 .. Len(p) : p[i] = q[i]
           \/ \E k \in DOMAIN p \cap DOMAIN q :
                (\A i \in 1 .. k - 1 : p[i] = q[i]) /\ IdentifierBelow(p[k], q[k])
<1>1. /\ p # q /\ IsPrefix(p, q) <=> Len(p) < Len(q) /\ \A i \in 1 .. Len(p) : p[i] = q[i]
      /\ \A k \in DOMAIN p \cap DOMAIN q :
           SubSeq(p, 1, k - 1) = SubSeq(q, 1, k - 1) <=> \A i \in 1 .. k - 1 : p[i] = q[i]
  BY StartsWith
<1>2. ListBelow(p, q) <=>
        \/ p # q /\ IsPrefix(p, q)
        \/ \E k \in DOMAIN p \cap DOMAIN q :
             SubSeq(p, 1, k - 1) = SubSeq(q, 1, k - 1) /\ IdentifierBelow(p[k], q[k])
  BY DEF ListBelow, Lexicographic
<1>3. QED
  BY <1>1, <1>2, Zenon

\* The loop agrees with that order, which leaves out no two different lists.
LEMMA PrereleaseOrder ==
  ASSUME NEW s, NEW t, Split(s) \in Seq(Ids), Split(t) \in Seq(Ids)
  PROVE  /\ ListBelow(Split(s), Split(t)) => prerelease_signs(s, t) = {-1}
         /\ ListBelow(Split(t), Split(s)) => prerelease_signs(s, t) = {1}
         /\ Split(s) = Split(t) => prerelease_signs(s, t) = {0}
         /\ ListBelow(Split(s), Split(t)) \/ ListBelow(Split(t), Split(s)) \/ Split(s) = Split(t)
<1> DEFINE P == Split(s)
           Q == Split(t)
           n == Len(P)
           m == Len(Q)
<1>1. n \in Nat /\ m \in Nat /\ DOMAIN P = 1 .. n /\ DOMAIN Q = 1 .. m
  BY LenProperties
<1>2. /\ \A k \in DOMAIN P : P[k] \in Ids
      /\ \A k \in DOMAIN Q : Q[k] \in Ids
  BY <1>1, ElementOfSeq
<1>3. /\ \A k \in DOMAIN P \cap DOMAIN Q, x \in {-1, 1} :
           /\ \A i \in 1 .. k - 1 : P[i] = Q[i]
           /\ identifier_signs(P[k], Q[k]) = {x}
           => prerelease_signs(s, t) = {x}
      /\ (\A i \in DOMAIN P \cap DOMAIN Q : P[i] = Q[i]) => prerelease_signs(s, t) = {Sign(n, m)}
  BY LoopVerdict
<1>4. /\ ListBelow(P, Q) <=>
           \/ n < m /\ \A i \in 1 .. n : P[i] = Q[i]
           \/ \E k \in DOMAIN P \cap DOMAIN Q :
                (\A i \in 1 .. k - 1 : P[i] = Q[i]) /\ IdentifierBelow(P[k], Q[k])
      /\ ListBelow(Q, P) <=>
           \/ m < n /\ \A i \in 1 .. m : Q[i] = P[i]
           \/ \E k \in DOMAIN Q \cap DOMAIN P :
                (\A i \in 1 .. k - 1 : Q[i] = P[i]) /\ IdentifierBelow(Q[k], P[k])
  BY ListBelowIs
<1>5. \/ P = Q
      \/ \E k \in DOMAIN P \cap DOMAIN Q : P[k] # Q[k] /\ \A i \in 1 .. k - 1 : P[i] = Q[i]
      \/ n # m /\ \A i \in DOMAIN P \cap DOMAIN Q : P[i] = Q[i]
  BY FirstDifference
<1>6. \A k \in DOMAIN P \cap DOMAIN Q : Decides(P[k], Q[k])
  BY <1>2, IdentifierOrder
<1> HIDE DEF P, Q, n, m
<1>7. ASSUME ListBelow(P, Q) PROVE prerelease_signs(s, t) = {-1}
  <2>1. ASSUME n < m, \A i \in 1 .. n : P[i] = Q[i] PROVE prerelease_signs(s, t) = {-1}
    <3>1. Sign(n, m) = -1
      BY <1>1, <2>1, Signs
    <3>2. \A i \in DOMAIN P \cap DOMAIN Q : P[i] = Q[i]
      BY <1>1, <2>1
    <3>3. QED
      BY <1>3, <3>1, <3>2
  <2>2. ASSUME NEW k \in DOMAIN P \cap DOMAIN Q,
               \A i \in 1 .. k - 1 : P[i] = Q[i], IdentifierBelow(P[k], Q[k])
        PROVE  prerelease_signs(s, t) = {-1}
    <3>1. identifier_signs(P[k], Q[k]) = {-1}
      BY <1>6, <2>2 DEF Decides
    <3>2. QED
      BY <1>3, <2>2, <3>1
  <2>3. QED
    BY <1>4, <1>7, <2>1, <2>2
<1>8. ASSUME ListBelow(Q, P) PROVE prerelease_signs(s, t) = {1}
  <2>1. ASSUME m < n, \A i \in 1 .. m : Q[i] = P[i] PROVE prerelease_signs(s, t) = {1}
    <3>1. Sign(n, m) = 1
      BY <1>1, <2>1, Signs
    <3>2. \A i \in DOMAIN P \cap DOMAIN Q : P[i] = Q[i]
      BY <1>1, <2>1
    <3>3. QED
      BY <1>3, <3>1, <3>2
  <2>2. ASSUME NEW k \in DOMAIN Q \cap DOMAIN P,
               \A i \in 1 .. k - 1 : Q[i] = P[i], IdentifierBelow(Q[k], P[k])
        PROVE  prerelease_signs(s, t) = {1}
    <3>1. k \in DOMAIN P \cap DOMAIN Q /\ \A i \in 1 .. k - 1 : P[i] = Q[i]
      BY <2>2
    <3>2. identifier_signs(P[k], Q[k]) = {1}
      BY <1>6, <2>2, <3>1 DEF Decides
    <3>3. QED
      BY <1>3, <3>1, <3>2
  <2>3. QED
    BY <1>4, <1>8, <2>1, <2>2
<1>9. ASSUME P = Q PROVE prerelease_signs(s, t) = {0}
  <2>1. n = m
    BY <1>9 DEF n, m
  <2>2. Sign(n, m) = 0
    BY <1>1, <2>1, Signs
  <2>3. \A i \in DOMAIN P \cap DOMAIN Q : P[i] = Q[i]
    BY <1>9
  <2>4. QED
    BY <1>3, <2>2, <2>3
<1>10. ListBelow(P, Q) \/ ListBelow(Q, P) \/ P = Q
  <2>1. ASSUME NEW k \in DOMAIN P \cap DOMAIN Q, P[k] # Q[k], \A i \in 1 .. k - 1 : P[i] = Q[i]
        PROVE  ListBelow(P, Q) \/ ListBelow(Q, P)
    <3>1. IdentifierBelow(P[k], Q[k]) \/ IdentifierBelow(Q[k], P[k])
      BY <1>6, <2>1 DEF Decides
    <3>2. k \in DOMAIN Q \cap DOMAIN P /\ \A i \in 1 .. k - 1 : Q[i] = P[i]
      BY <2>1
    <3>3. QED
      BY <1>4, <2>1, <3>1, <3>2, Zenon
  <2>2. ASSUME n # m, \A i \in DOMAIN P \cap DOMAIN Q : P[i] = Q[i]
        PROVE  ListBelow(P, Q) \/ ListBelow(Q, P)
    <3>1. CASE n < m
      <4>1. \A i \in 1 .. n : P[i] = Q[i]
        BY <1>1, <2>2, <3>1
      <4>2. QED
        BY <1>4, <3>1, <4>1, Zenon
    <3>2. CASE m < n
      <4>1. \A i \in 1 .. m : Q[i] = P[i]
        BY <1>1, <2>2, <3>2
      <4>2. QED
        BY <1>4, <3>2, <4>1, Zenon
    <3>3. QED
      BY <1>1, <2>2, <3>1, <3>2
  <2>3. QED
    BY <1>5, <2>1, <2>2
<1>11. QED
  BY <1>7, <1>8, <1>9, <1>10 DEF P, Q

\* The identifiers of a prerelease that parse accepts.
LEMMA PrereleaseIds ==
  ASSUME NEW s \in Text, InRange(s), valid_dot_identifiers(s)
  PROVE  Split(s) \in Seq(Ids)
<1> DEFINE P == Split(s)
<1>1. P \in Seq(Word) /\ DOMAIN P = 1 .. Len(P)
  BY SplitLen, LenProperties
<1>2. \A k \in DOMAIN P : /\ \A c \in Range(P[k]) : ident_char(c)
                          /\ Numeric(P[k]) => ~LeadingZero(P[k])
  BY Zenon DEF valid_dot_identifiers
<1>3. ASSUME NEW k \in DOMAIN P PROVE P[k] \in Ids
  <2>1. P[k] \in Word /\ InRange(P[k])
    BY InRangeParts
  <2>2. Range(P[k]) \subseteq Range(Collation)
    BY <1>2 DEF ident_char
  <2>3. P[k] # << >> => Identifier(P[k])
    BY <1>2, <2>2, Zenon DEF Identifier, Numeral
  <2>4. QED
    BY <2>1, <2>3 DEF Ids
<1>4. P \in Seq(Ids)
  <2>1. P \in Seq(Range(P)) /\ Range(P) = {P[i] : i \in 1 .. Len(P)}
    BY <1>1, SeqOfRange, RangeEquality
  <2>2. Range(P) \subseteq Ids
    BY <1>1, <1>3, <2>1
  <2>3. QED
    BY <2>1, <2>2, SeqMonotonic
<1>5. QED
  BY <1>4

-----------------------------------------------------------------------------
(* The order of two versions                                               *)

\* The versions that parse gives for texts whose numbers fit.
Readable(v) ==
  /\ v = [major |-> v.major, minor |-> v.minor, patch |-> v.patch,
          prerelease |-> v.prerelease, build |-> v.build]
  /\ v.major \in Nat /\ v.minor \in Nat /\ v.patch \in Nat
  /\ v.prerelease \in Text
  /\ v.prerelease # << >> => Split(v.prerelease) \in Seq(Ids)

\* The order of the three numbers.
CoreBelow(v, w) ==
  \/ v.major < w.major
  \/ v.major = w.major /\ v.minor < w.minor
  \/ v.major = w.major /\ v.minor = w.minor /\ v.patch < w.patch

\* Their equality.
SameCore(v, w) == v.major = w.major /\ v.minor = w.minor /\ v.patch = w.patch

\* The same, as a lexicographic order.
NumbersBelow(p, q) == Lexicographic(p, q, <)

\* It is.
LEMMA TripleOrder ==
  ASSUME NEW a \in Nat, NEW b \in Nat, NEW c \in Nat, NEW x \in Nat, NEW y \in Nat, NEW z \in Nat
  PROVE  /\ NumbersBelow(<<a, b, c>>, <<x, y, z>>)
              <=> a < x \/ (a = x /\ b < y) \/ (a = x /\ b = y /\ c < z)
         /\ <<a, b, c>> = <<x, y, z>> <=> a = x /\ b = y /\ c = z
<1> DEFINE p == <<a, b, c>>
           q == <<x, y, z>>
<1>1. /\ p \in Seq(Nat) /\ q \in Seq(Nat) /\ Len(p) = 3 /\ Len(q) = 3
      /\ DOMAIN p = 1 .. 3 /\ DOMAIN q = 1 .. 3
      /\ p[1] = a /\ p[2] = b /\ p[3] = c /\ q[1] = x /\ q[2] = y /\ q[3] = z
  OBVIOUS
<1>2. p = q <=> a = x /\ b = y /\ c = z
  OBVIOUS
<1> HIDE DEF p, q
<1>3. /\ p # q /\ IsPrefix(p, q) <=> Len(p) < Len(q) /\ \A i \in 1 .. Len(p) : p[i] = q[i]
      /\ \A k \in DOMAIN p \cap DOMAIN q :
           SubSeq(p, 1, k - 1) = SubSeq(q, 1, k - 1) <=> \A i \in 1 .. k - 1 : p[i] = q[i]
  BY <1>1, StartsWith
<1>4. ~(p # q /\ IsPrefix(p, q))
  BY <1>1, <1>3
<1>5. NumbersBelow(p, q) <=> \E k \in DOMAIN p \cap DOMAIN q :
        SubSeq(p, 1, k - 1) = SubSeq(q, 1, k - 1) /\ p[k] < q[k]
  BY <1>4 DEF NumbersBelow, Lexicographic
<1>6. NumbersBelow(p, q) <=> \E k \in 1 .. 3 : (\A i \in 1 .. k - 1 : p[i] = q[i]) /\ p[k] < q[k]
  BY <1>1, <1>3, <1>5
<1>7. (\E k \in 1 .. 3 : (\A i \in 1 .. k - 1 : p[i] = q[i]) /\ p[k] < q[k])
        <=> a < x \/ (a = x /\ b < y) \/ (a = x /\ b = y /\ c < z)
  BY <1>1
<1>8. QED
  BY <1>2, <1>6, <1>7 DEF p, q

\* Precedes by its parts.
LEMMA PrecedesIs ==
  ASSUME NEW v, NEW w, Readable(v), Readable(w)
  PROVE  Precedes(v, w) <=>
           \/ CoreBelow(v, w)
           \/ /\ SameCore(v, w) /\ v.prerelease # << >>
              /\ w.prerelease = << >> \/ ListBelow(Split(v.prerelease), Split(w.prerelease))
<1>1. /\ NumbersBelow(<<v.major, v.minor, v.patch>>, <<w.major, w.minor, w.patch>>)
           <=> CoreBelow(v, w)
      /\ <<v.major, v.minor, v.patch>> = <<w.major, w.minor, w.patch>> <=> SameCore(v, w)
  <2> DEFINE a == v.major
             b == v.minor
             c == v.patch
             x == w.major
             y == w.minor
             z == w.patch
  <2>1. a \in Nat /\ b \in Nat /\ c \in Nat /\ x \in Nat /\ y \in Nat /\ z \in Nat
    BY DEF Readable
  <2>2. /\ CoreBelow(v, w) <=> a < x \/ (a = x /\ b < y) \/ (a = x /\ b = y /\ c < z)
        /\ SameCore(v, w) <=> a = x /\ b = y /\ c = z
    BY DEF CoreBelow, SameCore
  <2> HIDE DEF a, b, c, x, y, z
  <2>3. /\ NumbersBelow(<<a, b, c>>, <<x, y, z>>)
             <=> a < x \/ (a = x /\ b < y) \/ (a = x /\ b = y /\ c < z)
        /\ <<a, b, c>> = <<x, y, z>> <=> a = x /\ b = y /\ c = z
    BY <2>1, TripleOrder
  <2>4. /\ NumbersBelow(<<a, b, c>>, <<x, y, z>>) <=> CoreBelow(v, w)
        /\ <<a, b, c>> = <<x, y, z>> <=> SameCore(v, w)
    BY <2>2, <2>3, Zenon
  <2>5. QED
    BY <2>4 DEF a, b, c, x, y, z
<1>2. Precedes(v, w) <=>
        \/ NumbersBelow(<<v.major, v.minor, v.patch>>, <<w.major, w.minor, w.patch>>)
        \/ /\ <<v.major, v.minor, v.patch>> = <<w.major, w.minor, w.patch>> /\ v.prerelease # << >>
           /\ \/ w.prerelease = << >>
              \/ ListBelow(Split(v.prerelease), Split(w.prerelease))
  BY DEF Precedes, ListBelow, NumbersBelow
<1>3. QED
  BY <1>1, <1>2, Zenon

\* The first three comparisons of compare.
LEMMA CompareCore ==
  ASSUME NEW v, NEW w, Readable(v), Readable(w)
  PROVE  /\ CoreBelow(v, w) => compare(v, w) = {-1}
         /\ CoreBelow(w, v) => compare(v, w) = {1}
         /\ CoreBelow(v, w) \/ CoreBelow(w, v) \/ SameCore(v, w)
         /\ SameCore(v, w) => ~CoreBelow(v, w) /\ ~CoreBelow(w, v)
<1>1. /\ v.major \in Int /\ v.minor \in Int /\ v.patch \in Int
      /\ w.major \in Int /\ w.minor \in Int /\ w.patch \in Int
  BY DEF Readable
<1>2. compare(v, w) =
        IF v.major # w.major THEN {Sign(v.major, w.major)}
        ELSE IF v.minor # w.minor THEN {Sign(v.minor, w.minor)}
        ELSE IF v.patch # w.patch THEN {Sign(v.patch, w.patch)}
        ELSE IF v.prerelease = << >> \/ w.prerelease = << >>
        THEN {Sign(Len(w.prerelease), 0) - Sign(Len(v.prerelease), 0)}
        ELSE prerelease_signs(v.prerelease, w.prerelease)
  BY Zenon DEF compare
<1>3. CoreBelow(v, w) => compare(v, w) = {-1}
  <2>1. CASE v.major < w.major
    BY <1>1, <1>2, <2>1, Signs
  <2>2. CASE v.major = w.major /\ v.minor < w.minor
    BY <1>1, <1>2, <2>2, Signs
  <2>3. CASE v.major = w.major /\ v.minor = w.minor /\ v.patch < w.patch
    BY <1>1, <1>2, <2>3, Signs
  <2>4. QED
    BY <2>1, <2>2, <2>3 DEF CoreBelow
<1>4. CoreBelow(w, v) => compare(v, w) = {1}
  <2>1. CASE w.major < v.major
    BY <1>1, <1>2, <2>1, Signs
  <2>2. CASE w.major = v.major /\ w.minor < v.minor
    BY <1>1, <1>2, <2>2, Signs
  <2>3. CASE w.major = v.major /\ w.minor = v.minor /\ w.patch < v.patch
    BY <1>1, <1>2, <2>3, Signs
  <2>4. QED
    BY <2>1, <2>2, <2>3 DEF CoreBelow
<1>5. CoreBelow(v, w) \/ CoreBelow(w, v) \/ SameCore(v, w)
  BY <1>1 DEF CoreBelow, SameCore
<1>6. SameCore(v, w) => ~CoreBelow(v, w) /\ ~CoreBelow(w, v)
  BY <1>1 DEF CoreBelow, SameCore
<1>7. QED
  BY <1>3, <1>4, <1>5, <1>6

\* Two versions with the same three numbers.
LEMMA CompareSameCore ==
  ASSUME NEW v, NEW w, Readable(v), Readable(w), SameCore(v, w)
  PROVE  /\ Precedes(v, w) => compare(v, w) = {-1}
         /\ Precedes(w, v) => compare(v, w) = {1}
         /\ v.prerelease = w.prerelease => compare(v, w) = {0}
         /\ Precedes(v, w) \/ Precedes(w, v) \/ v.prerelease = w.prerelease
<1> DEFINE p == v.prerelease
           q == w.prerelease
           P == Split(p)
           Q == Split(q)
<1>1. /\ p \in Text /\ q \in Text /\ Len(p) \in Nat /\ Len(q) \in Nat
      /\ p = << >> <=> Len(p) = 0
      /\ q = << >> <=> Len(q) = 0
      /\ p # << >> => P \in Seq(Ids)
      /\ q # << >> => Q \in Seq(Ids)
  BY EmptySeq, LenProperties DEF Readable, Text
<1>2. compare(v, w) = IF p = << >> \/ q = << >> THEN {Sign(Len(q), 0) - Sign(Len(p), 0)}
                      ELSE prerelease_signs(p, q)
  BY Zenon DEF compare, SameCore
<1>3. SameCore(w, v)
  BY DEF SameCore
<1>4. /\ Precedes(v, w) <=> p # << >> /\ (q = << >> \/ ListBelow(P, Q))
      /\ Precedes(w, v) <=> q # << >> /\ (p = << >> \/ ListBelow(Q, P))
  <2>1. ~CoreBelow(v, w) /\ ~CoreBelow(w, v)
    BY CompareCore
  <2>2. QED
    BY <1>3, <2>1, PrecedesIs, Zenon
<1>5. CASE p = << >> \/ q = << >>
  <2>1. /\ Len(p) = 0 => Sign(Len(p), 0) = 0
        /\ Len(p) # 0 => Sign(Len(p), 0) = 1
        /\ Len(q) = 0 => Sign(Len(q), 0) = 0
        /\ Len(q) # 0 => Sign(Len(q), 0) = 1
    <3>1. \A n \in Nat : (n = 0 => Sign(n, 0) = 0) /\ (n # 0 => Sign(n, 0) = 1)
      BY DEF Sign
    <3>2. QED
      BY <1>1, <3>1, Zenon
  <2>2. compare(v, w) = {Sign(Len(q), 0) - Sign(Len(p), 0)}
    BY <1>2, <1>5
  <2> HIDE DEF p, q, P, Q
  <2>3. CASE p = << >> /\ q = << >>
    <3>1. compare(v, w) = {0}
      BY <1>1, <2>1, <2>2, <2>3
    <3>2. QED
      BY <1>4, <2>3, <3>1 DEF p, q
  <2>4. CASE p = << >> /\ q # << >>
    <3>1. compare(v, w) = {1}
      BY <1>1, <2>1, <2>2, <2>4
    <3>2. QED
      BY <1>4, <2>4, <3>1 DEF p, q
  <2>5. CASE p # << >> /\ q = << >>
    <3>1. compare(v, w) = {-1}
      BY <1>1, <2>1, <2>2, <2>5
    <3>2. QED
      BY <1>4, <2>5, <3>1 DEF p, q
  <2>6. QED
    BY <1>5, <2>3, <2>4, <2>5
<1>6. CASE p # << >> /\ q # << >>
  <2>1. compare(v, w) = prerelease_signs(p, q)
    BY <1>2, <1>6
  <2>2. /\ ListBelow(P, Q) => prerelease_signs(p, q) = {-1}
        /\ ListBelow(Q, P) => prerelease_signs(p, q) = {1}
        /\ P = Q => prerelease_signs(p, q) = {0}
        /\ ListBelow(P, Q) \/ ListBelow(Q, P) \/ P = Q
    BY <1>1, <1>6, PrereleaseOrder
  <2>3. P = Q => p = q
    BY <1>1, SplitInjective
  <2>4. p = q => P = Q
    OBVIOUS
  <2> HIDE DEF p, q, P, Q
  <2>5. QED
    BY <1>4, <1>6, <2>1, <2>2, <2>3, <2>4, Zenon DEF p, q
<1>7. QED
  BY <1>5, <1>6

\* Equal in all but the build.
EqualButBuild(v, w) == [v EXCEPT !.build = w.build] = w

\* compare agrees with Precedes, which leaves out no two versions that differ
\* in more than the build.
LEMMA CompareOrder ==
  ASSUME NEW v, NEW w, Readable(v), Readable(w)
  PROVE  /\ Precedes(v, w) => compare(v, w) = {-1}
         /\ Precedes(w, v) => compare(v, w) = {1}
         /\ EqualButBuild(v, w) => compare(v, w) = {0}
         /\ Precedes(v, w) \/ Precedes(w, v) \/ EqualButBuild(v, w)
         /\ EqualButBuild(v, w) <=> EqualButBuild(w, v)
<1>1. EqualButBuild(v, w) <=> SameCore(v, w) /\ v.prerelease = w.prerelease
  <2>1. [v EXCEPT !.build = w.build] =
          [major |-> v.major, minor |-> v.minor, patch |-> v.patch,
           prerelease |-> v.prerelease, build |-> w.build]
    BY DEF Readable
  <2>2. w = [major |-> w.major, minor |-> w.minor, patch |-> w.patch,
             prerelease |-> w.prerelease, build |-> w.build]
    BY DEF Readable
  <2>3. QED
    BY <2>1, <2>2 DEF EqualButBuild, SameCore
<1>2. EqualButBuild(w, v) <=> SameCore(w, v) /\ w.prerelease = v.prerelease
  <2>1. [w EXCEPT !.build = v.build] =
          [major |-> w.major, minor |-> w.minor, patch |-> w.patch,
           prerelease |-> w.prerelease, build |-> v.build]
    BY DEF Readable
  <2>2. v = [major |-> v.major, minor |-> v.minor, patch |-> v.patch,
             prerelease |-> v.prerelease, build |-> v.build]
    BY DEF Readable
  <2>3. QED
    BY <2>1, <2>2 DEF EqualButBuild, SameCore
<1>3. SameCore(v, w) <=> SameCore(w, v)
  BY DEF SameCore
<1>4. CASE SameCore(v, w)
  BY <1>1, <1>2, <1>3, <1>4, CompareSameCore, Zenon
<1>5. CASE ~SameCore(v, w)
  <2>1. /\ Precedes(v, w) <=> CoreBelow(v, w)
        /\ Precedes(w, v) <=> CoreBelow(w, v)
    BY <1>3, <1>5, PrecedesIs, Zenon
  <2>2. QED
    BY <1>1, <1>2, <1>3, <1>5, <2>1, CompareCore, Zenon
<1>6. QED
  BY <1>4, <1>5

\* What parse gives is such a version.
LEMMA ParseReadable ==
  ASSUME NEW t \in Text, InRange(t), NEW o \in parse(t) \ {Nothing}
  PROVE  Readable(o[1])
<1>1. Acceptable(t)
  BY ParseAccepts
<1>2. PICK c \in CoreText, p \in PreText, b \in Text : Accepted(t, c, p, b)
  BY <1>1 DEF Acceptable
<1>3. PICK x \in Word, y \in Word, z \in Word : Triple(c, x, y, z)
  BY <1>2, Zenon DEF Accepted
<1>4. t = Joined(c, p, b) /\ ValidSuffixes(p, b)
  BY <1>2, Zenon DEF Accepted
<1> DEFINE v == Version(x, y, z, p, b)
<1>5. p \in Text /\ InRange(p) /\ \A k \in DOMAIN Split(c) : InRange(Split(c)[k])
  BY <1>4, InRangeJoined, InRangeParts, Plain
<1>6. /\ parse(t) = {<<v>>}
      /\ Number(x) \in Nat /\ Number(y) \in Nat /\ Number(Patched(z)) \in Nat
  <2>1. /\ parse(t) = {<<v>>}
        /\ Number(x) \in 0 .. MaxInt /\ Number(y) \in 0 .. MaxInt
        /\ Number(Patched(z)) \in 0 .. MaxInt
    BY <1>3, <1>4, <1>5, ParseJoined
  <2>2. 0 .. MaxInt \subseteq Nat
    OBVIOUS
  <2>3. QED
    BY <2>1, <2>2
<1>7. o[1] = v
  <2>1. o = <<v>>
    BY <1>6
  <2> HIDE DEF v
  <2>2. QED
    BY <2>1
<1>8. p # << >> => Split(p) \in Seq(Ids)
  BY <1>4, <1>5, PrereleaseIds DEF ValidSuffixes
<1>9. Readable(v)
  <2>1. /\ v.major = Number(x) /\ v.minor = Number(y) /\ v.patch = Number(Patched(z))
        /\ v.prerelease = p /\ v.build = b
    BY DEF Version
  <2>2. v = [major |-> v.major, minor |-> v.minor, patch |-> v.patch,
             prerelease |-> v.prerelease, build |-> v.build]
    BY DEF Version
  <2> HIDE DEF v
  <2>3. QED
    BY <1>5, <1>6, <1>8, <2>1, <2>2 DEF Readable
<1>10. QED
  BY <1>7, <1>9

\* One answer, the opposite one the other way round.
LEMMA OneAnswer ==
  ASSUME NEW v, NEW w, Readable(v), Readable(w),
         NEW sign, sign = IF Precedes(v, w) THEN -1 ELSE IF Precedes(w, v) THEN 1 ELSE 0
  PROVE  /\ compare(v, w) = {sign} /\ compare(w, v) = {-sign}
         /\ sign = 0 <=> EqualButBuild(v, w)
<1>1. /\ Precedes(v, w) => compare(v, w) = {-1}
      /\ Precedes(w, v) => compare(v, w) = {1}
      /\ EqualButBuild(v, w) => compare(v, w) = {0}
      /\ Precedes(v, w) \/ Precedes(w, v) \/ EqualButBuild(v, w)
      /\ EqualButBuild(v, w) <=> EqualButBuild(w, v)
  BY CompareOrder
<1>2. /\ Precedes(w, v) => compare(w, v) = {-1}
      /\ Precedes(v, w) => compare(w, v) = {1}
      /\ EqualButBuild(w, v) => compare(w, v) = {0}
  BY CompareOrder
<1>3. /\ \A x, y : {x} = {y} => x = y
      /\ -1 # 1 /\ -1 # 0 /\ 1 # 0
  OBVIOUS
<1>4. \A n \in Int : (n = -1 => -n = 1) /\ (n = 1 => -n = -1) /\ (n = 0 => -n = 0)
  OBVIOUS
<1>5. -1 \in Int /\ 1 \in Int /\ 0 \in Int
  OBVIOUS
<1>6. CASE Precedes(v, w)
  <2>1. sign = -1
    BY <1>6, Zenon
  <2>2. -sign = 1
    BY <1>4, <1>5, <2>1, Zenon
  <2>3. QED
    BY <1>1, <1>2, <1>3, <1>6, <2>1, <2>2, Zenon
<1>7. CASE ~Precedes(v, w) /\ Precedes(w, v)
  <2>1. sign = 1
    BY <1>7, Zenon
  <2>2. -sign = -1
    BY <1>4, <1>5, <2>1, Zenon
  <2>3. QED
    BY <1>1, <1>2, <1>3, <1>7, <2>1, <2>2, Zenon
<1>8. CASE ~Precedes(v, w) /\ ~Precedes(w, v)
  <2>1. sign = 0
    BY <1>8, Zenon
  <2>2. -sign = 0
    BY <1>4, <1>5, <2>1, Zenon
  <2>3. QED
    BY <1>1, <1>2, <1>8, <2>1, <2>2, Zenon
<1>9. QED
  BY <1>6, <1>7, <1>8

\* compare is the precedence of semver between any accepted text and any other:
\* one answer, antisymmetric, 0 only between versions that differ in the build.
THEOREM OrderCorrect == VersionsSpec => []OrderIsPrecedence
<1>1. text \in Text => OrderIsPrecedence
  <2> SUFFICES ASSUME text \in Text, InRange(text),
                      NEW o \in parse(text) \ {Nothing},
                      NEW r \in (UNION {parse(t) : t \in Corpus}) \ {Nothing}
               PROVE  LET v == o[1]
                          w == r[1]
                          sign == IF Precedes(v, w) THEN -1 ELSE IF Precedes(w, v) THEN 1 ELSE 0
                      IN  /\ compare(v, w) = {sign} /\ compare(w, v) = {-sign}
                          /\ sign = 0 <=> EqualButBuild(v, w)
    BY DEF OrderIsPrecedence, EqualButBuild
  <2>1. Readable(o[1])
    BY ParseReadable
  <2>2. PICK t \in Corpus : r \in parse(t) \ {Nothing}
    OBVIOUS
  <2>3. t \in Text /\ InRange(t)
    BY TextsAssumption DEF Text
  <2>4. Readable(r[1])
    BY <2>2, <2>3, ParseReadable
  <2>5. QED
    BY <2>1, <2>4, OneAnswer
<1>2. QED
  BY <1>1, Typed, PTL
=============================================================================
