-------------------------------- MODULE Lemmas -------------------------------
(***************************************************************************)
(* Facts the proofs share: induction over the natural numbers and          *)
(* definition by recursion, stated with sets and functions where the       *)
(* library's theorems have operators, so that first-order provers can use  *)
(* them; and stacks, which the other modules keep as sequences with the top*)
(* last.                                                                   *)
(***************************************************************************)
EXTENDS Integers, Sequences, WellFoundedInduction, TLAPS

\* A set with 0 and with the successor of each of its numbers has all numbers.
LEMMA SetInduction ==
  ASSUME NEW S, 0 \in S, \A n \in Nat : n \in S => n + 1 \in S
  PROVE  Nat \subseteq S
<1> DEFINE T == Nat \ S
<1> SUFFICES ASSUME T # {} PROVE FALSE
  OBVIOUS
<1>1. PICK x \in T : \A y \in T : ~ (<<y, x>> \in OpToRel(<, Nat))
  <2>1. IsWellFoundedOn(OpToRel(<, Nat), Nat)
    BY NatLessThanWellFounded
  <2>2. T \subseteq Nat
    OBVIOUS
  <2> HIDE DEF T
  <2> QED BY <2>1, <2>2, WFMin
<1>2. \A y \in T : ~ (y < x)
  <2>1. \A y \in T : y < x => <<y, x>> \in OpToRel(<, Nat)
    BY DEF OpToRel
  <2> QED BY <1>1, <2>1
<1>3. x # 0 /\ x - 1 \in Nat
  BY <1>2
<1>4. x - 1 \in S
  BY <1>2, <1>3
<1> QED BY <1>2, <1>3, <1>4

\* The functions that take the number of a step and the value before it to the
\* value after it.
Steps(S) == [Nat -> [S -> S]]

\* f has c at 0 and follows step up to n.
Follows(f, S, c, n, step) ==
  f \in [0 .. n -> S] /\ f[0] = c /\ \A i \in 1 .. n : f[i] = step[i][f[i - 1]]

\* A recursion over the numbers up to n has a solution.
LEMMA RecursionExists ==
  ASSUME NEW S, NEW c \in S, NEW n \in Nat, NEW step \in Steps(S)
  PROVE  \E f : Follows(f, S, c, n, step)
<1> USE DEF Follows, Steps
<1> DEFINE Solves(f, m) == Follows(f, S, c, m, step)
           T == {m \in Nat : \E f : Solves(f, m)}
<1>1. 0 \in T
  <2>1. Solves([i \in 0 .. 0 |-> c], 0)
    OBVIOUS
  <2> QED BY <2>1
<1>2. ASSUME NEW m \in Nat, m \in T PROVE m + 1 \in T
  <2>1. PICK f : Solves(f, m)
    BY <1>2
  <2>2. PICK v : v = step[m + 1][f[m]]
    OBVIOUS
  <2>3. PICK g : g = [i \in 0 .. m + 1 |-> IF i = m + 1 THEN v ELSE f[i]]
    OBVIOUS
  <2>4. v \in S
    BY <2>1, <2>2
  <2>5. g \in [0 .. m + 1 -> S] /\ g[m + 1] = v /\ \A i \in 0 .. m : g[i] = f[i]
    BY <2>1, <2>3, <2>4
  <2>6. g[0] = c
    BY <2>1, <2>5
  <2>7. ASSUME NEW i \in 1 .. m + 1 PROVE g[i] = step[i][g[i - 1]]
    <3>1. CASE i = m + 1
      <4>1. g[i - 1] = f[m]
        BY <3>1, <2>5
      <4> QED BY <3>1, <4>1, <2>2, <2>5
    <3>2. CASE i \in 1 .. m
      <4>1. g[i] = f[i] /\ g[i - 1] = f[i - 1]
        BY <3>2, <2>5
      <4> QED BY <3>2, <4>1, <2>1
    <3> QED BY <3>1, <3>2
  <2>8. Solves(g, m + 1)
    BY <2>5, <2>6, <2>7
  <2> HIDE DEF Solves
  <2> QED BY <2>8
<1> HIDE DEF T
<1>3. n \in T
  BY <1>1, <1>2, SetInduction
<1> QED BY <1>3 DEF T

\* A set of numbers between a and b has a greatest one.
LEMMA GreatestExists ==
  ASSUME NEW a \in Int, NEW b \in Int, NEW S, S \subseteq a .. b, S # {}
  PROVE  \E x \in S : \A y \in S : x >= y
<1> DEFINE T == {d \in Nat : (\E x \in S : x >= b - d) => \E x \in S : \A y \in S : x >= y}
<1>1. 0 \in T
  OBVIOUS
<1>2. ASSUME NEW d \in Nat, d \in T PROVE d + 1 \in T
  <2> SUFFICES ASSUME NEW x \in S, x >= b - (d + 1) PROVE \E z \in S : \A y \in S : z >= y
    OBVIOUS
  <2>1. CASE \E y \in S : y >= b - d
    BY <2>1, <1>2
  <2>2. CASE ~ \E y \in S : y >= b - d
    <3>1. \A y \in S : x >= y
      BY <2>2
    <3> QED BY <3>1
  <2> QED BY <2>1, <2>2
<1> HIDE DEF T
<1>3. PICK z : z \in S
  OBVIOUS
<1>4. b - z \in Nat /\ z >= b - (b - z)
  BY <1>3
<1>5. b - z \in T
  BY <1>1, <1>2, <1>4, SetInduction
<1> QED BY <1>3, <1>4, <1>5 DEF T

\* The functions that take a number below b to a later one.
Jumps(a, b) == {next \in [a .. b - 1 -> a .. b] : \A q \in a .. b - 1 : next[q] > q}

\* f has c at b, and before b what step makes of its value further on.
Backs(f, S, c, a, b, next, step) ==
  f \in [a .. b -> S] /\ f[b] = c /\ \A q \in a .. b - 1 : f[q] = step[q][f[next[q]]]

\* A recursion that walks up to b has a solution.
LEMMA WalkExists ==
  ASSUME NEW a \in Int, NEW b \in Int, a <= b, NEW S, NEW c \in S,
         NEW next \in Jumps(a, b), NEW step \in [a .. b - 1 -> [S -> S]]
  PROVE  \E f : Backs(f, S, c, a, b, next, step)
<1>0. /\ next \in [a .. b - 1 -> a .. b] /\ \A q \in a .. b - 1 : next[q] > q
  BY DEF Jumps
<1> DEFINE Solves(f, m) == /\ f \in [m .. b -> S] /\ f[b] = c
                           /\ \A q \in m .. b - 1 : f[q] = step[q][f[next[q]]]
           T == {d \in Nat : b - d >= a => \E f : Solves(f, b - d)}
<1>1. 0 \in T
  <2>1. Solves([q \in b .. b |-> c], b - 0)
    OBVIOUS
  <2> HIDE DEF Solves
  <2> QED BY <2>1
<1>2. ASSUME NEW d \in Nat, d \in T, b - (d + 1) >= a PROVE \E g : Solves(g, b - (d + 1))
  <2>1. PICK m : m = b - (d + 1)
    OBVIOUS
  <2>2. m \in a .. b - 1 /\ m + 1 = b - d /\ b - d >= a
    BY <2>1, <1>2
  <2>3. PICK f : Solves(f, m + 1)
    <3> HIDE DEF Solves
    <3> QED BY <2>2, <1>2
  <2>4. PICK v : v = step[m][f[next[m]]]
    OBVIOUS
  <2>5. next[m] \in m + 1 .. b
    BY <2>2, <1>0
  <2>6. v \in S
    BY <2>2, <2>3, <2>4, <2>5
  <2>7. PICK g : g = [q \in m .. b |-> IF q = m THEN v ELSE f[q]]
    OBVIOUS
  <2>8. g \in [m .. b -> S] /\ g[m] = v /\ \A q \in m + 1 .. b : g[q] = f[q]
    <3>1. \A q \in m .. b : q # m => q \in m + 1 .. b
      BY <2>2
    <3> QED BY <3>1, <2>2, <2>3, <2>6, <2>7
  <2>9. g[b] = c
    BY <2>2, <2>3, <2>8
  <2>10. ASSUME NEW q \in m .. b - 1 PROVE g[q] = step[q][g[next[q]]]
    <3>1. CASE q = m
      BY <3>1, <2>4, <2>5, <2>8
    <3>2. CASE q \in m + 1 .. b - 1
      <4>1. next[q] \in m + 1 .. b /\ q \in m + 1 .. b
        BY <3>2, <2>2, <1>0
      <4>2. g[q] = f[q] /\ g[next[q]] = f[next[q]]
        BY <4>1, <2>8
      <4> QED BY <3>2, <4>2, <2>3
    <3> QED BY <3>1, <3>2, <2>2
  <2>11. Solves(g, m)
    BY <2>8, <2>9, <2>10
  <2> HIDE DEF Solves
  <2> QED BY <2>1, <2>11
<1>3. ASSUME NEW d \in Nat, d \in T PROVE d + 1 \in T
  <2> HIDE DEF Solves
  <2> QED BY <1>2, <1>3
<1> HIDE DEF T
<1>4. b - a \in Nat /\ b - (b - a) = a
  OBVIOUS
<1>5. b - a \in T
  BY <1>1, <1>3, <1>4, SetInduction
<1>6. \E f : Solves(f, a)
  <2> HIDE DEF Solves
  <2> QED BY <1>4, <1>5 DEF T
<1> QED BY <1>6 DEF Backs

-----------------------------------------------------------------------------
(* Stacks. *)

\* What pushing an element does.
LEMMA AppendFacts ==
  ASSUME NEW S, NEW s \in Seq(S), NEW e \in S
  PROVE  /\ Append(s, e) \in Seq(S)
         /\ Len(Append(s, e)) = Len(s) + 1
         /\ \A i \in 1 .. Len(s) : Append(s, e)[i] = s[i]
         /\ Append(s, e)[Len(s) + 1] = e
OBVIOUS

\* What cutting a stack to its lower part does.
LEMMA PrefixFacts ==
  ASSUME NEW S, NEW s \in Seq(S), NEW n \in 0 .. Len(s)
  PROVE  /\ SubSeq(s, 1, n) \in Seq(S)
         /\ Len(SubSeq(s, 1, n)) = n
         /\ \A i \in 1 .. n : SubSeq(s, 1, n)[i] = s[i]
OBVIOUS

\* What popping the top does.
LEMMA PopFacts ==
  ASSUME NEW S, NEW s \in Seq(S), s # <<>>
  PROVE  /\ Len(s) \in Nat \ {0} /\ s[Len(s)] \in S
         /\ SubSeq(s, 1, Len(s) - 1) \in Seq(S)
         /\ Len(SubSeq(s, 1, Len(s) - 1)) = Len(s) - 1
         /\ \A i \in 1 .. Len(s) - 1 : SubSeq(s, 1, Len(s) - 1)[i] = s[i]
<1>1. Len(s) \in Nat \ {0}
  OBVIOUS
<1>2. s[Len(s)] \in S
  BY <1>1
<1>3. Len(s) - 1 \in 0 .. Len(s)
  BY <1>1
<1> QED BY <1>1, <1>2, <1>3, PrefixFacts

\* What putting another element in the place of the top does.
LEMMA ReplaceFacts ==
  ASSUME NEW S, NEW s \in Seq(S), s # <<>>, NEW e \in S
  PROVE  /\ Append(SubSeq(s, 1, Len(s) - 1), e) \in Seq(S)
         /\ Len(Append(SubSeq(s, 1, Len(s) - 1), e)) = Len(s)
         /\ \A i \in 1 .. Len(s) - 1 : Append(SubSeq(s, 1, Len(s) - 1), e)[i] = s[i]
         /\ Append(SubSeq(s, 1, Len(s) - 1), e)[Len(s)] = e
<1> DEFINE p == SubSeq(s, 1, Len(s) - 1)
<1>1. Len(s) \in Nat \ {0} /\ p \in Seq(S) /\ Len(p) = Len(s) - 1 /\ \A i \in 1 .. Len(s) - 1 : p[i] = s[i]
  BY PopFacts
<1> HIDE DEF p
<1>2. /\ Append(p, e) \in Seq(S) /\ Len(Append(p, e)) = Len(p) + 1 /\ Append(p, e)[Len(p) + 1] = e
      /\ \A i \in 1 .. Len(p) : Append(p, e)[i] = p[i]
  BY <1>1, AppendFacts
<1>3. /\ Append(p, e) \in Seq(S) /\ Len(Append(p, e)) = Len(s) /\ Append(p, e)[Len(s)] = e
      /\ \A i \in 1 .. Len(s) - 1 : Append(p, e)[i] = s[i]
  BY <1>1, <1>2
<1> QED BY <1>3 DEF p
=============================================================================
