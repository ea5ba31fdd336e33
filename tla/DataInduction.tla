--------------------------- MODULE DataInduction ---------------------------
(***************************************************************************)
(* Induction over the naturals with a set for the induction hypothesis,    *)
(* functions that are defined by recursion over an initial segment, and    *)
(* functions on such a segment as sequences.  The theorems of the library  *)
(* have an operator for a parameter instead.                               *)
(***************************************************************************)
EXTENDS Integers, Sequences, SequenceTheorems, WellFoundedInduction, TLAPS

\* Every set of naturals that is not empty has a least element.
LEMMA LeastNatural ==
  ASSUME NEW T, T \subseteq Nat, T # {}
  PROVE  \E x \in T : \A y \in T : x <= y
<1> DEFINE Less == {ss \in Nat \X Nat : ss[1] < ss[2]}
<1>1. OpToRel(<, Nat) = Less
  BY Zenon DEF OpToRel
<1>2. PICK x \in T : \A y \in T : ~(<<y, x>> \in OpToRel(<, Nat))
  BY WFMin, NatLessThanWellFounded
<1>3. ASSUME NEW y \in T
      PROVE  x <= y
  <2>1. <<y, x>> \notin Less
    BY <1>1, <1>2, Zenon
  <2>2. x \in Nat /\ y \in Nat
    OBVIOUS
  <2>3. SUFFICES ASSUME y < x PROVE FALSE
    BY <2>2
  <2>4. <<y, x>> \in Less
    BY <2>2, <2>3
  <2> QED BY <2>1, <2>4
<1> QED BY <1>3

\* A set with 0 and every successor of its elements has all naturals.
THEOREM SetInduction ==
  ASSUME NEW T, 0 \in T, \A n \in Nat : n \in T => n + 1 \in T
  PROVE  Nat \subseteq T
<1> DEFINE U == {n \in Nat : n \notin T}
<1> SUFFICES ASSUME U # {} PROVE FALSE
  OBVIOUS
<1>1. PICK x \in U : \A y \in U : x <= y
  BY LeastNatural
<1>2. x # 0 /\ x - 1 \in Nat /\ x - 1 < x
  OBVIOUS
<1>3. x - 1 \in T
  BY <1>1, <1>2
<1>4. (x - 1) + 1 \in T
  BY <1>2, <1>3
<1> QED BY <1>2, <1>4

\* A function on 1..n is a sequence.
LEMMA SegmentIsSeq ==
  ASSUME NEW S, NEW n \in Nat, NEW f \in [1..n -> S]
  PROVE  f \in Seq(S) /\ Len(f) = n /\ DOMAIN f = 1..n
<1>1. f \in Seq(S)
  BY SeqDef
<1>2. DOMAIN f = 1..n /\ DOMAIN f = 1..Len(f) /\ Len(f) \in Nat
  BY <1>1, LenProperties
<1> QED BY <1>1, <1>2

\* Appending the same element n times.
LEMMA ConcatRepeated ==
  ASSUME NEW S, NEW s \in Seq(S), NEW x \in S, NEW n \in Nat
  PROVE  LET t == s \o [i \in 1..n |-> x]
         IN  /\ t \in Seq(S) /\ Len(t) = Len(s) + n
             /\ \A i \in 1..(Len(s) + n) : t[i] = IF i <= Len(s) THEN s[i] ELSE x
<1> DEFINE u == [i \in 1..n |-> x]
<1>1. u \in Seq(S) /\ Len(u) = n
  BY SegmentIsSeq
<1>2. \A i \in 1..n : u[i] = x
  OBVIOUS
<1> HIDE DEF u
<1>3. Len(s) \in Nat
  OBVIOUS
<1>4. /\ s \o u \in Seq(S) /\ Len(s \o u) = Len(s) + n
      /\ \A i \in 1..(Len(s) + n) : (s \o u)[i] = IF i <= Len(s) THEN s[i] ELSE u[i - Len(s)]
  BY <1>1, ConcatProperties
<1>5. \A i \in 1..(Len(s) + n) : (s \o u)[i] = IF i <= Len(s) THEN s[i] ELSE x
  BY <1>2, <1>3, <1>4
<1> QED BY <1>4, <1>5 DEF u

\* f iterates step n times, from c.
IsIteration(f, S, c, n, step) ==
  f \in [0..n -> S] /\ f[0] = c /\ \A i \in 1..n : f[i] = step[<<f[i - 1], i>>]

\* A step that maps a value and an index to a value can be iterated.
LEMMA Iteration ==
  ASSUME NEW S, NEW c \in S, NEW n \in Nat, NEW step \in [S \X Nat -> S]
  PROVE  \E f : IsIteration(f, S, c, n, step)
<1> DEFINE T == {m \in Nat : \E f \in [0..m -> S] :
                   f[0] = c /\ \A i \in 1..m : f[i] = step[<<f[i - 1], i>>]}
<1>1. 0 \in T
  <2>1. /\ [k \in 0..0 |-> c] \in [0..0 -> S] /\ [k \in 0..0 |-> c][0] = c
        /\ 1..0 = {}
    OBVIOUS
  <2> QED BY <2>1
<1>2. ASSUME NEW m \in Nat, m \in T
      PROVE  m + 1 \in T
  <2>1. PICK f \in [0..m -> S] : f[0] = c /\ \A i \in 1..m : f[i] = step[<<f[i - 1], i>>]
    BY <1>2
  <2> DEFINE g == [k \in 0..(m + 1) |-> IF k = m + 1 THEN step[<<f[m], m + 1>>] ELSE f[k]]
  <2>2. step[<<f[m], m + 1>>] \in S
    OBVIOUS
  <2>3. g \in [0..(m + 1) -> S]
    BY <2>2
  <2>4. g[0] = c
    BY <2>1
  <2>5. ASSUME NEW i \in 1..(m + 1)
        PROVE  g[i] = step[<<g[i - 1], i>>]
    <3>1. CASE i = m + 1
      <4>1. g[i - 1] = f[m]
        BY <3>1
      <4>2. g[i] = step[<<f[m], m + 1>>]
        BY <3>1
      <4> QED BY <3>1, <4>1, <4>2, Zenon
    <3>2. CASE i # m + 1
      <4>1. i \in 1..m /\ i - 1 \in 0..m
        BY <3>2
      <4>2. g[i] = f[i] /\ g[i - 1] = f[i - 1]
        BY <4>1
      <4> QED BY <2>1, <4>1, <4>2
    <3> QED BY <3>1, <3>2
  <2>6. \E h \in [0..(m + 1) -> S] :
          h[0] = c /\ \A i \in 1..(m + 1) : h[i] = step[<<h[i - 1], i>>]
    <3> HIDE DEF g
    <3> QED BY <2>3, <2>4, <2>5
  <2> QED BY <2>6
<1>3. Nat \subseteq T
  BY <1>1, <1>2, SetInduction
<1>4. \E f \in [0..n -> S] :
        f[0] = c /\ \A i \in 1..n : f[i] = step[<<f[i - 1], i>>]
  BY <1>3
<1> QED BY <1>4 DEF IsIteration

=============================================================================
