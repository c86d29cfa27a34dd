----------------------------- MODULE InductionLemmas -----------------------------
(***************************************************************************)
(* Induction over the natural numbers, and what it says of the operators   *)
(* the models take from the community modules: Max chooses a greatest      *)
(* element, FlattenSeq joins sequences to a sequence.                      *)
(*                                                                         *)
(* The induction theorems of the library are about an operator P(_); here  *)
(* the property is a set, and induction follows from the fact that < is    *)
(* well-founded on Nat.                                                    *)
(***************************************************************************)
EXTENDS SequencesExt, FiniteSetsExt, SequenceTheorems, WellFoundedInduction, TLAPS

LEMMA LeastElement ==
  ASSUME NEW T, T \subseteq Nat, T # {}
  PROVE  \E least \in T : \A t \in T : least <= t
<1> DEFINE R == OpToRel(<, Nat)
<1>1. \E least \in T : \A t \in T : <<t, least>> \notin R
  <2>1. IsWellFoundedOn(R, Nat)
    BY NatLessThanWellFounded
  <2> HIDE DEF R
  <2>2. QED
    BY <2>1, WFMin
<1>2. PICK least \in T : \A t \in T : <<t, least>> \notin R
  BY <1>1
<1>3. ASSUME NEW t \in T
      PROVE  least <= t
  <2>1. ~(t < least)
    BY <1>2 DEF OpToRel
  <2>2. t \in Nat /\ least \in Nat
    OBVIOUS
  <2>3. QED
    BY <2>1, <2>2
<1>4. QED
  BY <1>3

LEMMA Induction ==
  ASSUME NEW S, 0 \in S, \A n \in Nat : n \in S => n + 1 \in S
  PROVE  Nat \subseteq S
<1> SUFFICES ASSUME Nat \ S # {}
             PROVE  FALSE
  OBVIOUS
<1>1. PICK least \in Nat \ S : \A t \in Nat \ S : least <= t
  BY LeastElement
<1>2. least # 0 /\ least - 1 \in Nat
  BY <1>1
<1>3. least - 1 \in S
  BY <1>1, <1>2
<1>4. QED
  BY <1>1, <1>2, <1>3

LEMMA MaxIsGreatest ==
  ASSUME NEW n \in Nat, NEW T, T \subseteq 0..n, T # {}
  PROVE  Max(T) \in T /\ \A t \in T : t <= Max(T)
<1> DEFINE Below == {x \in 0..n : n - x \in T}
<1>1. Below \subseteq Nat /\ Below # {}
  <2>1. PICK t \in T : TRUE
    OBVIOUS
  <2>2. n - t \in Below
    BY <2>1
  <2>3. QED
    BY <2>2
<1>2. PICK least \in Below : \A x \in Below : least <= x
  BY <1>1, LeastElement
<1>3. ASSUME NEW t \in T
      PROVE  n - least >= t
  <2>1. n - t \in Below
    OBVIOUS
  <2>2. t \in 0..n /\ least \in 0..n
    OBVIOUS
  <2>3. QED
    BY <1>2, <2>1, <2>2
<1>4. n - least \in T
  OBVIOUS
<1>5. QED
  BY <1>3, <1>4 DEF Max

-------------------------------------------------------------------------------
(***************************************************************************)
(* A function that is defined from the back: its value at k from the one   *)
(* at k - 1.                                                               *)
(***************************************************************************)

\* FlattenSeq unfolds to the function its definition chooses.
LEMMA FlattenSeqSteps ==
  ASSUME NEW seqs, Len(seqs) \in Nat \ {0}
  PROVE  \E flatten :
           /\ FlattenSeq(seqs) = flatten[Len(seqs)]
           /\ \A i \in 1..Len(seqs) :
                flatten[i] = IF i = 1 THEN seqs[i] ELSE flatten[i - 1] \o seqs[i]
<1> DEFINE Join(f, i) == IF i = 1 THEN seqs[i] ELSE f[i - 1] \o seqs[i]
           Joins(f, n) == f = [i \in 1..n |-> Join(f, i)]
           Done == {n \in Nat : \E f : Joins(f, n)}
<1>1. 0 \in Done
  <2>1. Joins([i \in 1..0 |-> seqs[i]], 0)
    OBVIOUS
  <2>2. QED
    BY <2>1
<1>2. ASSUME NEW n \in Nat, n \in Done
      PROVE  n + 1 \in Done
  <2>1. PICK f : Joins(f, n)
    BY <1>2
  <2> DEFINE g == [i \in 1..(n + 1) |-> Join(f, i)]
  <2>2. \A i \in 1..n : f[i] = Join(f, i)
    BY <2>1
  <2>3. \A i \in 1..(n + 1) : Join(g, i) = Join(f, i)
    <3>1. \A i \in 1..(n + 1) : i # 1 => i - 1 \in 1..n
      OBVIOUS
    <3>2. \A i \in 1..n : g[i] = f[i]
      <4>1. \A i \in 1..n : g[i] = Join(f, i)
        OBVIOUS
      <4>2. QED
        BY <2>2, <4>1
    <3> HIDE DEF g
    <3>3. QED
      BY <3>1, <3>2
  <2>4. Joins(g, n + 1)
    <3>1. g = [i \in 1..(n + 1) |-> Join(f, i)]
      OBVIOUS
    <3> HIDE DEF g, Join
    <3>2. QED
      BY <2>3, <3>1
  <2> HIDE DEF g, Joins
  <2>5. QED
    BY <2>4
<1>3. Nat \subseteq Done
  <2> HIDE DEF Done
  <2>1. QED
    BY <1>1, <1>2, Induction
<1> DEFINE flatten == CHOOSE f : Joins(f, Len(seqs))
<1>4. Joins(flatten, Len(seqs))
  <2>1. Len(seqs) \in Done
    <3> HIDE DEF Done
    <3>1. QED
      BY <1>3
  <2>2. QED
    BY <2>1
<1>5. FlattenSeq(seqs) = flatten[Len(seqs)]
  BY DEF FlattenSeq
<1> HIDE DEF flatten
<1>6. \A i \in 1..Len(seqs) : flatten[i] = Join(flatten, i)
  BY <1>4
<1>7. QED
  BY <1>5, <1>6

LEMMA FlattenSeqType ==
  ASSUME NEW S, NEW seqs \in Seq(Seq(S))
  PROVE  FlattenSeq(seqs) \in Seq(S)
<1>1. ASSUME Len(seqs) # 0
      PROVE  FlattenSeq(seqs) \in Seq(S)
  <2>1. PICK flatten :
          /\ FlattenSeq(seqs) = flatten[Len(seqs)]
          /\ \A i \in 1..Len(seqs) :
               flatten[i] = IF i = 1 THEN seqs[i] ELSE flatten[i - 1] \o seqs[i]
    <3>1. Len(seqs) \in Nat \ {0}
      BY <1>1
    <3>2. QED
      BY <3>1, FlattenSeqSteps, Zenon
  <2> DEFINE Typed == {n \in Nat : n < Len(seqs) => flatten[n + 1] \in Seq(S)}
  <2>2. 0 \in Typed
    BY <2>1
  <2>3. ASSUME NEW n \in Nat, n \in Typed
        PROVE  n + 1 \in Typed
    <3> DEFINE i == (n + 1) + 1
    <3>1. ASSUME n + 1 < Len(seqs)
          PROVE  flatten[i] \in Seq(S)
      <4>1. i \in 1..Len(seqs) /\ i # 1 /\ i - 1 = n + 1
        BY <3>1
      <4>2. flatten[n + 1] \in Seq(S)
        BY <2>3, <3>1
      <4> HIDE DEF i
      <4>3. flatten[i] = flatten[n + 1] \o seqs[i]
        BY <2>1, <4>1
      <4>4. QED
        BY <4>1, <4>2, <4>3
    <3>2. QED
      BY <3>1
  <2>4. Len(seqs) - 1 \in Typed
    <3> HIDE DEF Typed
    <3>1. Nat \subseteq Typed
      BY <2>2, <2>3, Induction
    <3>2. QED
      BY <1>1, <3>1
  <2>5. QED
    BY <1>1, <2>1, <2>4
<1>2. QED
  BY <1>1 DEF FlattenSeq

\* Of sequences of three elements, it is where it would be looked for.
LEMMA FlattenTriples ==
  ASSUME NEW S, NEW seqs \in Seq(Seq(S)), \A i \in 1..Len(seqs) : Len(seqs[i]) = 3
  PROVE  /\ Len(FlattenSeq(seqs)) = 3 * Len(seqs)
         /\ \A i \in 1..Len(seqs), j \in 1..3 : FlattenSeq(seqs)[3 * (i - 1) + j] = seqs[i][j]
<1>1. ASSUME Len(seqs) # 0
      PROVE  /\ Len(FlattenSeq(seqs)) = 3 * Len(seqs)
             /\ \A i \in 1..Len(seqs), j \in 1..3 : FlattenSeq(seqs)[3 * (i - 1) + j] = seqs[i][j]
  <2>1. PICK flatten :
          /\ FlattenSeq(seqs) = flatten[Len(seqs)]
          /\ \A i \in 1..Len(seqs) :
               flatten[i] = IF i = 1 THEN seqs[i] ELSE flatten[i - 1] \o seqs[i]
    <3>1. Len(seqs) \in Nat \ {0}
      BY <1>1
    <3>2. QED
      BY <3>1, FlattenSeqSteps, Zenon
  <2> DEFINE Laid(s, n) == /\ s \in Seq(S) /\ Len(s) = 3 * n
                           /\ \A i \in 1..n, j \in 1..3 : s[3 * (i - 1) + j] = seqs[i][j]
             Good == {n \in Nat : n < Len(seqs) => Laid(flatten[n + 1], n + 1)}
  <2>2. 0 \in Good
    <3>1. flatten[1] = seqs[1] /\ seqs[1] \in Seq(S) /\ Len(seqs[1]) = 3
      BY <1>1, <2>1
    <3>2. \A i \in 1..1, j \in 1..3 : i = 1 /\ 3 * (i - 1) + j = j
      OBVIOUS
    <3>3. Laid(flatten[1], 1)
      BY <3>1, <3>2
    <3>4. QED
      BY <3>3
  <2>3. ASSUME NEW n \in Nat, n \in Good
        PROVE  n + 1 \in Good
    <3> DEFINE k == (n + 1) + 1
               s == flatten[n + 1]
               t == flatten[k]
    <3>1. ASSUME n + 1 < Len(seqs)
          PROVE  Laid(t, k)
      <4>1. k \in 1..Len(seqs) /\ k # 1 /\ k - 1 = n + 1
        BY <3>1
      <4>2. Laid(s, n + 1)
        BY <2>3, <3>1
      <4>3. s \in Seq(S) /\ Len(s) = 3 * (n + 1)
            /\ \A i \in 1..(n + 1), j \in 1..3 : s[3 * (i - 1) + j] = seqs[i][j]
        BY <4>2
      <4>4. seqs[k] \in Seq(S) /\ Len(seqs[k]) = 3
        <5> HIDE DEF k
        <5>1. QED
          BY <4>1
      <4>5. t = s \o seqs[k]
        <5> HIDE DEF k
        <5>1. t = flatten[k - 1] \o seqs[k]
          BY <2>1, <4>1
        <5>2. QED
          BY <4>1, <5>1
      <4>6. 3 * k = 3 * (n + 1) + 3
        OBVIOUS
      <4> HIDE DEF s, t, k
      <4>7. t \in Seq(S) /\ Len(t) = 3 * k
        <5>1. t \in Seq(S) /\ Len(t) = Len(s) + Len(seqs[k])
          BY <4>3, <4>4, <4>5, ConcatProperties, Zenon
        <5>2. QED
          BY <4>3, <4>4, <4>6, <5>1
      <4>8. ASSUME NEW i \in 1..k, NEW j \in 1..3
            PROVE  t[3 * (i - 1) + j] = seqs[i][j]
        <5>1. CASE i = k
          <6>1. 3 * (i - 1) + j = 3 * (n + 1) + j
            BY <4>1, <5>1
          <6>2. 3 * (i - 1) + j \in (Len(s) + 1)..(Len(s) + 3) /\ 3 * (i - 1) + j - Len(s) = j
            BY <4>3, <6>1
          <6>3. QED
            BY <4>3, <4>4, <4>5, <5>1, <6>2
        <5>2. CASE i # k
          <6>1. i \in 1..(n + 1)
            BY <4>1, <5>2
          <6>2. 3 * (i - 1) + j \in 1..Len(s)
            BY <4>3, <6>1
          <6>3. t[3 * (i - 1) + j] = s[3 * (i - 1) + j]
            BY <4>3, <4>4, <4>5, <6>2
          <6>4. QED
            BY <4>3, <6>1, <6>3
        <5>3. QED
          BY <5>1, <5>2
      <4>9. QED
        BY <4>7, <4>8
    <3>2. QED
      BY <3>1
  <2>4. Len(seqs) - 1 \in Good
    <3> HIDE DEF Good
    <3>1. Nat \subseteq Good
      BY <2>2, <2>3, Induction
    <3>2. QED
      BY <1>1, <3>1
  <2>5. Laid(FlattenSeq(seqs), Len(seqs))
    BY <1>1, <2>1, <2>4
  <2>6. QED
    BY <2>5
<1>2. ASSUME Len(seqs) = 0
      PROVE  FlattenSeq(seqs) = <<>>
  BY <1>2 DEF FlattenSeq
<1>3. QED
  BY <1>1, <1>2
================================================================================
