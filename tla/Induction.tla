------------------------------ MODULE Induction ------------------------------
(***************************************************************************)
(* Induction over the naturals, stated for sets instead of predicates, and *)
(* what it shows about FlattenSeq, which the models use to put names and   *)
(* values together.  The library states induction for an operator, which   *)
(* the provers cannot instantiate; for the set of the numbers that have a  *)
(* property they can.                                                      *)
(***************************************************************************)
EXTENDS Naturals, Sequences, SequencesExt, WellFoundedInduction, TLAPS

LessThan == {p \in Nat \X Nat : p[1] < p[2]}

\* There is no endless descent in the naturals.
LEMMA LessThanIsWellFounded == IsWellFoundedOn(LessThan, Nat)
  BY NatLessThanWellFounded DEF OpToRel, LessThan

\* Every set of naturals that is not empty has a least element.
LEMMA LeastNumber ==
  ASSUME NEW T \in SUBSET Nat, T # {}
  PROVE  \E x \in T : \A y \in T : x <= y
<1>1. PICK x \in T : \A y \in T : <<y, x>> \notin LessThan
  BY LessThanIsWellFounded, WFMin
<1>2. ASSUME NEW y \in T
      PROVE  x <= y
  <2>1. <<y, x>> \in Nat \X Nat /\ <<y, x>>[1] = y /\ <<y, x>>[2] = x
    OBVIOUS
  <2>2. ~(y < x)
    BY <1>1, <2>1 DEF LessThan
  <2> QED
    BY <2>2
<1> QED
  BY <1>2

\* A set with 0 in it that is closed under successor contains all naturals.
LEMMA InductionOnNat ==
  ASSUME NEW T, 0 \in T, \A n \in Nat : n \in T => n + 1 \in T
  PROVE  \A n \in Nat : n \in T
<1> SUFFICES ASSUME NEW k \in Nat, k \notin T
             PROVE  FALSE
  OBVIOUS
<1>1. PICK x \in Nat \ T : \A y \in Nat \ T : x <= y
  BY LeastNumber
<1>2. x - 1 \in Nat /\ x - 1 \in T
  BY <1>1
<1> QED
  BY <1>1, <1>2

-----------------------------------------------------------------------------
(* FlattenSeq. *)

\* What the recursive function inside FlattenSeq is: the sequences up to the
\* i-th, put together.
IsFlattening(f, ss, n) ==
  f = [i \in 1..n |-> IF i = 1 THEN ss[i] ELSE f[i - 1] \o ss[i]]

\* Such functions exist for any length ...
LEMMA FlatteningExists ==
  ASSUME NEW ss
  PROVE  \A n \in Nat : \E f : IsFlattening(f, ss, n)
<1> DEFINE T == {n \in Nat : \E f : IsFlattening(f, ss, n)}
<1>1. 0 \in T
  <2>1. IsFlattening([i \in 1..0 |-> ss[i]], ss, 0)
    BY DEF IsFlattening
  <2> QED
    BY <2>1
<1>2. ASSUME NEW n \in Nat, n \in T
      PROVE  n + 1 \in T
  <2>1. PICK f : IsFlattening(f, ss, n)
    BY <1>2
  <2> DEFINE last == IF n = 0 THEN ss[n + 1] ELSE f[n] \o ss[n + 1]
             g == [i \in 1..(n + 1) |-> IF i = n + 1 THEN last ELSE f[i]]
  <2>2. ASSUME NEW i \in 1..(n + 1)
        PROVE  g[i] = IF i = 1 THEN ss[i] ELSE g[i - 1] \o ss[i]
    <3>1. CASE i = n + 1
      BY <3>1
    <3>2. CASE i # n + 1
      <4>1. i \in 1..n /\ g[i] = f[i] /\ (i # 1 => g[i - 1] = f[i - 1])
        BY <3>2
      <4>2. f[i] = IF i = 1 THEN ss[i] ELSE f[i - 1] \o ss[i]
        BY <2>1, <4>1, Zenon DEF IsFlattening
      <4> QED
        BY <4>1, <4>2
    <3> QED
      BY <3>1, <3>2
  <2>3. IsFlattening(g, ss, n + 1)
    <3> DEFINE h == [i \in 1..(n + 1) |-> IF i = 1 THEN ss[i] ELSE g[i - 1] \o ss[i]]
    <3> HIDE DEF last
    <3>1. \A i \in 1..(n + 1) : g[i] = h[i]
      <4> HIDE DEF g
      <4> QED
        BY <2>2
    <3>2. g = h
      <4>1. g = [i \in 1..(n + 1) |-> g[i]]
        OBVIOUS
      <4>2. h = [i \in 1..(n + 1) |-> h[i]]
        OBVIOUS
      <4> QED
        BY <3>1, <4>1, <4>2, Zenon
    <3> QED
      BY <3>2, Zenon DEF IsFlattening
  <2> HIDE DEF g
  <2> QED
    BY <2>3
<1> HIDE DEF T
<1>3. \A n \in Nat : n \in T
  BY <1>1, <1>2, InductionOnNat
<1> QED
  BY <1>3, Zenon DEF T

\* ... and FlattenSeq is the last value of one.
LEMMA FlattenSeqIsFlattening ==
  ASSUME NEW S, NEW ss \in Seq(Seq(S)), ss # << >>
  PROVE  \E f : IsFlattening(f, ss, Len(ss)) /\ FlattenSeq(ss) = f[Len(ss)]
<1>1. Len(ss) \in Nat /\ Len(ss) # 0
  OBVIOUS
<1> DEFINE f == CHOOSE g : IsFlattening(g, ss, Len(ss))
<1>2. IsFlattening(f, ss, Len(ss))
  BY <1>1, FlatteningExists, Zenon
<1>3. FlattenSeq(ss) = f[Len(ss)]
  BY <1>1, Zenon DEF FlattenSeq, IsFlattening
<1> QED
  BY <1>2, <1>3, Zenon

\* The elements of the whole are those of its parts.
LEMMA FlattenSeqType ==
  ASSUME NEW S, NEW ss \in Seq(Seq(S))
  PROVE  FlattenSeq(ss) \in Seq(S)
<1>1. CASE ss = << >>
  BY <1>1 DEF FlattenSeq
<1>2. CASE ss # << >>
  <2>1. PICK f : IsFlattening(f, ss, Len(ss)) /\ FlattenSeq(ss) = f[Len(ss)]
    BY <1>2, FlattenSeqIsFlattening, Zenon
  <2> DEFINE T == {n \in Nat : n \in 1..Len(ss) => f[n] \in Seq(S)}
  <2>2. \A i \in 1..Len(ss) : f[i] = IF i = 1 THEN ss[i] ELSE f[i - 1] \o ss[i]
    BY <2>1, Zenon DEF IsFlattening
  <2>3. 0 \in T
    OBVIOUS
  <2>4. ASSUME NEW n \in Nat, n \in T
        PROVE  n + 1 \in T
    <3> SUFFICES ASSUME n + 1 \in 1..Len(ss)
                 PROVE  f[n + 1] \in Seq(S)
      OBVIOUS
    <3>1. ss[n + 1] \in Seq(S)
      OBVIOUS
    <3>2. CASE n = 0
      BY <2>2, <3>1, <3>2
    <3>3. CASE n # 0
      <4>1. n + 1 # 1 /\ (n + 1) - 1 = n
        BY <3>3
      <4>2. f[n + 1] = f[n] \o ss[n + 1]
        BY <2>2, <4>1, Zenon
      <4>3. f[n] \in Seq(S)
        BY <2>4, <3>3
      <4> QED
        BY <3>1, <4>2, <4>3
    <3> QED
      BY <3>2, <3>3
  <2>5. \A n \in Nat : n \in T
    <3> HIDE DEF T
    <3> QED
      BY <2>3, <2>4, InductionOnNat
  <2>6. Len(ss) \in Nat /\ Len(ss) \in 1..Len(ss)
    BY <1>2
  <2> QED
    BY <2>1, <2>5, <2>6
<1> QED
  BY <1>1, <1>2
=============================================================================
