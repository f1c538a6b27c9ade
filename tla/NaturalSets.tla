----------------------------- MODULE NaturalSets -----------------------------
(* Min and Max of FiniteSetsExt are what they should be on sets of naturals:
   the facts every proof about "the last op", "the last writer" or "the next
   range" rests on.  And FlattenSeq of SequencesExt joins its sequences one by
   one, which streams and key encodings rest on.                           *)
EXTENDS Integers, FiniteSetsExt, SequencesExt, SequenceTheorems, WellFoundedInduction, TLAPS

(* Min finds the least element of any set of naturals. *)
LEMMA MinNat ==
    ASSUME NEW S \in SUBSET Nat, S # {}
    PROVE  Min(S) \in S /\ \A y \in S : Min(S) <= y
<1> DEFINE R == OpToRel(<, Nat)
<1>1. PICK x \in S : \A y \in S : ~(<<y, x>> \in R)
  BY NatLessThanWellFounded, WFMin, Zenon
<1>2. \A y \in S : x <= y
  <2> TAKE y \in S
  <2>1. <<y, x>> \in Nat \X Nat
    OBVIOUS
  <2>2. ~(<<y, x>>[1] < <<y, x>>[2])
    BY <1>1, <2>1 DEF R, OpToRel
  <2> QED
    BY <2>2
<1> QED
  BY <1>2 DEF Min

(* Induction: a set with 0 and all successors holds every natural. *)
LEMMA Inductive ==
    ASSUME NEW S, 0 \in S, \A n \in Nat : n \in S => n + 1 \in S
    PROVE  \A n \in Nat : n \in S
<1> DEFINE T == {n \in Nat : n \notin S}
<1> SUFFICES ASSUME T # {} PROVE FALSE
  OBVIOUS
<1>1. T \in SUBSET Nat
  OBVIOUS
<1>2. Min(T) \in T /\ \A y \in T : Min(T) <= y
  <2> HIDE DEF T
  <2> QED
    BY <1>1, MinNat
<1>3. Min(T) \in Nat /\ Min(T) # 0 /\ Min(T) \notin S
  BY <1>2
<1>4. Min(T) - 1 \in Nat /\ Min(T) - 1 \in S
  BY <1>2, <1>3
<1> QED
  BY <1>3, <1>4

(* Max finds the largest element of a bounded one. *)
LEMMA MaxNat ==
    ASSUME NEW m \in Nat, NEW S \in SUBSET (0 .. m), S # {}
    PROVE  Max(S) \in S /\ \A y \in S : y <= Max(S)
<1> DEFINE T == {n \in 0 .. m : m - n \in S}
<1>1. PICK s \in S : s \in 0 .. m
  OBVIOUS
<1>2. m - s \in 0 .. m /\ m - (m - s) = s
  BY <1>1
<1>3. T \in SUBSET Nat /\ T # {}
  BY <1>1, <1>2
<1>4. Min(T) \in T /\ \A y \in T : Min(T) <= y
  BY <1>3, MinNat
<1>5. \A y \in S : m - y \in T
  OBVIOUS
<1>6. \A y \in S : m - Min(T) >= y
  BY <1>4, <1>5
<1> QED
  BY <1>4, <1>6 DEF Max

------------------------------------------------------------------------------
(* FlattenSeq, one sequence at a time. *)

Cat(a, b) == a \o b

LEMMA CatType ==
    ASSUME NEW X, NEW a \in Seq(X), NEW b \in Seq(X)
    PROVE  Cat(a, b) \in Seq(X) /\ Cat(<<>>, a) = a
  BY ConcatProperties, ConcatEmptySeq DEF Cat

(* The running concatenations of the first n sequences of s. *)
Joins(X, s, n, g) ==
    /\ g \in [0 .. n -> Seq(X)] /\ g[0] = <<>>
    /\ \A i \in 1 .. n : g[i] = Cat(g[i - 1], s[i])

LEMMA JoinsExist ==
    ASSUME NEW X, NEW n \in Nat, NEW s, \A i \in 1 .. n : s[i] \in Seq(X)
    PROVE  \E g : Joins(X, s, n, g)
<1> DEFINE S == {m \in Nat : m <= n => \E g : Joins(X, s, m, g)}
<1>1. 0 \in S
  <2>1. Joins(X, s, 0, [i \in 0 .. 0 |-> <<>>])
    BY EmptySeq DEF Joins
  <2> QED
    BY <2>1
<1>2. ASSUME NEW m \in Nat, m \in S PROVE m + 1 \in S
  <2> SUFFICES ASSUME m + 1 <= n PROVE \E g : Joins(X, s, m + 1, g)
    OBVIOUS
  <2>1. PICK g : Joins(X, s, m, g)
    BY <1>2
  <2> DEFINE h == [i \in 0 .. m + 1 |-> IF i <= m THEN g[i] ELSE Cat(g[m], s[m + 1])]
  <2>2. g[m] \in Seq(X) /\ s[m + 1] \in Seq(X)
    BY <2>1 DEF Joins
  <2>3. Cat(g[m], s[m + 1]) \in Seq(X)
    BY <2>2, CatType
  <2>4. h \in [0 .. m + 1 -> Seq(X)]
    <3> SUFFICES ASSUME NEW i \in 0 .. m + 1 PROVE (IF i <= m THEN g[i] ELSE Cat(g[m], s[m + 1])) \in Seq(X)
      OBVIOUS
    <3>1. i <= m => g[i] \in Seq(X)
      BY <2>1 DEF Joins
    <3> QED
      BY <2>3, <3>1
  <2>5. h[0] = <<>>
    BY <2>1 DEF Joins
  <2>6. ASSUME NEW i \in 1 .. m + 1 PROVE h[i] = Cat(h[i - 1], s[i])
    <3>1. CASE i <= m
      BY <2>1, <3>1 DEF Joins
    <3>2. CASE i = m + 1
      BY <3>2
    <3> QED
      BY <3>1, <3>2
  <2>7. Joins(X, s, m + 1, h)
    <3> HIDE DEF h
    <3> QED
      BY <2>4, <2>5, <2>6 DEF Joins
  <2> QED
    BY <2>7
<1>3. \A m \in Nat : m \in S
  <2> HIDE DEF S
  <2> QED
    BY <1>1, <1>2, Inductive
<1> QED
  BY <1>3

LEMMA FlattenIs ==
    ASSUME NEW X, NEW n \in Nat, NEW s \in [1 .. n -> Seq(X)], NEW g, Joins(X, s, n, g)
    PROVE  FlattenSeq(s) = g[n]
<1>1. s \in Seq(Seq(X)) /\ Len(s) = n
  OBVIOUS
<1>2. CASE n = 0
  <2>1. s = <<>>
    BY <1>1, <1>2
  <2> QED
    BY <1>1, <1>2, <2>1 DEF FlattenSeq, Joins
<1>3. CASE n # 0
  <2> DEFINE Entry(f, i) == IF i = 1 THEN s[i] ELSE Cat(f[i - 1], s[i])
             Rec(f) == f = [i \in 1 .. n |-> Entry(f, i)]
             C == [i \in 1 .. n |-> g[i]]
  <2>0. g[1] = s[1]
    <3>1. g[1] = Cat(<<>>, s[1]) /\ s[1] \in Seq(X)
      BY <1>3 DEF Joins
    <3> QED
      BY <3>1, CatType
  <2>1. Rec(C)
    <3>1. ASSUME NEW i \in 1 .. n PROVE g[i] = Entry(C, i)
      <4>1. CASE i = 1
        BY <2>0, <4>1
      <4>2. CASE i # 1
        <5>1. g[i] = Cat(g[i - 1], s[i]) /\ i - 1 \in 1 .. n
          BY <4>2 DEF Joins
        <5>2. C[i - 1] = g[i - 1]
          BY <5>1
        <5> HIDE DEF C
        <5> QED
          BY <4>2, <5>1, <5>2
      <4> QED
        BY <4>1, <4>2
    <3> HIDE DEF Entry
    <3> QED
      BY <3>1
  <2>2. PICK f : Rec(f) /\ FlattenSeq(s) = f[n]
    <3> DEFINE fl == CHOOSE f : Rec(f)
    <3>1. Rec(fl)
      <4> HIDE DEF Rec, C
      <4> QED
        BY <2>1
    <3>2. FlattenSeq(s) = fl[n]
      BY <1>1, <1>3 DEF FlattenSeq, Cat
    <3> HIDE DEF fl, Rec
    <3> QED
      BY <3>1, <3>2
  <2>3. \A i \in 1 .. n : f[i] = Entry(f, i)
    <3> HIDE DEF Entry
    <3> QED
      BY <2>2
  <2> DEFINE S == {m \in Nat : m + 1 \in 1 .. n => f[m + 1] = g[m + 1]}
  <2>4. 0 \in S
    BY <2>0, <2>3
  <2>5. ASSUME NEW m \in Nat, m \in S PROVE m + 1 \in S
    <3> SUFFICES ASSUME m + 2 \in 1 .. n PROVE f[m + 2] = g[m + 2]
      OBVIOUS
    <3>1. f[m + 1] = g[m + 1]
      BY <2>5
    <3>2. f[m + 2] = Cat(f[m + 1], s[m + 2])
      BY <2>3
    <3>3. g[m + 2] = Cat(g[m + 1], s[m + 2])
      BY DEF Joins
    <3> QED
      BY <3>1, <3>2, <3>3
  <2>6. \A m \in Nat : m \in S
    <3> HIDE DEF S
    <3> QED
      BY <2>4, <2>5, Inductive
  <2>7. PICK m \in Nat : n = m + 1
    <3>1. n - 1 \in Nat /\ n = (n - 1) + 1
      BY <1>3
    <3> QED
      BY <3>1
  <2>8. f[n] = g[n]
    <3>1. m \in S /\ m + 1 \in 1 .. n
      BY <2>6, <2>7
    <3> QED
      BY <2>7, <3>1
  <2> QED
    BY <2>2, <2>8
<1> QED
  BY <1>2, <1>3

(* One sequence begins another: it is all of its first elements. *)
Begins(p, s) == Len(p) <= Len(s) /\ \A i \in 1 .. Len(p) : p[i] = s[i]

LEMMA PrefixIs ==
    ASSUME NEW X, NEW p \in Seq(X), NEW s \in Seq(X)
    PROVE  IsPrefix(p, s) <=> Begins(p, s)
<1>1. Len(p) \in Nat /\ Len(s) \in Nat
  BY LenProperties
<1>2. SubSeq(p, 1, Len(p)) = p
  BY SubSeqFull
<1>3. CASE Len(p) <= Len(s)
  <2>0. \A i \in 1 .. Len(p) : s[i] \in X
    BY <1>1, <1>3, ElementOfSeq
  <2>1. /\ SubSeq(s, 1, Len(p)) \in Seq(X) /\ Len(SubSeq(s, 1, Len(p))) = Len(p)
        /\ \A i \in 1 .. Len(p) : SubSeq(s, 1, Len(p))[i] = s[i]
    <3>1. /\ SubSeq(s, 1, Len(p)) \in Seq(X)
          /\ Len(SubSeq(s, 1, Len(p))) = IF 1 <= Len(p) THEN Len(p) - 1 + 1 ELSE 0
          /\ \A i \in 1 .. Len(p) - 1 + 1 : SubSeq(s, 1, Len(p))[i] = s[1 + i - 1]
      BY <1>1, <2>0, SubSeqProperties
    <3> QED
      BY <1>1, <3>1
  <2>2. SubSeq(s, 1, Len(p)) = p <=> \A i \in 1 .. Len(p) : p[i] = s[i]
    BY <1>1, <2>1, SeqEqual
  <2> QED
    BY <1>2, <1>3, <2>2 DEF IsPrefix, Begins
<1> QED
  BY <1>1, <1>3 DEF IsPrefix, Begins

LEMMA EqualSeqs ==
    ASSUME NEW X, NEW s \in Seq(X), NEW t \in Seq(X), Begins(s, t), Begins(t, s)
    PROVE  s = t
<1>1. Len(s) = Len(t) /\ \A i \in 1 .. Len(s) : s[i] = t[i]
  BY LenProperties DEF Begins
<1> QED
  BY <1>1, SeqEqual

LEMMA BeginsSelf == ASSUME NEW X, NEW a \in Seq(X) PROVE Begins(a, a)
  BY LenProperties DEF Begins

LEMMA BeginsTrans ==
    ASSUME NEW X, NEW a \in Seq(X), NEW b \in Seq(X), NEW c \in Seq(X), Begins(a, b), Begins(b, c)
    PROVE  Begins(a, c)
  BY LenProperties DEF Begins
==============================================================================
