---------------------------- MODULE NaturalLemmas ----------------------------
(***************************************************************************)
(* Facts about natural numbers that several of the proofs need.            *)
(***************************************************************************)
EXTENDS TextSizes, FiniteSetTheorems, SequenceTheorems, WellFoundedInduction, TLAPS

-----------------------------------------------------------------------------
(***************************************************************************)
(* Least elements.                                                         *)
(***************************************************************************)
\* Induction on the natural numbers, in the form of their least elements.
LEMMA LeastNatural ==
    ASSUME NEW T \in SUBSET Nat, T # {}
    PROVE  \E x \in T : \A y \in T : x <= y
<1> DEFINE R == {ss \in Nat \X Nat : ss[1] < ss[2]}
<1>1. IsWellFoundedOn(R, Nat)
  BY NatLessThanWellFounded DEF OpToRel
<1>2. PICK x \in T : \A y \in T : ~(<<y, x>> \in R)
  <2> HIDE DEF R
  <2> QED
    BY <1>1, WFMin
<1>3. ASSUME NEW y \in T PROVE ~(y < x)
  <2>1. <<y, x>> \in Nat \X Nat /\ <<y, x>>[1] = y /\ <<y, x>>[2] = x
    OBVIOUS
  <2> QED
    BY <1>2, <2>1
<1> QED
  BY <1>3

\* What holds of zero, and of a number if of the one before, holds up to n.
LEMMA CountUp ==
    ASSUME NEW n \in Nat, NEW P, 0 \in P, \A i \in 1..n : i - 1 \in P => i \in P
    PROVE  0..n \subseteq P
<1> DEFINE T == {i \in 0..n : i \notin P}
<1> SUFFICES ASSUME T # {} PROVE FALSE
  OBVIOUS
<1>1. T \in SUBSET Nat
  OBVIOUS
<1>2. PICK i \in T : \A j \in T : i <= j
  <2> HIDE DEF T
  <2> QED
    BY <1>1, LeastNatural
<1>3. i \in 1..n /\ i - 1 \in 0..n /\ ~(i <= i - 1)
  <2>1. i \in 0..n /\ i # 0
    OBVIOUS
  <2> QED
    BY <2>1
<1>4. i - 1 \in P
  BY <1>2, <1>3
<1> QED
  BY <1>3, <1>4

-----------------------------------------------------------------------------
(***************************************************************************)
(* Ranks.                                                                  *)
(***************************************************************************)
\* The elements of S that come before x.
Below(S, x) == {y \in S : y < x}

\* The elements of a finite set of numbers are ranked from zero, without gaps
\* or ties.
LEMMA Ranks ==
    ASSUME NEW S, S \subseteq Nat, IsFiniteSet(S)
    PROVE  /\ \A x \in S : Cardinality(Below(S, x)) \in 0..(Cardinality(S) - 1)
           /\ \A x, y \in S : Cardinality(Below(S, x)) = Cardinality(Below(S, y)) => x = y
           /\ \A k \in 0..(Cardinality(S) - 1) :
                \E x \in S : Cardinality(Below(S, x)) = k
<1> DEFINE n == Cardinality(S)
           rank == [x \in S |-> Cardinality(Below(S, x))]
<1>1. n \in Nat
  BY FS_CardinalityType
<1>2. ASSUME NEW x \in S
      PROVE  /\ IsFiniteSet(Below(S, x)) /\ Cardinality(Below(S, x)) \in 0..(n - 1)
  <2>1. Below(S, x) \subseteq S /\ x \notin Below(S, x)
    BY DEF Below
  <2>2. /\ IsFiniteSet(Below(S, x)) /\ Cardinality(Below(S, x)) <= n
        /\ Cardinality(Below(S, x)) # n
    BY <2>1, FS_Subset
  <2>3. Cardinality(Below(S, x)) \in Nat
    BY <2>2, FS_CardinalityType
  <2> HIDE DEF n
  <2> QED
    BY <1>1, <2>2, <2>3
<1>3. ASSUME NEW x \in S, NEW y \in S, x < y
      PROVE  Cardinality(Below(S, x)) # Cardinality(Below(S, y))
  <2>1. Below(S, x) \subseteq Below(S, y) /\ x \in Below(S, y) /\ x \notin Below(S, x)
    <3>1. x \in Nat /\ y \in Nat
      OBVIOUS
    <3>2. ASSUME NEW z \in S, z < x PROVE z < y
      <4>1. z \in Nat
        OBVIOUS
      <4> QED
        BY <1>3, <3>1, <3>2, <4>1
    <3>3. ~(x < x)
      BY <3>1
    <3> QED
      BY <1>3, <3>2, <3>3 DEF Below
  <2> QED
    BY <1>2, <2>1, FS_Subset
<1>4. ASSUME NEW x \in S, NEW y \in S,
             Cardinality(Below(S, x)) = Cardinality(Below(S, y))
      PROVE  x = y
  <2>1. ~(x < y) /\ ~(y < x)
    BY <1>3, <1>4
  <2>2. x \in Nat /\ y \in Nat
    OBVIOUS
  <2> QED
    BY <2>1, <2>2
<1>5. rank \in Injection(S, 0..(n - 1))
  <2>1. rank \in [S -> 0..(n - 1)]
    BY <1>2
  <2>2. IsInjective(rank)
    BY <1>4 DEF IsInjective
  <2> QED
    BY <2>1, <2>2 DEF Injection
<1>6. rank \in Surjection(S, 0..(n - 1))
  <2>1. IsFiniteSet(0..(n - 1)) /\ Cardinality(0..(n - 1)) = n
    <3> HIDE DEF n
    <3>1. n - 1 \in Int /\ (0 > n - 1 => n = 0) /\ n - 1 - 0 + 1 = n
      BY <1>1
    <3> QED
      BY <3>1, FS_Interval
  <2> QED
    BY <1>5, <2>1, FS_Injection
<1>7. \A k \in 0..(n - 1) : \E x \in S : rank[x] = k
  BY <1>6 DEF Surjection
<1> QED
  BY <1>2, <1>4, <1>7

-----------------------------------------------------------------------------
(***************************************************************************)
(* Sizes of texts.                                                         *)
(***************************************************************************)
\* The sums are what the recursion says.
LEMMA SumsRun ==
    ASSUME NEW s, Len(s) \in Nat
    PROVE  \A n \in 0..Len(s) :
              Sums(s)[n] = IF n = 0 THEN 0 ELSE Sums(s)[n - 1] + s[n]
<1> DEFINE Runs(f, m) == f = [n \in 0..m |-> IF n = 0 THEN 0 ELSE f[n - 1] + s[n]]
           P == {m \in Nat : \E f : Runs(f, m)}
<1>1. 0 \in P
  <2>1. Runs([n \in 0..0 |-> 0], 0)
    OBVIOUS
  <2> QED
    BY <2>1
<1>2. ASSUME NEW m \in 1..Len(s), m - 1 \in P PROVE m \in P
  <2>1. PICK f : Runs(f, m - 1)
    BY <1>2
  <2>2. Runs([n \in 0..m |-> IF n = m THEN f[m - 1] + s[m] ELSE f[n]], m)
    BY <2>1
  <2> HIDE DEF Runs
  <2> QED
    BY <2>2
<1>3. Len(s) \in P
  <2> HIDE DEF P
  <2>1. \A m \in 1..Len(s) : m - 1 \in P => m \in P
    BY <1>2
  <2>2. 0..Len(s) \subseteq P
    BY <1>1, <2>1, CountUp
  <2> QED
    BY <2>2
<1>4. Sums(s) = CHOOSE f : Runs(f, Len(s))
  BY DEF Sums
<1>5. Runs(Sums(s), Len(s))
  <2> HIDE DEF Runs
  <2> QED
    BY <1>3, <1>4
<1> QED
  BY <1>5

\* The bytes of a text, one character after the other.
LEMMA BytesGrow ==
    /\ Bytes(<<>>) = 0
    /\ \A text \in Seq(Nat) : Bytes(text) \in Nat
    /\ \A text \in Seq(Nat), w \in Nat :
          Append(text, w) \in Seq(Nat) /\ Bytes(Append(text, w)) = Bytes(text) + w
<1>1. Bytes(<<>>) = 0
  BY SumsRun DEF Bytes
<1>2. ASSUME NEW text \in Seq(Nat) PROVE \A n \in 0..Len(text) : Sums(text)[n] \in Nat
  <2> DEFINE P == {n \in 0..Len(text) : Sums(text)[n] \in Nat}
  <2>1. Len(text) \in Nat /\ \A n \in 1..Len(text) : text[n] \in Nat
    BY LenProperties, ElementOfSeq
  <2>2. 0 \in P
    BY <2>1, SumsRun
  <2>3. ASSUME NEW n \in 1..Len(text), n - 1 \in P PROVE n \in P
    <3>1. Sums(text)[n] = Sums(text)[n - 1] + text[n]
      BY <2>1, SumsRun
    <3> QED
      BY <2>1, <2>3, <3>1
  <2>4. 0..Len(text) \subseteq P
    <3> HIDE DEF P
    <3> QED
      BY <2>1, <2>2, <2>3, CountUp
  <2> QED
    BY <2>4
<1>3. ASSUME NEW text \in Seq(Nat), NEW w \in Nat
      PROVE  Append(text, w) \in Seq(Nat) /\ Bytes(Append(text, w)) = Bytes(text) + w
  <2> DEFINE more == Append(text, w)
             P == {n \in 0..Len(text) : Sums(more)[n] = Sums(text)[n]}
  <2>1. /\ more \in Seq(Nat) /\ Len(text) \in Nat /\ Len(more) = Len(text) + 1
        /\ \A n \in 1..Len(text) : more[n] = text[n]
        /\ more[Len(text) + 1] = w
    BY LenProperties
  <2> HIDE DEF more
  <2>2. /\ \A n \in 0..Len(text) :
              Sums(text)[n] = IF n = 0 THEN 0 ELSE Sums(text)[n - 1] + text[n]
        /\ \A n \in 0..(Len(text) + 1) :
              Sums(more)[n] = IF n = 0 THEN 0 ELSE Sums(more)[n - 1] + more[n]
    BY <2>1, SumsRun
  <2>3. 0 \in P
    BY <2>1, <2>2
  <2>4. ASSUME NEW n \in 1..Len(text), n - 1 \in P PROVE n \in P
    BY <2>1, <2>2, <2>4
  <2>5. 0..Len(text) \subseteq P
    <3> HIDE DEF P
    <3> QED
      BY <2>1, <2>3, <2>4, CountUp
  <2>6. Sums(more)[Len(text) + 1] = Sums(text)[Len(text)] + w
    <3>1. Len(text) \in P
      BY <2>1, <2>5
    <3>2. Sums(more)[Len(text) + 1] = Sums(more)[Len(text) + 1 - 1] + more[Len(text) + 1]
      BY <2>1, <2>2
    <3> QED
      BY <2>1, <3>1, <3>2
  <2> QED
    BY <2>1, <2>6 DEF Bytes, more
<1> QED
  BY <1>1, <1>2, <1>3, LenProperties DEF Bytes
=============================================================================
