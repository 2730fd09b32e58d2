---------------------------- MODULE SequenceFacts ----------------------------
(***************************************************************************)
(* Facts about sequences, their sets of elements and the greatest and      *)
(* least elements of sets that the proofs of several modules cite.         *)
(***************************************************************************)
EXTENDS Integers, Sequences, SequencesExt, FiniteSets, FiniteSetTheorems, TLAPS

LEMMA InToSet ==
  ASSUME NEW S, NEW q \in Seq(S), NEW x
  PROVE  x \in ToSet(q) <=> \E i \in 1..Len(q) : q[i] = x
BY DEF ToSet

LEMMA ToSetAppend ==
  ASSUME NEW S, NEW q \in Seq(S), NEW m \in S
  PROVE  Append(q, m) \in Seq(S) /\ ToSet(Append(q, m)) = ToSet(q) \cup {m}
<1> DEFINE r == Append(q, m)
<1>1. /\ r \in Seq(S) /\ Len(q) \in Nat /\ Len(r) = Len(q) + 1
      /\ r[Len(r)] = m /\ \A i \in 1..Len(q) : r[i] = q[i]
  OBVIOUS
<1> HIDE DEF r
<1>2. ASSUME NEW x PROVE x \in ToSet(r) <=> x \in ToSet(q) \cup {m}
  <2>1. (\E i \in 1..Len(r) : r[i] = x) <=> x = m \/ \E i \in 1..Len(q) : q[i] = x
    BY <1>1
  <2> QED
    BY <1>1, <2>1, InToSet
<1> QED
  BY <1>1, <1>2 DEF r

LEMMA ToSetTail ==
  ASSUME NEW S, NEW q \in Seq(S), q # <<>>
  PROVE  /\ Tail(q) \in Seq(S) /\ Head(q) \in S
         /\ ToSet(q) = ToSet(Tail(q)) \cup {Head(q)}
<1> DEFINE r == Tail(q)
<1>1. /\ r \in Seq(S) /\ Len(r) \in Nat /\ Len(q) = Len(r) + 1 /\ Head(q) \in S
      /\ Head(q) = q[1] /\ \A i \in 1..Len(r) : r[i] = q[i+1]
  OBVIOUS
<1> HIDE DEF r
<1>2. ASSUME NEW x PROVE x \in ToSet(q) <=> x \in ToSet(r) \cup {Head(q)}
  <2>1. ASSUME NEW i \in 1..Len(q), q[i] = x, x # Head(q)
        PROVE  \E j \in 1..Len(r) : r[j] = x
    <3>1. i - 1 \in 1..Len(r) /\ i = (i - 1) + 1
      BY <1>1, <2>1
    <3>2. r[i - 1] = x
      BY <1>1, <2>1, <3>1
    <3> QED
      BY <3>1, <3>2
  <2>2. ASSUME NEW i \in 1..Len(r), r[i] = x
        PROVE  \E j \in 1..Len(q) : q[j] = x
    <3>1. i + 1 \in 1..Len(q)
      BY <1>1, <2>2
    <3> QED
      BY <1>1, <2>2, <3>1
  <2>3. 1 \in 1..Len(q)
    BY <1>1
  <2> QED
    BY <1>1, <2>1, <2>2, <2>3, InToSet
<1> QED
  BY <1>1, <1>2 DEF r

LEMMA ToSetPut ==
  ASSUME NEW S, NEW q \in Seq(S), NEW m \in S
  PROVE  <<m>> \o q \in Seq(S) /\ ToSet(<<m>> \o q) = ToSet(q) \cup {m}
<1> DEFINE r == <<m>> \o q
<1>1. r \in Seq(S) /\ r # <<>> /\ Head(r) = m /\ Tail(r) = q
  OBVIOUS
<1> QED
  BY <1>1, ToSetTail

\* A sequence has no more different elements than places.
LEMMA ToSetSize ==
  ASSUME NEW S, NEW q \in Seq(S)
  PROVE  IsFiniteSet(ToSet(q)) /\ Cardinality(ToSet(q)) <= Len(q)
<1>1. Len(q) \in Nat
  OBVIOUS
<1>2. IsFiniteSet(1..Len(q)) /\ Cardinality(1..Len(q)) = Len(q)
  BY SMTT(30), <1>1, FS_Interval
<1>3. q \in [1..Len(q) -> ToSet(q)] /\ ToSet(q) = {q[i] : i \in 1..Len(q)}
  BY DEF ToSet
<1>4. q \in Surjection(1..Len(q), ToSet(q))
  BY <1>3 DEF Surjection
<1> QED
  BY <1>2, <1>4, FS_Surjection

LEMMA ToSetConcat ==
  ASSUME NEW S, NEW q \in Seq(S), NEW r \in Seq(S)
  PROVE  q \o r \in Seq(S) /\ ToSet(q \o r) = ToSet(q) \cup ToSet(r)
<1> DEFINE c == q \o r
<1>1. /\ c \in Seq(S) /\ Len(q) \in Nat /\ Len(r) \in Nat /\ Len(c) = Len(q) + Len(r)
      /\ \A i \in 1..Len(c) : c[i] = IF i <= Len(q) THEN q[i] ELSE r[i - Len(q)]
      /\ \A i \in 1..Len(r) : c[i + Len(q)] = r[i]
  OBVIOUS
<1> HIDE DEF c
<1>2. ASSUME NEW i \in 1..Len(q) PROVE i \in 1..Len(c) /\ c[i] = q[i]
  BY <1>1
<1>3. ASSUME NEW i \in 1..Len(r) PROVE i + Len(q) \in 1..Len(c) /\ c[i + Len(q)] = r[i]
  BY <1>1
<1>4. ASSUME NEW i \in 1..Len(c)
      PROVE  (\E j \in 1..Len(q) : q[j] = c[i]) \/ \E j \in 1..Len(r) : r[j] = c[i]
  <2>1. i <= Len(q) => i \in 1..Len(q) /\ c[i] = q[i]
    BY <1>1
  <2>2. ~(i <= Len(q)) => i - Len(q) \in 1..Len(r) /\ c[i] = r[i - Len(q)]
    BY <1>1
  <2> QED
    BY <2>1, <2>2
<1>5. ToSet(c) \subseteq ToSet(q) \cup ToSet(r)
  <2> SUFFICES ASSUME NEW i \in 1..Len(c) PROVE c[i] \in ToSet(q) \cup ToSet(r)
    BY <1>1, InToSet
  <2> QED
    BY <1>4, InToSet
<1>6. ASSUME NEW i \in 1..Len(q) PROVE q[i] \in ToSet(c)
  BY <1>1, <1>2, InToSet
<1>7. ASSUME NEW i \in 1..Len(r) PROVE r[i] \in ToSet(c)
  BY <1>1, <1>3, InToSet
<1>8. ToSet(q) \subseteq ToSet(c) /\ ToSet(r) \subseteq ToSet(c)
  BY <1>6, <1>7, InToSet
<1> QED
  BY <1>1, <1>5, <1>8 DEF c

LEMMA ToSetNone == ToSet(<<>>) = {}
BY DEF ToSet

LEMMA ToSetOne ==
  ASSUME NEW m
  PROVE  ToSet(<<m>>) = {m}
BY DEF ToSet

LEMMA ToSetCut ==
  ASSUME NEW S, NEW q \in Seq(S), NEW i \in 0..Len(q)
  PROVE  /\ SubSeq(q, 1, i) \in Seq(S) /\ Len(SubSeq(q, 1, i)) = i
         /\ \A j \in 1..i : SubSeq(q, 1, i)[j] = q[j]
         /\ ToSet(SubSeq(q, 1, i)) \subseteq ToSet(q)
<1> DEFINE r == SubSeq(q, 1, i)
<1>1. /\ r \in Seq(S) /\ Len(r) = i /\ Len(q) \in Nat
      /\ \A j \in 1..i : r[j] = q[j] /\ j \in 1..Len(q)
  OBVIOUS
<1> HIDE DEF r
<1>2. ToSet(r) \subseteq ToSet(q)
  BY <1>1, InToSet
<1> QED
  BY <1>1, <1>2 DEF r

-----------------------------------------------------------------------------
(* Least and greatest elements.                                            *)

LEMMA LeastOfSome ==
  ASSUME NEW T \in SUBSET Nat, T # {}
  PROVE  \E x \in T : \A y \in T : x <= y
<1> DEFINE R == OpToRel(<, Nat)
<1>1. IsWellFoundedOn(R, Nat)
  BY NatLessThanWellFounded
<1>2. \A x, y \in Nat : <<x, y>> \in R <=> x < y
  BY DEF OpToRel
<1>3. T \subseteq Nat /\ T # {}
  OBVIOUS
<1> HIDE DEF R
<1>4. \E x \in T : \A y \in T : ~ (<<y, x>> \in R)
  BY <1>1, <1>3, WFMin, Zenon
<1>5. PICK x \in T : \A y \in T : ~ (<<y, x>> \in R)
  BY <1>4
<1>6. ASSUME NEW y \in T PROVE x <= y
  <2>1. x \in Nat /\ y \in Nat
    BY <1>3
  <2>2. ~ (y < x)
    BY <1>2, <1>5, <2>1
  <2> QED
    BY <2>1, <2>2
<1> QED
  BY <1>6

\* A set of numbers that holds 0, and with each number the next, holds them all.
LEMMA NumbersAll ==
  ASSUME NEW T, 0 \in T, \A n \in Nat : n \in T => n + 1 \in T
  PROVE  Nat \subseteq T
<1> SUFFICES ASSUME Nat \ T # {} PROVE FALSE
  OBVIOUS
<1>1. PICK x \in Nat \ T : \A y \in Nat \ T : x <= y
  BY LeastOfSome
<1>2. x # 0 /\ x - 1 \in Nat
  BY <1>1
<1>3. x - 1 \in T
  BY <1>1, <1>2
<1> QED
  BY <1>1, <1>2, <1>3

\* A finite set of numbers has a greatest one, Max of it: of the subsets without one there
\* is no smallest.
LEMMA MaxOfSome ==
  ASSUME NEW S \in SUBSET Int, S # {}, IsFiniteSet(S)
  PROVE  Max(S) \in S /\ \A y \in S : y <= Max(S)
<1> DEFINE Top(U) == \E x \in U : \A y \in U : x >= y
           Bad == {U \in FiniteSubsetsOf(S) : U # {} /\ ~Top(U)}
<1>1. Bad = {}
  <2> SUFFICES ASSUME Bad # {} PROVE FALSE
    OBVIOUS
  <2>1. IsWellFoundedOn(StrictSubsetOrdering(S), FiniteSubsetsOf(S))
    BY FS_StrictSubsetOrderingWellFounded
  <2>2. Bad \subseteq FiniteSubsetsOf(S)
    OBVIOUS
  <2> HIDE DEF Bad
  <2>3. \E U \in Bad : \A V \in Bad : ~(<<V, U>> \in StrictSubsetOrdering(S))
    BY <2>1, <2>2, WFMin, Zenon
  <2>4. PICK U \in Bad : \A V \in Bad : ~(<<V, U>> \in StrictSubsetOrdering(S))
    BY <2>3
  <2>5. U \in FiniteSubsetsOf(S) /\ U # {} /\ ~Top(U)
    BY DEF Bad
  <2>6. PICK x \in U : TRUE
    BY <2>5
  <2>7. U \ {x} \in FiniteSubsetsOf(S) /\ <<U \ {x}, U>> \in StrictSubsetOrdering(S)
    BY <2>5, <2>6, FS_Subset DEF FiniteSubsetsOf, StrictSubsetOrdering
  <2>8. U \ {x} \notin Bad
    BY <2>4, <2>7
  <2>9. CASE U \ {x} = {}
    BY <2>9, <2>5, <2>6 DEF FiniteSubsetsOf
  <2>10. CASE U \ {x} # {} /\ Top(U \ {x})
    BY <2>10, <2>5, <2>6 DEF FiniteSubsetsOf
  <2> QED
    BY <2>7, <2>8, <2>9, <2>10 DEF Bad
<1>2. Top(S)
  BY <1>1 DEF FiniteSubsetsOf
<1> QED
  BY <1>2 DEF Max

\* Min of a set of natural numbers is its least one.
LEMMA MinOfSome ==
  ASSUME NEW T \in SUBSET Nat, T # {}
  PROVE  Min(T) \in T /\ \A y \in T : Min(T) <= y
BY LeastOfSome DEF Min

\* Part of an interval is finite.
LEMMA PartFinite ==
  ASSUME NEW m \in Nat, NEW S \in SUBSET (1..m)
  PROVE  IsFiniteSet(S) /\ Cardinality(S) \in Nat /\ Cardinality(S) <= m
<1>1. IsFiniteSet(1..m) /\ Cardinality(1..m) = m
  BY SMTT(30), FS_Interval
<1> QED
  BY <1>1, FS_Subset, FS_CardinalityType

=============================================================================
