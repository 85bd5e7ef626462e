-------------------------- MODULE Selection_proofs --------------------------
(***************************************************************************)
(* What the other proofs use about selections, and induction: a set of     *)
(* numbers that starts at 0 and goes on holds all of them.                 *)
(***************************************************************************)
EXTENDS Selection, FiniteSetTheorems, SequenceTheorems, WellFoundedInduction, TLAPS

-----------------------------------------------------------------------------
(* Induction, from the fact that < is well-founded.                          *)

\* A set of numbers that is not empty has a least one.
LEMMA Least ==
    ASSUME NEW T \in SUBSET Nat, T # {}
    PROVE  \E n \in T : \A m \in T : n <= m
<1> DEFINE R == OpToRel(<, Nat)
<1>1. IsWellFoundedOn(R, Nat)
  BY NatLessThanWellFounded
<1>2. \A m, n \in Nat : m < n => <<m, n>> \in R
  BY DEF OpToRel
<1> HIDE DEF R
<1>3. PICK n \in T : \A m \in T : <<m, n>> \notin R
  BY <1>1, WFMin
<1>4. n \in Nat /\ \A m \in T : m \in Nat /\ ~ (m < n)
  BY <1>2, <1>3
<1> QED
  BY <1>4

\* What holds of 0, and of n + 1 when it holds of n, holds of every number.
LEMMA UpTo ==
    ASSUME NEW N \in Nat, NEW S, 0 \in S,
           \A n \in 0 .. N : n < N /\ n \in S => n + 1 \in S
    PROVE  N \in S /\ \A n \in 0 .. N : n \in S
<1> DEFINE T == {n \in 0 .. N : n \notin S}
<1>0. SUFFICES T = {}
  <2>1. N \in 0 .. N
    OBVIOUS
  <2> QED
    BY <2>1
<1>1. SUFFICES ASSUME T # {} PROVE FALSE
  OBVIOUS
<1>5. T \in SUBSET Nat
  OBVIOUS
<1> HIDE DEF T
<1>2. PICK n \in T : \A m \in T : n <= m
  BY <1>1, <1>5, Least
<1> USE DEF T
<1>3. n \in 0 .. N /\ n # 0 /\ n - 1 \in 0 .. N /\ n - 1 < N
  BY <1>2
<1>4. n - 1 \notin T
  BY <1>2, <1>3
<1> QED
  BY <1>2, <1>3, <1>4
-----------------------------------------------------------------------------
(* What is kept, and in which order.                                         *)

\* The ranks of the kept indices count from one to their number, without a gap
\* and in the order of the indices.
LEMMA RanksCount ==
    ASSUME NEW kept \in SUBSET Nat, IsFiniteSet(kept)
    PROVE  /\ Cardinality(kept) \in Nat
           /\ \A i \in kept : Rank(i, kept) \in 1 .. Cardinality(kept)
           /\ \A i, j \in kept : i < j => Rank(i, kept) < Rank(j, kept)
           /\ \A n \in 1 .. Cardinality(kept) : \E i \in kept : Rank(i, kept) = n
<1> DEFINE below(i) == {j \in kept : j <= i}
           N == Cardinality(kept)
           f == [i \in kept |-> Rank(i, kept)]
<1>0. \A i \in kept : Rank(i, kept) = Cardinality(below(i))
  BY DEF Rank
<1>1. N \in Nat
  BY FS_CardinalityType
<1>2. ASSUME NEW i \in kept
      PROVE  IsFiniteSet(below(i)) /\ Cardinality(below(i)) \in 1 .. N
  <2>1. IsFiniteSet(below(i)) /\ Cardinality(below(i)) <= N
    BY FS_Subset
  <2>2. Cardinality(below(i)) \in Nat /\ below(i) # {}
    BY <2>1, FS_CardinalityType
  <2>3. Cardinality(below(i)) # 0
    BY <2>1, <2>2, FS_EmptySet
  <2> QED
    BY <1>1, <2>1, <2>2, <2>3
<1>3. ASSUME NEW i \in kept, NEW j \in kept, i < j
      PROVE  Cardinality(below(i)) < Cardinality(below(j))
  <2>0. \A k \in kept : k \in Nat
    OBVIOUS
  <2>3. i \in Nat /\ j \in Nat
    BY <2>0
  <2>4. j \in below(j) /\ j \notin below(i)
    BY <1>3, <2>3
  <2>5. \A k \in below(i) : k \in below(j)
    BY <1>3, <2>0, <2>3
  <2>1. below(i) \in SUBSET below(j) /\ j \in below(j) /\ j \notin below(i)
    BY <2>4, <2>5
  <2>2. Cardinality(below(i)) <= Cardinality(below(j)) /\ Cardinality(below(j)) # Cardinality(below(i))
    BY <2>1, <1>2, FS_Subset
  <2> HIDE DEF below
  <2> QED
    BY <2>2, <1>2
<1> HIDE DEF below
<1>4. f \in [kept -> 1 .. N]
  BY <1>0, <1>2
<1>5. \A i, j \in kept : i # j => f[i] # f[j]
  BY <1>0, <1>2, <1>3
<1>6. f \in Injection(kept, 1 .. N)
  BY <1>4, <1>5 DEF Injection, IsInjective
<1>7. IsFiniteSet(1 .. N) /\ Cardinality(1 .. N) = N
  BY <1>1, FS_Interval
<1>8. f \in Surjection(kept, 1 .. N)
  BY <1>6, <1>7, FS_Injection
<1>9. \A n \in 1 .. N : \E i \in kept : Rank(i, kept) = n
  BY <1>8 DEF Surjection
<1> QED
  BY <1>0, <1>1, <1>2, <1>3, <1>9

\* Each row of what is kept comes from a row of its own, in the same order, and
\* every kept index is the source of one.
LEMMA KeepSources ==
    ASSUME NEW S, NEW rows \in Seq(S), NEW kept \in SUBSET (DOMAIN rows)
    PROVE  /\ Keep(rows, kept) \in Seq(S) /\ Len(Keep(rows, kept)) <= Len(rows)
           /\ DOMAIN Keep(rows, kept) = 1 .. Len(Keep(rows, kept))
           /\ \A n \in DOMAIN Keep(rows, kept) :
                Nth(n, kept) \in kept /\ Keep(rows, kept)[n] = rows[Nth(n, kept)]
           /\ \A m, n \in DOMAIN Keep(rows, kept) : m < n => Nth(m, kept) < Nth(n, kept)
           /\ \A i \in kept : \E n \in DOMAIN Keep(rows, kept) : Nth(n, kept) = i
<1> DEFINE N == Cardinality(kept)
<1>1. DOMAIN rows = 1 .. Len(rows) /\ Len(rows) \in Nat /\ \A i \in DOMAIN rows : rows[i] \in S
  BY LenProperties, ElementOfSeq
<1>2. kept \in SUBSET Nat /\ IsFiniteSet(kept) /\ N <= Len(rows)
  <2>1. kept \in SUBSET (1 .. Len(rows)) /\ Len(rows) \in Int /\ 1 \in Int
    BY <1>1
  <2>2. IsFiniteSet(1 .. Len(rows)) /\ Cardinality(1 .. Len(rows)) = Len(rows)
    <3> DEFINE last == Len(rows)
    <3>1. last \in Nat /\ 1 \in Int /\ last \in Int
      BY <1>1
    <3> HIDE DEF last
    <3>2. IsFiniteSet(1 .. last) /\ Cardinality(1 .. last) = last
      BY <3>1, FS_Interval
    <3> QED
      BY <3>2 DEF last
  <2>3. IsFiniteSet(kept) /\ N <= Len(rows)
    BY <2>1, <2>2, FS_Subset
  <2> QED
    BY <1>1, <2>1, <2>3
<1>3. /\ N \in Nat
      /\ \A i \in kept : Rank(i, kept) \in 1 .. N
      /\ \A i, j \in kept : i < j => Rank(i, kept) < Rank(j, kept)
      /\ \A n \in 1 .. N : \E i \in kept : Rank(i, kept) = n
  BY <1>2, RanksCount
<1> HIDE DEF N
<1>4. \A n \in 1 .. N : Nth(n, kept) \in kept /\ Rank(Nth(n, kept), kept) = n
  BY <1>3 DEF Nth
<1>5. DOMAIN Keep(rows, kept) = 1 .. N /\ \A n \in 1 .. N : Keep(rows, kept)[n] = rows[Nth(n, kept)]
  BY DEF Keep, N
<1>6. \A m, n \in 1 .. N : m < n => Nth(m, kept) < Nth(n, kept)
  <2> SUFFICES ASSUME NEW m \in 1 .. N, NEW n \in 1 .. N, m < n PROVE Nth(m, kept) < Nth(n, kept)
    OBVIOUS
  <2>1. Nth(m, kept) \in Nat /\ Nth(n, kept) \in Nat
    BY <1>2, <1>4
  <2>2. Nth(n, kept) # Nth(m, kept)
    BY <1>3, <1>4
  <2>3. ~ (Nth(n, kept) < Nth(m, kept))
    BY <1>3, <1>4
  <2> QED
    BY <2>1, <2>2, <2>3
<1>7. \A i \in kept : \E n \in 1 .. N : Nth(n, kept) = i
  <2> SUFFICES ASSUME NEW i \in kept PROVE Nth(Rank(i, kept), kept) = i
    BY <1>3
  <2> DEFINE k == Nth(Rank(i, kept), kept)
  <2>1. Rank(i, kept) \in 1 .. N /\ k \in kept /\ Rank(k, kept) = Rank(i, kept)
    BY <1>3, <1>4
  <2>2. k \in Nat /\ i \in Nat /\ ~ (k < i) /\ ~ (i < k)
    BY <1>2, <1>3, <2>1
  <2> QED
    BY <2>2
<1>8. Keep(rows, kept) \in [1 .. N -> S]
  BY <1>1, <1>4, <1>5 DEF Keep, N
<1>9. Keep(rows, kept) \in Seq(S) /\ Len(Keep(rows, kept)) = N
  BY <1>3, <1>8, IsASeq, LenProperties
<1> QED
  BY <1>2, <1>4, <1>5, <1>6, <1>7, <1>9

\* Who keeps all has what there was.
LEMMA KeepAll ==
    ASSUME NEW S, NEW rows \in Seq(S)
    PROVE  Keep(rows, DOMAIN rows) = rows
<1> DEFINE kept == DOMAIN rows
<1>1. Len(rows) \in Nat /\ rows = [n \in 1 .. Len(rows) |-> rows[n]] /\ kept = 1 .. Len(rows)
  BY LenProperties
<1>2. ASSUME NEW n \in 0 .. Len(rows) PROVE IsFiniteSet(1 .. n) /\ Cardinality(1 .. n) = n
  BY <1>1, <1>2, FS_Interval
<1>3. \A n \in kept : Rank(n, kept) = n
  <2> SUFFICES ASSUME NEW n \in kept PROVE Cardinality({j \in kept : j <= n}) = n
    BY DEF Rank
  <2>1. {j \in kept : j <= n} = 1 .. n
    BY <1>1
  <2>2. Cardinality(1 .. n) = n
    BY <1>1, <1>2
  <2> QED
    BY <2>1, <2>2
<1>4. \A n \in kept : Nth(n, kept) = n
  BY <1>3 DEF Nth
<1>5. Cardinality(kept) = Len(rows)
  BY <1>1, <1>2
<1> QED
  BY <1>1, <1>4, <1>5 DEF Keep
=============================================================================
