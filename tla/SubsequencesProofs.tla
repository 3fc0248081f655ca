-------------------------- MODULE SubsequencesProofs --------------------------
(***************************************************************************)
(* Lemmas about Subsequences: the places of a finite set of integers are   *)
(* enumerated in order by Nth, and what Picked becomes when the sequence   *)
(* grows at its end, loses a place or its first places.                    *)
(***************************************************************************)
EXTENDS Subsequences, FiniteSetTheorems, SequenceTheorems, TLAPS

\* e runs through the n places L in order.
Enumerates(e, n, L) ==
  /\ e \in [1..n -> L]
  /\ \A m, p \in 1..n : m < p => e[m] < e[p]
  /\ \A i \in L : \E m \in 1..n : e[m] = i

\* L is a set of places of q.
Places(L, q) == L \in SUBSET (1..Len(q))

\* v is made of the first n entries of q along e.
Follows(v, n, q, e) ==
  /\ Len(v) = n
  /\ \A m \in 1..n : v[m] = q[e[m]]

\* A later place has a higher rank.
LEMMA RankIncreases ==
  ASSUME NEW L \in SUBSET Int, IsFiniteSet(L), NEW i \in L, NEW j \in L, i < j
  PROVE  Rank(L, i) < Rank(L, j)
<1> DEFINE A == {l \in L : l <= i}
           B == {l \in L : l <= j}
<1>1. A \in SUBSET B /\ A # B /\ B \in SUBSET L
  <2>1. i \in Int /\ j \in Int /\ \A l \in L : l \in Int
    OBVIOUS
  <2>2. \A l \in L : l <= i => l <= j
    BY <2>1
  <2>3. j \in B /\ j \notin A
    BY <2>1
  <2> QED
    BY <2>2, <2>3
<1> HIDE DEF A, B
<1>2. IsFiniteSet(B)
  BY <1>1, FS_Subset
<1>3. IsFiniteSet(A) /\ Cardinality(A) <= Cardinality(B)
      /\ (Cardinality(A) = Cardinality(B) => A = B)
  BY <1>1, <1>2, FS_Subset
<1>4. Cardinality(A) \in Nat /\ Cardinality(B) \in Nat
  BY <1>2, <1>3, FS_CardinalityType
<1>5. Cardinality(A) < Cardinality(B)
  BY <1>1, <1>3, <1>4
<1> QED
  BY <1>5 DEF Rank, A, B

LEMMA RankType ==
  ASSUME NEW L \in SUBSET Int, IsFiniteSet(L), NEW i \in L
  PROVE  /\ Cardinality(L) \in Nat
         /\ Rank(L, i) \in 1..Cardinality(L)
<1> DEFINE A == {l \in L : l <= i}
<1>1. A \in SUBSET L /\ i \in A
  OBVIOUS
<1> HIDE DEF A
<1>2. IsFiniteSet(A) /\ Cardinality(A) <= Cardinality(L)
  BY <1>1, FS_Subset
<1>3. Cardinality(A) \in Nat /\ Cardinality(L) \in Nat
  BY <1>2, FS_CardinalityType
<1>4. Cardinality(A) # 0
  BY <1>1, <1>2, FS_EmptySet
<1>5. Cardinality(A) \in 1..Cardinality(L)
  BY <1>2, <1>3, <1>4
<1> QED
  BY <1>3, <1>5 DEF Rank, A

\* The ranks of n places are 1 to n.
LEMMA NthHasRank ==
  ASSUME NEW L \in SUBSET Int, IsFiniteSet(L), NEW m \in 1..Cardinality(L)
  PROVE  Nth(L, m) \in L /\ Rank(L, Nth(L, m)) = m
<1> DEFINE n == Cardinality(L)
           r == [i \in L |-> Rank(L, i)]
<1>1. n \in Nat
  BY FS_CardinalityType
<1>2. IsFiniteSet(1..n) /\ Cardinality(1..n) = n
  BY <1>1, FS_Interval
<1>3. r \in [L -> 1..n]
  BY RankType
<1>4. \A i, j \in L : i # j => Rank(L, i) # Rank(L, j)
  <2> SUFFICES ASSUME NEW i \in L, NEW j \in L, i # j
               PROVE  Rank(L, i) # Rank(L, j)
    OBVIOUS
  <2>1. Rank(L, i) \in Int /\ Rank(L, j) \in Int
    BY <1>1, RankType
  <2>2. CASE i < j
    BY <2>1, <2>2, RankIncreases
  <2>3. CASE j < i
    BY <2>1, <2>3, RankIncreases
  <2> QED
    BY <2>2, <2>3
<1>5. r \in Injection(L, 1..n)
  <2>1. \A i, j \in L : r[i] = r[j] => i = j
    BY <1>4
  <2> QED
    BY <1>3, <2>1 DEF Injection, IsInjective
<1> HIDE DEF r
<1>6. r \in Surjection(L, 1..n)
  BY <1>2, <1>5, FS_Injection
<1>7. \E i \in L : r[i] = m
  BY <1>6 DEF Surjection
<1>8. \E i \in L : Rank(L, i) = m
  BY <1>7 DEF r
<1> QED
  BY <1>8 DEF Nth

LEMMA NthOfRank ==
  ASSUME NEW L \in SUBSET Int, IsFiniteSet(L), NEW i \in L
  PROVE  Nth(L, Rank(L, i)) = i
<1> DEFINE j == Nth(L, Rank(L, i))
<1>1. Rank(L, i) \in 1..Cardinality(L) /\ Cardinality(L) \in Nat
  BY RankType
<1>2. j \in L /\ Rank(L, j) = Rank(L, i)
  BY <1>1, NthHasRank
<1> HIDE DEF j
<1>3. ~(i < j) /\ ~(j < i)
  BY <1>1, <1>2, RankIncreases
<1>4. j = i
  BY <1>2, <1>3
<1> QED
  BY <1>4 DEF j

LEMMA NthIncreases ==
  ASSUME NEW L \in SUBSET Int, IsFiniteSet(L),
         NEW m \in 1..Cardinality(L), NEW p \in 1..Cardinality(L), m < p
  PROVE  Nth(L, m) < Nth(L, p)
<1>1. /\ Nth(L, m) \in L /\ Rank(L, Nth(L, m)) = m
      /\ Nth(L, p) \in L /\ Rank(L, Nth(L, p)) = p
  BY NthHasRank
<1>2. PICK i \in L, j \in L : i = Nth(L, m) /\ j = Nth(L, p)
  BY <1>1
<1>3. Rank(L, i) = m /\ Rank(L, j) = p
  BY <1>1, <1>2
<1>4. i \in Int /\ j \in Int /\ m \in Int /\ p \in Int
  BY FS_CardinalityType
<1>5. j < i => Rank(L, j) < Rank(L, i)
  BY RankIncreases
<1>6. i < j
  BY <1>3, <1>4, <1>5
<1> QED
  BY <1>2, <1>6

\* A sequence that runs through L in order is the enumeration of L.
LEMMA EnumerationIsNth ==
  ASSUME NEW L \in SUBSET Int, NEW n \in Nat, NEW e, Enumerates(e, n, L)
  PROVE  /\ IsFiniteSet(L) /\ Cardinality(L) = n
         /\ \A m \in 1..n : Nth(L, m) = e[m]
<1> USE DEF Enumerates
<1>1. \A p \in 0..n : IsFiniteSet(1..p) /\ Cardinality(1..p) = p
  <2> TAKE p \in 0..n
  <2> QED
    BY FS_Interval
<1>2. \A m, p \in 1..n : e[m] = e[p] => m = p
  <2> SUFFICES ASSUME NEW m \in 1..n, NEW p \in 1..n, e[m] = e[p]
               PROVE  m = p
    OBVIOUS
  <2>1. e[m] \in Int
    OBVIOUS
  <2>2. ~(m < p) /\ ~(p < m)
    BY <2>1
  <2> QED
    BY <2>2
<1>3. e \in Bijection(1..n, L)
  <2>1. e \in Injection(1..n, L)
    BY <1>2 DEF Injection, IsInjective
  <2>2. e \in Surjection(1..n, L)
    BY DEF Surjection
  <2> QED
    BY <2>1, <2>2 DEF Bijection
<1>4. IsFiniteSet(L) /\ Cardinality(L) = n
  <2>1. ExistsBijection(1..n, L)
    BY <1>3 DEF ExistsBijection
  <2>2. IsFiniteSet(1..n) /\ Cardinality(1..n) = n
    BY <1>1
  <2> QED
    BY <2>1, <2>2, FS_Bijection
<1>5. ASSUME NEW m \in 1..n
      PROVE  Rank(L, e[m]) = m
  <2> DEFINE A == {l \in L : l <= e[m]}
             f == [p \in 1..m |-> e[p]]
  <2>1. \A p \in 1..m : p \in 1..n /\ e[p] \in A
    <3> TAKE p \in 1..m
    <3>1. p \in 1..n /\ (p < m \/ p = m)
      OBVIOUS
    <3>2. e[p] \in L /\ e[m] \in Int /\ e[p] \in Int
      BY <3>1
    <3> QED
      BY <3>1, <3>2
  <2>2. \A i \in A : \E p \in 1..m : e[p] = i
    <3> TAKE i \in A
    <3>1. PICK p \in 1..n : e[p] = i
      OBVIOUS
    <3>2. ~(m < p)
      <4>1. e[p] <= e[m] /\ e[p] \in Int /\ e[m] \in Int
        BY <3>1
      <4> QED
        BY <4>1
    <3> QED
      BY <3>1, <3>2
  <2> HIDE DEF A
  <2>3. f \in Injection(1..m, A)
    BY <1>2, <2>1 DEF Injection, IsInjective
  <2>4. f \in Surjection(1..m, A)
    BY <2>1, <2>2 DEF Surjection
  <2>5. ExistsBijection(1..m, A)
    BY <2>3, <2>4 DEF Bijection, ExistsBijection
  <2>6. IsFiniteSet(1..m) /\ Cardinality(1..m) = m
    BY <1>1
  <2>7. Cardinality(A) = m
    BY <2>5, <2>6, FS_Bijection
  <2> QED
    BY <2>7 DEF A, Rank
<1>6. \A m \in 1..n : Nth(L, m) = e[m]
  <2> TAKE m \in 1..n
  <2>1. e[m] \in L /\ Rank(L, e[m]) = m
    BY <1>5
  <2> QED
    BY <1>4, <2>1, NthOfRank
<1> QED
  BY <1>4, <1>6

-----------------------------------------------------------------------------
(* What is picked from a sequence.                                         *)

\* Places of a sequence are finitely many integers.
LEMMA PlacesAreFinite ==
  ASSUME NEW n \in Nat, NEW L \in SUBSET (1..n)
  PROVE  L \in SUBSET Int /\ IsFiniteSet(L) /\ Cardinality(L) \in Nat
<1>1. IsFiniteSet(1..n)
  BY FS_Interval
<1>2. IsFiniteSet(L)
  BY <1>1, FS_Subset
<1>3. Cardinality(L) \in Nat
  BY <1>2, FS_CardinalityType
<1>4. L \in SUBSET Int
  OBVIOUS
<1> QED
  BY <1>2, <1>3, <1>4

\* Every entry picked is at a place of L, and every place of L is picked.
LEMMA PickedEntries ==
  ASSUME NEW S, NEW q \in Seq(S), NEW L \in SUBSET (1..Len(q))
  PROVE  /\ Picked(q, L) \in Seq(S) /\ Len(Picked(q, L)) = Cardinality(L)
         /\ \A m \in 1..Cardinality(L) :
              Nth(L, m) \in L /\ Picked(q, L)[m] = q[Nth(L, m)]
         /\ \A i \in L : \E m \in 1..Cardinality(L) : Nth(L, m) = i
<1>0. Len(q) \in Nat
  OBVIOUS
<1>1. L \in SUBSET Int /\ IsFiniteSet(L) /\ Cardinality(L) \in Nat
  BY <1>0, PlacesAreFinite
<1>2. \A m \in 1..Cardinality(L) : Nth(L, m) \in L
  BY <1>1, NthHasRank
<1>3. \A i \in L : Rank(L, i) \in 1..Cardinality(L) /\ Nth(L, Rank(L, i)) = i
  BY <1>1, RankType, NthOfRank
<1>4. \A i \in L : q[i] \in S
  OBVIOUS
<1> DEFINE c == Cardinality(L)
           w == [m \in 1..c |-> q[Nth(L, m)]]
<1>5. \A m \in 1..c : q[Nth(L, m)] \in S
  BY <1>2, <1>4
<1>6. c \in Nat
  BY <1>1
<1> HIDE DEF c
<1>7. w \in Seq(S) /\ Len(w) = c /\ \A m \in 1..c : w[m] = q[Nth(L, m)]
  BY <1>5, <1>6
<1> QED
  BY <1>2, <1>3, <1>7 DEF Picked, c

\* Sequences that agree on L give the same.
LEMMA PickedAgrees ==
  ASSUME NEW S, NEW n \in Nat, NEW L \in SUBSET (1..n), NEW q, NEW r, \A i \in L : q[i] = r[i]
  PROVE  Picked(q, L) = Picked(r, L)
<1>1. \A m \in 1..Cardinality(L) : Nth(L, m) \in L
  BY PlacesAreFinite, NthHasRank
<1> QED
  BY <1>1 DEF Picked

LEMMA PickedNothing ==
  ASSUME NEW q
  PROVE  Picked(q, {}) = <<>>
<1>1. Cardinality({}) = 0
  BY FS_EmptySet
<1>2. 1..0 = {}
  OBVIOUS
<1> QED
  BY <1>1, <1>2 DEF Picked

\* What is picked, given an enumeration of the places.
LEMMA PickedBy ==
  ASSUME NEW S, NEW q \in Seq(S), NEW L \in SUBSET (1..Len(q)),
         NEW w \in Seq(S), NEW n \in Nat, NEW e, Enumerates(e, n, L), Follows(w, n, q, e)
  PROVE  Picked(q, L) = w
<1>1. Cardinality(L) = n /\ \A m \in 1..n : Nth(L, m) = e[m]
  <2>1. L \in SUBSET Int
    OBVIOUS
  <2> QED
    BY <2>1, EnumerationIsNth
<1>2. /\ Picked(q, L) \in Seq(S) /\ Len(Picked(q, L)) = n
      /\ \A m \in 1..n : Picked(q, L)[m] = q[Nth(L, m)]
  BY <1>1, PickedEntries
<1>3. Len(w) = n /\ \A m \in 1..n : Picked(q, L)[m] = w[m]
  BY <1>1, <1>2 DEF Follows
<1> QED
  BY <1>2, <1>3, SeqEqual

\* A new last place comes last.
LEMMA PickedAppend ==
  ASSUME NEW S, NEW q \in Seq(S), NEW L, Places(L, q), NEW x \in S,
         NEW N, N = L \cup {Len(q) + 1}
  PROVE  Picked(Append(q, x), N) = Append(Picked(q, L), x)
<1> USE DEF Places
<1> DEFINE c == Cardinality(L)
           n == Len(q)
           M == L \cup {n + 1}
           e == [m \in 1..(c + 1) |-> IF m <= c THEN Nth(L, m) ELSE n + 1]
           r == Append(q, x)
           w == Picked(q, L)
<1>1. /\ L \in SUBSET Int /\ IsFiniteSet(L) /\ c \in Nat /\ n \in Nat /\ L \in SUBSET (1..n)
      /\ \A m \in 1..c : Nth(L, m) \in L
      /\ \A i \in L : \E m \in 1..c : Nth(L, m) = i
      /\ w \in Seq(S) /\ Len(w) = c /\ \A m \in 1..c : w[m] = q[Nth(L, m)]
  <2>1. n \in Nat
    OBVIOUS
  <2>2. L \in SUBSET Int /\ IsFiniteSet(L) /\ c \in Nat
    BY <2>1, PlacesAreFinite
  <2>3. /\ \A m \in 1..c : Nth(L, m) \in L
        /\ \A i \in L : \E m \in 1..c : Nth(L, m) = i
        /\ w \in Seq(S) /\ Len(w) = c /\ \A m \in 1..c : w[m] = q[Nth(L, m)]
    BY PickedEntries
  <2> QED
    BY <2>1, <2>2, <2>3
<1>2. /\ r \in Seq(S) /\ Len(r) = n + 1 /\ r[n + 1] = x /\ \A i \in 1..n : r[i] = q[i]
  BY AppendProperties
<1>3. /\ Append(w, x) \in Seq(S) /\ Len(Append(w, x)) = c + 1
       /\ Append(w, x)[c + 1] = x /\ \A m \in 1..c : Append(w, x)[m] = w[m]
  BY <1>1, AppendProperties
<1>4. \A m, p \in 1..c : m < p => Nth(L, m) < Nth(L, p)
  BY <1>1, NthIncreases
<1> HIDE DEF c, w, n, r
<1>5. \A m \in 1..(c + 1) :
        (m \in 1..c /\ e[m] = Nth(L, m)) \/ (m = c + 1 /\ e[m] = n + 1)
  BY <1>1
<1>6. M \in SUBSET Int /\ e \in [1..(c + 1) -> M]
  <2>1. \A m \in 1..(c + 1) : e[m] \in M
    BY <1>1, <1>5
  <2>2. M \in SUBSET Int
    BY <1>1
  <2> QED
    BY <2>1, <2>2
<1>7. \A m, p \in 1..(c + 1) : m < p => e[m] < e[p]
  <2> SUFFICES ASSUME NEW m \in 1..(c + 1), NEW p \in 1..(c + 1), m < p
               PROVE  e[m] < e[p]
    OBVIOUS
  <2>1. m \in 1..c /\ e[m] = Nth(L, m)
    BY <1>1, <1>5
  <2>2. CASE p \in 1..c
    BY <1>4, <1>5, <2>1, <2>2
  <2>3. CASE p = c + 1
    <3>1. e[m] \in 1..n
      BY <1>1, <2>1
    <3>2. e[p] = n + 1
      BY <1>1, <1>5, <2>3
    <3> QED
      BY <1>1, <3>1, <3>2
  <2> QED
    BY <1>5, <2>2, <2>3
<1>8. \A i \in M : \E m \in 1..(c + 1) : e[m] = i
  BY <1>1, <1>5
<1> HIDE DEF e, M
<1>9. \A m \in 1..(c + 1) : Append(w, x)[m] = r[e[m]]
  <2> TAKE m \in 1..(c + 1)
  <2>1. CASE m \in 1..c /\ e[m] = Nth(L, m)
    <3>1. e[m] \in 1..n
      BY <1>1, <2>1
    <3>2. r[e[m]] = w[m]
      BY <1>1, <1>2, <2>1, <3>1
    <3> QED
      BY <1>3, <2>1, <3>2
  <2>2. CASE m = c + 1 /\ e[m] = n + 1
    BY <1>2, <1>3, <2>2
  <2> QED
    BY <1>5, <2>1, <2>2
<1>10. Picked(r, M) = Append(w, x)
  <2>1. PICK d \in Nat : d = c + 1
    BY <1>1
  <2>2. Enumerates(e, d, M)
    BY <1>6, <1>7, <1>8, <2>1 DEF Enumerates
  <2>3. Follows(Append(w, x), d, r, e)
    BY <1>3, <1>9, <2>1 DEF Follows
  <2>4. M \in SUBSET (1..Len(r))
    BY <1>1, <1>2 DEF M
  <2> QED
    BY <1>2, <1>3, <2>2, <2>3, <2>4, PickedBy
<1> QED
  BY <1>10 DEF w, M, n, r

\* The first place is picked first, and shifting it off with all before it leaves the rest.
LEMMA PickedShifted ==
  ASSUME NEW S, NEW q \in Seq(S), NEW L \in SUBSET (1..Len(q)),
         NEW i \in L, \A j \in L : i <= j
  PROVE  LET r == SubSeq(q, i + 1, Len(q))
             M == {j \in 1..Len(r) : i + j \in L}
         IN  /\ Picked(q, L) # <<>> /\ Head(Picked(q, L)) = q[i]
             /\ Picked(r, M) = Tail(Picked(q, L))
<1> DEFINE n == Len(q)
           c == Cardinality(L)
           w == Picked(q, L)
           r == SubSeq(q, i + 1, n)
           M == {j \in 1..Len(r) : i + j \in L}
           t == Tail(w)
           e == [m \in 1..(c - 1) |-> Nth(L, m + 1) - i]
<1>1. n \in Nat /\ L \in SUBSET (1..n) /\ i \in 1..n
  OBVIOUS
<1>2. L \in SUBSET Int /\ IsFiniteSet(L) /\ c \in Nat
  BY <1>1, PlacesAreFinite
<1>3. /\ w \in Seq(S) /\ Len(w) = c
      /\ \A m \in 1..c : Nth(L, m) \in L /\ w[m] = q[Nth(L, m)]
      /\ \A j \in L : \E m \in 1..c : Nth(L, m) = j
  BY PickedEntries
<1>4. \A m, p \in 1..c : m < p => Nth(L, m) < Nth(L, p)
  BY <1>2, NthIncreases
<1>5. /\ r \in Seq(S) /\ Len(r) = n - i
      /\ \A j \in 1..(n - i) : r[j] = q[i + j]
  <2>1. \A j \in (i + 1)..n : q[j] \in S
    BY <1>1
  <2>2. i + 1 \in Int /\ n \in Int
    BY <1>1
  <2>3. /\ r \in Seq(S) /\ Len(r) = IF i + 1 <= n THEN n - (i + 1) + 1 ELSE 0
        /\ \A j \in 1..(n - (i + 1) + 1) : r[j] = q[i + 1 + j - 1]
    BY <2>1, <2>2, SubSeqProperties
  <2>4. n - (i + 1) + 1 = n - i /\ (i + 1 > n => n - i = 0)
    BY <1>1
  <2>5. \A j \in 1..(n - i) : i + 1 + j - 1 = i + j
    BY <1>1
  <2> HIDE DEF r, n
  <2> QED
    BY <1>1, <2>3, <2>4, <2>5
<1> HIDE DEF n, c, w, r
<1>6. Nth(L, 1) = i /\ 1 \in 1..c
  <2>1. PICK m \in 1..c : Nth(L, m) = i
    BY <1>3
  <2>2. 1 \in 1..c /\ (m = 1 \/ 1 < m)
    BY <1>2
  <2>3. ~(1 < m)
    <3>1. Nth(L, 1) \in L /\ Nth(L, 1) \in Int /\ i \in Int
      BY <1>2, <1>3, <2>2
    <3>2. i <= Nth(L, 1)
      BY <3>1
    <3> QED
      BY <1>4, <2>1, <2>2, <3>1, <3>2
  <2> QED
    BY <2>1, <2>2, <2>3
<1>7. w # <<>> /\ Head(w) = q[i]
  BY <1>3, <1>6
<1>8. /\ t \in Seq(S) /\ Len(t) = c - 1
      /\ \A m \in 1..(c - 1) : t[m] = w[m + 1]
  BY <1>3, <1>7, HeadTailProperties
<1> HIDE DEF t
<1>9. \A m \in 1..(c - 1) :
        /\ m + 1 \in 1..c /\ Nth(L, m + 1) \in L /\ i < Nth(L, m + 1)
        /\ Nth(L, m + 1) \in 1..n
  <2> TAKE m \in 1..(c - 1)
  <2>1. m + 1 \in 1..c /\ 1 < m + 1
    BY <1>2
  <2> QED
    BY <1>1, <1>3, <1>4, <1>6, <2>1
<1>10. e \in [1..(c - 1) -> M]
  <2> SUFFICES ASSUME NEW m \in 1..(c - 1)
               PROVE  Nth(L, m + 1) - i \in M
    OBVIOUS
  <2>1. PICK j \in 1..n : j = Nth(L, m + 1) /\ j \in L /\ i < j
    BY <1>9
  <2>2. j - i \in 1..(n - i) /\ i + (j - i) = j
    BY <1>1, <2>1
  <2> QED
    BY <1>5, <2>1, <2>2
<1>11. \A m \in 1..(c - 1) : e[m] = Nth(L, m + 1) - i
  OBVIOUS
<1>12. \A m, p \in 1..(c - 1) : m < p => e[m] < e[p]
  <2> SUFFICES ASSUME NEW m \in 1..(c - 1), NEW p \in 1..(c - 1), m < p
               PROVE  e[m] < e[p]
    OBVIOUS
  <2>1. m + 1 \in 1..c /\ p + 1 \in 1..c /\ m + 1 < p + 1
    BY <1>2
  <2>2. Nth(L, m + 1) < Nth(L, p + 1)
    BY <1>4, <2>1
  <2>3. Nth(L, m + 1) \in 1..n /\ Nth(L, p + 1) \in 1..n
    BY <1>9
  <2> HIDE DEF e
  <2> QED
    BY <1>1, <1>11, <2>2, <2>3
<1>13. \A j \in M : \E m \in 1..(c - 1) : e[m] = j
  <2> TAKE j \in M
  <2>1. j \in 1..(n - i) /\ i + j \in L
    BY <1>5
  <2>2. PICK p \in 1..c : Nth(L, p) = i + j
    BY <1>3, <2>1
  <2>3. p # 1
    BY <1>1, <1>6, <2>1, <2>2
  <2>4. p - 1 \in 1..(c - 1) /\ (p - 1) + 1 = p
    BY <1>2, <2>3
  <2>5. e[p - 1] = (i + j) - i
    BY <1>11, <2>2, <2>4
  <2>6. e[p - 1] = j
    BY <1>1, <2>1, <2>5
  <2> QED
    BY <2>4, <2>6
<1>14. \A m \in 1..(c - 1) : t[m] = r[e[m]]
  <2> TAKE m \in 1..(c - 1)
  <2>1. PICK j \in 1..n : j = Nth(L, m + 1) /\ i < j
    BY <1>9
  <2>2. j - i \in 1..(n - i) /\ i + (j - i) = j
    BY <1>1, <2>1
  <2>3. r[e[m]] = q[j]
    BY <1>5, <1>11, <2>1, <2>2
  <2>4. t[m] = q[j]
    BY <1>3, <1>8, <1>9, <2>1
  <2> QED
    BY <2>3, <2>4
<1>15. M \in SUBSET (1..Len(r))
  OBVIOUS
<1> HIDE DEF e, M
<1>16. Picked(r, M) = t
  <2>1. PICK d \in Nat : d = c - 1
    BY <1>2, <1>6
  <2>2. Enumerates(e, d, M)
    BY <1>8, <1>10, <1>12, <1>13, <1>14, <2>1 DEF Enumerates
  <2>3. Follows(t, d, r, e)
    BY <1>8, <1>10, <1>12, <1>13, <1>14, <2>1 DEF Follows
  <2> QED
    BY <1>5, <1>15, <1>8, <2>2, <2>3, PickedBy
<1> QED
  BY <1>7, <1>16 DEF M, r, t, w, n

\* A place that is no longer picked leaves its entry out, and no other.
LEMMA PickedWithout ==
  ASSUME NEW S, NEW q \in Seq(S), NEW L, Places(L, q), NEW i \in L,
         NEW r \in Seq(S), Len(r) = Len(q), NEW N, N = L \ {i}, \A j \in N : r[j] = q[j]
  PROVE  /\ Rank(L, i) \in 1..Len(Picked(q, L)) /\ Picked(q, L)[Rank(L, i)] = q[i]
         /\ Picked(r, N) = Without(Picked(q, L), Rank(L, i))
<1> USE DEF Places
<1> DEFINE n == Len(q)
           c == Cardinality(L)
           k == Rank(L, i)
           w == Picked(q, L)
           M == L \ {i}
           e == [m \in 1..(c - 1) |-> Nth(L, IF m < k THEN m ELSE m + 1)]
           v == Without(w, k)
<1>1. n \in Nat /\ L \in SUBSET (1..n) /\ i \in 1..n /\ M \in SUBSET (1..Len(r))
  OBVIOUS
<1>2. L \in SUBSET Int /\ IsFiniteSet(L) /\ c \in Nat
  BY <1>1, PlacesAreFinite
<1>3. /\ w \in Seq(S) /\ Len(w) = c
      /\ \A m \in 1..c : Nth(L, m) \in L /\ w[m] = q[Nth(L, m)]
      /\ \A j \in L : \E m \in 1..c : Nth(L, m) = j
  BY PickedEntries
<1>4. \A m, p \in 1..c : m < p => Nth(L, m) < Nth(L, p)
  BY <1>2, NthIncreases
<1>5. k \in 1..c /\ Nth(L, k) = i
  BY <1>2, RankType, NthOfRank
<1>6. \A m, p \in 1..c : m # p => Nth(L, m) # Nth(L, p)
  <2> SUFFICES ASSUME NEW m \in 1..c, NEW p \in 1..c, m # p
               PROVE  Nth(L, m) # Nth(L, p)
    OBVIOUS
  <2>1. m < p \/ p < m
    BY <1>2
  <2>2. Nth(L, m) \in Int /\ Nth(L, p) \in Int
    BY <1>2, <1>3
  <2> QED
    BY <1>4, <2>1, <2>2
<1> HIDE DEF n, c, w, k
<1>7. \A m \in 1..(c - 1) :
        \/ m < k /\ m \in 1..c /\ m # k /\ e[m] = Nth(L, m)
        \/ ~(m < k) /\ m + 1 \in 1..c /\ m + 1 # k /\ e[m] = Nth(L, m + 1)
  <2> TAKE m \in 1..(c - 1)
  <2>1. m \in 1..c /\ m + 1 \in 1..c /\ k \in Int
    BY <1>2, <1>5
  <2>2. CASE m < k
    BY <2>1, <2>2
  <2>3. CASE ~(m < k)
    BY <2>1, <2>3
  <2> QED
    BY <2>2, <2>3
<1>8. \A m \in 1..(c - 1) : e[m] \in M
  BY <1>3, <1>5, <1>6, <1>7
<1>9. e \in [1..(c - 1) -> M]
  BY <1>8
<1> HIDE DEF e
<1>10. \A m, p \in 1..(c - 1) : m < p => e[m] < e[p]
  <2> SUFFICES ASSUME NEW m \in 1..(c - 1), NEW p \in 1..(c - 1), m < p
               PROVE  e[m] < e[p]
    OBVIOUS
  <2>1. PICK a \in 1..c : e[m] = Nth(L, a) /\ a = IF m < k THEN m ELSE m + 1
    BY <1>7
  <2>2. PICK b \in 1..c : e[p] = Nth(L, b) /\ b = IF p < k THEN p ELSE p + 1
    BY <1>7
  <2>3. a < b
    BY <1>2, <1>5, <2>1, <2>2
  <2> QED
    BY <1>4, <2>1, <2>2, <2>3
<1>11. \A j \in M : \E m \in 1..(c - 1) : e[m] = j
  <2> TAKE j \in M
  <2>1. PICK a \in 1..c : Nth(L, a) = j
    BY <1>3
  <2>2. a # k
    BY <1>5, <2>1
  <2>3. CASE a < k
    <3>1. a \in 1..(c - 1)
      BY <1>2, <1>5, <2>3
    <3> QED
      BY <1>7, <2>1, <2>3, <3>1
  <2>4. CASE k < a
    <3>1. a - 1 \in 1..(c - 1) /\ ~(a - 1 < k) /\ (a - 1) + 1 = a
      BY <1>2, <1>5, <2>4
    <3>2. e[a - 1] = Nth(L, (a - 1) + 1)
      BY <1>7, <3>1
    <3> QED
      BY <2>1, <3>1, <3>2
  <2> QED
    BY <1>2, <1>5, <2>2, <2>3, <2>4
<1>12. /\ v \in Seq(S) /\ Len(v) = c - 1
       /\ \A m \in 1..(c - 1) : v[m] = IF m < k THEN w[m] ELSE w[m + 1]
  <2>1. c - 1 \in Nat
    BY <1>2, <1>5
  <2>2. \A m \in 1..(c - 1) : m \in 1..c /\ m + 1 \in 1..c
    BY <1>2
  <2>3. \A m \in 1..c : w[m] \in S
    BY <1>3
  <2>4. v = [m \in 1..(c - 1) |-> IF m < k THEN w[m] ELSE w[m + 1]]
    BY <1>3 DEF Without
  <2>5. \A m \in 1..(c - 1) : (IF m < k THEN w[m] ELSE w[m + 1]) \in S
    BY <2>2, <2>3
  <2> DEFINE d == c - 1
  <2>6. v = [m \in 1..d |-> IF m < k THEN w[m] ELSE w[m + 1]]
        /\ \A m \in 1..d : (IF m < k THEN w[m] ELSE w[m + 1]) \in S
    BY <2>4, <2>5
  <2>7. d \in Nat
    BY <2>1
  <2> HIDE DEF d, v
  <2>8. /\ v \in Seq(S) /\ Len(v) = d
        /\ \A m \in 1..d : v[m] = IF m < k THEN w[m] ELSE w[m + 1]
    BY <2>6, <2>7
  <2> QED
    BY <2>8 DEF d
<1> HIDE DEF v
<1>13. \A m \in 1..(c - 1) : v[m] = r[e[m]]
  <2> TAKE m \in 1..(c - 1)
  <2>1. r[e[m]] = q[e[m]]
    BY <1>8
  <2> QED
    BY <1>3, <1>7, <1>12, <2>1
<1> HIDE DEF M
<1>14. Picked(r, M) = v
  <2>1. PICK d \in Nat : d = c - 1
    BY <1>2, <1>5
  <2>2. Enumerates(e, d, M)
    BY <1>9, <1>10, <1>11, <1>12, <1>13, <2>1 DEF Enumerates
  <2>3. Follows(v, d, r, e)
    BY <1>9, <1>10, <1>11, <1>12, <1>13, <2>1 DEF Follows
  <2> QED
    BY <1>1, <1>12, <2>2, <2>3, PickedBy
<1>15. w[k] = q[i]
  BY <1>3, <1>5
<1> QED
  BY <1>3, <1>5, <1>14, <1>15 DEF M, k, v, w, c

\* What is picked from an increasing sequence increases.
LEMMA PickedIncreases ==
  ASSUME NEW q \in Seq(Int), NEW L, Places(L, q),
         \A i, j \in 1..Len(q) : i < j => q[i] < q[j]
  PROVE  \A m, p \in 1..Cardinality(L) : m < p => Picked(q, L)[m] < Picked(q, L)[p]
<1>1. L \in SUBSET (1..Len(q)) /\ Len(q) \in Nat
  BY DEF Places
<1>2. L \in SUBSET Int /\ IsFiniteSet(L)
  BY <1>1, PlacesAreFinite
<1>3. \A m \in 1..Cardinality(L) : Nth(L, m) \in L /\ Picked(q, L)[m] = q[Nth(L, m)]
  BY <1>1, PickedEntries
<1>4. \A m, p \in 1..Cardinality(L) : m < p => Nth(L, m) < Nth(L, p)
  BY <1>2, NthIncreases
<1> QED
  BY <1>1, <1>3, <1>4
===============================================================================
