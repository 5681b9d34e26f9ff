------------------------- MODULE OrderedLists_proof -------------------------
(* What filtering and joining lists makes of their entries, for the pages and *)
(* the image parts: their order, their places and the set of them.            *)
EXTENDS OrderedLists, FiniteSetTheorems, SequenceTheorems, TLAPS

\* A set of numbers that is not empty has a least one.
LEMMA LeastNumber ==
  ASSUME NEW S, S \subseteq Nat, S # {}
  PROVE  \E k \in S : \A j \in S : k <= j
<1> DEFINE R == OpToRel(<, Nat)
<1>1. \A x, y \in Nat : <<x, y>> \in R <=> x < y
  BY DEF OpToRel
<1>2. PICK k \in S : \A j \in S : ~(<<j, k>> \in R)
  <2> HIDE DEF R
  <2>1. IsWellFoundedOn(R, Nat)
    BY NatLessThanWellFounded DEF R
  <2> QED BY <2>1, WFMin, Zenon
<1> HIDE DEF R
<1>3. \A j \in S : k <= j
  <2> SUFFICES ASSUME NEW j \in S PROVE k <= j
    OBVIOUS
  <2>1. j \in Nat /\ k \in Nat
    OBVIOUS
  <2>2. ~(<<j, k>> \in R)
    BY <1>2
  <2>3. ~(j < k)
    BY <1>1, <2>1, <2>2
  <2> QED BY <2>1, <2>3
<1> QED BY <1>3

LEMMA GreatestNumber ==
  ASSUME NEW n \in Nat, NEW S, S \subseteq 1..n, S # {}
  PROVE  \E k \in S : \A j \in S : j <= k
<1> DEFINE T == {m \in 0..n : n - m \in S}
<1>1. T \subseteq Nat /\ T # {}
  <2>1. PICK j \in S : TRUE
    OBVIOUS
  <2>2. j \in 1..n
    BY <2>1
  <2>3. n - j \in 0..n /\ n - (n - j) = j
    BY <2>2
  <2>4. n - j \in T
    BY <2>1, <2>3
  <2>5. T \subseteq Nat
    OBVIOUS
  <2> QED BY <2>4, <2>5
<1>2. PICK m \in T : \A i \in T : m <= i
  BY <1>1, LeastNumber
<1>3. \A j \in S : n - j \in T
  <2> SUFFICES ASSUME NEW j \in S PROVE n - j \in T
    OBVIOUS
  <2>1. j \in 1..n
    OBVIOUS
  <2>2. n - j \in 0..n /\ n - (n - j) = j
    BY <2>1
  <2> QED BY <2>2
<1> QED BY <1>2, <1>3

LEMMA UpToN == ASSUME NEW n \in Nat PROVE IsFiniteSet(1..n) /\ Cardinality(1..n) = n
BY FS_Interval

\* A finite set of numbers in order: each of its members once.
LEMMA InOrderEnumerates ==
  ASSUME NEW N \in Nat, NEW S \in SUBSET (1..N)
  PROVE  /\ Cardinality(S) \in Nat /\ DOMAIN InOrder(S) = 1..Cardinality(S)
         /\ \A k \in 1..Cardinality(S) : InOrder(S)[k] \in S
         /\ \A n \in S : \E k \in 1..Cardinality(S) : InOrder(S)[k] = n
         /\ \A j, k \in 1..Cardinality(S) : InOrder(S)[j] = InOrder(S)[k] => j = k
         /\ \A j, k \in 1..Cardinality(S) : j < k => InOrder(S)[j] < InOrder(S)[k]
<1> DEFINE Upto(n) == {m \in S : m <= n}
           C == Cardinality(S)
           rank == [n \in S |-> Cardinality(Upto(n))]
<1>1. IsFiniteSet(S) /\ C \in Nat
  <2>1. IsFiniteSet(1..N)
    BY FS_Interval
  <2>2. IsFiniteSet(S)
    BY <2>1, FS_Subset
  <2> QED BY <2>2, FS_CardinalityType
<1>2. \A n \in S : IsFiniteSet(Upto(n)) /\ Cardinality(Upto(n)) \in 1..C
  <2> SUFFICES ASSUME NEW n \in S PROVE IsFiniteSet(Upto(n)) /\ Cardinality(Upto(n)) \in 1..C
    OBVIOUS
  <2>1. Upto(n) \in SUBSET S /\ n \in Upto(n)
    OBVIOUS
  <2> HIDE DEF Upto
  <2>2. IsFiniteSet(Upto(n)) /\ Cardinality(Upto(n)) <= C
    BY <1>1, <2>1, FS_Subset
  <2>3. Cardinality(Upto(n)) \in Nat
    BY <2>2, FS_CardinalityType
  <2>4. Cardinality(Upto(n)) # 0
    BY <2>1, <2>2, FS_EmptySet
  <2> QED BY <1>1, <2>2, <2>3, <2>4
<1>3. \A n, p \in S : n < p => Cardinality(Upto(n)) < Cardinality(Upto(p))
  <2> SUFFICES ASSUME NEW n \in S, NEW p \in S, n < p PROVE Cardinality(Upto(n)) < Cardinality(Upto(p))
    OBVIOUS
  <2>1. Upto(n) \in SUBSET Upto(p) /\ p \in Upto(p) /\ p \notin Upto(n)
    <3>1. \A m \in S : m \in Int /\ (m <= n => m <= p)
      OBVIOUS
    <3>2. p <= p /\ ~(p <= n)
      OBVIOUS
    <3> QED BY <3>1, <3>2
  <2> HIDE DEF Upto
  <2>2. Cardinality(Upto(n)) <= Cardinality(Upto(p)) /\ (Cardinality(Upto(n)) = Cardinality(Upto(p)) => FALSE)
    BY <1>2, <2>1, FS_Subset
  <2> QED BY <1>2, <2>2
<1> HIDE DEF Upto
<1>4. rank \in Injection(S, 1..C)
  <2>1. rank \in [S -> 1..C]
    BY <1>2
  <2>2. \A n, p \in S : rank[n] = rank[p] => n = p
    <3> SUFFICES ASSUME NEW n \in S, NEW p \in S, n # p PROVE rank[n] # rank[p]
      OBVIOUS
    <3>1. n \in Int /\ p \in Int
      OBVIOUS
    <3>2. rank[n] \in Int /\ rank[p] \in Int
      BY <1>2
    <3>3. CASE n < p
      BY <1>3, <3>2, <3>3
    <3>4. CASE p < n
      BY <1>3, <3>2, <3>4
    <3> QED BY <3>1, <3>3, <3>4
  <2> QED BY <2>1, <2>2 DEF Injection, IsInjective
<1>5. IsFiniteSet(1..C) /\ Cardinality(1..C) = C
  BY <1>1, FS_Interval
<1>6. rank \in Surjection(S, 1..C)
  BY <1>4, <1>5, FS_Injection
<1>7. \A k \in 1..C : \E n \in S : Cardinality(Upto(n)) = k
  BY <1>6 DEF Surjection
<1>8. \A n, p \in S : Cardinality(Upto(n)) = Cardinality(Upto(p)) => n = p
  BY <1>4 DEF Injection, IsInjective
<1>9. InOrder(S) = [k \in 1..C |-> CHOOSE n \in S : Cardinality(Upto(n)) = k]
  BY DEF InOrder, Upto
<1>10. \A k \in 1..C : InOrder(S)[k] \in S /\ Cardinality(Upto(InOrder(S)[k])) = k
  BY <1>7, <1>9
<1> HIDE DEF C, rank
<1>11. \A n \in S : InOrder(S)[Cardinality(Upto(n))] = n
  BY <1>2, <1>8, <1>10
<1>12. DOMAIN InOrder(S) = 1..C
  BY <1>9
<1>13. \A n \in S : \E k \in 1..C : InOrder(S)[k] = n
  BY <1>2, <1>11
<1>14. \A j, k \in 1..C : InOrder(S)[j] = InOrder(S)[k] => j = k
  BY <1>10
<1>15. \A j, k \in 1..C : j < k => InOrder(S)[j] < InOrder(S)[k]
  <2> SUFFICES ASSUME NEW j \in 1..C, NEW k \in 1..C, j < k PROVE InOrder(S)[j] < InOrder(S)[k]
    OBVIOUS
  <2>1. PICK n \in S, p \in S : n = InOrder(S)[j] /\ p = InOrder(S)[k]
    BY <1>10
  <2>2. Cardinality(Upto(n)) = j /\ Cardinality(Upto(p)) = k
    BY <1>10, <2>1
  <2>3. n \in Int /\ p \in Int /\ j \in Int /\ k \in Int
    BY <1>1 DEF C
  <2>4. n # p /\ ~(p < n)
    BY <1>3, <2>2, <2>3
  <2> QED BY <2>1, <2>3, <2>4
<1> QED BY <1>1, <1>10, <1>12, <1>13, <1>14, <1>15 DEF C

\* filter: the entries of some places, each once and in the order of the list.
LEMMA FilteredIs ==
  ASSUME NEW V, NEW l \in Seq(V), NEW P \in SUBSET DOMAIN l
  PROVE  /\ Filtered(l, P) \in Seq(V)
         /\ \E at \in [DOMAIN Filtered(l, P) -> P] :
              /\ \A k \in DOMAIN Filtered(l, P) : Filtered(l, P)[k] = l[at[k]]
              /\ \A n \in P : \E k \in DOMAIN Filtered(l, P) : at[k] = n
              /\ \A j, k \in DOMAIN Filtered(l, P) : j < k => at[j] < at[k]
<1> DEFINE C == Cardinality(P)
           at == InOrder(P)
           f == Filtered(l, P)
<1>1. /\ C \in Nat /\ DOMAIN at = 1..C
      /\ \A k \in 1..C : at[k] \in P
      /\ \A n \in P : \E k \in 1..C : at[k] = n
      /\ \A j, k \in 1..C : j < k => at[j] < at[k]
  <2>1. P \in SUBSET (1..Len(l)) /\ Len(l) \in Nat
    OBVIOUS
  <2> QED BY <2>1, InOrderEnumerates
<1>2. at = [k \in 1..C |-> at[k]]
  BY <1>1 DEF InOrder
<1>3. f = [k \in 1..C |-> l[at[k]]]
  BY <1>1 DEF Filtered
<1> HIDE DEF C, at, f
<1>4. f \in Seq(V) /\ DOMAIN f = 1..C
  <2>1. \A n \in P : l[n] \in V
    OBVIOUS
  <2> QED BY <1>1, <1>3, <2>1
<1>5. at \in [DOMAIN f -> P]
  BY <1>1, <1>2, <1>4
<1>6. \A k \in DOMAIN f : f[k] = l[at[k]]
  BY <1>3
<1> QED BY <1>1, <1>4, <1>5, <1>6 DEF f

\* The same without the places.
LEMMA FilteredEntries ==
  ASSUME NEW V, NEW l \in Seq(V), NEW P \in SUBSET DOMAIN l
  PROVE  /\ Filtered(l, P) \in Seq(V)
         /\ \A k \in DOMAIN Filtered(l, P) : \E n \in P : Filtered(l, P)[k] = l[n]
         /\ \A n \in P : \E k \in DOMAIN Filtered(l, P) : Filtered(l, P)[k] = l[n]
         /\ Len(Filtered(l, P)) <= Len(l)
<1> DEFINE f == Filtered(l, P)
<1>1. /\ f \in Seq(V)
      /\ \E at \in [DOMAIN f -> P] :
              /\ \A k \in DOMAIN f : f[k] = l[at[k]]
              /\ \A n \in P : \E k \in DOMAIN f : at[k] = n
              /\ \A j, k \in DOMAIN f : j < k => at[j] < at[k]
  BY FilteredIs
<1>2. PICK at \in [DOMAIN f -> P] :
              /\ \A k \in DOMAIN f : f[k] = l[at[k]]
              /\ \A n \in P : \E k \in DOMAIN f : at[k] = n
              /\ \A j, k \in DOMAIN f : j < k => at[j] < at[k]
  BY <1>1
<1> HIDE DEF f
<1>3. \A k \in DOMAIN f : at[k] \in P
  OBVIOUS
<1>4. Len(f) <= Len(l)
  <2>1. DOMAIN f = 1..Len(f) /\ Len(f) \in Nat /\ P \in SUBSET (1..Len(l)) /\ Len(l) \in Nat
    BY <1>1
  <2>2. at \in Injection(DOMAIN f, P)
    <3>1. \A j, k \in DOMAIN f : at[j] = at[k] => j = k
      <4> SUFFICES ASSUME NEW j \in DOMAIN f, NEW k \in DOMAIN f, j # k PROVE at[j] # at[k]
        OBVIOUS
      <4>1. at[j] \in Int /\ at[k] \in Int /\ j \in Int /\ k \in Int
        BY <1>3, <2>1
      <4> QED BY <1>2, <4>1
    <3> QED BY <3>1 DEF Injection, IsInjective
  <2>3. IsFiniteSet(1..Len(l)) /\ Cardinality(1..Len(l)) = Len(l)
    BY <2>1, UpToN
  <2>4. IsFiniteSet(P) /\ Cardinality(P) <= Len(l)
    BY <2>1, <2>3, FS_Subset
  <2>5. Cardinality(DOMAIN f) <= Cardinality(P)
    BY <2>2, <2>4, FS_Injection
  <2>6. Cardinality(DOMAIN f) = Len(f)
    BY <2>1, UpToN
  <2>7. Cardinality(P) \in Nat
    BY <2>4, FS_CardinalityType
  <2> QED BY <2>1, <2>4, <2>5, <2>6, <2>7
<1> QED BY <1>1, <1>2, <1>3, <1>4 DEF f

\* A function on 1..n is a list.
LEMMA ListByIndex ==
  ASSUME NEW n \in Nat, NEW V, NEW g, g = [i \in 1..n |-> g[i]], \A i \in 1..n : g[i] \in V
  PROVE  g \in Seq(V) /\ DOMAIN g = 1..n /\ Len(g) = n
<1>1. g \in [1..n -> V]
  OBVIOUS
<1> QED BY <1>1

\* A list some of whose entries are left out is shorter.
LEMMA FilteredShorter ==
  ASSUME NEW V, NEW l \in Seq(V), NEW P \in SUBSET DOMAIN l, P # DOMAIN l
  PROVE  Len(Filtered(l, P)) < Len(l) /\ Len(Filtered(l, P)) \in Nat
<1>1. Len(l) \in Nat /\ DOMAIN l = 1..Len(l)
  OBVIOUS
<1>2. IsFiniteSet(DOMAIN l) /\ Cardinality(DOMAIN l) = Len(l)
  BY <1>1, UpToN
<1>3. IsFiniteSet(P) /\ Cardinality(P) \in Nat /\ Cardinality(P) < Len(l)
  <2>1. Cardinality(P) <= Cardinality(DOMAIN l) /\ (Cardinality(P) = Cardinality(DOMAIN l) => P = DOMAIN l) /\ IsFiniteSet(P)
    BY <1>2, FS_Subset
  <2>2. Cardinality(P) \in Nat
    BY <2>1, FS_CardinalityType
  <2> QED BY <1>1, <1>2, <2>1, <2>2
<1>4. DOMAIN InOrder(P) = 1..Cardinality(P)
  BY DEF InOrder
<1>5. DOMAIN Filtered(l, P) = 1..Cardinality(P)
  BY <1>4 DEF Filtered
<1>6. Filtered(l, P) \in Seq(V)
  BY FilteredEntries
<1>7. Len(Filtered(l, P)) = Cardinality(P)
  <2> DEFINE f == Filtered(l, P)
  <2>1. f \in Seq(V) /\ DOMAIN f = 1..Cardinality(P)
    BY <1>5, <1>6
  <2> HIDE DEF f
  <2>2. Len(f) \in Nat /\ DOMAIN f = 1..Len(f)
    BY <2>1
  <2>3. \A i \in Nat : i \in 1..Len(f) <=> i \in 1..Cardinality(P)
    BY <2>1, <2>2
  <2>4. Len(f) = Cardinality(P)
    <3>1. CASE Len(f) < Cardinality(P)
      <4>1. Cardinality(P) \in 1..Cardinality(P)
        BY <1>3, <2>2, <3>1
      <4> QED BY <1>3, <2>2, <2>3, <3>1, <4>1
    <3>2. CASE Len(f) > Cardinality(P)
      <4>1. Len(f) \in 1..Len(f)
        BY <1>3, <2>2, <3>2
      <4> QED BY <1>3, <2>2, <2>3, <3>2, <4>1
    <3> QED BY <1>3, <2>2, <3>1, <3>2
  <2> QED BY <2>4 DEF f
<1> QED BY <1>3, <1>7

\* A list over a set is one over every larger set.
LEMMA SeqLarger ==
  ASSUME NEW V, NEW W, V \subseteq W, NEW l \in Seq(V)
  PROVE  l \in Seq(W)
<1>1. Len(l) \in Nat /\ l = [n \in 1..Len(l) |-> l[n]] /\ \A n \in 1..Len(l) : l[n] \in W
  OBVIOUS
<1> QED BY <1>1, ListByIndex
=============================================================================
