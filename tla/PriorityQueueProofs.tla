------------------------ MODULE PriorityQueueProofs ------------------------
(***************************************************************************)
(* What the operations of a PriorityQueue return, for queues of any length *)
(* and elements of any kind.                                               *)
(***************************************************************************)
EXTENDS PriorityQueue, FiniteSetTheorems, FunctionTheorems,
        WellFoundedInduction, TLAPS

\* A non-empty set of naturals has a least element.
LEMMA LeastNat ==
  ASSUME NEW S \in SUBSET Nat, S # {}
  PROVE  \E n \in S : \A k \in S : n <= k
<1>1. PICK n \in S : \A k \in S : ~ (<<k, n>> \in OpToRel(<, Nat))
  BY NatLessThanWellFounded, WFMin
<1>2. ASSUME NEW k \in S PROVE n <= k
  <2>1. ~ (<<k, n>> \in OpToRel(<, Nat))
    BY <1>1
  <2>2. ~ (k < n)
    BY <2>1 DEF OpToRel
  <2> QED BY <2>2
<1> QED BY <1>2

\* A function on 1..n is a sequence of length n.
LEMMA FcnIsSeq ==
  ASSUME NEW S, NEW n \in Nat, NEW f \in [1..n -> S]
  PROVE  f \in Seq(S) /\ Len(f) = n
OBVIOUS

\* The walk of getLastWithPriority() passes at most the whole queue.
LEMMA PassedByBound ==
  ASSUME NEW S, NEW q \in Seq(S), NEW p
  PROVE  PassedBy(q, p) \in 0..Len(q)
<1> DEFINE T == {i \in 1..Len(q) : \A j \in 1..i : p <= q[j].prio}
<1>1. Len(q) \in Nat
  OBVIOUS
<1>2. IsFiniteSet(1..Len(q)) /\ Cardinality(1..Len(q)) = Len(q)
  BY <1>1, FS_Interval
<1>3. T \in SUBSET (1..Len(q))
  OBVIOUS
<1>4. IsFiniteSet(T) /\ Cardinality(T) <= Len(q)
  BY <1>2, <1>3, FS_Subset
<1>5. Cardinality(T) \in Nat
  BY <1>4, FS_CardinalityType
<1> QED BY <1>1, <1>4, <1>5 DEF PassedBy

\* insert() adds one element to the queue.
LEMMA InsertType ==
  ASSUME NEW S, NEW q \in Seq(S), NEW m, NEW p, [m EXCEPT !.prio = p] \in S
  PROVE  Insert(q, m, p) \in Seq(S) /\ Len(Insert(q, m, p)) = Len(q) + 1
<1> DEFINE n == PassedBy(q, p)
           x == [m EXCEPT !.prio = p]
<1>1. n \in 0..Len(q) /\ Len(q) \in Nat
  BY PassedByBound
<1> HIDE DEF n, x
<1>2. SubSeq(q, 1, n) \in Seq(S) /\ Len(SubSeq(q, 1, n)) = n
  BY <1>1
<1>3. SubSeq(q, n + 1, Len(q)) \in Seq(S) /\ Len(SubSeq(q, n + 1, Len(q))) = Len(q) - n
  BY <1>1
<1>4. x \in S
  BY DEF x
<1>5. Insert(q, m, p) = SubSeq(q, 1, n) \o <<x>> \o SubSeq(q, n + 1, Len(q))
  BY DEF Insert, n, x
<1> QED BY <1>1, <1>2, <1>3, <1>4, <1>5

\* Where insert() puts the new element: everything else keeps its order.
LEMMA InsertAt ==
  ASSUME NEW S, NEW q \in Seq(S), NEW m, NEW p, [m EXCEPT !.prio = p] \in S
  PROVE  \E n \in 0..Len(q) : \A i \in 1..Len(q) + 1 :
           Insert(q, m, p)[i] = IF i <= n THEN q[i]
                                ELSE IF i = n + 1 THEN [m EXCEPT !.prio = p] ELSE q[i - 1]
<1> DEFINE n == PassedBy(q, p)
           x == [m EXCEPT !.prio = p]
           L == Len(q)
           a == SubSeq(q, 1, n)
           z == SubSeq(q, n + 1, L)
<1>1. n \in 0..L /\ L \in Nat
  BY PassedByBound
<1>2. Insert(q, m, p) = a \o <<x>> \o z
  BY DEF Insert
<1>3. x \in S
  OBVIOUS
<1> HIDE DEF n, x
<1>4. a \in Seq(S) /\ Len(a) = n /\ \A i \in 1..n : a[i] = q[i]
  BY <1>1
<1>5. z \in Seq(S) /\ Len(z) = L - n /\ \A i \in 1..L - n : z[i] = q[n + i]
  BY <1>1
<1> HIDE DEF a, z
<1> DEFINE y == a \o <<x>>
<1>6. y \in Seq(S) /\ Len(y) = n + 1
      /\ \A i \in 1..n + 1 : y[i] = IF i <= n THEN a[i] ELSE x
  BY <1>1, <1>3, <1>4
<1> HIDE DEF y
<1>7. \A i \in 1..L + 1 : (y \o z)[i] = IF i <= n + 1 THEN y[i] ELSE z[i - (n + 1)]
  BY <1>1, <1>5, <1>6
<1>8. ASSUME NEW i \in 1..L + 1
      PROVE  (y \o z)[i] = IF i <= n THEN q[i] ELSE IF i = n + 1 THEN x ELSE q[i - 1]
  <2>1. CASE i <= n + 1
    <3>1. i \in 1..n + 1 /\ (i <= n => i \in 1..n) /\ (~(i <= n) => i = n + 1)
      BY <1>1, <2>1
    <3> QED BY <1>4, <1>6, <1>7, <2>1, <3>1
  <2>2. CASE ~(i <= n + 1)
    <3>0. i \in Nat /\ L \in Nat /\ n \in Nat /\ n + 1 < i /\ i <= L + 1
      BY <1>1, <2>2
    <3>1. i - (n + 1) \in 1..L - n /\ n + (i - (n + 1)) = i - 1
          /\ ~(i <= n) /\ i # n + 1
      BY <3>0
    <3>2. (y \o z)[i] = z[i - (n + 1)]
      BY <1>7, <2>2
    <3>3. z[i - (n + 1)] = q[i - 1]
      BY <1>5, <3>1
    <3> QED BY <3>1, <3>2, <3>3
  <2> QED BY <2>1, <2>2
<1>9. Insert(q, m, p) = y \o z
  BY <1>2 DEF y
<1> QED BY <1>1, <1>8, <1>9 DEF x

\* The k-th element of a finite set of naturals exists.
LEMMA KthElement ==
  ASSUME NEW S \in SUBSET Nat, IsFiniteSet(S),
         NEW k \in 1..Cardinality(S)
  PROVE  \E i \in S : Cardinality({j \in S : j < i}) = k - 1
<1> DEFINE Below(i) == {j \in S : j < i}
           Found(n) == \E i \in S : Cardinality(Below(i)) = n - 1
           Missing  == {n \in 1..Cardinality(S) : ~Found(n)}
<1>0. Cardinality(S) \in Nat
  BY FS_CardinalityType
<1>1. \A i \in S : Below(i) \in SUBSET S
  OBVIOUS
<1>2. \A i \in S : IsFiniteSet(Below(i)) /\ Cardinality(Below(i)) \in Nat
  <2> SUFFICES ASSUME NEW i \in S PROVE IsFiniteSet(Below(i)) /\ Cardinality(Below(i)) \in Nat
    OBVIOUS
  <2>1. IsFiniteSet(Below(i))
    <3> HIDE DEF Below
    <3> QED BY <1>1, FS_Subset
  <2> QED BY <2>1, FS_CardinalityType
<1>3. SUFFICES ASSUME Missing # {} PROVE FALSE
  OBVIOUS
<1>4. PICK n \in Missing : \A m \in Missing : n <= m
  <2>1. Missing \in SUBSET Nat
    BY <1>0
  <2> HIDE DEF Missing
  <2> QED BY <1>3, <2>1, LeastNat
<1>5. n \in 1..Cardinality(S) /\ ~Found(n)
  OBVIOUS
<1>6. CASE n = 1
  <2>1. S # {}
    BY <1>0, <1>5, FS_EmptySet
  <2>2. PICK i \in S : \A j \in S : i <= j
    BY <2>1, LeastNat
  <2>3. \A j \in S : ~(j < i)
    BY <2>2
  <2>4. Below(i) = {}
    BY <2>3
  <2>5. Cardinality(Below(i)) = n - 1
    BY <1>6, <2>4, FS_EmptySet
  <2> QED BY <1>5, <2>5
<1>7. CASE n # 1
  <2>1. n - 1 \in 1..Cardinality(S) /\ ~(n <= n - 1)
    BY <1>0, <1>5, <1>7
  <2>2. Found(n - 1)
    <3>1. n - 1 \notin Missing
      <4> HIDE DEF Missing
      <4> QED BY <1>4, <2>1
    <3> QED BY <2>1, <3>1
  <2>3. PICK i \in S : Cardinality(Below(i)) = n - 1 - 1
    BY <2>2
  <2> DEFINE Upto  == Below(i) \cup {i}
             Above == {j \in S : i < j}
  <2>4. IsFiniteSet(Upto) /\ Cardinality(Upto) = n - 1
    <3>1. i \notin Below(i)
      OBVIOUS
    <3>2. IsFiniteSet(Upto) /\ Cardinality(Upto) = Cardinality(Below(i)) + 1
      <4> HIDE DEF Below
      <4> QED BY <1>2, <3>1, FS_AddElement
    <3> QED BY <1>5, <2>3, <3>2
  <2>5. Above # {}
    <3>1. SUFFICES ASSUME Above = {} PROVE FALSE
      OBVIOUS
    <3>2. \A j \in S : j < i \/ j = i
      BY <3>1
    <3>3. S = Upto
      BY <3>2
    <3>4. Cardinality(S) = n - 1
      <4> HIDE DEF Upto
      <4> QED BY <2>4, <3>3
    <3> QED BY <1>0, <1>5, <3>4
  <2>6. PICK a \in Above : \A j \in Above : a <= j
    <3>1. Above \in SUBSET Nat
      OBVIOUS
    <3> HIDE DEF Above
    <3> QED BY <2>5, <3>1, LeastNat
  <2>7. \A j \in S : j < a <=> j < i \/ j = i
    BY <2>6
  <2>8. Below(a) = Upto
    BY <2>7
  <2>9. Cardinality(Below(a)) = n - 1
    BY <2>4, <2>8
  <2> QED BY <1>5, <2>9
<1> QED BY <1>6, <1>7

\* remove() leaves elements of the queue, and no more of them.
LEMMA WithoutType ==
  ASSUME NEW S, NEW q \in Seq(S), NEW gone
  PROVE  Without(q, gone) \in Seq(S) /\ Len(Without(q, gone)) <= Len(q)
<1> DEFINE kept   == (1..Len(q)) \ gone
           nth(k) == CHOOSE i \in kept : Cardinality({j \in kept : j < i}) = k - 1
           w      == [k \in 1..Cardinality(kept) |-> q[nth(k)]]
<1>1. Len(q) \in Nat
  OBVIOUS
<1>2. IsFiniteSet(1..Len(q)) /\ Cardinality(1..Len(q)) = Len(q)
  BY <1>1, FS_Interval
<1>3. kept \in SUBSET (1..Len(q))
  OBVIOUS
<1>4. IsFiniteSet(kept) /\ Cardinality(kept) <= Len(q)
  BY <1>2, <1>3, FS_Subset
<1>5. Cardinality(kept) \in Nat
  BY <1>4, FS_CardinalityType
<1>6. ASSUME NEW k \in 1..Cardinality(kept) PROVE q[nth(k)] \in S
  <2>1. \E i \in kept : Cardinality({j \in kept : j < i}) = k - 1
    <3>1. kept \in SUBSET Nat
      BY <1>1
    <3> QED BY <1>4, <3>1, KthElement
  <2>2. nth(k) \in kept
    BY <2>1
  <2> QED BY <2>2
<1>7. w \in [1..Cardinality(kept) -> S]
  BY <1>6
<1>8. w \in Seq(S) /\ Len(w) = Cardinality(kept)
  <2> HIDE DEF w, kept
  <2> QED BY <1>5, <1>7, FcnIsSeq
<1>9. Without(q, gone) = w
  BY DEF Without
<1> QED BY <1>4, <1>8, <1>9
\* The elements that remove() leaves are those at the other positions, each of
\* them once.
LEMMA WithoutNth ==
  ASSUME NEW S, NEW q \in Seq(S), NEW gone
  PROVE  \E f \in [1..Len(Without(q, gone)) -> (1..Len(q)) \ gone] :
           /\ \A j, k \in DOMAIN f : f[j] = f[k] => j = k
           /\ \A i \in (1..Len(q)) \ gone : \E k \in DOMAIN f : f[k] = i
           /\ \A k \in DOMAIN f : Without(q, gone)[k] = q[f[k]]
<1> DEFINE kept   == (1..Len(q)) \ gone
           N      == Cardinality(kept)
           nth(k) == CHOOSE i \in kept : Cardinality({j \in kept : j < i}) = k - 1
           w      == [k \in 1..N |-> q[nth(k)]]
           f      == [k \in 1..N |-> nth(k)]
<1>1. Len(q) \in Nat
  OBVIOUS
<1>2. IsFiniteSet(1..Len(q))
  BY <1>1, FS_Interval
<1>3. kept \in SUBSET (1..Len(q)) /\ kept \in SUBSET Nat
  BY <1>1
<1>4. IsFiniteSet(kept)
  BY <1>2, <1>3, FS_Subset
<1>5. N \in Nat
  BY <1>4, FS_CardinalityType
<1>6. ASSUME NEW k \in 1..N
      PROVE  nth(k) \in kept /\ Cardinality({j \in kept : j < nth(k)}) = k - 1
  <2>1. \E i \in kept : Cardinality({j \in kept : j < i}) = k - 1
    BY <1>3, <1>4, KthElement
  <2> QED BY <2>1
<1>7. w \in [1..N -> S]
  <2>1. ASSUME NEW k \in 1..N PROVE q[nth(k)] \in S
    <3>1. nth(k) \in 1..Len(q)
      BY <1>3, <1>6
    <3> HIDE DEF nth
    <3> QED BY <3>1
  <2> QED BY <2>1
<1>8. Without(q, gone) = w
  BY DEF Without
<1>9. Len(w) = N
  <2> HIDE DEF w, kept
  <2> QED BY <1>5, <1>7, FcnIsSeq
<1>10. f \in [1..N -> kept]
  BY <1>6
<1>11. ASSUME NEW j \in 1..N, NEW k \in 1..N, f[j] = f[k] PROVE j = k
  <2>1. nth(j) = nth(k)
    BY <1>11
  <2>2. j - 1 = k - 1
    BY <1>6, <2>1
  <2> QED BY <1>5, <2>2
<1>12. f \in Injection(1..N, kept)
  <2> HIDE DEF f, kept
  <2> QED BY <1>10, <1>11, Fun_IsInj
<1>13. Cardinality(1..N) = N
  BY <1>5, FS_Interval
<1>14. f \in Surjection(1..N, kept)
  BY <1>4, <1>12, <1>13, FS_Injection
<1>15. \A i \in kept : \E k \in 1..N : f[k] = i
  BY <1>14 DEF Surjection
<1>16. \A k \in 1..N : w[k] = q[f[k]]
  OBVIOUS
<1>17. DOMAIN f = 1..N
  OBVIOUS
<1> HIDE DEF f, w, kept
<1>18. Len(Without(q, gone)) = N
  BY <1>8, <1>9
<1>19. /\ \A j, k \in DOMAIN f : f[j] = f[k] => j = k
       /\ \A i \in kept : \E k \in DOMAIN f : f[k] = i
       /\ \A k \in DOMAIN f : Without(q, gone)[k] = q[f[k]]
  BY <1>8, <1>11, <1>15, <1>16, <1>17
<1>20. f \in [1..Len(Without(q, gone)) -> kept]
  BY <1>10, <1>18
<1> QED BY <1>19, <1>20 DEF kept
=============================================================================
