--------------------------- MODULE BusQueueProofs ---------------------------
(***************************************************************************)
(* What becomes of the operations in the lists and queues of a BusAdapter  *)
(* when elements are inserted, removed, turned and concatenated: no        *)
(* element is lost and none comes in twice.  For lists of any length.      *)
(***************************************************************************)
EXTENDS BusAdapter, PriorityQueueProofs, SequenceTheorems

\* The elements of a list, and a list in which each of them is there once.
Ran(s) == {s[i] : i \in 1..Len(s)}
Distinct(s) == \A i, j \in 1..Len(s) : s[i] = s[j] => i = j

\* A queue in which each operation is there once.
Jobs == [op : Ops, prio : {0, 1}]
Once(q) == \A i, j \in 1..Len(q) : q[i].op = q[j].op => i = j

-----------------------------------------------------------------------------
(***************************************************************************)
(* Lists.                                                                  *)
(***************************************************************************)

LEMMA EmptyList == Ran(<<>>) = {} /\ Distinct(<<>>) /\ Once(<<>>) /\ OpsIn(<<>>) = {}
BY DEF Ran, Distinct, Once, OpsIn

\* The elements of a list are of its type.
LEMMA RanType ==
  ASSUME NEW S, NEW s \in Seq(S)
  PROVE  Ran(s) \subseteq S
BY DEF Ran

\* The first element leaves a list.
LEMMA TailOf ==
  ASSUME NEW S, NEW s \in Seq(S), s # <<>>, Distinct(s)
  PROVE  /\ Tail(s) \in Seq(S) /\ Distinct(Tail(s))
         /\ Head(s) \in Ran(s) /\ Head(s) \notin Ran(Tail(s))
         /\ Ran(s) = Ran(Tail(s)) \cup {Head(s)}
<1>1. Len(s) \in Nat \ {0} /\ Head(s) = s[1]
  OBVIOUS
<1>2. /\ Tail(s) \in Seq(S) /\ Len(Tail(s)) = Len(s) - 1
      /\ \A i \in 1..Len(s) - 1 : Tail(s)[i] = s[i + 1]
  OBVIOUS
<1>3. Distinct(Tail(s))
  <2> SUFFICES ASSUME NEW i \in 1..Len(s) - 1, NEW j \in 1..Len(s) - 1,
                      Tail(s)[i] = Tail(s)[j]
               PROVE  i = j
    BY <1>2 DEF Distinct
  <2>1. s[i + 1] = s[j + 1] /\ i + 1 \in 1..Len(s) /\ j + 1 \in 1..Len(s)
    BY <1>1, <1>2
  <2>2. i + 1 = j + 1
    BY <2>1 DEF Distinct
  <2> QED BY <2>2
<1>4. Head(s) \in Ran(s)
  BY <1>1 DEF Ran
<1>5. Head(s) \notin Ran(Tail(s))
  <2> SUFFICES ASSUME NEW i \in 1..Len(s) - 1, Tail(s)[i] = s[1] PROVE FALSE
    BY <1>1, <1>2 DEF Ran
  <2>1. s[i + 1] = s[1] /\ i + 1 \in 1..Len(s) /\ 1 \in 1..Len(s) /\ i + 1 # 1
    BY <1>1, <1>2
  <2> QED BY <2>1 DEF Distinct
<1>6. Ran(s) \subseteq Ran(Tail(s)) \cup {Head(s)}
  <2> SUFFICES ASSUME NEW i \in 1..Len(s), i # 1 PROVE s[i] \in Ran(Tail(s))
    BY <1>1 DEF Ran
  <2>1. i - 1 \in 1..Len(s) - 1 /\ (i - 1) + 1 = i
    BY <1>1
  <2>2. Tail(s)[i - 1] = s[i]
    BY <1>2, <2>1
  <2> QED BY <1>2, <2>1, <2>2 DEF Ran
<1>7. Ran(Tail(s)) \subseteq Ran(s)
  <2> SUFFICES ASSUME NEW i \in 1..Len(s) - 1 PROVE Tail(s)[i] \in Ran(s)
    BY <1>2 DEF Ran
  <2>1. Tail(s)[i] = s[i + 1] /\ i + 1 \in 1..Len(s)
    BY <1>1, <1>2
  <2> QED BY <2>1 DEF Ran
<1> QED BY <1>2, <1>3, <1>4, <1>5, <1>6, <1>7

\* One list behind another.
LEMMA Joined ==
  ASSUME NEW S, NEW s \in Seq(S), NEW t \in Seq(S),
         Distinct(s), Distinct(t), Ran(s) \cap Ran(t) = {}
  PROVE  /\ s \o t \in Seq(S) /\ Distinct(s \o t)
         /\ Ran(s \o t) = Ran(s) \cup Ran(t)
<1> DEFINE u == s \o t  m == Len(s)  n == Len(t)
<1>1. m \in Nat /\ n \in Nat
  OBVIOUS
<1>2. /\ u \in Seq(S) /\ Len(u) = m + n
      /\ \A i \in 1..m + n : u[i] = IF i <= m THEN s[i] ELSE t[i - m]
  OBVIOUS
<1>3. \A i \in 1..m + n : \/ i \in 1..m /\ u[i] = s[i]
                          \/ i - m \in 1..n /\ u[i] = t[i - m]
  BY <1>1, <1>2
<1>4. \A i \in 1..m : s[i] \in Ran(s)
  BY DEF Ran
<1>5. \A i \in 1..n : t[i] \in Ran(t)
  BY DEF Ran
<1> HIDE DEF u, m, n
<1>6. Distinct(u)
  <2> SUFFICES ASSUME NEW i \in 1..m + n, NEW j \in 1..m + n, u[i] = u[j] PROVE i = j
    BY <1>2 DEF Distinct
  <2>1. CASE i \in 1..m /\ u[i] = s[i] /\ j \in 1..m /\ u[j] = s[j]
    BY <2>1 DEF Distinct, m
  <2>2. CASE i - m \in 1..n /\ u[i] = t[i - m] /\ j - m \in 1..n /\ u[j] = t[j - m]
    <3>1. i - m = j - m
      BY <2>2 DEF Distinct, n
    <3> QED BY <1>1, <3>1
  <2> QED BY <1>3, <1>4, <1>5, <2>1, <2>2
<1>7. Ran(u) \subseteq Ran(s) \cup Ran(t)
  <2> SUFFICES ASSUME NEW i \in 1..m + n PROVE u[i] \in Ran(s) \cup Ran(t)
    BY <1>2 DEF Ran
  <2> QED BY <1>3, <1>4, <1>5
<1>8. Ran(s) \subseteq Ran(u)
  <2> SUFFICES ASSUME NEW i \in 1..m PROVE s[i] \in Ran(u)
    BY DEF Ran, m
  <2>1. i \in 1..m + n /\ u[i] = s[i]
    BY <1>1, <1>2
  <2> QED BY <1>2, <2>1 DEF Ran
<1>9. Ran(t) \subseteq Ran(u)
  <2> SUFFICES ASSUME NEW i \in 1..n PROVE t[i] \in Ran(u)
    BY DEF Ran, n
  <2>1. i + m \in 1..m + n /\ ~(i + m <= m) /\ (i + m) - m = i
    BY <1>1
  <2>2. u[i + m] = t[i]
    BY <1>2, <2>1
  <2> QED BY <1>2, <2>1, <2>2 DEF Ran
<1> QED BY <1>2, <1>6, <1>7, <1>8, <1>9 DEF u

\* A list that is another one in a different order.
LEMMA Permuted ==
  ASSUME NEW S, NEW s \in Seq(S), Distinct(s), NEW t \in Seq(S), Len(t) = Len(s),
         NEW g \in [1..Len(s) -> 1..Len(s)],
         \A i, j \in 1..Len(s) : g[i] = g[j] => i = j,
         \A i \in 1..Len(s) : t[i] = s[g[i]]
  PROVE  Distinct(t) /\ Ran(t) = Ran(s)
<1> DEFINE L == Len(s)
<1>1. L \in Nat
  OBVIOUS
<1>2. IsFiniteSet(1..L)
  BY <1>1, FS_Interval
<1>3. g \in Injection(1..L, 1..L)
  BY Fun_IsInj
<1>4. g \in Surjection(1..L, 1..L)
  BY <1>2, <1>3, FS_Injection
<1>5. \A i \in 1..L : \E k \in 1..L : g[k] = i
  BY <1>4 DEF Surjection
<1>6. Distinct(t)
  BY DEF Distinct
<1>7. Ran(t) \subseteq Ran(s)
  <2> SUFFICES ASSUME NEW i \in 1..L PROVE t[i] \in Ran(s)
    BY DEF Ran
  <2>1. g[i] \in 1..L /\ t[i] = s[g[i]]
    OBVIOUS
  <2> QED BY <2>1 DEF Ran
<1>8. Ran(s) \subseteq Ran(t)
  <2> SUFFICES ASSUME NEW i \in 1..L PROVE s[i] \in Ran(t)
    BY DEF Ran
  <2>1. PICK k \in 1..L : g[k] = i
    BY <1>5
  <2>2. t[k] = s[i]
    BY <2>1
  <2> QED BY <2>2 DEF Ran
<1> QED BY <1>6, <1>7, <1>8

\* A list without repetitions is as long as the set of its elements is large.
LEMMA LenIsSize ==
  ASSUME NEW S, NEW s \in Seq(S), Distinct(s)
  PROVE  IsFiniteSet(Ran(s)) /\ Cardinality(Ran(s)) = Len(s)
<1> DEFINE f == [i \in 1..Len(s) |-> s[i]]
<1>1. Len(s) \in Nat
  OBVIOUS
<1>2. f \in [1..Len(s) -> Ran(s)]
  BY DEF Ran
<1>3. \A i, j \in 1..Len(s) : f[i] = f[j] => i = j
  BY DEF Distinct
<1>4. \A x \in Ran(s) : \E i \in 1..Len(s) : f[i] = x
  BY DEF Ran
<1>5. f \in Bijection(1..Len(s), Ran(s))
  <2> HIDE DEF f
  <2> QED BY <1>2, <1>3, <1>4, Fun_IsBij
<1>6. ExistsBijection(1..Len(s), Ran(s))
  BY <1>5 DEF ExistsBijection
<1>7. IsFiniteSet(1..Len(s)) /\ Cardinality(1..Len(s)) = Len(s)
  BY <1>1, FS_Interval
<1> QED BY <1>6, <1>7, FS_Bijection

\* The elements of a list at some of its positions.
LEMMA PickedOf ==
  ASSUME NEW S, NEW s \in Seq(S), Distinct(s), NEW I \in SUBSET (1..Len(s))
  PROVE  /\ Picked(s, I) \in Seq(S) /\ Distinct(Picked(s, I))
         /\ Ran(Picked(s, I)) = {s[i] : i \in I}
<1> DEFINE w == Picked(s, I)
<1>1. w \in Seq(S)
  BY WithoutType DEF Picked
<1>2. (1..Len(s)) \ ((1..Len(s)) \ I) = I
  OBVIOUS
<1>3. PICK f \in [1..Len(w) -> I] :
           /\ \A j, k \in DOMAIN f : f[j] = f[k] => j = k
           /\ \A i \in I : \E k \in DOMAIN f : f[k] = i
           /\ \A k \in DOMAIN f : w[k] = s[f[k]]
  <2> DEFINE J == (1..Len(s)) \ I
  <2>0. w = Without(s, J)
    BY DEF Picked
  <2> HIDE DEF J, w
  <2>1. \E f \in [1..Len(w) -> (1..Len(s)) \ J] :
           /\ \A j, k \in DOMAIN f : f[j] = f[k] => j = k
           /\ \A i \in (1..Len(s)) \ J : \E k \in DOMAIN f : f[k] = i
           /\ \A k \in DOMAIN f : w[k] = s[f[k]]
    BY <2>0, WithoutNth
  <2> USE DEF J
  <2> QED BY <1>2, <2>1
<1>4. DOMAIN f = 1..Len(w)
  OBVIOUS
<1> HIDE DEF w
<1>5. Distinct(w)
  <2> SUFFICES ASSUME NEW i \in 1..Len(w), NEW j \in 1..Len(w), w[i] = w[j] PROVE i = j
    BY DEF Distinct
  <2>1. s[f[i]] = s[f[j]] /\ f[i] \in 1..Len(s) /\ f[j] \in 1..Len(s)
    BY <1>3, <1>4
  <2>2. f[i] = f[j]
    BY <2>1 DEF Distinct
  <2> QED BY <1>3, <1>4, <2>2
<1>6. Ran(w) = {s[i] : i \in I}
  <2>1. ASSUME NEW k \in 1..Len(w) PROVE w[k] \in {s[i] : i \in I}
    <3>1. f[k] \in I /\ w[k] = s[f[k]]
      BY <1>3, <1>4
    <3> QED BY <3>1
  <2>2. ASSUME NEW i \in I PROVE s[i] \in Ran(w)
    <3>1. PICK k \in 1..Len(w) : f[k] = i
      BY <1>3, <1>4
    <3>2. w[k] = s[i]
      BY <1>3, <1>4, <3>1
    <3> QED BY <3>2 DEF Ran
  <2> QED BY <2>1, <2>2 DEF Ran
<1> QED BY <1>1, <1>5, <1>6 DEF w

-----------------------------------------------------------------------------
(***************************************************************************)
(* Queues of operations.                                                   *)
(***************************************************************************)

\* The operations of a queue, as a list.
LEMMA OpSeqOf ==
  ASSUME NEW q \in Seq(Jobs)
  PROVE  /\ OpSeq(q) \in Seq(Ops) /\ Len(OpSeq(q)) = Len(q)
         /\ \A i \in 1..Len(q) : OpSeq(q)[i] = q[i].op
         /\ Ran(OpSeq(q)) = OpsIn(q) /\ OpsIn(q) \subseteq Ops
         /\ Once(q) <=> Distinct(OpSeq(q))
<1>1. Len(q) \in Nat /\ \A i \in 1..Len(q) : q[i].op \in Ops
  <2>1. ASSUME NEW i \in 1..Len(q) PROVE q[i].op \in Ops
    <3>1. q[i] \in Jobs
      OBVIOUS
    <3> QED BY <3>1 DEF Jobs
  <2> QED BY <2>1
<1>2. OpSeq(q) \in [1..Len(q) -> Ops]
  BY <1>1 DEF OpSeq
<1>3. OpSeq(q) \in Seq(Ops) /\ Len(OpSeq(q)) = Len(q)
  BY <1>1, <1>2, FcnIsSeq
<1>4. \A i \in 1..Len(q) : OpSeq(q)[i] = q[i].op
  BY DEF OpSeq
<1>5. Ran(OpSeq(q)) = OpsIn(q)
  BY <1>3, <1>4 DEF Ran, OpsIn
<1>6. OpsIn(q) \subseteq Ops
  BY <1>1 DEF OpsIn
<1>7. Once(q) <=> Distinct(OpSeq(q))
  BY <1>3, <1>4 DEF Once, Distinct
<1> QED BY <1>3, <1>4, <1>5, <1>6, <1>7

\* A queue is empty when no operation is in it.
LEMMA NoneQueued ==
  ASSUME NEW q \in Seq(Jobs)
  PROVE  q = <<>> <=> OpsIn(q) = {}
<1>1. CASE q = <<>>
  BY <1>1, EmptyList
<1>2. CASE q # <<>>
  <2>1. 1 \in 1..Len(q)
    BY <1>2
  <2>2. q[1].op \in OpsIn(q)
    BY <2>1 DEF OpsIn
  <2> QED BY <1>2, <2>2
<1> QED BY <1>1, <1>2

\* insert() of an operation that is not in the queue.
LEMMA InsertOf ==
  ASSUME NEW q \in Seq(Jobs), Once(q), NEW o \in Ops, o \notin OpsIn(q), NEW p \in {0, 1}
  PROVE  /\ Insert(q, Job(o), p) \in Seq(Jobs) /\ Once(Insert(q, Job(o), p))
         /\ OpsIn(Insert(q, Job(o), p)) = OpsIn(q) \cup {o}
<1> DEFINE x == [op |-> o, prio |-> p]
           w == Insert(q, Job(o), p)
           L == Len(q)
<1>1. L \in Nat
  OBVIOUS
<1>2. [Job(o) EXCEPT !.prio = p] = x /\ x \in Jobs /\ x.op = o
  BY DEF Job, Jobs
<1>3. w \in Seq(Jobs) /\ Len(w) = L + 1
  BY <1>2, InsertType
<1>4. PICK n \in 0..L : \A i \in 1..L + 1 :
        w[i] = IF i <= n THEN q[i] ELSE IF i = n + 1 THEN x ELSE q[i - 1]
  <2>1. [Job(o) EXCEPT !.prio = p] \in Jobs
    BY <1>2
  <2>2. \E n \in 0..L : \A i \in 1..L + 1 :
           w[i] = IF i <= n THEN q[i]
                  ELSE IF i = n + 1 THEN [Job(o) EXCEPT !.prio = p] ELSE q[i - 1]
    BY <2>1, InsertAt
  <2> QED BY <1>2, <2>2
<1>5. n \in Nat /\ n <= L
  BY <1>1
<1> HIDE DEF w, x
<1>6. \A i \in 1..L + 1 : \/ i <= n /\ i \in 1..L /\ w[i] = q[i]
                          \/ i = n + 1 /\ w[i] = x
                          \/ i > n + 1 /\ i - 1 \in 1..L /\ w[i] = q[i - 1]
  <2> SUFFICES ASSUME NEW i \in 1..L + 1
               PROVE  \/ i <= n /\ i \in 1..L /\ w[i] = q[i]
                      \/ i = n + 1 /\ w[i] = x
                      \/ i > n + 1 /\ i - 1 \in 1..L /\ w[i] = q[i - 1]
    OBVIOUS
  <2>1. CASE i <= n
    BY <1>1, <1>4, <1>5, <2>1
  <2>2. CASE i = n + 1
    BY <1>1, <1>2, <1>4, <1>5, <2>2
  <2>3. CASE ~(i <= n) /\ i # n + 1
    <3>1. i > n + 1 /\ i - 1 \in 1..L
      BY <1>1, <1>5, <2>3
    <3> QED BY <1>4, <2>3, <3>1
  <2> QED BY <2>1, <2>2, <2>3
<1>7. \A i \in 1..L : q[i].op \in OpsIn(q)
  BY DEF OpsIn
<1>8. Once(w)
  <2> SUFFICES ASSUME NEW i \in 1..L + 1, NEW j \in 1..L + 1, w[i].op = w[j].op PROVE i = j
    BY <1>3 DEF Once
  <2>1. \A k, l \in 1..L : q[k].op = q[l].op => k = l
    BY DEF Once
  <2>2. i = n + 1 <=> j = n + 1
    BY <1>2, <1>5, <1>6, <1>7
  <2>3. CASE i <= n /\ j <= n
    BY <1>5, <1>6, <2>1, <2>3
  <2>4. CASE i <= n /\ j > n + 1
    <3>1. i \in 1..L /\ j - 1 \in 1..L /\ q[i].op = q[j - 1].op
      BY <1>5, <1>6, <2>4
    <3>2. i = j - 1
      BY <2>1, <3>1
    <3> QED BY <1>5, <2>4, <3>2
  <2>5. CASE j <= n /\ i > n + 1
    <3>1. j \in 1..L /\ i - 1 \in 1..L /\ q[j].op = q[i - 1].op
      BY <1>5, <1>6, <2>5
    <3>2. j = i - 1
      BY <2>1, <3>1
    <3> QED BY <1>5, <2>5, <3>2
  <2>6. CASE i > n + 1 /\ j > n + 1
    <3>1. i - 1 \in 1..L /\ j - 1 \in 1..L /\ q[i - 1].op = q[j - 1].op
      BY <1>5, <1>6, <2>6
    <3>2. i - 1 = j - 1
      BY <2>1, <3>1
    <3> QED BY <3>2
  <2> QED BY <1>6, <2>2, <2>3, <2>4, <2>5, <2>6
<1>9. OpsIn(w) \subseteq OpsIn(q) \cup {o}
  <2> SUFFICES ASSUME NEW i \in 1..L + 1 PROVE w[i].op \in OpsIn(q) \cup {o}
    BY <1>3 DEF OpsIn
  <2> QED BY <1>2, <1>6, <1>7
<1>10. OpsIn(q) \subseteq OpsIn(w)
  <2> SUFFICES ASSUME NEW i \in 1..L PROVE q[i].op \in OpsIn(w)
    BY DEF OpsIn
  <2>1. CASE i <= n
    <3>1. i \in 1..L + 1 /\ i # n + 1 /\ ~(i > n + 1)
      BY <1>1, <1>5, <2>1
    <3>2. w[i] = q[i]
      BY <1>6, <3>1
    <3> QED BY <1>3, <3>1, <3>2 DEF OpsIn
  <2>2. CASE ~(i <= n)
    <3>1. i + 1 \in 1..L + 1 /\ ~(i + 1 <= n) /\ i + 1 # n + 1 /\ (i + 1) - 1 = i
      BY <1>1, <1>5, <2>2
    <3>2. w[i + 1] = q[i]
      BY <1>6, <3>1
    <3> QED BY <1>3, <3>1, <3>2 DEF OpsIn
  <2> QED BY <2>1, <2>2
<1>11. o \in OpsIn(w)
  <2>1. n + 1 \in 1..L + 1 /\ ~(n + 1 <= n) /\ ~(n + 1 > n + 1)
    BY <1>1, <1>5
  <2>2. w[n + 1] = x
    BY <1>6, <2>1
  <2> QED BY <1>2, <1>3, <2>1, <2>2 DEF OpsIn
<1> QED BY <1>3, <1>8, <1>9, <1>10, <1>11 DEF w

\* The head of a queue leaves it.
LEMMA QueueTail ==
  ASSUME NEW q \in Seq(Jobs), Once(q), q # <<>>
  PROVE  /\ Tail(q) \in Seq(Jobs) /\ Once(Tail(q))
         /\ Head(q).op \in OpsIn(q) /\ Head(q).op \notin OpsIn(Tail(q))
         /\ OpsIn(q) = OpsIn(Tail(q)) \cup {Head(q).op}
<1>1. /\ Len(q) \in Nat \ {0} /\ Head(q) = q[1]
      /\ Tail(q) \in Seq(Jobs) /\ Len(Tail(q)) = Len(q) - 1
      /\ \A i \in 1..Len(q) - 1 : Tail(q)[i] = q[i + 1]
  OBVIOUS
<1> DEFINE s == OpSeq(q)  t == OpSeq(Tail(q))
<1>2. /\ s \in Seq(Ops) /\ Len(s) = Len(q) /\ Distinct(s) /\ Ran(s) = OpsIn(q)
      /\ \A i \in 1..Len(q) : s[i] = q[i].op
  BY OpSeqOf
<1>3. /\ t \in Seq(Ops) /\ Len(t) = Len(q) - 1 /\ Ran(t) = OpsIn(Tail(q))
      /\ \A i \in 1..Len(q) - 1 : t[i] = Tail(q)[i].op
      /\ Once(Tail(q)) <=> Distinct(t)
  BY <1>1, OpSeqOf
<1> HIDE DEF s, t
<1>4. s # <<>> /\ Head(s) = Head(q).op
  <2>1. Len(s) # 0 /\ 1 \in 1..Len(q)
    BY <1>1, <1>2
  <2> QED BY <1>1, <1>2, <2>1
<1>5. Tail(s) \in Seq(Ops) /\ Len(Tail(s)) = Len(q) - 1
      /\ \A i \in 1..Len(q) - 1 : Tail(s)[i] = s[i + 1]
  BY <1>2, <1>4
<1>6. ASSUME NEW i \in 1..Len(q) - 1 PROVE Tail(s)[i] = t[i]
  <2>1. i + 1 \in 1..Len(q)
    BY <1>1
  <2> QED BY <1>1, <1>2, <1>3, <1>5, <2>1
<1>7. Tail(s) = t
  BY <1>3, <1>5, <1>6, SeqEqual
<1>8. /\ Distinct(Tail(s))
      /\ Head(s) \in Ran(s) /\ Head(s) \notin Ran(Tail(s))
      /\ Ran(s) = Ran(Tail(s)) \cup {Head(s)}
  BY <1>2, <1>4, TailOf
<1> QED BY <1>1, <1>2, <1>3, <1>4, <1>7, <1>8

\* What remove() leaves of a queue, and what it takes out.
LEMMA WithoutOf ==
  ASSUME NEW q \in Seq(Jobs), Once(q), NEW J
  PROVE  /\ Without(q, J) \in Seq(Jobs) /\ Once(Without(q, J))
         /\ OpsIn(Without(q, J)) = {q[i].op : i \in (1..Len(q)) \ J}
<1> DEFINE w == Without(q, J)  I == (1..Len(q)) \ J
<1>1. w \in Seq(Jobs)
  BY WithoutType
<1>2. PICK f \in [1..Len(w) -> I] :
           /\ \A j, k \in DOMAIN f : f[j] = f[k] => j = k
           /\ \A i \in I : \E k \in DOMAIN f : f[k] = i
           /\ \A k \in DOMAIN f : w[k] = q[f[k]]
  BY WithoutNth
<1>3. DOMAIN f = 1..Len(w) /\ I \subseteq 1..Len(q)
  OBVIOUS
<1> HIDE DEF w, I
<1>4. Once(w)
  <2> SUFFICES ASSUME NEW i \in 1..Len(w), NEW j \in 1..Len(w), w[i].op = w[j].op PROVE i = j
    BY DEF Once
  <2>1. q[f[i]].op = q[f[j]].op /\ f[i] \in 1..Len(q) /\ f[j] \in 1..Len(q)
    BY <1>2, <1>3
  <2>2. f[i] = f[j]
    BY <2>1 DEF Once
  <2> QED BY <1>2, <1>3, <2>2
<1>5. OpsIn(w) = {q[i].op : i \in I}
  <2>1. ASSUME NEW k \in 1..Len(w) PROVE w[k].op \in {q[i].op : i \in I}
    <3>1. f[k] \in I /\ w[k] = q[f[k]]
      BY <1>2, <1>3
    <3> QED BY <3>1
  <2>2. ASSUME NEW i \in I PROVE q[i].op \in OpsIn(w)
    <3>1. PICK k \in 1..Len(w) : f[k] = i
      BY <1>2, <1>3
    <3>2. w[k] = q[i]
      BY <1>2, <1>3, <3>1
    <3> QED BY <3>2 DEF OpsIn
  <2> QED BY <2>1, <2>2 DEF OpsIn
<1> QED BY <1>1, <1>4, <1>5 DEF w, I

\* A purge by device takes some operations out and leaves the others.
LEMMA SplitOf ==
  ASSUME NEW q \in Seq(Jobs), Once(q), NEW I \in SUBSET (1..Len(q))
  PROVE  LET s == OpSeq(Picked(q, I))
         IN  /\ s \in Seq(Ops) /\ Distinct(s)
             /\ Ran(s) = {q[i].op : i \in I}
             /\ Ran(s) \cap OpsIn(Without(q, I)) = {}
             /\ OpsIn(q) = Ran(s) \cup OpsIn(Without(q, I))
<1> DEFINE J == (1..Len(q)) \ I
           w == Picked(q, I)
           s == OpSeq(w)
<1>1. /\ w \in Seq(Jobs) /\ Once(w)
      /\ OpsIn(w) = {q[i].op : i \in (1..Len(q)) \ J}
  BY WithoutOf DEF Picked
<1>2. (1..Len(q)) \ J = I
  OBVIOUS
<1> HIDE DEF w
<1>3. s \in Seq(Ops) /\ Distinct(s) /\ Ran(s) = OpsIn(w)
  BY <1>1, OpSeqOf
<1>4. Ran(s) = {q[i].op : i \in I}
  BY <1>1, <1>2, <1>3
<1>5. OpsIn(Without(q, I)) = {q[i].op : i \in J}
  BY WithoutOf
<1>6. Ran(s) \cap OpsIn(Without(q, I)) = {}
  <2> SUFFICES ASSUME NEW i \in I, NEW j \in J, q[i].op = q[j].op PROVE FALSE
    BY <1>4, <1>5
  <2> QED BY DEF Once
<1>7. OpsIn(q) = Ran(s) \cup OpsIn(Without(q, I))
  BY <1>4, <1>5 DEF OpsIn
<1> QED BY <1>3, <1>4, <1>6, <1>7 DEF w

-----------------------------------------------------------------------------
(***************************************************************************)
(* The list of the pool.                                                   *)
(***************************************************************************)

LEMMA PoolSize == Cardinality(PoolOps) \in Nat
BY BusAssumption, FS_CardinalityType

\* The list that _memory_init() starts from holds every element of the pool once.
LEMMA SeqOfPoolOf ==
  /\ SeqOfPool \in Seq(PoolOps) /\ Distinct(SeqOfPool) /\ Ran(SeqOfPool) = PoolOps
<1> DEFINE N == Cardinality(PoolOps)
<1>1. IsFiniteSet(PoolOps) /\ N \in Nat /\ ExistsBijection(1..N, PoolOps)
  BY BusAssumption, FS_CardinalityType
<1>2. PICK f \in Surjection(1..N, PoolOps) : TRUE
  BY <1>1 DEF ExistsBijection, Bijection
<1>3. f \in [1..N -> PoolOps] /\ {f[i] : i \in DOMAIN f} = PoolOps
  <2>1. f \in [1..N -> PoolOps] /\ \A x \in PoolOps : \E i \in 1..N : f[i] = x
    BY DEF Surjection
  <2> QED BY <2>1
<1>4. SeqOfPool \in [1..N -> PoolOps] /\ {SeqOfPool[i] : i \in DOMAIN SeqOfPool} = PoolOps
  BY <1>3 DEF SeqOfPool
<1> DEFINE s == SeqOfPool
<1> HIDE DEF s
<1>5. s \in [1..N -> PoolOps] /\ {s[i] : i \in DOMAIN s} = PoolOps
  BY <1>4 DEF s
<1>6. s \in Seq(PoolOps) /\ Len(s) = N
  <2> HIDE DEF N
  <2> QED BY <1>1, <1>5, FcnIsSeq
<1>7. DOMAIN s = 1..N
  BY <1>5
<1>8. Ran(s) = PoolOps
  <2>1. DOMAIN s = 1..Len(s)
    BY <1>6, <1>7
  <2> QED BY <1>5, <2>1 DEF Ran
<1>9. s \in Surjection(1..N, PoolOps)
  <2>1. \A x \in PoolOps : \E i \in 1..N : s[i] = x
    BY <1>5, <1>7
  <2> HIDE DEF N
  <2> QED BY <1>5, <2>1, Fun_IsSurj
<1>10. IsFiniteSet(1..N) /\ Cardinality(1..N) = N
  <2> HIDE DEF N
  <2> QED BY <1>1, FS_Interval
<1>11. s \in Injection(1..N, PoolOps)
  BY <1>9, <1>10, FS_SurjSameCardinalityImpliesInj
<1>12. \A i, j \in 1..N : s[i] = s[j] => i = j
  BY <1>7, <1>11 DEF Injection, IsInjective
<1>13. Distinct(s)
  BY <1>6, <1>12 DEF Distinct
<1> QED BY <1>6, <1>8, <1>13 DEF s

\* Two numbers with the same remainder are equal or a whole period apart.
LEMMA SameRemainder ==
  ASSUME NEW L \in Nat \ {0}, NEW x \in Nat, NEW y \in Nat,
         x % L = y % L, x - y < L, y - x < L
  PROVE  x = y
<1> DEFINE a == x \div L  b == y \div L
<1>1. x = L * a + (x % L) /\ a \in Int /\ x % L \in Int
  OBVIOUS
<1>2. y = L * b + (y % L) /\ b \in Int /\ y % L \in Int
  OBVIOUS
<1> HIDE DEF a, b
<1>3. L * a - L * b = L * (a - b) /\ L * b - L * a = L * (b - a)
  BY <1>1, <1>2
<1>4. L * a \in Int /\ L * b \in Int
  BY <1>1, <1>2
<1>5. x - y = L * a - L * b /\ y - x = L * b - L * a
  <2> DEFINE u == L * a  v == L * b  r == x % L
  <2>1. u \in Int /\ v \in Int /\ r \in Int /\ x = u + r /\ y = v + r
    BY <1>1, <1>2, <1>4
  <2> HIDE DEF u, v, r
  <2>2. x - y = u - v /\ y - x = v - u
    BY <2>1
  <2> QED BY <2>2 DEF u, v
<1>6. \A k \in Int : k >= 1 => L * k >= L
  OBVIOUS
<1>7. ~(a - b >= 1) /\ ~(b - a >= 1)
  <2>1. a - b >= 1 => L * (a - b) >= L
    BY <1>1, <1>2, <1>6
  <2>2. b - a >= 1 => L * (b - a) >= L
    BY <1>1, <1>2, <1>6
  <2>3. L * (a - b) < L /\ L * (b - a) < L
    BY <1>3, <1>5
  <2>4. L * (a - b) \in Int /\ L * (b - a) \in Int
    BY <1>1, <1>2
  <2> QED BY <2>1, <2>2, <2>3, <2>4
<1>8. a = b
  BY <1>1, <1>2, <1>7
<1> QED BY <1>1, <1>2, <1>8

\* Taking all elements of the pool and giving them back turns the list.
LEMMA TurnedOf ==
  ASSUME NEW S, NEW s \in Seq(S), Distinct(s), s # <<>>
  PROVE  Turned(s) \in Seq(S) /\ Distinct(Turned(s)) /\ Ran(Turned(s)) = Ran(s)
<1> DEFINE L == Len(s)
           C == Cardinality(PoolOps)
           g == [i \in 1..L |-> ((i - 1 + C) % L) + 1]
           t == Turned(s)
<1>1. L \in Nat \ {0} /\ C \in Nat
  BY PoolSize
<1>2. g \in [1..L -> 1..L]
  <2>1. ASSUME NEW i \in 1..L PROVE ((i - 1 + C) % L) + 1 \in 1..L
    <3> HIDE DEF L, C
    <3>1. (i - 1 + C) \in Nat
      BY <1>1
    <3>2. (i - 1 + C) % L \in 0..L - 1
      BY <1>1, <3>1
    <3> QED BY <1>1, <3>2
  <2> QED BY <2>1
<1>3. ASSUME NEW i \in 1..L, NEW j \in 1..L, g[i] = g[j] PROVE i = j
  <2> DEFINE x == i - 1 + C  y == j - 1 + C
  <2>1. (x % L) + 1 = (y % L) + 1
    BY <1>3
  <2> HIDE DEF L, C
  <2>2. x \in Nat /\ y \in Nat /\ x - y < L /\ y - x < L
    BY <1>1
  <2>3. x = y => i = j
    BY <1>1
  <2> HIDE DEF x, y
  <2>4. x % L = y % L
    BY <1>1, <2>1, <2>2
  <2> QED BY <1>1, <2>2, <2>3, <2>4, SameRemainder
<1>4. t = [i \in 1..L |-> s[g[i]]]
  BY DEF Turned
<1>5. ASSUME NEW i \in 1..L PROVE s[g[i]] \in S
  <2>1. g[i] \in 1..L
    BY <1>2
  <2> HIDE DEF g
  <2> QED BY <2>1
<1> HIDE DEF g, t
<1>6. t \in [1..L -> S]
  BY <1>4, <1>5
<1>7. t \in Seq(S) /\ Len(t) = L
  <2> HIDE DEF L
  <2> QED BY <1>1, <1>6, FcnIsSeq
<1>8. \A i \in 1..L : t[i] = s[g[i]]
  BY <1>4
<1>9. Distinct(t) /\ Ran(t) = Ran(s)
  BY <1>2, <1>3, <1>7, <1>8, Permuted
<1> QED BY <1>7, <1>9 DEF t

\* The pool has room for every operation that is not in its list.
LEMMA RoomFor ==
  ASSUME NEW s \in Seq(PoolOps), Distinct(s), NEW t \in Seq(PoolOps), Distinct(t),
         Ran(s) \cap Ran(t) = {}
  PROVE  FirstOf(t, Room(s)) = t
<1>1. /\ s \o t \in Seq(PoolOps) /\ Distinct(s \o t)
      /\ Ran(s \o t) = Ran(s) \cup Ran(t)
  BY Joined
<1> DEFINE m == Len(s)  n == Len(t)  N == Cardinality(PoolOps)  u == s \o t
<1>2. m \in Nat /\ n \in Nat /\ Len(u) = m + n
  OBVIOUS
<1> HIDE DEF u
<1>3. Cardinality(Ran(u)) = m + n
  BY <1>1, <1>2, LenIsSize DEF u
<1>4. Ran(u) \in SUBSET PoolOps
  BY <1>1, RanType DEF u
<1>5. Cardinality(Ran(u)) <= N /\ N \in Nat
  BY <1>4, BusAssumption, FS_Subset, PoolSize
<1>6. (IF N - m < n THEN N - m ELSE n) = n
  <2> HIDE DEF m, n, N
  <2> QED BY <1>2, <1>3, <1>5
<1>7. FirstOf(t, Room(s)) = SubSeq(t, 1, n)
  BY <1>6 DEF FirstOf, Room
<1> QED BY <1>7, SubSeqFull

\* In a list without repetitions an operation occurs once or not at all.
LEMMA OccursOnce ==
  ASSUME NEW S, NEW s \in Seq(S), Distinct(s), NEW o
  PROVE  Occurs(s, o) = One(o \in Ran(s))
<1> DEFINE T == {i \in 1..Len(s) : s[i] = o}
<1>1. CASE o \in Ran(s)
  <2>1. PICK i \in 1..Len(s) : s[i] = o
    BY <1>1 DEF Ran
  <2>2. T = {i}
    BY <2>1 DEF Distinct
  <2>3. Cardinality(T) = 1
    <3> HIDE DEF T
    <3> QED BY <2>2, FS_Singleton
  <2> QED BY <1>1, <2>3 DEF Occurs, One
<1>2. CASE o \notin Ran(s)
  <2>1. T = {}
    BY <1>2 DEF Ran
  <2>2. Cardinality(T) = 0
    <3> HIDE DEF T
    <3> QED BY <2>1, FS_EmptySet
  <2> QED BY <1>2, <2>2 DEF Occurs, One
<1> QED BY <1>1, <1>2
=============================================================================
