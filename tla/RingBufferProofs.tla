-------------------------- MODULE RingBufferProofs --------------------------
(***************************************************************************)
(* A RingBuffer whose count agrees with its indices is a bounded first-in  *)
(* first-out queue, whatever its capacity and its elements.                *)
(***************************************************************************)
EXTENDS RingBuffer, TLAPS

\* The indices wrap at the capacity.
LEMMA AheadCases ==
  ASSUME NEW i \in Slots, NEW k \in 0..Capacity
  PROVE  Ahead(i, k) = IF i + k < Capacity THEN i + k ELSE i + k - Capacity
BY CapacityAssumption DEF Slots, Ahead

LEMMA AheadType ==
  ASSUME NEW i \in Slots, NEW k \in 0..Capacity
  PROVE  Ahead(i, k) \in Slots
BY AheadCases, CapacityAssumption DEF Slots

\* The wrap of a sum that grows by one.
LEMMA WrapNext ==
  ASSUME NEW C \in Nat, NEW r \in 0..(C - 1), NEW n \in 0..(C - 1), NEW w \in 0..(C - 1),
         w = IF r + n < C THEN r + n ELSE r + n - C
  PROVE  (IF w + 1 < C THEN w + 1 ELSE w + 1 - C)
           = (IF r + (n + 1) < C THEN r + (n + 1) ELSE r + (n + 1) - C)
<1>1. CASE r + n < C
  BY <1>1
<1>2. CASE r + n >= C
  BY <1>2
<1> QED BY <1>1, <1>2

\* Two elements of the window are in two slots.
LEMMA AheadInjective ==
  ASSUME NEW i \in Slots, NEW j \in 0..(Capacity - 1), NEW k \in 0..(Capacity - 1),
         Ahead(i, j) = Ahead(i, k)
  PROVE  j = k
<1>1. j \in 0..Capacity /\ k \in 0..Capacity
  BY CapacityAssumption
<1>2. Ahead(i, j) = IF i + j < Capacity THEN i + j ELSE i + j - Capacity
  BY <1>1, AheadCases
<1>3. Ahead(i, k) = IF i + k < Capacity THEN i + k ELSE i + k - Capacity
  BY <1>1, AheadCases
<1>4. (IF i + j < Capacity THEN i + j ELSE i + j - Capacity)
        = (IF i + k < Capacity THEN i + k ELSE i + k - Capacity)
  BY <1>2, <1>3
<1>5. i \in Int /\ j \in Int /\ k \in Int /\ 0 <= j /\ j < Capacity /\ 0 <= k /\ k < Capacity
  BY CapacityAssumption DEF Slots
<1> QED BY <1>4, <1>5, CapacityAssumption

\* The slot k ahead of the next slot is k + 1 ahead of this one.
LEMMA AheadNext ==
  ASSUME NEW i \in Slots, NEW k \in 0..(Capacity - 1)
  PROVE  Ahead(Ahead(i, 1), k) = Ahead(i, k + 1)
<1>1. 1 \in 0..Capacity /\ k \in 0..Capacity /\ k + 1 \in 0..Capacity
  BY CapacityAssumption
<1>2. Ahead(i, 1) \in Slots
  BY <1>1, AheadType
<1>3. Ahead(i, 1) = IF i + 1 < Capacity THEN i + 1 ELSE i + 1 - Capacity
  BY <1>1, AheadCases
<1>4. Ahead(i, k + 1) = IF i + (k + 1) < Capacity THEN i + (k + 1) ELSE i + (k + 1) - Capacity
  BY <1>1, AheadCases
<1>5. Ahead(Ahead(i, 1), k) = IF Ahead(i, 1) + k < Capacity THEN Ahead(i, 1) + k
                              ELSE Ahead(i, 1) + k - Capacity
  BY <1>1, <1>2, AheadCases
<1> QED BY <1>3, <1>4, <1>5, CapacityAssumption DEF Slots

\* The contents of a ring are a sequence of its elements.
LEMMA ContentsType ==
  ASSUME NEW S, NEW b \in Ring(S)
  PROVE  /\ Contents(b) \in Seq(S)
         /\ Len(Contents(b)) = b.count
         /\ \A k \in 1..b.count : Contents(b)[k] = b.slots[Ahead(b.r, k - 1)]
<1>1. b.count \in 0..Capacity /\ b.r \in Slots /\ b.slots \in [Slots -> S]
  BY DEF Ring
<1>2. ASSUME NEW k \in 1..b.count PROVE b.slots[Ahead(b.r, k - 1)] \in S
  <2>1. k - 1 \in 0..Capacity
    BY <1>1, CapacityAssumption
  <2> QED BY <1>1, <2>1, AheadType
<1>3. Contents(b) \in [1..b.count -> S]
  BY <1>2 DEF Contents
<1>4. b.count \in Nat
  BY <1>1, CapacityAssumption
<1>5. Contents(b) \in Seq(S) /\ Len(Contents(b)) = b.count
  BY <1>3, <1>4
<1> QED BY <1>5 DEF Contents

\* A new ring is empty.
LEMMA EmptyContents ==
  ASSUME NEW S, Nothing \in S
  PROVE  EmptyRing \in Ring(S) /\ Consistent(EmptyRing) /\ Contents(EmptyRing) = <<>>
<1>1. 0 \in Slots /\ 0 \in 0..Capacity
  BY CapacityAssumption DEF Slots
<1>2. EmptyRing \in Ring(S)
  BY <1>1 DEF EmptyRing, Ring
<1>3. Ahead(0, 0) = 0
  BY <1>1, AheadCases, CapacityAssumption
<1>4. Consistent(EmptyRing)
  BY <1>3 DEF Consistent, EmptyRing
<1>5. EmptyRing.count = 0
  BY DEF EmptyRing
<1>6. Contents(EmptyRing) \in Seq(S) /\ Len(Contents(EmptyRing)) = 0
  BY <1>2, <1>5, ContentsType
<1> QED BY <1>2, <1>4, <1>6

\* contains() finds what the ring holds.
LEMMA ContainsContents ==
  ASSUME NEW S, NEW b \in Ring(S), NEW x
  PROVE  Contains(b, x) <=> \E i \in 1..b.count : Contents(b)[i] = x
<1>1. b.count \in Nat
  BY CapacityAssumption DEF Ring
<1>2. ASSUME NEW k \in 0..(b.count - 1), b.slots[Ahead(b.r, k)] = x
      PROVE  \E i \in 1..b.count : Contents(b)[i] = x
  <2>1. k + 1 \in 1..b.count /\ (k + 1) - 1 = k
    BY <1>1
  <2>2. Contents(b)[k + 1] = b.slots[Ahead(b.r, (k + 1) - 1)]
    BY <2>1, ContentsType
  <2> QED BY <1>2, <2>1, <2>2
<1>3. ASSUME NEW i \in 1..b.count, Contents(b)[i] = x
      PROVE  \E k \in 0..(b.count - 1) : b.slots[Ahead(b.r, k)] = x
  <2>1. i - 1 \in 0..(b.count - 1)
    BY <1>1
  <2>2. Contents(b)[i] = b.slots[Ahead(b.r, i - 1)]
    BY ContentsType
  <2> QED BY <1>3, <2>1, <2>2
<1> QED BY <1>2, <1>3 DEF Contains

\* What insert() makes of a ring that is not full.
LEMMA InsertFields ==
  ASSUME NEW S, NEW b \in Ring(S), NEW x, b.count < Capacity
  PROVE  /\ Insert(b, x).slots = [b.slots EXCEPT ![b.w] = x]
         /\ Insert(b, x).r = b.r
         /\ Insert(b, x).w = Ahead(b.w, 1)
         /\ Insert(b, x).count = b.count + 1
         /\ DOMAIN Insert(b, x) = {"slots", "r", "w", "count"}
<1>1. b.count \in 0..Capacity /\ DOMAIN b = {"slots", "r", "w", "count"}
  BY DEF Ring
<1>2. ~(b.count >= Capacity)
  BY <1>1, CapacityAssumption
<1> QED BY <1>1, <1>2 DEF Insert

\* insert() appends to the contents.
LEMMA InsertContents ==
  ASSUME NEW S, NEW b \in Ring(S), Consistent(b), NEW x \in S, b.count < Capacity
  PROVE  /\ Insert(b, x) \in Ring(S)
         /\ Consistent(Insert(b, x))
         /\ Contents(Insert(b, x)) = Append(Contents(b), x)
<1> DEFINE c == Insert(b, x)
<1>1. /\ b.slots \in [Slots -> S] /\ b.r \in Slots /\ b.w \in Slots /\ b.count \in 0..Capacity
      /\ b.count + 1 \in 0..Capacity /\ b.count \in 0..(Capacity - 1) /\ 1 \in 0..Capacity
  BY CapacityAssumption DEF Ring
<1>2. /\ c.slots = [b.slots EXCEPT ![b.w] = x] /\ c.r = b.r /\ c.w = Ahead(b.w, 1)
      /\ c.count = b.count + 1 /\ DOMAIN c = {"slots", "r", "w", "count"}
  BY InsertFields
<1>3. Ahead(b.w, 1) \in Slots
  BY <1>1, AheadType
<1>4. c = [slots |-> c.slots, r |-> c.r, w |-> c.w, count |-> c.count]
  <2>1. b = [slots |-> b.slots, r |-> b.r, w |-> b.w, count |-> b.count]
    BY DEF Ring
  <2>2. ~(b.count >= Capacity)
    BY <1>1, CapacityAssumption
  <2> QED BY <2>1, <2>2 DEF Insert
<1>5. c \in Ring(S)
  <2>1. c.slots \in [Slots -> S]
    BY <1>1, <1>2
  <2> HIDE DEF c
  <2> QED BY <1>1, <1>2, <1>3, <1>4, <2>1 DEF Ring
<1> HIDE DEF c
<1>6. Consistent(c)
  <2>1. b.w = Ahead(b.r, b.count)
    BY DEF Consistent
  <2>2. b.w = IF b.r + b.count < Capacity THEN b.r + b.count ELSE b.r + b.count - Capacity
    BY <1>1, <2>1, AheadCases
  <2>3. Ahead(b.w, 1) = IF b.w + 1 < Capacity THEN b.w + 1 ELSE b.w + 1 - Capacity
    BY <1>1, AheadCases
  <2>4. Ahead(b.r, b.count + 1) = IF b.r + (b.count + 1) < Capacity THEN b.r + (b.count + 1)
                                  ELSE b.r + (b.count + 1) - Capacity
    BY <1>1, AheadCases
  <2>5. Capacity \in Nat /\ b.r \in 0..(Capacity - 1) /\ b.w \in 0..(Capacity - 1)
          /\ b.count \in 0..(Capacity - 1)
    BY <1>1, CapacityAssumption DEF Slots
  <2>6. Ahead(b.w, 1) = Ahead(b.r, b.count + 1)
    BY <2>2, <2>3, <2>4, <2>5, WrapNext
  <2> QED BY <1>2, <2>6 DEF Consistent
<1>7. /\ Contents(c) \in Seq(S) /\ Len(Contents(c)) = b.count + 1
      /\ \A k \in 1..(b.count + 1) : Contents(c)[k] = c.slots[Ahead(b.r, k - 1)]
  <2>1. /\ Contents(c) \in Seq(S) /\ Len(Contents(c)) = c.count
        /\ \A k \in 1..c.count : Contents(c)[k] = c.slots[Ahead(c.r, k - 1)]
    BY <1>5, ContentsType
  <2>2. c.count = b.count + 1 /\ c.r = b.r
    BY <1>2
  <2> QED BY <2>1, <2>2
<1>8. /\ Contents(b) \in Seq(S) /\ Len(Contents(b)) = b.count
      /\ \A k \in 1..b.count : Contents(b)[k] = b.slots[Ahead(b.r, k - 1)]
  BY ContentsType
<1>9. /\ Append(Contents(b), x) \in Seq(S) /\ Len(Append(Contents(b), x)) = b.count + 1
      /\ \A k \in 1..b.count : Append(Contents(b), x)[k] = Contents(b)[k]
      /\ Append(Contents(b), x)[b.count + 1] = x
  <2> DEFINE q == Contents(b)
  <2>1. q \in Seq(S) /\ Len(q) = b.count /\ b.count \in Nat
    BY <1>1, <1>8, CapacityAssumption
  <2> HIDE DEF q
  <2>2. /\ Append(q, x) \in Seq(S) /\ Len(Append(q, x)) = b.count + 1
        /\ \A k \in 1..b.count : Append(q, x)[k] = q[k]
        /\ Append(q, x)[b.count + 1] = x
    BY <2>1
  <2> QED BY <2>2 DEF q
<1>10. ASSUME NEW k \in 1..(b.count + 1)
       PROVE  Contents(c)[k] = Append(Contents(b), x)[k]
  <2>1. CASE k = b.count + 1
    <3>1. k - 1 = b.count
      BY <1>1, <2>1
    <3>2. Contents(c)[k] = c.slots[b.w]
      BY <1>7, <3>1 DEF Consistent
    <3>3. c.slots[b.w] = x
      BY <1>1, <1>2
    <3> QED BY <1>9, <2>1, <3>2, <3>3
  <2>2. CASE k # b.count + 1
    <3>1. k \in 1..b.count /\ k - 1 \in 0..(Capacity - 1) /\ k - 1 # b.count /\ k - 1 \in 0..Capacity
      BY <1>1, <2>2, CapacityAssumption
    <3>2. Ahead(b.r, k - 1) # b.w
      BY <1>1, <3>1, AheadInjective DEF Consistent
    <3>3. Ahead(b.r, k - 1) \in Slots
      BY <1>1, <3>1, AheadType
    <3>4. c.slots[Ahead(b.r, k - 1)] = b.slots[Ahead(b.r, k - 1)]
      BY <1>1, <1>2, <3>2, <3>3
    <3> QED BY <1>7, <1>8, <1>9, <3>1, <3>4
  <2> QED BY <2>1, <2>2
<1>11. Contents(c) = Append(Contents(b), x)
  BY <1>7, <1>9, <1>10
<1> QED BY <1>5, <1>6, <1>11 DEF c

\* get() takes the first of the contents.
LEMMA GetContents ==
  ASSUME NEW S, NEW b \in Ring(S), b.count > 0
  PROVE  /\ Get(b) \in Ring(S)
         /\ Consistent(b) => Consistent(Get(b))
         /\ Contents(Get(b)) = Tail(Contents(b))
         /\ Peek(b, 0) = Head(Contents(b))
<1> DEFINE c == Get(b)
<1>1. /\ b.slots \in [Slots -> S] /\ b.r \in Slots /\ b.w \in Slots /\ b.count \in 0..Capacity
      /\ b.count - 1 \in 0..Capacity /\ 1 \in 0..Capacity /\ b.count # 0 /\ b.count \in Nat
  BY CapacityAssumption DEF Ring
<1>2. b = [slots |-> b.slots, r |-> b.r, w |-> b.w, count |-> b.count]
  BY DEF Ring
<1>3. c = [slots |-> b.slots, r |-> Ahead(b.r, 1), w |-> b.w, count |-> b.count - 1]
  BY <1>1, <1>2 DEF Get
<1>4. c.slots = b.slots /\ c.r = Ahead(b.r, 1) /\ c.w = b.w /\ c.count = b.count - 1
  BY <1>3
<1>5. Ahead(b.r, 1) \in Slots
  BY <1>1, AheadType
<1>6. c \in Ring(S)
  BY <1>1, <1>3, <1>5 DEF Ring
<1> HIDE DEF c
<1>7. /\ Contents(c) \in Seq(S) /\ Len(Contents(c)) = b.count - 1
      /\ \A k \in 1..(b.count - 1) : Contents(c)[k] = b.slots[Ahead(Ahead(b.r, 1), k - 1)]
  BY <1>4, <1>6, ContentsType
<1>8. /\ Contents(b) \in Seq(S) /\ Len(Contents(b)) = b.count
      /\ \A k \in 1..b.count : Contents(b)[k] = b.slots[Ahead(b.r, k - 1)]
  BY ContentsType
<1>9. /\ Tail(Contents(b)) \in Seq(S) /\ Len(Tail(Contents(b))) = b.count - 1
      /\ \A k \in 1..(b.count - 1) : Tail(Contents(b))[k] = Contents(b)[k + 1]
  BY <1>1, <1>8
<1>10. ASSUME NEW k \in 1..(b.count - 1)
       PROVE  Contents(c)[k] = Tail(Contents(b))[k]
  <2>1. k - 1 \in 0..(Capacity - 1) /\ k + 1 \in 1..b.count /\ (k - 1) + 1 = (k + 1) - 1
    BY <1>1, CapacityAssumption
  <2>2. Ahead(Ahead(b.r, 1), k - 1) = Ahead(b.r, (k - 1) + 1)
    BY <1>1, <2>1, AheadNext
  <2>3. Contents(b)[k + 1] = b.slots[Ahead(b.r, (k + 1) - 1)]
    BY <1>8, <2>1
  <2> QED BY <1>7, <1>9, <2>1, <2>2, <2>3
<1>11. Contents(c) = Tail(Contents(b))
  BY <1>7, <1>9, <1>10
<1>12. Consistent(b) => Consistent(c)
  <2>1. b.count - 1 \in 0..(Capacity - 1) /\ (b.count - 1) + 1 = b.count
    BY <1>1, CapacityAssumption
  <2>2. Ahead(Ahead(b.r, 1), b.count - 1) = Ahead(b.r, b.count)
    BY <1>1, <2>1, AheadNext
  <2> QED BY <1>4, <2>2 DEF Consistent
<1>13. Peek(b, 0) = Head(Contents(b))
  <2>1. ~(0 > Capacity) /\ 1 - 1 = 0 /\ 1 \in 1..b.count
    BY <1>1, CapacityAssumption
  <2>2. Contents(b)[1] = b.slots[Ahead(b.r, 0)]
    BY <1>8, <2>1
  <2>3. Head(Contents(b)) = Contents(b)[1]
    BY <1>1, <1>8
  <2> QED BY <1>1, <2>1, <2>2, <2>3 DEF Peek
<1> QED BY <1>6, <1>11, <1>12, <1>13 DEF c

\* cull() discards the oldest elements.
LEMMA CullContents ==
  ASSUME NEW S, NEW b \in Ring(S), NEW n \in 0..b.count
  PROVE  /\ Cull(b, n) \in Ring(S)
         /\ Consistent(b) => Consistent(Cull(b, n))
         /\ Contents(Cull(b, n)) = SubSeq(Contents(b), n + 1, b.count)
<1> DEFINE c == Cull(b, n)
<1>1. /\ b.slots \in [Slots -> S] /\ b.r \in Slots /\ b.w \in Slots /\ b.count \in 0..Capacity
      /\ b.count - n \in 0..Capacity /\ n \in 0..Capacity /\ b.count \in Nat /\ n \in Nat
  BY CapacityAssumption DEF Ring
<1>2. b = [slots |-> b.slots, r |-> b.r, w |-> b.w, count |-> b.count]
  BY DEF Ring
<1>3. (IF n < b.count THEN n ELSE b.count) = n
  BY <1>1
<1>4. c = [slots |-> b.slots, r |-> Ahead(b.r, n), w |-> b.w, count |-> b.count - n]
  <2>1. c = [b EXCEPT !.r = Ahead(@, n), !.count = @ - n]
    BY <1>3 DEF Cull
  <2> HIDE DEF c
  <2> QED BY <1>2, <2>1
<1>5. c.slots = b.slots /\ c.r = Ahead(b.r, n) /\ c.w = b.w /\ c.count = b.count - n
  BY <1>4
<1>6. Ahead(b.r, n) \in Slots
  BY <1>1, AheadType
<1>7. c \in Ring(S)
  BY <1>1, <1>4, <1>6 DEF Ring
<1> HIDE DEF c
<1>8. ASSUME NEW k \in 0..(b.count - n)
      PROVE  Ahead(Ahead(b.r, n), k) = Ahead(b.r, n + k)
  <2>1. k \in 0..Capacity /\ n + k \in 0..Capacity
    BY <1>1, CapacityAssumption
  <2>2. Ahead(b.r, n) = IF b.r + n < Capacity THEN b.r + n ELSE b.r + n - Capacity
    BY <1>1, AheadCases
  <2>3. Ahead(b.r, n + k) = IF b.r + (n + k) < Capacity THEN b.r + (n + k) ELSE b.r + (n + k) - Capacity
    BY <1>1, <2>1, AheadCases
  <2>4. Ahead(Ahead(b.r, n), k) = IF Ahead(b.r, n) + k < Capacity THEN Ahead(b.r, n) + k
                                  ELSE Ahead(b.r, n) + k - Capacity
    BY <1>6, <2>1, AheadCases
  <2> QED BY <1>1, <2>1, <2>2, <2>3, <2>4, CapacityAssumption DEF Slots
<1>9. Consistent(b) => Consistent(c)
  <2>1. b.count - n \in 0..(b.count - n) /\ n + (b.count - n) = b.count
    BY <1>1
  <2>2. Ahead(Ahead(b.r, n), b.count - n) = Ahead(b.r, b.count)
    BY <1>8, <2>1
  <2> QED BY <1>5, <2>2 DEF Consistent
<1>10. /\ Contents(c) \in Seq(S) /\ Len(Contents(c)) = b.count - n
       /\ \A k \in 1..(b.count - n) : Contents(c)[k] = b.slots[Ahead(Ahead(b.r, n), k - 1)]
  BY <1>5, <1>7, ContentsType
<1>11. /\ Contents(b) \in Seq(S) /\ Len(Contents(b)) = b.count
       /\ \A k \in 1..b.count : Contents(b)[k] = b.slots[Ahead(b.r, k - 1)]
  BY ContentsType
<1> DEFINE d == SubSeq(Contents(b), n + 1, b.count)
<1>12. /\ d \in Seq(S) /\ Len(d) = b.count - n
       /\ \A k \in 1..(b.count - n) : d[k] = Contents(b)[n + k]
  BY <1>1, <1>11
<1> HIDE DEF d
<1>13. ASSUME NEW k \in 1..(b.count - n) PROVE Contents(c)[k] = d[k]
  <2>1. k - 1 \in 0..(b.count - n) /\ n + k \in 1..b.count /\ n + (k - 1) = (n + k) - 1
    BY <1>1
  <2>2. Ahead(Ahead(b.r, n), k - 1) = Ahead(b.r, n + (k - 1))
    BY <1>8, <2>1
  <2>3. Contents(b)[n + k] = b.slots[Ahead(b.r, (n + k) - 1)]
    BY <1>11, <2>1
  <2> QED BY <1>10, <1>12, <2>1, <2>2, <2>3
<1>14. Contents(c) = d
  BY <1>10, <1>12, <1>13
<1> QED BY <1>7, <1>9, <1>14 DEF c, d

\* A ring whose count agrees with its indices behaves as a bounded queue, first
\* in first out: insert() appends unless the ring is full, get() removes the
\* head, cull() removes as many as it is told to, insertIfAbsent() never makes a
\* second copy, and each of them leaves the count in agreement with the indices.
THEOREM RingIsQueue ==
  ASSUME NEW S, NEW b \in Ring(S), Consistent(b), NEW x \in S
  PROVE  /\ b.count < Capacity => Contents(Insert(b, x)) = Append(Contents(b), x)
         /\ b.count = Capacity => Insert(b, x) = b
         /\ b.count > 0 => Contents(Get(b)) = Tail(Contents(b)) /\ Peek(b, 0) = Head(Contents(b))
         /\ (\E i \in 1..b.count : Contents(b)[i] = x) => InsertIfAbsent(b, x) = b
         /\ Consistent(InsertIfAbsent(b, x)) /\ Consistent(Get(b))
         /\ \A n \in 0..b.count : /\ Contents(Cull(b, n)) = SubSeq(Contents(b), n + 1, b.count)
                                /\ Consistent(Cull(b, n))
<1>1. b.count \in 0..Capacity
  BY DEF Ring
<1>2. b.count < Capacity => /\ Consistent(Insert(b, x))
                            /\ Contents(Insert(b, x)) = Append(Contents(b), x)
  BY InsertContents
<1>3. b.count = Capacity => Insert(b, x) = b
  BY CapacityAssumption DEF Insert
<1>4. b.count < Capacity \/ b.count = Capacity
  BY <1>1, CapacityAssumption
<1>5. Consistent(Insert(b, x))
  BY <1>2, <1>3, <1>4
<1>6. b.count > 0 => /\ Contents(Get(b)) = Tail(Contents(b)) /\ Peek(b, 0) = Head(Contents(b))
                     /\ Consistent(Get(b))
  BY GetContents
<1>7. b.count = 0 => Get(b) = b
  BY DEF Get
<1>8. b.count > 0 \/ b.count = 0
  BY <1>1
<1>9. Consistent(Get(b))
  BY <1>6, <1>7, <1>8
<1>10. (\E i \in 1..b.count : Contents(b)[i] = x) => InsertIfAbsent(b, x) = b
  BY ContainsContents DEF InsertIfAbsent
<1>11. Consistent(InsertIfAbsent(b, x))
  BY <1>5 DEF InsertIfAbsent
<1>12. \A n \in 0..b.count : /\ Contents(Cull(b, n)) = SubSeq(Contents(b), n + 1, b.count)
                             /\ Consistent(Cull(b, n))
  BY CullContents
<1> QED BY <1>2, <1>3, <1>6, <1>9, <1>10, <1>11, <1>12
=============================================================================
