----------------------------- MODULE RingBuffer -----------------------------
(***************************************************************************)
(* RingBuffer<T> (src/src/RingBuffer.h): a ring of Capacity slots with its *)
(* own count of the elements in it.  A ring is a record of the slots, the  *)
(* index of the next read, the index of the next write, and the count.     *)
(* The slots are an array of bytes in the code and an array of elements    *)
(* here; that malloc() may fail is left out.                               *)
(***************************************************************************)
EXTENDS Integers, Sequences

CONSTANTS Capacity,   \* _CAPAC
          Nothing     \* (T) 0

ASSUME CapacityAssumption == Capacity \in Nat \ {0}

Slots == 0..(Capacity - 1)

\* The slot that is k slots ahead of slot i.
Ahead(i, k) == (i + k) % Capacity

\* The constructor with allocated(), and clear().
EmptyRing == [slots |-> [i \in Slots |-> Nothing], r |-> 0, w |-> 0, count |-> 0]

\* insert(T): a full ring is left as it is.
Insert(b, x) ==
  IF b.count >= Capacity THEN b
  ELSE [b EXCEPT !.slots[b.w] = x, !.w = Ahead(@, 1), !.count = @ + 1]

\* contains(T) walks from the next read as far as the count says.
Contains(b, x) == \E k \in 0..(b.count - 1) : b.slots[Ahead(b.r, k)] = x

InsertIfAbsent(b, x) == IF Contains(b, x) THEN b ELSE Insert(b, x)

\* peek(idx): the index is compared with the capacity, not with the count.
Peek(b, k) == IF b.count = 0 \/ k > Capacity THEN Nothing ELSE b.slots[Ahead(b.r, k)]

\* What get() leaves.  It returns Peek(b, 0).
Get(b) == IF b.count = 0 THEN b ELSE [b EXCEPT !.r = Ahead(@, 1), !.count = @ - 1]

\* cull(unsigned int)
Cull(b, n) ==
  LET k == IF n < b.count THEN n ELSE b.count
  IN  [b EXCEPT !.r = Ahead(@, k), !.count = @ - k]

\* The rings over S, and those whose count agrees with the two indices.
Ring(S) == [slots : [Slots -> S], r : Slots, w : Slots, count : 0..Capacity]

Consistent(b) == b.w = Ahead(b.r, b.count)

\* The elements in the ring, in the order in which get() returns them.
Contents(b) == [k \in 1..b.count |-> b.slots[Ahead(b.r, k - 1)]]
=============================================================================
