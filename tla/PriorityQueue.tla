---------------------------- MODULE PriorityQueue ----------------------------
(***************************************************************************)
(* PriorityQueue<T> (src/src/PriorityQueue.h): a linked list kept in       *)
(* descending order of priority, first come first served among equals.     *)
(* A queue is the sequence of its elements, head first; an element is a    *)
(* record with a field prio.  Allocation failure is left out.              *)
(***************************************************************************)
EXTENDS Integers, Sequences, FiniteSets

\* getLastWithPriority(): how many elements the walk from the root passes, that
\* is the length of the longest prefix of priority at least p.
PassedBy(q, p) == Cardinality({i \in 1..Len(q) : \A j \in 1..i : p <= q[j].prio})

\* insert(T, int): behind the last element of at least this priority.
Insert(q, m, p) ==
  LET n == PassedBy(q, p)
  IN  SubSeq(q, 1, n) \o <<[m EXCEPT !.prio = p]>> \o SubSeq(q, n + 1, Len(q))

\* What remove() leaves of q when the elements at the positions of gone leave
\* it, the others keeping their order.
Without(q, gone) ==
  LET kept   == (1..Len(q)) \ gone
      nth(k) == CHOOSE i \in kept : Cardinality({j \in kept : j < i}) = k - 1
  IN  [k \in 1..Cardinality(kept) |-> q[nth(k)]]
=============================================================================
