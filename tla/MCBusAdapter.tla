---------------------------- MODULE MCBusAdapter ----------------------------
(***************************************************************************)
(* One driver with an operation of its own, a pool of one operation, and   *)
(* one more on the heap.                                                   *)
(***************************************************************************)
EXTENDS BusAdapter
CONSTANTS D1, P1, H1, S1
MCOwner == [o \in {S1} |-> D1]
=============================================================================
