------------------------------- MODULE BusJob -------------------------------
(***************************************************************************)
(* What a bus adapter promises to the drivers that use it, whatever the    *)
(* bus: an operation is in the hands of the drivers, with the adapter, or  *)
(* in neither place; the adapter reports the end of a transfer only for    *)
(* operations it has; with that report an operation leaves the adapter,    *)
(* unless the driver sends it into another transfer; and nothing else      *)
(* makes it leave.                                                         *)
(***************************************************************************)
CONSTANTS Ops

VARIABLES mine,     \* operations that drivers hold
          theirs,   \* operations that the adapter has
          called    \* operations whose end was reported by the last step

vars == <<mine, theirs, called>>

JobInit == /\ mine \subseteq Ops
           /\ theirs = {}
           /\ called = {}

\* A step of the adapter, and of the drivers it calls back.
JobStep ==
  /\ mine' \subseteq Ops
  /\ mine' \cap theirs' = {}
  /\ called' \subseteq theirs
  /\ theirs \ called' \subseteq theirs'
  /\ mine \subseteq mine' \cup theirs'

JobSpec == JobInit /\ [][JobStep]_vars
=============================================================================
