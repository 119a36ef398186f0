---------------------------- MODULE LinkLifecycle ----------------------------
(***************************************************************************)
(* What an M2MLink promises the application that holds it, whatever the    *)
(* counterparty, the transport and the timers do: the life of a session.   *)
(* A link is down, syncing, up or closing.  conn is what isConnected()     *)
(* tells the application.  Each session begins with a sync; a link is up,  *)
(* or closes in an orderly way, only once the counterparty has answered;   *)
(* and it is down exactly until the next session begins with nothing left  *)
(* of the last one.                                                        *)
(***************************************************************************)
CONSTANT Ends

VARIABLES phase,   \* [Ends -> Phases]
          conn     \* [Ends -> BOOLEAN]

Phases == {"down", "syncing", "up", "closing"}

Init == /\ phase = [e \in Ends |-> "down"]
        /\ conn  = [e \in Ends |-> FALSE]

\* e goes from one of the phases in from to the phase to, and is connected or
\* not afterwards.
Move(e, from, to, c) == /\ phase[e] \in from
                        /\ phase' = [phase EXCEPT ![e] = to]
                        /\ conn'  = [conn EXCEPT ![e] = c]

\* A session begins.
Start(e) == Move(e, {"down"}, "syncing", FALSE)

\* The counterparty answered.
Confirm(e) == Move(e, {"syncing"}, "syncing", TRUE)

\* The link is usable; if the answer just came in, in the same step.  An orderly
\* hangup may be overtaken by it: the end of a route that does not fit into the
\* list of waypoints is cut off, and what is planned later takes its place.
Open(e) == Move(e, {"syncing", "closing"}, "up", TRUE)

\* The inbound data is no longer understood.  The session survives.
Resync(e) == Move(e, {"up", "closing"}, "syncing", TRUE)

\* An orderly hangup begins.
Close(e) == Move(e, {"syncing", "up"}, "closing", TRUE)

\* The session is over.
Drop(e) == Move(e, {"syncing", "up", "closing"}, "down", FALSE)

Next == \E e \in Ends :
  Start(e) \/ Confirm(e) \/ Open(e) \/ Resync(e) \/ Close(e) \/ Drop(e)

Spec == Init /\ [][Next]_<<phase, conn>>
=============================================================================
