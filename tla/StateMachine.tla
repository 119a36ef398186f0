---------------------------- MODULE StateMachine ----------------------------
(***************************************************************************)
(* The route keeper of StateMachine<T> (src/src/FiniteStateMachine.h).     *)
(* A machine has a current state and a list of waypoints, a RingBuffer of  *)
(* fixed capacity that refuses what does not fit.  _fsm_advance() takes    *)
(* the machine to the first waypoint if the entry into it succeeds; that   *)
(* entry is the business of the class that extends the template, so        *)
(* advancing is defined there (M2MLink!Advance).  Here are the functions   *)
(* that plan a route.                                                      *)
(*                                                                         *)
(* Enum validity (_ENUM_DEFS->enumValid) is left out: every caller passes  *)
(* enumerators.  The lockout timer and the slowdown are left out: no class *)
(* modelled here arms them, only the debug console does.                   *)
(***************************************************************************)
EXTENDS Integers, Sequences

CONSTANT WpDepth    \* capacity of the waypoint ring

ASSUME WpDepthAssumption == WpDepth \in Nat \ {0}

\* strict_min() of the arguments given and the room there is: the excess is
\* "truncated with no error".
Fitting(route, room) == SubSeq(route, 1, IF Len(route) < room THEN Len(route) ELSE room)

\* _fsm_set_route(): the planned route is replaced.
SetRoute(route) == Fitting(route, WpDepth)

\* _fsm_append_route(): the route goes behind what is already planned.
AppendRoute(wp, route) == wp \o Fitting(route, WpDepth - Len(wp))

\* _fsm_prepend_state(): the new state is inserted, and the others are cycled
\* around it.  A full ring is left as it was.
PrependState(wp, s) == IF Len(wp) < WpDepth THEN <<s>> \o wp ELSE wp

\* _fsm_is_stable()
IsStable(wp) == wp = <<>>
=============================================================================
