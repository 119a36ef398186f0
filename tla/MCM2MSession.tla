---------------------------- MODULE MCM2MSession ----------------------------
(***************************************************************************)
(* Instances of M2MSession for TLC.                                        *)
(***************************************************************************)
EXTENDS M2MSession, TLC

CONSTANTS A, B

Plain == [auth |-> FALSE, ka |-> FALSE, ident |-> FALSE]

MCEnds == {A, B}
MCOpts == [e \in MCEnds |-> Plain]
MCOptsKA == [e \in MCEnds |-> [Plain EXCEPT !.ka = TRUE]]
MCOptsMixed == [e \in MCEnds |-> IF e = A THEN [Plain EXCEPT !.auth = TRUE]
                                 ELSE [Plain EXCEPT !.ident = TRUE]]
MCIds  == 1..24

Limits(send, log, hangup, kill, reset, set, identity, lose, garble) ==
  [k \in Events |-> CASE k = "send"   -> send
                      [] k = "log"    -> log
                      [] k = "hangup" -> hangup
                      [] k = "kill"   -> kill
                      [] k = "reset"  -> reset
                      [] k = "set"    -> set
                      [] k = "identity" -> identity
                      [] k = "lose"   -> lose
                      [] k = "garble" -> garble]

Quiet       == Limits(0, 0, 0, 0, 0, 0, 0, 0, 0)
Named       == Limits(0, 0, 0, 0, 0, 0, 1, 0, 0)
OneSend     == Limits(1, 0, 0, 0, 0, 0, 0, 0, 0)
SendHangup  == Limits(1, 0, 1, 0, 0, 0, 0, 0, 0)
SendHangups == Limits(1, 0, 2, 0, 0, 0, 0, 0, 0)
HangupLoss  == Limits(0, 0, 1, 0, 0, 0, 0, 1, 0)
Session     == Limits(0, 0, 1, 1, 1, 0, 0, 0, 1)
Dialogs     == Limits(1, 1, 0, 0, 0, 1, 0, 1, 0)

EndSymmetry == Permutations(MCEnds)
=============================================================================
