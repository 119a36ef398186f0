---------------------------- MODULE MCScheduler ----------------------------
EXTENDS C3PScheduler, TLC
CONSTANTS A, B
MCPeriod == (A :> 1) @@ (B :> 3)
MCRecurrences == [s \in Schedules |-> IF s = A THEN -1 ELSE 1]
=============================================================================
