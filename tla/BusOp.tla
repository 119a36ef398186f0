------------------------------- MODULE BusOp -------------------------------
(***************************************************************************)
(* One transfer on a bus: BusOp (src/src/BusQueue/BusQueue.h) with what    *)
(* SPIBusOp and I2CBusOp make of it.                                       *)
(*                                                                         *)
(* An operation is a record: its XferState, its XferFault, the object that *)
(* is called back, and the address that the ping of an I2CAdapter is for.  *)
(* Buffers, opcodes and parameters are left out.  The fault is whether     *)
(* there is one (hasFault()).  BUSY stands for the states from INITIATE to *)
(* STOP, in which the platform has the transfer in hand.  UNDEF is not     *)
(* there: the constructor and wipe() both set IDLE.                        *)
(***************************************************************************)

XferStates == {"IDLE", "QUEUED", "BUSY", "COMPLETE", "FAULT"}
Kinds      == {"SPI", "I2C"}

\* The constructor's values, which wipe() restores.
Blank(null) == [st |-> "IDLE", fault |-> FALSE, cb |-> null, addr |-> 0]

\* isComplete(), and the states in which begin() is due
Finished(op) == op.st \in {"COMPLETE", "FAULT"}
Waiting(op)  == op.st \in {"IDLE", "QUEUED"}

\* markComplete() and abort() of the two buses: an SPIBusOp with a fault ends in
\* FAULT, and its fault is set first; an I2CBusOp always ends in COMPLETE.
SPIMarkComplete(op) == [op EXCEPT !.st = IF op.fault THEN "FAULT" ELSE "COMPLETE"]
I2CMarkComplete(op) == [op EXCEPT !.st = "COMPLETE"]

SPIAbort(op) == SPIMarkComplete([op EXCEPT !.fault = TRUE])
I2CAbort(op) == [I2CMarkComplete(op) EXCEPT !.fault = TRUE]

MarkComplete(kind, op) == IF kind = "SPI" THEN SPIMarkComplete(op) ELSE I2CMarkComplete(op)

Abort(kind, op) == IF kind = "SPI" THEN SPIAbort(op) ELSE I2CAbort(op)

\* markForRequeue()
Mut_MarkForRequeue(op) == [op EXCEPT !.st = "IDLE"]      \* mutant: the fault stays

MarkForRequeue(op) == [op EXCEPT !.fault = FALSE, !.st = "IDLE"]

\* begin() and advance() are supplied by the platform.  What they can report: the
\* transfer is under way, the bus was busy (or there is nothing new), it is done,
\* or it was aborted.
Outcomes == {"NONE", "BUS_BUSY", "DONE", "FAILED"}

Moved(kind, op, res) ==
  CASE res = "NONE"     -> [op EXCEPT !.st = "BUSY"]
    [] res = "BUS_BUSY" -> op
    [] res = "DONE"     -> MarkComplete(kind, op)
    [] res = "FAILED"   -> Abort(kind, op)
=============================================================================
