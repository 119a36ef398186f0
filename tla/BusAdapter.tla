---------------------------- MODULE BusAdapter ----------------------------
(***************************************************************************)
(* BusAdapter<T> (src/src/BusQueue/BusQueue.h) with its pool of operations *)
(* (src/src/ElementPool.h) and its two concrete adapters, SPIAdapter and   *)
(* I2CAdapter.  The main program calls into the adapter; the adapter calls *)
(* the drivers back; the platform moves the transfer that is on the bus.   *)
(*                                                                         *)
(* The adapter is the record bus.  Drivers are the environment: they take  *)
(* operations, queue those they hold, and answer callbacks as they like,   *)
(* queueing another operation from there if they want.  A driver may also  *)
(* own an operation that is not from the pool (StaticOps, shouldReap(      *)
(* false)).  Statistics, profiling and buffers are left out.               *)
(***************************************************************************)
EXTENDS PriorityQueue, BusOp

CONSTANTS Devices,     \* BusOpCallback objects of drivers
          Adapter,     \* the adapter itself, as the callback object of its pings
          Null,
          PoolOps,     \* the preallocated operations
          HeapOps,     \* operations that new may return: a bound on overdraws
          StaticOps,   \* operations that drivers own
          Owner,       \* the driver that owns each of them
          MaxQDepth,   \* MAX_Q_DEPTH
          LastAddr     \* the last address of a ping census, 127 in the code

Ops == PoolOps \cup HeapOps \cup StaticOps

ASSUME BusAssumption ==
  /\ IsFiniteSet(PoolOps)
  /\ PoolOps \cap HeapOps = {} /\ PoolOps \cap StaticOps = {} /\ HeapOps \cap StaticOps = {}
  /\ Null \notin Ops \cup Devices \cup {Adapter}
  /\ Adapter \notin Devices
  /\ Owner \in [StaticOps -> Devices]
  /\ MaxQDepth \in Nat /\ LastAddr \in Nat \ {0}

VARIABLES cfg,      \* the configuration, which never changes
          bus,      \* the adapter
          held,     \* operations in the hands of drivers
          called    \* operations whose end was reported to their callback object, if
                    \* they have one, in the last step

vars == <<cfg, bus, held, called>>

\* guard: SPI_FLAG_QUEUE_GUARD.  asap: _pf_dispatch_on_queue(), of which only
\* I2CAdapter takes notice.  urgent: do drivers use priorities?  (I2CAdapter has
\* none.)
Configs == {c \in [kind : Kinds, guard : BOOLEAN, asap : BOOLEAN, urgent : BOOLEAN] :
              IF c.kind = "SPI" THEN ~c.asap ELSE ~c.guard /\ ~c.urgent}

Prios == IF cfg.urgent THEN {0, 1} ELSE {0}

Init ==
  /\ cfg \in Configs
  /\ bus = [ops       |-> [o \in Ops |-> IF o \in StaticOps
                                         THEN [Blank(Null) EXCEPT !.cb = Owner[o]]
                                         ELSE Blank(Null)],
            populated |-> FALSE,       \* _list_populated
            free      |-> <<>>,        \* _list of the pool
            heap      |-> {},          \* overdrawn operations not yet freed
            work      |-> <<>>,        \* work_queue
            cur       |-> Null,        \* current_job
            cbq       |-> <<>>,        \* callback_queue
            pinging   |-> FALSE,       \* I2C_ADAPT_FLAG_PINGING
            online    |-> FALSE]       \* BUSADAPTER_FLAG_BUS_ONLINE
  /\ held = StaticOps
  /\ called = {}

\* The operations in a queue, and those that are with the adapter.
OpsIn(q) == {q[i].op : i \in 1..Len(q)}
AtAdapter(b) == OpsIn(b.work) \cup OpsIn(b.cbq) \cup ({b.cur} \ {Null})

Job(o) == [op |-> o, prio |-> 0]

OpIs(b, o, op) == [b EXCEPT !.ops[o] = op]

-----------------------------------------------------------------------------
(***************************************************************************)
(* ElementPool and the memory of operations.                               *)
(***************************************************************************)

\* take(): from the list, or from the heap if that is empty.  The limit on
\* overdraws is not looked at.
CanTake(b) == b.free # <<>> \/ HeapOps # b.heap

Taken(b) == IF b.free # <<>> THEN Head(b.free) ELSE CHOOSE h \in HeapOps : h \notin b.heap

Take(b) == IF b.free # <<>> THEN [b EXCEPT !.free = Tail(@)]
                            ELSE [b EXCEPT !.heap = @ \cup {Taken(b)}]

\* new_op()
NewOp(b, cb) ==
  OpIs(Take(b), Taken(b), [(IF b.free # <<>> THEN b.ops[Taken(b)] ELSE Blank(Null)) EXCEPT !.cb = cb])

\* The elements of a queue at the positions of I.
Picked(q, I) == Without(q, (1..Len(q)) \ I)

\* The part of a sequence that fits into the list of the pool.
Room(list) == Cardinality(PoolOps) - Len(list)
FirstOf(s, n) == SubSeq(s, 1, IF n < Len(s) THEN n ELSE Len(s))

\* _reclaim_queue_item() for the operations of a sequence, one after the other:
\* those of the pool and the heap are wiped and given back, those of drivers
\* are set to IDLE.
Mut_Reclaim(b, s) ==                          \* mutant: not wiped
  LET gone   == {s[i] : i \in 1..Len(s)}
      pooled == Picked(s, {i \in 1..Len(s) : s[i] \in PoolOps})
  IN  [b EXCEPT !.ops  = [o \in Ops |-> IF o \in gone THEN [b.ops[o] EXCEPT !.st = "IDLE"]
                                        ELSE b.ops[o]],
                !.free = @ \o FirstOf(pooled, Room(@)),
                !.heap = @ \ gone]

Reclaim(b, s) ==
  LET gone   == {s[i] : i \in 1..Len(s)}
      pooled == Picked(s, {i \in 1..Len(s) : s[i] \in PoolOps})
  IN  [b EXCEPT !.ops  = [o \in Ops |-> IF o \notin gone THEN b.ops[o]
                                        ELSE IF o \in StaticOps THEN [b.ops[o] EXCEPT !.st = "IDLE"]
                                        ELSE Blank(Null)],
                !.free = @ \o FirstOf(pooled, Room(@)),
                !.heap = @ \ gone]

\* _memory_init(): the list is populated on the first call; then as many
\* elements as the pool has are taken and given back, which turns the list.
SeqOfPool == CHOOSE s \in [1..Cardinality(PoolOps) -> PoolOps] : {s[i] : i \in DOMAIN s} = PoolOps

Turned(s) == [i \in 1..Len(s) |-> s[((i - 1 + Cardinality(PoolOps)) % Len(s)) + 1]]

MemoryInit(b) ==
  LET list == IF b.populated THEN b.free ELSE SeqOfPool
  IN  [b EXCEPT !.populated = TRUE, !.free = IF list = <<>> THEN list ELSE Turned(list)]

-----------------------------------------------------------------------------
(***************************************************************************)
(* Queueing.                                                               *)
(***************************************************************************)

\* insertIfAbsent(T, int) of a queue of operations
InsertIfAbsent(q, o, prio) == IF o \in OpsIn(q) THEN q ELSE Insert(q, Job(o), prio)

\* SPIAdapter::queue_io_job(): an operation that is not IDLE is turned away,
\* and one that finds the queue full is aborted and called back.
QueueSPI(a, o, prio) ==
  LET b == [a EXCEPT !.ops[o].cb = IF @ = Null THEN Adapter ELSE @]
  IN  IF b.ops[o].st # "IDLE" THEN b
      ELSE IF cfg.guard /\ Len(b.work) >= MaxQDepth
      THEN [b EXCEPT !.ops[o] = Abort("SPI", @),
                     !.cbq    = InsertIfAbsent(@, o, prio)]
      ELSE IF o \in OpsIn(b.work) THEN b
      ELSE [b EXCEPT !.work = InsertIfAbsent(@, o, prio), !.ops[o].st = "QUEUED"]

\* I2CAdapter::queue_io_job(): on some platforms an operation that finds the
\* active slot empty is begun at once.
QueueI2C(b, o, res) ==
  IF b.cur = Null /\ cfg.asap /\ b.online
  THEN [b EXCEPT !.cur = o, !.ops[o] = Moved("I2C", @, res)]
  ELSE IF o \in OpsIn(b.work) THEN b
  ELSE [b EXCEPT !.work = InsertIfAbsent(@, o, 0), !.ops[o].st = "QUEUED"]

QueueIoJob(b, o, prio, res) ==
  IF cfg.kind = "SPI" THEN QueueSPI(b, o, prio) ELSE QueueI2C(b, o, res)

-----------------------------------------------------------------------------
(***************************************************************************)
(* Callbacks.                                                              *)
(***************************************************************************)

\* I2CAdapter::io_op_callback() for the pings among the operations S: the
\* answer is noted, and the one for the last address ends the census.
PingsIn(b, S) == {o \in S : b.ops[o].cb = Adapter /\ b.ops[o].addr # 0}

NotePings(b, S) ==
  [b EXCEPT !.pinging = @ /\ \A o \in PingsIn(b, S) : b.ops[o].addr < LastAddr]

\* The census goes on with the next address.
Mut_PingsOn(b, o) == o \in PingsIn(b, {o}) /\ b.pinging   \* mutant: past the last address

PingsOn(b, o) == o \in PingsIn(b, {o}) /\ b.pinging /\ b.ops[o].addr < LastAddr

\* What the object called back may return.
Answers(b, o) ==
  IF PingsOn(b, o) THEN {"RECYCLE"}
  ELSE IF b.ops[o].cb \in Devices THEN {"NOMINAL", "RECYCLE"}
  ELSE {"NOMINAL"}

\* A driver that is called back may take an operation and queue it.
More(b, o) == IF b.ops[o].cb \in Devices /\ CanTake(b) THEN BOOLEAN ELSE {FALSE}

Followed(b, o, more) ==
  IF more THEN QueueIoJob(NewOp(b, b.ops[o].cb), Taken(b), 0, "BUS_BUSY") ELSE b

\* dev_addr++
Mut_NextAddr(op) == op                        \* mutant: it is missing

NextAddr(op) == [op EXCEPT !.addr = @ + 1]

\* The callback of o, and what the adapter does with its answer.
Mut_CallBack(b, o, answer, more) ==           \* mutant: recycled, and reclaimed as well
  LET c == Followed(NotePings(b, {o}), o, more)
  IN  IF answer = "RECYCLE"
      THEN Reclaim(QueueIoJob([c EXCEPT !.ops[o] = MarkForRequeue(
                            IF PingsOn(b, o) THEN NextAddr(@) ELSE @)], o, 0, "BUS_BUSY"), <<o>>)
      ELSE Reclaim(c, <<o>>)

CallBack(b, o, answer, more) ==
  LET c == Followed(NotePings(b, {o}), o, more)
  IN  IF answer = "RECYCLE"
      THEN QueueIoJob([c EXCEPT !.ops[o] = MarkForRequeue(
                         IF PingsOn(b, o) THEN NextAddr(@) ELSE @)], o, 0, "BUS_BUSY")
      ELSE Reclaim(c, <<o>>)

-----------------------------------------------------------------------------
(***************************************************************************)
(* Polling.                                                                *)
(***************************************************************************)

\* A new active job, from the head of the queue.
Mut_Promote(b) ==                             \* mutant: from the end of the queue
  IF b.cur = Null /\ b.work # <<>>
  THEN [b EXCEPT !.cur = b.work[Len(b.work)].op, !.work = SubSeq(@, 1, Len(@) - 1)]
  ELSE b

Promote(b) ==
  IF b.cur = Null /\ b.work # <<>>
  THEN [b EXCEPT !.cur = Head(b.work).op, !.work = Tail(@)]
  ELSE b

\* SPIAdapter::_bus_poll(): finished jobs go to the callback queue.
ToCallbackQueue(b) == [b EXCEPT !.cbq = Insert(@, Job(b.cur), 0), !.cur = Null]

PollSPI(a, res) ==
  LET b  == Promote(a)
      op == b.ops[b.cur]
      c  == OpIs(b, b.cur, Moved("SPI", [op EXCEPT !.st = "QUEUED"], res))
  IN  IF b.cur = Null THEN b
      ELSE IF Finished(op) THEN ToCallbackQueue(b)
      ELSE IF Waiting(op) THEN IF res = "FAILED" THEN ToCallbackQueue(c) ELSE c
      ELSE b

\* I2CAdapter::_bus_poll(): a finished job is called back here; if that leaves
\* the active slot empty, the next job is begun in the same call.
PollI2C(b, res, answer, more) ==
  LET op == b.ops[b.cur]
      c  == IF b.cur # Null /\ Finished(op)
            THEN [CallBack(b, b.cur, answer, more) EXCEPT !.cur = Null] ELSE b
      d  == Promote(c)
  IN  IF ~b.online THEN b
      ELSE IF d.cur # Null /\ Waiting(d.ops[d.cur])
      THEN OpIs(d, d.cur, Moved("I2C", d.ops[d.cur], res))
      ELSE d

\* The job whose callback a poll runs.
PollCalls(b) ==
  IF cfg.kind = "I2C" /\ b.online /\ b.cur # Null /\ Finished(b.ops[b.cur]) THEN {b.cur} ELSE {}

\* SPIAdapter::service_callback_queue(): one callback per call.
ServiceOne(b, answer, more) ==
  CallBack([b EXCEPT !.cbq = Tail(@)], Head(b.cbq).op, answer, more)

\* The end of the jobs of a sequence that are purged, each one aborted, called
\* back, whatever the answer, and reclaimed.
Flushed(b, S) ==
  [b EXCEPT !.ops = [o \in Ops |-> IF o \in S THEN Abort(cfg.kind, b.ops[o]) ELSE b.ops[o]]]

Purge(b, s, more) ==
  LET S == {s[i] : i \in 1..Len(s)}
      c == NotePings(Flushed(b, S), S)
  IN  Reclaim(IF more THEN Followed(c, s[1], TRUE) ELSE c, s)

\* purge_queued_work_by_dev(): the queue is indexed while it shrinks, so that
\* the job behind one that was removed is passed over.
RemovedByDev(b, d) ==
  LET mine(i) == b.ops[b.work[i].op].cb = d
      removed[i \in 0..Len(b.work)] == IF i = 0 THEN FALSE ELSE mine(i) /\ ~removed[i - 1]
  IN  {i \in 1..Len(b.work) : removed[i]}

OpSeq(q) == [i \in 1..Len(q) |-> q[i].op]

PurgeByDev(b, d) ==
  LET I == RemovedByDev(b, d)
  IN  Purge([b EXCEPT !.work = Without(@, I)], OpSeq(Picked(b.work, I)), FALSE)

-----------------------------------------------------------------------------
(***************************************************************************)
(* The steps.                                                              *)
(***************************************************************************)

\* The adapter becomes b, the callbacks of the operations S have run, and the
\* drivers have got hold of the operations T.
Becomes(b, S, T) ==
  /\ called' = S
  /\ bus' = b
  /\ held' = (held \cup T \cup StaticOps) \ AtAdapter(bus')
  /\ UNCHANGED cfg

\* init(): the outcome of _bus_init() is up to the platform.
\* SPIAdapter never looks at whether the bus is online.
InitAdapter(ok) ==
  Becomes([MemoryInit(bus) EXCEPT !.online = ok /\ cfg.kind = "I2C"], {}, {})

\* A driver takes an operation, with or without a callback object.
DriverTakes(cb) ==
  /\ CanTake(bus)
  /\ Becomes(NewOp(bus, cb), {}, {Taken(bus)})

\* A driver queues an operation that it holds.  SPIAdapter also copes with a
\* driver that queues its own operation again before it was called back.
DriverQueues(o, prio, res) ==
  /\ o \in held \/ (cfg.kind = "SPI" /\ o \in StaticOps)
  /\ Becomes(QueueIoJob(bus, o, prio, res), {}, {})

\* I2CDevice::writeX(), readX() and ping_device()
DriverTransfers(d, res) ==
  /\ cfg.kind = "I2C" /\ CanTake(bus)
  /\ Becomes(QueueI2C(NewOp(bus, d), Taken(bus), res), {}, {})

\* ping_slave_addr()
PingSlaveAddr(a, res) ==
  /\ cfg.kind = "I2C" /\ CanTake(bus)
  /\ Becomes(QueueI2C([NewOp(bus, Adapter) EXCEPT !.ops[Taken(bus)].addr = a, !.pinging = TRUE],
                      Taken(bus), res), {}, {})

Poll(res) ==
  IF cfg.kind = "SPI" THEN Becomes(PollSPI(bus, res), {}, {})
  ELSE IF PollCalls(bus) = {} THEN Becomes(PollI2C(bus, res, "NOMINAL", FALSE), {}, {})
  ELSE \E answer \in Answers(bus, bus.cur) : \E more \in More(bus, bus.cur) :
         Becomes(PollI2C(bus, res, answer, more), {bus.cur}, {})

ServiceCallbackQueue ==
  /\ cfg.kind = "SPI" /\ bus.cbq # <<>>
  /\ LET o == Head(bus.cbq).op
     IN  \E answer \in Answers(bus, o) : \E more \in More(bus, o) :
           Becomes(ServiceOne(bus, answer, more), {o}, {})

\* The platform moves the transfer on the bus, from an interrupt or, if it has
\* asked for that, from advance() within a poll.
Advance(res) ==
  /\ bus.cur # Null
  /\ LET op == bus.ops[bus.cur]
     IN  /\ op.st = "BUSY"
         /\ Becomes(OpIs(bus, bus.cur, Moved(cfg.kind, op, res)), {}, {})

PurgeCurrentJob(more) ==
  /\ bus.cur # Null
  /\ more \in More(bus, bus.cur)
  /\ Becomes([Purge(bus, <<bus.cur>>, more) EXCEPT !.cur = Null], {bus.cur}, {})

Mut_PurgeQueuedWork ==                        \* mutant: without the callbacks
  /\ bus.work # <<>>
  /\ Becomes(Purge([bus EXCEPT !.work = <<>>], OpSeq(bus.work), FALSE), {}, {})

PurgeQueuedWork ==
  /\ bus.work # <<>>
  /\ Becomes(Purge([bus EXCEPT !.work = <<>>], OpSeq(bus.work), FALSE), OpsIn(bus.work), {})

PurgeDevice(d) ==
  /\ RemovedByDev(bus, d) # {}
  /\ Becomes(PurgeByDev(bus, d), {bus.work[i].op : i \in RemovedByDev(bus, d)}, {})

\* The outcomes of begin() to consider: where it is not called, one will do.
OutcomesIf(P) == IF P THEN Outcomes ELSE {"NONE"}

QueueBegins == cfg.asap /\ bus.online /\ bus.cur = Null

PollBegins == bus.cur = Null \/ Waiting(bus.ops[bus.cur])
                \/ (cfg.kind = "I2C" /\ Finished(bus.ops[bus.cur]))

Next ==
  \/ \E ok \in BOOLEAN : InitAdapter(ok)
  \/ \E cb \in Devices \cup {Null} : DriverTakes(cb)
  \/ \E o \in Ops, prio \in Prios, res \in OutcomesIf(QueueBegins) : DriverQueues(o, prio, res)
  \/ \E d \in Devices, res \in OutcomesIf(QueueBegins) : DriverTransfers(d, res)
  \/ \E a \in 1..LastAddr, res \in OutcomesIf(QueueBegins) : PingSlaveAddr(a, res)
  \/ \E res \in OutcomesIf(PollBegins) : Poll(res)
  \/ ServiceCallbackQueue
  \/ \E res \in Outcomes : Advance(res)
  \/ \E more \in BOOLEAN : PurgeCurrentJob(more)
  \/ PurgeQueuedWork
  \/ \E d \in Devices : PurgeDevice(d)

Spec == Init /\ [][Next]_vars

\* The main loop polls and services the callbacks, and the platform ends each
\* transfer sooner or later.
FairSpec ==
  /\ Spec
  /\ WF_vars(\E res \in {"DONE", "FAILED"} : Poll(res))
  /\ WF_vars(ServiceCallbackQueue)
  /\ WF_vars(\E res \in {"DONE", "FAILED"} : Advance(res))

-----------------------------------------------------------------------------
\* Every variable has its type; in particular no ping is for an address beyond
\* the last one that the census of I2CAdapter::io_op_callback() covers.
TypeOK ==
  /\ cfg \in Configs
  /\ bus.ops \in [Ops -> [st : XferStates, fault : BOOLEAN,
                          cb : Devices \cup {Adapter, Null}, addr : 0..LastAddr]]
  /\ bus.free \in Seq(PoolOps) /\ bus.heap \subseteq HeapOps
  /\ bus.work \in Seq([op : Ops, prio : {0, 1}])
  /\ bus.cbq \in Seq([op : Ops, prio : {0, 1}])
  /\ bus.cur \in Ops \cup {Null}
  /\ held \subseteq Ops /\ called \subseteq Ops

\* How many times o occurs in a sequence, and 1 if P holds.
Occurs(s, o) == Cardinality({i \in 1..Len(s) : s[i] = o})
One(P) == IF P THEN 1 ELSE 0

\* An operation is in exactly one place: in the pool, in the work queue, in the
\* active slot, in the callback queue, in the hands of a driver, or not
\* allocated.  None is leaked and none is given back twice, whatever the
\* drivers answer to callbacks, queue from there, and purge.
Placed ==
  \A o \in Ops :
    Occurs(bus.free, o) + Occurs(OpSeq(bus.work), o) + Occurs(OpSeq(bus.cbq), o)
      + One(bus.cur = o) + One(o \in held) + One(o \in HeapOps \ bus.heap)
      + One(o \in PoolOps /\ ~bus.populated) = 1

\* The XferState of an operation says where it is: take() returns wiped ones
\* only, those in the work queue are QUEUED, those that wait for their callback
\* have ended, and what a driver holds can be queued.
StateFits ==
  /\ \A i \in 1..Len(bus.free) : bus.ops[bus.free[i]] = Blank(Null)
  /\ \A o \in OpsIn(bus.work) : bus.ops[o].st = "QUEUED"
  /\ \A o \in OpsIn(bus.cbq) : Finished(bus.ops[o])
  /\ \A o \in held : bus.ops[o].st = "IDLE"

\* No transfer inherits the fault of an earlier one, through a recycled or a
\* pooled operation.  The operations that drivers own are the exception:
\* _reclaim_queue_item() does not clear their fault.
FaultsAreOwn ==
  \A o \in AtAdapter(bus) \cup held :
    bus.ops[o].fault => Finished(bus.ops[o]) \/ o \in StaticOps

\* The adapter keeps the contract of BusJob: an operation leaves it with its
\* callback and in no other way, the three purges included.
Contract == INSTANCE BusJob WITH mine <- held, theirs <- AtAdapter(bus)
JobContract == Contract!JobSpec

Served == cfg.kind = "SPI" \/ bus.online

\* purge_current_job() empties the active slot while jobs wait: a platform that
\* begins operations at once may give the slot to one that is queued after them.
Overtakes == cfg.asap /\ bus.cur # Null /\ bus'.cur = Null /\ bus.work # <<>>

PurgesEnd == <>[][~Overtakes]_vars

\* Every operation that the adapter took is called back, however many others are
\* recycled or queued from callbacks in the meantime, if the bus stays online,
\* priorities are not used, and the active slot is not purged for ever.
CalledBack ==
  PurgesEnd => \A o \in Ops : (o \in AtAdapter(bus) /\ ~cfg.urgent) ~> (o \in called \/ ~Served)

\* A census of the I2C bus ends: a ping recycles itself from address to address
\* and then leaves, even if others begin a census in the meantime.
CensusEnds ==
  PurgesEnd => \A o \in PoolOps \cup HeapOps :
    (o \in PingsIn(bus, AtAdapter(bus))) ~> (o \notin AtAdapter(bus) \/ ~Served)
=============================================================================
