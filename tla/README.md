# CppPotpourri: a verification development

CppPotpourri (`src/`) is a C++ library for embedded systems: containers, buffer
pipes, a finite state machine template, bus adapters, a scheduler, and a protocol,
M2MLink, that joins two machines over whatever carries bytes. This directory holds
TLA+ modules that model parts of it, TLC configurations that check them on small
instances, and proofs that TLAPS checks for every value of the constants.

`PROJECT.json` lists components, runs, mutants, the source lines behind each
definition, findings, hazards and theorems. Paths below are relative to `src/`.

## 1. Inventory

The library has no scheduler or threads of its own. Its classes are driven by calls
of `poll()` from a main loop, by callbacks, and, for some, by interrupts. What is
hard about them is seldom one call: it is the sequence of polls, callbacks and
messages.

| component | state it keeps | operations | what makes it correct |
|---|---|---|---|
| **M2MLink** (`src/M2MLink/M2MLink.cpp`) | FSM position and waypoints, sync, connection and hangup flags, inbound buffer, inbound and outbound queues, error counters | `poll`, `pushBuffer`, `send`, `writeRemoteLog`, `hangup`, `reset`, setters | both ends get through sync, CONNECT and HANGUP whatever the interleaving; nothing accepted is forgotten; `isConnected()` tells the truth |
| **M2MMsg, M2MMsgHdr** | header, payload accumulator, retry count, flags | `reply`, `serialize`, `accumulate`, `attemptRetry` | what is sent again is what was sent; ids match replies to messages |
| **StateMachine** (`src/FiniteStateMachine.h`) | position, ring of waypoints, lockout timer | `_fsm_set_route`, `_fsm_append_route`, `_fsm_prepend_state`, `_fsm_advance` | what is planned fits the state it is planned in |
| **PriorityQueue** | linked list in descending priority | `insert`, `dequeue`, `remove`, `recycle` | order and FIFO among equals |
| **RingBuffer** | slots, read and write index, count | `insert`, `insertIfAbsent`, `get`, `peek`, `contains`, `cull` | a bounded FIFO: count and indices agree |
| **ElementPool** | preallocated elements, list of the free ones | `take`, `give` | an element is in the pool or with one user; overdrawn ones are freed once |
| **LightLinkedList, C3PStack** | links, counts | insert and take | no element twice or lost |
| **AsyncSequencer** | five masks over a list of steps | `requestSteps`, `resetSteps`, `resetSequencer`, `poll` | no step runs before those it depends on; every request comes to an end |
| **C3PScheduler** | schedules, ring of active ones, ring of those to execute, count of timer calls, a clock that wraps | `addSchedule`, `advanceScheduler` (timer), `serviceSchedules` (main loop), `delay`, `enabled`, `recurrence` | no schedule queued twice, early or never again, wherever the clock wraps |
| **BusAdapter** with I2C and SPI adapters | work queue, current job, callback queue, pool of operations, state and fault of each operation | `new_op`, `queue_io_job`, `poll`, `service_callback_queue`, `purge_*`, `ping_slave_addr` | every operation is in one place, leaves with its callback only, and is called back |
| **UARTAdapter** | rings for both directions, timeouts | `poll`, `pushBuffer` | claimed bytes are not lost |
| **BufferAccepter pipes** | residual bytes | `pushBuffer`, `bufferAvailable` | claimed bytes are not lost |
| **LineCoDec, Base64, parsers** | partial line or group | `pushBuffer` | output does not depend on how the input is cut |
| **Storage, DataRecord** | record flags, block list | `save`, `load` | what is loaded is what was saved |
| C3PValue, cbor, Identity, UUID, Image, fonts, Console, CryptoBurrito, numeric classes, platform | | | data formats, arithmetic and user interface: not state machines |

Interactions. An M2MLink is a StateMachine (by inheritance); it keeps its outbound
messages in a PriorityQueue and its waypoints in a RingBuffer. It is a
BufferAccepter towards the transport (`pushBuffer`) and holds another one to send
(`_output_target->pushBuffer`), which in practice is a UARTAdapter or a socket. Two
links interact through that transport alone. The application is called back on
messages and on state changes, and calls `send`, `writeRemoteLog`, `hangup` and
`reset`.

A C3PScheduler keeps its schedules in two RingBuffers, one of which the timing source
fills and the main loop drains. A BusAdapter keeps waiting operations in a PriorityQueue
and free ones in an ElementPool, which is a RingBuffer with memory behind it; drivers
are called back by it and call into it from there; the platform, from interrupts, moves
the transfer on the bus.

Hard behaviours of the link. Two ends that start at different times and drop what they receive
before they listen; syncs that answer syncs; messages that wait for a reply, time
out and are sent again; a transport that rejects, loses or garbles; queues and a
waypoint list that are full; hangups that cross; a forced hangup during a graceful
one; ids that are random and may be 0. Of the scheduler: an interrupt in the middle of
`get()`, a clock and a counter that wrap, an application that changes a schedule while it is
queued or executing. Of the bus: callbacks that recycle or queue, purges at any time, a full
queue, an exhausted pool, a census that recycles itself. All of these are in the model.
`PROJECT.json` lists them as hazards, each with its line and the properties that watch it.

## 2. Plan

M2MLink comes first: it is the part of the library with the most behaviour, it is
concurrent by nature (two machines), and it exercises StateMachine and
PriorityQueue. The order:

1. `StateMachine`, `PriorityQueue`, `M2MMsg`, `M2MLink`, `M2MSession` and the
   abstract specification `LinkLifecycle`; their runs; type correctness, the plan
   invariant and the refinement as theorems. **Done.**
2. `AsyncSequencer` (steps and dependencies): its order as a theorem. **Done**, but for
   `setState`/`getState`.
3. `RingBuffer` and, on it, `C3PScheduler`: timing source against main loop, wrap-around of
   the clock; both with theorems. **Done**.
4. `BusOp` and `BusAdapter` with the SPI and I2C adapters and the pool, and the abstract
   specification `BusJob`. **Done.**
5. Theorems about BusAdapter (`Placed`, `StateFits`, and `JobContract` from them), `HangupHeard` of
   M2MSession, and all that is safety of AsyncSequencer, the recursive walk included. **Done**, so that every
   invariant a run checks is a theorem.
6. The dialogs of M2MSession, `ReplyReleases` and `WaitingNotForgotten`, with the conditions they need. **Done.**
7. That the outbound queue of a link stays sorted by priority, and the conditions under which
   `HangupLast` holds in general (section 5 says what stands in the way).
8. UARTAdapter and a byte-wise transport under `M2MLink`.

## 3. Modules and how they correspond to the code

```
StateMachine   PriorityQueue   M2MMsg        operators, one per member function
        \          |          /
               M2MLink                       a link as a record; Poll and the API
                  |
              M2MSession  ---- refines ----> LinkLifecycle
              /        \
     MCM2MSession   M2MSessionProofs         (M2MLinkProofs, PriorityQueueProofs)

            RingBuffer  ---- RingBufferProofs
                |                   |
           C3PScheduler ---- C3PSchedulerProofs       AsyncSequencer ---- AsyncSequencerProofs
                |
           MCScheduler

     PriorityQueue   BusOp
              \      /
             BusAdapter  ---- refines ----> BusJob
              /      \
     MCBusAdapter   BusQueueProofs ---- BusAdapterProofs
```

* **StateMachine** models how routes are planned: a route replaces or follows what is
  planned and is cut off where the ring is full; a state may be put in front.
* **PriorityQueue** models `insert` and `remove` on a queue given as a sequence.
* **M2MMsg** models headers and messages. A frame has its code, the two header flags
  the protocol acts on, and its id. Lengths, checksum and payload are abstracted to
  what a receiver concludes: a good message, a header that does not checksum
  (`JUNK`), a header that is not valid (`BAD`). Where the bytes of an outbound message
  are (`body`) is kept, since `serialize()` treats a second call differently.
* **M2MLink** is the class: the record `Link` has one field per member variable or
  flag that matters, and each member function is an operator. `Poll` composes
  `ProcessInput`, `ChurnInbound`, `ChurnOutbound`, `KeepAlive` and `FsmPoll` in the order
  of `poll()`; the two states that return early skip all but the last. It yields the set of
  links the poll may leave, over what the application may answer, which random
  number is drawn and whether timers expired.
* **M2MSession** joins two links by a FIFO of frames each way and adds the calls of
  the applications, loss and garbling, each as often as `Limit` allows. One poll is
  one step: the two ends share nothing but the transport.
* **LinkLifecycle** is what an application is promised: down, syncing, up, closing,
  and what `isConnected()` says in each. It does not say how long any of it takes.
* **MCM2MSession** holds the constants of the runs.
* **AsyncSequencer** stands alone. The five flag containers are the five sets of the record
  `seq`; `PollReady` runs `_check_dependencies`, `_dispatch_steps` and `_poll_steps` in the
  order of `poll()`, with the dispatch mask fixed beforehand as there, and a free choice of
  what the step functions return. `GetDependencyMask` is the recursive walk over the list, limiter
  included: `Turn` is one turn of its loop, `Loop` the whole of it, and `Covered` what a call returns by the
  number of calls that the limiter still allows, a recursive function so that it can be proved about. `deps` is any graph without cycles. `PartialResets` says whether callers reset
  a step without the steps that depend on it. Its runs need no MC module;
  **AsyncSequencerProofs** has its theorems.
* **RingBuffer** is the container with its index arithmetic: slots, two indices and a count that
  nothing but the operations keeps in step. `Contents` is the sequence it stands for.
* **C3PScheduler** models the scheduler and the schedules. The timing source
  is one sequence of steps (`AdvanceBegins`, `AdvanceLooks` per schedule, `AdvanceEnds`), the main program
  another: calls of the application, and `serviceSchedules()` with the three memory accesses
  of `get()` that an interrupt can come between (`GetMoves`, `GetCounts`, `ExecuteBegins`). An access
  that the compiler may do before or after another is a choice of its value. `Polled`
  says which of the two uses of the scheduler is modelled: the main loop calls `advanceScheduler()`
  itself, as the unit tests do, or an interrupt does, as the comments have it. An
  interrupt is not interrupted by the main program, whose steps wait for `tick = 0`. Times are kept relative to
  the present (`at` is how far `_exec_at` lies ahead, modulo `ClockMod`), which is all that the
  code looks at and makes the clock's wrap a matter of every run. `owed` and `touched` are history
  variables for the properties.
* **MCScheduler** has periods and recurrences.
* **BusOp** models one operation: its XferState and fault, and how the
  two concrete classes end it. SPIBusOp ends in FAULT if it has a fault, I2CBusOp in COMPLETE.
* **BusAdapter** is the template with both concrete adapters; the variable `cfg` picks one
  and its flags, so that one run covers them all. The record `bus` has the members of
  the adapter and of its pool; each member function is an operator on it, and each
  call from outside an action. `Poll` runs to its end in one step, callback included, as in the
  code; the platform's `Advance` comes between polls. Drivers hold operations (`held`) and answer
  callbacks as they like, within what the code supports: an I2CAdapter does not look at the state of
  an operation that is queued, so its drivers queue what they hold only.
* **BusJob** is what a driver may rely on, for any bus: an operation given to the adapter
  stays there until its end is reported, and leaves then unless it is sent into another transfer.

Abstractions worth knowing. A frame is atomic: neither the accumulation of a message
over polls nor a partial claim by the transport is modelled. A 24-bit random id is
taken not to repeat one in use; of the free ids the model draws the least. A full
transport (`TxCap`) stands for `pushBuffer()` returning -1. `EmptyAccepted` is what a
transport makes of an empty buffer: the code offers one when it retries a message
without payload. Messages to services, statistics nobody reads, and logging are left
out. `_unackd_sends` is counted up to `MaxUnackd`. In the scheduler, `unsigned int` and `unsigned long`
have the same width, as on the 32-bit targets, and the application does not ask for more than
half of the clock in a period or a delay: beyond it a schedule is due at once, although
`C3PScheduler.h:213` speaks of 71.5 minutes, the whole range.
In the bus, heap operations are as many as `HeapOps` has; what drivers do while a
whole queue is purged is left out (`purge_current_job()` has it).

## 4. Runs

Bounds: two ends; one frame lost or garbled and one call of each kind (two of `hangup()`,
which can cross) is enough to bring up every action, since each fault is possible at every point; queues of one
to three messages and transports of one to five frames are small enough to be full
often. `WpDepth` is the capacity the code gives the ring, except in `session`.

| run | result | what it shows |
|---|---|---|
| `session` | pass | from power-up through hangup, forced hangup and reset to another session, with one garbled frame, random numbers that may be 0 and everything as small as it can be (`WpDepth` 3, one message, one frame), one end wanting authentication: `TypeOK`, `PlanInv`, `Established`, `HangupHeard`, and the refinement `Lifecycle` |
| `dialogs` | pass | an established session, one application message, one log, one loss, one call of `requireAuth()` or `syncCast()`, a transport that holds one frame: `WaitingNotForgotten`, `ReplyReleases` |
| `hangup` | pass | two calls of `hangup()`, at one end or crossing, against an application message, no loss, a transport that has room: `HangupLast`, and `HangupEnds` under fairness |
| `sync` | pass | from power-up with random numbers that may be 0 and one call of `localIdentity()`, no loss: `ResyncEnds`, `SyncDiesOut` under fairness |
| `tentative` | violation | `TentativeEnds`: CONNECT may be culled and is sent once |
| `hangup_lost` | violation | `HangupEnds` with one loss: the retry of a message without payload is empty |
| `hangup_late` | violation | `HangupLast` from power-up on a transport that holds one frame: the answer to a HANGUP that was rejected is queued again above application messages, and its frame leaves before one that waits |
| `keepalive` | violation | `QueuedIsSent`: the reply to a keepalive clears unsent messages |
| `sequence` | pass | AsyncSequencer with all 25 dependency graphs of three steps: `SequencerTypeOK`, `RunsAfterDeps`, `Exclusive`, `RequestClosed`, `VerdictFinal`, `ZeroIsStagnant`, and `RequestSettled` under fairness |
| `schedule` | pass | C3PScheduler with a polled clock: `TypeOK`, `NoDoubleAdds`, `NotEarly`, and `ServedForever` under fairness |
| `double_add` | violation | `Idempotent` with an interrupt: its `_count++` is lost in `get()`, and a queued schedule is queued again |
| `bus` | pass | SPI and I2C adapters in all six configurations: `TypeOK`, `Placed`, `StateFits`, `FaultsAreOwn`, the refinement `JobContract`, and `CalledBack`, `CensusEnds` under fairness |

The five violations are what the code does against what its comments say; the
`findings` of `PROJECT.json` quote both.

`dialogs`, `hangup`, `hangup_lost` and `keepalive` start where both ends are
LIVE and idle (`InitLive`), a state that the opening leads to, so that the
opening does not multiply the states of the question.

Fairness. Each main loop keeps calling `poll()` (weak fairness of `PollEnd`); while a
link is quiet its timers do expire between two polls (of `PollWith(e, TRUE, TRUE)`); and
the transport carries what it accepted while the receiver has room (of `Deliver`).
Nothing is assumed of the applications, of loss, or of random numbers. In `sync`,
`tentative` and `keepalive`, `Prompt` says that the transport empties within the keepalive
period (`ms_keepalive` is seconds, a frame takes milliseconds): without it, keepalives could
flood it.

In `sequence`, the main loop keeps polling and no function of a step asks for a retry
forever (weak fairness of `PollReady({s})` for each step s); requests and resets are not
fair. Three steps are enough for a chain, a fork and a join in every order of the list, so
that the recursive walk of `_get_dependency_mask()` meets dependencies before, after and
between the steps that need them.

In `schedule`, the clock runs, the timing source calls and the main loop returns to
`serviceSchedules()` and ends what it began there (strong fairness of `Tick`, `Advance` and `Service`:
each is possible only while the others pause), and a call of the application that
was begun ends (weak fairness of `AppGoesOn`). `ClockMod` 8 is the least that tells periods of 1 and
3 from the wrap at every point; `IsrMod` 2 makes `_isr_count` wrap at every other call;
`MaxGap` 1 says that the timing source keeps up. Two schedules fill both rings. A schedule has either an
execution time of its own or, after `enabled(true)` on one whose `_exec_at` is 0, any.

In `bus`, the main loop polls and services callbacks, and the platform ends each transfer it
has begun, one way or the other (weak fairness of `Poll` and `Advance` with the outcomes that
end, and of `ServiceCallbackQueue`). Drivers, purges and censuses are not fair. Three operations, one
of each kind of memory, are enough for a queue at its limit (`MaxQDepth` 1), an
exhausted pool and two censuses at a time; `LastAddr` 2 for a census that goes on once. The active slot must not be purged
for ever (`PurgesEnd`) where operations are begun as they are queued: those that wait would
be overtaken each time.

Deadlock is checked in all runs: polls never stop being possible.

Known behaviours that the models have and no run is spent on. `hangup(false)` in PENDING_HANGUP
purges the queued HANGUP and plans HUNGUP, but PENDING_HANGUP is only left once HANGUP was sent
and received: the link stays there, although `M2MLink.cpp:324` means to "kill the connection with
no delay". `writeRemoteLog()` and the answers of a poll may queue behind a HANGUP, although `M2MLink.cpp:606` speaks of
a lock-out: `send()` alone is refused in PENDING_HANGUP. An end that has an Identity answers WHO
with a reply that needs one in turn; the end that asked acknowledges it and keeps the message (`M2MLink.cpp:786-793`), so
`_clear_waiting_send_by_id()` is not called and the WHO that was answered still waits, is sent again and
is counted in `replyTimeouts()` in the end (TLC finds `ReplyReleases` violated with one Identity, `WaitingNotForgotten`
with two). `resetSteps()` clears the steps it is told to and no more, so a step that depends on
one of them stays runnable and runs before its dependency has passed again (`PartialResets` TRUE
breaks `RunsAfterDeps`). With an interrupt as the timing source, a lost count also leaves a queued
schedule that `get()` does not reach until others push it out. `execute()` does not look at `enabled` again: a schedule
that is disabled while it is queued runs once more (`touched` in `NotEarly`).
`I2CAdapter::queue_io_job()` returns -1 for an operation that it has begun at once, so
`writeX()` reports a failure of a transfer that is under way. `purge_queued_work_by_dev()` passes over the job
behind each one it removes and does not touch the active job, so callbacks to an
`I2CDevice` can follow its destructor. `_reclaim_queue_item()` leaves the fault of an operation that a
driver owns, and `SPIBusOp::markComplete()` then ends its next good transfer in FAULT
(the exception in `FaultsAreOwn`). Priorities can starve an operation (`CalledBack` is about
adapters whose drivers use none).

## 5. Theorems

Except for `RingIsQueue` and `MaskIsClosure`, which are about operators, each is about the `Spec` of
M2MSession, AsyncSequencer, C3PScheduler or BusAdapter: no fairness, and any values of the constants that satisfy the named
assumptions. These are `WpDepthAssumption`, `LinkAssumption`
(the ring holds at least the three waypoints of the setup route; queues and transport hold at
least one element), `MaxRetriesAssumption` and `SessionAssumption` (two ends; options,
answers, ids and limits of the right kind); `SequencerAssumption` (1 to 32 steps); `CapacityAssumption` (a ring has a slot)
and `SchedulerAssumption` (a clock of more than
four values; periods and delays within half of it); `BusAssumption` (a finite pool, the three kinds of
operations apart, a device for each operation that a driver owns, an address to ping). A condition
that a theorem needs besides is in the table; `Simple` is `AppAnswers \subseteq {"drop", "ack"}` with no Identity at
either end and none given later (`Limit["identity"] = 0`).

| theorem | states |
|---|---|
| `TypeCorrect` | `Spec => []TypeOK` |
| `PlanCorrect` | `Spec => []PlanInv` |
| `EstablishedCorrect` | `Spec => []Established` |
| `HangupIsHeard` | `Spec => []HangupHeard` |
| `ReplyIsRelease` | if `Simple`, `Spec => ReplyReleases` and `LiveSpec => ReplyReleases` |
| `WaitingIsMinded` | if `Simple`, `Spec => WaitingNotForgotten` and `LiveSpec => WaitingNotForgotten` |
| `Refinement` | `Spec => Lifecycle`, that is `LinkLifecycle!Spec` under the mapping `Life` |
| `OrderCorrect` | if steps are reset with their dependents (`~PartialResets`), `Spec => []RunsAfterDeps` |
| `ExclusiveCorrect` | `Spec => []Exclusive` |
| `SequencerTypeSafe` | `Spec => []SequencerTypeOK` |
| `MaskIsClosure` | `GetDependencyMask(mask)` is the least set of steps that has those of the mask and is closed under `deps` |
| `RequestsClosed` | if `~PartialResets`, `Spec => []RequestClosed` |
| `VerdictStands` | `Spec => VerdictFinal` |
| `ZeroSaysStagnant` | `Spec => ZeroIsStagnant` |
| `RingIsQueue` | `Insert`, `Get`, `Cull` and `InsertIfAbsent` on a consistent ring, as operations on its `Contents` |
| `SchedulerTypeOK` | if `Polled`, `Spec => []TypeOK` |
| `SchedulerNoDoubleAdds` | `Spec => []NoDoubleAdds` |
| `SchedulerNotEarly` | `Spec => []NotEarly` |
| `BusInvariant` | `Spec => []BusInv`, the inductive invariant of the next five |
| `BusTypeSafe` | `Spec => []TypeOK` |
| `NothingLost` | `Spec => []Placed` |
| `StatesFit` | `Spec => []StateFits` |
| `NoFaultInherited` | `Spec => []FaultsAreOwn` |
| `ContractKept` | `Spec => JobContract`, that is `BusJob!Spec` for each operation |

The session. `Established` is not inductive: whether LIVE may be entered depends on
what is planned, and plans are made long before. `PlanInv` relates plan and state: a
SYNC_RESYNC is always followed by the SYNC_TENTATIVE that waits for the CONNECT reply, even
when the ring is nearly full (then SYNC_TENTATIVE alone fits, or neither); the
setup is planned only from UNINIT and HUNGUP; SYNC_RESYNC and PENDING_SETUP
never have a state behind the CONNECT exchange next; and the flag ESTABLISHED is set in those
states and clear in the states outside a session. `TypeOK /\ PlanInv` is
inductive. It needs `TypeOK` for the inbound queue to be empty between polls (else
UNINIT could handle a CONNECT) and for the lengths that decide what is cut off.

`M2MLinkProofs` says of each member function what it leaves of type, sizes, state,
plan and connection; `PriorityQueueProofs` the same of the queue, with the
fact that the walks of the list end. `M2MSessionProofs` shows that each call preserves `PlanFits`
and is a step of the life of the link (`LifeStep`), puts the two links together and
concludes.

The refinement is proved for every size of the ring, and that showed one step TLC's
instances do not reach: if the route "PENDING_HANGUP, HUNGUP" is cut off after its first
state, a LIVE that a late CONNECT reply appends takes the place of HUNGUP, and a
link goes from closing back to up. `LinkLifecycle!Open` allows it.

`HangupHeard` says that a link that heard a HANGUP has a peer that sent one. Its strengthening `HangupSent` follows the
message back: a HANGUP that was heard, lies in the input buffer or is in the transport was sent, and no link
in UNINIT has one queued with the flag clear (`Ready`). Each member function of the link is shown to say so
(`Tells`: what it puts into the transport or takes from the buffer and the flags agree); loss, garbling
and delivery make no HANGUP; and a reset, after which the peer may still hear what was sent in the earlier
session, is what the property excludes. TLC had checked `HangupSent` on the instances of `session` before it was proved.

The dialogs. `_clear_waiting_send_by_id()` steps over the element behind each one that it removes and takes replies
that wait to be sent as well as questions, so that a reply releases what it answers only if no more than one message of the queue has its id. What makes it so is a fact about both ends and the
transport, `DialogInv`: every id in use belongs to the end that began the dialog (`Own`: the ids that this end asks in, in its queue or on
the way, and is answered in, in its buffer), none is both its `Own` and `Foreign`, where the peer's belong; a reply in
the queue is under a foreign id and a question under one of its own; and no two questions of a queue have the same id (`AskedOnce`).
A frame that is delivered turns from what the one asks into what the other was asked, which is where the two
halves meet (`Apart`). Each member function keeps to the dialogs of its link (`Converses`), but for one
new id, which is drawn from those in use nowhere, and what waits still waits afterwards (`Minds`), unless an answer to
it was received or one more is counted. Both are shown from the queue (`InsertSays`, `ClearSays`) through the handlers up to `poll()`
(`PollSays`). `Simple` says that the application does not answer with questions and that no end has
or is given an Identity: either makes a message that is a reply and a question at once, whose id is foreign and
asked, and TLC then finds the properties violated. TLC had checked `DialogInv` on the instance of `dialogs` and, without an Identity, on that of `session`.

The sequencer. `RunsAfterDeps` needs `Exclusive`: a dependency that passed keeps its verdict because only
steps that are not complete are dispatched or polled, and what passed is complete. That
theorem holds for any request, closed under dependencies or not. `RequestClosed` is another matter: it is
what the recursive walk computes. `MaskIsClosure` shows that it computes the closure, although its limiter cuts off the
recursion: the dependencies have no cycle and so no chain is longer than there are steps. Induction over data cannot be
taken from the library's theorems, whose parameter is an operator, so each induction goes through the least element
of a set of counterexamples (`LoopCloses` along the turns of the loop, and `MaskIsClosure` itself over the calls that the limiter still allows). `VerdictFinal` and
`ZeroIsStagnant` follow from what one poll does to each mask (`PollMasks`).

`RingIsQueue` rests on `Ahead` being injective on a window of at most `Capacity` slots: the slot
that `insert()` writes is none of those in use.

`NotEarly` is not inductive: that a schedule is due is a statement about the wrapped clock, and
that its time has come one about what was asked for. The invariant has these parts: for every enabled schedule, the
wrapped `at` and the unwrapped `owed` agree while `owed` is positive, and `owed` is never more than half
of the clock, so that `Due` cannot hold early (`OwedOK`); halfway through `delay(unsigned int)` and during
`execute()`, what is still to be added makes up for the difference (`DelayOK`, `RunOK`); between the
accesses of `get()` the slot still has the schedule at hand, the count that was loaded is still the
count, and the schedule is not in the queue as well (`HandOver`); the queue holds no schedule twice and its count agrees with its
indices (`QueueInv`, which rests on the lemmas about rings); and what is queued and untouched is
enabled and due (`EarlyInv`). All of it is for `Polled`: `HandOver` is just what an interrupt
breaks, and with one `Idempotent` is violated, as `double_add` shows.

The bus. `Placed` says where operations are, but not that the lists they are in hold each once, nor what a driver may do next.
`BusInv` describes the adapter from the other side, by where an operation is not: those in the pool or not
allocated (`Stored`) and those in the two queues (`Queued`) are apart and each in its list once; of all others (`Away`)
one may be in the active slot, and drivers hold the rest, idle and with no fault that is not theirs. So taking an
operation from a list is what hands it on, and each operator of the adapter (`new_op`, advancing the queue, completing,
the callbacks with what they may do from within, the purges with their walks) is shown to move operations between
these sets and to leave the state that the new place calls for. `BusQueueProofs` has what the two queues and the pool's
ring do to the operations in them, `PriorityQueueProofs` what `insert` and `remove` do to a sequence. The abstract `BusJob` then
is a matter of going through the steps, since the invariant says which operations a step can touch. TLC had checked `BusInv` on the
instances of `bus` first.

Only model-checked. The liveness properties (`ResyncEnds`, `SyncDiesOut`, `HangupEnds`, `RequestSettled`,
`ServedForever`, `CalledBack`, `CensusEnds`) rest on fairness and are out of the prover's reach. `HangupLast`
is checked under a condition that the module's assumptions do not make, so that it is no theorem as it stands: it holds while the transport
has room and is violated otherwise (run `hangup_late`). It is about frames that enter the transport: a HANGUP query has no payload, so that
once rejected it leaves as an empty buffer, with HANGUP_TXD set if the transport takes that, and no frame follows (the defect that `hangup_lost` shows); an
answer keeps its bytes and is the one that overtakes. `DialogInv` takes the ids in use to differ, as the model's `Draws`
does: 24 random bits may repeat. `WaitingNotForgotten` counts timeouts, which the model stops at `MaxUnackd`, a number of any size.

## 6. Not modelled

Most of the repository's lines are not control: fonts and images are tables, `C3PType`, `C3PValue`,
`StringBuilder`, `Image`, the codecs and the parsers are conversions of data, the numeric classes
are (floating-point) arithmetic, the console is text, the cryptographic wrappers call external libraries, and a
large part of `src/extras` is the unit tests. None of these is a state machine with steps to
interleave; the modules cover the parts that are.

Storage: `DataRecord::load()` never starts a read, and the drivers that persist blocks are
outside the repository, so there is no cycle of saving and loading to check.

Of M2MLink: the byte-wise parser, callbacks that call back into the link
from within it, `setCallback()` and a change of the output target (both are wired before the first poll), M2MService, the session tag (it is generated and never sent), and
the debug console. UARTAdapter is modelled only as the transport that accepts or rejects.

Of C3PScheduler: `period(unsigned int)`, `removeSchedule()` (the code has a TODO), profilers, and calls of
`addSchedule()` and `delay(unsigned int)` from within the execution of a schedule (the other setters and
`delay()` are there, in `execute()` as in idle time).

Of the bus adapters: buffers, statistics, the map of ping results, register shadows, chip select and
frequency, `deinit`, callbacks that queue work while a queue is purged, and an I2C driver that
queues an operation again before it was called back, against which the code has no guard.
