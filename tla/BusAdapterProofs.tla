-------------------------- MODULE BusAdapterProofs --------------------------
(***************************************************************************)
(* BusAdapter keeps track of its operations: each is in one place, in a    *)
(* state that fits the place, and leaves the adapter with its callback     *)
(* only.  For any pool, heap, drivers and operations of theirs.            *)
(*                                                                         *)
(* The invariant says where an operation is not: those in no list and no   *)
(* queue of the adapter are away, and of these one may be in the active    *)
(* slot; drivers hold the others.  Each operator of the adapter is shown   *)
(* to move operations between lists, queues and drivers without losing     *)
(* track of one.                                                           *)
(***************************************************************************)
EXTENDS BusQueueProofs

CallbackObjects == Devices \cup {Adapter, Null}

OpRecords == [st : XferStates, fault : BOOLEAN, cb : CallbackObjects, addr : 0..LastAddr]

BusRecords == [ops : [Ops -> OpRecords], populated : BOOLEAN,
               free : Seq(PoolOps), heap : SUBSET HeapOps,
               work : Seq(Jobs), cur : Ops \cup {Null}, cbq : Seq(Jobs),
               pinging : BOOLEAN, online : BOOLEAN]

\* Operations that are in the pool or not allocated, that are in a queue, and
\* that are in neither.
Stored(b) == Ran(b.free) \cup (HeapOps \ b.heap) \cup (IF b.populated THEN {} ELSE PoolOps)
Queued(b) == OpsIn(b.work) \cup OpsIn(b.cbq)
Away(b)   == Ops \ (Stored(b) \cup Queued(b))

\* An operation that can be queued, and is its own in its fault.
OwnFault(b, o) == b.ops[o].fault => o \in StaticOps
Clean(b, o) == b.ops[o].st = "IDLE" /\ OwnFault(b, o)

\* The lists and queues of an adapter, and the operations that are in them.
Sound(b) ==
  /\ b \in BusRecords
  /\ Distinct(b.free) /\ Once(b.work) /\ Once(b.cbq)
  /\ OpsIn(b.work) \cap OpsIn(b.cbq) = {}
  /\ Stored(b) \cap Queued(b) = {}
  /\ b.populated \/ b.free = <<>>
  /\ \A o \in Stored(b) \cap PoolOps : b.ops[o] = Blank(Null)
  /\ \A o \in OpsIn(b.work) : b.ops[o].st = "QUEUED" /\ OwnFault(b, o)
  /\ \A o \in OpsIn(b.cbq) : Finished(b.ops[o])

\* The operation in the active slot.
CurFits(b) ==
  b.cur # Null =>
    /\ b.cur \in Away(b)
    /\ Finished(b.ops[b.cur]) \/ OwnFault(b, b.cur)
    /\ cfg.kind = "SPI" => b.ops[b.cur].st # "IDLE"

\* The inductive invariant.
BusInv ==
  /\ cfg \in Configs
  /\ Sound(bus) /\ CurFits(bus)
  /\ \A o \in Away(bus) \ {bus.cur} : Clean(bus, o)
  /\ held = Away(bus) \ {bus.cur}
  /\ called \subseteq Ops

\* Every operation is where it was.
SamePlaces(b, c) ==
  /\ c.free = b.free /\ c.heap = b.heap /\ c.populated = b.populated
  /\ c.work = b.work /\ c.cbq = b.cbq

-----------------------------------------------------------------------------
(***************************************************************************)
(* Types.                                                                  *)
(***************************************************************************)

LEMMA Apart ==
  /\ PoolOps \cap HeapOps = {} /\ PoolOps \cap StaticOps = {} /\ HeapOps \cap StaticOps = {}
  /\ Null \notin Ops /\ Ops = PoolOps \cup HeapOps \cup StaticOps
  /\ PoolOps \subseteq Ops /\ HeapOps \subseteq Ops /\ StaticOps \subseteq Ops
BY BusAssumption DEF Ops

LEMMA Fields ==
  ASSUME NEW b \in BusRecords
  PROVE  /\ b.ops \in [Ops -> OpRecords] /\ b.populated \in BOOLEAN
         /\ b.free \in Seq(PoolOps) /\ b.heap \subseteq HeapOps
         /\ b.work \in Seq(Jobs) /\ b.cur \in Ops \cup {Null} /\ b.cbq \in Seq(Jobs)
         /\ b.pinging \in BOOLEAN /\ b.online \in BOOLEAN
BY DEF BusRecords

LEMMA BlankType == Blank(Null) \in OpRecords /\ ~Blank(Null).fault /\ Blank(Null).st = "IDLE"
BY BusAssumption DEF Blank, OpRecords, XferStates, CallbackObjects

\* Operations that are stored have a place in memory that is not a driver's.
LEMMA StoredType ==
  ASSUME NEW b \in BusRecords
  PROVE  Stored(b) \subseteq PoolOps \cup HeapOps
<1>1. Ran(b.free) \subseteq PoolOps
  BY Fields, RanType
<1> QED BY <1>1 DEF Stored

LEMMA QueuedType ==
  ASSUME NEW b \in BusRecords
  PROVE  Queued(b) \subseteq Ops
<1>1. OpsIn(b.work) \subseteq Ops /\ OpsIn(b.cbq) \subseteq Ops
  BY Fields, OpSeqOf
<1> QED BY <1>1 DEF Queued

\* What the code does to an operation leaves it an operation.
LEMMA BusOpTypes ==
  ASSUME NEW op \in OpRecords, NEW kind \in Kinds
  PROVE  /\ Abort(kind, op) \in OpRecords /\ Finished(Abort(kind, op))
         /\ Abort(kind, op).cb = op.cb
         /\ MarkForRequeue(op) \in OpRecords
         /\ MarkForRequeue(op).st = "IDLE" /\ ~MarkForRequeue(op).fault
         /\ MarkForRequeue(op).cb = op.cb
<1>1. /\ Abort(kind, op) \in OpRecords /\ Finished(Abort(kind, op))
      /\ Abort(kind, op).cb = op.cb
  BY DEF Abort, SPIAbort, I2CAbort, SPIMarkComplete, I2CMarkComplete, Finished,
         OpRecords, XferStates, Kinds
<1>2. /\ MarkForRequeue(op) \in OpRecords
      /\ MarkForRequeue(op).st = "IDLE" /\ ~MarkForRequeue(op).fault
      /\ MarkForRequeue(op).cb = op.cb
  BY DEF MarkForRequeue, OpRecords, XferStates
<1> QED BY <1>1, <1>2

\* A transfer that the platform moves has no fault unless it ends with one, and
\* it does not fall back to IDLE.
LEMMA MovedType ==
  ASSUME NEW op \in OpRecords, NEW kind \in Kinds, NEW res \in Outcomes
  PROVE  /\ Moved(kind, op, res) \in OpRecords
         /\ Finished(Moved(kind, op, res)) \/ (Moved(kind, op, res).fault => op.fault)
         /\ op.st # "IDLE" => Moved(kind, op, res).st # "IDLE"
         /\ res = "FAILED" => Finished(Moved(kind, op, res))
<1>1. CASE res = "NONE"
  BY <1>1 DEF Moved, Finished, OpRecords, XferStates
<1>2. CASE res = "BUS_BUSY"
  BY <1>2 DEF Moved
<1>3. CASE res = "DONE"
  BY <1>3 DEF Moved, MarkComplete, SPIMarkComplete, I2CMarkComplete, Finished, OpRecords,
              XferStates, Kinds
<1>4. CASE res = "FAILED"
  <2>1. Moved(kind, op, res) = Abort(kind, op)
    BY <1>4 DEF Moved
  <2>2. \A r : Finished(r) => r.st # "IDLE"
    BY DEF Finished
  <2> QED BY <2>1, <2>2, BusOpTypes
<1> QED BY <1>1, <1>2, <1>3, <1>4 DEF Outcomes

-----------------------------------------------------------------------------
(***************************************************************************)
(* The records of operations change, their places do not.                  *)
(***************************************************************************)

LEMMA PlacesSame ==
  ASSUME NEW b, NEW c, SamePlaces(b, c)
  PROVE  Stored(c) = Stored(b) /\ Queued(c) = Queued(b) /\ Away(c) = Away(b)
BY DEF SamePlaces, Stored, Queued, Away

LEMMA StaysSound ==
  ASSUME NEW b, Sound(b), NEW c \in BusRecords, SamePlaces(b, c),
         \A o \in Stored(b) \cap PoolOps : c.ops[o] = b.ops[o],
         \A o \in Queued(b) : c.ops[o].st = b.ops[o].st /\ c.ops[o].fault = b.ops[o].fault
  PROVE  Sound(c) /\ Away(c) = Away(b)
<1>1. Stored(c) = Stored(b) /\ Queued(c) = Queued(b) /\ Away(c) = Away(b)
  BY PlacesSame
<1>2. /\ Distinct(c.free) /\ Once(c.work) /\ Once(c.cbq)
      /\ OpsIn(c.work) \cap OpsIn(c.cbq) = {}
      /\ Stored(c) \cap Queued(c) = {}
      /\ c.populated \/ c.free = <<>>
  BY <1>1 DEF Sound, SamePlaces
<1>3. \A o \in Stored(c) \cap PoolOps : c.ops[o] = Blank(Null)
  BY <1>1 DEF Sound
<1>4. \A o \in OpsIn(c.work) : c.ops[o].st = "QUEUED" /\ OwnFault(c, o)
  BY DEF Sound, SamePlaces, Queued, OwnFault
<1>5. \A o \in OpsIn(c.cbq) : Finished(c.ops[o])
  BY DEF Sound, SamePlaces, Queued, Finished
<1> QED BY <1>1, <1>2, <1>3, <1>4, <1>5 DEF Sound

LEMMA OpIsFields ==
  ASSUME NEW b \in BusRecords, NEW o \in Ops, NEW op \in OpRecords
  PROVE  /\ OpIs(b, o, op) \in BusRecords /\ SamePlaces(b, OpIs(b, o, op))
         /\ OpIs(b, o, op).cur = b.cur /\ OpIs(b, o, op).online = b.online
         /\ OpIs(b, o, op).pinging = b.pinging
         /\ OpIs(b, o, op).ops[o] = op
         /\ \A x \in Ops \ {o} : OpIs(b, o, op).ops[x] = b.ops[x]
BY DEF OpIs, BusRecords, SamePlaces

\* The record of an operation that is away may change in any way.
LEMMA OpIsSound ==
  ASSUME NEW b, Sound(b), NEW o \in Away(b), NEW op \in OpRecords
  PROVE  Sound(OpIs(b, o, op)) /\ Away(OpIs(b, o, op)) = Away(b)
<1>1. b \in BusRecords /\ o \in Ops /\ o \notin Stored(b) /\ o \notin Queued(b)
  BY DEF Sound, Away
<1>2. Stored(b) \subseteq Ops /\ Queued(b) \subseteq Ops
  BY <1>1, StoredType, QueuedType, Apart
<1> DEFINE c == OpIs(b, o, op)
<1>3. c \in BusRecords /\ SamePlaces(b, c) /\ \A x \in Ops \ {o} : c.ops[x] = b.ops[x]
  BY <1>1, OpIsFields
<1> HIDE DEF c
<1>4. Sound(c) /\ Away(c) = Away(b)
  BY <1>1, <1>2, <1>3, StaysSound
<1> QED BY <1>4 DEF c

-----------------------------------------------------------------------------
(***************************************************************************)
(* take(), and putting an operation into a queue.                          *)
(***************************************************************************)

\* The operation that take() returns was stored, and is away then.
LEMMA TakeOf ==
  ASSUME NEW b, Sound(b), CanTake(b)
  PROVE  /\ Sound(Take(b))
         /\ Taken(b) \in Stored(b) /\ Taken(b) \in Ops \ StaticOps
         /\ Away(Take(b)) = Away(b) \cup {Taken(b)}
         /\ Take(b).ops = b.ops /\ Take(b).work = b.work /\ Take(b).cbq = b.cbq
         /\ Take(b).cur = b.cur /\ Take(b).online = b.online
<1> DEFINE x == Taken(b)  c == Take(b)
<1>1. b \in BusRecords
  BY DEF Sound
<1>2. CASE b.free # <<>>
  <2>1. x = Head(b.free) /\ c = [b EXCEPT !.free = Tail(b.free)]
    BY <1>2 DEF Taken, Take
  <2>2. b.free \in Seq(PoolOps) /\ Distinct(b.free) /\ b.populated
    BY <1>1, <1>2, Fields DEF Sound
  <2>3. /\ Tail(b.free) \in Seq(PoolOps) /\ Distinct(Tail(b.free))
        /\ x \in Ran(b.free) /\ x \notin Ran(Tail(b.free))
        /\ Ran(b.free) = Ran(Tail(b.free)) \cup {x}
    BY <1>2, <2>1, <2>2, TailOf
  <2>4. x \in PoolOps
    BY <2>2, <2>3, RanType
  <2> HIDE DEF x, c
  <2>5. /\ c \in BusRecords /\ c.free = Tail(b.free)
        /\ c.ops = b.ops /\ c.heap = b.heap /\ c.populated = b.populated
        /\ c.work = b.work /\ c.cbq = b.cbq /\ c.cur = b.cur /\ c.online = b.online
    BY <1>1, <2>1, <2>3 DEF BusRecords
  <2>6. Stored(c) = Stored(b) \ {x} /\ x \in Stored(b) /\ Queued(c) = Queued(b)
    <3>1. Stored(b) = Ran(b.free) \cup (HeapOps \ b.heap)
      BY <2>2 DEF Stored
    <3>2. Stored(c) = Ran(Tail(b.free)) \cup (HeapOps \ b.heap)
      BY <2>2, <2>5 DEF Stored
    <3>3. Queued(c) = Queued(b)
      BY <2>5 DEF Queued
    <3> QED BY <2>3, <2>4, <3>1, <3>2, <3>3, Apart
  <2>7. Away(c) = Away(b) \cup {x}
    <3>1. x \in Ops /\ x \notin Queued(b)
      BY <2>4, <2>6, Apart DEF Sound
    <3> QED BY <2>6, <3>1 DEF Away
  <2>8. Sound(c)
    BY <2>2, <2>3, <2>5, <2>6 DEF Sound, OwnFault
  <2> QED BY <2>4, <2>5, <2>6, <2>7, <2>8, Apart DEF x, c
<1>3. CASE b.free = <<>>
  <2>1. x = (CHOOSE h \in HeapOps : h \notin b.heap) /\ c = [b EXCEPT !.heap = b.heap \cup {x}]
    BY <1>3 DEF Taken, Take
  <2>2. \E h \in HeapOps : h \notin b.heap
    BY <1>1, <1>3, Fields DEF CanTake
  <2>3. x \in HeapOps /\ x \notin b.heap
    BY <2>1, <2>2
  <2> HIDE DEF x, c
  <2>4. /\ c \in BusRecords /\ c.heap = b.heap \cup {x}
        /\ c.ops = b.ops /\ c.free = b.free /\ c.populated = b.populated
        /\ c.work = b.work /\ c.cbq = b.cbq /\ c.cur = b.cur /\ c.online = b.online
    BY <1>1, <2>1, <2>3 DEF BusRecords
  <2>5. Stored(c) = Stored(b) \ {x} /\ x \in Stored(b) /\ Queued(c) = Queued(b)
    <3>1. Ran(b.free) = {}
      BY <1>3, EmptyList
    <3>2. Queued(c) = Queued(b)
      BY <2>4 DEF Queued
    <3> QED BY <2>3, <2>4, <3>1, <3>2, Apart DEF Stored
  <2>6. Away(c) = Away(b) \cup {x}
    <3>1. x \in Ops /\ x \notin Queued(b)
      BY <2>3, <2>5, Apart DEF Sound
    <3> QED BY <2>5, <3>1 DEF Away
  <2>7. Sound(c)
    BY <2>4, <2>5 DEF Sound, OwnFault
  <2> QED BY <2>3, <2>4, <2>5, <2>6, <2>7, Apart DEF x, c
<1> QED BY <1>2, <1>3

\* new_op(): the operation is blank, but for its callback object.
LEMMA NewOpOf ==
  ASSUME NEW b, Sound(b), CanTake(b), NEW cb \in CallbackObjects
  PROVE  /\ Sound(NewOp(b, cb))
         /\ Taken(b) \in Ops \ StaticOps
         /\ Taken(b) \notin Away(b) /\ Taken(b) \notin Queued(b)
         /\ Away(NewOp(b, cb)) = Away(b) \cup {Taken(b)}
         /\ NewOp(b, cb).ops[Taken(b)] = [Blank(Null) EXCEPT !.cb = cb]
         /\ \A o \in Ops \ {Taken(b)} : NewOp(b, cb).ops[o] = b.ops[o]
         /\ NewOp(b, cb).work = b.work /\ NewOp(b, cb).cbq = b.cbq
         /\ NewOp(b, cb).cur = b.cur /\ NewOp(b, cb).online = b.online
<1> DEFINE x == Taken(b)  t == Take(b)  op == [Blank(Null) EXCEPT !.cb = cb]  c == NewOp(b, cb)
<1>1. b \in BusRecords
  BY DEF Sound
<1>2. /\ Sound(t) /\ x \in Stored(b) /\ x \in Ops \ StaticOps
      /\ Away(t) = Away(b) \cup {x} /\ t.ops = b.ops
      /\ t.work = b.work /\ t.cbq = b.cbq /\ t.cur = b.cur /\ t.online = b.online
  BY TakeOf
<1>3. x \notin Away(b) /\ x \notin Queued(b)
  BY <1>2 DEF Sound, Away
<1>4. b.free # <<>> => b.ops[x] = Blank(Null)
  <2> SUFFICES ASSUME b.free # <<>> PROVE b.ops[x] = Blank(Null)
    OBVIOUS
  <2>1. x = Head(b.free) /\ b.free \in Seq(PoolOps) /\ Distinct(b.free)
    BY <1>1, Fields DEF Taken, Sound
  <2>2. x \in Ran(b.free)
    BY <2>1, TailOf
  <2>3. x \in PoolOps
    BY <2>1, <2>2, RanType
  <2> QED BY <1>2, <2>3 DEF Sound
<1>5. c = OpIs(t, x, op)
  BY <1>4 DEF NewOp
<1>6. op \in OpRecords
  BY BlankType DEF OpRecords
<1>7. t \in BusRecords /\ x \in Away(t)
  BY <1>2 DEF Sound
<1> HIDE DEF x, t, op, c
<1>8. Sound(c) /\ Away(c) = Away(t)
  BY <1>2, <1>5, <1>6, <1>7, OpIsSound
<1>9. /\ SamePlaces(t, c) /\ c.cur = t.cur /\ c.online = t.online /\ c.ops[x] = op
      /\ \A o \in Ops \ {x} : c.ops[o] = t.ops[o]
  BY <1>2, <1>5, <1>6, <1>7, OpIsFields
<1> QED BY <1>2, <1>3, <1>8, <1>9 DEF SamePlaces, x, t, op, c

\* The adapter c is the adapter b after o was put into one of the queues.
Enqueued(b, c, o) ==
  /\ Sound(c)
  /\ Away(c) = Away(b) \ {o}
  /\ Queued(c) = Queued(b) \cup {o} /\ OpsIn(b.work) \subseteq OpsIn(c.work)
  /\ \A x \in Ops \ {o} : c.ops[x] = b.ops[x]
  /\ c.cur = b.cur /\ c.online = b.online

LEMMA PutWork ==
  ASSUME NEW b, Sound(b), NEW o \in Away(b), NEW p \in {0, 1},
         NEW op \in OpRecords, op.st = "QUEUED", op.fault => o \in StaticOps
  PROVE  Enqueued(b, [b EXCEPT !.work = InsertIfAbsent(b.work, o, p), !.ops[o] = op], o)
<1> DEFINE w == Insert(b.work, Job(o), p)
           c == [b EXCEPT !.work = InsertIfAbsent(b.work, o, p), !.ops[o] = op]
<1>1. /\ b \in BusRecords /\ o \in Ops /\ o \notin Stored(b) /\ o \notin Queued(b)
      /\ o \notin OpsIn(b.work) /\ o \notin OpsIn(b.cbq)
  BY DEF Sound, Away, Queued
<1>2. InsertIfAbsent(b.work, o, p) = w
  BY <1>1 DEF InsertIfAbsent
<1>3. w \in Seq(Jobs) /\ Once(w) /\ OpsIn(w) = OpsIn(b.work) \cup {o}
  BY <1>1, Fields, InsertOf DEF Sound
<1> HIDE DEF w
<1>4. /\ c \in BusRecords /\ c.work = w /\ c.ops = [b.ops EXCEPT ![o] = op]
      /\ c.free = b.free /\ c.heap = b.heap /\ c.populated = b.populated /\ c.cbq = b.cbq
      /\ c.cur = b.cur /\ c.online = b.online
  BY <1>1, <1>2, <1>3 DEF BusRecords
<1> HIDE DEF c
<1>5. c.ops[o] = op /\ \A x \in Ops \ {o} : c.ops[x] = b.ops[x]
  BY <1>1, <1>4, Fields
<1>6. Stored(c) = Stored(b) /\ Queued(c) = Queued(b) \cup {o}
  BY <1>3, <1>4 DEF Stored, Queued
<1>7. Stored(b) \subseteq Ops /\ OpsIn(b.work) \subseteq Ops /\ OpsIn(b.cbq) \subseteq Ops
  BY <1>1, StoredType, QueuedType, Apart DEF Queued
<1>8. Sound(c)
  <2>1. /\ Distinct(c.free) /\ Once(c.work) /\ Once(c.cbq)
        /\ OpsIn(c.work) \cap OpsIn(c.cbq) = {}
        /\ Stored(c) \cap Queued(c) = {}
        /\ c.populated \/ c.free = <<>>
    BY <1>1, <1>3, <1>4, <1>6 DEF Sound
  <2>2. \A x \in Stored(c) \cap PoolOps : c.ops[x] = Blank(Null)
    BY <1>1, <1>5, <1>6, <1>7 DEF Sound
  <2>3. \A x \in OpsIn(c.work) : c.ops[x].st = "QUEUED" /\ OwnFault(c, x)
    BY <1>3, <1>4, <1>5, <1>7 DEF Sound, OwnFault
  <2>4. \A x \in OpsIn(c.cbq) : Finished(c.ops[x])
    BY <1>1, <1>4, <1>5, <1>7 DEF Sound
  <2> QED BY <1>4, <2>1, <2>2, <2>3, <2>4 DEF Sound
<1>9. Away(c) = Away(b) \ {o}
  BY <1>6 DEF Away
<1> QED BY <1>3, <1>4, <1>5, <1>6, <1>8, <1>9 DEF Enqueued, c

LEMMA PutCallback ==
  ASSUME NEW b, Sound(b), NEW o \in Away(b), NEW p \in {0, 1},
         NEW op \in OpRecords, Finished(op)
  PROVE  Enqueued(b, [b EXCEPT !.cbq = InsertIfAbsent(b.cbq, o, p), !.ops[o] = op], o)
<1> DEFINE w == Insert(b.cbq, Job(o), p)
           c == [b EXCEPT !.cbq = InsertIfAbsent(b.cbq, o, p), !.ops[o] = op]
<1>1. /\ b \in BusRecords /\ o \in Ops /\ o \notin Stored(b) /\ o \notin Queued(b)
      /\ o \notin OpsIn(b.work) /\ o \notin OpsIn(b.cbq)
  BY DEF Sound, Away, Queued
<1>2. InsertIfAbsent(b.cbq, o, p) = w
  BY <1>1 DEF InsertIfAbsent
<1>3. w \in Seq(Jobs) /\ Once(w) /\ OpsIn(w) = OpsIn(b.cbq) \cup {o}
  BY <1>1, Fields, InsertOf DEF Sound
<1> HIDE DEF w
<1>4. /\ c \in BusRecords /\ c.cbq = w /\ c.ops = [b.ops EXCEPT ![o] = op]
      /\ c.free = b.free /\ c.heap = b.heap /\ c.populated = b.populated /\ c.work = b.work
      /\ c.cur = b.cur /\ c.online = b.online
  BY <1>1, <1>2, <1>3 DEF BusRecords
<1> HIDE DEF c
<1>5. c.ops[o] = op /\ \A x \in Ops \ {o} : c.ops[x] = b.ops[x]
  BY <1>1, <1>4, Fields
<1>6. Stored(c) = Stored(b) /\ Queued(c) = Queued(b) \cup {o}
  BY <1>3, <1>4 DEF Stored, Queued
<1>7. Stored(b) \subseteq Ops /\ OpsIn(b.work) \subseteq Ops /\ OpsIn(b.cbq) \subseteq Ops
  BY <1>1, StoredType, QueuedType, Apart DEF Queued
<1>8. Sound(c)
  <2>1. /\ Distinct(c.free) /\ Once(c.work) /\ Once(c.cbq)
        /\ OpsIn(c.work) \cap OpsIn(c.cbq) = {}
        /\ Stored(c) \cap Queued(c) = {}
        /\ c.populated \/ c.free = <<>>
    BY <1>1, <1>3, <1>4, <1>6 DEF Sound
  <2>2. \A x \in Stored(c) \cap PoolOps : c.ops[x] = Blank(Null)
    BY <1>1, <1>5, <1>6, <1>7 DEF Sound
  <2>3. \A x \in OpsIn(c.work) : c.ops[x].st = "QUEUED" /\ OwnFault(c, x)
    BY <1>1, <1>4, <1>5, <1>7 DEF Sound, OwnFault
  <2>4. \A x \in OpsIn(c.cbq) : Finished(c.ops[x])
    BY <1>3, <1>4, <1>5, <1>7 DEF Sound
  <2> QED BY <1>4, <2>1, <2>2, <2>3, <2>4 DEF Sound
<1>9. Away(c) = Away(b) \ {o}
  BY <1>6 DEF Away
<1> QED BY <1>4, <1>5, <1>6, <1>8, <1>9 DEF Enqueued, c

-----------------------------------------------------------------------------
(***************************************************************************)
(* Queueing.                                                               *)
(***************************************************************************)

LEMMA WithCb ==
  ASSUME NEW op \in OpRecords, NEW cb \in CallbackObjects
  PROVE  /\ [op EXCEPT !.cb = cb] \in OpRecords
         /\ [op EXCEPT !.cb = cb].st = op.st /\ [op EXCEPT !.cb = cb].fault = op.fault
BY DEF OpRecords

\* SPIAdapter gives an operation without a callback object its own.
LEMMA OwnCallback ==
  ASSUME NEW b \in BusRecords, NEW o \in Ops
  PROVE  LET cb == IF b.ops[o].cb = Null THEN Adapter ELSE b.ops[o].cb
             op == [b.ops[o] EXCEPT !.cb = cb]
         IN  /\ op \in OpRecords /\ op.st = b.ops[o].st /\ op.fault = b.ops[o].fault
             /\ [b EXCEPT !.ops[o].cb = cb] = OpIs(b, o, op)
<1> DEFINE cb == IF b.ops[o].cb = Null THEN Adapter ELSE b.ops[o].cb
           op == [b.ops[o] EXCEPT !.cb = cb]
<1>1. b.ops[o] \in OpRecords
  BY Fields
<1>2. cb \in CallbackObjects
  BY <1>1 DEF OpRecords, CallbackObjects
<1>3. op \in OpRecords /\ op.st = b.ops[o].st /\ op.fault = b.ops[o].fault
  <2> HIDE DEF cb
  <2> QED BY <1>1, <1>2, WithCb
<1>4. [b EXCEPT !.ops[o].cb = cb] = OpIs(b, o, op)
  BY DEF OpIs
<1> QED BY <1>3, <1>4

\* SPIAdapter::queue_io_job() of an operation that is IDLE and not with it.
LEMMA QueueSPIOf ==
  ASSUME NEW b, Sound(b), NEW o \in Away(b), Clean(b, o), NEW p \in {0, 1}
  PROVE  Enqueued(b, QueueSPI(b, o, p), o)
<1> DEFINE cb == IF b.ops[o].cb = Null THEN Adapter ELSE b.ops[o].cb
           op == [b.ops[o] EXCEPT !.cb = cb]
           a  == OpIs(b, o, op)
           c  == QueueSPI(b, o, p)
<1>1. b \in BusRecords /\ o \in Ops
  BY DEF Sound, Away
<1>2. op \in OpRecords /\ op.st = "IDLE" /\ (op.fault => o \in StaticOps)
      /\ [b EXCEPT !.ops[o].cb = cb] = a
  BY <1>1, OwnCallback DEF Clean, OwnFault
<1> HIDE DEF op, cb
<1>3. Sound(a) /\ Away(a) = Away(b)
  BY <1>2, OpIsSound
<1>4. /\ SamePlaces(b, a) /\ a \in BusRecords /\ a.cur = b.cur /\ a.online = b.online
      /\ a.ops[o] = op /\ \A x \in Ops \ {o} : a.ops[x] = b.ops[x]
  BY <1>1, <1>2, OpIsFields
<1> HIDE DEF a
<1>5. Queued(a) = Queued(b) /\ o \notin OpsIn(a.work) /\ a.work = b.work
  BY <1>3, <1>4, PlacesSame DEF Away, Queued, SamePlaces
<1>6. ASSUME NEW d, Enqueued(a, d, o) PROVE Enqueued(b, d, o)
  BY <1>3, <1>4, <1>5, <1>6 DEF Enqueued
<1>7. CASE cfg.guard /\ Len(b.work) >= MaxQDepth
  <2>1. c = [a EXCEPT !.ops[o] = Abort("SPI", a.ops[o]), !.cbq = InsertIfAbsent(a.cbq, o, p)]
    BY <1>2, <1>4, <1>5, <1>7 DEF QueueSPI, cb
  <2> DEFINE f == Abort("SPI", op)
  <2>2. f \in OpRecords /\ Finished(f)
    BY <1>2, BusOpTypes DEF Kinds
  <2> HIDE DEF f
  <2>3. c = [a EXCEPT !.cbq = InsertIfAbsent(a.cbq, o, p), !.ops[o] = f]
    BY <1>4, <2>1 DEF f
  <2>4. Enqueued(a, [a EXCEPT !.cbq = InsertIfAbsent(a.cbq, o, p), !.ops[o] = f], o)
    <3>1. o \in Away(a)
      BY <1>3
    <3> QED BY <1>3, <2>2, <3>1, PutCallback
  <2>5. Enqueued(a, c, o)
    BY <2>3, <2>4
  <2> QED BY <1>6, <2>5
<1>8. CASE ~(cfg.guard /\ Len(b.work) >= MaxQDepth)
  <2>1. c = [a EXCEPT !.work = InsertIfAbsent(a.work, o, p), !.ops[o].st = "QUEUED"]
    BY <1>2, <1>4, <1>5, <1>8 DEF QueueSPI, cb
  <2> DEFINE f == [op EXCEPT !.st = "QUEUED"]
  <2>2. f \in OpRecords /\ f.st = "QUEUED" /\ (f.fault => o \in StaticOps)
    BY <1>2 DEF OpRecords, XferStates
  <2> HIDE DEF f
  <2>3. c = [a EXCEPT !.work = InsertIfAbsent(a.work, o, p), !.ops[o] = f]
    BY <1>4, <2>1 DEF f
  <2>4. Enqueued(a, [a EXCEPT !.work = InsertIfAbsent(a.work, o, p), !.ops[o] = f], o)
    <3>1. o \in Away(a)
      BY <1>3
    <3> QED BY <1>3, <2>2, <3>1, PutWork
  <2>5. Enqueued(a, c, o)
    BY <2>3, <2>4
  <2> QED BY <1>6, <2>5
<1> QED BY <1>7, <1>8

\* SPIAdapter::queue_io_job() of an operation that is not IDLE changes nothing
\* but its callback object.
LEMMA QueueAgainOf ==
  ASSUME NEW b, Sound(b), NEW o \in StaticOps, b.ops[o].st # "IDLE", NEW p \in {0, 1}
  PROVE  LET c == QueueSPI(b, o, p)
         IN  /\ Sound(c) /\ SamePlaces(b, c) /\ c.cur = b.cur /\ c.online = b.online
             /\ \A x \in Ops : c.ops[x].st = b.ops[x].st /\ c.ops[x].fault = b.ops[x].fault
<1> DEFINE cb == IF b.ops[o].cb = Null THEN Adapter ELSE b.ops[o].cb
           op == [b.ops[o] EXCEPT !.cb = cb]
           c  == QueueSPI(b, o, p)
<1>1. b \in BusRecords /\ o \in Ops
  BY Apart DEF Sound
<1>2. /\ op \in OpRecords /\ op.st = b.ops[o].st /\ op.fault = b.ops[o].fault
      /\ [b EXCEPT !.ops[o].cb = cb] = OpIs(b, o, op)
  BY <1>1, OwnCallback
<1> HIDE DEF op, cb
<1> DEFINE a == OpIs(b, o, op)
<1>3. /\ SamePlaces(b, a) /\ a \in BusRecords /\ a.cur = b.cur /\ a.online = b.online
      /\ a.ops[o] = op /\ \A x \in Ops \ {o} : a.ops[x] = b.ops[x]
  BY <1>1, <1>2, OpIsFields
<1> HIDE DEF a
<1>4. c = a
  BY <1>2, <1>3 DEF QueueSPI, cb, a
<1>5. \A x \in Ops : a.ops[x].st = b.ops[x].st /\ a.ops[x].fault = b.ops[x].fault
  BY <1>2, <1>3
<1>6. Stored(b) \subseteq Ops \ {o} /\ Queued(b) \subseteq Ops
  BY <1>1, StoredType, QueuedType, Apart
<1>7. Sound(a)
  BY <1>3, <1>5, <1>6, StaysSound
<1> QED BY <1>3, <1>4, <1>5, <1>7

\* I2CAdapter::queue_io_job(), if the operation cannot be begun at once.
LEMMA QueueI2COf ==
  ASSUME NEW b, Sound(b), NEW o \in Away(b), Clean(b, o), NEW res,
         ~(b.cur = Null /\ cfg.asap /\ b.online)
  PROVE  Enqueued(b, QueueI2C(b, o, res), o)
<1>1. b \in BusRecords /\ o \in Ops /\ o \notin OpsIn(b.work)
  BY DEF Sound, Away, Queued
<1> DEFINE f == [b.ops[o] EXCEPT !.st = "QUEUED"]
<1>2. b.ops[o] \in OpRecords
  BY <1>1, Fields
<1>3. f \in OpRecords /\ f.st = "QUEUED" /\ (f.fault => o \in StaticOps)
  BY <1>2 DEF OpRecords, XferStates, Clean, OwnFault
<1>4. QueueI2C(b, o, res) = [b EXCEPT !.work = InsertIfAbsent(b.work, o, 0), !.ops[o] = f]
  BY <1>1 DEF QueueI2C
<1> HIDE DEF f
<1>5. Enqueued(b, [b EXCEPT !.work = InsertIfAbsent(b.work, o, 0), !.ops[o] = f], o)
  BY <1>3, PutWork
<1> QED BY <1>4, <1>5

\* I2CAdapter::queue_io_job(), if the operation is begun at once.
LEMMA BeginOf ==
  ASSUME NEW b, Sound(b), NEW o \in Away(b), Clean(b, o), NEW res \in Outcomes,
         b.cur = Null, cfg.asap, b.online
  PROVE  LET c == QueueI2C(b, o, res)
         IN  /\ Sound(c) /\ SamePlaces(b, c) /\ c.cur = o
             /\ Finished(c.ops[o]) \/ OwnFault(c, o)
             /\ \A x \in Ops \ {o} : c.ops[x] = b.ops[x]
<1> DEFINE op == Moved("I2C", b.ops[o], res)
           a  == OpIs(b, o, op)
           c  == QueueI2C(b, o, res)
<1>1. b \in BusRecords /\ o \in Ops
  BY DEF Sound, Away
<1>2. b.ops[o] \in OpRecords
  BY <1>1, Fields
<1>3. op \in OpRecords /\ (Finished(op) \/ (op.fault => o \in StaticOps))
  BY <1>2, MovedType DEF Kinds, Clean, OwnFault
<1>4. c = [a EXCEPT !.cur = o]
  BY DEF QueueI2C, OpIs
<1> HIDE DEF op, c
<1>5. /\ SamePlaces(b, a) /\ a \in BusRecords /\ Sound(a)
      /\ a.ops[o] = op /\ \A x \in Ops \ {o} : a.ops[x] = b.ops[x]
  BY <1>1, <1>3, OpIsFields, OpIsSound
<1> HIDE DEF a
<1>6. /\ c \in BusRecords /\ c.cur = o /\ c.ops = a.ops /\ SamePlaces(a, c)
  BY <1>1, <1>4, <1>5 DEF BusRecords, SamePlaces
<1>7. Sound(c)
  BY <1>5, <1>6, StaysSound
<1> QED BY <1>3, <1>5, <1>6, <1>7 DEF SamePlaces, OwnFault, c

\* queue_io_job(), but for the operations that are begun at once.
LEMMA QueueOf ==
  ASSUME NEW b, Sound(b), NEW o \in Away(b), Clean(b, o), NEW p \in {0, 1}, NEW res,
         cfg.kind = "SPI" \/ ~(b.cur = Null /\ cfg.asap /\ b.online)
  PROVE  Enqueued(b, QueueIoJob(b, o, p, res), o)
<1>1. CASE cfg.kind = "SPI"
  <2>1. Enqueued(b, QueueSPI(b, o, p), o)
    BY QueueSPIOf
  <2> QED BY <1>1, <2>1 DEF QueueIoJob
<1>2. CASE cfg.kind # "SPI"
  <2>1. Enqueued(b, QueueI2C(b, o, res), o)
    BY <1>2, QueueI2COf
  <2> QED BY <1>2, <2>1 DEF QueueIoJob
<1> QED BY <1>1, <1>2

-----------------------------------------------------------------------------
(***************************************************************************)
(* _reclaim_queue_item().                                                  *)
(***************************************************************************)

LEMMA NarrowSeq ==
  ASSUME NEW S, NEW T, NEW s \in Seq(S), Ran(s) \subseteq T
  PROVE  s \in Seq(T) /\ (Ran(s) = {} => s = <<>>)
<1>1. Len(s) \in Nat /\ DOMAIN s = 1..Len(s)
  OBVIOUS
<1>2. s \in [1..Len(s) -> T]
  <2>1. \A i \in 1..Len(s) : s[i] \in T
    BY DEF Ran
  <2>2. s = [i \in 1..Len(s) |-> s[i]]
    OBVIOUS
  <2> QED BY <2>1, <2>2
<1>3. s \in Seq(T)
  BY <1>1, <1>2, FcnIsSeq
<1>4. ASSUME Ran(s) = {}, s # <<>> PROVE FALSE
  <2>1. 1 \in 1..Len(s)
    BY <1>1, <1>4
  <2>2. s[1] \in Ran(s)
    BY <2>1 DEF Ran
  <2> QED BY <1>4, <2>2
<1> QED BY <1>3, <1>4

\* Operations that are away are wiped and stored, those of drivers set to IDLE.
LEMMA ReclaimOf ==
  ASSUME NEW b, Sound(b), NEW s \in Seq(Ops), Distinct(s), Ran(s) \subseteq Away(b)
  PROVE  LET c == Reclaim(b, s)
         IN  /\ Sound(c)
             /\ Away(c) = Away(b) \ (Ran(s) \ StaticOps)
             /\ c.work = b.work /\ c.cbq = b.cbq /\ c.cur = b.cur /\ c.online = b.online
             /\ \A o \in Ran(s) \cap StaticOps : Clean(c, o)
             /\ \A o \in Ops \ Ran(s) : c.ops[o] = b.ops[o]
<1> DEFINE S == Ran(s)
           I == {i \in 1..Len(s) : s[i] \in PoolOps}
           pooled == Picked(s, I)
           opsC == [o \in Ops |-> IF o \notin S THEN b.ops[o]
                                  ELSE IF o \in StaticOps THEN [b.ops[o] EXCEPT !.st = "IDLE"]
                                  ELSE Blank(Null)]
           c == Reclaim(b, s)
<1>1. /\ b \in BusRecords /\ S \subseteq Ops
      /\ S \cap Stored(b) = {} /\ S \cap Queued(b) = {}
  BY DEF Sound, Away
<1>2. /\ b.ops \in [Ops -> OpRecords] /\ b.free \in Seq(PoolOps) /\ b.heap \subseteq HeapOps
      /\ Distinct(b.free)
  BY <1>1, Fields DEF Sound
<1>3. c = [b EXCEPT !.ops = opsC, !.free = b.free \o FirstOf(pooled, Room(b.free)),
                    !.heap = b.heap \ S]
  BY DEF Reclaim, Ran
<1>4. pooled \in Seq(Ops) /\ Distinct(pooled) /\ Ran(pooled) = S \cap PoolOps
  <2>1. I \in SUBSET (1..Len(s))
    OBVIOUS
  <2>2. {s[i] : i \in I} = S \cap PoolOps
    BY DEF Ran
  <2> HIDE DEF I, S
  <2> QED BY <2>1, <2>2, PickedOf
<1> HIDE DEF pooled
<1>5. pooled \in Seq(PoolOps) /\ (S \cap PoolOps = {} => pooled = <<>>)
  BY <1>4, NarrowSeq
<1>6. Ran(b.free) \cap Ran(pooled) = {}
  BY <1>1, <1>4 DEF Stored
<1>7. FirstOf(pooled, Room(b.free)) = pooled
  BY <1>2, <1>4, <1>5, <1>6, RoomFor
<1> DEFINE freeC == b.free \o pooled
<1>8. /\ freeC \in Seq(PoolOps) /\ Distinct(freeC)
      /\ Ran(freeC) = Ran(b.free) \cup (S \cap PoolOps)
  BY <1>2, <1>4, <1>5, <1>6, Joined
<1>9. opsC \in [Ops -> OpRecords]
  <2>1. ASSUME NEW o \in Ops PROVE [b.ops[o] EXCEPT !.st = "IDLE"] \in OpRecords
    <3>1. b.ops[o] \in OpRecords
      BY <1>2
    <3> QED BY <3>1 DEF OpRecords, XferStates
  <2> HIDE DEF S
  <2> QED BY <1>2, <2>1, BlankType
<1>10. /\ \A o \in Ops \ S : opsC[o] = b.ops[o]
       /\ \A o \in S \cap StaticOps : opsC[o].st = "IDLE"
       /\ \A o \in S \ StaticOps : opsC[o] = Blank(Null)
  <2>1. \A o \in S \cap StaticOps : opsC[o] = [b.ops[o] EXCEPT !.st = "IDLE"] /\ b.ops[o] \in OpRecords
    BY <1>1, <1>2
  <2>2. \A op \in OpRecords : [op EXCEPT !.st = "IDLE"].st = "IDLE"
    BY DEF OpRecords
  <2>3. \A o \in S \ StaticOps : opsC[o] = Blank(Null)
    BY <1>1
  <2>4. \A o \in Ops \ S : opsC[o] = b.ops[o]
    OBVIOUS
  <2> HIDE DEF opsC, S
  <2> QED BY <2>1, <2>2, <2>3, <2>4
<1> HIDE DEF S, opsC, freeC, c
<1>11. /\ c \in BusRecords /\ c.ops = opsC /\ c.free = freeC /\ c.heap = b.heap \ S
       /\ c.populated = b.populated /\ c.work = b.work /\ c.cbq = b.cbq
       /\ c.cur = b.cur /\ c.online = b.online
  BY <1>1, <1>2, <1>3, <1>7, <1>8, <1>9 DEF BusRecords, freeC
<1>12. S \cap PoolOps # {} => b.populated
  BY <1>1 DEF Stored
<1>13. Stored(c) = Stored(b) \cup (S \ StaticOps)
  <2>1. HeapOps \ (b.heap \ S) = (HeapOps \ b.heap) \cup (S \cap HeapOps)
    BY <1>1, <1>2
  <2>2. S \ StaticOps = (S \cap PoolOps) \cup (S \cap HeapOps)
    BY <1>1, Apart
  <2> QED BY <1>8, <1>11, <1>12, <2>1, <2>2 DEF Stored
<1>14. Queued(c) = Queued(b) /\ Queued(b) \subseteq Ops /\ Stored(b) \subseteq Ops
  BY <1>1, <1>11, QueuedType, StoredType, Apart DEF Queued
<1>15. Away(c) = Away(b) \ (S \ StaticOps)
  BY <1>13, <1>14 DEF Away
<1>16. c.populated \/ c.free = <<>>
  <2>1. CASE b.populated
    BY <1>11, <2>1
  <2>2. CASE ~b.populated
    <3>1. b.free = <<>> /\ pooled = <<>>
      BY <1>5, <1>12, <2>2 DEF Sound
    <3>2. freeC = <<>>
      BY <3>1 DEF freeC
    <3> QED BY <1>11, <3>2
  <2> QED BY <2>1, <2>2
<1>17. \A o \in Stored(c) \cap PoolOps : c.ops[o] = Blank(Null)
  <2>1. \A o \in Stored(b) \cap PoolOps : c.ops[o] = Blank(Null)
    BY <1>1, <1>10, <1>11, <1>14 DEF Sound
  <2> QED BY <1>10, <1>11, <1>13, <2>1
<1>18. /\ \A o \in OpsIn(c.work) : c.ops[o].st = "QUEUED" /\ OwnFault(c, o)
       /\ \A o \in OpsIn(c.cbq) : Finished(c.ops[o])
  <2>1. \A o \in Queued(b) : c.ops[o] = b.ops[o]
    BY <1>1, <1>10, <1>11, <1>14
  <2> QED BY <1>11, <2>1 DEF Sound, Queued, OwnFault
<1>19. Sound(c)
  <2>1. Once(c.work) /\ Once(c.cbq) /\ OpsIn(c.work) \cap OpsIn(c.cbq) = {} /\ Distinct(c.free)
    BY <1>8, <1>11 DEF Sound
  <2>2. Stored(c) \cap Queued(c) = {}
    BY <1>1, <1>13, <1>14 DEF Sound
  <2> QED BY <1>11, <1>16, <1>17, <1>18, <2>1, <2>2 DEF Sound
<1>20. \A o \in S \cap StaticOps : Clean(c, o)
  BY <1>10, <1>11 DEF Clean, OwnFault
<1> QED BY <1>10, <1>11, <1>15, <1>19, <1>20 DEF c, S

-----------------------------------------------------------------------------
(***************************************************************************)
(* Callbacks.                                                              *)
(***************************************************************************)

LEMMA NotePingsOf ==
  ASSUME NEW b, Sound(b), NEW S
  PROVE  LET c == NotePings(b, S)
         IN  /\ Sound(c) /\ SamePlaces(b, c)
             /\ c.ops = b.ops /\ c.cur = b.cur /\ c.online = b.online
<1> DEFINE P == b.pinging /\ \A o \in PingsIn(b, S) : b.ops[o].addr < LastAddr
           c == NotePings(b, S)
<1>1. b \in BusRecords
  BY DEF Sound
<1>2. c = [b EXCEPT !.pinging = P] /\ P \in BOOLEAN
  BY DEF NotePings
<1> HIDE DEF P, c
<1>3. /\ c \in BusRecords /\ SamePlaces(b, c)
      /\ c.ops = b.ops /\ c.cur = b.cur /\ c.online = b.online
  BY <1>1, <1>2 DEF BusRecords, SamePlaces
<1>4. Sound(c)
  BY <1>3, StaysSound
<1> QED BY <1>3, <1>4 DEF c

\* A driver that takes an operation and queues it in a callback: the others stay
\* where they are.
LEMMA FollowedOf ==
  ASSUME NEW b, Sound(b), NEW o \in Ops, NEW more \in More(b, o),
         cfg.kind = "SPI" \/ b.cur # Null
  PROVE  LET c == Followed(b, o, more)
         IN  /\ Sound(c) /\ Away(c) = Away(b)
             /\ Queued(b) \subseteq Queued(c) /\ OpsIn(b.work) \subseteq OpsIn(c.work)
             /\ \A x \in Away(b) : c.ops[x] = b.ops[x]
             /\ c.cur = b.cur /\ c.online = b.online
<1> DEFINE c == Followed(b, o, more)
<1>1. CASE ~more
  BY <1>1 DEF Followed
<1>2. CASE more
  <2>1. CanTake(b) /\ b.ops[o].cb \in CallbackObjects
    BY <1>2 DEF More, CallbackObjects
  <2> DEFINE cb == b.ops[o].cb  x == Taken(b)  n == NewOp(b, cb)
  <2>2. c = QueueIoJob(n, x, 0, "BUS_BUSY")
    BY <1>2 DEF Followed
  <2> HIDE DEF c, cb, x, n
  <2>3. /\ Sound(n) /\ x \in Ops \ StaticOps /\ x \notin Away(b) /\ x \notin Queued(b)
        /\ Away(n) = Away(b) \cup {x} /\ n.ops[x] = [Blank(Null) EXCEPT !.cb = cb]
        /\ \A y \in Ops \ {x} : n.ops[y] = b.ops[y]
        /\ n.work = b.work /\ n.cbq = b.cbq /\ n.cur = b.cur /\ n.online = b.online
    BY <2>1, NewOpOf DEF cb, x, n
  <2>4. Clean(n, x)
    BY <2>1, <2>3, BlankType, WithCb DEF Clean, OwnFault, cb
  <2>5. Enqueued(n, c, x)
    BY <2>2, <2>3, <2>4, QueueOf
  <2>6. Away(b) \subseteq Ops \ {x}
    BY <2>3 DEF Away
  <2> QED BY <2>3, <2>5, <2>6 DEF Enqueued, Queued, c
<1> QED BY <1>1, <1>2 DEF More

\* The record of an operation that goes into another transfer.
LEMMA RequeuedType ==
  ASSUME NEW op \in OpRecords, NEW P, P => op.addr < LastAddr
  PROVE  LET r == MarkForRequeue(IF P THEN NextAddr(op) ELSE op)
         IN  r \in OpRecords /\ r.st = "IDLE" /\ ~r.fault
<1>1. CASE P
  <2> DEFINE q == NextAddr(op)
  <2>1. op.addr \in 0..LastAddr /\ op.addr < LastAddr /\ LastAddr \in Nat
    BY <1>1, BusAssumption DEF OpRecords
  <2>2. op.addr + 1 \in 0..LastAddr
    BY <2>1
  <2>3. q \in OpRecords
    BY <2>2 DEF OpRecords, NextAddr
  <2> HIDE DEF q
  <2>4. MarkForRequeue(q) \in OpRecords /\ MarkForRequeue(q).st = "IDLE" /\ ~MarkForRequeue(q).fault
    BY <2>3, BusOpTypes DEF Kinds
  <2> QED BY <1>1, <2>4 DEF q
<1>2. CASE ~P
  <2>1. MarkForRequeue(op) \in OpRecords /\ MarkForRequeue(op).st = "IDLE" /\ ~MarkForRequeue(op).fault
    BY BusOpTypes DEF Kinds
  <2> QED BY <1>2, <2>1
<1> QED BY <1>1, <1>2

\* An operation that is called back is queued again or reclaimed, and neither
\* happens to another one.
LEMMA CallBackOf ==
  ASSUME NEW b, Sound(b), NEW o \in Away(b), NEW answer, NEW more \in More(b, o),
         cfg.kind = "SPI" \/ b.cur # Null
  PROVE  LET c == CallBack(b, o, answer, more)
         IN  /\ Sound(c) /\ c.cur = b.cur /\ c.online = b.online
             /\ Away(b) \ {o} \subseteq Away(c) /\ Away(c) \subseteq Away(b)
             /\ o \in Away(c) => o \in StaticOps /\ Clean(c, o)
             /\ Queued(b) \subseteq Queued(c)
             /\ \A x \in Away(b) \ {o} : c.ops[x] = b.ops[x]
<1> DEFINE n == NotePings(b, {o})
           f == Followed(n, o, more)
           c == CallBack(b, o, answer, more)
<1>1. b \in BusRecords /\ o \in Ops
  BY DEF Sound, Away
<1>2. /\ Sound(n) /\ SamePlaces(b, n)
      /\ n.ops = b.ops /\ n.cur = b.cur /\ n.online = b.online
  BY NotePingsOf
<1> HIDE DEF n
<1>3. Queued(n) = Queued(b) /\ Away(n) = Away(b)
  BY <1>2, PlacesSame
<1>4. more \in More(n, o)
  BY <1>2 DEF More, CanTake, SamePlaces
<1>5. /\ Sound(f) /\ Away(f) = Away(b) /\ Queued(b) \subseteq Queued(f)
      /\ \A x \in Away(b) : f.ops[x] = b.ops[x]
      /\ f.cur = b.cur /\ f.online = b.online
  BY <1>1, <1>2, <1>3, <1>4, FollowedOf
<1> HIDE DEF f
<1>6. Away(b) \subseteq Ops /\ f \in BusRecords
  BY <1>5 DEF Away, Sound
<1>7. CASE answer = "RECYCLE"
  <2> DEFINE P  == PingsOn(b, o)
             op == f.ops[o]
             r  == MarkForRequeue(IF P THEN NextAddr(op) ELSE op)
             g  == OpIs(f, o, r)
  <2>1. c = QueueIoJob(g, o, 0, "BUS_BUSY")
    BY <1>7 DEF CallBack, OpIs, f, n
  <2>2. op = b.ops[o] /\ op \in OpRecords
    BY <1>1, <1>5, Fields
  <2>3. P => op.addr < LastAddr
    BY <2>2 DEF PingsOn
  <2> HIDE DEF P, op, c
  <2>4. r \in OpRecords /\ r.st = "IDLE" /\ ~r.fault
    BY <2>2, <2>3, RequeuedType
  <2> HIDE DEF r
  <2>5. /\ SamePlaces(f, g) /\ g.cur = f.cur /\ g.online = f.online
        /\ g.ops[o] = r /\ \A x \in Ops \ {o} : g.ops[x] = f.ops[x]
    BY <1>1, <1>6, <2>4, OpIsFields
  <2>6. Sound(g) /\ Away(g) = Away(b)
    BY <1>5, <2>4, OpIsSound
  <2> HIDE DEF g
  <2>7. Clean(g, o) /\ Queued(g) = Queued(f)
    BY <2>4, <2>5, PlacesSame DEF Clean, OwnFault
  <2>8. Enqueued(g, c, o)
    BY <1>5, <2>1, <2>5, <2>6, <2>7, QueueOf
  <2>9. \A x \in Away(b) \ {o} : c.ops[x] = b.ops[x]
    BY <1>5, <1>6, <2>5, <2>8 DEF Enqueued
  <2> QED BY <1>5, <2>5, <2>6, <2>7, <2>8, <2>9 DEF Enqueued, c
<1>8. CASE answer # "RECYCLE"
  <2> DEFINE w == <<o>>
  <2>1. c = Reclaim(f, w)
    BY <1>8 DEF CallBack, f, n
  <2>2. w \in Seq(Ops) /\ Distinct(w) /\ Ran(w) = {o}
    BY <1>1 DEF Distinct, Ran
  <2> HIDE DEF c, w
  <2>3. /\ Sound(c) /\ Away(c) = Away(b) \ ({o} \ StaticOps)
        /\ c.work = f.work /\ c.cbq = f.cbq /\ c.cur = f.cur /\ c.online = f.online
        /\ \A x \in {o} \cap StaticOps : Clean(c, x)
        /\ \A x \in Ops \ {o} : c.ops[x] = f.ops[x]
    BY <1>5, <2>1, <2>2, ReclaimOf
  <2>4. \A x \in Away(b) \ {o} : c.ops[x] = b.ops[x]
    BY <1>5, <1>6, <2>3
  <2>5. Queued(c) = Queued(f)
    BY <2>3 DEF Queued
  <2> QED BY <1>5, <2>3, <2>4, <2>5 DEF c
<1> QED BY <1>7, <1>8

-----------------------------------------------------------------------------
(***************************************************************************)
(* Operations leave the queues.                                            *)
(***************************************************************************)

LEMMA NewWork ==
  ASSUME NEW b, Sound(b), NEW w \in Seq(Jobs), Once(w), OpsIn(w) \subseteq OpsIn(b.work)
  PROVE  LET c == [b EXCEPT !.work = w]
         IN  /\ Sound(c) /\ c.work = w /\ c.cbq = b.cbq
             /\ Away(c) = Away(b) \cup (OpsIn(b.work) \ OpsIn(w))
             /\ c.ops = b.ops /\ c.cur = b.cur /\ c.online = b.online
<1> DEFINE c == [b EXCEPT !.work = w]
<1>1. b \in BusRecords
  BY DEF Sound
<1>2. /\ c \in BusRecords /\ c.work = w /\ c.cbq = b.cbq /\ c.ops = b.ops
      /\ c.free = b.free /\ c.heap = b.heap /\ c.populated = b.populated
      /\ c.cur = b.cur /\ c.online = b.online
  BY <1>1 DEF BusRecords
<1> HIDE DEF c
<1>3. Stored(c) = Stored(b) /\ Queued(c) = OpsIn(w) \cup OpsIn(b.cbq)
  BY <1>2 DEF Stored, Queued
<1>4. Sound(c)
  BY <1>2, <1>3 DEF Sound, Queued, OwnFault
<1>5. Away(c) = Away(b) \cup (OpsIn(b.work) \ OpsIn(w))
  <2>1. OpsIn(b.work) \subseteq Ops
    BY <1>1, QueuedType DEF Queued
  <2>2. OpsIn(b.work) \cap OpsIn(b.cbq) = {} /\ Stored(b) \cap OpsIn(b.work) = {}
    BY DEF Sound, Queued
  <2> QED BY <1>3, <2>1, <2>2 DEF Away, Queued
<1> QED BY <1>2, <1>4, <1>5 DEF c

LEMMA NewCbq ==
  ASSUME NEW b, Sound(b), NEW w \in Seq(Jobs), Once(w), OpsIn(w) \subseteq OpsIn(b.cbq)
  PROVE  LET c == [b EXCEPT !.cbq = w]
         IN  /\ Sound(c) /\ c.cbq = w /\ c.work = b.work
             /\ Away(c) = Away(b) \cup (OpsIn(b.cbq) \ OpsIn(w))
             /\ c.ops = b.ops /\ c.cur = b.cur /\ c.online = b.online
             /\ c.free = b.free /\ c.heap = b.heap
<1> DEFINE c == [b EXCEPT !.cbq = w]
<1>1. b \in BusRecords
  BY DEF Sound
<1>2. /\ c \in BusRecords /\ c.cbq = w /\ c.work = b.work /\ c.ops = b.ops
      /\ c.free = b.free /\ c.heap = b.heap /\ c.populated = b.populated
      /\ c.cur = b.cur /\ c.online = b.online
  BY <1>1 DEF BusRecords
<1> HIDE DEF c
<1>3. Stored(c) = Stored(b) /\ Queued(c) = OpsIn(w) \cup OpsIn(b.work)
  BY <1>2 DEF Stored, Queued
<1>4. Sound(c)
  BY <1>2, <1>3 DEF Sound, Queued, OwnFault
<1>5. Away(c) = Away(b) \cup (OpsIn(b.cbq) \ OpsIn(w))
  <2>1. OpsIn(b.cbq) \subseteq Ops
    BY <1>1, QueuedType DEF Queued
  <2>2. OpsIn(b.work) \cap OpsIn(b.cbq) = {} /\ Stored(b) \cap OpsIn(b.cbq) = {}
    BY DEF Sound, Queued
  <2> QED BY <1>3, <2>1, <2>2 DEF Away, Queued
<1> QED BY <1>2, <1>4, <1>5 DEF c

\* The active slot of an adapter is filled or emptied.
LEMMA NewCur ==
  ASSUME NEW b, Sound(b), NEW o \in Ops \cup {Null}
  PROVE  LET c == [b EXCEPT !.cur = o]
         IN  /\ Sound(c) /\ SamePlaces(b, c) /\ Away(c) = Away(b)
             /\ c.ops = b.ops /\ c.cur = o /\ c.online = b.online
<1> DEFINE c == [b EXCEPT !.cur = o]
<1>1. /\ c \in BusRecords /\ SamePlaces(b, c)
      /\ c.ops = b.ops /\ c.cur = o /\ c.online = b.online
  BY DEF Sound, BusRecords, SamePlaces
<1> HIDE DEF c
<1>2. Sound(c) /\ Away(c) = Away(b)
  BY <1>1, StaysSound
<1> QED BY <1>1, <1>2 DEF c

\* An adapter in which each operation is in a place that its state fits.
Fits(b) ==
  /\ Sound(b) /\ CurFits(b)
  /\ \A o \in Away(b) \ {b.cur} : Clean(b, o)

\* A new active job leaves the queue, and no other does.
LEMMA PromoteOf ==
  ASSUME NEW b, Fits(b)
  PROVE  LET c == Promote(b)
         IN  /\ Fits(c) /\ c.ops = b.ops /\ c.online = b.online
             /\ Away(c) \ {c.cur} = Away(b) \ {b.cur}
             /\ AtAdapter(b) = AtAdapter(c)
             /\ b.cur # Null => c = b
<1> DEFINE c == Promote(b)
<1>1. CASE ~(b.cur = Null /\ b.work # <<>>)
  BY <1>1 DEF Promote
<1>2. CASE b.cur = Null /\ b.work # <<>>
  <2> DEFINE o == Head(b.work).op  w == Tail(b.work)  a == [b EXCEPT !.work = w]
  <2>1. b \in BusRecords /\ b.work \in Seq(Jobs) /\ Once(b.work)
    BY Fields DEF Fits, Sound
  <2>2. /\ w \in Seq(Jobs) /\ Once(w)
        /\ o \in OpsIn(b.work) /\ o \notin OpsIn(w)
        /\ OpsIn(b.work) = OpsIn(w) \cup {o}
    BY <1>2, <2>1, QueueTail
  <2>3. c = [a EXCEPT !.cur = o]
    BY <1>2 DEF Promote
  <2>4. o \in Ops /\ o \notin Away(b) /\ Null \notin Ops
    BY <2>1, <2>2, QueuedType, Apart DEF Queued, Away
  <2> HIDE DEF o, w, c
  <2>5. /\ Sound(a) /\ a.work = w /\ a.cbq = b.cbq
        /\ Away(a) = Away(b) \cup {o}
        /\ a.ops = b.ops /\ a.online = b.online
    BY <2>2, NewWork DEF Fits
  <2> HIDE DEF a
  <2>6. /\ Sound(c) /\ SamePlaces(a, c) /\ Away(c) = Away(a)
        /\ c.ops = a.ops /\ c.cur = o /\ c.online = a.online
    BY <2>3, <2>4, <2>5, NewCur
  <2>7. Away(c) \ {c.cur} = Away(b) \ {b.cur}
    BY <1>2, <2>4, <2>5, <2>6 DEF Away
  <2>8. CurFits(c)
    <3>1. b.ops[o].st = "QUEUED" /\ OwnFault(b, o)
      BY <2>2 DEF Fits, Sound
    <3> QED BY <2>5, <2>6, <3>1 DEF CurFits, OwnFault
  <2>9. \A x \in Away(c) \ {c.cur} : Clean(c, x)
    BY <2>5, <2>6, <2>7 DEF Fits, Clean, OwnFault
  <2>10. AtAdapter(b) = AtAdapter(c)
    <3>1. OpsIn(c.work) = OpsIn(w) /\ OpsIn(c.cbq) = OpsIn(b.cbq)
      BY <2>5, <2>6 DEF SamePlaces
    <3> QED BY <1>2, <2>2, <2>4, <2>6, <3>1 DEF AtAdapter
  <2> QED BY <1>2, <2>5, <2>6, <2>7, <2>8, <2>9, <2>10 DEF Fits, c
<1> QED BY <1>1, <1>2

-----------------------------------------------------------------------------
(***************************************************************************)
(* What a step from adapter a to adapter b may do, in which the operations *)
(* S are called back and drivers get hold of the operations T.             *)
(***************************************************************************)

Moves(a, b, S, T) ==
  /\ Fits(b)
  /\ (Away(b) \ {b.cur}) \ StaticOps \subseteq (Away(a) \ {a.cur}) \cup T
  /\ (Away(a) \ {a.cur}) \cup T \subseteq Away(b) \cup AtAdapter(b)
  /\ S \subseteq AtAdapter(a)
  /\ AtAdapter(a) \ S \subseteq AtAdapter(b)

\* No operation comes or goes.
Stays(b, c) ==
  /\ Fits(c)
  /\ Away(c) \ {c.cur} = Away(b) \ {b.cur}
  /\ AtAdapter(c) = AtAdapter(b)

LEMMA MovesSelf ==
  ASSUME NEW a, Fits(a)
  PROVE  Moves(a, a, {}, {})
BY DEF Moves

LEMMA MovesOn ==
  ASSUME NEW a, NEW b, NEW c, NEW S, NEW T, Moves(a, b, S, T), Stays(b, c)
  PROVE  Moves(a, c, S, T)
<1>1. Away(b) \cup AtAdapter(b) \subseteq Away(c) \cup AtAdapter(c)
  <2>1. Null \notin Away(b)
    BY Apart DEF Away
  <2>2. {b.cur} \ {Null} \subseteq AtAdapter(b)
    BY DEF AtAdapter
  <2> QED BY <2>1, <2>2 DEF Stays
<1> QED BY <1>1 DEF Moves, Stays

LEMMA AtIsQueued ==
  ASSUME NEW b
  PROVE  AtAdapter(b) = Queued(b) \cup ({b.cur} \ {Null})
BY DEF AtAdapter, Queued

\* The active job gets another record that fits.
LEMMA CurMoved ==
  ASSUME NEW b, Fits(b), b.cur # Null, NEW op \in OpRecords,
         Finished(op) \/ (op.fault => b.cur \in StaticOps),
         cfg.kind = "SPI" => op.st # "IDLE"
  PROVE  Stays(b, OpIs(b, b.cur, op))
<1> DEFINE c == OpIs(b, b.cur, op)
<1>1. b \in BusRecords /\ Sound(b) /\ b.cur \in Away(b) /\ b.cur \in Ops
  BY DEF Fits, CurFits, Sound, Away
<1>2. Sound(c) /\ Away(c) = Away(b)
  BY <1>1, OpIsSound
<1>3. /\ SamePlaces(b, c) /\ c.cur = b.cur /\ c.ops[b.cur] = op
      /\ \A x \in Ops \ {b.cur} : c.ops[x] = b.ops[x]
  BY <1>1, OpIsFields
<1> HIDE DEF c
<1>4. CurFits(c)
  BY <1>1, <1>2, <1>3 DEF CurFits, OwnFault
<1>5. \A x \in Away(c) \ {c.cur} : Clean(c, x)
  <2>1. Away(b) \subseteq Ops
    BY DEF Away
  <2> QED BY <1>2, <1>3, <2>1 DEF Fits, Clean, OwnFault
<1>6. AtAdapter(c) = AtAdapter(b)
  BY <1>3 DEF AtAdapter, SamePlaces
<1> QED BY <1>2, <1>3, <1>4, <1>5, <1>6 DEF Stays, Fits, c

\* SPIAdapter moves a finished job to the callback queue.
LEMMA ToCallbackQueueOf ==
  ASSUME NEW b, Fits(b), b.cur # Null, Finished(b.ops[b.cur])
  PROVE  Stays(b, ToCallbackQueue(b))
<1> DEFINE o == b.cur
           d == [b EXCEPT !.cbq = InsertIfAbsent(b.cbq, o, 0), !.ops[o] = b.ops[o]]
           c == ToCallbackQueue(b)
<1>1. b \in BusRecords /\ Sound(b) /\ o \in Away(b) /\ o \in Ops /\ o \notin OpsIn(b.cbq)
  BY DEF Fits, CurFits, Sound, Away, Queued
<1>2. b.ops[o] \in OpRecords /\ [b.ops EXCEPT ![o] = b.ops[o]] = b.ops
  BY <1>1, Fields
<1>3. Enqueued(b, d, o)
  BY <1>1, <1>2, PutCallback
<1>4. c = [d EXCEPT !.cur = Null]
  BY <1>1, <1>2 DEF ToCallbackQueue, InsertIfAbsent, BusRecords
<1>5. d.ops = b.ops
  BY <1>1, <1>2 DEF BusRecords
<1> HIDE DEF c, d
<1>6. /\ Sound(c) /\ SamePlaces(d, c) /\ Away(c) = Away(d)
      /\ c.ops = d.ops /\ c.cur = Null
  BY <1>3, <1>4, NewCur DEF Enqueued
<1>7. Away(c) \ {c.cur} = Away(b) \ {b.cur}
  BY <1>3, <1>6, Apart DEF Enqueued, Away
<1>8. AtAdapter(c) = AtAdapter(b)
  <2>1. Queued(c) = Queued(d)
    BY <1>6, PlacesSame
  <2> QED BY <1>1, <1>3, <1>6, <2>1, AtIsQueued, Apart DEF Enqueued
<1>9. \A x \in Away(c) \ {c.cur} : Clean(c, x)
  BY <1>5, <1>6, <1>7 DEF Fits, Clean, OwnFault
<1> QED BY <1>6, <1>7, <1>8, <1>9 DEF Stays, Fits, CurFits, c

\* SPIAdapter::_bus_poll()
LEMMA PollSPIOf ==
  ASSUME NEW a, Fits(a), cfg.kind = "SPI", NEW res \in Outcomes
  PROVE  Moves(a, PollSPI(a, res), {}, {})
<1> DEFINE b  == Promote(a)
           op == b.ops[b.cur]
           q  == [op EXCEPT !.st = "QUEUED"]
           m  == Moved("SPI", q, res)
           c  == OpIs(b, b.cur, m)
           p  == PollSPI(a, res)
<1>1. Stays(a, b) /\ Fits(b)
  BY PromoteOf DEF Stays
<1>2. Moves(a, b, {}, {})
  BY <1>1, MovesSelf, MovesOn
<1>3. p = IF b.cur = Null THEN b
          ELSE IF Finished(op) THEN ToCallbackQueue(b)
          ELSE IF Waiting(op) THEN IF res = "FAILED" THEN ToCallbackQueue(c) ELSE c
          ELSE b
  BY DEF PollSPI
<1> HIDE DEF b, p
<1>4. CASE b.cur # Null /\ Finished(op)
  <2>1. Stays(b, ToCallbackQueue(b))
    BY <1>1, <1>4, ToCallbackQueueOf
  <2>2. Moves(a, ToCallbackQueue(b), {}, {})
    BY <1>2, <2>1, MovesOn
  <2> QED BY <1>3, <1>4, <2>2 DEF p
<1>5. CASE b.cur # Null /\ ~Finished(op) /\ Waiting(op)
  <2>1. op \in OpRecords /\ OwnFault(b, b.cur)
    BY <1>1, <1>5, Fields DEF Fits, Sound, CurFits, BusRecords, Away
  <2>2. q \in OpRecords /\ q.st # "IDLE" /\ (q.fault => b.cur \in StaticOps)
    BY <2>1 DEF OpRecords, XferStates, OwnFault
  <2> HIDE DEF q
  <2>3. /\ m \in OpRecords /\ m.st # "IDLE"
        /\ Finished(m) \/ (m.fault => b.cur \in StaticOps)
        /\ res = "FAILED" => Finished(m)
    BY <2>2, MovedType DEF Kinds
  <2> HIDE DEF m
  <2>4. Stays(b, c)
    BY <1>1, <1>5, <2>3, CurMoved
  <2>5. Moves(a, c, {}, {}) /\ Fits(c)
    BY <1>2, <2>4, MovesOn DEF Stays
  <2>6. c.cur = b.cur /\ c.ops[c.cur] = m
    <3>1. b \in BusRecords /\ b.cur \in Ops
      BY <1>1, <1>5 DEF Fits, CurFits, Sound, Away
    <3> QED BY <2>3, <3>1, OpIsFields
  <2> HIDE DEF c
  <2>7. res = "FAILED" => Stays(c, ToCallbackQueue(c))
    BY <1>5, <2>3, <2>5, <2>6, ToCallbackQueueOf
  <2>8. res = "FAILED" => Moves(a, ToCallbackQueue(c), {}, {})
    BY <2>5, <2>7, MovesOn
  <2> QED BY <1>3, <1>5, <2>5, <2>8 DEF p
<1>6. CASE b.cur = Null \/ (~Finished(op) /\ ~Waiting(op))
  BY <1>2, <1>3, <1>6 DEF Finished, Waiting, p
<1> QED BY <1>4, <1>5, <1>6 DEF p

\* A finished job of I2CAdapter is called back and leaves the active slot.
LEMMA CallBackCurOf ==
  ASSUME NEW b, Fits(b), b.cur # Null, NEW answer, NEW more \in More(b, b.cur)
  PROVE  Moves(b, [CallBack(b, b.cur, answer, more) EXCEPT !.cur = Null], {b.cur}, {})
<1> DEFINE o == b.cur  d == CallBack(b, o, answer, more)  c == [d EXCEPT !.cur = Null]
<1>1. Sound(b) /\ o \in Away(b) /\ o \in Ops
  BY DEF Fits, CurFits, Away
<1>2. /\ Sound(d) /\ d.cur = o
      /\ Away(b) \ {o} \subseteq Away(d) /\ Away(d) \subseteq Away(b)
      /\ o \in Away(d) => o \in StaticOps /\ Clean(d, o)
      /\ Queued(b) \subseteq Queued(d)
      /\ \A x \in Away(b) \ {o} : d.ops[x] = b.ops[x]
  BY <1>1, CallBackOf
<1> HIDE DEF d
<1>3. /\ Sound(c) /\ SamePlaces(d, c) /\ Away(c) = Away(d)
      /\ c.ops = d.ops /\ c.cur = Null
  BY <1>2, NewCur
<1> HIDE DEF c
<1>4. Fits(c)
  <2>1. \A x \in Away(c) \ {c.cur} : Clean(c, x)
    BY <1>2, <1>3 DEF Fits, Clean, OwnFault
  <2> QED BY <1>3, <2>1 DEF Fits, CurFits
<1>5. /\ (Away(c) \ {c.cur}) \ StaticOps \subseteq Away(b) \ {o}
      /\ Away(b) \ {o} \subseteq Away(c)
  BY <1>2, <1>3
<1>6. AtAdapter(b) \ {o} \subseteq AtAdapter(c) /\ o \in AtAdapter(b)
  <2>1. Queued(c) = Queued(d)
    BY <1>3, PlacesSame
  <2> QED BY <1>2, <2>1, AtIsQueued
<1> QED BY <1>4, <1>5, <1>6 DEF Moves, c, d

\* I2CAdapter::_bus_poll()
LEMMA PollI2COf ==
  ASSUME NEW b, Fits(b), cfg.kind = "I2C", NEW res \in Outcomes, NEW answer,
         NEW more \in BOOLEAN, PollCalls(b) # {} => more \in More(b, b.cur)
  PROVE  Moves(b, PollI2C(b, res, answer, more), PollCalls(b), {})
<1> DEFINE op == b.ops[b.cur]
           c  == IF b.cur # Null /\ Finished(op)
                 THEN [CallBack(b, b.cur, answer, more) EXCEPT !.cur = Null] ELSE b
           d  == Promote(c)
           m  == Moved("I2C", d.ops[d.cur], res)
           p  == PollI2C(b, res, answer, more)
<1>1. p = IF ~b.online THEN b
          ELSE IF d.cur # Null /\ Waiting(d.ops[d.cur]) THEN OpIs(d, d.cur, m) ELSE d
  BY DEF PollI2C
<1>2. CASE ~b.online
  BY <1>1, <1>2, MovesSelf DEF PollCalls
<1>3. CASE b.online
  <2>1. Moves(b, c, PollCalls(b), {})
    <3>1. CASE b.cur # Null /\ Finished(op)
      <4>1. PollCalls(b) = {b.cur}
        BY <1>3, <3>1 DEF PollCalls
      <4>2. Moves(b, [CallBack(b, b.cur, answer, more) EXCEPT !.cur = Null], {b.cur}, {})
        BY <3>1, <4>1, CallBackCurOf
      <4> QED BY <3>1, <4>1, <4>2
    <3>2. CASE ~(b.cur # Null /\ Finished(op))
      <4>1. PollCalls(b) = {}
        BY <3>2 DEF PollCalls
      <4> QED BY <3>2, <4>1, MovesSelf
    <3> QED BY <3>1, <3>2
  <2> HIDE DEF c, p
  <2>2. Stays(c, d) /\ Fits(d)
    BY <2>1, PromoteOf DEF Moves, Stays
  <2>3. Moves(b, d, PollCalls(b), {})
    BY <2>1, <2>2, MovesOn
  <2> HIDE DEF d
  <2>4. CASE d.cur # Null /\ Waiting(d.ops[d.cur])
    <3>1. d.ops[d.cur] \in OpRecords /\ OwnFault(d, d.cur)
      <4>1. d.ops \in [Ops -> OpRecords] /\ d.cur \in Ops
        BY <2>2, <2>4, Fields DEF Fits, Sound, CurFits, Away
      <4>2. ~Finished(d.ops[d.cur])
        BY <2>4 DEF Finished, Waiting
      <4> QED BY <2>2, <2>4, <4>1, <4>2 DEF Fits, CurFits
    <3>2. m \in OpRecords /\ (Finished(m) \/ (m.fault => d.cur \in StaticOps))
      BY <3>1, MovedType DEF Kinds, OwnFault
    <3> HIDE DEF m
    <3>3. Stays(d, OpIs(d, d.cur, m))
      BY <2>2, <2>4, <3>2, CurMoved
    <3>4. Moves(b, OpIs(d, d.cur, m), PollCalls(b), {})
      BY <2>3, <3>3, MovesOn
    <3> QED BY <1>1, <1>3, <2>4, <3>4 DEF p
  <2>5. CASE ~(d.cur # Null /\ Waiting(d.ops[d.cur]))
    BY <1>1, <1>3, <2>3, <2>5 DEF p
  <2> QED BY <2>4, <2>5
<1> QED BY <1>2, <1>3

\* SPIAdapter::service_callback_queue()
LEMMA ServiceOneOf ==
  ASSUME NEW b, Fits(b), cfg.kind = "SPI", b.cbq # <<>>, NEW answer,
         NEW more \in More(b, Head(b.cbq).op)
  PROVE  Moves(b, ServiceOne(b, answer, more), {Head(b.cbq).op}, {})
<1> DEFINE o == Head(b.cbq).op  w == Tail(b.cbq)  a == [b EXCEPT !.cbq = w]
           c == CallBack(a, o, answer, more)
<1>1. Sound(b) /\ b.cbq \in Seq(Jobs) /\ Once(b.cbq)
  BY Fields DEF Fits, Sound
<1>2. /\ w \in Seq(Jobs) /\ Once(w)
      /\ o \in OpsIn(b.cbq) /\ o \notin OpsIn(w)
      /\ OpsIn(b.cbq) = OpsIn(w) \cup {o}
  BY <1>1, QueueTail
<1>3. more \in More(b, o) /\ ServiceOne(b, answer, more) = c
  BY DEF ServiceOne
<1>4. o \in Ops /\ o \notin Away(b)
  <2>1. o \in Queued(b) /\ Queued(b) \subseteq Ops
    BY <1>1, <1>2, QueuedType DEF Sound, Queued
  <2> QED BY <2>1 DEF Away
<1> HIDE DEF o, w
<1>5. /\ Sound(a) /\ a.cbq = w /\ a.work = b.work
      /\ Away(a) = Away(b) \cup {o}
      /\ a.ops = b.ops /\ a.cur = b.cur
      /\ a.free = b.free /\ a.heap = b.heap
  BY <1>1, <1>2, NewCbq
<1> HIDE DEF a
<1>6. more \in More(a, o)
  BY <1>3, <1>5 DEF More, CanTake
<1>7. /\ Sound(c) /\ c.cur = b.cur
      /\ Away(a) \ {o} \subseteq Away(c) /\ Away(c) \subseteq Away(a)
      /\ o \in Away(c) => o \in StaticOps /\ Clean(c, o)
      /\ Queued(a) \subseteq Queued(c)
      /\ \A x \in Away(a) \ {o} : c.ops[x] = a.ops[x]
  BY <1>5, <1>6, CallBackOf
<1> HIDE DEF c
<1>8. Away(b) \subseteq Away(c) /\ \A x \in Away(b) : c.ops[x] = b.ops[x]
  BY <1>4, <1>5, <1>7
<1>9. Fits(c)
  <2>1. CurFits(c)
    BY <1>7, <1>8 DEF Fits, CurFits, OwnFault
  <2>2. \A x \in Away(c) \ {c.cur} : Clean(c, x)
    BY <1>5, <1>7, <1>8 DEF Fits, Clean, OwnFault
  <2> QED BY <1>7, <2>1, <2>2 DEF Fits
<1>10. (Away(c) \ {c.cur}) \ StaticOps \subseteq Away(b) \ {b.cur}
  BY <1>5, <1>7
<1>11. AtAdapter(b) \ {o} \subseteq AtAdapter(c) /\ o \in AtAdapter(b)
  <2>1. Queued(b) = Queued(a) \cup {o}
    BY <1>2, <1>5 DEF Queued
  <2> QED BY <1>7, <2>1, AtIsQueued
<1> QED BY <1>3, <1>8, <1>9, <1>10, <1>11 DEF Moves, o

-----------------------------------------------------------------------------
(***************************************************************************)
(* Purges and init().                                                      *)
(***************************************************************************)

\* Operations that are away are aborted.
LEMMA FlushedOf ==
  ASSUME NEW b, Sound(b), NEW S, S \subseteq Away(b), cfg.kind \in Kinds
  PROVE  LET c == Flushed(b, S)
         IN  /\ Sound(c) /\ SamePlaces(b, c) /\ c.cur = b.cur /\ c.online = b.online
             /\ \A x \in Ops : c.ops[x].cb = b.ops[x].cb
             /\ \A x \in Ops \ S : c.ops[x] = b.ops[x]
<1> DEFINE opsC == [o \in Ops |-> IF o \in S THEN Abort(cfg.kind, b.ops[o]) ELSE b.ops[o]]
           c == Flushed(b, S)
<1>1. b \in BusRecords /\ b.ops \in [Ops -> OpRecords]
  BY Fields DEF Sound
<1>2. c = [b EXCEPT !.ops = opsC]
  BY DEF Flushed
<1>3. \A x \in Ops : /\ Abort(cfg.kind, b.ops[x]) \in OpRecords
                     /\ Abort(cfg.kind, b.ops[x]).cb = b.ops[x].cb
  <2> SUFFICES ASSUME NEW x \in Ops
               PROVE  /\ Abort(cfg.kind, b.ops[x]) \in OpRecords
                      /\ Abort(cfg.kind, b.ops[x]).cb = b.ops[x].cb
    OBVIOUS
  <2>1. b.ops[x] \in OpRecords
    BY <1>1
  <2> QED BY <2>1, BusOpTypes
<1>4. /\ opsC \in [Ops -> OpRecords]
      /\ \A x \in Ops : opsC[x].cb = b.ops[x].cb
      /\ \A x \in Ops \ S : opsC[x] = b.ops[x]
  BY <1>1, <1>3
<1> HIDE DEF opsC, c
<1>5. c \in BusRecords /\ SamePlaces(b, c) /\ c.cur = b.cur /\ c.online = b.online /\ c.ops = opsC
  BY <1>1, <1>2, <1>4 DEF BusRecords, SamePlaces
<1>6. Stored(b) \subseteq Ops \ S /\ Queued(b) \subseteq Ops \ S
  BY <1>1, StoredType, QueuedType, Apart DEF Away
<1>7. Sound(c)
  BY <1>4, <1>5, <1>6, StaysSound
<1> QED BY <1>4, <1>5, <1>7 DEF c

\* Purged operations are stored or with their driver, and no other is touched.
LEMMA PurgeOf ==
  ASSUME NEW b, Sound(b), cfg.kind \in Kinds,
         NEW s \in Seq(Ops), Distinct(s), Ran(s) \subseteq Away(b), NEW more \in BOOLEAN,
         more => /\ s[1] \in Ops /\ more \in More(b, s[1])
                 /\ cfg.kind = "SPI" \/ b.cur # Null
  PROVE  LET c == Purge(b, s, more)
         IN  /\ Sound(c) /\ c.cur = b.cur /\ c.online = b.online
             /\ Away(c) = Away(b) \ (Ran(s) \ StaticOps)
             /\ Queued(b) \subseteq Queued(c)
             /\ \A x \in Ran(s) \cap StaticOps : Clean(c, x)
             /\ \A x \in Away(b) \ Ran(s) : c.ops[x] = b.ops[x]
<1> DEFINE S == Ran(s)
           f == Flushed(b, S)
           n == NotePings(f, S)
           g == IF more THEN Followed(n, s[1], TRUE) ELSE n
           c == Purge(b, s, more)
<1>1. c = Reclaim(g, s)
  BY DEF Purge, Ran
<1> HIDE DEF S, c
<1>2. /\ Sound(f) /\ SamePlaces(b, f) /\ f.cur = b.cur /\ f.online = b.online
      /\ \A x \in Ops : f.ops[x].cb = b.ops[x].cb
      /\ \A x \in Ops \ S : f.ops[x] = b.ops[x]
  BY FlushedOf DEF S
<1> HIDE DEF f
<1>3. /\ Sound(n) /\ SamePlaces(f, n)
      /\ n.ops = f.ops /\ n.cur = f.cur /\ n.online = f.online
  BY <1>2, NotePingsOf
<1> HIDE DEF n
<1>4. Queued(n) = Queued(b) /\ Away(n) = Away(b)
  BY <1>2, <1>3, PlacesSame
<1>5. /\ Sound(g) /\ Away(g) = Away(b) /\ Queued(b) \subseteq Queued(g)
      /\ \A x \in Away(b) : g.ops[x] = n.ops[x]
      /\ g.cur = b.cur /\ g.online = b.online
  <2>1. CASE ~more
    BY <1>2, <1>3, <1>4, <2>1
  <2>2. CASE more
    <3>1. s[1] \in Ops /\ TRUE \in More(b, s[1])
      BY <2>2
    <3>2. TRUE \in More(n, s[1])
      BY <1>2, <1>3, <3>1 DEF More, CanTake, SamePlaces
    <3>3. cfg.kind = "SPI" \/ n.cur # Null
      BY <1>2, <1>3, <2>2
    <3> QED BY <1>2, <1>3, <1>4, <2>2, <3>1, <3>2, <3>3, FollowedOf
  <2> QED BY <2>1, <2>2
<1> HIDE DEF g
<1>6. /\ Sound(c) /\ Away(c) = Away(g) \ (S \ StaticOps)
      /\ c.work = g.work /\ c.cbq = g.cbq /\ c.cur = g.cur /\ c.online = g.online
      /\ \A x \in S \cap StaticOps : Clean(c, x)
      /\ \A x \in Ops \ S : c.ops[x] = g.ops[x]
  BY <1>1, <1>5, ReclaimOf DEF S
<1>7. Queued(c) = Queued(g)
  BY <1>6 DEF Queued
<1>8. \A x \in Away(b) \ S : c.ops[x] = b.ops[x]
  BY <1>2, <1>3, <1>5, <1>6 DEF Away
<1> QED BY <1>5, <1>6, <1>7, <1>8 DEF c, S

\* purge_current_job()
LEMMA PurgeCurOf ==
  ASSUME NEW b, Fits(b), cfg.kind \in Kinds, b.cur # Null, NEW more \in BOOLEAN, more \in More(b, b.cur)
  PROVE  Moves(b, [Purge(b, <<b.cur>>, more) EXCEPT !.cur = Null], {b.cur}, {})
<1> DEFINE o == b.cur  s == <<o>>  d == Purge(b, s, more)  c == [d EXCEPT !.cur = Null]
<1>1. Sound(b) /\ o \in Away(b) /\ o \in Ops
  BY DEF Fits, CurFits, Away
<1>2. s \in Seq(Ops) /\ Distinct(s) /\ Ran(s) = {o} /\ s[1] = o
  BY <1>1 DEF Distinct, Ran
<1> HIDE DEF s, d
<1>3. /\ Sound(d) /\ d.cur = o
      /\ Away(d) = Away(b) \ ({o} \ StaticOps)
      /\ Queued(b) \subseteq Queued(d)
      /\ \A x \in {o} \cap StaticOps : Clean(d, x)
      /\ \A x \in Away(b) \ {o} : d.ops[x] = b.ops[x]
  BY <1>1, <1>2, PurgeOf DEF d
<1>4. /\ Sound(c) /\ SamePlaces(d, c) /\ Away(c) = Away(d)
      /\ c.ops = d.ops /\ c.cur = Null
  BY <1>3, NewCur
<1> HIDE DEF c
<1>5. Fits(c)
  <2>1. \A x \in Away(c) \ {c.cur} : Clean(c, x)
    BY <1>3, <1>4 DEF Fits, Clean, OwnFault
  <2> QED BY <1>4, <2>1 DEF Fits, CurFits
<1>6. /\ (Away(c) \ {c.cur}) \ StaticOps \subseteq Away(b) \ {o}
      /\ Away(b) \ {o} \subseteq Away(c)
  BY <1>3, <1>4
<1>7. AtAdapter(b) \ {o} \subseteq AtAdapter(c) /\ o \in AtAdapter(b)
  <2>1. Queued(c) = Queued(d)
    BY <1>4, PlacesSame
  <2> QED BY <1>3, <2>1, AtIsQueued
<1> QED BY <1>5, <1>6, <1>7 DEF Moves, c, d, s

\* A purge of the work queue that leaves the jobs of w in it and takes out those
\* of s.
LEMMA PurgeWorkOf ==
  ASSUME NEW b, Fits(b), cfg.kind \in Kinds, NEW w \in Seq(Jobs), Once(w),
         NEW s \in Seq(Ops), Distinct(s),
         Ran(s) \cap OpsIn(w) = {}, OpsIn(b.work) = Ran(s) \cup OpsIn(w)
  PROVE  Moves(b, Purge([b EXCEPT !.work = w], s, FALSE), Ran(s), {})
<1> DEFINE a == [b EXCEPT !.work = w]  c == Purge(a, s, FALSE)
<1>1. /\ Sound(a) /\ a.work = w /\ a.cbq = b.cbq
      /\ Away(a) = Away(b) \cup (OpsIn(b.work) \ OpsIn(w))
      /\ a.ops = b.ops /\ a.cur = b.cur
  BY NewWork DEF Fits
<1> HIDE DEF a
<1>2. Away(a) = Away(b) \cup Ran(s) /\ Away(b) \cap Ran(s) = {}
  BY <1>1 DEF Away, Queued
<1>3. /\ Sound(c) /\ c.cur = b.cur
      /\ Away(c) = Away(a) \ (Ran(s) \ StaticOps)
      /\ Queued(a) \subseteq Queued(c)
      /\ \A x \in Ran(s) \cap StaticOps : Clean(c, x)
      /\ \A x \in Away(a) \ Ran(s) : c.ops[x] = a.ops[x]
  BY <1>1, <1>2, PurgeOf
<1> HIDE DEF c
<1>4. Away(b) \subseteq Away(c) /\ \A x \in Away(b) : c.ops[x] = b.ops[x]
  BY <1>1, <1>2, <1>3
<1>5. Fits(c)
  <2>1. CurFits(c)
    BY <1>3, <1>4 DEF Fits, CurFits, OwnFault
  <2>2. \A x \in Away(c) \ {c.cur} : Clean(c, x)
    BY <1>2, <1>3, <1>4 DEF Fits, Clean, OwnFault
  <2> QED BY <1>3, <2>1, <2>2 DEF Fits
<1>6. (Away(c) \ {c.cur}) \ StaticOps \subseteq Away(b) \ {b.cur}
  BY <1>2, <1>3
<1>7. AtAdapter(b) \ Ran(s) \subseteq AtAdapter(c) /\ Ran(s) \subseteq AtAdapter(b)
  <2>1. Queued(b) = Queued(a) \cup Ran(s)
    BY <1>1 DEF Queued
  <2> QED BY <1>3, <2>1, AtIsQueued
<1> QED BY <1>4, <1>5, <1>6, <1>7 DEF Moves, a, c

\* _memory_init() populates the list of the pool or turns it.
LEMMA MemoryInitOf ==
  ASSUME NEW b, Fits(b), NEW on \in BOOLEAN
  PROVE  Stays(b, [MemoryInit(b) EXCEPT !.online = on])
<1> DEFINE list == IF b.populated THEN b.free ELSE SeqOfPool
           new  == IF list = <<>> THEN list ELSE Turned(list)
           c    == [MemoryInit(b) EXCEPT !.online = on]
<1>1. b \in BusRecords /\ Sound(b) /\ b.free \in Seq(PoolOps) /\ Distinct(b.free)
  BY Fields DEF Fits, Sound
<1>2. list \in Seq(PoolOps) /\ Distinct(list)
      /\ Ran(list) = IF b.populated THEN Ran(b.free) ELSE PoolOps
  BY <1>1, SeqOfPoolOf
<1> HIDE DEF list
<1>3. new \in Seq(PoolOps) /\ Distinct(new) /\ Ran(new) = Ran(list)
  BY <1>2, TurnedOf
<1>4. c = [b EXCEPT !.populated = TRUE, !.free = new, !.online = on]
  BY <1>1 DEF MemoryInit, list, BusRecords
<1> HIDE DEF new, c
<1>5. /\ c \in BusRecords /\ c.populated = TRUE /\ c.free = new /\ c.heap = b.heap
      /\ c.work = b.work /\ c.cbq = b.cbq /\ c.ops = b.ops /\ c.cur = b.cur
  BY <1>1, <1>3, <1>4 DEF BusRecords
<1>6. Stored(c) = Stored(b) /\ Queued(c) = Queued(b)
  <2>1. ~b.populated => Ran(b.free) = {}
    BY <1>1, EmptyList DEF Sound
  <2> QED BY <1>2, <1>3, <1>5, <2>1 DEF Stored, Queued
<1>7. Away(c) = Away(b)
  BY <1>6 DEF Away
<1>8. Sound(c)
  BY <1>1, <1>3, <1>5, <1>6 DEF Sound, OwnFault
<1>9. CurFits(c) /\ \A x \in Away(c) \ {c.cur} : Clean(c, x)
  BY <1>5, <1>7 DEF Fits, CurFits, Clean, OwnFault
<1>10. AtAdapter(c) = AtAdapter(b)
  BY <1>5 DEF AtAdapter
<1> QED BY <1>5, <1>7, <1>8, <1>9, <1>10 DEF Stays, Fits, c

-----------------------------------------------------------------------------
(***************************************************************************)
(* The steps.                                                              *)
(***************************************************************************)

LEMMA ConfigType ==
  ASSUME cfg \in Configs
  PROVE  /\ cfg.kind \in Kinds /\ (cfg.kind = "SPI" \/ cfg.kind = "I2C")
         /\ cfg.asap => cfg.kind = "I2C"
         /\ Prios \subseteq {0, 1}
BY DEF Configs, Kinds, Prios

\* queue_io_job() takes an operation from the drivers to the adapter.
LEMMA QueueMoves ==
  ASSUME cfg \in Configs, NEW b, Fits(b), NEW o \in Away(b) \ {b.cur}, NEW p \in {0, 1},
         NEW res, cfg.asap /\ b.online /\ b.cur = Null => res \in Outcomes
  PROVE  /\ Moves(b, QueueIoJob(b, o, p, res), {}, {})
         /\ o \notin Away(QueueIoJob(b, o, p, res)) \ {QueueIoJob(b, o, p, res).cur}
<1> DEFINE c == QueueIoJob(b, o, p, res)
<1>1. Sound(b) /\ o \in Away(b) /\ o \in Ops /\ Clean(b, o)
  BY DEF Fits, Away
<1>2. CASE cfg.kind = "SPI" \/ ~(b.cur = Null /\ cfg.asap /\ b.online)
  <2>1. Enqueued(b, c, o)
    BY <1>1, <1>2, QueueOf
  <2> HIDE DEF c
  <2>2. Fits(c)
    <3>1. CurFits(c)
      BY <2>1 DEF Fits, CurFits, Enqueued, OwnFault, Away
    <3>2. \A x \in Away(c) \ {c.cur} : Clean(c, x)
      BY <2>1 DEF Fits, Enqueued, Clean, OwnFault, Away
    <3> QED BY <2>1, <3>1, <3>2 DEF Fits, Enqueued
  <2>3. Moves(b, c, {}, {})
    BY <2>1, <2>2, AtIsQueued DEF Moves, Enqueued
  <2> QED BY <2>1, <2>3 DEF Enqueued, c
<1>3. CASE ~(cfg.kind = "SPI" \/ ~(b.cur = Null /\ cfg.asap /\ b.online))
  <2>1. c = QueueI2C(b, o, res)
    BY <1>3 DEF QueueIoJob
  <2> HIDE DEF c
  <2>2. /\ Sound(c) /\ SamePlaces(b, c) /\ c.cur = o
        /\ Finished(c.ops[o]) \/ OwnFault(c, o)
        /\ \A x \in Ops \ {o} : c.ops[x] = b.ops[x]
    BY <1>1, <1>3, <2>1, BeginOf
  <2>3. Queued(c) = Queued(b) /\ Away(c) = Away(b)
    BY <2>2, PlacesSame
  <2>4. Fits(c)
    <3>1. CurFits(c)
      BY <1>1, <1>3, <2>2, <2>3 DEF CurFits
    <3>2. \A x \in Away(c) \ {c.cur} : Clean(c, x)
      BY <1>3, <2>2, <2>3, Apart DEF Fits, Clean, OwnFault, Away
    <3> QED BY <2>2, <3>1, <3>2 DEF Fits
  <2>5. Moves(b, c, {}, {})
    BY <1>3, <2>2, <2>3, <2>4, AtIsQueued, Apart DEF Moves, Away
  <2> QED BY <2>2, <2>5 DEF c
<1> QED BY <1>2, <1>3

\* The adapter n is the adapter b after an operation was taken from the pool.
TookOne(b, n, x) ==
  /\ Fits(n) /\ x \in Away(n) \ {n.cur} /\ x \in Ops \ StaticOps
  /\ Away(n) = Away(b) \cup {x} /\ x \notin Away(b)
  /\ AtAdapter(n) = AtAdapter(b) /\ n.cur = b.cur /\ n.online = b.online

LEMMA NewOpMoves ==
  ASSUME NEW b, Fits(b), CanTake(b), NEW cb \in CallbackObjects
  PROVE  TookOne(b, NewOp(b, cb), Taken(b))
<1> DEFINE x == Taken(b)  n == NewOp(b, cb)
<1>1. /\ Sound(n) /\ x \in Ops \ StaticOps /\ x \notin Away(b)
      /\ Away(n) = Away(b) \cup {x} /\ n.ops[x] = [Blank(Null) EXCEPT !.cb = cb]
      /\ \A o \in Ops \ {x} : n.ops[o] = b.ops[o]
      /\ n.work = b.work /\ n.cbq = b.cbq /\ n.cur = b.cur /\ n.online = b.online
  BY NewOpOf DEF Fits
<1> HIDE DEF x, n
<1>2. x # n.cur
  BY <1>1, Apart DEF Fits, CurFits
<1>3. Clean(n, x)
  BY <1>1, BlankType, WithCb DEF Clean, OwnFault
<1>4. Fits(n)
  <2>1. CurFits(n)
    BY <1>1, <1>2 DEF Fits, CurFits, OwnFault, Away
  <2>2. \A o \in Away(n) \ {n.cur} : Clean(n, o)
    BY <1>1, <1>3 DEF Fits, Clean, OwnFault, Away
  <2> QED BY <1>1, <2>1, <2>2 DEF Fits
<1>5. AtAdapter(n) = AtAdapter(b)
  BY <1>1 DEF AtAdapter
<1> QED BY <1>1, <1>2, <1>4, <1>5 DEF TookOne, x, n

\* An operation that was taken and queued was never in the hands of a driver.
LEMMA TakenMoves ==
  ASSUME NEW b, NEW n, NEW x, TookOne(b, n, x), NEW c, Moves(n, c, {}, {}),
         x \notin Away(c) \ {c.cur}
  PROVE  Moves(b, c, {}, {})
BY DEF Moves, TookOne

\* The next state of the adapter, and what becomes of operations on the way.
Stepped == \E b, S, T : Becomes(b, S, T) /\ Moves(bus, b, S, T)

LEMMA InitAdapterMoves ==
  ASSUME BusInv, NEW ok \in BOOLEAN, InitAdapter(ok)
  PROVE  Stepped
<1> DEFINE b == [MemoryInit(bus) EXCEPT !.online = ok /\ cfg.kind = "I2C"]
<1>1. Fits(bus)
  BY DEF BusInv, Fits
<1>2. (ok /\ cfg.kind = "I2C") \in BOOLEAN
  OBVIOUS
<1>3. Stays(bus, b)
  BY <1>1, <1>2, MemoryInitOf
<1>4. Moves(bus, b, {}, {})
  BY <1>1, <1>3, MovesSelf, MovesOn
<1> QED BY <1>4 DEF InitAdapter, Stepped

LEMMA DriverTakesMoves ==
  ASSUME BusInv, NEW cb \in Devices \cup {Null}, DriverTakes(cb)
  PROVE  Stepped
<1> DEFINE x == Taken(bus)  b == NewOp(bus, cb)
<1>1. Fits(bus) /\ CanTake(bus) /\ cb \in CallbackObjects
  BY DEF BusInv, Fits, DriverTakes, CallbackObjects
<1>2. TookOne(bus, b, x)
  BY <1>1, NewOpMoves
<1>3. Becomes(b, {}, {x})
  BY DEF DriverTakes
<1> HIDE DEF x, b
<1>4. Moves(bus, b, {}, {x})
  BY <1>2 DEF Moves, TookOne
<1> QED BY <1>3, <1>4 DEF Stepped

LEMMA DriverQueuesMoves ==
  ASSUME BusInv, NEW o \in Ops, NEW prio \in Prios, NEW res \in OutcomesIf(QueueBegins),
         DriverQueues(o, prio, res)
  PROVE  Stepped
<1> DEFINE b == QueueIoJob(bus, o, prio, res)
<1>1. Fits(bus) /\ cfg \in Configs /\ prio \in {0, 1}
  BY ConfigType DEF BusInv, Fits
<1>2. Becomes(b, {}, {})
  BY DEF DriverQueues
<1>3. CASE o \in held
  <2>1. o \in Away(bus) \ {bus.cur}
    BY <1>3 DEF BusInv
  <2>2. cfg.asap /\ bus.online /\ bus.cur = Null => res \in Outcomes
    BY DEF OutcomesIf, QueueBegins
  <2>3. Moves(bus, b, {}, {})
    BY <1>1, <2>1, <2>2, QueueMoves
  <2> QED BY <1>2, <2>3 DEF Stepped
<1>4. CASE o \notin held
  <2>1. cfg.kind = "SPI" /\ o \in StaticOps
    BY <1>4 DEF DriverQueues
  <2>2. o = bus.cur \/ o \in Queued(bus)
    <3>1. o \notin Stored(bus)
      BY <1>1, <2>1, StoredType, Apart DEF Fits, Sound
    <3> QED BY <1>4, <3>1 DEF BusInv, Away
  <2>3. bus.ops[o].st # "IDLE"
    BY <1>1, <2>1, <2>2, Apart DEF Fits, Sound, CurFits, Queued, Finished
  <2>4. b = QueueSPI(bus, o, prio)
    BY <2>1 DEF QueueIoJob
  <2> HIDE DEF b
  <2>5. /\ Sound(b) /\ SamePlaces(bus, b) /\ b.cur = bus.cur /\ b.online = bus.online
        /\ \A x \in Ops : b.ops[x].st = bus.ops[x].st /\ b.ops[x].fault = bus.ops[x].fault
    BY <1>1, <2>1, <2>3, <2>4, QueueAgainOf DEF Fits
  <2>6. Queued(b) = Queued(bus) /\ Away(b) = Away(bus) /\ Away(b) \subseteq Ops
    BY <2>5, PlacesSame DEF Away
  <2>7. Fits(b)
    <3>1. CurFits(b)
      BY <1>1, <2>5, <2>6 DEF Fits, CurFits, OwnFault, Finished
    <3>2. \A x \in Away(b) \ {b.cur} : Clean(b, x)
      BY <1>1, <2>5, <2>6 DEF Fits, Clean, OwnFault
    <3> QED BY <2>5, <3>1, <3>2 DEF Fits
  <2>8. Stays(bus, b)
    BY <2>5, <2>6, <2>7, AtIsQueued DEF Stays
  <2>9. Moves(bus, b, {}, {})
    BY <1>1, <2>8, MovesSelf, MovesOn
  <2> QED BY <1>2, <2>9 DEF Stepped, b
<1> QED BY <1>3, <1>4

LEMMA DriverTransfersMoves ==
  ASSUME BusInv, NEW d \in Devices, NEW res \in OutcomesIf(QueueBegins), DriverTransfers(d, res)
  PROVE  Stepped
<1> DEFINE x == Taken(bus)  n == NewOp(bus, d)  b == QueueIoJob(n, x, 0, res)
<1>1. Fits(bus) /\ cfg \in Configs /\ CanTake(bus) /\ cfg.kind = "I2C" /\ d \in CallbackObjects
  BY DEF BusInv, Fits, DriverTransfers, CallbackObjects
<1>2. Becomes(b, {}, {})
  BY <1>1 DEF DriverTransfers, QueueIoJob
<1>3. TookOne(bus, n, x)
  BY <1>1, NewOpMoves
<1> HIDE DEF x, n
<1>4. Fits(n) /\ x \in Away(n) \ {n.cur}
  BY <1>3 DEF TookOne
<1>5. cfg.asap /\ n.online /\ n.cur = Null => res \in Outcomes
  BY <1>3 DEF TookOne, OutcomesIf, QueueBegins
<1>6. Moves(n, b, {}, {}) /\ x \notin Away(b) \ {b.cur}
  BY <1>1, <1>4, <1>5, QueueMoves
<1> HIDE DEF b
<1>7. Moves(bus, b, {}, {})
  BY <1>3, <1>6, TakenMoves
<1> QED BY <1>2, <1>7 DEF Stepped

LEMMA PingMoves ==
  ASSUME BusInv, NEW a \in 1..LastAddr, NEW res \in OutcomesIf(QueueBegins), PingSlaveAddr(a, res)
  PROVE  Stepped
<1> DEFINE x == Taken(bus)  m == NewOp(bus, Adapter)
           n == [m EXCEPT !.ops[x].addr = a, !.pinging = TRUE]
           b == QueueIoJob(n, x, 0, res)
<1>1. Fits(bus) /\ cfg \in Configs /\ CanTake(bus) /\ cfg.kind = "I2C" /\ Adapter \in CallbackObjects
  BY DEF BusInv, Fits, PingSlaveAddr, CallbackObjects
<1>2. Becomes(b, {}, {})
  BY <1>1 DEF PingSlaveAddr, QueueIoJob
<1>3. TookOne(bus, m, x)
  BY <1>1, NewOpMoves
<1> HIDE DEF x, m
<1>4. m \in BusRecords /\ Sound(m) /\ x \in Ops /\ x \in Away(m)
  BY <1>3 DEF TookOne, Fits, Sound
<1>5. m.ops[x] \in OpRecords /\ m.ops \in [Ops -> OpRecords]
  BY <1>4, Fields
<1> DEFINE op == [m.ops[x] EXCEPT !.addr = a]
<1>6. op \in OpRecords /\ op.st = m.ops[x].st /\ op.fault = m.ops[x].fault
  <2>1. a \in 0..LastAddr
    BY BusAssumption
  <2> QED BY <1>5, <2>1 DEF OpRecords
<1>7. n = [m EXCEPT !.ops = [m.ops EXCEPT ![x] = op], !.pinging = TRUE]
  OBVIOUS
<1> HIDE DEF op, n
<1>8. /\ n \in BusRecords /\ SamePlaces(m, n) /\ n.cur = m.cur /\ n.online = m.online
      /\ n.ops = [m.ops EXCEPT ![x] = op]
  BY <1>4, <1>5, <1>6, <1>7 DEF BusRecords, SamePlaces
<1>9. /\ n.ops[x] = op /\ \A y \in Ops \ {x} : n.ops[y] = m.ops[y]
      /\ \A y \in Ops : n.ops[y].st = m.ops[y].st /\ n.ops[y].fault = m.ops[y].fault
  BY <1>4, <1>5, <1>6, <1>8
<1>10. Sound(n) /\ Away(n) = Away(m)
  <2>1. Stored(m) \subseteq Ops \ {x} /\ Queued(m) \subseteq Ops
    BY <1>4, StoredType, QueuedType, Apart DEF Away
  <2> QED BY <1>4, <1>8, <1>9, <2>1, StaysSound
<1>11. Fits(n)
  <2>1. Away(m) \subseteq Ops
    BY DEF Away
  <2>2. CurFits(n)
    BY <1>3, <1>8, <1>9, <1>10, <2>1 DEF TookOne, Fits, CurFits, OwnFault, Finished
  <2>3. \A y \in Away(n) \ {n.cur} : Clean(n, y)
    BY <1>3, <1>8, <1>9, <1>10, <2>1 DEF TookOne, Fits, Clean, OwnFault
  <2> QED BY <1>10, <2>2, <2>3 DEF Fits
<1>12. TookOne(bus, n, x)
  <2>1. AtAdapter(n) = AtAdapter(m)
    BY <1>8 DEF SamePlaces, AtAdapter
  <2> QED BY <1>3, <1>8, <1>10, <1>11, <2>1 DEF TookOne
<1>13. Fits(n) /\ x \in Away(n) \ {n.cur}
  BY <1>12 DEF TookOne
<1>14. cfg.asap /\ n.online /\ n.cur = Null => res \in Outcomes
  BY <1>12 DEF TookOne, OutcomesIf, QueueBegins
<1>15. Moves(n, b, {}, {}) /\ x \notin Away(b) \ {b.cur}
  BY <1>1, <1>13, <1>14, QueueMoves
<1> HIDE DEF b
<1>16. Moves(bus, b, {}, {})
  BY <1>12, <1>15, TakenMoves
<1> QED BY <1>2, <1>16 DEF Stepped

LEMMA PollMoves ==
  ASSUME BusInv, NEW res \in OutcomesIf(PollBegins), Poll(res)
  PROVE  Stepped
<1>1. Fits(bus) /\ cfg \in Configs
  BY DEF BusInv, Fits
<1>2. res \in Outcomes
  BY DEF OutcomesIf, Outcomes
<1>3. CASE cfg.kind = "SPI"
  <2>1. Becomes(PollSPI(bus, res), {}, {})
    BY <1>3 DEF Poll
  <2>2. Moves(bus, PollSPI(bus, res), {}, {})
    BY <1>1, <1>2, <1>3, PollSPIOf
  <2> QED BY <2>1, <2>2 DEF Stepped
<1>4. CASE cfg.kind # "SPI" /\ PollCalls(bus) = {}
  <2>1. Becomes(PollI2C(bus, res, "NOMINAL", FALSE), {}, {})
    BY <1>4 DEF Poll
  <2>2. cfg.kind = "I2C"
    BY <1>1, <1>4, ConfigType
  <2>3. Moves(bus, PollI2C(bus, res, "NOMINAL", FALSE), PollCalls(bus), {})
    BY <1>1, <1>2, <1>4, <2>2, PollI2COf
  <2> QED BY <1>4, <2>1, <2>3 DEF Stepped
<1>5. CASE cfg.kind # "SPI" /\ PollCalls(bus) # {}
  <2>1. PICK answer \in Answers(bus, bus.cur) : \E more \in More(bus, bus.cur) :
          Becomes(PollI2C(bus, res, answer, more), {bus.cur}, {})
    BY <1>5 DEF Poll
  <2>2. PICK more \in More(bus, bus.cur) :
          Becomes(PollI2C(bus, res, answer, more), {bus.cur}, {})
    BY <2>1
  <2>3. cfg.kind = "I2C"
    BY <1>1, <1>5, ConfigType
  <2>4. PollCalls(bus) = {bus.cur} /\ more \in BOOLEAN
    BY <1>5 DEF PollCalls, More
  <2>5. Moves(bus, PollI2C(bus, res, answer, more), PollCalls(bus), {})
    BY <1>1, <1>2, <2>3, <2>4, PollI2COf
  <2> QED BY <2>2, <2>4, <2>5 DEF Stepped
<1> QED BY <1>3, <1>4, <1>5

LEMMA ServiceMoves ==
  ASSUME BusInv, ServiceCallbackQueue
  PROVE  Stepped
<1> DEFINE o == Head(bus.cbq).op
<1>1. Fits(bus) /\ cfg.kind = "SPI" /\ bus.cbq # <<>>
  BY DEF BusInv, Fits, ServiceCallbackQueue
<1>2. PICK answer \in Answers(bus, o), more \in More(bus, o) :
        Becomes(ServiceOne(bus, answer, more), {o}, {})
  BY DEF ServiceCallbackQueue
<1>3. Moves(bus, ServiceOne(bus, answer, more), {o}, {})
  BY <1>1, ServiceOneOf
<1> HIDE DEF o
<1> QED BY <1>2, <1>3 DEF Stepped

LEMMA AdvanceMoves ==
  ASSUME BusInv, NEW res \in Outcomes, Advance(res)
  PROVE  Stepped
<1> DEFINE op == bus.ops[bus.cur]
           m  == Moved(cfg.kind, op, res)
           b  == OpIs(bus, bus.cur, m)
<1>1. Fits(bus) /\ cfg.kind \in Kinds /\ bus.cur # Null /\ op.st = "BUSY"
  BY ConfigType DEF BusInv, Fits, Advance
<1>2. Becomes(b, {}, {})
  BY DEF Advance
<1>3. op \in OpRecords /\ OwnFault(bus, bus.cur)
  <2>1. bus.ops \in [Ops -> OpRecords] /\ bus.cur \in Ops
    BY <1>1, Fields DEF Fits, Sound, CurFits, Away
  <2> QED BY <1>1, <2>1 DEF Fits, CurFits, Finished
<1>4. /\ m \in OpRecords /\ m.st # "IDLE"
      /\ Finished(m) \/ (m.fault => bus.cur \in StaticOps)
  BY <1>1, <1>3, MovedType DEF OwnFault
<1> HIDE DEF m
<1>5. Stays(bus, b)
  BY <1>1, <1>4, CurMoved
<1>6. Moves(bus, b, {}, {})
  BY <1>1, <1>5, MovesSelf, MovesOn
<1> QED BY <1>2, <1>6 DEF Stepped

LEMMA PurgeCurrentMoves ==
  ASSUME BusInv, NEW more \in BOOLEAN, PurgeCurrentJob(more)
  PROVE  Stepped
<1> DEFINE b == [Purge(bus, <<bus.cur>>, more) EXCEPT !.cur = Null]
<1>1. Fits(bus) /\ cfg.kind \in Kinds /\ bus.cur # Null /\ more \in More(bus, bus.cur)
  BY ConfigType DEF BusInv, Fits, PurgeCurrentJob
<1>2. Becomes(b, {bus.cur}, {})
  BY DEF PurgeCurrentJob
<1>3. Moves(bus, b, {bus.cur}, {})
  BY <1>1, PurgeCurOf
<1> HIDE DEF b
<1> QED BY <1>2, <1>3 DEF Stepped

LEMMA PurgeQueuedMoves ==
  ASSUME BusInv, PurgeQueuedWork
  PROVE  Stepped
<1> DEFINE s == OpSeq(bus.work)  b == Purge([bus EXCEPT !.work = <<>>], s, FALSE)
<1>1. Fits(bus) /\ cfg.kind \in Kinds /\ bus.work \in Seq(Jobs) /\ Once(bus.work)
  BY ConfigType, Fields DEF BusInv, Fits, Sound
<1>2. Becomes(b, OpsIn(bus.work), {})
  BY DEF PurgeQueuedWork
<1>3. s \in Seq(Ops) /\ Distinct(s) /\ Ran(s) = OpsIn(bus.work)
  BY <1>1, OpSeqOf
<1> HIDE DEF s
<1>4. <<>> \in Seq(Jobs) /\ Once(<<>>) /\ OpsIn(<<>>) = {}
  BY EmptyList
<1>5. Moves(bus, b, Ran(s), {})
  BY <1>1, <1>3, <1>4, PurgeWorkOf
<1> HIDE DEF b
<1> QED BY <1>2, <1>3, <1>5 DEF Stepped

LEMMA PurgeDeviceMoves ==
  ASSUME BusInv, NEW d \in Devices, PurgeDevice(d)
  PROVE  Stepped
<1> DEFINE I == RemovedByDev(bus, d)
           w == Without(bus.work, I)
           s == OpSeq(Picked(bus.work, I))
           b == Purge([bus EXCEPT !.work = w], s, FALSE)
<1>1. Fits(bus) /\ cfg.kind \in Kinds /\ bus.work \in Seq(Jobs) /\ Once(bus.work)
  BY ConfigType, Fields DEF BusInv, Fits, Sound
<1>2. Becomes(b, {bus.work[i].op : i \in I}, {})
  BY DEF PurgeDevice, PurgeByDev
<1>3. I \in SUBSET (1..Len(bus.work))
  BY DEF RemovedByDev
<1> HIDE DEF I
<1>4. /\ s \in Seq(Ops) /\ Distinct(s) /\ Ran(s) = {bus.work[i].op : i \in I}
      /\ Ran(s) \cap OpsIn(w) = {} /\ OpsIn(bus.work) = Ran(s) \cup OpsIn(w)
  BY <1>1, <1>3, SplitOf
<1>5. w \in Seq(Jobs) /\ Once(w)
  BY <1>1, WithoutOf
<1> HIDE DEF s, w
<1>6. Moves(bus, b, Ran(s), {})
  BY <1>1, <1>4, <1>5, PurgeWorkOf
<1> HIDE DEF b
<1> QED BY <1>2, <1>4, <1>6 DEF Stepped

LEMMA NextMoves ==
  ASSUME BusInv, Next
  PROVE  Stepped
<1>1. ASSUME NEW ok \in BOOLEAN, InitAdapter(ok) PROVE Stepped
  BY <1>1, InitAdapterMoves
<1>2. ASSUME NEW cb \in Devices \cup {Null}, DriverTakes(cb) PROVE Stepped
  BY <1>2, DriverTakesMoves
<1>3. ASSUME NEW o \in Ops, NEW prio \in Prios, NEW res \in OutcomesIf(QueueBegins),
             DriverQueues(o, prio, res)
      PROVE  Stepped
  BY <1>3, DriverQueuesMoves
<1>4. ASSUME NEW d \in Devices, NEW res \in OutcomesIf(QueueBegins), DriverTransfers(d, res)
      PROVE  Stepped
  BY <1>4, DriverTransfersMoves
<1>5. ASSUME NEW a \in 1..LastAddr, NEW res \in OutcomesIf(QueueBegins), PingSlaveAddr(a, res)
      PROVE  Stepped
  BY <1>5, PingMoves
<1>6. ASSUME NEW res \in OutcomesIf(PollBegins), Poll(res) PROVE Stepped
  BY <1>6, PollMoves
<1>7. CASE ServiceCallbackQueue
  BY <1>7, ServiceMoves
<1>8. ASSUME NEW res \in Outcomes, Advance(res) PROVE Stepped
  BY <1>8, AdvanceMoves
<1>9. ASSUME NEW more \in BOOLEAN, PurgeCurrentJob(more) PROVE Stepped
  BY <1>9, PurgeCurrentMoves
<1>10. CASE PurgeQueuedWork
  BY <1>10, PurgeQueuedMoves
<1>11. ASSUME NEW d \in Devices, PurgeDevice(d) PROVE Stepped
  BY <1>11, PurgeDeviceMoves
<1> QED BY <1>1, <1>2, <1>3, <1>4, <1>5, <1>6, <1>7, <1>8, <1>9, <1>10, <1>11 DEF Next

-----------------------------------------------------------------------------
(***************************************************************************)
(* The invariant, and what follows from it.                                *)
(***************************************************************************)

\* A step keeps the invariant and the contract with the drivers.
LEMMA SteppedKeeps ==
  ASSUME BusInv, Stepped
  PROVE  BusInv' /\ Contract!JobStep
<1>1. PICK b, S, T : Becomes(b, S, T) /\ Moves(bus, b, S, T)
  BY DEF Stepped
<1>2. /\ bus' = b /\ called' = S /\ cfg' = cfg
      /\ held' = (held \cup T \cup StaticOps) \ AtAdapter(b)
  BY <1>1 DEF Becomes
<1>3. Fits(b) /\ held = Away(bus) \ {bus.cur} /\ cfg \in Configs
  BY <1>1 DEF Moves, BusInv
<1>4. b.cur \in Ops \cup {Null} /\ Null \notin Ops /\ Away(b) \subseteq Ops
  BY <1>3, Fields, Apart DEF Fits, Sound, Away
<1>5. AtAdapter(b) = Queued(b) \cup ({b.cur} \ {Null})
  BY AtIsQueued
<1>6. StaticOps \subseteq Away(b) \cup Queued(b)
  BY <1>3, StoredType, Apart DEF Fits, Sound, Away
<1>7. held' = Away(b) \ {b.cur}
  <2>1. held' \subseteq Away(b) \ {b.cur}
    BY <1>1, <1>2, <1>3, <1>4, <1>5, <1>6 DEF Moves
  <2>2. Away(b) \cap Queued(b) = {}
    BY DEF Away
  <2>3. Away(b) \ {b.cur} \subseteq held'
    BY <1>1, <1>2, <1>3, <1>4, <1>5, <2>2 DEF Moves
  <2> QED BY <2>1, <2>3
<1>8. AtAdapter(bus) \subseteq Ops
  <2>1. Sound(bus)
    BY DEF BusInv
  <2>2. bus.cur \in Ops \cup {Null} /\ Queued(bus) \subseteq Ops
    BY <2>1, Fields, QueuedType DEF Sound
  <2> QED BY <2>2, AtIsQueued
<1>9. BusInv'
  <2>1. Sound(bus') /\ \A o \in Away(bus') \ {bus'.cur} : Clean(bus', o)
    BY <1>2, <1>3 DEF Fits
  <2>2. CurFits(bus)'
    BY <1>2, <1>3 DEF Fits, CurFits
  <2>3. held' = Away(bus') \ {bus'.cur} /\ called' \subseteq Ops /\ cfg' \in Configs
    BY <1>1, <1>2, <1>3, <1>7, <1>8 DEF Moves
  <2> QED BY <2>1, <2>2, <2>3 DEF BusInv
<1>10. /\ held' \subseteq Ops
       /\ held' \cap AtAdapter(bus') = {}
       /\ called' \subseteq AtAdapter(bus)
       /\ AtAdapter(bus) \ called' \subseteq AtAdapter(bus')
       /\ held \subseteq held' \cup AtAdapter(bus')
  BY <1>1, <1>2, <1>4, <1>7 DEF Moves
<1> QED BY <1>9, <1>10 DEF Contract!JobStep

\* The adapter has nothing at first, and drivers hold what they own.
LEMMA InitHolds ==
  ASSUME Init
  PROVE  BusInv /\ Contract!JobInit
<1>1. /\ cfg \in Configs /\ held = StaticOps /\ called = {}
      /\ bus = [ops       |-> [o \in Ops |-> IF o \in StaticOps
                                             THEN [Blank(Null) EXCEPT !.cb = Owner[o]]
                                             ELSE Blank(Null)],
                populated |-> FALSE, free |-> <<>>, heap |-> {}, work |-> <<>>, cur |-> Null,
                cbq       |-> <<>>, pinging |-> FALSE, online |-> FALSE]
  BY DEF Init
<1>2. ASSUME NEW o \in StaticOps
      PROVE  /\ [Blank(Null) EXCEPT !.cb = Owner[o]] \in OpRecords
             /\ [Blank(Null) EXCEPT !.cb = Owner[o]].st = "IDLE"
  <2>1. Owner[o] \in CallbackObjects
    BY BusAssumption DEF CallbackObjects
  <2>2. \A cb \in CallbackObjects : [Blank(Null) EXCEPT !.cb = cb] \in OpRecords
                                    /\ [Blank(Null) EXCEPT !.cb = cb].st = "IDLE"
    BY BlankType, WithCb
  <2> QED BY <2>1, <2>2
<1>3. /\ bus.ops \in [Ops -> OpRecords]
      /\ \A o \in StaticOps : bus.ops[o].st = "IDLE"
      /\ \A o \in PoolOps : bus.ops[o] = Blank(Null)
  <2> DEFINE Owned(o) == [Blank(Null) EXCEPT !.cb = Owner[o]]
             B        == Blank(Null)
  <2>1. bus.ops = [o \in Ops |-> IF o \in StaticOps THEN Owned(o) ELSE B]
    BY <1>1
  <2>2. B \in OpRecords
    BY BlankType
  <2>3. \A o \in StaticOps : Owned(o) \in OpRecords /\ Owned(o).st = "IDLE"
    BY <1>2
  <2>4. StaticOps \subseteq Ops /\ PoolOps \subseteq Ops /\ PoolOps \cap StaticOps = {}
    BY Apart DEF Ops
  <2> HIDE DEF Owned, B
  <2>5. bus.ops \in [Ops -> OpRecords]
    BY <2>1, <2>2, <2>3
  <2>6. \A o \in StaticOps : bus.ops[o] = Owned(o)
    BY <2>1, <2>4
  <2>7. \A o \in PoolOps : bus.ops[o] = B
    BY <2>1, <2>4
  <2> QED BY <2>3, <2>5, <2>6, <2>7 DEF B
<1>4. /\ bus.populated = FALSE /\ bus.free = <<>> /\ bus.heap = {} /\ bus.work = <<>>
      /\ bus.cur = Null /\ bus.cbq = <<>> /\ bus.pinging = FALSE /\ bus.online = FALSE
  BY <1>1
<1>5. bus \in BusRecords
  BY <1>1, <1>3 DEF BusRecords
<1>6. Stored(bus) = PoolOps \cup HeapOps /\ Queued(bus) = {} /\ Away(bus) = StaticOps
  <2>1. Stored(bus) = PoolOps \cup HeapOps /\ Queued(bus) = {}
    BY <1>4, EmptyList DEF Stored, Queued
  <2> QED BY <2>1, Apart DEF Away
<1>7. Sound(bus)
  BY <1>3, <1>4, <1>5, <1>6, EmptyList DEF Sound
<1>8. CurFits(bus) /\ \A o \in Away(bus) \ {bus.cur} : Clean(bus, o)
  BY <1>3, <1>4, <1>6 DEF CurFits, Clean, OwnFault
<1>9. held = Away(bus) \ {bus.cur} /\ held \subseteq Ops
  BY <1>1, <1>4, <1>6, Apart
<1>10. AtAdapter(bus) = {}
  BY <1>4, EmptyList DEF AtAdapter
<1> QED BY <1>1, <1>7, <1>8, <1>9, <1>10 DEF BusInv, Contract!JobInit

\* The inductive invariant holds.
THEOREM BusInvariant == Spec => []BusInv
<1>1. Init => BusInv
  BY InitHolds
<1>2. BusInv /\ [Next]_vars => BusInv'
  <2> SUFFICES ASSUME BusInv, [Next]_vars PROVE BusInv'
    OBVIOUS
  <2>1. CASE Next
    BY <2>1, NextMoves, SteppedKeeps
  <2>2. CASE UNCHANGED vars
    BY <2>2 DEF BusInv, CurFits, vars
  <2> QED BY <2>1, <2>2
<1> QED BY <1>1, <1>2, PTL DEF Spec

\* Every variable has its type; no ping is for an address beyond the last one of
\* the census that I2CAdapter::io_op_callback() goes on with.
THEOREM BusTypeSafe == Spec => []TypeOK
<1>1. BusInv => TypeOK
  <2> SUFFICES ASSUME BusInv PROVE TypeOK
    OBVIOUS
  <2>1. /\ bus.ops \in [Ops -> OpRecords]
        /\ bus.free \in Seq(PoolOps) /\ bus.heap \subseteq HeapOps
        /\ bus.work \in Seq(Jobs) /\ bus.cur \in Ops \cup {Null} /\ bus.cbq \in Seq(Jobs)
    BY Fields DEF BusInv, Sound
  <2>2. cfg \in Configs /\ held \subseteq Ops /\ called \subseteq Ops
    BY DEF BusInv, Away
  <2> QED BY <2>1, <2>2 DEF TypeOK, OpRecords, Jobs, CallbackObjects
<1> QED BY <1>1, BusInvariant, PTL

\* Every operation is in exactly one place: in the pool, in one of the queues, in
\* the active slot, with a driver, or not allocated.
THEOREM NothingLost == Spec => []Placed
<1>1. BusInv => Placed
  <2> SUFFICES ASSUME BusInv, NEW o \in Ops
               PROVE  Occurs(bus.free, o) + Occurs(OpSeq(bus.work), o)
                        + Occurs(OpSeq(bus.cbq), o)
                        + One(bus.cur = o) + One(o \in held) + One(o \in HeapOps \ bus.heap)
                        + One(o \in PoolOps /\ ~bus.populated) = 1
    BY DEF Placed
  <2>1. /\ bus \in BusRecords /\ Sound(bus) /\ CurFits(bus)
        /\ held = Away(bus) \ {bus.cur}
    BY DEF BusInv, Sound
  <2>2. /\ bus.free \in Seq(PoolOps) /\ Distinct(bus.free)
        /\ bus.work \in Seq(Jobs) /\ Once(bus.work)
        /\ bus.cbq \in Seq(Jobs) /\ Once(bus.cbq)
    BY <2>1, Fields DEF Sound
  <2> DEFINE F == o \in Ran(bus.free)          W == o \in OpsIn(bus.work)
             C == o \in OpsIn(bus.cbq)         A == bus.cur = o
             H == o \in held                   X == o \in HeapOps \ bus.heap
             U == o \in PoolOps /\ ~bus.populated
  <2>3. Occurs(bus.free, o) = One(F)
    BY <2>2, OccursOnce
  <2>4. Occurs(OpSeq(bus.work), o) = One(W) /\ Occurs(OpSeq(bus.cbq), o) = One(C)
    <3>1. /\ OpSeq(bus.work) \in Seq(Ops) /\ Distinct(OpSeq(bus.work))
          /\ Ran(OpSeq(bus.work)) = OpsIn(bus.work)
      BY <2>2, OpSeqOf
    <3>2. /\ OpSeq(bus.cbq) \in Seq(Ops) /\ Distinct(OpSeq(bus.cbq))
          /\ Ran(OpSeq(bus.cbq)) = OpsIn(bus.cbq)
      BY <2>2, OpSeqOf
    <3>3. /\ Occurs(OpSeq(bus.work), o) = One(o \in Ran(OpSeq(bus.work)))
          /\ Occurs(OpSeq(bus.cbq), o) = One(o \in Ran(OpSeq(bus.cbq)))
      BY <3>1, <3>2, OccursOnce
    <3> QED BY <3>1, <3>2, <3>3
  <2>5. F => o \in PoolOps
    BY <2>2, RanType
  <2>6. F \/ X \/ U <=> o \in Stored(bus)
    BY DEF Stored
  <2>7. W \/ C <=> o \in Queued(bus)
    BY DEF Queued
  <2>8. A => o \in Away(bus)
    BY <2>1, Apart DEF CurFits
  <2>9. H <=> o \in Away(bus) /\ ~A
    BY <2>1
  <2>10. o \in Away(bus) <=> o \notin Stored(bus) /\ o \notin Queued(bus)
    BY DEF Away
  <2>11. /\ ~(o \in Stored(bus) /\ o \in Queued(bus)) /\ ~(W /\ C) /\ ~(F /\ U)
         /\ ~(F /\ X) /\ ~(X /\ U)
    <3>1. ~bus.populated => bus.free = <<>>
      BY <2>1 DEF Sound
    <3>2. ~(F /\ U)
      BY <3>1, EmptyList
    <3>3. ~(F /\ X) /\ ~(X /\ U)
      BY <2>5, Apart
    <3>4. ~(o \in Stored(bus) /\ o \in Queued(bus)) /\ ~(W /\ C)
      BY <2>1 DEF Sound
    <3> QED BY <3>2, <3>3, <3>4
  <2> HIDE DEF F, W, C, A, H, X, U
  <2>12. \/ F /\ ~W /\ ~C /\ ~A /\ ~H /\ ~X /\ ~U
         \/ ~F /\ W /\ ~C /\ ~A /\ ~H /\ ~X /\ ~U
         \/ ~F /\ ~W /\ C /\ ~A /\ ~H /\ ~X /\ ~U
         \/ ~F /\ ~W /\ ~C /\ A /\ ~H /\ ~X /\ ~U
         \/ ~F /\ ~W /\ ~C /\ ~A /\ H /\ ~X /\ ~U
         \/ ~F /\ ~W /\ ~C /\ ~A /\ ~H /\ X /\ ~U
         \/ ~F /\ ~W /\ ~C /\ ~A /\ ~H /\ ~X /\ U
    BY <2>6, <2>7, <2>8, <2>9, <2>10, <2>11
  <2>13. One(F) + One(W) + One(C) + One(A) + One(H) + One(X) + One(U) = 1
    BY <2>12 DEF One
  <2> QED BY <2>3, <2>4, <2>13 DEF F, W, C, A, H, X, U
<1> QED BY <1>1, BusInvariant, PTL

\* take() returns wiped operations only, what is in the work queue is QUEUED, what
\* waits for its callback has ended, and what a driver holds can be queued.
THEOREM StatesFit == Spec => []StateFits
<1>1. BusInv => StateFits
  <2> SUFFICES ASSUME BusInv PROVE StateFits
    OBVIOUS
  <2>1. Sound(bus) /\ bus.free \in Seq(PoolOps)
    BY Fields DEF BusInv, Sound
  <2>2. ASSUME NEW i \in 1..Len(bus.free) PROVE bus.ops[bus.free[i]] = Blank(Null)
    <3>1. bus.free[i] \in Stored(bus) \cap PoolOps
      BY <2>1 DEF Stored, Ran
    <3> QED BY <2>1, <3>1 DEF Sound
  <2>3. /\ \A o \in OpsIn(bus.work) : bus.ops[o].st = "QUEUED"
        /\ \A o \in OpsIn(bus.cbq) : Finished(bus.ops[o])
    BY <2>1 DEF Sound
  <2>4. \A o \in held : bus.ops[o].st = "IDLE"
    BY DEF BusInv, Clean
  <2> QED BY <2>2, <2>3, <2>4 DEF StateFits
<1> QED BY <1>1, BusInvariant, PTL

\* No transfer inherits the fault of an earlier one, the operations that drivers
\* own excepted.
THEOREM NoFaultInherited == Spec => []FaultsAreOwn
<1>1. BusInv => FaultsAreOwn
  <2> SUFFICES ASSUME BusInv, NEW o \in AtAdapter(bus) \cup held, bus.ops[o].fault
               PROVE  Finished(bus.ops[o]) \/ o \in StaticOps
    BY DEF FaultsAreOwn
  <2>1. \/ o \in OpsIn(bus.work) \/ o \in OpsIn(bus.cbq)
        \/ o \in held \/ (o = bus.cur /\ bus.cur # Null)
    BY DEF AtAdapter
  <2> QED BY <2>1 DEF BusInv, Sound, CurFits, Clean, OwnFault
<1> QED BY <1>1, BusInvariant, PTL

\* SPIAdapter and I2CAdapter keep the contract with their drivers: an operation
\* leaves the adapter with its callback and in no other way, the purges included.
THEOREM ContractKept == Spec => JobContract
<1>1. Init => Contract!JobInit
  BY InitHolds
<1>2. BusInv /\ [Next]_vars => [Contract!JobStep]_(Contract!vars)
  <2> SUFFICES ASSUME BusInv, [Next]_vars PROVE [Contract!JobStep]_(Contract!vars)
    OBVIOUS
  <2>1. CASE Next
    BY <2>1, NextMoves, SteppedKeeps
  <2>2. CASE UNCHANGED vars
    BY <2>2 DEF vars, Contract!vars, AtAdapter, OpsIn
  <2> QED BY <2>1, <2>2
<1> QED BY <1>1, <1>2, BusInvariant, PTL DEF Spec, JobContract, Contract!JobSpec
=============================================================================
