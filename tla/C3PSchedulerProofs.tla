------------------------- MODULE C3PSchedulerProofs -------------------------
(***************************************************************************)
(* With a polled timing source: the scheduler is type correct, its         *)
(* execution queue never loses a schedule nor holds one twice, and no      *)
(* schedule is queued before its time, for any number of schedules, any    *)
(* capacity, any clock width and all periods up to half of the clock.      *)
(***************************************************************************)
EXTENDS C3PScheduler, RingBufferProofs

SchRec == [enabled : BOOLEAN, recur : Nat \cup {-1}, at : Times \cup {Zero}]

\* Is s halfway through execute(), delay() or addSchedule()?
InHand(s) == main.cur = s /\ main.pc \in {"run", "delay", "add"}

\* advanceScheduler() and the handlers of the main program exclude each other,
\* and the schedule that get() has taken is not in the queue any more.
HandOver ==
  /\ tick # 0 => main.pc = "idle"
  /\ main.pc = "taking" => main.old = queue.count /\ queue.count > 0
  /\ main.pc \in {"taking", "read"} => main.from \in Slots /\ queue.slots[main.from] = main.cur
  /\ main.pc \in {"taking", "read", "run"} => \A i \in 1..Len(Queued) : Queued[i] # main.cur

\* The execution queue
QueueInv == Consistent(active) /\ Idempotent /\ Consistent(Settled)

\* _exec_at agrees with the time that is still to pass, if any is.
OwedOK ==
  /\ \A s \in Schedules : owed[s] <= ClockMod \div 2
  /\ \A s \in Schedules : sch[s].enabled /\ owed[s] > 0 /\ ~InHand(s) => sch[s].at = owed[s]

DelayOK ==
  main.pc = "delay" => /\ sch[main.cur].enabled /\ sch[main.cur].at = 0
                       /\ main.old = owed[main.cur] /\ main.old > 0

RunOK ==
  main.pc = "run" =>
    /\ main.from \in Times
    /\ owed[main.cur] > 0 => /\ owed[main.cur] <= Period[main.cur]
                             /\ main.from = (owed[main.cur] - Period[main.cur]) % ClockMod

\* A queued schedule that was not touched is enabled and due.
EarlyInv ==
  \A i \in 1..Len(Queued) :
    Queued[i] \in touched \/ (sch[Queued[i]].enabled /\ owed[Queued[i]] = 0)

Inv == TypeOK /\ HandOver /\ QueueInv /\ OwedOK /\ DelayOK /\ RunOK /\ EarlyInv

-----------------------------------------------------------------------------
(***************************************************************************)
(* The clock.                                                              *)
(***************************************************************************)

\* What half of the clock is.
LEMMA HalfFacts ==
  /\ ClockMod \in Nat /\ ClockMod \div 2 \in Nat
  /\ ClockMod \div 2 > 1 /\ 2 * (ClockMod \div 2) <= ClockMod /\ ClockMod \div 2 < ClockMod
  /\ \A s \in Schedules : Period[s] \in Nat /\ 0 < Period[s] /\ Period[s] <= ClockMod \div 2
BY SchedulerAssumption

LEMMA LaterType ==
  ASSUME NEW t \in Int, NEW by \in Int
  PROVE  Later(t, by) \in Times
BY SchedulerAssumption DEF Later, Times

\* A tick brings a time that is ahead one nearer.
LEMMA LaterTick ==
  ASSUME NEW t \in Times, t > 0
  PROVE  Later(t, -1) = t - 1
BY SchedulerAssumption DEF Later, Times

\* No wrap below the width of the clock.
LEMMA LaterAdds ==
  ASSUME NEW t \in Nat, NEW by \in Nat, t + by < ClockMod
  PROVE  Later(t, by) = t + by
BY SchedulerAssumption DEF Later

\* NOW of execute(), o microseconds before the end of the period: the time set at
\* the end of execute() is o ahead.
LEMMA FromAndPeriod ==
  ASSUME NEW P \in Nat, P <= ClockMod \div 2, NEW o \in Nat, 0 < o, o <= P,
         NEW f, f = (o - P) % ClockMod
  PROVE  /\ Later(f, P) = o
         /\ o > 1 => Later(f, -1) = ((o - 1) - P) % ClockMod
<1>1. ClockMod \in Nat /\ ClockMod > 4
  BY SchedulerAssumption
<1>2. P < ClockMod
  BY <1>1
<1>3. CASE o = P
  <2>1. f = 0
    BY <1>1, <1>3
  <2>2. Later(f, P) = o
    BY <1>1, <1>2, <1>3, <2>1 DEF Later
  <2>3. Later(f, -1) = ((o - 1) - P) % ClockMod
    BY <1>1, <1>3, <2>1 DEF Later
  <2> QED BY <2>2, <2>3
<1>4. CASE o < P
  <2>1. f = o - P + ClockMod
    BY <1>1, <1>2, <1>4
  <2>2. f + P = o + ClockMod /\ o < ClockMod
    BY <1>1, <1>2, <1>4, <2>1
  <2>3. (o + ClockMod) % ClockMod = o
    BY <1>1, <2>2
  <2>4. Later(f, P) = o
    BY <2>2, <2>3 DEF Later
  <2>5. f + (-1) = ((o - 1) - P) + ClockMod
    BY <1>1, <2>1
  <2>6. o > 1 => 0 <= ((o - 1) - P) + ClockMod /\ ((o - 1) - P) + ClockMod < ClockMod
    BY <1>1, <1>2, <1>4
  <2>7. o > 1 => (((o - 1) - P) + ClockMod) % ClockMod = ((o - 1) - P) % ClockMod
    BY <1>1, <1>2, <1>4, <2>6
  <2> QED BY <2>4, <2>5, <2>7 DEF Later
<1> QED BY <1>3, <1>4

\* A time that is ahead, by half of the clock at most, is not due.
LEMMA AheadIsNotDue ==
  ASSUME NEW s \in Schedules, NEW t \in Nat, sch[s].at = t, 0 < t, t <= ClockMod \div 2
  PROVE  ~Due(s)
<1>1. ClockMod \in Nat /\ ClockMod > 4
  BY SchedulerAssumption
<1>2. (0 - t) % ClockMod = ClockMod - t
  BY <1>1
<1>3. ~(ClockMod - t < ClockMod \div 2 - 1)
  BY <1>1
<1> QED BY <1>2, <1>3 DEF Due

-----------------------------------------------------------------------------
(***************************************************************************)
(* Steps that leave the rings alone.                                       *)
(***************************************************************************)
SameStage == (main'.pc = "taking") <=> (main.pc = "taking")

LEMMA RingsKept ==
  ASSUME Inv, active' = active, queue' = queue, SameStage
  PROVE  RingsOK' /\ QueueInv' /\ Queued' = Queued /\ Settled' = Settled
<1>1. Settled' = Settled
  BY DEF Settled, SameStage
<1>2. Queued' = Queued
  BY <1>1 DEF Queued, Contents
<1>3. Contents(active)' = Contents(active)
  BY DEF Contents
<1>4. RingsOK'
  BY <1>1, <1>2, <1>3 DEF Inv, TypeOK, RingsOK, Rings, Ring
<1>5. Idempotent'
  BY <1>2 DEF Inv, QueueInv, Idempotent
<1>6. Consistent(active)' /\ Consistent(Settled)'
  BY <1>1 DEF Inv, QueueInv, Consistent
<1> QED BY <1>1, <1>2, <1>4, <1>5, <1>6 DEF QueueInv

\* Which positions of the queue there are.
LEMMA QueuedType ==
  ASSUME Inv
  PROVE  /\ Queued \in Seq(Schedules) /\ Len(Queued) \in Nat
         /\ \A i \in 1..Len(Queued) : Queued[i] \in Schedules
<1>1. Queued \in Seq(Schedules)
  BY DEF Inv, TypeOK, RingsOK
<1> QED BY <1>1

\* What contains() sees when get() is not halfway through.
LEMMA SeesQueued ==
  ASSUME Inv, main.pc # "taking", NEW s
  PROVE  Contains(queue, s) <=> \E i \in 1..Len(Queued) : Queued[i] = s
<1>1. Settled = queue /\ Queued = Contents(queue)
  BY DEF Settled, Queued
<1>2. queue \in Ring(Schedules \cup {Nothing})
  BY DEF Inv, TypeOK, RingsOK, Rings
<1>3. Len(Queued) = queue.count
  BY <1>1, <1>2, ContentsType
<1> QED BY <1>1, <1>2, <1>3, ContainsContents

\* The application changes a schedule.
LEMMA ChangeStep ==
  ASSUME Inv, NEW s \in Schedules, NEW c \in SchRec, c.enabled => c.at \in Times,
         NEW t \in Nat, Change(s, c, t), SameStage, main.pc # "taking"
  PROVE  SchedulesOK' /\ RingsOK' /\ QueueInv' /\ EarlyInv' /\ Queued' = Queued
<1>1. /\ sch' = [sch EXCEPT ![s] = c] /\ owed' = [owed EXCEPT ![s] = t]
      /\ touched' = IF Contains(queue, s) THEN touched \cup {s} ELSE touched
      /\ gap' = gap /\ active' = active /\ queue' = queue /\ isr' = isr /\ tick' = tick
  BY DEF Change
<1>2. sch \in [Schedules -> SchRec] /\ owed \in [Schedules -> Nat] /\ touched \subseteq Schedules
  BY DEF Inv, TypeOK, SchedulesOK, SchRec
<1>3. SchedulesOK'
  <2>1. sch' \in [Schedules -> SchRec] /\ owed' \in [Schedules -> Nat] /\ touched' \subseteq Schedules
    BY <1>1, <1>2
  <2>2. ASSUME NEW r \in Schedules, sch'[r].enabled PROVE sch'[r].at \in Times
    <3>1. CASE r = s
      BY <1>1, <1>2, <2>2, <3>1
    <3>2. CASE r # s
      BY <1>1, <1>2, <2>2, <3>2 DEF Inv, TypeOK, SchedulesOK
    <3> QED BY <3>1, <3>2
  <2>3. /\ gap' \in 0..MaxGap /\ isr' \in 0..(IsrMod - 1) /\ tick' \in 0..(Capacity + 1)
    BY <1>1 DEF Inv, TypeOK, SchedulesOK
  <2>4. \A r \in Schedules : sch'[r].enabled => sch'[r].at \in Times
    BY <2>2
  <2>5. Times' = Times /\ Zero' = Zero
    BY DEF Times, Zero
  <2> QED BY <2>1, <2>3, <2>4, <2>5 DEF SchedulesOK, SchRec
<1>4. RingsOK' /\ QueueInv' /\ Queued' = Queued
  BY <1>1, RingsKept
<1>5. EarlyInv'
  <2> SUFFICES ASSUME NEW i \in 1..Len(Queued)
               PROVE  Queued[i] \in touched' \/ (sch'[Queued[i]].enabled /\ owed'[Queued[i]] = 0)
    BY <1>4 DEF EarlyInv
  <2>1. Queued[i] \in Schedules
    BY QueuedType
  <2>2. Queued[i] \in touched \/ (sch[Queued[i]].enabled /\ owed[Queued[i]] = 0)
    BY DEF Inv, EarlyInv
  <2>3. CASE Queued[i] = s
    <3>1. Contains(queue, s)
      BY <2>3, SeesQueued
    <3> QED BY <1>1, <2>3, <3>1
  <2>4. CASE Queued[i] # s
    <3>1. sch'[Queued[i]] = sch[Queued[i]] /\ owed'[Queued[i]] = owed[Queued[i]]
      BY <1>1, <1>2, <2>1, <2>4
    <3>2. Queued[i] \in touched => Queued[i] \in touched'
      BY <1>1
    <3> QED BY <2>2, <3>1, <3>2
  <2> QED BY <2>3, <2>4
<1> QED BY <1>3, <1>4, <1>5

-----------------------------------------------------------------------------
(***************************************************************************)
(* The clock and the timing source.                                        *)
(***************************************************************************)

\* The facts about the types that the steps use.
LEMMA Types ==
  ASSUME Inv
  PROVE  /\ sch \in [Schedules -> SchRec] /\ owed \in [Schedules -> Nat] /\ touched \subseteq Schedules
         /\ main.pc \in {"idle", "add", "delay", "loop", "taking", "read", "run"}
         /\ main.cur \in Schedules \cup {Nothing} /\ main.old \in Nat /\ main.from \in Nat
         /\ main.pc \notin {"idle", "loop"} => main.cur \in Schedules
         /\ gap \in 0..MaxGap /\ isr \in 0..(IsrMod - 1) /\ tick \in 0..(Capacity + 1)
         /\ queue \in Ring(Schedules \cup {Nothing}) /\ active \in Ring(Schedules \cup {Nothing})
         /\ main = [pc |-> main.pc, cur |-> main.cur, old |-> main.old, from |-> main.from]
<1>1. main \in [pc   : {"idle", "add", "delay", "loop", "taking", "read", "run"},
                cur  : Schedules \cup {Nothing}, old : Nat, from : Nat]
  BY DEF Inv, TypeOK, MainOK
<1>2. /\ main.pc \in {"idle", "add", "delay", "loop", "taking", "read", "run"}
      /\ main.cur \in Schedules \cup {Nothing} /\ main.old \in Nat /\ main.from \in Nat
      /\ main = [pc |-> main.pc, cur |-> main.cur, old |-> main.old, from |-> main.from]
  BY <1>1
<1> QED BY <1>2 DEF Inv, TypeOK, SchedulesOK, MainOK, RingsOK, Rings, SchRec

\* The main program is in a given state.
LEMMA MainIs ==
  ASSUME NEW p \in {"idle", "add", "delay", "loop", "taking", "read", "run"},
         NEW c \in Schedules \cup {Nothing}, NEW o \in Nat, NEW f \in Nat,
         main' = [pc |-> p, cur |-> c, old |-> o, from |-> f],
         p \notin {"idle", "loop"} => c \in Schedules
  PROVE  MainOK' /\ main'.pc = p /\ main'.cur = c /\ main'.old = o /\ main'.from = f
BY DEF MainOK

LEMMA TickStep ==
  ASSUME Inv, Tick
  PROVE  Inv'
<1>1. /\ tick = 0 /\ main.pc \in {"idle", "run"} /\ gap < MaxGap /\ gap' = gap + 1
      /\ sch' = [s \in Schedules |-> IF sch[s].at = Zero THEN sch[s]
                                     ELSE [sch[s] EXCEPT !.at = Later(@, -1)]]
      /\ main' = IF main.pc = "run" THEN [main EXCEPT !.from = Later(@, -1)] ELSE main
      /\ owed' = [s \in Schedules |-> IF owed[s] > 0 THEN owed[s] - 1 ELSE 0]
      /\ active' = active /\ queue' = queue /\ isr' = isr /\ tick' = tick /\ touched' = touched
  BY DEF Tick, AppRuns
<1>2. Later(main.from, -1) \in Times /\ Later(main.from, -1) \in Nat
  BY Types, LaterType, SchedulerAssumption DEF Times
<1>3. /\ MainOK' /\ main'.pc = main.pc /\ main'.cur = main.cur /\ main'.old = main.old
      /\ main'.from = IF main.pc = "run" THEN Later(main.from, -1) ELSE main.from
  <2>1. main' = [pc |-> main.pc, cur |-> main.cur, old |-> main.old,
                 from |-> IF main.pc = "run" THEN Later(main.from, -1) ELSE main.from]
    BY <1>1, Types
  <2> QED BY <1>2, <2>1, Types, MainIs
<1>4. RingsOK' /\ QueueInv' /\ Queued' = Queued
  BY <1>1, <1>3, RingsKept DEF SameStage
<1>5. ASSUME NEW s \in Schedules
      PROVE  /\ sch'[s] \in SchRec /\ sch'[s].enabled = sch[s].enabled
             /\ sch'[s].at = IF sch[s].at = Zero THEN Zero ELSE Later(sch[s].at, -1)
             /\ sch'[s].at # Zero => sch'[s].at \in Times
             /\ sch[s].at = Zero <=> sch'[s].at = Zero
             /\ owed'[s] = (IF owed[s] > 0 THEN owed[s] - 1 ELSE 0) /\ owed'[s] \in Nat
  <2>1. sch[s] \in SchRec /\ owed[s] \in Nat
    BY Types
  <2>2. sch[s].at \in Int
    BY <2>1, SchedulerAssumption DEF SchRec, Times, Zero
  <2>3. Later(sch[s].at, -1) \in Times /\ Zero \notin Times
    <3>1. Later(sch[s].at, -1) \in Times
      BY <2>2, LaterType
    <3>2. Zero \notin Times
      BY SchedulerAssumption DEF Times, Zero
    <3> QED BY <3>1, <3>2
  <2>4. sch'[s] = IF sch[s].at = Zero THEN sch[s] ELSE [sch[s] EXCEPT !.at = Later(@, -1)]
    BY <1>1
  <2>5. owed'[s] = IF owed[s] > 0 THEN owed[s] - 1 ELSE 0
    BY <1>1
  <2>6. owed'[s] \in Nat
    BY <2>1, <2>5
  <2>7. CASE sch[s].at = Zero
    BY <2>1, <2>4, <2>5, <2>6, <2>7
  <2>8. CASE sch[s].at # Zero
    <3>1. sch'[s] = [sch[s] EXCEPT !.at = Later(@, -1)]
      BY <2>4, <2>8
    <3>2. sch'[s] \in SchRec /\ sch'[s].enabled = sch[s].enabled /\ sch'[s].at = Later(sch[s].at, -1)
      BY <2>1, <2>3, <3>1 DEF SchRec
    <3> QED BY <2>3, <2>5, <2>6, <2>8, <3>2
  <2> QED BY <2>7, <2>8
<1>6. SchedulesOK'
  <2>1. sch' \in [Schedules -> SchRec]
    BY <1>1, <1>5
  <2>2. owed' \in [Schedules -> Nat]
    BY <1>1, <1>5
  <2>3. ASSUME NEW s \in Schedules, sch'[s].enabled PROVE sch'[s].at \in Times
    <3>1. sch[s].enabled /\ sch[s].at \in Times
      BY <1>5, <2>3 DEF Inv, TypeOK, SchedulesOK
    <3>2. sch[s].at # Zero
      BY <3>1, SchedulerAssumption DEF Times, Zero
    <3> QED BY <1>5, <3>2
  <2>4. gap' \in 0..MaxGap
    BY <1>1, Types, SchedulerAssumption
  <2>5. isr' \in 0..(IsrMod - 1) /\ tick' \in 0..(Capacity + 1) /\ touched' \subseteq Schedules
    BY <1>1, Types
  <2>6. \A s \in Schedules : sch'[s].enabled => sch'[s].at \in Times
    BY <2>3
  <2> QED BY <2>1, <2>2, <2>4, <2>5, <2>6 DEF SchedulesOK, SchRec
<1>7. HandOver'
  BY <1>1, <1>3, <1>4 DEF Inv, HandOver
<1>8. OwedOK'
  <2>1. ASSUME NEW s \in Schedules PROVE owed'[s] <= ClockMod \div 2
    BY <1>5, Types, HalfFacts DEF Inv, OwedOK
  <2>2. ASSUME NEW s \in Schedules, sch'[s].enabled, owed'[s] > 0, ~InHand(s)'
        PROVE  sch'[s].at = owed'[s]
    <3>1. owed[s] \in Nat
      BY Types
    <3>2. sch[s].enabled /\ owed[s] > 1 /\ ~InHand(s) /\ owed'[s] = owed[s] - 1
      BY <1>3, <1>5, <2>2, <3>1 DEF InHand
    <3>3. sch[s].at = owed[s] /\ owed[s] <= ClockMod \div 2
      BY <3>1, <3>2 DEF Inv, OwedOK
    <3>4. sch[s].at \in Times /\ sch[s].at > 0 /\ sch[s].at # Zero
      BY <3>1, <3>2, <3>3, HalfFacts DEF Times, Zero
    <3>5. sch'[s].at = sch[s].at - 1
      BY <1>5, <3>4, LaterTick
    <3> QED BY <3>2, <3>3, <3>5
  <2> QED BY <2>1, <2>2 DEF OwedOK
<1>9. DelayOK'
  BY <1>1, <1>3 DEF DelayOK
<1>10. RunOK'
  <2> SUFFICES ASSUME main.pc = "run"
               PROVE  /\ main'.from \in Times
                      /\ owed'[main.cur] > 0 =>
                           /\ owed'[main.cur] <= Period[main.cur]
                           /\ main'.from = (owed'[main.cur] - Period[main.cur]) % ClockMod
    BY <1>3 DEF RunOK
  <2>1. main'.from = Later(main.from, -1) /\ main'.from \in Times
    BY <1>2, <1>3
  <2>2. main.cur \in Schedules
    BY Types
  <2>3. owed[main.cur] \in Nat /\ owed'[main.cur] = IF owed[main.cur] > 0 THEN owed[main.cur] - 1 ELSE 0
    BY <1>5, <2>2, Types
  <2>4. ASSUME owed'[main.cur] > 0
        PROVE  /\ owed'[main.cur] <= Period[main.cur]
               /\ main'.from = (owed'[main.cur] - Period[main.cur]) % ClockMod
    <3> DEFINE o == owed[main.cur]
               P == Period[main.cur]
    <3>1. o \in Nat /\ o > 1 /\ o > 0 /\ owed'[main.cur] = o - 1
      BY <2>3, <2>4
    <3>2. o <= P /\ main.from = (o - P) % ClockMod
      BY <3>1 DEF Inv, RunOK
    <3>3. P \in Nat /\ P <= ClockMod \div 2
      BY <2>2, HalfFacts
    <3> HIDE DEF o, P
    <3>4. Later(main.from, -1) = ((o - 1) - P) % ClockMod
      BY <3>1, <3>2, <3>3, FromAndPeriod
    <3>5. o - 1 <= P
      BY <3>1, <3>2, <3>3
    <3> QED BY <2>1, <3>1, <3>4, <3>5 DEF P
  <2> QED BY <2>1, <2>4
<1>11. EarlyInv'
  <2> SUFFICES ASSUME NEW i \in 1..Len(Queued)
               PROVE  Queued[i] \in touched' \/ (sch'[Queued[i]].enabled /\ owed'[Queued[i]] = 0)
    BY <1>4 DEF EarlyInv
  <2>1. Queued[i] \in Schedules
    BY QueuedType
  <2>2. Queued[i] \in touched \/ (sch[Queued[i]].enabled /\ owed[Queued[i]] = 0)
    BY DEF Inv, EarlyInv
  <2> QED BY <1>1, <1>5, <2>1, <2>2
<1> QED BY <1>3, <1>4, <1>6, <1>7, <1>8, <1>9, <1>10, <1>11 DEF Inv, TypeOK

\* A step that changes neither schedules nor what the main program is at keeps
\* what depends on these alone.
LEMMA SchedulesKept ==
  ASSUME Inv, sch' = sch, owed' = owed, main' = main
  PROVE  MainOK' /\ OwedOK' /\ DelayOK' /\ RunOK'
BY DEF Inv, TypeOK, MainOK, OwedOK, InHand, DelayOK, RunOK

LEMMA AdvanceBeginsStep ==
  ASSUME Polled, Inv, AdvanceBegins
  PROVE  Inv'
<1>1. /\ main.pc = "idle" /\ tick' = 1 /\ gap' = 0
      /\ sch' = sch /\ active' = active /\ queue' = queue /\ isr' = isr /\ main' = main
      /\ owed' = owed /\ touched' = touched
  BY DEF AdvanceBegins
<1>2. RingsOK' /\ QueueInv' /\ Queued' = Queued
  BY <1>1, RingsKept DEF SameStage
<1>3. MainOK' /\ OwedOK' /\ DelayOK' /\ RunOK'
  BY <1>1, SchedulesKept
<1>4. SchedulesOK'
  <2>1. tick' \in 0..(Capacity + 1) /\ gap' \in 0..MaxGap
    BY <1>1, CapacityAssumption, SchedulerAssumption
  <2> QED BY <1>1, <2>1 DEF Inv, TypeOK, SchedulesOK
<1>5. HandOver'
  BY <1>1 DEF HandOver
<1>6. EarlyInv'
  BY <1>1, <1>2 DEF Inv, EarlyInv
<1> QED BY <1>2, <1>3, <1>4, <1>5, <1>6 DEF Inv, TypeOK

LEMMA AdvanceEndsStep ==
  ASSUME Inv, AdvanceEnds
  PROVE  Inv'
<1>1. /\ tick' = 0 /\ isr' = (isr + 1) % IsrMod
      /\ sch' = sch /\ active' = active /\ queue' = queue /\ gap' = gap /\ main' = main
      /\ owed' = owed /\ touched' = touched
  BY DEF AdvanceEnds
<1>2. RingsOK' /\ QueueInv' /\ Queued' = Queued
  BY <1>1, RingsKept DEF SameStage
<1>3. MainOK' /\ OwedOK' /\ DelayOK' /\ RunOK'
  BY <1>1, SchedulesKept
<1>4. SchedulesOK'
  <2>1. tick' \in 0..(Capacity + 1)
    BY <1>1, CapacityAssumption
  <2>2. isr' \in 0..(IsrMod - 1)
    BY <1>1, Types, SchedulerAssumption
  <2> QED BY <1>1, <2>1, <2>2 DEF Inv, TypeOK, SchedulesOK
<1>5. HandOver'
  BY <1>1, <1>2 DEF Inv, HandOver
<1>6. EarlyInv'
  BY <1>1, <1>2 DEF Inv, EarlyInv
<1> QED BY <1>2, <1>3, <1>4, <1>5, <1>6 DEF Inv, TypeOK

\* insertIfAbsent() into the execution queue, of a schedule that is due
LEMMA AdvanceLooksStep ==
  ASSUME Inv, AdvanceLooks
  PROVE  Inv'
<1> DEFINE s == Peek(active, tick - 1)
           S == Schedules \cup {Nothing}
<1>1. /\ tick \in 1..active.count /\ tick' = tick + 1
      /\ queue' = IF s # Nothing /\ sch[s].enabled /\ Due(s) THEN InsertIfAbsent(queue, s) ELSE queue
      /\ sch' = sch /\ active' = active /\ gap' = gap /\ isr' = isr /\ main' = main
      /\ owed' = owed /\ touched' = touched
  BY DEF AdvanceLooks
<1>2. /\ active \in Ring(S) /\ queue \in Ring(S) /\ Consistent(queue) /\ main.pc = "idle"
      /\ Settled = queue /\ Settled' = queue' /\ Queued = Contents(queue) /\ Queued' = Contents(queue')
  <2>1. tick # 0
    BY <1>1, Types
  <2>2. main.pc = "idle" /\ main'.pc = "idle"
    BY <1>1, <2>1 DEF Inv, HandOver
  <2>3. Settled = queue /\ Settled' = queue'
    BY <2>2 DEF Settled
  <2>4. Queued = Contents(queue) /\ Queued' = Contents(queue')
    BY <2>3 DEF Queued, Contents
  <2> QED BY <2>2, <2>3, <2>4, Types DEF Inv, QueueInv
<1>3. MainOK' /\ OwedOK' /\ DelayOK' /\ RunOK'
  BY <1>1, SchedulesKept
<1>4. SchedulesOK'
  <2>1. tick' \in 0..(Capacity + 1)
    BY <1>1, <1>2, CapacityAssumption DEF Ring
  <2> QED BY <1>1, <2>1 DEF Inv, TypeOK, SchedulesOK
<1>5. HandOver'
  BY <1>1, <1>2 DEF HandOver
<1>6. Contents(active)' = Contents(active) /\ Consistent(active)'
  BY <1>1 DEF Contents, Inv, QueueInv, Consistent
<1>7. CASE queue' = queue
  <2>1. RingsOK' /\ QueueInv' /\ Queued' = Queued
    BY <1>1, <1>7, RingsKept DEF SameStage
  <2>2. EarlyInv'
    BY <1>1, <2>1 DEF Inv, EarlyInv
  <2> QED BY <1>3, <1>4, <1>5, <2>1, <2>2 DEF Inv, TypeOK
<1>8. CASE queue' # queue
  <2>1. s # Nothing /\ sch[s].enabled /\ Due(s) /\ ~Contains(queue, s) /\ queue' = Insert(queue, s)
    BY <1>1, <1>8 DEF InsertIfAbsent
  <2>2. s \in Schedules
    <3>1. active.slots \in [Slots -> S] /\ active.r \in Slots /\ active.count \in 0..Capacity
      BY <1>2 DEF Ring
    <3>2. tick - 1 \in 0..Capacity
      BY <1>1, <3>1, CapacityAssumption
    <3>3. s = Nothing \/ s = active.slots[Ahead(active.r, tick - 1)]
      BY DEF Peek
    <3>4. Ahead(active.r, tick - 1) \in Slots
      BY <3>1, <3>2, AheadType
    <3> QED BY <2>1, <3>1, <3>3, <3>4
  <2>3. queue.count < Capacity
    <3>1. queue.count \in 0..Capacity
      BY <1>2 DEF Ring
    <3>2. ~(queue.count >= Capacity)
      BY <1>8, <2>1 DEF Insert
    <3> QED BY <3>1, <3>2, CapacityAssumption
  <2> HIDE DEF s
  <2>4. queue' \in Ring(S) /\ Consistent(queue') /\ Contents(queue') = Append(Contents(queue), s)
    BY <1>2, <2>1, <2>2, <2>3, InsertContents
  <2>5. /\ Queued' = Append(Queued, s) /\ Queued \in Seq(Schedules) /\ Len(Queued) \in Nat
    BY <1>2, <2>4, QueuedType
  <2>6. /\ Queued' \in Seq(Schedules) /\ Len(Queued') = Len(Queued) + 1
        /\ \A i \in 1..Len(Queued) : Queued'[i] = Queued[i]
        /\ Queued'[Len(Queued) + 1] = s
    BY <2>2, <2>5
  <2>7. \A i \in 1..Len(Queued) : Queued[i] # s
    BY <1>2, <2>1, SeesQueued
  <2>8. RingsOK'
    <3>1. active' \in Rings' /\ queue' \in Rings' /\ Settled' \in Rings'
      BY <1>1, <1>2, <2>4 DEF Rings, Ring, Slots
    <3>2. Contents(active)' \in Seq(Schedules)
      BY <1>6 DEF Inv, TypeOK, RingsOK
    <3> QED BY <2>6, <3>1, <3>2 DEF RingsOK
  <2>9. Idempotent'
    <3> SUFFICES ASSUME NEW i \in 1..Len(Queued'), NEW j \in 1..Len(Queued'), Queued'[i] = Queued'[j]
                 PROVE  i = j
      BY DEF Idempotent
    <3>1. /\ i \in 1..Len(Queued) \/ i = Len(Queued) + 1
          /\ j \in 1..Len(Queued) \/ j = Len(Queued) + 1
      BY <2>5, <2>6
    <3>2. \A a, b \in 1..Len(Queued) : Queued[a] = Queued[b] => a = b
      BY DEF Inv, QueueInv, Idempotent
    <3>3. CASE i \in 1..Len(Queued) /\ j \in 1..Len(Queued)
      BY <2>6, <3>2, <3>3
    <3>4. CASE i = Len(Queued) + 1 /\ j \in 1..Len(Queued)
      BY <2>6, <2>7, <3>4
    <3>5. CASE i \in 1..Len(Queued) /\ j = Len(Queued) + 1
      BY <2>6, <2>7, <3>5
    <3> QED BY <3>1, <3>3, <3>4, <3>5
  <2>10. QueueInv'
    BY <1>2, <1>6, <2>4, <2>9 DEF QueueInv, Consistent, Ahead
  <2>11. owed[s] = 0
    <3>1. owed[s] \in Nat
      BY <2>2, Types
    <3>2. ~InHand(s)
      BY <1>2 DEF InHand
    <3>3. owed[s] > 0 => sch[s].at = owed[s] /\ owed[s] <= ClockMod \div 2
      BY <2>1, <2>2, <3>2 DEF Inv, OwedOK
    <3>4. owed[s] > 0 => ~Due(s)
      BY <2>2, <3>1, <3>3, AheadIsNotDue
    <3> QED BY <2>1, <3>1, <3>4
  <2>12. EarlyInv'
    <3> SUFFICES ASSUME NEW i \in 1..Len(Queued')
                 PROVE  Queued'[i] \in touched' \/ (sch'[Queued'[i]].enabled /\ owed'[Queued'[i]] = 0)
      BY DEF EarlyInv
    <3>1. i \in 1..Len(Queued) \/ i = Len(Queued) + 1
      BY <2>5, <2>6
    <3>2. CASE i \in 1..Len(Queued)
      BY <1>1, <2>6, <3>2 DEF Inv, EarlyInv
    <3>3. CASE i = Len(Queued) + 1
      BY <1>1, <2>1, <2>6, <2>11, <3>3
    <3> QED BY <3>1, <3>2, <3>3
  <2> QED BY <1>3, <1>4, <1>5, <2>8, <2>10, <2>12 DEF Inv, TypeOK
<1> QED BY <1>7, <1>8

-----------------------------------------------------------------------------
(***************************************************************************)
(* The application.                                                        *)
(***************************************************************************)

\* HandOver when the main program stays in its idle time or in a schedule.
LEMMA HandOverKept ==
  ASSUME Inv, main' = main, tick' = tick, queue' = queue, Queued' = Queued
  PROVE  HandOver'
BY DEF Inv, HandOver

\* Schedule s may run in t microseconds, and its _exec_at says so.
LEMMA OwedChange ==
  ASSUME Inv, NEW s \in Schedules, NEW c \in SchRec, NEW t \in Nat, Change(s, c, t),
         t <= ClockMod \div 2, t > 0 /\ c.enabled /\ ~InHand(s)' => c.at = t,
         \A r \in Schedules : r # s /\ InHand(r) => InHand(r)'
  PROVE  OwedOK'
<1>1. sch' = [sch EXCEPT ![s] = c] /\ owed' = [owed EXCEPT ![s] = t]
  BY DEF Change
<1>2. sch' [s] = c /\ owed'[s] = t
  BY <1>1, Types
<1>3. ASSUME NEW r \in Schedules, r # s PROVE sch'[r] = sch[r] /\ owed'[r] = owed[r]
  BY <1>1, <1>3, Types
<1>4. ASSUME NEW r \in Schedules PROVE owed'[r] <= ClockMod \div 2
  BY <1>2, <1>3 DEF Inv, OwedOK
<1>5. ASSUME NEW r \in Schedules, sch'[r].enabled, owed'[r] > 0, ~InHand(r)'
      PROVE  sch'[r].at = owed'[r]
  <2>1. CASE r = s
    BY <1>2, <1>5, <2>1
  <2>2. CASE r # s
    <3>1. sch'[r] = sch[r] /\ owed'[r] = owed[r] /\ ~InHand(r)
      BY <1>3, <1>5, <2>2
    <3> QED BY <1>5, <3>1 DEF Inv, OwedOK
  <2> QED BY <2>1, <2>2
<1> QED BY <1>4, <1>5 DEF OwedOK

\* RunOK when a schedule other than the executing one changes, or when nothing
\* is owed to the executing one any more.
LEMMA RunChange ==
  ASSUME Inv, NEW s \in Schedules, NEW c, NEW t \in Nat, Change(s, c, t), main' = main,
         Executing(s) => t = 0
  PROVE  RunOK'
<1>1. owed' = [owed EXCEPT ![s] = t]
  BY DEF Change
<1>2. CASE main.pc = "run" /\ main.cur = s
  <2>1. owed'[main.cur] = 0
    BY <1>1, <1>2, Types DEF Executing
  <2>2. ~(owed'[main.cur] > 0)
    BY <2>1
  <2> QED BY <1>2, <2>2 DEF Inv, RunOK
<1>3. CASE main.pc = "run" /\ main.cur # s
  <2>1. owed'[main.cur] = owed[main.cur]
    BY <1>1, <1>3, Types
  <2> QED BY <2>1 DEF Inv, RunOK
<1>4. CASE main.pc # "run"
  BY <1>4 DEF RunOK
<1> QED BY <1>2, <1>3, <1>4

LEMMA SetEnabledStep ==
  ASSUME Inv, NEW s \in Schedules, NEW x \in BOOLEAN, SetEnabled(s, x)
  PROVE  Inv'
<1>1. PICK t \in (IF x /\ sch[s].at = Zero THEN Times ELSE {sch[s].at}) :
        Change(s, [sch[s] EXCEPT !.enabled = x, !.at = t], 0)
  BY DEF SetEnabled
<1> DEFINE c == [sch[s] EXCEPT !.enabled = x, !.at = t]
<1>2. tick = 0 /\ main.pc \in {"idle", "run"} /\ main' = main /\ sch[s].enabled # x
  BY DEF SetEnabled, AppRuns
<1>3. sch[s] \in SchRec
  BY Types
<1>4. t \in Times \cup {Zero} /\ (x => t \in Times)
  <2>1. sch[s].at \in Times \cup {Zero}
    BY <1>3 DEF SchRec
  <2>2. CASE x /\ sch[s].at = Zero
    BY <1>1, <2>2
  <2>3. CASE ~(x /\ sch[s].at = Zero)
    BY <1>1, <2>1, <2>3
  <2> QED BY <2>2, <2>3
<1>5. c \in SchRec /\ c.enabled = x /\ c.at = t
  BY <1>3, <1>4 DEF SchRec
<1>6. Change(s, c, 0)
  BY <1>1
<1> HIDE DEF c
<1>7. SchedulesOK' /\ RingsOK' /\ QueueInv' /\ EarlyInv' /\ Queued' = Queued
  BY <1>2, <1>4, <1>5, <1>6, ChangeStep DEF SameStage
<1>8. tick' = tick /\ queue' = queue
  BY <1>6 DEF Change
<1>9. HandOver' /\ MainOK'
  BY <1>2, <1>7, <1>8, HandOverKept DEF Inv, TypeOK, MainOK
<1>10. OwedOK'
  <2>1. \A r \in Schedules : InHand(r)' <=> InHand(r)
    BY <1>2 DEF InHand
  <2>2. 0 <= ClockMod \div 2 /\ 0 \in Nat /\ ~(0 > 0)
    BY HalfFacts
  <2> QED BY <1>5, <1>6, <2>1, <2>2, OwedChange
<1>11. RunOK'
  BY <1>2, <1>6, RunChange
<1>12. DelayOK'
  BY <1>2 DEF DelayOK
<1> QED BY <1>7, <1>9, <1>10, <1>11, <1>12 DEF Inv, TypeOK

LEMMA SetRecurrenceStep ==
  ASSUME Inv, NEW s \in Schedules, NEW n \in {-1, 0, 1}, SetRecurrence(s, n)
  PROVE  Inv'
<1>1. /\ tick = 0 /\ main.pc \in {"idle", "run"} /\ sch' = [sch EXCEPT ![s].recur = n]
      /\ gap' = gap /\ active' = active /\ queue' = queue /\ isr' = isr /\ tick' = tick
      /\ main' = main /\ owed' = owed /\ touched' = touched
  BY DEF SetRecurrence, AppRuns
<1>2. RingsOK' /\ QueueInv' /\ Queued' = Queued
  BY <1>1, RingsKept DEF SameStage
<1>3. ASSUME NEW r \in Schedules
      PROVE  sch'[r] \in SchRec /\ sch'[r].enabled = sch[r].enabled /\ sch'[r].at = sch[r].at
  <2>1. sch[r] \in SchRec /\ n \in Nat \cup {-1}
    BY Types
  <2>2. CASE r = s
    <3>1. sch'[r] = [sch[r] EXCEPT !.recur = n]
      BY <1>1, <2>2, Types
    <3> QED BY <2>1, <3>1 DEF SchRec
  <2>3. CASE r # s
    <3>1. sch'[r] = sch[r]
      BY <1>1, <2>3, Types
    <3> QED BY <2>1, <3>1
  <2> QED BY <2>2, <2>3
<1>4. SchedulesOK'
  <2>1. sch' \in [Schedules -> SchRec]
    <3>1. sch' = [r \in Schedules |-> sch'[r]]
      <4>1. sch = [r \in Schedules |-> sch[r]]
        BY Types
      <4> QED BY <1>1, <4>1
    <3> QED BY <1>3, <3>1
  <2>2. \A r \in Schedules : sch'[r].enabled => sch'[r].at \in Times
    BY <1>3 DEF Inv, TypeOK, SchedulesOK
  <2> QED BY <1>1, <2>1, <2>2 DEF Inv, TypeOK, SchedulesOK, SchRec
<1>5. HandOver' /\ MainOK'
  BY <1>1, <1>2, HandOverKept DEF Inv, TypeOK, MainOK
<1>6. OwedOK'
  BY <1>1, <1>3 DEF Inv, OwedOK, InHand
<1>7. DelayOK' /\ RunOK'
  BY <1>1 DEF Inv, DelayOK, RunOK
<1>8. EarlyInv'
  BY <1>1, <1>2, <1>3, QueuedType DEF Inv, EarlyInv
<1> QED BY <1>2, <1>4, <1>5, <1>6, <1>7, <1>8 DEF Inv, TypeOK

\* delay(), as the application or addSchedule() calls it
LEMMA ResetStep ==
  ASSUME Inv, NEW s \in Schedules, Reset(s), SameStage, main.pc # "taking"
  PROVE  /\ SchedulesOK' /\ RingsOK' /\ QueueInv' /\ EarlyInv' /\ Queued' = Queued
         /\ \E c \in SchRec : Change(s, c, Period[s]) /\ c.at = Period[s]
<1> DEFINE c == [sch[s] EXCEPT !.at = Period[s], !.enabled = TRUE]
<1>1. Period[s] \in Nat /\ Period[s] \in Times
  BY HalfFacts DEF Times
<1>2. sch[s] \in SchRec
  BY Types
<1>3. c \in SchRec /\ c.at = Period[s]
  BY <1>1, <1>2 DEF SchRec
<1>4. Change(s, c, Period[s])
  BY DEF Reset
<1> HIDE DEF c
<1>5. SchedulesOK' /\ RingsOK' /\ QueueInv' /\ EarlyInv' /\ Queued' = Queued
  BY <1>1, <1>3, <1>4, ChangeStep
<1> QED BY <1>3, <1>4, <1>5

LEMMA DelayStep ==
  ASSUME Inv, NEW s \in Schedules, Delay(s)
  PROVE  Inv'
<1>1. tick = 0 /\ main.pc \in {"idle", "run"} /\ main' = main /\ ~Executing(s) /\ Reset(s)
  BY DEF Delay, AppRuns
<1>2. SchedulesOK' /\ RingsOK' /\ QueueInv' /\ EarlyInv' /\ Queued' = Queued
  BY <1>1, ResetStep DEF SameStage
<1>3. PICK c \in SchRec : Change(s, c, Period[s]) /\ c.at = Period[s]
  BY <1>1, ResetStep DEF SameStage
<1>4. tick' = tick /\ queue' = queue
  BY <1>3 DEF Change
<1>5. HandOver' /\ MainOK'
  BY <1>1, <1>2, <1>4, HandOverKept DEF Inv, TypeOK, MainOK
<1>6. OwedOK'
  <2>1. \A r \in Schedules : InHand(r)' <=> InHand(r)
    BY <1>1 DEF InHand
  <2>2. Period[s] \in Nat /\ Period[s] <= ClockMod \div 2
    BY HalfFacts
  <2> QED BY <1>3, <2>1, <2>2, OwedChange
<1>7. RunOK'
  BY <1>1, <1>3, HalfFacts, RunChange
<1>8. DelayOK'
  BY <1>1 DEF DelayOK
<1> QED BY <1>2, <1>5, <1>6, <1>7, <1>8 DEF Inv, TypeOK

LEMMA DelayByStep ==
  ASSUME Inv, NEW s \in Schedules, NEW by \in Delays, DelayBy(s, by)
  PROVE  Inv'
<1>1. tick = 0 /\ main.pc = "idle" /\ owed[s] + by <= ClockMod \div 2
  BY DEF DelayBy
<1>2. by \in Nat /\ by > 0 /\ owed[s] \in Nat /\ sch[s] \in SchRec
  BY SchedulerAssumption, Types
<1>3. CASE sch[s].enabled
  <2> DEFINE c == [sch[s] EXCEPT !.at = Later(@, by)]
             t == IF owed[s] = 0 THEN 0 ELSE owed[s] + by
  <2>1. Change(s, c, t) /\ main' = main
    BY <1>3 DEF DelayBy
  <2>2. sch[s].at \in Times /\ sch[s].at \in Int
    BY <1>3, SchedulerAssumption DEF Inv, TypeOK, SchedulesOK, Times
  <2>3. Later(sch[s].at, by) \in Times
    BY <1>2, <2>2, LaterType
  <2>4. c \in SchRec /\ c.at = Later(sch[s].at, by)
    BY <1>2, <2>3 DEF SchRec
  <2>5. t \in Nat /\ t <= ClockMod \div 2
    BY <1>1, <1>2, HalfFacts
  <2>6. t > 0 => c.at = t
    <3>1. ~InHand(s)
      BY <1>1 DEF InHand
    <3>2. owed[s] > 0 => sch[s].at = owed[s]
      BY <1>3, <3>1 DEF Inv, OwedOK
    <3>3. owed[s] > 0 => Later(sch[s].at, by) = owed[s] + by
      BY <1>1, <1>2, <3>2, HalfFacts, LaterAdds
    <3>4. t > 0 => owed[s] > 0 /\ t = owed[s] + by
      BY <1>2
    <3> QED BY <2>4, <3>3, <3>4
  <2> HIDE DEF c, t
  <2>7. SchedulesOK' /\ RingsOK' /\ QueueInv' /\ EarlyInv' /\ Queued' = Queued
    BY <1>1, <2>1, <2>3, <2>4, <2>5, ChangeStep DEF SameStage
  <2>8. tick' = tick /\ queue' = queue
    BY <2>1 DEF Change
  <2>9. HandOver' /\ MainOK'
    BY <2>1, <2>7, <2>8, HandOverKept DEF Inv, TypeOK, MainOK
  <2>10. \A r \in Schedules : InHand(r)' <=> InHand(r)
    BY <2>1 DEF InHand
  <2>11. OwedOK'
    BY <2>1, <2>4, <2>5, <2>6, <2>10, OwedChange
  <2>12. DelayOK' /\ RunOK'
    BY <1>1, <2>1 DEF DelayOK, RunOK
  <2> QED BY <2>7, <2>9, <2>11, <2>12 DEF Inv, TypeOK
<1>4. CASE ~sch[s].enabled
  <2> DEFINE c == [sch[s] EXCEPT !.at = 0, !.enabled = TRUE]
  <2>1. Change(s, c, by) /\ main' = [pc |-> "delay", cur |-> s, old |-> by, from |-> 0]
    BY <1>4 DEF DelayBy
  <2>2. 0 \in Times
    BY SchedulerAssumption DEF Times
  <2>3. c \in SchRec /\ c.at = 0 /\ c.enabled
    BY <1>2, <2>2 DEF SchRec
  <2> HIDE DEF c
  <2>4. /\ MainOK' /\ main'.pc = "delay" /\ main'.cur = s /\ main'.old = by /\ main'.from = 0
    BY <1>2, <2>1, MainIs
  <2>5. SchedulesOK' /\ RingsOK' /\ QueueInv' /\ EarlyInv' /\ Queued' = Queued
    BY <1>1, <1>2, <2>1, <2>2, <2>3, <2>4, ChangeStep DEF SameStage
  <2>6. tick' = tick
    BY <2>1 DEF Change
  <2>7. HandOver'
    BY <1>1, <2>4, <2>6 DEF HandOver
  <2>8. OwedOK'
    <3>1. InHand(s)'
      BY <2>4 DEF InHand
    <3>2. \A r \in Schedules : ~InHand(r)
      BY <1>1 DEF InHand
    <3>3. by <= ClockMod \div 2
      BY <1>1, <1>2, HalfFacts
    <3> QED BY <1>2, <2>1, <2>3, <3>1, <3>2, <3>3, OwedChange
  <2>9. DelayOK'
    <3>1. sch'[s] = c /\ owed'[s] = by
      BY <2>1, Types DEF Change
    <3> QED BY <1>2, <2>3, <2>4, <3>1 DEF DelayOK
  <2>10. RunOK'
    BY <2>4 DEF RunOK
  <2> QED BY <2>4, <2>5, <2>7, <2>8, <2>9, <2>10 DEF Inv, TypeOK
<1> QED BY <1>3, <1>4

\* Idle again
LEMMA BackToIdle ==
  ASSUME main' = Idle
  PROVE  /\ MainOK' /\ main'.pc = "idle" /\ DelayOK' /\ RunOK' /\ \A r \in Schedules : ~InHand(r)'
<1>1. main' = [pc |-> "idle", cur |-> Nothing, old |-> 0, from |-> 0]
  BY DEF Idle
<1>2. MainOK' /\ main'.pc = "idle"
  BY <1>1, MainIs
<1> QED BY <1>2 DEF DelayOK, RunOK, InHand

LEMMA DelayByEndsStep ==
  ASSUME Inv, DelayByEnds
  PROVE  Inv'
<1> DEFINE s == main.cur
<1>1. /\ tick = 0 /\ main.pc = "delay" /\ main' = Idle
      /\ sch' = [sch EXCEPT ![s].at = Later(@, main.old)]
      /\ gap' = gap /\ active' = active /\ queue' = queue /\ isr' = isr /\ tick' = tick
      /\ owed' = owed /\ touched' = touched
  BY DEF DelayByEnds
<1>2. MainOK' /\ main'.pc = "idle" /\ DelayOK' /\ RunOK' /\ \A r \in Schedules : ~InHand(r)'
  BY <1>1, BackToIdle
<1>3. RingsOK' /\ QueueInv' /\ Queued' = Queued
  BY <1>1, <1>2, RingsKept DEF SameStage
<1>4. /\ s \in Schedules /\ sch[s] \in SchRec /\ sch[s].enabled /\ sch[s].at = 0
      /\ main.old = owed[s] /\ owed[s] \in Nat /\ owed[s] > 0 /\ owed[s] <= ClockMod \div 2
  BY <1>1, Types DEF Inv, DelayOK, OwedOK
<1> HIDE DEF s
<1>5. Later(0, main.old) = owed[s] /\ owed[s] \in Times
  BY <1>4, HalfFacts, LaterAdds DEF Times
<1>6. sch'[s] = [sch[s] EXCEPT !.at = owed[s]]
  BY <1>1, <1>4, <1>5, Types
<1>7. sch'[s] \in SchRec /\ sch'[s].enabled /\ sch'[s].at = owed[s]
  BY <1>4, <1>5, <1>6 DEF SchRec
<1>8. ASSUME NEW r \in Schedules, r # s PROVE sch'[r] = sch[r]
  BY <1>1, <1>4, <1>8, Types
<1>9. SchedulesOK'
  <2>1. sch' \in [Schedules -> SchRec]
    <3>1. sch = [r \in Schedules |-> sch[r]]
      BY Types
    <3>2. sch' = [r \in Schedules |-> sch'[r]]
      BY <1>1, <3>1
    <3>3. \A r \in Schedules : sch'[r] \in SchRec
      BY <1>7, <1>8, Types
    <3> QED BY <3>2, <3>3
  <2>2. \A r \in Schedules : sch'[r].enabled => sch'[r].at \in Times
    BY <1>5, <1>7, <1>8 DEF Inv, TypeOK, SchedulesOK
  <2> QED BY <1>1, <2>1, <2>2 DEF Inv, TypeOK, SchedulesOK, SchRec
<1>10. HandOver'
  BY <1>1, <1>2 DEF HandOver
<1>11. OwedOK'
  <2>1. ASSUME NEW r \in Schedules, sch'[r].enabled, owed'[r] > 0 PROVE sch'[r].at = owed'[r]
    <3>1. CASE r = s
      BY <1>1, <1>7, <3>1
    <3>2. CASE r # s
      <4>1. ~InHand(r)
        BY <3>2 DEF InHand, s
      <4> QED BY <1>1, <1>8, <2>1, <3>2, <4>1 DEF Inv, OwedOK
    <3> QED BY <3>1, <3>2
  <2> QED BY <1>1, <2>1 DEF Inv, OwedOK
<1>12. EarlyInv'
  <2> SUFFICES ASSUME NEW i \in 1..Len(Queued)
               PROVE  Queued[i] \in touched' \/ (sch'[Queued[i]].enabled /\ owed'[Queued[i]] = 0)
    BY <1>3 DEF EarlyInv
  <2>1. Queued[i] \in Schedules
    BY QueuedType
  <2>2. sch[Queued[i]].enabled => sch'[Queued[i]].enabled
    <3>1. CASE Queued[i] = s
      BY <1>7, <3>1
    <3>2. CASE Queued[i] # s
      <4>1. sch'[Queued[i]] = sch[Queued[i]]
        BY <1>8, <2>1, <3>2
      <4> QED BY <4>1
    <3> QED BY <3>1, <3>2
  <2> QED BY <1>1, <2>2 DEF Inv, EarlyInv
<1> QED BY <1>2, <1>3, <1>9, <1>10, <1>11, <1>12 DEF Inv, TypeOK

LEMMA AddScheduleEndsStep ==
  ASSUME Inv, AddScheduleEnds
  PROVE  Inv'
<1> DEFINE s == main.cur
<1>1. tick = 0 /\ main.pc = "add" /\ main' = Idle /\ Reset(s)
  BY DEF AddScheduleEnds
<1>2. s \in Schedules
  BY <1>1, Types
<1>3. MainOK' /\ main'.pc = "idle" /\ DelayOK' /\ RunOK' /\ \A r \in Schedules : ~InHand(r)'
  BY <1>1, BackToIdle
<1>4. SchedulesOK' /\ RingsOK' /\ QueueInv' /\ EarlyInv' /\ Queued' = Queued
  BY <1>1, <1>2, <1>3, ResetStep DEF SameStage
<1>5. PICK c \in SchRec : Change(s, c, Period[s]) /\ c.at = Period[s]
  BY <1>1, <1>2, <1>3, ResetStep DEF SameStage
<1>6. tick' = tick
  BY <1>5 DEF Change
<1>7. HandOver'
  BY <1>1, <1>3, <1>6 DEF HandOver
<1>8. OwedOK'
  <2>1. \A r \in Schedules : r # s => ~InHand(r)
    BY DEF InHand
  <2>2. Period[s] \in Nat /\ Period[s] <= ClockMod \div 2
    BY <1>2, HalfFacts
  <2> QED BY <1>2, <1>5, <2>1, <2>2, OwedChange
<1> QED BY <1>3, <1>4, <1>7, <1>8 DEF Inv, TypeOK

LEMMA AddScheduleStep ==
  ASSUME Inv, NEW s \in Schedules, AddSchedule(s)
  PROVE  Inv'
<1> DEFINE S == Schedules \cup {Nothing}
<1>1. /\ tick = 0 /\ main.pc = "idle" /\ ~Contains(active, s) /\ active.count < Capacity
      /\ active' = InsertIfAbsent(active, s)
      /\ main' = IF sch[s].enabled THEN [Idle EXCEPT !.pc = "add", !.cur = s] ELSE main
      /\ gap' = gap /\ sch' = sch /\ queue' = queue /\ isr' = isr /\ tick' = tick
      /\ owed' = owed /\ touched' = touched
  BY DEF AddSchedule
<1>2. MainOK' /\ main'.pc \in {"idle", "add"}
  <2>1. CASE sch[s].enabled
    <3>1. main' = [pc |-> "add", cur |-> s, old |-> 0, from |-> 0]
      BY <1>1, <2>1 DEF Idle
    <3> QED BY <3>1, MainIs
  <2>2. CASE ~sch[s].enabled
    BY <1>1, <2>2 DEF Inv, TypeOK, MainOK
  <2> QED BY <2>1, <2>2
<1>3. Settled' = queue /\ Settled = queue /\ Queued' = Queued
  BY <1>1, <1>2 DEF Settled, Queued, Contents
<1>4. active \in Ring(S) /\ Consistent(active) /\ Contents(active) \in Seq(Schedules)
  BY DEF Inv, TypeOK, RingsOK, Rings, QueueInv
<1>5. active' = Insert(active, s)
  BY <1>1 DEF InsertIfAbsent
<1>6. active' \in Ring(S) /\ Consistent(active') /\ Contents(active') = Append(Contents(active), s)
  BY <1>1, <1>4, <1>5, InsertContents
<1>7. Contents(active') \in Seq(Schedules)
  BY <1>4, <1>6
<1>8. RingsOK'
  <2>1. active' \in Rings' /\ queue' \in Rings' /\ Settled' \in Rings'
    BY <1>1, <1>3, <1>6, Types DEF Rings, Ring, Slots
  <2>2. Contents(active)' \in Seq(Schedules)
    BY <1>7 DEF Contents, Ahead
  <2>3. Queued' \in Seq(Schedules)
    BY <1>3, QueuedType
  <2> QED BY <2>1, <2>2, <2>3 DEF RingsOK
<1>9. QueueInv'
  <2>1. Consistent(active)'
    BY <1>6 DEF Consistent, Ahead
  <2>2. Consistent(Settled)'
    BY <1>3 DEF Inv, QueueInv, Consistent
  <2>3. Idempotent'
    BY <1>3 DEF Inv, QueueInv, Idempotent
  <2> QED BY <2>1, <2>2, <2>3 DEF QueueInv
<1>10. SchedulesOK'
  BY <1>1 DEF Inv, TypeOK, SchedulesOK
<1>11. HandOver'
  BY <1>1, <1>2 DEF HandOver
<1>12. OwedOK'
  <2>1. \A r \in Schedules : ~InHand(r)
    BY <1>1 DEF InHand
  <2> QED BY <1>1, <2>1 DEF Inv, OwedOK
<1>13. DelayOK' /\ RunOK'
  BY <1>2 DEF DelayOK, RunOK
<1>14. EarlyInv'
  BY <1>1, <1>3 DEF Inv, EarlyInv
<1> QED BY <1>2, <1>8, <1>9, <1>10, <1>11, <1>12, <1>13, <1>14 DEF Inv, TypeOK

-----------------------------------------------------------------------------
(***************************************************************************)
(* serviceSchedules().                                                     *)
(***************************************************************************)
LEMMA GetFindsNoneStep ==
  ASSUME Inv, GetFindsNone
  PROVE  Inv'
<1>1. /\ tick = 0 /\ main.pc = "loop" /\ main' = Idle
      /\ gap' = gap /\ sch' = sch /\ active' = active /\ queue' = queue /\ isr' = isr
      /\ tick' = tick /\ owed' = owed /\ touched' = touched
  BY DEF GetFindsNone
<1>2. MainOK' /\ main'.pc = "idle" /\ DelayOK' /\ RunOK' /\ \A r \in Schedules : ~InHand(r)'
  BY <1>1, BackToIdle
<1>3. RingsOK' /\ QueueInv' /\ Queued' = Queued
  BY <1>1, <1>2, RingsKept DEF SameStage
<1>4. SchedulesOK'
  BY <1>1 DEF Inv, TypeOK, SchedulesOK
<1>5. HandOver'
  BY <1>1, <1>2 DEF HandOver
<1>6. OwedOK'
  <2>1. \A r \in Schedules : ~InHand(r)
    BY <1>1 DEF InHand
  <2> QED BY <1>1, <2>1 DEF Inv, OwedOK
<1>7. EarlyInv'
  BY <1>1, <1>3 DEF Inv, EarlyInv
<1> QED BY <1>2, <1>3, <1>4, <1>5, <1>6, <1>7 DEF Inv, TypeOK

\* The head of the queue is taken: what is left is the tail, and the head is
\* not in it.
LEMMA GetMovesStep ==
  ASSUME Inv, GetMoves
  PROVE  Inv'
<1> DEFINE S == Schedules \cup {Nothing}
           h == Peek(queue, 0)
<1>1. /\ tick = 0 /\ main.pc \in {"idle", "loop"} /\ queue.count > 0
      /\ queue' = [queue EXCEPT !.r = Ahead(@, 1)]
      /\ main' = [pc |-> "taking", cur |-> h, old |-> queue.count, from |-> queue.r]
      /\ gap' = gap /\ sch' = sch /\ active' = active /\ isr' = isr
      /\ tick' = tick /\ owed' = owed /\ touched' = touched
  BY DEF GetMoves, Servicing
<1>2. /\ queue \in Ring(S) /\ Settled = queue /\ Queued = Contents(queue) /\ Consistent(queue)
  <2>1. Settled = queue
    BY <1>1 DEF Settled
  <2> QED BY <2>1, Types DEF Queued, Inv, QueueInv
<1>3. /\ queue.slots \in [Slots -> S] /\ queue.r \in Slots /\ queue.w \in Slots
      /\ queue.count \in 0..Capacity /\ queue.count \in Nat
      /\ queue = [slots |-> queue.slots, r |-> queue.r, w |-> queue.w, count |-> queue.count]
  BY <1>2, CapacityAssumption DEF Ring
<1>4. Ahead(queue.r, 1) \in Slots
  BY <1>3, AheadType, CapacityAssumption
<1>5. queue' = [slots |-> queue.slots, r |-> Ahead(queue.r, 1), w |-> queue.w, count |-> queue.count]
  BY <1>1, <1>3
<1>6. Get(queue) = [slots |-> queue.slots, r |-> Ahead(queue.r, 1), w |-> queue.w,
                    count |-> queue.count - 1]
  <2>1. queue.count # 0
    BY <1>1, <1>3
  <2>2. Get(queue) = [queue EXCEPT !.r = Ahead(queue.r, 1), !.count = queue.count - 1]
    BY <2>1 DEF Get
  <2> QED BY <1>3, <2>2
<1>7. queue' \in Ring(S) /\ queue'.slots = queue.slots /\ queue'.count = queue.count
  BY <1>3, <1>4, <1>5 DEF Ring
<1>8. /\ Get(queue) \in Ring(S) /\ Consistent(Get(queue))
      /\ Contents(Get(queue)) = Tail(Queued) /\ h = Head(Queued)
  BY <1>1, <1>2, GetContents
<1>9. Len(Queued) = queue.count
  BY <1>2, ContentsType
<1>10. h \in Schedules
  BY <1>1, <1>3, <1>8, <1>9, QueuedType
<1>11. h = queue.slots[queue.r]
  <2>1. queue.r \in 0..(Capacity - 1)
    BY <1>3 DEF Slots
  <2>2. queue.r + 0 = queue.r /\ queue.r % Capacity = queue.r
    BY <2>1, CapacityAssumption
  <2>3. Ahead(queue.r, 0) = queue.r
    BY <2>2 DEF Ahead
  <2> QED BY <1>1, <1>3, <2>3, CapacityAssumption DEF Peek
<1> HIDE DEF h
<1>12. MainOK' /\ main'.pc = "taking" /\ main'.cur = h /\ main'.old = queue.count /\ main'.from = queue.r
  <2>1. queue.r \in Nat
    BY <1>3, CapacityAssumption DEF Slots
  <2> QED BY <1>1, <1>3, <1>10, <2>1, MainIs
<1>13. Settled' = Get(queue) /\ Queued' = Tail(Queued)
  <2>1. Settled' = [queue' EXCEPT !.count = @ - 1]
    BY <1>12 DEF Settled
  <2>2. Settled' = Get(queue)
    BY <1>5, <1>6, <2>1
  <2>3. Queued' = Contents(Settled)'
    BY DEF Queued
  <2>4. Contents(Settled)' = Contents(Get(queue))
    BY <2>2 DEF Contents, Ahead
  <2> QED BY <1>8, <2>2, <2>3, <2>4
<1>14. /\ Queued' \in Seq(Schedules) /\ Len(Queued') = Len(Queued) - 1
       /\ \A i \in 1..Len(Queued') : i + 1 \in 1..Len(Queued) /\ Queued'[i] = Queued[i + 1]
  BY <1>1, <1>3, <1>9, <1>13, QueuedType
<1>15. Queued[1] = h /\ 1 \in 1..Len(Queued)
  BY <1>1, <1>3, <1>8, <1>9, QueuedType
<1>16. RingsOK'
  <2>1. active' \in Rings' /\ queue' \in Rings' /\ Settled' \in Rings'
    BY <1>1, <1>7, <1>8, <1>13, Types DEF Rings, Ring, Slots
  <2>2. Contents(active)' = Contents(active)
    BY <1>1 DEF Contents
  <2> QED BY <1>14, <2>1, <2>2 DEF Inv, TypeOK, RingsOK
<1>17. ASSUME NEW a \in 1..Len(Queued), NEW b \in 1..Len(Queued), Queued[a] = Queued[b] PROVE a = b
  BY <1>17 DEF Inv, QueueInv, Idempotent
<1>18. QueueInv'
  <2>1. Idempotent'
    <3> SUFFICES ASSUME NEW i \in 1..Len(Queued'), NEW j \in 1..Len(Queued'), Queued'[i] = Queued'[j]
                 PROVE  i = j
      BY DEF Idempotent
    <3>1. i + 1 = j + 1
      BY <1>14, <1>17
    <3>2. i \in Int /\ j \in Int
      OBVIOUS
    <3> QED BY <3>1, <3>2
  <2>2. Consistent(Settled)' /\ Consistent(active)'
    BY <1>1, <1>8, <1>13 DEF Consistent, Ahead, Inv, QueueInv
  <2> QED BY <2>1, <2>2 DEF QueueInv
<1>19. HandOver'
  <2>1. ASSUME NEW i \in 1..Len(Queued') PROVE Queued'[i] # h
    <3>1. Queued'[i] = Queued[i + 1] /\ i + 1 \in 1..Len(Queued)
      BY <1>14
    <3>2. i + 1 # 1
      OBVIOUS
    <3> QED BY <1>15, <1>17, <3>1, <3>2
  <2>2. queue'.slots[queue.r] = h /\ queue.r \in Slots
    BY <1>3, <1>7, <1>11
  <2> QED BY <1>1, <1>7, <1>12, <2>1, <2>2 DEF HandOver, Slots
<1>20. SchedulesOK'
  BY <1>1 DEF Inv, TypeOK, SchedulesOK
<1>21. OwedOK'
  <2>1. \A r \in Schedules : ~InHand(r)
    BY <1>1 DEF InHand
  <2> QED BY <1>1, <2>1 DEF Inv, OwedOK
<1>22. DelayOK' /\ RunOK'
  BY <1>12 DEF DelayOK, RunOK
<1>23. EarlyInv'
  <2> SUFFICES ASSUME NEW i \in 1..Len(Queued')
               PROVE  Queued'[i] \in touched' \/ (sch'[Queued'[i]].enabled /\ owed'[Queued'[i]] = 0)
    BY DEF EarlyInv
  <2>1. Queued'[i] = Queued[i + 1] /\ i + 1 \in 1..Len(Queued)
    BY <1>14
  <2> QED BY <1>1, <2>1 DEF Inv, EarlyInv
<1> QED BY <1>12, <1>16, <1>18, <1>19, <1>20, <1>21, <1>22, <1>23 DEF Inv, TypeOK

\* No interrupt came in between, so that the count is what it was.
LEMMA GetCountsStep ==
  ASSUME Inv, GetCounts
  PROVE  Inv'
<1> DEFINE S == Schedules \cup {Nothing}
<1>1. /\ tick = 0 /\ main.pc = "taking"
      /\ \E n \in {main.old, queue.count} : queue' = [queue EXCEPT !.count = n - 1]
      /\ main' = [main EXCEPT !.pc = "read", !.old = 0]
      /\ gap' = gap /\ sch' = sch /\ active' = active /\ isr' = isr
      /\ tick' = tick /\ owed' = owed /\ touched' = touched
  BY DEF GetCounts
<1>2. main.old = queue.count
  BY <1>1 DEF Inv, HandOver
<1>3. queue' = [queue EXCEPT !.count = queue.count - 1]
  BY <1>1, <1>2
<1>4. Settled = [queue EXCEPT !.count = queue.count - 1]
  BY <1>1 DEF Settled
<1>5. queue' = Settled /\ Settled \in Ring(S)
  BY <1>3, <1>4 DEF Inv, TypeOK, RingsOK, Rings
<1>6. MainOK' /\ main'.pc = "read" /\ main'.cur = main.cur /\ main'.old = 0 /\ main'.from = main.from
  <2>1. main' = [pc |-> "read", cur |-> main.cur, old |-> 0, from |-> main.from]
    BY <1>1, Types
  <2>2. /\ main.cur \in Schedules \cup {Nothing} /\ main.from \in Nat
        /\ main.pc = "taking" /\ main.cur \in Schedules
    BY <1>1, Types
  <2> QED BY <2>1, <2>2, MainIs
<1>7. Settled' = Settled
  BY <1>5, <1>6 DEF Settled
<1>8. Queued' = Queued
  BY <1>7 DEF Queued, Contents, Ahead
<1>9. RingsOK'
  <2>1. active' \in Rings' /\ queue' \in Rings' /\ Settled' \in Rings'
    BY <1>1, <1>5, <1>7, Types DEF Rings, Ring, Slots
  <2>2. Contents(active)' = Contents(active)
    BY <1>1 DEF Contents
  <2> QED BY <1>8, <2>1, <2>2 DEF Inv, TypeOK, RingsOK
<1>10. QueueInv'
  <2>1. Idempotent'
    BY <1>8 DEF Inv, QueueInv, Idempotent
  <2>2. Consistent(Settled)' /\ Consistent(active)'
    BY <1>1, <1>7 DEF Consistent, Ahead, Inv, QueueInv
  <2> QED BY <2>1, <2>2 DEF QueueInv
<1>11. queue'.slots = queue.slots
  BY <1>3, Types DEF Ring
<1>12. HandOver'
  BY <1>1, <1>6, <1>8, <1>11 DEF Inv, HandOver, Slots
<1>13. SchedulesOK'
  BY <1>1 DEF Inv, TypeOK, SchedulesOK
<1>14. OwedOK'
  <2>1. \A r \in Schedules : ~InHand(r)
    BY <1>1 DEF InHand
  <2> QED BY <1>1, <2>1 DEF Inv, OwedOK
<1>15. DelayOK' /\ RunOK'
  BY <1>6 DEF DelayOK, RunOK
<1>16. EarlyInv'
  BY <1>1, <1>8 DEF Inv, EarlyInv
<1> QED BY <1>6, <1>9, <1>10, <1>12, <1>13, <1>14, <1>15, <1>16 DEF Inv, TypeOK

LEMMA ExecuteBeginsStep ==
  ASSUME Inv, ExecuteBegins
  PROVE  Inv'
<1> DEFINE s == main.cur
<1>1. tick = 0 /\ main.pc = "read" /\ s \in Schedules /\ queue.slots[main.from] = s
  BY Types DEF ExecuteBegins, Inv, HandOver
<1>2. /\ main' = [pc |-> "run", cur |-> s, old |-> 0, from |-> 0]
      /\ owed' = [owed EXCEPT ![s] = Period[s]] /\ touched' = touched \ {s}
      /\ gap' = gap /\ sch' = sch /\ active' = active /\ queue' = queue /\ isr' = isr /\ tick' = tick
  BY <1>1 DEF ExecuteBegins
<1>3. \A i \in 1..Len(Queued) : Queued[i] # s
  BY <1>1 DEF Inv, HandOver
<1> HIDE DEF s
<1>4. MainOK' /\ main'.pc = "run" /\ main'.cur = s /\ main'.old = 0 /\ main'.from = 0
  BY <1>1, <1>2, MainIs
<1>5. RingsOK' /\ QueueInv' /\ Queued' = Queued
  BY <1>1, <1>2, <1>4, RingsKept DEF SameStage
<1>6. Period[s] \in Nat /\ Period[s] <= ClockMod \div 2
  BY <1>1, HalfFacts
<1>7. owed'[s] = Period[s] /\ \A r \in Schedules : r # s => owed'[r] = owed[r]
  BY <1>1, <1>2, Types
<1>8. SchedulesOK'
  <2>1. owed' \in [Schedules -> Nat]
    BY <1>2, <1>6, Types
  <2> QED BY <1>2, <2>1 DEF Inv, TypeOK, SchedulesOK
<1>9. HandOver'
  BY <1>1, <1>2, <1>3, <1>4, <1>5 DEF HandOver
<1>10. OwedOK'
  <2>1. ASSUME NEW r \in Schedules PROVE owed'[r] <= ClockMod \div 2
    BY <1>6, <1>7 DEF Inv, OwedOK
  <2>2. ASSUME NEW r \in Schedules, sch'[r].enabled, owed'[r] > 0, ~InHand(r)'
        PROVE  sch'[r].at = owed'[r]
    <3>1. r # s
      BY <1>4, <2>2 DEF InHand
    <3>2. ~InHand(r)
      BY <1>1 DEF InHand
    <3> QED BY <1>2, <1>7, <2>2, <3>1, <3>2 DEF Inv, OwedOK
  <2> QED BY <2>1, <2>2 DEF OwedOK
<1>11. DelayOK'
  BY <1>4 DEF DelayOK
<1>12. RunOK'
  <2>1. 0 \in Times
    BY HalfFacts DEF Times
  <2>2. 0 = (Period[s] - Period[s]) % ClockMod
    BY <1>6, HalfFacts
  <2> QED BY <1>4, <1>6, <1>7, <2>1, <2>2 DEF RunOK, Times
<1>13. EarlyInv'
  <2> SUFFICES ASSUME NEW i \in 1..Len(Queued)
               PROVE  Queued[i] \in touched' \/ (sch'[Queued[i]].enabled /\ owed'[Queued[i]] = 0)
    BY <1>5 DEF EarlyInv
  <2>1. Queued[i] \in Schedules /\ Queued[i] # s
    BY <1>3, QueuedType
  <2>2. owed'[Queued[i]] = owed[Queued[i]]
    BY <1>7, <2>1
  <2>3. Queued[i] \in touched => Queued[i] \in touched'
    BY <1>2, <2>1
  <2> QED BY <1>2, <2>2, <2>3 DEF Inv, EarlyInv
<1> QED BY <1>4, <1>5, <1>8, <1>9, <1>10, <1>11, <1>12, <1>13 DEF Inv, TypeOK

\* The counter of a schedule that stays enabled says that it runs again.
LEMMA CountedFacts ==
  ASSUME NEW c \in SchRec
  PROVE  /\ Counted(c) \in SchRec
         /\ Counted(c).enabled <=> WillRunAgain(Counted(c))
<1> DEFINE left == IF c.recur > 0 THEN c.recur - 1 ELSE c.recur
<1>1. /\ c.enabled \in BOOLEAN /\ c.recur \in Nat \cup {-1} /\ c.at \in Times \cup {Zero}
      /\ c = [enabled |-> c.enabled, recur |-> c.recur, at |-> c.at]
  BY DEF SchRec
<1>2. left \in Nat \cup {-1}
  BY <1>1
<1>3. CASE ~c.enabled
  BY <1>1, <1>3 DEF Counted, WillRunAgain
<1>4. CASE c.enabled
  <2>1. Counted(c) = [enabled |-> (left # 0), recur |-> left, at |-> c.at]
    BY <1>1, <1>4 DEF Counted
  <2> HIDE DEF left
  <2>2. left # 0 <=> (left > 0 \/ left = -1)
    BY <1>2
  <2>3. Counted(c) \in SchRec /\ Counted(c).enabled = (left # 0) /\ Counted(c).recur = left
    BY <1>1, <1>2, <2>1 DEF SchRec
  <2> QED BY <2>2, <2>3 DEF WillRunAgain
<1> QED BY <1>1, <1>3, <1>4

LEMMA ExecuteEndsStep ==
  ASSUME Inv, ExecuteEnds
  PROVE  Inv'
<1> DEFINE s == main.cur
           c == Counted(sch[s])
           t == IF WillRunAgain(c) THEN Later(main.from, Period[s]) ELSE Zero
<1>1. /\ tick = 0 /\ main.pc = "run" /\ main' = [Idle EXCEPT !.pc = "loop"]
      /\ sch' = [sch EXCEPT ![s] = [c EXCEPT !.at = t]]
      /\ gap' = gap /\ active' = active /\ queue' = queue /\ isr' = isr /\ tick' = tick
      /\ owed' = owed /\ touched' = touched
  BY DEF ExecuteEnds
<1>2. s \in Schedules /\ sch[s] \in SchRec /\ owed[s] \in Nat /\ main.from \in Nat
  BY <1>1, Types
<1>3. c \in SchRec /\ (c.enabled <=> WillRunAgain(c))
  BY <1>2, CountedFacts
<1>4. \A i \in 1..Len(Queued) : Queued[i] # s
  BY <1>1 DEF Inv, HandOver
<1>5. MainOK' /\ main'.pc = "loop" /\ main'.cur = Nothing /\ main'.old = 0 /\ main'.from = 0
  <2>1. main' = [pc |-> "loop", cur |-> Nothing, old |-> 0, from |-> 0]
    BY <1>1 DEF Idle
  <2> QED BY <2>1, MainIs
<1>6. Period[s] \in Nat /\ Period[s] <= ClockMod \div 2
  BY <1>2, HalfFacts
<1>7. c.enabled => t \in Times /\ t = Later(main.from, Period[s])
  BY <1>2, <1>3, <1>6, LaterType
<1>8. t \in Times \cup {Zero}
  BY <1>3, <1>7
<1>9. c.enabled /\ owed[s] > 0 => t = owed[s]
  <2> SUFFICES ASSUME c.enabled, owed[s] > 0 PROVE t = owed[s]
    OBVIOUS
  <2>1. owed[s] <= Period[s] /\ main.from = (owed[s] - Period[s]) % ClockMod
    BY <1>1 DEF Inv, RunOK
  <2>2. Later(main.from, Period[s]) = owed[s]
    BY <1>2, <1>6, <2>1, FromAndPeriod
  <2> QED BY <1>7, <2>2
<1>10. RingsOK' /\ QueueInv' /\ Queued' = Queued
  BY <1>1, <1>5, RingsKept DEF SameStage
<1> HIDE DEF s, c, t
<1>11. /\ [c EXCEPT !.at = t] \in SchRec /\ [c EXCEPT !.at = t].at = t
       /\ [c EXCEPT !.at = t].enabled = c.enabled
  BY <1>3, <1>8 DEF SchRec
<1>12. sch'[s] \in SchRec /\ sch'[s].at = t /\ sch'[s].enabled = c.enabled
  BY <1>1, <1>2, <1>11, Types
<1>13. ASSUME NEW r \in Schedules, r # s PROVE sch'[r] = sch[r]
  BY <1>1, <1>13, Types
<1>14. SchedulesOK'
  <2>1. sch' \in [Schedules -> SchRec]
    BY <1>1, <1>11, Types
  <2>2. ASSUME NEW r \in Schedules, sch'[r].enabled PROVE sch'[r].at \in Times
    <3>1. CASE r = s
      BY <1>7, <1>12, <2>2, <3>1
    <3>2. CASE r # s
      BY <1>13, <2>2, <3>2 DEF Inv, TypeOK, SchedulesOK
    <3> QED BY <3>1, <3>2
  <2>3. \A r \in Schedules : sch'[r].enabled => sch'[r].at \in Times
    BY <2>2
  <2> QED BY <1>1, <2>1, <2>3 DEF Inv, TypeOK, SchedulesOK, SchRec
<1>15. HandOver'
  BY <1>1, <1>5 DEF HandOver
<1>16. OwedOK'
  <2>1. ASSUME NEW r \in Schedules, sch'[r].enabled, owed'[r] > 0 PROVE sch'[r].at = owed'[r]
    <3>1. CASE r = s
      BY <1>1, <1>9, <1>12, <2>1, <3>1
    <3>2. CASE r # s
      <4>1. ~InHand(r)
        BY <3>2 DEF InHand, s
      <4> QED BY <1>1, <1>13, <2>1, <3>2, <4>1 DEF Inv, OwedOK
    <3> QED BY <3>1, <3>2
  <2> QED BY <1>1, <2>1 DEF Inv, OwedOK
<1>17. DelayOK' /\ RunOK'
  BY <1>5 DEF DelayOK, RunOK
<1>18. EarlyInv'
  <2> SUFFICES ASSUME NEW i \in 1..Len(Queued)
               PROVE  Queued[i] \in touched' \/ (sch'[Queued[i]].enabled /\ owed'[Queued[i]] = 0)
    BY <1>10 DEF EarlyInv
  <2>1. Queued[i] \in Schedules /\ Queued[i] # s
    BY <1>4, QueuedType
  <2>2. sch'[Queued[i]] = sch[Queued[i]]
    BY <1>13, <2>1
  <2> QED BY <1>1, <2>2 DEF Inv, EarlyInv
<1> QED BY <1>5, <1>10, <1>14, <1>15, <1>16, <1>17, <1>18 DEF Inv, TypeOK

-----------------------------------------------------------------------------
(***************************************************************************)
(* The invariant, and what it implies.                                     *)
(***************************************************************************)
LEMMA InitInv ==
  ASSUME Init
  PROVE  Inv
<1> DEFINE S == Schedules \cup {Nothing}
<1>1. /\ gap = 0 /\ isr = 0 /\ tick = 0 /\ active = EmptyRing /\ queue = EmptyRing
      /\ main = [pc |-> "idle", cur |-> Nothing, old |-> 0, from |-> 0]
      /\ owed = [s \in Schedules |-> 0] /\ touched = {}
      /\ sch \in [Schedules -> UNION {Constructed(s) : s \in Schedules}]
      /\ \A s \in Schedules : sch[s] \in Constructed(s)
  BY DEF Init, Idle
<1>2. ASSUME NEW s \in Schedules
      PROVE  sch[s] \in SchRec /\ (sch[s].enabled => sch[s].at \in Times)
  <2>1. Recurrences[s] \in Nat \cup {-1}
    BY SchedulerAssumption
  <2>2. sch[s] \in Constructed(s)
    BY <1>1
  <2>3. CASE \E t \in Times : sch[s] = [enabled |-> TRUE, recur |-> Recurrences[s], at |-> t]
    BY <2>1, <2>3 DEF SchRec
  <2>4. CASE sch[s] = [enabled |-> FALSE, recur |-> Recurrences[s], at |-> Zero]
    BY <2>1, <2>4 DEF SchRec
  <2> QED BY <2>2, <2>3, <2>4 DEF Constructed
<1>3. SchedulesOK
  <2>1. sch \in [Schedules -> SchRec]
    BY <1>1, <1>2
  <2>2. 0 \in 0..MaxGap /\ 0 \in 0..(IsrMod - 1) /\ 0 \in 0..(Capacity + 1)
    BY SchedulerAssumption, CapacityAssumption
  <2> QED BY <1>1, <1>2, <2>1, <2>2 DEF SchedulesOK, SchRec
<1>4. /\ EmptyRing \in Ring(S) /\ Consistent(EmptyRing) /\ Contents(EmptyRing) = <<>>
  BY EmptyContents
<1>5. Settled = EmptyRing /\ Queued = <<>>
  BY <1>1, <1>4 DEF Settled, Queued
<1>6. RingsOK /\ QueueInv /\ EarlyInv
  BY <1>1, <1>4, <1>5 DEF RingsOK, Rings, QueueInv, Idempotent, EarlyInv
<1>7. MainOK
  BY <1>1 DEF MainOK
<1>8. main.pc = "idle"
  BY <1>1
<1>9. HandOver /\ DelayOK /\ RunOK
  BY <1>1, <1>8 DEF HandOver, DelayOK, RunOK
<1>10. OwedOK
  BY <1>1, HalfFacts DEF OwedOK
<1> QED BY <1>3, <1>6, <1>7, <1>9, <1>10 DEF Inv, TypeOK

LEMMA StutterStep ==
  ASSUME Inv, UNCHANGED vars
  PROVE  Inv'
<1>1. /\ gap' = gap /\ sch' = sch /\ active' = active /\ queue' = queue /\ isr' = isr
      /\ tick' = tick /\ main' = main /\ owed' = owed /\ touched' = touched
  BY DEF vars
<1>2. RingsOK' /\ QueueInv' /\ Queued' = Queued
  BY <1>1, RingsKept DEF SameStage
<1>3. MainOK' /\ OwedOK' /\ DelayOK' /\ RunOK'
  BY <1>1, SchedulesKept
<1>4. SchedulesOK' /\ HandOver' /\ EarlyInv'
  BY <1>1, <1>2, HandOverKept DEF Inv, TypeOK, SchedulesOK, EarlyInv
<1> QED BY <1>2, <1>3, <1>4 DEF Inv, TypeOK

\* One step per action.
LEMMA StepInv ==
  ASSUME Polled, Inv, [Next]_vars
  PROVE  Inv'
<1>1. CASE Tick
  BY <1>1, TickStep
<1>2. CASE Advance
  BY <1>2, AdvanceBeginsStep, AdvanceLooksStep, AdvanceEndsStep DEF Advance
<1>3. ASSUME NEW s \in Schedules, AddSchedule(s) PROVE Inv'
  BY <1>3, AddScheduleStep
<1>4. ASSUME NEW s \in Touchable, Changes(s) PROVE Inv'
  <2>1. s \in Schedules
    BY <1>4, SchedulerAssumption
  <2>2. ASSUME NEW x \in BOOLEAN, SetEnabled(s, x) PROVE Inv'
    BY <2>1, <2>2, SetEnabledStep
  <2>3. ASSUME NEW n \in {-1, 0, 1}, SetRecurrence(s, n) PROVE Inv'
    BY <2>1, <2>3, SetRecurrenceStep
  <2>4. ASSUME Delay(s) PROVE Inv'
    BY <2>1, <2>4, DelayStep
  <2>5. ASSUME NEW by \in Delays, DelayBy(s, by) PROVE Inv'
    BY <2>1, <2>5, DelayByStep
  <2> QED BY <1>4, <2>2, <2>3, <2>4, <2>5 DEF Changes
<1>5. CASE AppGoesOn
  BY <1>5, DelayByEndsStep, AddScheduleEndsStep DEF AppGoesOn
<1>6. CASE Service
  BY <1>6, GetFindsNoneStep, GetMovesStep, GetCountsStep, ExecuteBeginsStep, ExecuteEndsStep
     DEF Service
<1>7. CASE UNCHANGED vars
  BY <1>7, StutterStep
<1> QED BY <1>1, <1>2, <1>3, <1>4, <1>5, <1>6, <1>7 DEF Next

LEMMA PolledInv ==
  ASSUME Polled
  PROVE  Spec => []Inv
<1>1. Init => Inv
  BY InitInv
<1>2. Inv /\ [Next]_vars => Inv'
  BY StepInv
<1> QED BY <1>1, <1>2, PTL DEF Spec

\* When the main loop calls advanceScheduler(), the scheduler is type correct:
\* the rings hold schedules and stay within their capacity, get() hands a
\* schedule to execute(), and every time that is compared is one of the clock.
THEOREM SchedulerTypeOK ==
  ASSUME Polled
  PROVE  Spec => []TypeOK
<1>1. Inv => TypeOK
  BY DEF Inv
<1> QED BY <1>1, PolledInv, PTL

\* The execution queue that advanceScheduler() fills and serviceSchedules()
\* drains holds no schedule twice and loses none, if the main loop calls both.
THEOREM SchedulerNoDoubleAdds == Spec => []NoDoubleAdds
<1>1. CASE Polled
  <2>1. Inv => NoDoubleAdds
    BY DEF Inv, QueueInv, NoDoubleAdds
  <2> QED BY <1>1, <2>1, PolledInv, PTL
<1>2. CASE ~Polled
  <2>1. NoDoubleAdds
    BY <1>2 DEF NoDoubleAdds
  <2> QED BY <2>1, PTL
<1> QED BY <1>1, <1>2

\* advanceScheduler() queues no schedule before the end of its period or of the
\* delay that the application asked for, wherever the clock wraps.
THEOREM SchedulerNotEarly == Spec => []NotEarly
<1>1. CASE Polled
  <2>1. Inv => NotEarly
    BY DEF Inv, EarlyInv, NotEarly
  <2> QED BY <1>1, <2>1, PolledInv, PTL
<1>2. CASE ~Polled
  <2>1. NotEarly
    BY <1>2 DEF NotEarly
  <2> QED BY <2>1, PTL
<1> QED BY <1>1, <1>2
=============================================================================
