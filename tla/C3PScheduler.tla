---------------------------- MODULE C3PScheduler ----------------------------
(***************************************************************************)
(* C3PScheduler and C3PSchedule (src/src/TimerTools/C3PScheduler.{h,cpp})  *)
(* on two rings of capacity MAX_SCHEDULE_COUNT.  The timing source calls   *)
(* advanceScheduler(), which puts the schedules that are due into the      *)
(* execution queue; the idle time of the program calls serviceSchedules(), *)
(* which takes them out and executes them.                                 *)
(*                                                                         *)
(* The timing source is either the main loop itself (Polled, as in the     *)
(* unit tests) or a timer interrupt, which runs to its end between any two *)
(* memory accesses of the main program.  Nothing in the code guards the    *)
(* execution queue against it, so that get() is three steps.               *)
(*                                                                         *)
(* The code only ever looks at differences between times of a microsecond  *)
(* clock that wraps.  Here times are kept relative to the present: a time  *)
(* is how far ahead it is, modulo ClockMod, and the clock's tick moves all *)
(* of them.  unsigned int and unsigned long have the same width.           *)
(* Profilers are left out.                                                 *)
(***************************************************************************)
EXTENDS RingBuffer

CONSTANTS Polled,        \* is advanceScheduler() called by the main loop?
          Schedules,
          Period,        \* _period of each schedule
          Recurrences,   \* the constructor's argument for each schedule
          Touchable,     \* the schedules that the application changes later on
          Delays,        \* arguments of delay(unsigned int)
          ClockMod,      \* ULONG_MAX + 1
          MaxGap,        \* the most that passes between two calls of advanceScheduler()
          IsrMod         \* where _isr_count wraps: 2^32 in the code

ASSUME SchedulerAssumption ==
  /\ Polled \in BOOLEAN
  /\ ClockMod \in Nat /\ ClockMod > 4
  /\ Period \in [Schedules -> 1..(ClockMod \div 2)]
  /\ Recurrences \in [Schedules -> Nat \cup {-1}]
  /\ Touchable \subseteq Schedules
  /\ Delays \subseteq 1..(ClockMod \div 2)
  /\ MaxGap \in Nat \ {0}
  /\ IsrMod \in Nat \ {0, 1}
  /\ Nothing \notin Schedules

VARIABLES gap,       \* the time since advanceScheduler() was called
          sch,       \* the schedules
          active,    \* _active
          queue,     \* _exec_queue
          isr,       \* _isr_count
          tick,      \* the iteration that advanceScheduler() is in; 0: not called
          main,      \* where the main program is
          owed,      \* history: the time until each schedule may run
          touched    \* history: schedules the application changed while queued

vars == <<gap, sch, active, queue, isr, tick, main, owed, touched>>

Times == 0..(ClockMod - 1)

\* _exec_at = 0 is no time in particular: Zero stands for it until it matters.
Zero == ClockMod

\* pc is idle; add or delay, halfway through addSchedule() or delay(); or loop,
\* taking, read or run, within serviceSchedules().  cur is the schedule at hand,
\* old what was loaded or passed, and from the slot read or NOW of execute().
Idle == [pc |-> "idle", cur |-> Nothing, old |-> 0, from |-> 0]

Constructed(s) ==
  {[enabled |-> TRUE, recur |-> Recurrences[s], at |-> t] : t \in Times}
    \cup {[enabled |-> FALSE, recur |-> Recurrences[s], at |-> Zero]}

Init ==
  /\ gap = 0
  /\ sch \in [Schedules -> UNION {Constructed(s) : s \in Schedules}]
  /\ \A s \in Schedules : sch[s] \in Constructed(s)
  /\ active = EmptyRing /\ queue = EmptyRing
  /\ isr = 0 /\ tick = 0
  /\ main = Idle
  /\ owed = [s \in Schedules |-> 0]
  /\ touched = {}

Mut_Later(t, by) == t + by                    \* mutant: the clock does not wrap

Later(t, by) == (t + by) % ClockMod

\* advanceScheduler()'s test, with micros_since(_exec_at) in it
Mut_Due(s) == (0 - sch[s].at) % ClockMod < ClockMod - 1     \* mutant: >> 1 forgotten

Due(s) == (0 - sch[s].at) % ClockMod < ClockMod \div 2 - 1

\* _executing
Executing(s) == main.pc = "run" /\ main.cur = s

WillRunAgain(c) == c.enabled /\ (c.recur > 0 \/ c.recur = -1)

-----------------------------------------------------------------------------
(***************************************************************************)
(* The clock and the timing source.                                        *)
(***************************************************************************)

\* The idle time of the program, and the inside of _execute().
AppRuns == tick = 0 /\ main.pc \in {"idle", "run"}

\* Time passes while the application runs; the other steps take none.
Tick ==
  /\ AppRuns /\ gap < MaxGap
  /\ gap' = gap + 1
  /\ sch' = [s \in Schedules |-> IF sch[s].at = Zero THEN sch[s]
                                 ELSE [sch[s] EXCEPT !.at = Later(@, -1)]]
  /\ main' = IF main.pc = "run" THEN [main EXCEPT !.from = Later(@, -1)] ELSE main
  /\ owed' = [s \in Schedules |-> IF owed[s] > 0 THEN owed[s] - 1 ELSE 0]
  /\ UNCHANGED <<active, queue, isr, tick, touched>>

\* advanceScheduler(): its call, one iteration, and its end.
AdvanceBegins ==
  /\ tick = 0
  /\ Polled => main.pc = "idle"
  /\ tick' = 1 /\ gap' = 0
  /\ UNCHANGED <<sch, active, queue, isr, main, owed, touched>>

Mut_AdvanceLooks ==                           \* mutant: insert()
  /\ tick \in 1..active.count
  /\ LET s == Peek(active, tick - 1)
     IN  queue' = IF s # Nothing /\ sch[s].enabled /\ Due(s) THEN Insert(queue, s) ELSE queue
  /\ tick' = tick + 1
  /\ UNCHANGED <<gap, sch, active, isr, main, owed, touched>>

AdvanceLooks ==
  /\ tick \in 1..active.count
  /\ LET s == Peek(active, tick - 1)
     IN  queue' = IF s # Nothing /\ sch[s].enabled /\ Due(s) THEN InsertIfAbsent(queue, s)
                                                             ELSE queue
  /\ tick' = tick + 1
  /\ UNCHANGED <<gap, sch, active, isr, main, owed, touched>>

Mut_AdvanceEnds ==                            \* mutant: _isr_count++ is missing
  /\ tick > active.count
  /\ tick' = 0
  /\ UNCHANGED <<gap, sch, active, queue, isr, main, owed, touched>>

AdvanceEnds ==
  /\ tick > active.count
  /\ tick' = 0 /\ isr' = (isr + 1) % IsrMod
  /\ UNCHANGED <<gap, sch, active, queue, main, owed, touched>>

-----------------------------------------------------------------------------
(***************************************************************************)
(* What the application does with schedules, from its idle time or from    *)
(* within the execution of one.                                            *)
(***************************************************************************)

\* Schedule s becomes c, after which it may run in t microseconds.
Change(s, c, t) ==
  /\ sch' = [sch EXCEPT ![s] = c]
  /\ owed' = [owed EXCEPT ![s] = t]
  /\ touched' = IF Contains(queue, s) THEN touched \cup {s} ELSE touched
  /\ UNCHANGED <<gap, active, queue, isr, tick>>

\* enabled(bool): _exec_at stays what it was, be it zero.
SetEnabled(s, x) ==
  /\ AppRuns /\ sch[s].enabled # x
  /\ \E t \in (IF x /\ sch[s].at = Zero THEN Times ELSE {sch[s].at}) :
       Change(s, [sch[s] EXCEPT !.enabled = x, !.at = t], 0)
  /\ UNCHANGED main

\* recurrence(int32_t)
SetRecurrence(s, n) ==
  /\ AppRuns /\ sch[s].recur # n
  /\ sch' = [sch EXCEPT ![s].recur = n]
  /\ UNCHANGED <<gap, active, queue, isr, tick, main, owed, touched>>

\* delay()
Reset(s) == Change(s, [sch[s] EXCEPT !.at = Period[s], !.enabled = TRUE], Period[s])

Delay(s) ==
  /\ AppRuns /\ ~Executing(s)
  /\ Reset(s)
  /\ UNCHANGED main

\* delay(unsigned int): a disabled schedule is enabled as of now first.  The
\* application does not push a schedule more than half of the clock ahead.
DelayBy(s, by) ==
  /\ tick = 0 /\ main.pc = "idle"
  /\ owed[s] + by <= ClockMod \div 2
  /\ IF sch[s].enabled
     THEN /\ Change(s, [sch[s] EXCEPT !.at = Later(@, by)],
                    IF owed[s] = 0 THEN 0 ELSE owed[s] + by)
          /\ UNCHANGED main
     ELSE /\ Change(s, [sch[s] EXCEPT !.at = 0, !.enabled = TRUE], by)
          /\ main' = [pc |-> "delay", cur |-> s, old |-> by, from |-> 0]

DelayByEnds ==
  /\ tick = 0 /\ main.pc = "delay"
  /\ sch' = [sch EXCEPT ![main.cur].at = Later(@, main.old)]
  /\ main' = Idle
  /\ UNCHANGED <<gap, active, queue, isr, tick, owed, touched>>

\* addSchedule(): the schedule is in the list before it is given its time.
AddSchedule(s) ==
  /\ tick = 0 /\ main.pc = "idle"
  /\ ~Contains(active, s) /\ active.count < Capacity
  /\ active' = InsertIfAbsent(active, s)
  /\ main' = IF sch[s].enabled THEN [Idle EXCEPT !.pc = "add", !.cur = s] ELSE main
  /\ UNCHANGED <<gap, sch, queue, isr, tick, owed, touched>>

AddScheduleEnds ==
  /\ tick = 0 /\ main.pc = "add"
  /\ Reset(main.cur)
  /\ main' = Idle

-----------------------------------------------------------------------------
(***************************************************************************)
(* serviceSchedules(), with get() of the execution queue and execute() of  *)
(* the schedule that it returns.                                           *)
(***************************************************************************)
Servicing == tick = 0 /\ (main.pc = "loop" \/ (main.pc = "idle" /\ isr > 0))

GetFindsNone ==
  /\ tick = 0 /\ main.pc = "loop" /\ queue.count = 0
  /\ main' = Idle
  /\ UNCHANGED <<gap, sch, active, queue, isr, tick, owed, touched>>

\* The index moves on; the count and the slot may have been loaded before that.
GetMoves ==
  /\ Servicing /\ queue.count > 0
  /\ queue' = [queue EXCEPT !.r = Ahead(@, 1)]
  /\ main' = [pc |-> "taking", cur |-> Peek(queue, 0), old |-> queue.count, from |-> queue.r]
  /\ UNCHANGED <<gap, sch, active, isr, tick, owed, touched>>

\* _count--, with the count loaded before or now.
GetCounts ==
  /\ tick = 0 /\ main.pc = "taking"
  /\ \E n \in {main.old, queue.count} : queue' = [queue EXCEPT !.count = n - 1]
  /\ main' = [main EXCEPT !.pc = "read", !.old = 0]
  /\ UNCHANGED <<gap, sch, active, isr, tick, owed, touched>>

\* The slot, loaded before or now, and the beginning of execute().
ExecuteBegins ==
  /\ tick = 0 /\ main.pc = "read"
  /\ \E s \in {main.cur, queue.slots[main.from]} :
       /\ main' = [pc |-> "run", cur |-> s, old |-> 0, from |-> 0]
       /\ owed' = [owed EXCEPT ![s] = Period[s]]
       /\ touched' = touched \ {s}
  /\ UNCHANGED <<gap, sch, active, queue, isr, tick>>

\* The schedule's counter after _execute().
Counted(c) ==
  LET left == IF c.recur > 0 THEN c.recur - 1 ELSE c.recur
  IN  IF c.enabled THEN [c EXCEPT !.recur = left, !.enabled = (left # 0)] ELSE c

ExecuteEnds ==
  /\ tick = 0 /\ main.pc = "run"
  /\ LET c == Counted(sch[main.cur])
         t == IF WillRunAgain(c) THEN Later(main.from, Period[main.cur]) ELSE Zero
     IN  sch' = [sch EXCEPT ![main.cur] = [c EXCEPT !.at = t]]
  /\ main' = [Idle EXCEPT !.pc = "loop"]
  /\ UNCHANGED <<gap, active, queue, isr, tick, owed, touched>>

-----------------------------------------------------------------------------
Advance == AdvanceBegins \/ AdvanceLooks \/ AdvanceEnds

Changes(s) ==
  \/ \E x \in BOOLEAN : SetEnabled(s, x)
  \/ \E n \in {-1, 0, 1} : SetRecurrence(s, n)
  \/ Delay(s)
  \/ \E by \in Delays : DelayBy(s, by)

AppGoesOn == DelayByEnds \/ AddScheduleEnds

Service == GetFindsNone \/ GetMoves \/ GetCounts \/ ExecuteBegins \/ ExecuteEnds

Next ==
  \/ Tick \/ Advance
  \/ \E s \in Schedules : AddSchedule(s)
  \/ \E s \in Touchable : Changes(s)
  \/ AppGoesOn \/ Service

Spec == Init /\ [][Next]_vars

\* The clock runs and the timing source calls; the main loop comes back to
\* serviceSchedules() whatever else it does, and every handler ends.
FairSpec ==
  /\ Spec
  /\ SF_vars(Tick) /\ SF_vars(Advance) /\ SF_vars(Service)
  /\ WF_vars(AppGoesOn)

-----------------------------------------------------------------------------
\* What the execution queue holds: in the middle of get(), the index has moved
\* and the count has not.
Settled == IF main.pc = "taking" THEN [queue EXCEPT !.count = @ - 1] ELSE queue

Queued == Contents(Settled)

Rings == Ring(Schedules \cup {Nothing})

SchedulesOK ==
  /\ gap \in 0..MaxGap /\ isr \in 0..(IsrMod - 1) /\ tick \in 0..(Capacity + 1)
  /\ sch \in [Schedules -> [enabled : BOOLEAN, recur : Nat \cup {-1}, at : Times \cup {Zero}]]
  /\ \A s \in Schedules : sch[s].enabled => sch[s].at \in Times
  /\ owed \in [Schedules -> Nat] /\ touched \subseteq Schedules

RingsOK ==
  /\ active \in Rings /\ Contents(active) \in Seq(Schedules)
  /\ queue \in Rings
  /\ Settled \in Rings /\ Queued \in Seq(Schedules)

MainOK ==
  /\ main \in [pc   : {"idle", "add", "delay", "loop", "taking", "read", "run"},
               cur  : Schedules \cup {Nothing}, old : Nat, from : Nat]
  /\ main.pc \notin {"idle", "loop"} => main.cur \in Schedules

\* Every variable has its type: the rings hold schedules and no more of them
\* than their capacity, execute() is called on a schedule, and every time that
\* matters is a time of the clock, which wraps.
TypeOK == SchedulesOK /\ RingsOK /\ MainOK

\* Insertion into the execution queue is idempotent until the schedule is
\* serviced: no schedule is in the queue twice.
Idempotent == \A i, j \in 1..Len(Queued) : Queued[i] = Queued[j] => i = j

\* With a polled clock, insertion is idempotent, and the count of the queue
\* agrees with its two indices: nothing that was put into it is lost.
NoDoubleAdds ==
  Polled => Idempotent /\ Consistent(Settled)

\* With a polled clock, a schedule that waits in the execution queue is enabled
\* and its time has come, however the clock has wrapped since that time was set
\* (unless the application disabled or delayed it while it was waiting:
\* execute() does not look again).
NotEarly ==
  Polled => \A i \in 1..Len(Queued) :
    Queued[i] \in touched \/ (sch[Queued[i]].enabled /\ owed[Queued[i]] = 0)

Registered(s) == Contains(active, s)

\* A schedule that was added, stays enabled and is not touched any more by the
\* application executes again and again: no other schedule, no wrap of the
\* clock and no wrap of _isr_count keeps it from its turn.
ServedForever ==
  \A s \in Schedules :
    (<>[](Registered(s) /\ sch[s].enabled) /\ <>[][~Changes(s)]_vars) => []<>Executing(s)
=============================================================================
