--------------------------- MODULE AsyncSequencer ---------------------------
(***************************************************************************)
(* The checklist of src/src/AsyncSequencer.cpp: steps that depend on one   *)
(* another, are requested, dispatched and polled until they pass or fail.  *)
(*                                                                         *)
(* The five FlagContainer32 of the class are the five sets of the record   *)
(* seq.  A step is its index in _STEP_LIST, which also stands for its      *)
(* FLAG; a mask is a set of flags.  What a step's DISPATCH_FXN and         *)
(* POLL_FXN return is up to the application, so it is chosen freely at     *)
(* every call.  The functions are taken not to call the sequencer back.    *)
(***************************************************************************)
EXTENDS Integers, FiniteSets

CONSTANTS StepCount,     \* _STEP_COUNT
          PartialResets  \* are steps reset without those that depend on them?

ASSUME SequencerAssumption ==
  /\ StepCount \in 1..32
  /\ PartialResets \in BOOLEAN

Steps == 1..StepCount

\* What callers may put into a mask: 0 is a flag that no step has.
Flags == {0} \cup Steps

\* DEP_MASK of each step; "circular dependencies" are excluded.
Graphs == {g \in [Steps -> SUBSET Steps] :
             \E rank \in [Steps -> Steps] :
               \A s \in Steps : \A d \in g[s] : rank[d] < rank[s]}

Masks == [requested : SUBSET Steps,   \* _steps_requested
          runnable  : SUBSET Steps,   \* _steps_runnable
          running   : SUBSET Steps,   \* _steps_running
          complete  : SUBSET Steps,   \* _steps_complete
          passed    : SUBSET Steps]   \* _steps_passed

VARIABLES deps,   \* the DEP_MASKs of _STEP_LIST, which never change
          seq     \* the five masks

vars == <<deps, seq>>

Empty == [requested |-> {}, runnable |-> {}, running |-> {}, complete |-> {}, passed |-> {}]

Init == /\ deps \in Graphs
        /\ seq = Empty

-----------------------------------------------------------------------------
\* The steps that a pass of _check_dependencies() makes runnable.
Mut_NewRunnable(m) ==                         \* mutant: a failed dependency will do
  {s \in Steps \ m.runnable : deps[s] \subseteq m.complete /\ s \in m.requested}

NewRunnable(m) ==
  {s \in Steps \ m.runnable : deps[s] \subseteq m.passed /\ s \in m.requested}

CheckDependencies(m) == [m EXCEPT !.runnable = @ \cup NewRunnable(m)]

\* _mark_step_dispatched() and _mark_step_complete()
MarkDispatched(m, S) ==
  [m EXCEPT !.complete = @ \ S, !.passed = @ \ S, !.running = @ \cup S]

MarkPassed(m, S) ==
  [m EXCEPT !.running = @ \ S, !.complete = @ \cup S, !.passed = @ \cup S]

MarkFailed(m, S) ==
  [m EXCEPT !.running = @ \ S, !.complete = @ \cup S, !.passed = @ \ S]

\* What the functions of the steps S return: 1, 0 ("Retry on a later pass"), or
\* anything else, "construed as terminal failure".
Returns(S) == [S -> {1, 0, -1}]

Returning(r, x) == {s \in DOMAIN r : r[s] = x}

\* _dispatch_steps() and _poll_steps()
DispatchSteps(m, r) == MarkFailed(MarkDispatched(m, Returning(r, 1)), Returning(r, -1))

PollSteps(m, r) == MarkFailed(MarkPassed(m, Returning(r, 1)), Returning(r, -1))

\* The steps poll() will dispatch: determined before the dependencies are
\* checked, so that a step is dispatched one pass after it became runnable.
Mut_ToDispatch(m) == m.runnable \ m.running   \* mutant: PRERUN_COMP is forgotten

ToDispatch(m) == (m.runnable \ m.complete) \ m.running

\* What poll() makes of the masks, given what the functions return.
AfterDispatch(m, d) == DispatchSteps(CheckDependencies(m), d)

\* poll(), in which the functions of the steps in Ready do not ask for a retry.
PollReady(Ready) ==
  /\ \E d \in Returns(ToDispatch(seq)) :
       \E p \in Returns(AfterDispatch(seq, d).running) :
         /\ \A s \in Ready : /\ s \in DOMAIN d => d[s] # 0
                             /\ s \in DOMAIN p => p[s] # 0
         /\ seq' = PollSteps(AfterDispatch(seq, d), p)
  /\ UNCHANGED deps

Poll == PollReady({})

\* The value poll() returns: the bits in which the masks differ that are
\* running, complete or yet to be dispatched.
SymDiff(S, T) == (S \ T) \cup (T \ S)

Mut_Transitions(m, n) ==                      \* mutant: DIFF_DISPATCH is left out
  Cardinality(SymDiff(m.running, n.running)) + Cardinality(SymDiff(m.complete, n.complete))

Transitions(m, n) ==
  Cardinality(SymDiff(m.running, n.running))
    + Cardinality(SymDiff(m.complete, n.complete))
    + Cardinality(SymDiff(ToDispatch(m), ToDispatch(n)))

-----------------------------------------------------------------------------
\* One turn of the loop in _get_dependency_mask(): a step in the mask adds itself
\* and what a recursive call returns for its dependencies that are not covered.
Mut_Turn(ret, i, mask, recursive) ==          \* mutant: one covered dependency hides the others
  LET now == ret \cup {i}
  IN  IF i \notin mask THEN ret
      ELSE IF deps[i] \cap now = {} THEN now \cup recursive[deps[i]]
      ELSE now

Turn(ret, i, mask, recursive) ==
  LET now       == ret \cup {i}
      uncovered == deps[i] \ now
  IN  IF i \notin mask THEN ret
      ELSE IF uncovered # {} THEN now \cup recursive[uncovered]
      ELSE now

\* The value of ret after each turn of the loop.
Loop(mask, recursive) ==
  LET ret[i \in 0..StepCount] ==
        IF i = 0 THEN {} ELSE Turn(ret[i - 1], i, mask, recursive)
  IN  ret

\* What a call returns for each mask if the limiter allows for this many calls,
\* one within the other.
Covered[calls \in 0..(StepCount + 1)] ==
  [mask \in SUBSET Flags |->
     IF calls = 0 THEN {} ELSE Loop(mask, Covered[calls - 1])[StepCount]]

Mut_GetUnfiltered(mask) == mask               \* mutant: no filter, no dependencies

Mut_GetDirectMask(mask) ==                    \* mutant: only the direct dependencies
  (mask \cap Steps) \cup UNION {deps[s] : s \in mask \cap Steps}

\* _get_dependency_mask(), whose limiter goes from 0 to _STEP_COUNT.
GetDependencyMask(mask) == Covered[StepCount + 1][mask]

RequestSteps(mask) ==
  /\ seq' = [seq EXCEPT !.requested = @ \cup GetDependencyMask(mask)]
  /\ UNCHANGED deps

\* resetSteps() clears what it is told to and no more.  Unless PartialResets,
\* callers reset the steps that depend on what they reset along with it, as the
\* unit tests do, which reset all.
WithDependents(mask) ==
  \A s \in Steps : deps[s] \cap mask # {} => s \in mask

Mut_Cleared(m, S) ==                          \* mutant: a running step keeps running
  [m EXCEPT !.requested = @ \ S, !.runnable = @ \ S, !.complete = @ \ S, !.passed = @ \ S]

Cleared(m, S) ==
  [m EXCEPT !.requested = @ \ S, !.runnable = @ \ S, !.running = @ \ S,
            !.complete = @ \ S, !.passed = @ \ S]

ResetSteps(mask) ==
  /\ PartialResets \/ WithDependents(mask)
  /\ seq' = Cleared(seq, mask)
  /\ UNCHANGED deps

ResetSequencer == seq' = Empty /\ UNCHANGED deps

Next == \/ Poll
        \/ \E mask \in SUBSET Flags : RequestSteps(mask)
        \/ \E mask \in SUBSET Flags : ResetSteps(mask)
        \/ ResetSequencer

Spec == Init /\ [][Next]_vars

\* The main loop keeps polling, and no function asks for a retry forever.
FairSpec == Spec /\ \A s \in Steps : WF_vars(PollReady({s}))

-----------------------------------------------------------------------------
\* Type invariant.
SequencerTypeOK == deps \in Graphs /\ seq \in Masks

\* "...and all of its dependepcies have passed..."  A step that runs, or is
\* about to, finds all the steps it depends on passed.
RunsAfterDeps == \A s \in seq.runnable : deps[s] \subseteq seq.passed

\* A step is at one place of its life: requested, runnable, running or
\* complete, and passed only if complete.
Exclusive ==
  /\ seq.runnable \subseteq seq.requested
  /\ seq.running \subseteq seq.runnable
  /\ seq.complete \subseteq seq.runnable
  /\ seq.running \cap seq.complete = {}
  /\ seq.passed \subseteq seq.complete

\* "The argument, OR'd with all dependencies": whatever is requested, so are
\* the steps that it depends on, directly or not.
RequestClosed == \A s \in seq.requested : deps[s] \subseteq seq.requested

\* A verdict is final: a step that passed or failed stays so until it is reset,
\* and is not run again meanwhile.
VerdictFinal ==
  [][\A s \in seq.complete \cap seq'.requested :
       /\ s \in seq'.complete
       /\ s \in seq.passed <=> s \in seq'.passed]_vars

\* The callers of poll() go by its return value: if it counts no transition,
\* then there was none, not even a step that became runnable.
ZeroIsStagnant == [][Poll /\ Transitions(seq, seq') = 0 => UNCHANGED seq]_vars

\* The steps that s depends on, directly or not: in a graph without cycles, only
\* one set S is closed in this way.
Below(s) == {d \in Steps : \E S \in SUBSET Steps :
              /\ S = {t \in Steps : t \in deps[s] \/ \E u \in S : t \in deps[u]}
              /\ d \in S}

\* A requested step is completed, unless a step it depends on failed or the
\* request is withdrawn by a reset.
RequestSettled ==
  \A s \in Steps :
    s \in seq.requested ~> \/ s \in seq.complete
                           \/ s \notin seq.requested
                           \/ \E d \in Below(s) : d \in seq.complete \ seq.passed
=============================================================================
