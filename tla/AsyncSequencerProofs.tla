------------------------ MODULE AsyncSequencerProofs ------------------------
(***************************************************************************)
(* Proofs about AsyncSequencer, for any number of steps and any            *)
(* dependencies without cycles: its invariants, what a step never does,    *)
(* and what the recursive walk over the list of steps returns.             *)
(***************************************************************************)
EXTENDS AsyncSequencer, FiniteSetTheorems, WellFoundedInduction, TLAPS

\* The five masks are all there is.
MaskNames == {"requested", "runnable", "running", "complete", "passed"}

Shape(m) == m = [name \in MaskNames |-> m[name]]

\* Exclusive, of any masks m.
Placed(m) ==
  /\ Shape(m)
  /\ m.runnable \subseteq Steps
  /\ m.runnable \subseteq m.requested
  /\ m.running \subseteq m.runnable
  /\ m.complete \subseteq m.runnable
  /\ m.running \cap m.complete = {}
  /\ m.passed \subseteq m.complete

\* RunsAfterDeps, of any masks m.
Ordered(m) == \A s \in m.runnable : deps[s] \subseteq m.passed

-----------------------------------------------------------------------------
\* A pass of _check_dependencies() makes steps runnable whose dependencies passed.
LEMMA CheckKeeps ==
  ASSUME NEW m, Placed(m)
  PROVE  /\ Placed(CheckDependencies(m))
         /\ Ordered(m) => Ordered(CheckDependencies(m))
         /\ m.runnable \subseteq CheckDependencies(m).runnable
         /\ CheckDependencies(m).complete = m.complete
  <1> DEFINE n == CheckDependencies(m)
  <1> SUFFICES /\ Placed(n)
               /\ Ordered(m) => Ordered(n)
               /\ m.runnable \subseteq n.runnable
               /\ n.complete = m.complete
    OBVIOUS
  <1>1. /\ n.requested = m.requested /\ n.running = m.running
        /\ n.runnable = m.runnable \cup NewRunnable(m)
        /\ n.complete = m.complete /\ n.passed = m.passed
    BY DEF CheckDependencies, Placed, Shape, MaskNames
  <1>2. Shape(n)
    BY DEF CheckDependencies, Placed, Shape, MaskNames
  <1> HIDE DEF n
  <1> QED BY <1>1, <1>2 DEF Placed, Ordered, NewRunnable

\* Marking runnable steps that are not complete as running costs no verdict.
LEMMA DispatchedKeeps ==
  ASSUME NEW m, Placed(m), NEW S, S \subseteq m.runnable, S \cap m.complete = {}
  PROVE  /\ Placed(MarkDispatched(m, S))
         /\ Ordered(m) => Ordered(MarkDispatched(m, S))
         /\ MarkDispatched(m, S).runnable = m.runnable
         /\ MarkDispatched(m, S).complete = m.complete
  <1> DEFINE n == MarkDispatched(m, S)
  <1> SUFFICES /\ Placed(n)
               /\ Ordered(m) => Ordered(n)
               /\ n.runnable = m.runnable
               /\ n.complete = m.complete
    OBVIOUS
  <1>1. /\ n.requested = m.requested /\ n.runnable = m.runnable /\ n.running = m.running \cup S
        /\ n.complete = m.complete \ S /\ n.passed = m.passed \ S
    BY DEF MarkDispatched, Placed, Shape, MaskNames
  <1>2. Shape(n)
    BY DEF MarkDispatched, Placed, Shape, MaskNames
  <1> HIDE DEF n
  <1> QED BY <1>1, <1>2 DEF Placed, Ordered

\* Passing runnable steps only adds to what passed.
LEMMA PassedKeeps ==
  ASSUME NEW m, Placed(m), NEW S, S \subseteq m.runnable
  PROVE  /\ Placed(MarkPassed(m, S))
         /\ Ordered(m) => Ordered(MarkPassed(m, S))
         /\ MarkPassed(m, S).runnable = m.runnable
         /\ MarkPassed(m, S).complete = m.complete \cup S
  <1> DEFINE n == MarkPassed(m, S)
  <1> SUFFICES /\ Placed(n)
               /\ Ordered(m) => Ordered(n)
               /\ n.runnable = m.runnable
               /\ n.complete = m.complete \cup S
    OBVIOUS
  <1>1. /\ n.requested = m.requested /\ n.runnable = m.runnable /\ n.running = m.running \ S
        /\ n.complete = m.complete \cup S /\ n.passed = m.passed \cup S
    BY DEF MarkPassed, Placed, Shape, MaskNames
  <1>2. Shape(n)
    BY DEF MarkPassed, Placed, Shape, MaskNames
  <1> HIDE DEF n
  <1> QED BY <1>1, <1>2 DEF Placed, Ordered

\* Failing runnable steps that are not complete takes nothing from what passed.
LEMMA FailedKeeps ==
  ASSUME NEW m, Placed(m), NEW S, S \subseteq m.runnable, S \cap m.complete = {}
  PROVE  /\ Placed(MarkFailed(m, S))
         /\ Ordered(m) => Ordered(MarkFailed(m, S))
         /\ MarkFailed(m, S).runnable = m.runnable
  <1> DEFINE n == MarkFailed(m, S)
  <1> SUFFICES /\ Placed(n)
               /\ Ordered(m) => Ordered(n)
               /\ n.runnable = m.runnable
    OBVIOUS
  <1>1. /\ n.requested = m.requested /\ n.runnable = m.runnable /\ n.running = m.running \ S
        /\ n.complete = m.complete \cup S /\ n.passed = m.passed \ S
    BY DEF MarkFailed, Placed, Shape, MaskNames
  <1>2. Shape(n)
    BY DEF MarkFailed, Placed, Shape, MaskNames
  <1> HIDE DEF n
  <1> QED BY <1>1, <1>2 DEF Placed, Ordered

\* poll(): only steps that are runnable and not complete get a verdict or start.
LEMMA PollKeeps ==
  ASSUME Placed(seq), Poll
  PROVE  Placed(seq') /\ (Ordered(seq) => Ordered(seq)')
  <1>1. PICK d \in Returns(ToDispatch(seq)) :
          \E p \in Returns(AfterDispatch(seq, d).running) :
            seq' = PollSteps(AfterDispatch(seq, d), p)
    BY DEF Poll, PollReady
  <1>2. PICK p \in Returns(AfterDispatch(seq, d).running) :
          seq' = PollSteps(AfterDispatch(seq, d), p)
    BY <1>1
  <1>3. deps' = deps
    BY DEF Poll, PollReady
  <1> DEFINE C  == CheckDependencies(seq)
             D1 == MarkDispatched(C, Returning(d, 1))
             D2 == MarkFailed(D1, Returning(d, -1))
             P1 == MarkPassed(D2, Returning(p, 1))
             P2 == MarkFailed(P1, Returning(p, -1))
  <1>4. /\ Placed(C)
        /\ Ordered(seq) => Ordered(C)
        /\ seq.runnable \subseteq C.runnable
        /\ C.complete = seq.complete
    BY CheckKeeps
  <1>5. \A x \in {1, -1} : /\ Returning(d, x) \subseteq C.runnable
                           /\ Returning(d, x) \cap C.complete = {}
    BY <1>1, <1>4 DEF Returns, Returning, ToDispatch
  <1>6. /\ Placed(D1)
        /\ Ordered(C) => Ordered(D1)
        /\ D1.runnable = C.runnable
        /\ D1.complete = C.complete
    <2> HIDE DEF C
    <2> QED BY <1>4, <1>5, DispatchedKeeps
  <1>7. /\ Placed(D2)
        /\ Ordered(D1) => Ordered(D2)
    <2>1. Returning(d, -1) \subseteq D1.runnable /\ Returning(d, -1) \cap D1.complete = {}
      BY <1>5, <1>6
    <2> HIDE DEF C, D1
    <2> QED BY <1>6, <2>1, FailedKeeps
  <1>8. AfterDispatch(seq, d) = D2
    BY DEF AfterDispatch, DispatchSteps
  <1>9. /\ \A x \in {1, -1} : /\ Returning(p, x) \subseteq D2.runnable
                              /\ Returning(p, x) \cap D2.complete = {}
        /\ Returning(p, 1) \cap Returning(p, -1) = {}
    <2> HIDE DEF D2
    <2> QED BY <1>2, <1>7, <1>8 DEF Returns, Returning, Placed
  <1>10. /\ Placed(P1)
         /\ Ordered(D2) => Ordered(P1)
         /\ P1.runnable = D2.runnable
         /\ P1.complete = D2.complete \cup Returning(p, 1)
    <2> HIDE DEF D2
    <2> QED BY <1>7, <1>9, PassedKeeps
  <1>11. /\ Placed(P2)
         /\ Ordered(P1) => Ordered(P2)
    <2>1. Returning(p, -1) \subseteq P1.runnable /\ Returning(p, -1) \cap P1.complete = {}
      BY <1>9, <1>10
    <2> HIDE DEF D2, P1
    <2> QED BY <1>10, <2>1, FailedKeeps
  <1>12. seq' = P2
    BY <1>2, <1>8 DEF PollSteps
  <1>13. Placed(seq')
    BY <1>11, <1>12
  <1>14. ASSUME Ordered(seq) PROVE Ordered(seq)'
    <2>1. Ordered(P2)
      BY <1>14, <1>4, <1>6, <1>7, <1>10, <1>11
    <2> HIDE DEF P2
    <2> QED BY <1>3, <1>12, <2>1 DEF Ordered
  <1> QED BY <1>13, <1>14

-----------------------------------------------------------------------------
\* Every call keeps each step at one place of its life.
LEMMA PlacedStep ==
  Placed(seq) /\ [Next]_vars => Placed(seq')
  <1> SUFFICES ASSUME Placed(seq), [Next]_vars PROVE Placed(seq')
    OBVIOUS
  <1>1. CASE Poll
    BY <1>1, PollKeeps
  <1>2. CASE \E mask \in SUBSET Flags : RequestSteps(mask)
    BY <1>2 DEF RequestSteps, Placed, Shape, MaskNames
  <1>3. CASE \E mask \in SUBSET Flags : ResetSteps(mask)
    BY <1>3 DEF ResetSteps, Cleared, Placed, Shape, MaskNames
  <1>4. CASE ResetSequencer
    BY <1>4 DEF ResetSequencer, Empty, Placed, Shape, MaskNames
  <1>5. CASE UNCHANGED vars
    BY <1>5 DEF vars
  <1> QED BY <1>1, <1>2, <1>3, <1>4, <1>5 DEF Next

\* Initially no step is anywhere.
LEMMA PlacedInit == Init => Placed(seq)
  BY DEF Init, Empty, Placed, Shape, MaskNames

\* Whatever is requested, reset and polled, in whichever order and with whatever
\* the functions of the steps return: a step is at one place of its life, and it
\* passed only if it is complete.
THEOREM ExclusiveCorrect == Spec => []Exclusive
  <1>1. Placed(seq) /\ [Next]_vars => Placed(seq)'
    BY PlacedStep
  <1>2. Placed(seq) => Exclusive
    BY DEF Placed, Exclusive
  <1> QED BY PlacedInit, <1>1, <1>2, PTL DEF Spec

\* No step runs before the steps it depends on have passed, provided that a step
\* is reset together with those that depend on it.
THEOREM OrderCorrect ==
  ASSUME ~PartialResets
  PROVE  Spec => []RunsAfterDeps
  <1> DEFINE Inv == /\ deps \in [Steps -> SUBSET Steps]
                    /\ Placed(seq)
                    /\ RunsAfterDeps
  <1>1. Init => Inv
    <2>1. Init => deps \in [Steps -> SUBSET Steps] /\ RunsAfterDeps
      BY DEF Init, Graphs, Empty, RunsAfterDeps
    <2> QED BY <2>1, PlacedInit
  <1>2. Inv /\ [Next]_vars => Inv'
    <2> SUFFICES ASSUME Inv, [Next]_vars PROVE Inv'
      OBVIOUS
    <2>1. Placed(seq')
      BY PlacedStep
    <2>2. deps' = deps
      BY DEF Next, Poll, PollReady, RequestSteps, ResetSteps, ResetSequencer, vars
    <2> SUFFICES RunsAfterDeps'
      BY <2>1, <2>2
    <2>3. CASE Poll
      BY <2>3, PollKeeps DEF Ordered, RunsAfterDeps
    <2>4. CASE \E mask \in SUBSET Flags : RequestSteps(mask)
      BY <2>4, <2>2 DEF RequestSteps, RunsAfterDeps, Placed, Shape, MaskNames
    <2>5. CASE \E mask \in SUBSET Flags : ResetSteps(mask)
      <3>1. PICK mask \in SUBSET Flags : ResetSteps(mask)
        BY <2>5
      <3>2. \A s \in seq'.runnable : s \in seq.runnable /\ s \in Steps /\ s \notin mask
        BY <3>1 DEF ResetSteps, Cleared, Placed, Shape, MaskNames
      <3>3. \A s \in seq'.runnable : deps[s] \cap mask = {}
        BY <3>1, <3>2 DEF ResetSteps, WithDependents
      <3>4. seq'.passed = seq.passed \ mask
        BY <3>1 DEF ResetSteps, Cleared, Placed, Shape, MaskNames
      <3> QED BY <2>2, <3>2, <3>3, <3>4 DEF RunsAfterDeps
    <2>6. CASE ResetSequencer
      BY <2>6 DEF ResetSequencer, Empty, RunsAfterDeps
    <2>7. CASE UNCHANGED vars
      BY <2>7 DEF vars, RunsAfterDeps
    <2> QED BY <2>3, <2>4, <2>5, <2>6, <2>7 DEF Next
  <1>3. Inv => RunsAfterDeps
    OBVIOUS
  <1> HIDE DEF Inv
  <1> QED BY <1>1, <1>2, <1>3, PTL DEF Spec

-----------------------------------------------------------------------------
(***************************************************************************)
(* What a poll does to the masks, and the two properties of a step.        *)
(***************************************************************************)

\* Some steps start (D) or fail to (X), and some of those that run pass (A) or
\* fail (F); a step that is complete is none of them.
LEMMA PollMasks ==
  ASSUME Placed(seq), Poll
  PROVE  \E D, X, A, F :
           /\ D \subseteq ToDispatch(seq) /\ X \subseteq ToDispatch(seq) /\ D \cap X = {}
           /\ A \subseteq (seq.running \cup D) \ X /\ F \subseteq (seq.running \cup D) \ X
           /\ A \cap F = {}
           /\ seq'.requested = seq.requested
           /\ seq'.runnable = seq.runnable \cup NewRunnable(seq)
           /\ seq'.running = ((seq.running \cup D) \ X) \ (A \cup F)
           /\ seq'.complete = seq.complete \cup X \cup A \cup F
           /\ seq'.passed = seq.passed \cup A
  <1>1. PICK d \in Returns(ToDispatch(seq)) :
          \E p \in Returns(AfterDispatch(seq, d).running) :
            seq' = PollSteps(AfterDispatch(seq, d), p)
    BY DEF Poll, PollReady
  <1>2. PICK p \in Returns(AfterDispatch(seq, d).running) :
          seq' = PollSteps(AfterDispatch(seq, d), p)
    BY <1>1
  <1> DEFINE D == Returning(d, 1)   X == Returning(d, -1)
             A == Returning(p, 1)   F == Returning(p, -1)
             C == CheckDependencies(seq)
             E == AfterDispatch(seq, d)
  <1>3. /\ D \subseteq ToDispatch(seq) /\ X \subseteq ToDispatch(seq) /\ D \cap X = {}
        /\ A \subseteq E.running /\ F \subseteq E.running /\ A \cap F = {}
    BY <1>1, <1>2 DEF Returns, Returning
  <1> HIDE DEF D, X, A, F
  <1>4. /\ Shape(C)
        /\ C.requested = seq.requested /\ C.running = seq.running
        /\ C.runnable = seq.runnable \cup NewRunnable(seq)
        /\ C.complete = seq.complete /\ C.passed = seq.passed
    BY DEF CheckDependencies, Placed, Shape, MaskNames
  <1>5. E = MarkFailed(MarkDispatched(C, D), X)
    BY DEF AfterDispatch, DispatchSteps, D, X
  <1>6. seq' = MarkFailed(MarkPassed(E, A), F)
    BY <1>2 DEF PollSteps, A, F
  <1> HIDE DEF C, E
  <1>7. /\ Shape(E)
        /\ E.requested = C.requested /\ E.runnable = C.runnable
        /\ E.running = (C.running \cup D) \ X
        /\ E.complete = (C.complete \ D) \cup X
        /\ E.passed = (C.passed \ D) \ X
    <2> DEFINE G == MarkDispatched(C, D)
    <2>1. /\ Shape(G)
          /\ G.requested = C.requested /\ G.runnable = C.runnable
          /\ G.running = C.running \cup D
          /\ G.complete = C.complete \ D /\ G.passed = C.passed \ D
      BY <1>4 DEF MarkDispatched, Shape, MaskNames
    <2>2. E = MarkFailed(G, X)
      BY <1>5
    <2> HIDE DEF G
    <2> QED BY <2>1, <2>2 DEF MarkFailed, Shape, MaskNames
  <1>8. /\ seq'.requested = E.requested /\ seq'.runnable = E.runnable
        /\ seq'.running = (E.running \ A) \ F
        /\ seq'.complete = (E.complete \cup A) \cup F
        /\ seq'.passed = (E.passed \cup A) \ F
    <2> DEFINE G == MarkPassed(E, A)
    <2>1. /\ Shape(G)
          /\ G.requested = E.requested /\ G.runnable = E.runnable
          /\ G.running = E.running \ A
          /\ G.complete = E.complete \cup A /\ G.passed = E.passed \cup A
      BY <1>7 DEF MarkPassed, Shape, MaskNames
    <2>2. seq' = MarkFailed(G, F)
      BY <1>6
    <2> HIDE DEF G
    <2> QED BY <2>1, <2>2 DEF MarkFailed, Shape, MaskNames
  <1>9. /\ ToDispatch(seq) \cap seq.complete = {}
        /\ seq.passed \subseteq seq.complete /\ seq.running \cap seq.complete = {}
    BY DEF ToDispatch, Placed
  <1> WITNESS D, X, A, F
  <1> QED BY <1>3, <1>4, <1>7, <1>8, <1>9

\* A verdict is final, whatever is reset and requested again: a step that passed
\* or failed is not run again while its request stands.
THEOREM VerdictStands == Spec => VerdictFinal
  <1> DEFINE Stands == \A s \in seq.complete \cap seq'.requested :
                         /\ s \in seq'.complete
                         /\ s \in seq.passed <=> s \in seq'.passed
  <1>1. Placed(seq) /\ [Next]_vars => [Stands]_vars
    <2> SUFFICES ASSUME Placed(seq), Next PROVE Stands
      OBVIOUS
    <2>1. CASE Poll
      <3>1. ToDispatch(seq) \cap seq.complete = {} /\ seq.running \cap seq.complete = {}
        BY DEF ToDispatch, Placed
      <3> QED BY <2>1, <3>1, PollMasks
    <2>2. CASE \E mask \in SUBSET Flags : RequestSteps(mask)
      BY <2>2 DEF RequestSteps, Placed, Shape, MaskNames
    <2>3. CASE \E mask \in SUBSET Flags : ResetSteps(mask)
      BY <2>3 DEF ResetSteps, Cleared, Placed, Shape, MaskNames
    <2>4. CASE ResetSequencer
      BY <2>4 DEF ResetSequencer, Empty
    <2> QED BY <2>1, <2>2, <2>3, <2>4 DEF Next
  <1>2. Placed(seq) /\ [Next]_vars => Placed(seq)'
    BY PlacedStep
  <1> QED BY PlacedInit, <1>1, <1>2, PTL DEF Spec, VerdictFinal

\* The count of the bits in which two sets of steps differ is 0 only for equal sets.
LEMMA NoDifference ==
  ASSUME NEW S \in SUBSET Steps, NEW T \in SUBSET Steps
  PROVE  /\ Cardinality(SymDiff(S, T)) \in Nat
         /\ Cardinality(SymDiff(S, T)) = 0 => S = T
  <1>1. IsFiniteSet(Steps)
    BY SequencerAssumption, FS_Interval DEF Steps
  <1>2. SymDiff(S, T) \in SUBSET Steps
    BY DEF SymDiff
  <1>3. IsFiniteSet(SymDiff(S, T))
    BY <1>1, <1>2, FS_Subset
  <1>4. Cardinality(SymDiff(S, T)) = 0 => SymDiff(S, T) = {}
    BY <1>3, FS_EmptySet
  <1> QED BY <1>3, <1>4, FS_CardinalityType DEF SymDiff

\* poll() returns 0 only for a pass in which nothing changed: no step started,
\* got its verdict or became runnable.
THEOREM ZeroSaysStagnant == Spec => ZeroIsStagnant
  <1>1. Placed(seq) /\ [Next]_vars
          => [Poll /\ Transitions(seq, seq') = 0 => UNCHANGED seq]_vars
    <2> SUFFICES ASSUME Placed(seq), Poll, Transitions(seq, seq') = 0
                 PROVE  seq' = seq
      OBVIOUS
    <2>1. Placed(seq')
      BY PollKeeps
    <2>2. /\ seq.running = seq'.running
          /\ seq.complete = seq'.complete
          /\ ToDispatch(seq) = ToDispatch(seq')
      <3> DEFINE R == Cardinality(SymDiff(seq.running, seq'.running))
                 C == Cardinality(SymDiff(seq.complete, seq'.complete))
                 T == Cardinality(SymDiff(ToDispatch(seq), ToDispatch(seq')))
      <3>1. R \in Nat /\ (R = 0 => seq.running = seq'.running)
        BY <2>1, NoDifference DEF Placed
      <3>2. C \in Nat /\ (C = 0 => seq.complete = seq'.complete)
        BY <2>1, NoDifference DEF Placed
      <3>3. T \in Nat /\ (T = 0 => ToDispatch(seq) = ToDispatch(seq'))
        BY <2>1, NoDifference DEF Placed, ToDispatch
      <3>4. R + C + T = 0
        BY DEF Transitions
      <3> HIDE DEF R, C, T
      <3>5. R = 0 /\ C = 0 /\ T = 0
        BY <3>1, <3>2, <3>3, <3>4
      <3> QED BY <3>1, <3>2, <3>3, <3>5
    <2>3. /\ seq'.requested = seq.requested
          /\ seq'.runnable = seq.runnable \cup NewRunnable(seq)
          /\ seq'.passed = seq.passed
      BY <2>2, PollMasks DEF ToDispatch, Placed
    <2>4. NewRunnable(seq) = {}
      <3>1. /\ NewRunnable(seq) \cap seq.runnable = {}
            /\ seq.complete \subseteq seq.runnable /\ seq.running \subseteq seq.runnable
        BY DEF NewRunnable, Placed
      <3> QED BY <2>2, <2>3, <3>1 DEF ToDispatch
    <2> QED BY <2>1, <2>2, <2>3, <2>4 DEF Placed, Shape, MaskNames
  <1>2. Placed(seq) /\ [Next]_vars => Placed(seq)'
    BY PlacedStep
  <1> QED BY PlacedInit, <1>1, <1>2, PTL DEF Spec, ZeroIsStagnant

-----------------------------------------------------------------------------
(***************************************************************************)
(* The dependencies that a request brings along.  The library's induction  *)
(* takes an operator; for the sets here, a least element will do.          *)
(***************************************************************************)

\* A set of natural numbers that is not empty has a least element.
LEMMA LeastElement ==
  ASSUME NEW T \in SUBSET Nat, T # {}
  PROVE  \E x \in T : \A y \in T : x <= y
  <1> DEFINE R == {ss \in Nat \X Nat : ss[1] < ss[2]}
  <1>1. IsWellFoundedOn(R, Nat)
    BY NatLessThanWellFounded DEF OpToRel
  <1> HIDE DEF R
  <1>2. PICK x \in T : \A y \in T : ~(<<y, x>> \in R)
    BY <1>1, WFMin
  <1>3. ASSUME NEW y \in T PROVE x <= y
    <2>1. x \in Nat /\ y \in Nat
      OBVIOUS
    <2>2. ~(<<y, x>> \in R)
      BY <1>2
    <2> QED BY <2>1, <2>2 DEF R
  <1> QED BY <1>3

\* Induction up to N.
LEMMA UpTo ==
  ASSUME NEW N \in Nat, NEW P, 0 \in P,
         \A n \in 1..N : n - 1 \in P => n \in P
  PROVE  0..N \subseteq P
  <1> DEFINE T == (0..N) \ P
  <1> SUFFICES ASSUME T # {} PROVE FALSE
    OBVIOUS
  <1>1. PICK x \in T : \A y \in T : x <= y
    <2>1. T \in SUBSET Nat
      OBVIOUS
    <2> HIDE DEF T
    <2> QED BY <2>1, LeastElement
  <1>2. x \in 1..N /\ x - 1 \in 0..N
    BY <1>1
  <1>3. x - 1 \in P
    <2>1. ~(x <= x - 1)
      BY <1>2
    <2> QED BY <1>1, <1>2, <2>1
  <1> QED BY <1>1, <1>2, <1>3

\* What each of the values 1 to N makes of the one before it, and whether there is
\* a function that goes along with it, from v on.
Rules(N, V) == [1..N -> [V -> V]]

Solvable(N, V, v, T) ==
  \E f \in [0..N -> V] : f[0] = v /\ \A i \in 1..N : f[i] = T[i][f[i - 1]]

\* A recursive definition up to N has a function that satisfies it.
LEMMA RecursionUpTo ==
  ASSUME NEW N \in Nat, NEW V, NEW v \in V, NEW T \in Rules(N, V)
  PROVE  Solvable(N, V, v, T)
  <1> DEFINE Solves(f, n) == f[0] = v /\ \A i \in 1..n : f[i] = T[i][f[i - 1]]
             P == {n \in 0..N : \E f \in [0..n -> V] : Solves(f, n)}
  <1>1. 0 \in P
    <2> DEFINE g == [i \in 0..0 |-> v]
    <2>1. Solves(g, 0) /\ g \in [0..0 -> V]
      OBVIOUS
    <2> HIDE DEF g, Solves
    <2> QED BY <2>1
  <1>2. ASSUME NEW n \in 1..N, n - 1 \in P PROVE n \in P
    <2>1. PICK f \in [0..(n - 1) -> V] : Solves(f, n - 1)
      BY <1>2
    <2> DEFINE g == [i \in 0..n |-> IF i = n THEN T[n][f[n - 1]] ELSE f[i]]
    <2>2. g \in [0..n -> V]
      BY DEF Rules
    <2>3. g[n] = T[n][g[n - 1]] /\ g[0] = v
      BY <2>1
    <2>4. ASSUME NEW i \in 1..n PROVE g[i] = T[i][g[i - 1]]
      <3>1. CASE i = n
        BY <2>3, <3>1
      <3>2. CASE i # n
        <4>1. i \in 1..(n - 1) /\ i - 1 \in 0..(n - 1)
          BY <3>2
        <4> QED BY <2>1, <4>1
      <3> QED BY <3>1, <3>2
    <2> HIDE DEF g
    <2>5. Solves(g, n)
      BY <2>3, <2>4
    <2> HIDE DEF Solves
    <2> QED BY <2>2, <2>5
  <1> HIDE DEF P
  <1>3. 0..N \subseteq P
    BY <1>1, <1>2, UpTo
  <1>4. N \in P
    BY <1>3
  <1> QED BY <1>4 DEF P, Solvable

\* A turn adds steps to steps.
LEMMA TurnType ==
  ASSUME deps \in [Steps -> SUBSET Steps],
         NEW mask \in SUBSET Flags, NEW recursive \in [SUBSET Flags -> SUBSET Steps],
         NEW i \in Steps, NEW ret \in SUBSET Steps
  PROVE  Turn(ret, i, mask, recursive) \in SUBSET Steps
  <1>1. deps[i] \ (ret \cup {i}) \in SUBSET Flags
    BY DEF Flags
  <1> QED BY <1>1 DEF Turn

\* The values of ret satisfy the recursion that defines them.
LEMMA LoopIs ==
  ASSUME deps \in [Steps -> SUBSET Steps],
         NEW mask \in SUBSET Flags, NEW recursive \in [SUBSET Flags -> SUBSET Steps]
  PROVE  /\ Loop(mask, recursive) \in [0..StepCount -> SUBSET Steps]
         /\ Loop(mask, recursive)[0] = {}
         /\ \A i \in Steps : Loop(mask, recursive)[i]
                               = Turn(Loop(mask, recursive)[i - 1], i, mask, recursive)
  <1> DEFINE T == [i \in 1..StepCount |->
                     [ret \in SUBSET Steps |-> Turn(ret, i, mask, recursive)]]
             Is(f) == f = [i \in 0..StepCount |->
                             IF i = 0 THEN {} ELSE Turn(f[i - 1], i, mask, recursive)]
  <1>1. T \in [1..StepCount -> [SUBSET Steps -> SUBSET Steps]]
    BY TurnType DEF Steps
  <1>2. StepCount \in Nat
    BY SequencerAssumption
  <1>3. PICK f \in [0..StepCount -> SUBSET Steps] :
          /\ f[0] = {}
          /\ \A i \in 1..StepCount : f[i] = T[i][f[i - 1]]
    <2>1. T \in Rules(StepCount, SUBSET Steps) /\ {} \in SUBSET Steps
      BY <1>1 DEF Rules
    <2> HIDE DEF T
    <2>2. Solvable(StepCount, SUBSET Steps, {}, T)
      BY <1>2, <2>1, RecursionUpTo
    <2> QED BY <2>2 DEF Solvable
  <1>4. ASSUME NEW i \in 1..StepCount PROVE f[i] = Turn(f[i - 1], i, mask, recursive)
    <2>1. f[i - 1] \in SUBSET Steps
      BY <1>2
    <2>2. T[i] = [ret \in SUBSET Steps |-> Turn(ret, i, mask, recursive)]
      OBVIOUS
    <2> HIDE DEF T
    <2> QED BY <1>3, <2>1, <2>2
  <1>5. Is(f)
    BY <1>2, <1>3, <1>4
  <1>6. Is(Loop(mask, recursive))
    BY <1>5, Zenon DEF Loop
  <1>7. ASSUME NEW g, Is(g)
        PROVE  /\ g[0] = {}
               /\ \A i \in Steps : g[i] = Turn(g[i - 1], i, mask, recursive)
               /\ g \in [0..StepCount -> SUBSET Steps]
    <2>1. g[0] = {} /\ \A i \in Steps : g[i] = Turn(g[i - 1], i, mask, recursive)
      <3>1. /\ 0 \in 0..StepCount
            /\ \A i \in Steps : i \in 0..StepCount /\ i # 0
        BY <1>2 DEF Steps
      <3>2. \A i \in 0..StepCount : g[i] = IF i = 0 THEN {} ELSE Turn(g[i - 1], i, mask, recursive)
        BY <1>7
      <3> QED BY <3>1, <3>2
    <2> DEFINE P == {i \in 0..StepCount : g[i] \in SUBSET Steps}
    <2>2. ASSUME NEW i \in 1..StepCount, i - 1 \in P PROVE i \in P
      <3>1. g[i - 1] \in SUBSET Steps /\ i \in Steps /\ i \in 0..StepCount
        BY <1>2, <2>2 DEF Steps
      <3>2. Turn(g[i - 1], i, mask, recursive) \in SUBSET Steps
        BY <3>1, TurnType
      <3>3. g[i] \in SUBSET Steps
        BY <2>1, <3>1, <3>2
      <3> QED BY <3>1, <3>3
    <2>3. 0 \in P
      BY <1>2, <2>1
    <2> HIDE DEF P
    <2>4. 0..StepCount \subseteq P
      BY <1>2, <2>2, <2>3, UpTo
    <2>5. \A i \in 0..StepCount : g[i] \in SUBSET Steps
      BY <2>4 DEF P
    <2> QED BY <1>7, <2>1, <2>5
  <1> HIDE DEF Is
  <1> QED BY <1>6, <1>7

\* The recursive calls satisfy the recursion that defines them.
LEMMA CoveredIs ==
  ASSUME deps \in [Steps -> SUBSET Steps]
  PROVE  /\ Covered \in [0..(StepCount + 1) -> [SUBSET Flags -> SUBSET Steps]]
         /\ \A mask \in SUBSET Flags : Covered[0][mask] = {}
         /\ \A calls \in 1..(StepCount + 1), mask \in SUBSET Flags :
              Covered[calls][mask] = Loop(mask, Covered[calls - 1])[StepCount]
  <1> DEFINE N    == StepCount + 1
             V    == [SUBSET Flags -> SUBSET Steps]
             v    == [mask \in SUBSET Flags |-> {}]
             T    == [calls \in 1..N |-> [recursive \in V |->
                       [mask \in SUBSET Flags |-> Loop(mask, recursive)[StepCount]]]]
             Is(f) == f = [calls \in 0..(StepCount + 1) |->
                             [mask \in SUBSET Flags |->
                                IF calls = 0 THEN {} ELSE Loop(mask, f[calls - 1])[StepCount]]]
  <1>1. StepCount \in Nat /\ N \in Nat
    BY SequencerAssumption
  <1>2. ASSUME NEW recursive \in V, NEW mask \in SUBSET Flags
        PROVE  Loop(mask, recursive)[StepCount] \in SUBSET Steps
    <2>1. StepCount \in 0..StepCount
      BY <1>1
    <2>2. Loop(mask, recursive) \in [0..StepCount -> SUBSET Steps]
      BY LoopIs
    <2> QED BY <2>1, <2>2
  <1>3. T \in Rules(N, V) /\ v \in V
    BY <1>2 DEF Rules
  <1>4. PICK f \in [0..N -> V] : f[0] = v /\ \A calls \in 1..N : f[calls] = T[calls][f[calls - 1]]
    <2> HIDE DEF N, V, v, T
    <2> QED BY <1>1, <1>3, RecursionUpTo DEF Solvable
  <1>5. ASSUME NEW calls \in 1..N
        PROVE  f[calls] = [mask \in SUBSET Flags |-> Loop(mask, f[calls - 1])[StepCount]]
    <2>1. f[calls - 1] \in V
      <3> HIDE DEF N, V
      <3>1. calls - 1 \in 0..N
        BY <1>1
      <3> QED BY <3>1
    <2>2. T[calls] = [recursive \in V |->
                        [mask \in SUBSET Flags |-> Loop(mask, recursive)[StepCount]]]
      OBVIOUS
    <2> HIDE DEF T, V
    <2> QED BY <1>4, <2>1, <2>2
  <1>6. Is(f)
    <2>1. ASSUME NEW calls \in 0..N
          PROVE  f[calls] = [mask \in SUBSET Flags |->
                               IF calls = 0 THEN {} ELSE Loop(mask, f[calls - 1])[StepCount]]
      <3>1. CASE calls = 0
        BY <1>4, <3>1
      <3>2. CASE calls # 0
        <4>1. calls \in 1..N
          BY <1>1, <3>2
        <4> QED BY <1>5, <3>2, <4>1
      <3> QED BY <3>1, <3>2
    <2> QED BY <2>1
  <1>7. Is(Covered)
    BY <1>6, Zenon DEF Covered
  <1>8. ASSUME NEW g, Is(g)
        PROVE  /\ \A mask \in SUBSET Flags : g[0][mask] = {}
               /\ \A calls \in 1..N, mask \in SUBSET Flags :
                    g[calls][mask] = Loop(mask, g[calls - 1])[StepCount]
               /\ g \in [0..N -> V]
    <2>1. \A calls \in 0..N : g[calls] = [mask \in SUBSET Flags |->
                                IF calls = 0 THEN {} ELSE Loop(mask, g[calls - 1])[StepCount]]
      BY <1>8
    <2>2. /\ 0 \in 0..N
          /\ \A calls \in 1..N : calls \in 0..N /\ calls # 0
      BY <1>1
    <2>3. \A mask \in SUBSET Flags : g[0][mask] = {}
      BY <2>1, <2>2
    <2>4. ASSUME NEW calls \in 1..N
          PROVE  g[calls] = [mask \in SUBSET Flags |-> Loop(mask, g[calls - 1])[StepCount]]
      <3>1. calls \in 0..N /\ calls # 0
        BY <2>2
      <3>2. g[calls] = [mask \in SUBSET Flags |->
                          IF calls = 0 THEN {} ELSE Loop(mask, g[calls - 1])[StepCount]]
        BY <2>1, <3>1
      <3> HIDE DEF N
      <3> QED BY <3>1, <3>2
    <2> DEFINE P == {calls \in 0..N : g[calls] \in V}
    <2>5. 0 \in P
      BY <2>1, <2>2
    <2>6. ASSUME NEW calls \in 1..N, calls - 1 \in P PROVE calls \in P
      <3>1. g[calls - 1] \in V /\ calls \in 0..N
        BY <2>2, <2>6
      <3>2. \A mask \in SUBSET Flags : Loop(mask, g[calls - 1])[StepCount] \in SUBSET Steps
        BY <1>2, <3>1
      <3>3. g[calls] \in V
        BY <2>4, <3>2
      <3> QED BY <3>1, <3>3
    <2>7. \A calls \in 0..N : g[calls] \in V
      <3> HIDE DEF P, N
      <3>1. 0..N \subseteq P
        BY <1>1, <2>5, <2>6, UpTo
      <3> QED BY <3>1 DEF P
    <2>8. g \in [0..N -> V]
      <3> HIDE DEF V
      <3> QED BY <1>8, <2>7
    <2>9. \A calls \in 1..N, mask \in SUBSET Flags :
            g[calls][mask] = Loop(mask, g[calls - 1])[StepCount]
      <3> HIDE DEF N
      <3> QED BY <2>4
    <2> QED BY <2>3, <2>8, <2>9
  <1> HIDE DEF Is
  <1> QED BY <1>7, <1>8

-----------------------------------------------------------------------------
\* Sets of steps that have all their dependencies in them, and the least of these
\* that has the steps of a mask.
Closed(S) == \A s \in S : deps[s] \subseteq S

IsClosure(S, mask) ==
  /\ S \in SUBSET Steps
  /\ mask \cap Steps \subseteq S
  /\ Closed(S)
  /\ \A U \in SUBSET Steps : mask \cap Steps \subseteq U /\ Closed(U) => S \subseteq U

\* The loop closes the mask if the recursive calls close what it leaves to them.
LEMMA LoopCloses ==
  ASSUME deps \in [Steps -> SUBSET Steps],
         NEW mask \in SUBSET Flags, NEW recursive \in [SUBSET Flags -> SUBSET Steps],
         \A i \in mask \cap Steps : \A D \in SUBSET deps[i] : IsClosure(recursive[D], D)
  PROVE  IsClosure(Loop(mask, recursive)[StepCount], mask)
  <1> DEFINE ret == Loop(mask, recursive)
             P   == {i \in 0..StepCount :
                       /\ mask \cap (1..i) \subseteq ret[i]
                       /\ Closed(ret[i])
                       /\ \A U \in SUBSET Steps :
                            mask \cap Steps \subseteq U /\ Closed(U) => ret[i] \subseteq U}
  <1>1. /\ ret \in [0..StepCount -> SUBSET Steps]
        /\ ret[0] = {}
        /\ \A i \in Steps : ret[i] = Turn(ret[i - 1], i, mask, recursive)
    BY LoopIs
  <1>2. StepCount \in Nat
    BY SequencerAssumption
  <1> HIDE DEF ret
  <1>3. 0 \in P
    BY <1>1, <1>2 DEF Closed
  <1>4. ASSUME NEW i \in 1..StepCount, i - 1 \in P PROVE i \in P
    <2> DEFINE before == ret[i - 1]
               now    == before \cup {i}
               D      == deps[i] \ now
    <2>1. /\ i \in Steps /\ i \in 0..StepCount /\ 1..i = (1..(i - 1)) \cup {i}
          /\ ret[i] = Turn(before, i, mask, recursive)
          /\ before \in SUBSET Steps
      BY <1>1, <1>2 DEF Steps
    <2>2. /\ mask \cap (1..(i - 1)) \subseteq before
          /\ Closed(before)
          /\ \A U \in SUBSET Steps : mask \cap Steps \subseteq U /\ Closed(U) => before \subseteq U
      BY <1>4
    <2>3. CASE i \notin mask
      <3>1. ret[i] = before
        BY <2>1, <2>3 DEF Turn
      <3> HIDE DEF before
      <3> QED BY <2>1, <2>2, <2>3, <3>1
    <2>4. CASE i \in mask /\ D = {}
      <3>1. ret[i] = now
        BY <2>1, <2>4 DEF Turn
      <3> HIDE DEF before
      <3>2. Closed(now)
        BY <2>2, <2>4 DEF Closed
      <3> QED BY <2>1, <2>2, <2>4, <3>1, <3>2
    <2>5. CASE i \in mask /\ D # {}
      <3>1. ret[i] = now \cup recursive[D]
        BY <2>1, <2>5 DEF Turn
      <3> HIDE DEF before
      <3>2. IsClosure(recursive[D], D)
        <4>1. i \in mask \cap Steps /\ D \in SUBSET deps[i]
          BY <2>1, <2>5
        <4> HIDE DEF D
        <4> QED BY <4>1
      <3>3. D \subseteq Steps
        BY <2>1
      <3>4. recursive[D] \in SUBSET Steps /\ D \subseteq recursive[D] /\ Closed(recursive[D])
        BY <3>2, <3>3 DEF IsClosure
      <3> DEFINE R == recursive[D]
      <3> HIDE DEF R
      <3>5. Closed(now \cup R)
        BY <2>2, <3>4 DEF Closed, R
      <3>6. ASSUME NEW U \in SUBSET Steps, mask \cap Steps \subseteq U, Closed(U)
            PROVE  now \cup R \subseteq U
        <4>1. i \in U /\ before \subseteq U
          BY <2>1, <2>2, <2>5, <3>6
        <4>2. D \cap Steps \subseteq U
          BY <3>6, <4>1 DEF Closed
        <4> HIDE DEF D
        <4>3. R \subseteq U
          BY <3>2, <3>6, <4>2 DEF IsClosure, R
        <4> QED BY <4>1, <4>3
      <3>7. ret[i] = now \cup R
        BY <3>1 DEF R
      <3> QED BY <2>1, <2>2, <3>5, <3>6, <3>7
    <2> QED BY <2>3, <2>4, <2>5
  <1>5. StepCount \in P
    <2> HIDE DEF P
    <2>1. 0..StepCount \subseteq P
      BY <1>2, <1>3, <1>4, UpTo
    <2> QED BY <1>2, <2>1
  <1> QED BY <1>1, <1>2, <1>5 DEF IsClosure, Steps, ret

\* _get_dependency_mask() returns "The argument, OR'd with all dependencies": the
\* steps of the mask, what these depend on, directly or not, and nothing else.
\* Without cycles among the dependencies, its limiter never cuts anything off.
THEOREM MaskIsClosure ==
  ASSUME deps \in Graphs, NEW mask \in SUBSET Flags
  PROVE  IsClosure(GetDependencyMask(mask), mask)
  <1>1. deps \in [Steps -> SUBSET Steps]
    BY DEF Graphs
  <1>2. PICK rank \in [Steps -> Steps] : \A s \in Steps : \A d \in deps[s] : rank[d] < rank[s]
    BY DEF Graphs
  <1>3. StepCount \in Nat
    BY SequencerAssumption
  <1> DEFINE Ranked(m, calls) == \A s \in m \cap Steps : rank[s] <= calls
             P == {calls \in 0..(StepCount + 1) :
                     \A m \in SUBSET Flags : Ranked(m, calls) => IsClosure(Covered[calls][m], m)}
  <1>4. 0 \in P
    <2> SUFFICES ASSUME NEW m \in SUBSET Flags, Ranked(m, 0) PROVE IsClosure(Covered[0][m], m)
      BY <1>3
    <2>1. m \cap Steps = {}
      BY <1>2 DEF Steps
    <2>2. Covered[0][m] = {}
      BY <1>1, CoveredIs
    <2> QED BY <2>1, <2>2 DEF IsClosure, Closed
  <1>5. ASSUME NEW calls \in 1..(StepCount + 1), calls - 1 \in P PROVE calls \in P
    <2> SUFFICES ASSUME NEW m \in SUBSET Flags, Ranked(m, calls)
                 PROVE  IsClosure(Covered[calls][m], m)
      BY <1>3
    <2> DEFINE R == Covered[calls - 1]
    <2>1. calls - 1 \in 0..(StepCount + 1)
      BY <1>3
    <2>2. R \in [SUBSET Flags -> SUBSET Steps]
      BY <1>1, <2>1, CoveredIs
    <2>3. Covered[calls][m] = Loop(m, R)[StepCount]
      BY <1>1, CoveredIs
    <2>4. ASSUME NEW i \in m \cap Steps, NEW D \in SUBSET deps[i] PROVE IsClosure(R[D], D)
      <3>1. D \in SUBSET Flags /\ D \subseteq Steps
        BY <1>1 DEF Flags
      <3>2. ASSUME NEW s \in D \cap Steps PROVE rank[s] <= calls - 1
        <4>1. rank[s] < rank[i] /\ rank[i] <= calls
          BY <1>2
        <4>2. rank[s] \in Nat /\ rank[i] \in Nat /\ calls \in Nat
          BY <1>2 DEF Steps
        <4> QED BY <4>1, <4>2
      <3> QED BY <1>5, <3>1, <3>2
    <2> HIDE DEF R
    <2> QED BY <1>1, <2>2, <2>3, <2>4, LoopCloses
  <1>6. StepCount + 1 \in P
    <2> HIDE DEF P
    <2>1. 0..(StepCount + 1) \subseteq P
      BY <1>3, <1>4, <1>5, UpTo
    <2> QED BY <1>3, <2>1
  <1>7. Ranked(mask, StepCount + 1)
    BY <1>2, <1>3 DEF Steps
  <1> QED BY <1>6, <1>7 DEF GetDependencyMask

\* What is requested is steps, whatever flags the callers use, and stays closed if
\* steps are reset with those that depend on them.
LEMMA RequestStep ==
  ASSUME deps \in Graphs, Placed(seq), seq.requested \subseteq Steps, [Next]_vars
  PROVE  /\ deps' = deps
         /\ seq'.requested \subseteq Steps
         /\ ~PartialResets /\ RequestClosed => RequestClosed'
  <1>1. deps' = deps
    BY DEF Next, Poll, PollReady, RequestSteps, ResetSteps, ResetSequencer, vars
  <1> DEFINE Kept == /\ seq'.requested \subseteq Steps
                     /\ ~PartialResets /\ RequestClosed
                          => \A s \in seq'.requested : deps[s] \subseteq seq'.requested
  <1>2. ASSUME Poll PROVE Kept
    <2>1. seq'.requested = seq.requested
      BY <1>2, PollMasks
    <2> QED BY <2>1 DEF RequestClosed
  <1>3. ASSUME NEW mask \in SUBSET Flags, RequestSteps(mask) PROVE Kept
    <2> DEFINE M == GetDependencyMask(mask)
    <2>1. M \in SUBSET Steps /\ Closed(M)
      BY MaskIsClosure DEF IsClosure
    <2>2. seq'.requested = seq.requested \cup M
      BY <1>3 DEF RequestSteps, Placed, Shape, MaskNames
    <2> HIDE DEF M
    <2> QED BY <2>1, <2>2 DEF RequestClosed, Closed
  <1>4. ASSUME NEW mask \in SUBSET Flags, ResetSteps(mask) PROVE Kept
    <2>1. seq'.requested = seq.requested \ mask
      BY <1>4 DEF ResetSteps, Cleared, Placed, Shape, MaskNames
    <2>2. PartialResets \/ WithDependents(mask)
      BY <1>4 DEF ResetSteps
    <2> QED BY <2>1, <2>2 DEF RequestClosed, WithDependents
  <1>5. ASSUME ResetSequencer PROVE Kept
    BY <1>5 DEF ResetSequencer, Empty
  <1>6. ASSUME UNCHANGED vars PROVE Kept
    BY <1>6 DEF vars, RequestClosed
  <1>7. Kept
    BY <1>2, <1>3, <1>4, <1>5, <1>6 DEF Next
  <1> QED BY <1>1, <1>7 DEF RequestClosed

\* Every mask is a set of steps.
THEOREM SequencerTypeSafe == Spec => []SequencerTypeOK
  <1> DEFINE Inv == deps \in Graphs /\ Placed(seq) /\ seq.requested \subseteq Steps
  <1>1. Init => Inv
    BY PlacedInit DEF Init, Empty
  <1>2. Inv /\ [Next]_vars => Inv'
    BY RequestStep, PlacedStep
  <1>3. Inv => SequencerTypeOK
    BY DEF SequencerTypeOK, Masks, Placed, Shape, MaskNames
  <1> HIDE DEF Inv
  <1> QED BY <1>1, <1>2, <1>3, PTL DEF Spec

\* Whatever is requested, so are the steps it depends on, directly or not, provided
\* that a step is reset together with those that depend on it.
THEOREM RequestsClosed ==
  ASSUME ~PartialResets
  PROVE  Spec => []RequestClosed
  <1> DEFINE Inv == /\ deps \in Graphs /\ Placed(seq) /\ seq.requested \subseteq Steps
                    /\ RequestClosed
  <1>1. Init => Inv
    BY PlacedInit DEF Init, Empty, RequestClosed
  <1>2. Inv /\ [Next]_vars => Inv'
    BY RequestStep, PlacedStep
  <1>3. Inv => RequestClosed
    OBVIOUS
  <1> HIDE DEF Inv
  <1> QED BY <1>1, <1>2, <1>3, PTL DEF Spec
=============================================================================
