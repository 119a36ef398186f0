-------------------------- MODULE M2MSessionProofs --------------------------
(***************************************************************************)
(* Theorems about a session of two M2MLinks: type correctness, the plan    *)
(* invariant, that each link lives the life of LinkLifecycle, that a       *)
(* HANGUP that is heard was sent, and that a message that waits for a      *)
(* reply is released by that reply and by nothing else but for cause.      *)
(***************************************************************************)
EXTENDS M2MSession, M2MLinkProofs, SequenceTheorems

\* Between two steps.
LinkOK(L) == Sized(L, BufCap) /\ L.inb = <<>> /\ ~L.just

\* The bound of the input buffer is a number.
LEMMA BufCapNat == BufCap \in Nat
BY SessionAssumption

-----------------------------------------------------------------------------
\* What preserves the plan invariant

\* State, plan and connection are as they were.
LEMMA PlanSteady ==
  ASSUME NEW L, NEW M, PlanFits(L), M.st = L.st, M.wp = L.wp, M.est = L.est
  PROVE  PlanFits(M)
BY DEF PlanFits

\* A CONNECT was answered.
LEMMA PlanConfirmed ==
  ASSUME NEW L, NEW M, PlanFits(L), M.st = L.st, M.wp = L.wp, M.est = L.est \/ M.est,
         L.st \in Accepting
  PROVE  PlanFits(M)
BY DEF PlanFits, Accepting

\* A route that leads onward is appended.
LEMMA PlanAppended ==
  ASSUME NEW L \in Link, Len(L.wp) <= WpDepth, NEW M, PlanFits(L), M.st = L.st, M.est = L.est,
         NEW r \in Onward, M.wp = AppendRoute(L.wp, r)
  PROVE  PlanFits(M)
<1>1. L.wp \in Seq(States) /\ Len(L.wp) \in Nat
  BY FieldTypes
<1>2. r \in Seq(States)
  BY OnwardType
<1>3. \A k \in 1..Len(r) : r[k] # "SYNC_RESYNC" /\ r[k] # "PENDING_SETUP"
  BY DEF Onward
<1>4. /\ M.wp \in Seq(States)
      /\ Len(M.wp) >= Len(L.wp) /\ Len(M.wp) \in Nat
      /\ \A i \in 1..Len(L.wp) : M.wp[i] = L.wp[i]
      /\ \A i \in 1..Len(M.wp) : i > Len(L.wp) => \E k \in 1..Len(r) : M.wp[i] = r[k]
  BY <1>1, <1>2, AppendRouteType
<1>5. ASSUME NEW i \in 1..Len(M.wp), M.wp[i] = "SYNC_RESYNC"
      PROVE  i < Len(M.wp) /\ M.wp[i+1] = "SYNC_TENTATIVE"
  <2>1. i \in 1..Len(L.wp)
    BY <1>1, <1>3, <1>4, <1>5
  <2>2. L.wp[i] = "SYNC_RESYNC"
    BY <1>4, <1>5, <2>1
  <2>3. i < Len(L.wp) /\ L.wp[i+1] = "SYNC_TENTATIVE"
    BY <2>1, <2>2 DEF PlanFits
  <2>4. i + 1 \in 1..Len(L.wp)
    BY <1>1, <2>1, <2>3
  <2> QED BY <1>1, <1>4, <2>1, <2>3, <2>4
<1>6. ASSUME NEW i \in 1..Len(M.wp), M.wp[i] = "PENDING_SETUP"
      PROVE  M.st \in {"UNINIT", "HUNGUP"}
  <2>1. i \in 1..Len(L.wp)
    BY <1>1, <1>3, <1>4, <1>6
  <2>2. L.wp[i] = "PENDING_SETUP"
    BY <1>4, <1>6, <2>1
  <2> QED BY <2>1, <2>2 DEF PlanFits
<1>7. L.wp # <<>> => M.wp # <<>> /\ Head(M.wp) = Head(L.wp)
  BY <1>1, <1>4
<1> QED BY <1>5, <1>6, <1>7 DEF PlanFits

\* A resync is planned.
LEMMA PlanPrepended ==
  ASSUME NEW L \in Link, NEW M, PlanFits(L), M.st = L.st, M.est = L.est,
         L.st \in Accepting, Replanned(L, M)
  PROVE  PlanFits(M)
<1>1. L.wp \in Seq(States) /\ Len(L.wp) \in Nat
  BY FieldTypes
<1>2. CASE M.wp = L.wp
  BY <1>2, PlanSteady
<1>3. CASE M.wp = <<"SYNC_TENTATIVE">> \o L.wp
  <2>1. /\ Len(M.wp) = Len(L.wp) + 1
        /\ M.wp[1] = "SYNC_TENTATIVE"
        /\ \A i \in 1..Len(L.wp) : M.wp[i+1] = L.wp[i]
        /\ M.wp # <<>> /\ Head(M.wp) = "SYNC_TENTATIVE"
    BY <1>1, <1>3
  <2>2. \A i \in 1..Len(M.wp) : i = 1 \/ (i - 1 \in 1..Len(L.wp) /\ M.wp[i] = L.wp[i-1])
    BY <1>1, <2>1
  <2>3. ASSUME NEW i \in 1..Len(M.wp), M.wp[i] = "SYNC_RESYNC"
        PROVE  i < Len(M.wp) /\ M.wp[i+1] = "SYNC_TENTATIVE"
    <3>1. CASE i = 1
      BY <1>1, <2>1, <2>3, <3>1
    <3>2. CASE i > 1
      <4> DEFINE j == i - 1
      <4>1. j \in 1..Len(L.wp) /\ L.wp[j] = "SYNC_RESYNC" /\ i = j + 1
        BY <2>2, <2>3, <3>2
      <4> HIDE DEF j
      <4>2. j < Len(L.wp) /\ L.wp[j+1] = "SYNC_TENTATIVE"
        BY <4>1 DEF PlanFits
      <4>3. j + 1 \in 1..Len(L.wp)
        BY <1>1, <4>1, <4>2
      <4>4. M.wp[j + 1 + 1] = L.wp[j + 1] /\ j + 1 + 1 = i + 1
        BY <2>1, <4>1, <4>3
      <4> QED BY <1>1, <2>1, <4>1, <4>2, <4>4
    <3> QED BY <2>1, <2>3, <3>1, <3>2
  <2>4. ASSUME NEW i \in 1..Len(M.wp), M.wp[i] = "PENDING_SETUP"
        PROVE  M.st \in {"UNINIT", "HUNGUP"}
    BY <2>1, <2>2, <2>4 DEF PlanFits
  <2>5. M.st \in Accepting
    OBVIOUS
  <2> QED BY <2>1, <2>3, <2>4, <2>5 DEF PlanFits, Accepting
<1>4. CASE M.wp = <<"SYNC_RESYNC">> \o (<<"SYNC_TENTATIVE">> \o L.wp)
  <2>1. /\ Len(M.wp) = Len(L.wp) + 2
        /\ M.wp[1] = "SYNC_RESYNC" /\ M.wp[2] = "SYNC_TENTATIVE"
        /\ \A i \in 1..Len(L.wp) : M.wp[i+2] = L.wp[i]
        /\ M.wp # <<>> /\ Head(M.wp) = "SYNC_RESYNC"
    <3> DEFINE u == <<"SYNC_TENTATIVE">> \o L.wp
    <3>1. /\ u \in Seq(States) /\ Len(u) = Len(L.wp) + 1 /\ u[1] = "SYNC_TENTATIVE"
          /\ \A i \in 1..Len(L.wp) : u[i+1] = L.wp[i]
      BY <1>1 DEF States
    <3>2. M.wp = <<"SYNC_RESYNC">> \o u
      BY <1>4
    <3> HIDE DEF u
    <3>3. /\ Len(M.wp) = Len(u) + 1 /\ M.wp[1] = "SYNC_RESYNC"
          /\ M.wp # <<>> /\ Head(M.wp) = "SYNC_RESYNC"
      BY <3>1, <3>2
    <3>4. \A j \in 1..Len(u) : M.wp[j+1] = u[j]
      BY <3>1, <3>2
    <3>5. \A i \in 1..Len(L.wp) : M.wp[i+2] = L.wp[i]
      <4> SUFFICES ASSUME NEW i \in 1..Len(L.wp) PROVE M.wp[i+2] = L.wp[i]
        OBVIOUS
      <4>1. i + 1 \in 1..Len(u) /\ (i + 1) + 1 = i + 2
        BY <1>1, <3>1
      <4>2. M.wp[(i+1)+1] = u[i+1]
        BY <3>4, <4>1
      <4> QED BY <3>1, <4>1, <4>2
    <3>6. M.wp[2] = "SYNC_TENTATIVE"
      <4>1. 1 \in 1..Len(u) /\ 1 + 1 = 2
        BY <1>1, <3>1
      <4>2. M.wp[1+1] = u[1]
        BY <3>4, <4>1
      <4> QED BY <3>1, <4>1, <4>2
    <3> QED BY <1>1, <3>1, <3>3, <3>5, <3>6
  <2>2. \A i \in 1..Len(M.wp) :
          i = 1 \/ i = 2 \/ (i - 2 \in 1..Len(L.wp) /\ M.wp[i] = L.wp[i-2])
    BY <1>1, <2>1
  <2>3. ASSUME NEW i \in 1..Len(M.wp), M.wp[i] = "SYNC_RESYNC"
        PROVE  i < Len(M.wp) /\ M.wp[i+1] = "SYNC_TENTATIVE"
    <3>1. CASE i = 1
      BY <1>1, <2>1, <2>3, <3>1
    <3>2. CASE i > 2
      <4> DEFINE j == i - 2
      <4>1. j \in 1..Len(L.wp) /\ L.wp[j] = "SYNC_RESYNC" /\ i = j + 2
        BY <2>2, <2>3, <3>2
      <4> HIDE DEF j
      <4>2. j < Len(L.wp) /\ L.wp[j+1] = "SYNC_TENTATIVE"
        BY <4>1 DEF PlanFits
      <4>3. j + 1 \in 1..Len(L.wp)
        BY <1>1, <4>1, <4>2
      <4>4. M.wp[j + 1 + 2] = L.wp[j + 1] /\ j + 1 + 2 = i + 1
        BY <2>1, <4>1, <4>3
      <4> QED BY <1>1, <2>1, <4>1, <4>2, <4>4
    <3> QED BY <2>1, <2>3, <3>1, <3>2
  <2>4. ASSUME NEW i \in 1..Len(M.wp), M.wp[i] = "PENDING_SETUP"
        PROVE  M.st \in {"UNINIT", "HUNGUP"}
    BY <2>1, <2>2, <2>4 DEF PlanFits
  <2>5. M.st \in Accepting
    OBVIOUS
  <2> QED BY <2>1, <2>3, <2>4, <2>5 DEF PlanFits, Accepting
<1> QED BY <1>2, <1>3, <1>4 DEF Replanned

-----------------------------------------------------------------------------
\* _fsm_poll()

\* What the application sees of one step of a link: the disjuncts of
\* LinkLifecycle!Next, or nothing.
LifeStep(L, M) ==
  LET p == PhaseOf(L.st)
      q == PhaseOf(M.st)
  IN  \/ q = p /\ M.est = L.est
      \/ p = "down" /\ q = "syncing" /\ M.est = FALSE
      \/ p = "syncing" /\ q = "syncing" /\ M.est = TRUE
      \/ p \in {"syncing", "closing"} /\ q = "up" /\ M.est = TRUE
      \/ p \in {"up", "closing"} /\ q = "syncing" /\ M.est = TRUE
      \/ p \in {"syncing", "up"} /\ q = "closing" /\ M.est = TRUE
      \/ p \in {"syncing", "up", "closing"} /\ q = "down" /\ M.est = FALSE

\* The plan that the constructor and reset() lead to fits as a whole.
LEMMA SetupRouteIs == SetupRoute = <<"PENDING_SETUP", "SYNC_RESYNC", "SYNC_TENTATIVE">>
<1>1. WpDepth \in Nat /\ WpDepth >= 3
  BY WpDepthAssumption, LinkAssumption
<1> DEFINE r == <<"PENDING_SETUP", "SYNC_RESYNC", "SYNC_TENTATIVE">>
           k == IF Len(r) < WpDepth THEN Len(r) ELSE WpDepth
<1>2. Len(r) = 3
  OBVIOUS
<1>3. k = 3
  <2> HIDE DEF r
  <2> QED BY <1>1, <1>2
<1>4. SetupRoute = SubSeq(r, 1, k)
  BY DEF SetupRoute, SetRoute, Fitting
<1>5. r \in Seq(States)
  BY DEF States
<1>6. SubSeq(r, 1, 3) = r
  <2> HIDE DEF r
  <2> QED BY <1>2, <1>5, SubSeqFull
<1> QED BY <1>6, <1>3, <1>4, <1>5

\* A link leaves a session's states for a state that its plan allows.
LEMMA AdvancePlan ==
  ASSUME NEW L \in Link, NEW M, PlanFits(L), MayLeave(L), L.wp # <<>>,
         L.st \notin {"UNINIT", "HUNGUP"},
         M.st = Head(L.wp), M.wp = Tail(L.wp), M.est = (L.est /\ Head(L.wp) \notin Outside),
         Head(L.wp) # "UNINIT"
  PROVE  PlanFits(M) /\ LifeStep(L, M)
<1> DEFINE s == Head(L.wp)
<1>1. L.wp \in Seq(States) /\ Len(L.wp) \in Nat \ {0} /\ L.st \in States /\ L.est \in BOOLEAN
  BY FieldTypes
<1>2. s \in States /\ s = L.wp[1]
  BY <1>1
<1>3. /\ M.wp \in Seq(States) /\ Len(M.wp) = Len(L.wp) - 1
      /\ \A i \in 1..Len(M.wp) : i + 1 \in 1..Len(L.wp) /\ M.wp[i] = L.wp[i+1]
  BY <1>1
<1> HIDE DEF s
<1>4. \A i \in 1..Len(L.wp) : L.wp[i] # "PENDING_SETUP"
  BY DEF PlanFits
<1>5. s # "PENDING_SETUP" /\ s # "UNINIT"
  BY <1>1, <1>2, <1>4 DEF s
<1>6. ASSUME s = "SYNC_RESYNC"
      PROVE  M.wp # <<>> /\ Head(M.wp) = "SYNC_TENTATIVE"
  <2>1. \A i \in 1..Len(L.wp) :
          L.wp[i] = "SYNC_RESYNC" => i < Len(L.wp) /\ L.wp[i+1] = "SYNC_TENTATIVE"
    BY DEF PlanFits
  <2>2. 1 \in 1..Len(L.wp) /\ L.wp[1] = "SYNC_RESYNC"
    BY <1>1, <1>2, <1>6
  <2>3. 1 < Len(L.wp) /\ L.wp[1+1] = "SYNC_TENTATIVE"
    BY <2>1, <2>2
  <2>4. 1 \in 1..Len(M.wp)
    BY <1>1, <1>3, <2>3
  <2>5. M.wp[1] = "SYNC_TENTATIVE"
    BY <1>3, <2>3, <2>4
  <2> DEFINE w == M.wp
  <2>6. w \in Seq(States) /\ 1 \in 1..Len(w) /\ w[1] = "SYNC_TENTATIVE"
    BY <1>3, <2>4, <2>5
  <2> HIDE DEF w
  <2>7. w # <<>> /\ Head(w) = w[1]
    BY <2>6
  <2> QED BY <2>6, <2>7 DEF w
<1>7. L.st = "SYNC_TENTATIVE" => L.est
  BY DEF MayLeave
<1>8. L.st \in {"SYNC_TENTATIVE", "PENDING_AUTH", "LIVE", "PENDING_HANGUP"} => L.est
  BY <1>7 DEF PlanFits, Behind
<1>9. L.st = "SYNC_RESYNC" => s \in {"SYNC_TENTATIVE", "SYNC_RESYNC", "HUNGUP"}
  BY DEF PlanFits, s
<1>10. L.st = "PENDING_SETUP" => s = "SYNC_RESYNC" /\ ~L.est
  BY DEF PlanFits, s
<1>11. M.est = (L.est /\ s # "HUNGUP") /\ M.st = s
  BY <1>5 DEF s, Outside
<1>12. L.st \in {"PENDING_SETUP", "SYNC_RESYNC", "SYNC_TENTATIVE",
                 "PENDING_AUTH", "LIVE", "PENDING_HANGUP"}
  BY <1>1 DEF States
<1>13. s \in {"SYNC_RESYNC", "SYNC_TENTATIVE",
              "PENDING_AUTH", "LIVE", "PENDING_HANGUP", "HUNGUP"}
  BY <1>2, <1>5 DEF States
<1>14. PlanFits(M)
  <2>1. ASSUME NEW i \in 1..Len(M.wp), M.wp[i] = "SYNC_RESYNC"
        PROVE  i < Len(M.wp) /\ M.wp[i+1] = "SYNC_TENTATIVE"
    <3>1. i + 1 \in 1..Len(L.wp) /\ L.wp[i+1] = "SYNC_RESYNC"
      BY <1>3, <2>1
    <3> DEFINE j == i + 1
    <3>2. j \in 1..Len(L.wp) /\ L.wp[j] = "SYNC_RESYNC" /\ i = j - 1
      BY <3>1
    <3> HIDE DEF j
    <3>3. j < Len(L.wp) /\ L.wp[j+1] = "SYNC_TENTATIVE"
      BY <3>2 DEF PlanFits
    <3>4. j \in 1..Len(M.wp)
      BY <1>1, <1>3, <3>2, <3>3
    <3>5. M.wp[j] = "SYNC_TENTATIVE"
      BY <1>3, <3>3, <3>4
    <3> QED BY <1>1, <1>3, <3>2, <3>4, <3>5
  <2>2. \A i \in 1..Len(M.wp) : M.wp[i] # "PENDING_SETUP"
    BY <1>3, <1>4
  <2>3. M.st \in Behind => M.est
    BY <1>8, <1>9, <1>10, <1>11, <1>12 DEF Behind
  <2>4. M.st \in {"UNINIT", "PENDING_SETUP", "HUNGUP"} => ~M.est
    BY <1>5, <1>11
  <2> QED BY <1>5, <1>6, <1>11, <2>1, <2>2, <2>3, <2>4 DEF PlanFits
<1>15. LifeStep(L, M)
  <2>1. CASE L.st = "PENDING_SETUP"
    BY <1>10, <1>11, <2>1 DEF LifeStep, PhaseOf
  <2>2. CASE L.st = "SYNC_RESYNC"
    BY <1>1, <1>9, <1>11, <2>2 DEF LifeStep, PhaseOf
  <2>3. CASE L.st = "SYNC_TENTATIVE"
    BY <1>1, <1>8, <1>11, <1>13, <2>3 DEF LifeStep, PhaseOf
  <2>4. CASE L.st \in {"PENDING_AUTH", "LIVE"}
    BY <1>1, <1>8, <1>11, <1>13, <2>4 DEF LifeStep, PhaseOf
  <2>5. CASE L.st = "PENDING_HANGUP"
    BY <1>1, <1>8, <1>11, <1>13, <2>5 DEF LifeStep, PhaseOf
  <2> QED BY <1>12, <2>1, <2>2, <2>3, <2>4, <2>5
<1> QED BY <1>14, <1>15

\* From the constructor, or after reset(): the setup is planned and entered.
LEMMA SetupPlan ==
  ASSUME NEW n \in Nat, NEW L, Sized(L, n), L.inb = <<>>, PlanFits(L), NEW rnd \in Nat,
         L.st \in {"UNINIT", "HUNGUP"}
  PROVE  LET M == Advance([L EXCEPT !.wp = SetupRoute], rnd)
         IN  Sized(M, n) /\ M.inb = <<>> /\ PlanFits(M) /\ LifeStep(L, M)
<1> DEFINE w == SetupRoute
           K == [L EXCEPT !.wp = w]
           M == Advance(K, rnd)
<1>1. w \in Seq(States) /\ Len(w) = 3 /\ w # <<>> /\ Head(w) = "PENDING_SETUP"
  BY SetupRouteIs DEF States
<1>2. /\ Tail(w) = <<"SYNC_RESYNC", "SYNC_TENTATIVE">>
      /\ w[1] = "PENDING_SETUP" /\ w[2] = "SYNC_RESYNC" /\ w[3] = "SYNC_TENTATIVE"
  BY SetupRouteIs
<1>3. ~L.est /\ L.est = FALSE
  BY FieldTypes DEF PlanFits, Sized
<1> HIDE DEF w
<1>4. Sized(K, n) /\ K.st = L.st /\ K.est = L.est /\ K.inb = L.inb /\ K.wp = w
  <2>1. Len(w) <= WpDepth
    BY <1>1, LinkAssumption, WpDepthAssumption
  <2>2. w \in Seq(States)
    BY <1>1
  <2> QED BY <2>1, <2>2, PutWp
<1> HIDE DEF K
<1>5. /\ Sized(M, n) /\ M.inb = <<>>
      /\ \/ M.st = K.st /\ M.wp = K.wp /\ M.est = FALSE
         \/ M.st = "PENDING_SETUP" /\ M.wp = Tail(w) /\ M.est = FALSE
  BY <1>1, <1>3, <1>4, AdvanceOK
<1> HIDE DEF M
<1>6. CASE M.st = K.st /\ M.wp = K.wp /\ M.est = FALSE
  <2>1. PlanFits(M)
    <3>1. M.wp = w /\ M.st \in {"UNINIT", "HUNGUP"}
      BY <1>4, <1>6
    <3>2. \A i \in 1..Len(w) : w[i] = "SYNC_RESYNC" => i < Len(w) /\ w[i+1] = "SYNC_TENTATIVE"
      <4>1. \A i \in 1..Len(w) : w[i] = "SYNC_RESYNC" => i = 2
        BY <1>1, <1>2
      <4>2. 2 < Len(w) /\ w[2+1] = "SYNC_TENTATIVE"
        BY <1>1, <1>2
      <4> QED BY <4>1, <4>2
    <3> QED BY <1>6, <3>1, <3>2 DEF PlanFits, Behind
  <2>2. LifeStep(L, M)
    BY <1>3, <1>4, <1>6 DEF LifeStep
  <2> QED BY <1>5, <2>1, <2>2 DEF K, M, w
<1>7. CASE M.st = "PENDING_SETUP" /\ M.wp = Tail(w) /\ M.est = FALSE
  <2>1. PlanFits(M)
    <3> DEFINE v == M.wp
    <3>1. v = <<"SYNC_RESYNC", "SYNC_TENTATIVE">>
      BY <1>2, <1>7
    <3>2. /\ Len(v) = 2 /\ v[1] = "SYNC_RESYNC" /\ v[2] = "SYNC_TENTATIVE"
          /\ v # <<>> /\ Head(v) = "SYNC_RESYNC"
      BY <3>1
    <3> HIDE DEF v
    <3>3. \A i \in 1..Len(v) : v[i] = "SYNC_RESYNC" => i < Len(v) /\ v[i+1] = "SYNC_TENTATIVE"
      <4>1. \A i \in 1..Len(v) : v[i] = "SYNC_RESYNC" => i = 1
        BY <3>2
      <4>2. 1 < Len(v) /\ v[1+1] = "SYNC_TENTATIVE"
        BY <3>2
      <4> QED BY <4>1, <4>2
    <3>4. \A i \in 1..Len(v) : v[i] # "PENDING_SETUP"
      BY <3>2
    <3>5. M.wp = v
      BY DEF v
    <3> QED BY <1>7, <3>2, <3>3, <3>4, <3>5 DEF PlanFits, Behind
  <2>2. LifeStep(L, M)
    BY <1>3, <1>7 DEF LifeStep, PhaseOf
  <2> QED BY <1>5, <2>1, <2>2 DEF K, M, w
<1> QED BY <1>5, <1>6, <1>7

\* _fsm_poll() preserves the plan invariant, and lives on.
LEMMA FsmPollOK ==
  ASSUME NEW n \in Nat, NEW L, Sized(L, n), L.inb = <<>>, PlanFits(L), NEW rnd \in Nat
  PROVE  LET M == FsmPoll(L, rnd)
         IN  Sized(M, n) /\ M.inb = <<>> /\ PlanFits(M) /\ LifeStep(L, M)
<1>1. CASE ~MayLeave(L)
  <2>1. FsmPoll(L, rnd) = L
    BY <1>1 DEF FsmPoll
  <2> QED BY <2>1 DEF LifeStep
<1>2. CASE MayLeave(L) /\ L.st \in {"UNINIT", "HUNGUP"}
  <2>1. FsmPoll(L, rnd) = Advance([L EXCEPT !.wp = SetupRoute], rnd)
    BY <1>2 DEF FsmPoll
  <2> QED BY <1>2, <2>1, SetupPlan
<1>3. CASE MayLeave(L) /\ L.st \notin {"UNINIT", "HUNGUP"}
  <2> DEFINE M == Advance(L, rnd)
  <2>1. FsmPoll(L, rnd) = M
    BY <1>3 DEF FsmPoll
  <2>2. /\ Sized(M, n) /\ M.inb = <<>>
        /\ \/ M.st = L.st /\ M.wp = L.wp /\ M.est = L.est
           \/ /\ L.wp # <<>>
              /\ M.st = L.st /\ M.wp = L.wp
              /\ M.est = (L.est /\ Head(L.wp) \notin Outside)
              /\ Head(L.wp) # "HUNGUP"
           \/ /\ L.wp # <<>>
              /\ M.st = Head(L.wp) /\ M.wp = Tail(L.wp)
              /\ M.est = (L.est /\ Head(L.wp) \notin Outside)
              /\ Head(L.wp) # "UNINIT"
    BY AdvanceOK
  <2> HIDE DEF M
  <2>3. L \in Link /\ L.wp \in Seq(States) /\ L.est \in BOOLEAN
    BY FieldTypes DEF Sized
  <2>4. L.wp # <<>> => Head(L.wp) # "PENDING_SETUP"
    <3>1. L.wp # <<>> => 1 \in 1..Len(L.wp) /\ Head(L.wp) = L.wp[1]
      BY <2>3
    <3> QED BY <1>3, <3>1 DEF PlanFits
  <2>5. CASE M.st = L.st /\ M.wp = L.wp /\ M.est = L.est
    BY <2>1, <2>2, <2>5, PlanSteady DEF LifeStep
  <2>6. CASE /\ L.wp # <<>>
             /\ M.st = L.st /\ M.wp = L.wp
             /\ M.est = (L.est /\ Head(L.wp) \notin Outside)
             /\ Head(L.wp) # "HUNGUP"
    <3>1. M.est = L.est
      BY <2>3, <2>4, <2>6 DEF Outside
    <3> QED BY <2>1, <2>2, <2>6, <3>1, PlanSteady DEF LifeStep
  <2>7. CASE /\ L.wp # <<>>
             /\ M.st = Head(L.wp) /\ M.wp = Tail(L.wp)
             /\ M.est = (L.est /\ Head(L.wp) \notin Outside)
             /\ Head(L.wp) # "UNINIT"
    <3>1. PlanFits(M) /\ LifeStep(L, M)
      BY <1>3, <2>3, <2>7, AdvancePlan
    <3> QED BY <2>1, <2>2, <3>1
  <2> QED BY <2>2, <2>5, <2>6, <2>7
<1> QED BY <1>1, <1>2, <1>3

-----------------------------------------------------------------------------
\* poll()

\* All of poll() but its last call.
LEMMA ServiceOK ==
  ASSUME NEW n \in Nat, NEW L, Sized(L, n), L.inb = <<>>, PlanFits(L),
         NEW app \in Answers, NEW timedOut \in BOOLEAN, NEW kaDue \in BOOLEAN
  PROVE  LET M == KeepAlive(ChurnOutbound(ChurnInbound(ProcessInput(L), app), timedOut), kaDue)
         IN  /\ Sized(M, n) /\ M.inb = <<>> /\ PlanFits(M)
             /\ M.st = L.st
             /\ M.est = L.est \/ (M.est /\ L.st \in Accepting)
<1> DEFINE P == ProcessInput(L)
           H == ChurnInbound(P, app)
           S == ChurnOutbound(H, timedOut)
           M == KeepAlive(S, kaDue)
<1>1. /\ Sized(P, n) /\ P.st = L.st /\ P.est = L.est
      /\ \/ Steady(L, P)
         \/ /\ L.st \in Accepting
            /\ Replanned(L, P)
            /\ P.inb = <<>> \/ \E f \in Frame : P.inb = <<f>>
  BY ProcessInputOK
<1> HIDE DEF P
<1>2. L \in Link /\ P \in Link /\ Len(P.wp) <= WpDepth
  BY <1>1 DEF Sized
<1>3. PlanFits(P)
  BY <1>1, <1>2, PlanSteady, PlanPrepended DEF Steady
<1>4. /\ P.inb = <<>> \/ \E f \in Frame : P.inb = <<f>>
      /\ L.st \notin Accepting => P.inb = <<>>
  BY <1>1 DEF Steady
<1>5. /\ Sized(H, n) /\ H.st = P.st /\ H.inb = <<>>
      /\ H.est = P.est \/ H.est
      /\ Extended(P, H)
      /\ P.inb = <<>> => H = P
  BY <1>1, <1>4, ChurnInboundOK
<1> HIDE DEF H
<1>6. PlanFits(H)
  <2>1. CASE H = P
    BY <1>3, <2>1
  <2>2. CASE H # P
    <3>1. L.st \in Accepting /\ P.st \in Accepting
      BY <1>1, <1>4, <1>5, <2>2
    <3> DEFINE Q == [st |-> P.st, est |-> P.est, wp |-> H.wp]
    <3>2. Q.st = P.st /\ Q.est = P.est /\ Q.wp = H.wp
      OBVIOUS
    <3> HIDE DEF Q
    <3>3. PlanFits(Q)
      BY <1>2, <1>3, <1>5, <3>2, PlanSteady, PlanAppended DEF Extended
    <3> QED BY <1>5, <3>1, <3>2, <3>3, PlanConfirmed
  <2> QED BY <2>1, <2>2
<1>7. H.est = L.est \/ (H.est /\ L.st \in Accepting)
  BY <1>1, <1>4, <1>5
<1>8. Sized(S, n) /\ Steady(H, S)
  BY <1>5, ChurnOutboundOK
<1> HIDE DEF S
<1>9. Sized(M, n) /\ Steady(S, M)
  BY <1>8, KeepAliveOK
<1> HIDE DEF M
<1>10. M.st = H.st /\ M.wp = H.wp /\ M.est = H.est /\ M.inb = <<>>
  BY <1>5, <1>8, <1>9 DEF Steady
<1>11. PlanFits(M)
  BY <1>6, <1>10, PlanSteady
<1>12. /\ Sized(M, n) /\ M.inb = <<>> /\ PlanFits(M)
       /\ M.st = L.st
       /\ M.est = L.est \/ (M.est /\ L.st \in Accepting)
  BY <1>1, <1>5, <1>7, <1>9, <1>10, <1>11
<1> QED BY <1>12 DEF M, S, H, P

\* What a step makes of a link.
StepOK(L, M) == LinkOK(M) /\ PlanFits(M) /\ LifeStep(L, M)

\* The flag that is only meaningful during a poll is reset.
LEMMA PutJust ==
  ASSUME NEW n \in Nat, NEW L, Sized(L, n)
  PROVE  LET M == [L EXCEPT !.just = FALSE] IN Sized(M, n) /\ Steady(L, M) /\ ~M.just
<1> DEFINE M == [L EXCEPT !.just = FALSE]
<1>1. M \in Link
  BY DEF Sized, Link
<1>2. /\ M.tx = L.tx /\ M.wp = L.wp /\ M.out = L.out /\ M.buf = L.buf
      /\ M.st = L.st /\ M.est = L.est /\ M.inb = L.inb /\ M.just = FALSE
  BY DEF Sized, Link
<1> HIDE DEF M
<1>3. Sized(M, n) /\ Steady(L, M) /\ ~M.just
  BY <1>1, <1>2 DEF Sized, Steady
<1> QED BY <1>3 DEF M

\* poll() is all of its calls but the last, unless the link is idle, and the last.
Service(L, app, kaDue, timedOut) ==
  KeepAlive(ChurnOutbound(ChurnInbound(ProcessInput(L), app), timedOut), kaDue)

LEMMA PollParts ==
  ASSUME NEW L, NEW kaDue, NEW timedOut, NEW answers, NEW draws,
         NEW R \in Poll(L, kaDue, timedOut, answers, draws)
  PROVE  \E M \in {L} \cup {Service(L, app, kaDue, timedOut) : app \in answers}, rnd \in draws :
           /\ R = [FsmPoll(M, rnd) EXCEPT !.just = FALSE]
           /\ L.st \notin {"PENDING_SETUP", "HUNGUP"} =>
                \E app \in answers : M = Service(L, app, kaDue, timedOut)
<1> DEFINE idle     == L.st \in {"PENDING_SETUP", "HUNGUP"}
           handled  == {ChurnInbound(M, app) : M \in {ProcessInput(L)}, app \in answers}
           sent     == {ChurnOutbound(M, timedOut) : M \in handled}
           serviced == {KeepAlive(M, kaDue) : M \in sent}
           moved    == {FsmPoll(M, rnd) : M \in IF idle THEN {L} ELSE serviced, rnd \in draws}
<1>1. R \in {[M EXCEPT !.just = FALSE] : M \in moved}
  BY DEF Poll
<1>2. PICK F \in moved : R = [F EXCEPT !.just = FALSE]
  <2> HIDE DEF moved
  <2> QED BY <1>1
<1>3. PICK M \in IF idle THEN {L} ELSE serviced, rnd \in draws : F = FsmPoll(M, rnd)
  <2> HIDE DEF idle, serviced
  <2> QED BY <1>2
<1>4. \A K \in serviced : \E app \in answers : K = Service(L, app, kaDue, timedOut)
  BY DEF Service
<1>5. M \in {L} \cup {Service(L, app, kaDue, timedOut) : app \in answers}
  <2> HIDE DEF serviced
  <2> QED BY <1>3, <1>4
<1>6. R = [FsmPoll(M, rnd) EXCEPT !.just = FALSE]
  BY <1>2, <1>3
<1>7. rnd \in draws
  <2> HIDE DEF serviced
  <2> QED BY <1>3
<1>8. ~idle => \E app \in answers : M = Service(L, app, kaDue, timedOut)
  <2> HIDE DEF serviced, idle
  <2> QED BY <1>3, <1>4
<1> HIDE DEF moved, serviced, sent, handled
<1> QED BY <1>5, <1>6, <1>7, <1>8

\* poll() preserves the plan invariant, and lives on.
LEMMA PollOK ==
  ASSUME NEW L, LinkOK(L), PlanFits(L), NEW kaDue \in BOOLEAN, NEW timedOut \in BOOLEAN,
         NEW answers \in SUBSET Answers, NEW draws \in SUBSET Nat,
         NEW R \in Poll(L, kaDue, timedOut, answers, draws)
  PROVE  StepOK(L, R)
<1>1. PICK M \in {L} \cup {Service(L, app, kaDue, timedOut) : app \in answers}, rnd \in draws :
        R = [FsmPoll(M, rnd) EXCEPT !.just = FALSE]
  BY PollParts
<1>2. Sized(L, BufCap) /\ L.inb = <<>> /\ BufCap \in Nat
  BY BufCapNat DEF LinkOK
<1>3. /\ Sized(M, BufCap) /\ M.inb = <<>> /\ PlanFits(M)
      /\ M.st = L.st
      /\ M.est = L.est \/ (M.est /\ L.st \in Accepting)
  <2>1. CASE M = L
    BY <1>2, <2>1
  <2>2. ASSUME NEW app \in answers, M = Service(L, app, kaDue, timedOut)
        PROVE  /\ Sized(M, BufCap) /\ M.inb = <<>> /\ PlanFits(M)
               /\ M.st = L.st
               /\ M.est = L.est \/ (M.est /\ L.st \in Accepting)
    <3>1. app \in Answers
      OBVIOUS
    <3> QED BY <1>2, <2>2, <3>1, ServiceOK DEF Service
  <2> QED BY <1>1, <2>1, <2>2
<1> DEFINE F == FsmPoll(M, rnd)
<1>4. Sized(F, BufCap) /\ F.inb = <<>> /\ PlanFits(F) /\ LifeStep(M, F)
  <2>1. rnd \in Nat
    OBVIOUS
  <2> QED BY <1>2, <1>3, <2>1, FsmPollOK
<1>5. R = [F EXCEPT !.just = FALSE]
  BY <1>1
<1> HIDE DEF F
<1>6. Sized(R, BufCap) /\ Steady(F, R) /\ ~R.just
  BY <1>2, <1>4, <1>5, PutJust
<1>7. R.st = F.st /\ R.est = F.est /\ R.inb = <<>> /\ R.wp = F.wp
  BY <1>4, <1>6 DEF Steady
<1>8. PlanFits(R)
  BY <1>4, <1>7, PlanSteady
<1>9. M.est = L.est \/ (PhaseOf(L.st) = "syncing" /\ M.est)
  <2>1. L.st \in Behind => L.est
    BY DEF PlanFits
  <2>2. L.est \in BOOLEAN /\ M.est \in BOOLEAN
    BY <1>2, <1>3, FieldTypes DEF Sized
  <2> QED BY <1>3, <2>1, <2>2 DEF Accepting, Behind, PhaseOf
<1>10. LifeStep(L, R)
  <2>1. M.est \in BOOLEAN
    BY <1>3, FieldTypes DEF Sized
  <2>2. LifeStep(M, R)
    BY <1>4, <1>7 DEF LifeStep
  <2> QED BY <1>3, <1>9, <2>1, <2>2 DEF LifeStep
<1> QED BY <1>6, <1>7, <1>8, <1>10 DEF StepOK, LinkOK

-----------------------------------------------------------------------------
\* The interface to the transport and to the application

\* Nothing of the life of a link changed.
LEMMA SteadyStep ==
  ASSUME NEW L, LinkOK(L), PlanFits(L), NEW M, Sized(M, BufCap), Steady(L, M), M.just = L.just
  PROVE  StepOK(L, M)
<1>1. PlanFits(M)
  BY PlanSteady DEF Steady
<1> QED BY <1>1 DEF StepOK, LinkOK, LifeStep, Steady

\* pushBuffer() of a transport that asked bufferAvailable().
LEMMA PushBufferOK ==
  ASSUME NEW L, LinkOK(L), PlanFits(L), NEW f \in Frame, Len(L.buf) < BufCap
  PROVE  StepOK(L, PushBuffer(L, f))
<1> DEFINE b == Append(L.buf, f)
           M == [L EXCEPT !.buf = b]
<1>1. L \in Link /\ L.buf \in Seq(Frame)
  BY FieldTypes DEF LinkOK, Sized
<1>2. b \in Seq(Frame) /\ Len(b) <= BufCap
  BY <1>1, BufCapNat
<1>3. PushBuffer(L, f) = M \/ PushBuffer(L, f) = L
  BY DEF PushBuffer
<1> HIDE DEF b
<1>4. M \in Link
  BY <1>1, <1>2, SetBuf
<1>5. /\ M.tx = L.tx /\ M.wp = L.wp /\ M.out = L.out /\ M.buf = b
      /\ M.st = L.st /\ M.est = L.est /\ M.inb = L.inb /\ M.just = L.just
  BY <1>1 DEF Link
<1> HIDE DEF M
<1>6. Sized(M, BufCap) /\ Steady(L, M)
  BY <1>2, <1>4, <1>5 DEF LinkOK, Sized, Steady
<1>7. Sized(L, BufCap) /\ Steady(L, L)
  BY DEF LinkOK, Steady
<1> QED BY <1>3, <1>5, <1>6, <1>7, SteadyStep

\* The transport hands over, loses or garbles its oldest frame.
LEMMA PutTx ==
  ASSUME NEW L, LinkOK(L), PlanFits(L), NEW t \in Seq(Frame), Len(t) <= TxCap
  PROVE  StepOK(L, [L EXCEPT !.tx = t])
<1> DEFINE M == [L EXCEPT !.tx = t]
<1>1. M \in Link
  BY DEF LinkOK, Sized, Link
<1>2. /\ M.tx = t /\ M.wp = L.wp /\ M.out = L.out /\ M.buf = L.buf
      /\ M.st = L.st /\ M.est = L.est /\ M.inb = L.inb /\ M.just = L.just
  BY DEF LinkOK, Sized, Link
<1> HIDE DEF M
<1>3. Sized(M, BufCap) /\ Steady(L, M)
  BY <1>1, <1>2 DEF LinkOK, Sized, Steady
<1>4. StepOK(L, M)
  BY <1>2, <1>3, SteadyStep
<1> QED BY <1>4 DEF M

\* A message is queued.
LEMMA QueueOK ==
  ASSUME NEW L, LinkOK(L), PlanFits(L), NEW m \in Message, CanSend(L, m)
  PROVE  StepOK(L, SendMsg(L, m))
<1>1. Sized(SendMsg(L, m), BufCap) /\ Steady(L, SendMsg(L, m))
  BY SendMsgOK, BufCapNat DEF LinkOK
<1>2. SendMsg(L, m).just = L.just
  BY DEF SendMsg, LinkOK, Sized, Link
<1> QED BY <1>1, <1>2, SteadyStep

\* A call that is refused.
LEMMA NoStep ==
  ASSUME NEW L, LinkOK(L), PlanFits(L)
  PROVE  StepOK(L, L)
<1>1. Sized(L, BufCap) /\ Steady(L, L)
  BY DEF LinkOK, Steady
<1> QED BY <1>1, SteadyStep

\* send() and writeRemoteLog().
LEMMA SendOK ==
  ASSUME NEW L, LinkOK(L), PlanFits(L), NEW a \in BOOLEAN, NEW b \in BOOLEAN, NEW rnd \in Nat
  PROVE  StepOK(L, Send(L, a, b, rnd)) /\ StepOK(L, WriteRemoteLog(L, a, rnd))
<1> DEFINE m == NewMessage(NewHeader("APPLICATION", a, rnd), b)
           k == NewMessage(NewHeader("LOG", a, rnd), TRUE)
<1>1. "APPLICATION" \in Codes /\ "LOG" \in Codes
  BY DEF Codes
<1>2. m \in Message /\ k \in Message
  BY <1>1, NewHeaderType, NewMessageType
<1>3. Send(L, a, b, rnd) = IF MaySend(L) /\ CanSend(L, m) THEN SendMsg(L, m) ELSE L
  BY DEF Send
<1>4. WriteRemoteLog(L, a, rnd) = IF L.est /\ CanSend(L, k) THEN SendMsg(L, k) ELSE L
  BY DEF WriteRemoteLog
<1> HIDE DEF m, k
<1> QED BY <1>2, <1>3, <1>4, QueueOK, NoStep

\* hangup(true) appends the end of the session to the plan.
LEMMA HangupOK ==
  ASSUME NEW L, LinkOK(L), PlanFits(L)
  PROVE  StepOK(L, Hangup(L, TRUE))
<1> DEFINE r == <<"PENDING_HANGUP", "HUNGUP">>
           w == AppendRoute(L.wp, r)
           M == [L EXCEPT !.wp = w]
<1>1. Hangup(L, TRUE) = M \/ Hangup(L, TRUE) = L
  BY DEF Hangup
<1>2. r \in Onward /\ r \in Seq(States)
  BY OnwardType DEF Onward
<1>3. L \in Link /\ L.wp \in Seq(States) /\ Len(L.wp) <= WpDepth
  BY FieldTypes DEF LinkOK, Sized
<1> HIDE DEF r
<1>4. w \in Seq(States) /\ Len(w) <= WpDepth
  BY <1>2, <1>3, AppendRouteType
<1>5. M.wp = w => M.wp = AppendRoute(L.wp, r)
  OBVIOUS
<1> HIDE DEF w
<1>6. Sized(M, BufCap) /\ M.st = L.st /\ M.est = L.est /\ M.inb = L.inb /\ M.wp = w
  BY <1>4, PutWp, BufCapNat DEF LinkOK
<1>7. M.just = L.just
  BY <1>3 DEF Link
<1> HIDE DEF M
<1>8. PlanFits(M)
  BY <1>2, <1>3, <1>5, <1>6, PlanAppended
<1>9. StepOK(L, M)
  BY <1>6, <1>7, <1>8 DEF StepOK, LinkOK, LifeStep
<1> QED BY <1>1, <1>9, NoStep

\* hangup(false) replaces the plan by its end.
LEMMA KillOK ==
  ASSUME NEW L, LinkOK(L), PlanFits(L)
  PROVE  StepOK(L, Hangup(L, FALSE))
<1> DEFINE w == <<"HUNGUP">>
           e == <<>>
           M == [L EXCEPT !.inb = e, !.out = e, !.wp = w]
<1>1. SetRoute(w) = w
  <2> DEFINE k == IF Len(w) < WpDepth THEN Len(w) ELSE WpDepth
  <2>1. w \in Seq(States) /\ Len(w) = 1
    BY DEF States
  <2> HIDE DEF w
  <2>2. k = 1
    BY <2>1, WpDepthAssumption
  <2>3. SetRoute(w) = SubSeq(w, 1, k)
    BY DEF SetRoute, Fitting
  <2> HIDE DEF k
  <2> QED BY <2>1, <2>2, <2>3, SubSeqFull
<1>2. Hangup(L, FALSE) = L \/ (L.st \in Accepting \cup {"HUNGUP"} /\ Hangup(L, FALSE) = M)
  BY <1>1 DEF Hangup
<1>3. /\ w \in Seq(States) /\ Len(w) = 1 /\ w # <<>> /\ Head(w) = "HUNGUP"
      /\ w[1] = "HUNGUP"
  BY DEF States
<1>4. e \in Seq(Frame) /\ e \in Seq(Message) /\ Len(e) = 0
  OBVIOUS
<1>5. L \in Link /\ L.inb = e
  BY DEF LinkOK, Sized
<1> HIDE DEF w, e
<1>6. M \in Link
  BY <1>3, <1>4, <1>5 DEF Link
<1>7. /\ M.tx = L.tx /\ M.wp = w /\ M.out = e /\ M.buf = L.buf
      /\ M.st = L.st /\ M.est = L.est /\ M.inb = e /\ M.just = L.just
  BY <1>5 DEF Link
<1> HIDE DEF M
<1>8. Sized(M, BufCap)
  <2>1. Len(w) <= WpDepth /\ Len(e) <= MaxOutbound
    BY <1>3, <1>4, LinkAssumption, WpDepthAssumption
  <2> QED BY <1>6, <1>7, <2>1 DEF LinkOK, Sized
<1>9. L.st \in Accepting \cup {"HUNGUP"} => PlanFits(M)
  <2>1. \A i \in 1..Len(w) : w[i] # "SYNC_RESYNC" /\ w[i] # "PENDING_SETUP"
    BY <1>3
  <2> QED BY <1>3, <1>7, <2>1 DEF PlanFits, Accepting
<1>10. L.st \in Accepting \cup {"HUNGUP"} => StepOK(L, M)
  BY <1>5, <1>7, <1>8, <1>9 DEF StepOK, LinkOK, LifeStep
<1> QED BY <1>2, <1>10, NoStep

\* reset() only takes the link off the hook.
LEMMA ResetOK ==
  ASSUME NEW L, LinkOK(L), PlanFits(L)
  PROVE  StepOK(L, Reset(L))
<1> DEFINE M == [L EXCEPT !.hook = FALSE]
<1>1. Reset(L) = M \/ Reset(L) = L
  BY DEF Reset
<1>2. M \in Link
  BY DEF LinkOK, Sized, Link
<1>3. /\ M.tx = L.tx /\ M.wp = L.wp /\ M.out = L.out /\ M.buf = L.buf
      /\ M.st = L.st /\ M.est = L.est /\ M.inb = L.inb /\ M.just = L.just
  BY DEF LinkOK, Sized, Link
<1> HIDE DEF M
<1>4. Sized(M, BufCap) /\ Steady(L, M)
  BY <1>2, <1>3 DEF LinkOK, Sized, Steady
<1> QED BY <1>1, <1>3, <1>4, SteadyStep, NoStep

\* requireAuth(), syncCast() and localIdentity() set an option or a flag.
SetBy(L) == UNION {{RequireAuth(L, x), SyncCast(L, x), LocalIdentity(L, x)} : x \in BOOLEAN}

LEMMA SetOK ==
  ASSUME NEW L, LinkOK(L), PlanFits(L), NEW M \in SetBy(L)
  PROVE  StepOK(L, M)
<1>1. L \in Link
  BY DEF LinkOK, Sized
<1>2. PICK x \in BOOLEAN : M \in {RequireAuth(L, x), SyncCast(L, x), LocalIdentity(L, x)}
  BY DEF SetBy
<1>3. /\ M \in Link
      /\ M.tx = L.tx /\ M.wp = L.wp /\ M.out = L.out /\ M.buf = L.buf
      /\ M.st = L.st /\ M.est = L.est /\ M.inb = L.inb /\ M.just = L.just
  <2>1. CASE M = RequireAuth(L, x)
    BY <1>1, <2>1 DEF RequireAuth, Link, Options
  <2>2. CASE M = SyncCast(L, x)
    BY <1>1, <2>2 DEF SyncCast, Link
  <2>3. CASE M = LocalIdentity(L, x)
    BY <1>1, <2>3 DEF LocalIdentity, Link, Options
  <2> QED BY <1>2, <2>1, <2>2, <2>3
<1>4. Sized(M, BufCap) /\ Steady(L, M)
  BY <1>3 DEF LinkOK, Sized, Steady
<1> QED BY <1>3, <1>4, SteadyStep

\* What AppSet and AppIdentity do.
LEMMA AppSets ==
  ASSUME NEW e \in Ends, AppSet(e) \/ AppIdentity(e)
  PROVE  \E M \in SetBy(link[e]) : link' = [link EXCEPT ![e] = M]
<1>1. CASE AppSet(e)
  <2>1. PICK x \in BOOLEAN : \/ link' = [link EXCEPT ![e] = RequireAuth(link[e], x)]
                            \/ link' = [link EXCEPT ![e] = SyncCast(link[e], x)]
    BY <1>1 DEF AppSet
  <2>2. RequireAuth(link[e], x) \in SetBy(link[e]) /\ SyncCast(link[e], x) \in SetBy(link[e])
    BY DEF SetBy
  <2> QED BY <2>1, <2>2
<1>2. CASE AppIdentity(e)
  <2>1. PICK x \in BOOLEAN : link' = [link EXCEPT ![e] = LocalIdentity(link[e], x)]
    BY <1>2 DEF AppIdentity
  <2>2. LocalIdentity(link[e], x) \in SetBy(link[e])
    BY DEF SetBy
  <2> QED BY <2>1, <2>2
<1> QED BY <1>1, <1>2

-----------------------------------------------------------------------------
\* The two links

IndInv == TypeOK /\ PlanInv

\* The invariant, link by link.
LEMMA IndInvLinks ==
  ASSUME IndInv
  PROVE  /\ link \in [Ends -> Link]
         /\ \A e \in Ends : LinkOK(link[e]) /\ PlanFits(link[e])
BY DEF IndInv, TypeOK, PlanInv, LinkOK, Sized

\* The invariant holds after a step that leaves every link right.
LEMMA LinksIndInv ==
  ASSUME link' \in [Ends -> Link], used' \in [Events -> Nat],
         \A e \in Ends : LinkOK(link'[e]) /\ PlanFits(link'[e])
  PROVE  IndInv'
BY DEF IndInv, TypeOK, PlanInv, LinkOK, Sized

\* There are two ends.
LEMMA PeerOK ==
  ASSUME NEW e \in Ends
  PROVE  Peer(e) \in Ends /\ Peer(e) # e
BY SessionAssumption DEF Peer

\* Random ids are numbers.
LEMMA DrawsNat == Draws \in SUBSET Nat
<1>1. Ids \subseteq Nat /\ ZeroDraws \subseteq Nat
  BY SessionAssumption
<1>2. Draws \subseteq ZeroDraws \cup Ids
  BY DEF Draws
<1> QED BY <1>1, <1>2

\* Counting an event keeps the counters numbers.
LEMMA SpendOK ==
  ASSUME IndInv, NEW k \in Events, Spend(k)
  PROVE  used' \in [Events -> Nat]
BY DEF Spend, IndInv, TypeOK

\* A step of one link.
EndStep(e) == /\ \E M : StepOK(link[e], M) /\ link' = [link EXCEPT ![e] = M]
              /\ used' \in [Events -> Nat]

\* A step of both, that neither notices in its life.
BothStep == /\ link' \in [Ends -> Link]
            /\ \A e \in Ends : /\ LinkOK(link'[e]) /\ PlanFits(link'[e])
                               /\ link'[e].st = link[e].st /\ link'[e].est = link[e].est
            /\ used' \in [Events -> Nat]

\* A poll is a step of one link.
LEMMA PollStep ==
  ASSUME IndInv, NEW e \in Ends, PollEnd(e)
  PROVE  EndStep(e)
<1>1. PICK kaDue \in BOOLEAN, timedOut \in BOOLEAN : PollWith(e, kaDue, timedOut)
  BY DEF PollEnd
<1>2. PICK L \in Poll(link[e], kaDue, timedOut, AppAnswers, Draws) :
        link' = [link EXCEPT ![e] = L]
  BY <1>1 DEF PollWith, Polled
<1>3. AppAnswers \in SUBSET Answers
  BY SessionAssumption
<1>4. StepOK(link[e], L)
  BY <1>2, <1>3, DrawsNat, IndInvLinks, PollOK
<1>5. used' \in [Events -> Nat]
  BY <1>1 DEF PollWith, IndInv, TypeOK
<1> QED BY <1>2, <1>4, <1>5 DEF EndStep

\* A delivery takes from one link and gives to the other.
LEMMA DeliverStep ==
  ASSUME IndInv, NEW e \in Ends, Deliver(e)
  PROVE  BothStep
<1> DEFINE p == Peer(e)
           t == Tail(link[e].tx)
           f == Head(link[e].tx)
           S == [link[e] EXCEPT !.tx = t]
           R == PushBuffer(link[p], f)
<1>1. p \in Ends /\ p # e
  BY PeerOK
<1>2. /\ link \in [Ends -> Link] /\ LinkOK(link[e]) /\ PlanFits(link[e])
      /\ LinkOK(link[p]) /\ PlanFits(link[p]) /\ link[e] \in Link /\ link[p] \in Link
  BY <1>1, IndInvLinks
<1>3. link[e].tx \in Seq(Frame) /\ Len(link[e].tx) <= TxCap /\ link[e].tx # <<>>
  BY <1>2, FieldTypes DEF LinkOK, Sized, Deliver
<1>4. f \in Frame /\ t \in Seq(Frame) /\ Len(t) <= TxCap
  BY <1>3, LinkAssumption
<1>5. Len(link[p].buf) < BufCap
  BY DEF Deliver
<1>6. link' = [link EXCEPT ![e].tx = Tail(@), ![p] = PushBuffer(@, f)]
  BY DEF Deliver
<1>7. link'[e] = S /\ link'[p] = R /\ \A x \in Ends : x # e /\ x # p => link'[x] = link[x]
  BY <1>1, <1>2, <1>6
<1>8. DOMAIN link' = Ends /\ link' = [x \in Ends |-> link'[x]]
  BY <1>2, <1>6
<1>9. R.st = link[p].st /\ R.est = link[p].est
  BY <1>2 DEF PushBuffer, Link
<1> HIDE DEF f, t, p, R
<1>10. S.st = link[e].st /\ S.est = link[e].est
  BY <1>2 DEF Link
<1>11. StepOK(link[e], S)
  BY <1>2, <1>4, PutTx
<1>12. StepOK(link[p], R)
  BY <1>2, <1>4, <1>5, PushBufferOK DEF R
<1> HIDE DEF S
<1>13. \A x \in Ends : /\ LinkOK(link'[x]) /\ PlanFits(link'[x])
                       /\ link'[x].st = link[x].st /\ link'[x].est = link[x].est
  BY <1>7, <1>9, <1>10, <1>11, <1>12, IndInvLinks DEF StepOK
<1>14. \A x \in Ends : link'[x] \in Link
  BY <1>13 DEF LinkOK, Sized
<1>15. link' \in [Ends -> Link]
  BY <1>8, <1>14
<1>16. used' \in [Events -> Nat]
  BY DEF Deliver, IndInv, TypeOK
<1> QED BY <1>13, <1>15, <1>16 DEF BothStep

\* The loss or the garbling of a frame is a step of one link.
LEMMA LossStep ==
  ASSUME IndInv, NEW e \in Ends, Lose(e) \/ Garble(e)
  PROVE  EndStep(e)
<1> DEFINE t == Tail(link[e].tx)
<1>1. LinkOK(link[e]) /\ PlanFits(link[e]) /\ link \in [Ends -> Link]
  BY IndInvLinks
<1>2. link[e].tx \in Seq(Frame) /\ Len(link[e].tx) <= TxCap /\ link[e].tx # <<>>
  BY <1>1, FieldTypes DEF LinkOK, Sized, Lose, Garble
<1>3. t \in Seq(Frame) /\ Len(t) = Len(link[e].tx) - 1 /\ Len(link[e].tx) \in Nat
  BY <1>2
<1>4. used' \in [Events -> Nat]
  BY SpendOK DEF Lose, Garble, Events
<1>5. CASE Lose(e)
  <2>1. link' = [link EXCEPT ![e] = [link[e] EXCEPT !.tx = t]]
    BY <1>1, <1>5 DEF Lose
  <2>2. Len(t) <= TxCap
    BY <1>2, <1>3, LinkAssumption
  <2> HIDE DEF t
  <2>3. StepOK(link[e], [link[e] EXCEPT !.tx = t])
    BY <1>1, <1>3, <2>2, PutTx
  <2> QED BY <1>4, <2>1, <2>3 DEF EndStep
<1>6. CASE Garble(e)
  <2>1. PICK f \in {Junk, Bad} : link' = [link EXCEPT ![e].tx = <<f>> \o Tail(@)]
    BY <1>6 DEF Garble
  <2> DEFINE g == <<f>> \o t
  <2>2. link' = [link EXCEPT ![e] = [link[e] EXCEPT !.tx = g]]
    BY <1>1, <2>1
  <2>3. f \in Frame
    <3>1. Junk \in Frame
      BY DEF Junk, Frame, Codes, NoId
    <3>2. Bad \in Frame
      BY DEF Bad, Frame, Codes, NoId
    <3> QED BY <3>1, <3>2
  <2>4. g \in Seq(Frame) /\ Len(g) <= TxCap
    <3> HIDE DEF t
    <3> QED BY <1>2, <1>3, <2>3, LinkAssumption
  <2> HIDE DEF g
  <2>5. StepOK(link[e], [link[e] EXCEPT !.tx = g])
    BY <1>1, <2>4, PutTx
  <2> QED BY <1>4, <2>2, <2>5 DEF EndStep
<1> QED BY <1>5, <1>6

\* Each call of the application is a step of one link.
LEMMA AppStep ==
  ASSUME IndInv, NEW e \in Ends,
         AppSend(e) \/ AppLog(e) \/ AppHangup(e) \/ AppKill(e) \/ AppReset(e)
         \/ AppSet(e) \/ AppIdentity(e)
  PROVE  EndStep(e)
<1>1. LinkOK(link[e]) /\ PlanFits(link[e]) /\ link \in [Ends -> Link]
  BY IndInvLinks
<1>2. used' \in [Events -> Nat]
  BY SpendOK DEF AppSend, AppLog, AppHangup, AppKill, AppReset, AppSet, AppIdentity, Events
<1>3. CASE AppSend(e)
  <2>1. PICK a \in BOOLEAN, b \in BOOLEAN, rnd \in Draws :
          link' = [link EXCEPT ![e] = Send(link[e], a, b, rnd)]
    BY <1>3 DEF AppSend
  <2>2. rnd \in Nat
    BY DrawsNat
  <2>3. StepOK(link[e], Send(link[e], a, b, rnd))
    BY <1>1, <2>2, SendOK
  <2> QED BY <1>2, <2>1, <2>3 DEF EndStep
<1>4. CASE AppLog(e)
  <2>1. PICK a \in BOOLEAN, rnd \in Draws :
          link' = [link EXCEPT ![e] = WriteRemoteLog(link[e], a, rnd)]
    BY <1>4 DEF AppLog
  <2>2. rnd \in Nat
    BY DrawsNat
  <2>3. StepOK(link[e], WriteRemoteLog(link[e], a, rnd))
    BY <1>1, <2>2, SendOK
  <2> QED BY <1>2, <2>1, <2>3 DEF EndStep
<1>5. CASE AppHangup(e)
  <2>1. link' = [link EXCEPT ![e] = Hangup(link[e], TRUE)]
    BY <1>5 DEF AppHangup
  <2> QED BY <1>1, <1>2, <2>1, HangupOK DEF EndStep
<1>6. CASE AppKill(e)
  <2>1. link' = [link EXCEPT ![e] = Hangup(link[e], FALSE)]
    BY <1>6 DEF AppKill
  <2> QED BY <1>1, <1>2, <2>1, KillOK DEF EndStep
<1>7. CASE AppReset(e)
  <2>1. link' = [link EXCEPT ![e] = Reset(link[e])]
    BY <1>7 DEF AppReset
  <2> QED BY <1>1, <1>2, <2>1, ResetOK DEF EndStep
<1>8. CASE AppSet(e) \/ AppIdentity(e)
  BY <1>1, <1>2, <1>8, AppSets, SetOK DEF EndStep
<1> QED BY <1>3, <1>4, <1>5, <1>6, <1>7, <1>8

\* Every step is a step of one link or one that neither notices.
LEMMA NextStep ==
  ASSUME IndInv, Next
  PROVE  BothStep \/ \E e \in Ends : EndStep(e)
BY PollStep, DeliverStep, LossStep, AppStep DEF Next

-----------------------------------------------------------------------------
\* Init and Next

\* The invariant holds of two links just constructed.
LEMMA InitInv ==
  ASSUME Init
  PROVE  IndInv
<1> DEFINE N(e) == NewLink(Opts[e])
<1>1. \A e \in Ends : N(e) \in Link
  BY SessionAssumption, NewLinkType
<1>2. \A e \in Ends : /\ N(e).st = "UNINIT" /\ N(e).est = FALSE /\ N(e).just = FALSE
                      /\ N(e).wp = <<>> /\ N(e).out = <<>> /\ N(e).tx = <<>>
                      /\ N(e).buf = <<>> /\ N(e).inb = <<>>
  BY DEF NewLink
<1>3. link = [e \in Ends |-> N(e)]
  BY DEF Init
<1>4. used \in [Events -> Nat]
  BY DEF Init
<1> HIDE DEF N
<1>5. link \in [Ends -> Link]
  BY <1>1, <1>3
<1>6. WpDepth \in Nat /\ MaxOutbound \in Nat /\ TxCap \in Nat /\ BufCap \in Nat
  BY WpDepthAssumption, LinkAssumption, SessionAssumption
<1>7. \A e \in Ends : LinkOK(link[e]) /\ PlanFits(link[e])
  <2> SUFFICES ASSUME NEW e \in Ends PROVE LinkOK(N(e)) /\ PlanFits(N(e))
    BY <1>3
  <2>1. Len(N(e).wp) = 0 /\ Len(N(e).out) = 0 /\ Len(N(e).tx) = 0 /\ Len(N(e).buf) = 0
    BY <1>2
  <2>2. LinkOK(N(e))
    BY <1>1, <1>2, <1>6, <2>1 DEF LinkOK, Sized
  <2>3. PlanFits(N(e))
    BY <1>2, <2>1 DEF PlanFits, Behind
  <2> QED BY <2>2, <2>3
<1> QED BY <1>4, <1>5, <1>7 DEF IndInv, TypeOK, PlanInv, LinkOK, Sized

\* Every step preserves it.
LEMMA NextInv ==
  ASSUME IndInv, [Next]_vars
  PROVE  IndInv'
<1>1. CASE UNCHANGED vars
  BY <1>1 DEF vars, IndInv, TypeOK, PlanInv
<1>2. CASE BothStep
  BY <1>2, LinksIndInv DEF BothStep
<1>3. ASSUME NEW e \in Ends, EndStep(e) PROVE IndInv'
  <2>1. PICK M : StepOK(link[e], M) /\ link' = [link EXCEPT ![e] = M]
    BY <1>3 DEF EndStep
  <2>2. M \in Link
    BY <2>1 DEF StepOK, LinkOK, Sized
  <2>3. link \in [Ends -> Link]
    BY IndInvLinks
  <2>4. link' \in [Ends -> Link]
    BY <2>1, <2>2, <2>3
  <2>5. \A x \in Ends : LinkOK(link'[x]) /\ PlanFits(link'[x])
    BY <2>1, <2>3, IndInvLinks DEF StepOK
  <2>6. used' \in [Events -> Nat]
    BY <1>3 DEF EndStep
  <2> QED BY <2>4, <2>5, <2>6, LinksIndInv
<1> QED BY <1>1, <1>2, <1>3, NextStep

-----------------------------------------------------------------------------
\* Theorems

\* Type and plan together are inductive.
THEOREM IndInvariant == Spec => []IndInv
<1>1. Init => IndInv
  BY InitInv
<1>2. IndInv /\ [Next]_vars => IndInv'
  BY NextInv
<1> QED BY <1>1, <1>2, PTL DEF Spec

\* For any size of the queues and buffers, any options and any number of calls
\* and losses: no operation of M2MLink leaves a queue over its limit, a message
\* in the inbound queue or a field without its type.
THEOREM TypeCorrect == Spec => []TypeOK
<1>1. IndInv => TypeOK
  BY DEF IndInv
<1> QED BY <1>1, IndInvariant, PTL

\* What _fsm_append_route(), _fsm_prepend_state() and _fsm_set_route() plan
\* fits the state the link is in, truncated routes included.
THEOREM PlanCorrect == Spec => []PlanInv
<1>1. IndInv => PlanInv
  BY DEF IndInv
<1> QED BY <1>1, IndInvariant, PTL

\* isConnected() is true in PENDING_AUTH, LIVE and PENDING_HANGUP.
THEOREM EstablishedCorrect == Spec => []Established
<1>1. IndInv => Established
  BY DEF IndInv, PlanInv, PlanFits, Established, Behind
<1> QED BY <1>1, IndInvariant, PTL

\* A step of a link is a step of its life.
LEMMA LifeSteps ==
  ASSUME IndInv, [Next]_vars
  PROVE  [Life!Next]_<<[e \in Ends |-> PhaseOf(link[e].st)], [e \in Ends |-> link[e].est]>>
<1> DEFINE ph == [e \in Ends |-> PhaseOf(link[e].st)]
           cn == [e \in Ends |-> link[e].est]
<1>1. CASE UNCHANGED vars
  BY <1>1 DEF vars
<1>2. CASE BothStep
  <2>1. ph' = ph /\ cn' = cn
    BY <1>2 DEF BothStep
  <2> QED BY <2>1
<1>3. ASSUME NEW e \in Ends, EndStep(e)
      PROVE  [Life!Next]_<<ph, cn>>
  <2>1. PICK M : StepOK(link[e], M) /\ link' = [link EXCEPT ![e] = M]
    BY <1>3 DEF EndStep
  <2>2. link \in [Ends -> Link]
    BY IndInvLinks
  <2> DEFINE q == PhaseOf(M.st)
             d == M.est
  <2>3. ph' = [ph EXCEPT ![e] = q] /\ cn' = [cn EXCEPT ![e] = d]
    BY <2>1, <2>2
  <2>4. ph[e] = PhaseOf(link[e].st) /\ cn[e] = link[e].est
    OBVIOUS
  <2>5. LifeStep(link[e], M)
    BY <2>1 DEF StepOK
  <2>6. \/ q = ph[e] /\ d = cn[e]
        \/ ph[e] = "down" /\ q = "syncing" /\ d = FALSE
        \/ ph[e] = "syncing" /\ q = "syncing" /\ d = TRUE
        \/ ph[e] \in {"syncing", "closing"} /\ q = "up" /\ d = TRUE
        \/ ph[e] \in {"up", "closing"} /\ q = "syncing" /\ d = TRUE
        \/ ph[e] \in {"syncing", "up"} /\ q = "closing" /\ d = TRUE
        \/ ph[e] \in {"syncing", "up", "closing"} /\ q = "down" /\ d = FALSE
    BY <2>4, <2>5 DEF LifeStep
  <2>7. CASE q = ph[e] /\ d = cn[e]
    <3>1. ph' = ph /\ cn' = cn
      BY <2>3, <2>7
    <3> QED BY <3>1
  <2>8. CASE ~(q = ph[e] /\ d = cn[e])
    <3> HIDE DEF q, d
    <3>1. \/ Life!Start(e) \/ Life!Confirm(e) \/ Life!Open(e)
          \/ Life!Resync(e) \/ Life!Close(e) \/ Life!Drop(e)
      BY <2>3, <2>6, <2>8 DEF Life!Start, Life!Confirm, Life!Open, Life!Resync,
                              Life!Close, Life!Drop, Life!Move
    <3> QED BY <3>1 DEF Life!Next
  <2> QED BY <2>7, <2>8
<1> QED BY <1>1, <1>2, <1>3, NextStep

\* Whatever the counterparty, the transport and the timers do, what the
\* application sees of each link is the life of a session as LinkLifecycle
\* describes it.
THEOREM Refinement == Spec => Lifecycle
<1>1. Init => Life!Init
  <2> SUFFICES ASSUME Init PROVE Life!Init
    OBVIOUS
  <2>1. \A e \in Ends : link[e].st = "UNINIT" /\ link[e].est = FALSE
    BY DEF Init, NewLink
  <2> QED BY <2>1 DEF Life!Init, PhaseOf
<1>2. IndInv /\ [Next]_vars =>
        [Life!Next]_<<[e \in Ends |-> PhaseOf(link[e].st)], [e \in Ends |-> link[e].est]>>
  BY LifeSteps
<1> QED BY <1>1, <1>2, IndInvariant, PTL DEF Spec, Lifecycle, Life!Spec

-----------------------------------------------------------------------------
\* Where a HANGUP is on its way

Hangs(q) == \E i \in DOMAIN q : q[i].code = "HANGUP"

\* An operation neither forgets that a HANGUP was sent nor that the link went
\* on hook, believes in one only if one was received, and lets the transport
\* have one only if it takes note.
Tells(L, M) ==
  /\ L.hupT => M.hupT
  /\ L.hook => M.hook
  /\ M.hupR => L.hupR \/ Hangs(L.inb) \/ Hangs(L.buf)
  /\ Hangs(M.inb) => Hangs(L.inb) \/ Hangs(L.buf)
  /\ Hangs(M.buf) => Hangs(L.buf)
  /\ Hangs(M.tx) => Hangs(L.tx) \/ M.hupT

\* A link that was just constructed has nothing to send and sent no HANGUP; one
\* that hung up is on hook.
Ready(L) == /\ L.st = "UNINIT" => ~L.hupT /\ ~L.hook /\ L.out = <<>>
            /\ L.st = "HUNGUP" => L.hook

\* One operation after another.
LEMMA TellsTrans ==
  ASSUME NEW L, NEW M, NEW N, Tells(L, M), Tells(M, N)
  PROVE  Tells(L, N)
BY DEF Tells

\* Nothing is on its way in an empty sequence.
LEMMA HangsNone == ~Hangs(<<>>)
BY DEF Hangs

\* A frame on its own.
LEMMA HangsOne ==
  ASSUME NEW f \in Frame
  PROVE  Hangs(<<f>>) <=> f.code = "HANGUP"
<1> DEFINE s == <<f>>
<1>1. s \in Seq(Frame) /\ DOMAIN s = {1} /\ s[1] = f
  OBVIOUS
<1> HIDE DEF s
<1>2. Hangs(s) <=> f.code = "HANGUP"
  BY <1>1 DEF Hangs
<1> QED BY <1>2 DEF s

\* The frame at the head.
LEMMA HangsHead ==
  ASSUME NEW s \in Seq(Frame), s # <<>>, Head(s).code = "HANGUP"
  PROVE  Hangs(s)
<1>1. 1 \in DOMAIN s /\ s[1] = Head(s)
  OBVIOUS
<1> QED BY <1>1 DEF Hangs

\* What is left of a buffer that was culled.
LEMMA HangsPart ==
  ASSUME NEW s \in Seq(Frame), NEW k \in 1..Len(s), Hangs(SubSeq(s, k, Len(s)))
  PROVE  Hangs(s)
<1> DEFINE t == SubSeq(s, k, Len(s))
<1>1. /\ Len(s) \in Nat /\ DOMAIN s = 1..Len(s)
      /\ DOMAIN t = 1..(Len(s) - k + 1)
      /\ \A i \in 1..(Len(s) - k + 1) : t[i] = s[k + i - 1]
  OBVIOUS
<1> HIDE DEF t
<1>2. PICK i \in DOMAIN t : t[i].code = "HANGUP"
  BY DEF Hangs, t
<1> DEFINE j == k + i - 1
<1>3. i \in 1..(Len(s) - k + 1) /\ t[i] = s[j]
  BY <1>1, <1>2
<1>4. j \in 1..Len(s)
  BY <1>1, <1>3
<1> HIDE DEF j
<1>5. j \in DOMAIN s /\ s[j].code = "HANGUP"
  BY <1>1, <1>2, <1>3, <1>4
<1> QED BY <1>5 DEF Hangs

\* What is left when the head is taken.
LEMMA HangsTail ==
  ASSUME NEW s \in Seq(Frame), s # <<>>, Hangs(Tail(s))
  PROVE  Hangs(s)
<1> DEFINE t == Tail(s)
<1>1. /\ Len(s) \in Nat /\ DOMAIN s = 1..Len(s)
      /\ DOMAIN t = 1..(Len(s) - 1)
      /\ \A i \in 1..(Len(s) - 1) : t[i] = s[i + 1]
  OBVIOUS
<1> HIDE DEF t
<1>2. PICK i \in DOMAIN t : t[i].code = "HANGUP"
  BY DEF Hangs, t
<1>3. i + 1 \in DOMAIN s /\ s[i + 1].code = "HANGUP"
  BY <1>1, <1>2
<1> QED BY <1>3 DEF Hangs

\* Frames behind frames.
LEMMA HangsConcat ==
  ASSUME NEW s \in Seq(Frame), NEW t \in Seq(Frame)
  PROVE  Hangs(s \o t) <=> Hangs(s) \/ Hangs(t)
<1> DEFINE u == s \o t
<1>1. /\ Len(s) \in Nat /\ Len(t) \in Nat
      /\ DOMAIN s = 1..Len(s) /\ DOMAIN t = 1..Len(t) /\ DOMAIN u = 1..(Len(s) + Len(t))
      /\ \A i \in 1..Len(s) : u[i] = s[i]
      /\ \A i \in 1..Len(t) : u[Len(s) + i] = t[i]
  OBVIOUS
<1> HIDE DEF u
<1>2. ASSUME Hangs(u) PROVE Hangs(s) \/ Hangs(t)
  <2>1. PICK i \in DOMAIN u : u[i].code = "HANGUP"
    BY <1>2 DEF Hangs
  <2>2. CASE i <= Len(s)
    BY <1>1, <2>1, <2>2 DEF Hangs
  <2>3. CASE i > Len(s)
    <3>1. i - Len(s) \in 1..Len(t) /\ Len(s) + (i - Len(s)) = i
      BY <1>1, <2>1, <2>3
    <3>2. t[i - Len(s)] = u[i]
      BY <1>1, <3>1
    <3> QED BY <1>1, <2>1, <3>1, <3>2 DEF Hangs
  <2> QED BY <1>1, <2>1, <2>2, <2>3
<1>3. Hangs(s) => Hangs(u)
  BY <1>1 DEF Hangs
<1>4. Hangs(t) => Hangs(u)
  <2> SUFFICES ASSUME Hangs(t) PROVE Hangs(u)
    OBVIOUS
  <2>1. PICK i \in DOMAIN t : t[i].code = "HANGUP"
    BY DEF Hangs
  <2>2. Len(s) + i \in DOMAIN u /\ u[Len(s) + i].code = "HANGUP"
    BY <1>1, <2>1
  <2> QED BY <2>2 DEF Hangs
<1> QED BY <1>2, <1>3, <1>4 DEF u

\* A frame behind frames.
LEMMA HangsAppend ==
  ASSUME NEW s \in Seq(Frame), NEW f \in Frame, Hangs(Append(s, f))
  PROVE  Hangs(s) \/ f.code = "HANGUP"
<1> DEFINE o == <<f>>
<1>1. Append(s, f) = s \o o /\ o \in Seq(Frame)
  OBVIOUS
<1>2. Hangs(o) <=> f.code = "HANGUP"
  BY HangsOne
<1> HIDE DEF o
<1> QED BY <1>1, <1>2, HangsConcat

-----------------------------------------------------------------------------
\* What the operations of a link do to it

\* Nothing that matters here changed.
Untold(L, M) == /\ M.hupT = L.hupT /\ M.hook = L.hook /\ M.hupR = L.hupR
                /\ M.inb = L.inb /\ M.buf = L.buf /\ M.tx = L.tx

\* An operation that leaves those fields alone tells.
LEMMA UntoldTells ==
  ASSUME NEW L, NEW M, Untold(L, M)
  PROVE  Tells(L, M)
BY DEF Untold, Tells

\* One such operation after another.
LEMMA UntoldTrans ==
  ASSUME NEW L, NEW M, NEW N, Untold(L, M), Untold(M, N)
  PROVE  Untold(L, N)
BY DEF Untold

\* The fields that may change freely.
LEMMA UntoldFields ==
  ASSUME NEW L \in Link
  PROVE  /\ \A q : Untold(L, [L EXCEPT !.out = q])
         /\ \A w : Untold(L, [L EXCEPT !.wp = w])
         /\ \A k : Untold(L, [L EXCEPT !.perr = k])
         /\ \A k : Untold(L, [L EXCEPT !.unackd = k])
         /\ \A b : Untold(L, [L EXCEPT !.just = b])
         /\ \A b : Untold(L, [L EXCEPT !.cast = b])
         /\ \A b : Untold(L, [L EXCEPT !.syncIn = b])
         /\ \A b, c : Untold(L, [L EXCEPT !.syncIn = b, !.syncRx = c])
         /\ \A b, c, d : Untold(L, [L EXCEPT !.syncRx = b, !.syncIn = c, !.cast = d])
         /\ \A b, w : Untold(L, [L EXCEPT !.wp = w, !.est = b])
         /\ \A s, w : Untold(L, [L EXCEPT !.st = s, !.wp = w])
BY DEF Untold, Link

\* The transport takes frames; a HANGUP among them is accounted for.
LEMMA RelayTells ==
  ASSUME NEW L \in Link, NEW fs \in Seq(Frame)
  PROVE  LET M == Relay(L, fs)
         IN  /\ M.hupT = L.hupT /\ M.hook = L.hook /\ M.hupR = L.hupR
             /\ M.inb = L.inb /\ M.buf = L.buf
             /\ Hangs(M.tx) <=> Hangs(L.tx) \/ Hangs(fs)
<1> DEFINE t == L.tx \o fs
           M == [L EXCEPT !.tx = t, !.just = TRUE]
<1>1. Relay(L, fs) = M
  BY DEF Relay
<1>2. L.tx \in Seq(Frame)
  BY FieldTypes
<1>3. Hangs(t) <=> Hangs(L.tx) \/ Hangs(fs)
  BY <1>2, HangsConcat
<1> HIDE DEF t
<1>4. /\ M.hupT = L.hupT /\ M.hook = L.hook /\ M.hupR = L.hupR
      /\ M.inb = L.inb /\ M.buf = L.buf /\ M.tx = t
  BY DEF Link
<1> HIDE DEF M
<1> QED BY <1>1, <1>3, <1>4

\* A frame that is not a HANGUP may go to the transport.
LEMMA RelayOther ==
  ASSUME NEW L \in Link, NEW f \in Frame, f.code # "HANGUP"
  PROVE  Tells(L, Relay(L, <<f>>))
<1> DEFINE o == <<f>>
           M == Relay(L, o)
<1>1. o \in Seq(Frame) /\ ~Hangs(o)
  BY HangsOne
<1> HIDE DEF o
<1>2. /\ M.hupT = L.hupT /\ M.hook = L.hook /\ M.hupR = L.hupR
      /\ M.inb = L.inb /\ M.buf = L.buf
      /\ Hangs(M.tx) <=> Hangs(L.tx)
  BY <1>1, RelayTells
<1> HIDE DEF M
<1>3. Tells(L, M)
  BY <1>2 DEF Tells
<1> QED BY <1>3 DEF M, o

\* A sync packet is not a HANGUP.
LEMMA SendSyncTells ==
  ASSUME NEW L \in Link, NEW b \in BOOLEAN
  PROVE  Tells(L, SendSync(L, b))
<1>1. SyncFrame(b) \in Frame /\ SyncFrame(b).code # "HANGUP"
  BY SyncFrameType DEF SyncFrame
<1>2. SendSync(L, b) = Relay(L, <<SyncFrame(b)>>) \/ SendSync(L, b) = L
  BY DEF SendSync
<1>3. Tells(L, L)
  BY DEF Tells
<1> QED BY <1>1, <1>2, <1>3, RelayOther

\* What only works on the queue.
LEMMA QueueTells ==
  ASSUME NEW L \in Link
  PROVE  /\ \A m : Untold(L, SendMsg(L, m))
         /\ \A id : Untold(L, ClearWaiting(L, id))
         /\ \A f : Untold(L, Discard(L, f))
         /\ \A f, b : Untold(L, Respond(L, f, b))
<1>1. \A q : Untold(L, [L EXCEPT !.out = q])
  BY UntoldFields
<1>2. \A m : Untold(L, SendMsg(L, m))
  BY <1>1 DEF SendMsg
<1>3. \A id : Untold(L, ClearWaiting(L, id))
  BY <1>1 DEF ClearWaiting
<1>4. Untold(L, L)
  BY DEF Untold
<1> QED BY <1>2, <1>3, <1>4 DEF Discard, Respond
\* A resync that is planned.
LEMMA InsertSyncStatesTells ==
  ASSUME NEW L \in Link
  PROVE  Untold(L, InsertSyncStates(L))
BY UntoldFields DEF InsertSyncStates

\* The parser takes a HANGUP from the input buffer to the inbound queue.
LEMMA ParseTells ==
  ASSUME NEW n \in Nat, NEW L, Sized(L, n)
  PROVE  Tells(L, Parse(L))
<1>1. L \in Link /\ L.buf \in Seq(Frame) /\ L.perr \in 0..MAX_PARSE_FAILURES
  BY FieldTypes DEF Sized, Link
<1>2. Tells(L, L) /\ Untold(L, InsertSyncStates(L))
  BY <1>1, InsertSyncStatesTells DEF Tells
<1>3. CASE L.buf = <<>>
  BY <1>2, <1>3 DEF Parse
<1>4. CASE L.buf # <<>>
  <2> DEFINE f == Head(L.buf)
             b == Tail(L.buf)
             T == [L EXCEPT !.buf = b]
             k == IF L.perr < MAX_PARSE_FAILURES THEN L.perr + 1 ELSE L.perr
             N == [T EXCEPT !.perr = k]
             g == <<f>>
             P == [T EXCEPT !.perr = 0, !.inb = g]
  <2>1. f \in Frame /\ b \in Seq(Frame) /\ Len(b) <= Len(L.buf)
    BY <1>1, <1>4
  <2>2. Hangs(b) => Hangs(L.buf)
    BY <1>1, <1>4, HangsTail
  <2>3. Hangs(g) => Hangs(L.buf)
    BY <1>1, <1>4, <2>1, HangsOne, HangsHead
  <2>4. k \in 0..MAX_PARSE_FAILURES
    BY <1>1 DEF MAX_PARSE_FAILURES
  <2>5. Parse(L) = CASE f.code = "JUNK" -> InsertSyncStates(L)
            [] f.code = "BAD"  -> IF k >= MAX_PARSE_FAILURES THEN InsertSyncStates(N) ELSE N
            [] OTHER -> P
    BY <1>4 DEF Parse
  <2> HIDE DEF f, b, k, g
  <2>6. T \in Link
    BY <1>1, <2>1, SetBuf
  <2>7. /\ T.hupT = L.hupT /\ T.hook = L.hook /\ T.hupR = L.hupR
        /\ T.inb = L.inb /\ T.buf = b /\ T.tx = L.tx
    BY <1>1 DEF Link
  <2> HIDE DEF T
  <2>8. N \in Link
    BY <2>4, <2>6 DEF Link
  <2>9. Untold(T, N)
    BY <2>6, UntoldFields
  <2>10. /\ P.hupT = T.hupT /\ P.hook = T.hook /\ P.hupR = T.hupR
         /\ P.inb = g /\ P.buf = T.buf /\ P.tx = T.tx
    BY <2>6 DEF Link
  <2> HIDE DEF N, P
  <2>11. Tells(L, N)
    BY <2>2, <2>7, <2>9 DEF Tells, Untold
  <2>12. Tells(L, P)
    BY <2>2, <2>3, <2>7, <2>10 DEF Tells
  <2>13. Tells(L, InsertSyncStates(N))
    BY <2>8, <2>11, InsertSyncStatesTells, UntoldTells, TellsTrans
  <2>14. Tells(L, InsertSyncStates(L))
    BY <1>2, UntoldTells
  <2>15. \/ Parse(L) = InsertSyncStates(L) \/ Parse(L) = InsertSyncStates(N)
         \/ Parse(L) = N \/ Parse(L) = P
    BY <2>5
  <2> QED BY <2>11, <2>12, <2>13, <2>14, <2>15
<1> QED BY <1>3, <1>4

\* _process_for_sync() only drops what precedes a place in the buffer.
LEMMA ConsumeSyncsTells ==
  ASSUME NEW n \in Nat, NEW L, Sized(L, n), SyncsIn(L.buf) # {}
  PROVE  Tells(L, ConsumeSyncs(L))
<1> DEFINE run  == FirstRun(L.buf)
           last == CHOOSE i \in run : \A j \in run : j <= i
           cut  == IF last < Len(L.buf) THEN last + 1 ELSE last
           set  == \E i \in run : L.buf[i].reply
           ans  == \E i \in run : L.buf[i].expect
           b    == SubSeq(L.buf, cut, Len(L.buf))
           rx   == L.syncRx \/ set
           in   == L.syncIn \/ set \/ ans
           M    == [L EXCEPT !.buf = b, !.syncRx = rx, !.syncIn = in]
<1>1. L \in Link /\ L.buf \in Seq(Frame) /\ Len(L.buf) \in Nat
  BY FieldTypes DEF Sized
<1>2. run # {} /\ run \in SUBSET (1..Len(L.buf))
  BY <1>1, FirstRunExists
<1>3. last \in 1..Len(L.buf)
  <2> HIDE DEF run
  <2>1. \E i \in run : \A j \in run : j <= i
    BY <1>1, <1>2, GreatestNat
  <2>2. last \in run
    BY <2>1
  <2> HIDE DEF last
  <2> QED BY <1>2, <2>2
<1>4. cut \in 1..Len(L.buf)
  <2> HIDE DEF last
  <2> QED BY <1>1, <1>3
<1>5. b \in Seq(Frame) /\ (Hangs(b) => Hangs(L.buf))
  <2> HIDE DEF cut
  <2> QED BY <1>1, <1>4, HangsPart
<1>6. ConsumeSyncs(L) = IF ans THEN SendSync(M, FALSE) ELSE M
  BY DEF ConsumeSyncs
<1>7. rx \in BOOLEAN /\ in \in BOOLEAN
  BY <1>1 DEF Link
<1> HIDE DEF run, last, cut, set, ans, b, rx, in
<1>8. M \in Link
  BY <1>1, <1>5, <1>7 DEF Link
<1>9. /\ M.hupT = L.hupT /\ M.hook = L.hook /\ M.hupR = L.hupR
      /\ M.inb = L.inb /\ M.buf = b /\ M.tx = L.tx
  BY <1>1 DEF Link
<1> HIDE DEF M
<1>10. Tells(L, M)
  BY <1>5, <1>9 DEF Tells
<1>11. Tells(L, SendSync(M, FALSE))
  BY <1>8, <1>10, SendSyncTells, TellsTrans
<1> QED BY <1>6, <1>10, <1>11

\* The input buffer as a whole.
LEMMA ProcessInputTells ==
  ASSUME NEW n \in Nat, NEW L, Sized(L, n)
  PROVE  Tells(L, ProcessInput(L))
<1>1. L \in Link
  BY DEF Sized
<1>2. Tells(L, L) /\ Tells(L, Parse(L))
  BY ParseTells DEF Tells
<1>3. CASE L.st = "SYNC_RESYNC" /\ SyncsIn(L.buf) = {}
  <2> DEFINE e == <<>>
             M == [L EXCEPT !.buf = e]
  <2>1. ~Hangs(e)
    BY HangsNone
  <2>2. ProcessInput(L) = M
    BY <1>3 DEF ProcessInput
  <2> HIDE DEF e
  <2>3. /\ M.hupT = L.hupT /\ M.hook = L.hook /\ M.hupR = L.hupR
        /\ M.inb = L.inb /\ M.buf = e /\ M.tx = L.tx
    BY <1>1 DEF Link
  <2> HIDE DEF M
  <2> QED BY <2>1, <2>2, <2>3 DEF Tells
<1>4. CASE L.st = "SYNC_RESYNC" /\ SyncsIn(L.buf) # {}
  <2> DEFINE M == ConsumeSyncs(L)
             N == SendSync(M, TRUE)
  <2>1. Sized(M, n) /\ M \in Link /\ Tells(L, M)
    BY <1>4, ConsumeSyncsOK, ConsumeSyncsTells DEF Sized
  <2>2. ProcessInput(L) = Parse(IF M.cast THEN N ELSE M)
    BY <1>4 DEF ProcessInput
  <2> HIDE DEF M
  <2>3. Sized(N, n) /\ Tells(M, N)
    BY <2>1, SendSyncOK, SendSyncTells
  <2> HIDE DEF N
  <2>4. Tells(L, Parse(M)) /\ Tells(L, Parse(N))
    <3>1. Tells(M, Parse(M)) /\ Tells(N, Parse(N))
      BY <2>1, <2>3, ParseTells
    <3>2. Tells(L, N)
      BY <2>1, <2>3, TellsTrans
    <3> QED BY <2>1, <3>1, <3>2, TellsTrans
  <2> QED BY <2>2, <2>4
<1>5. CASE L.st # "SYNC_RESYNC"
  <2>1. ProcessInput(L) = Parse(L) \/ ProcessInput(L) = L
    BY <1>5 DEF ProcessInput
  <2> QED BY <1>2, <2>1
<1> QED BY <1>3, <1>4, <1>5

\* The handlers: HANGUP_RXD is set by the HANGUP in the inbound queue.
LEMMA ChurnInboundTells ==
  ASSUME NEW n \in Nat, NEW L, Sized(L, n), NEW app \in Answers,
         L.inb = <<>> \/ \E f \in Frame : L.inb = <<f>>
  PROVE  Tells(L, ChurnInbound(L, app))
<1>1. CASE L.inb = <<>>
  BY <1>1 DEF ChurnInbound, Tells
<1>2. ASSUME NEW f \in Frame, L.inb = <<f>>
      PROVE  Tells(L, ChurnInbound(L, app))
  <2> DEFINE e == <<>>
             M == [L EXCEPT !.inb = e]
  <2>1. L.inb # <<>> /\ Head(L.inb) = f /\ L \in Link
    BY <1>2 DEF Sized
  <2>2. ~Hangs(e) /\ e \in Seq(Frame)
    BY HangsNone
  <2>3. ChurnInbound(L, app) =
          CASE f.code = "SYNC"        -> OnSync(M, f)
            [] f.code = "CONNECT"     -> OnConnect(M, f)
            [] f.code = "HANGUP"      -> OnHangup(M, f)
            [] f.code = "LOG"         -> OnLog(M, f)
            [] f.code = "WHO"         -> OnWho(M, f)
            [] f.code = "APPLICATION" -> OnApplication(M, f, app)
            [] OTHER                  -> M
    BY <2>1 DEF ChurnInbound
  <2> HIDE DEF e
  <2>4. M \in Link
    BY <2>1, <2>2, SetInb
  <2>5. /\ M.hupT = L.hupT /\ M.hook = L.hook /\ M.hupR = L.hupR
        /\ M.inb = e /\ M.buf = L.buf /\ M.tx = L.tx
    BY <2>1 DEF Link
  <2> HIDE DEF M
  <2>6. Tells(L, M)
    BY <2>2, <2>5 DEF Tells
  <2>7. \A K : Untold(M, K) => Tells(L, K)
    BY <2>6, UntoldTells, TellsTrans
  <2>8. CASE f.code = "SYNC"
    <3> DEFINE K == [M EXCEPT !.syncRx = TRUE, !.syncIn = TRUE, !.cast = FALSE]
               Q == [M EXCEPT !.syncIn = TRUE]
    <3>1. K \in Link /\ Q \in Link
      BY <2>4, SetFlags
    <3>2. Untold(M, K) /\ Untold(M, Q)
      BY <2>4, UntoldFields
    <3>3. ChurnInbound(L, app) = Discard(K, f) \/ ChurnInbound(L, app) = SendSync(Q, FALSE)
      BY <2>3, <2>8 DEF OnSync
    <3> HIDE DEF K, Q
    <3>4. Tells(L, Discard(K, f))
      BY <2>7, <3>1, <3>2, QueueTells, UntoldTrans
    <3>5. Tells(L, SendSync(Q, FALSE))
      BY <2>7, <3>1, <3>2, SendSyncTells, TellsTrans
    <3> QED BY <3>3, <3>4, <3>5
  <2>9. CASE f.code = "CONNECT"
    <3> DEFINE route == IF ~M.est /\ M.opts.auth THEN <<"PENDING_AUTH", "LIVE">> ELSE <<"LIVE">>
               w     == IF M.est \/ IsStable(M.wp) THEN AppendRoute(M.wp, route) ELSE M.wp
               K     == [M EXCEPT !.wp = w, !.est = TRUE]
               h     == Header(ReplyTo(f, FALSE))
               R     == Relay(M, <<h>>)
    <3>1. \/ ChurnInbound(L, app) = Discard(K, f)
          \/ ChurnInbound(L, app) = R
          \/ ChurnInbound(L, app) = M
      BY <2>3, <2>9 DEF OnConnect
    <3>2. h \in Frame /\ h.code # "HANGUP"
      <4>1. ReplyTo(f, FALSE) \in Message
        BY <2>9, ReplyToType DEF Codes
      <4> QED BY <2>9, <4>1, HeaderType DEF Header, ReplyTo
    <3> HIDE DEF h
    <3>3. Tells(M, R)
      BY <2>4, <3>2, RelayOther
    <3> HIDE DEF R
    <3>4. Untold(M, Discard(K, f))
      <4> HIDE DEF w
      <4>1. /\ K.hupT = M.hupT /\ K.hook = M.hook /\ K.hupR = M.hupR
            /\ K.inb = M.inb /\ K.buf = M.buf /\ K.tx = M.tx
        BY <2>4 DEF Link
      <4>2. \A q : Untold(K, [K EXCEPT !.out = q])
        BY <2>4 DEF Untold, Link
      <4> HIDE DEF K
      <4>3. Untold(K, Discard(K, f))
        BY <4>2 DEF Discard, ClearWaiting, Untold
      <4> QED BY <4>1, <4>3 DEF Untold
    <3> HIDE DEF K
    <3> QED BY <2>6, <2>7, <3>1, <3>3, <3>4, TellsTrans
  <2>10. CASE f.code = "HANGUP"
    <3> DEFINE K == [M EXCEPT !.hupR = TRUE]
               R == Respond(K, f, FALSE)
               w == AppendRoute(R.wp, <<"PENDING_HANGUP", "HUNGUP">>)
               X == [R EXCEPT !.wp = w]
    <3>1. \/ ChurnInbound(L, app) = Discard(K, f)
          \/ ChurnInbound(L, app) = R
          \/ ChurnInbound(L, app) = X
          \/ ChurnInbound(L, app) = K
      BY <2>3, <2>10 DEF OnHangup
    <3>2. Hangs(L.inb)
      BY <1>2, <2>1, <2>10, HangsOne
    <3>3. K \in Link
      BY <2>4 DEF Link
    <3>4. /\ K.hupT = M.hupT /\ K.hook = M.hook /\ K.hupR = TRUE
          /\ K.inb = M.inb /\ K.buf = M.buf /\ K.tx = M.tx
      BY <2>4 DEF Link
    <3>5. Tells(L, K)
      BY <2>2, <2>5, <3>2, <3>4 DEF Tells
    <3> HIDE DEF K
    <3>6. Untold(K, Discard(K, f)) /\ Untold(K, R)
      BY <3>3, QueueTells
    <3>7. Untold(K, X)
      <4>1. R = K \/ \E q : R = [K EXCEPT !.out = q]
        BY DEF Respond, SendMsg, ClearWaiting
      <4>2. /\ X.hupT = R.hupT /\ X.hook = R.hook /\ X.hupR = R.hupR
            /\ X.inb = R.inb /\ X.buf = R.buf /\ X.tx = R.tx
        <5> HIDE DEF R, w
        <5> QED BY <3>3, <4>1 DEF Link
      <4> HIDE DEF X, R
      <4> QED BY <3>6, <4>2 DEF Untold
    <3> HIDE DEF R, X
    <3> QED BY <3>1, <3>5, <3>6, <3>7, UntoldTells, TellsTrans
  <2>11. CASE f.code \in {"LOG", "WHO", "APPLICATION"}
    <3>1. Untold(M, OnLog(M, f)) /\ Untold(M, OnWho(M, f)) /\ Untold(M, OnApplication(M, f, app))
      <4>1. Answer(f, app) \in Answers
        BY DEF Answer, Answers
      <4>2. /\ \A b : Untold(M, Respond(M, f, b))
            /\ Untold(M, Discard(M, f))
        BY <2>4, QueueTells
      <4>3. Untold(M, OnLog(M, f))
        BY <4>2 DEF OnLog
      <4>4. Untold(M, OnWho(M, f))
        BY <4>2 DEF OnWho
      <4>5. Untold(M, OnApplication(M, f, app))
        BY <4>1, <4>2 DEF OnApplication, Answers
      <4> QED BY <4>3, <4>4, <4>5
    <3>2. \/ ChurnInbound(L, app) = OnLog(M, f)
          \/ ChurnInbound(L, app) = OnWho(M, f)
          \/ ChurnInbound(L, app) = OnApplication(M, f, app)
      BY <2>3, <2>11
    <3> QED BY <2>7, <3>1, <3>2
  <2>12. CASE f.code \notin {"SYNC", "CONNECT", "HANGUP", "LOG", "WHO", "APPLICATION"}
    <3>1. ChurnInbound(L, app) = M
      BY <2>3, <2>12
    <3> QED BY <2>6, <3>1
  <2> QED BY <2>8, <2>9, <2>10, <2>11, <2>12
<1> QED BY <1>1, <1>2
\* The transport has a HANGUP only if HANGUP_TXD is set with it.
LEMMA AfterRelayTells ==
  ASSUME NEW L \in Link, NEW m \in Message
  PROVE  Tells(L, AfterRelay(L, m)) /\ AfterRelay(L, m) \in Link
<1> DEFINE fs == Serialized(m)
           K  == Relay(L, fs)
           h  == K.hupT \/ m.code = "HANGUP"
           M  == [K EXCEPT !.hupT = h]
<1>1. AfterRelay(L, m) = M
  BY DEF AfterRelay
<1>2. fs \in Seq(Frame) /\ (Hangs(fs) => m.code = "HANGUP")
  <2>1. CASE m.body = "spent"
    <3>1. fs = <<>>
      BY <2>1 DEF Serialized
    <3> QED BY <3>1, HangsNone
  <2>2. CASE m.body # "spent"
    <3>1. fs = <<Header(m)>> /\ Header(m) \in Frame /\ Header(m).code = m.code
      BY <2>2, HeaderType DEF Serialized, Header
    <3>2. fs \in Seq(Frame)
      <4> HIDE DEF fs
      <4> QED BY <3>1
    <3> QED BY <3>1, <3>2, HangsOne
  <2> QED BY <2>1, <2>2
<1> HIDE DEF fs
<1>3. L.tx \in Seq(Frame)
  BY FieldTypes
<1>4. K \in Link
  <2> DEFINE t == L.tx \o fs
  <2>1. t \in Seq(Frame)
    BY <1>2, <1>3
  <2> HIDE DEF t
  <2>2. [L EXCEPT !.tx = t, !.just = TRUE] \in Link
    BY <2>1, SetTx
  <2> QED BY <2>2 DEF K, Relay, t
<1>5. /\ K.hupT = L.hupT /\ K.hook = L.hook /\ K.hupR = L.hupR
      /\ K.inb = L.inb /\ K.buf = L.buf
      /\ Hangs(K.tx) <=> Hangs(L.tx) \/ Hangs(fs)
  BY <1>2, RelayTells
<1> HIDE DEF K
<1>6. h \in BOOLEAN
  BY <1>4 DEF Link
<1>7. h <=> L.hupT \/ m.code = "HANGUP"
  BY <1>5
<1> HIDE DEF h
<1>8. M \in Link
  BY <1>4, <1>6 DEF Link
<1>9. /\ M.hupT = h /\ M.hook = K.hook /\ M.hupR = K.hupR
      /\ M.inb = K.inb /\ M.buf = K.buf /\ M.tx = K.tx
  BY <1>4 DEF Link
<1> HIDE DEF M
<1> QED BY <1>1, <1>2, <1>5, <1>7, <1>8, <1>9 DEF Tells

\* The transmission of a message, and its way back into the queue.
LEMMA TransmitTells ==
  ASSUME NEW L \in Link, NEW m \in Message, NEW was
  PROVE  Tells(L, Transmit(L, m, was))
<1> DEFINE R == AfterRelay(L, m)
<1>1. R \in Link /\ Tells(L, R)
  BY AfterRelayTells
<1>2. \/ \E q : Transmit(L, m, was) = [L EXCEPT !.out = q]
      \/ \E q : Transmit(L, m, was) = [R EXCEPT !.out = q]
      \/ Transmit(L, m, was) = R
  BY DEF Transmit
<1> HIDE DEF R
<1>3. \A q : Untold(L, [L EXCEPT !.out = q]) /\ Untold(R, [R EXCEPT !.out = q])
  BY <1>1, UntoldFields
<1>4. \A q : Tells(L, [L EXCEPT !.out = q])
  BY <1>3, UntoldTells
<1>5. \A q : Tells(L, [R EXCEPT !.out = q])
  BY <1>1, <1>3, UntoldTells, TellsTrans
<1> QED BY <1>1, <1>2, <1>4, <1>5

\* The outbound queue as a whole.
LEMMA ChurnOutboundTells ==
  ASSUME NEW n \in Nat, NEW L, Sized(L, n), NEW timedOut \in BOOLEAN
  PROVE  Tells(L, ChurnOutbound(L, timedOut))
<1>1. L \in Link /\ L.out \in Seq(Message)
  BY FieldTypes DEF Sized
<1>2. CASE L.out = <<>>
  BY <1>2 DEF ChurnOutbound, Tells
<1>3. CASE L.out # <<>>
  <2> DEFINE m == Head(L.out)
             t == Tail(L.out)
             M == [L EXCEPT !.out = t]
  <2>1. m \in Message /\ t \in Seq(Message)
    BY <1>1, <1>3
  <2>2. ChurnOutbound(L, timedOut) =
          CASE ~m.sent -> Transmit(M, m, m.prio)
            [] m.sent /\ ~timedOut ->
                 [M EXCEPT !.out = Insert(@, m, PRIORITY_WAITING)]
            [] m.sent /\ timedOut /\ m.retries > 0 -> Transmit(M, AfterRetry(m), m.prio)
            [] OTHER -> GiveUp(M)
    BY <1>3 DEF ChurnOutbound
  <2> HIDE DEF m, t
  <2>3. M \in Link /\ Tells(L, M)
    BY <1>1, <2>1, SetOut, UntoldFields, UntoldTells
  <2> HIDE DEF M
  <2>4. Tells(M, Transmit(M, m, m.prio))
    BY <2>1, <2>3, TransmitTells
  <2>5. \A q : Tells(M, [M EXCEPT !.out = q])
    BY <2>3, UntoldFields, UntoldTells
  <2>6. m.retries > 0 => Tells(M, Transmit(M, AfterRetry(m), m.prio))
    BY <2>1, <2>3, RetryType, TransmitTells
  <2>7. Tells(M, GiveUp(M))
    BY <2>3, UntoldFields, UntoldTells DEF GiveUp
  <2>8. m.sent \in BOOLEAN
    BY <2>1 DEF Message
  <2>9. Tells(M, ChurnOutbound(L, timedOut))
    <3>1. CASE ~m.sent
      BY <2>2, <2>4, <3>1
    <3>2. CASE m.sent /\ ~timedOut
      BY <2>2, <2>5, <3>2
    <3>3. CASE m.sent /\ timedOut /\ m.retries > 0
      BY <2>2, <2>6, <3>3
    <3>4. CASE m.sent /\ timedOut /\ ~(m.retries > 0)
      BY <2>2, <2>7, <3>4
    <3> QED BY <2>8, <3>1, <3>2, <3>3, <3>4
  <2> QED BY <2>3, <2>9, TellsTrans
<1> QED BY <1>2, <1>3

\* A keepalive is a sync packet.
LEMMA KeepAliveTells ==
  ASSUME NEW L \in Link, NEW kaDue
  PROVE  Tells(L, KeepAlive(L, kaDue))
<1>1. Tells(L, L) /\ Tells(L, SendSync(L, TRUE))
  BY SendSyncTells DEF Tells
<1> QED BY <1>1 DEF KeepAlive

\* All of poll() but its last call.
LEMMA ServiceTells ==
  ASSUME NEW n \in Nat, NEW L, Sized(L, n), L.inb = <<>>,
         NEW app \in Answers, NEW timedOut \in BOOLEAN, NEW kaDue \in BOOLEAN
  PROVE  Tells(L, Service(L, app, kaDue, timedOut))
<1> DEFINE P == ProcessInput(L)
           H == ChurnInbound(P, app)
           S == ChurnOutbound(H, timedOut)
           M == KeepAlive(S, kaDue)
<1>1. /\ Sized(P, n) /\ Tells(L, P)
      /\ P.inb = <<>> \/ \E f \in Frame : P.inb = <<f>>
  <2>1. Tells(L, P)
    BY ProcessInputTells
  <2> QED BY <2>1, ProcessInputOK DEF Steady
<1> HIDE DEF P
<1>2. Sized(H, n) /\ Tells(P, H)
  BY <1>1, ChurnInboundOK, ChurnInboundTells
<1> HIDE DEF H
<1>3. Sized(S, n) /\ Tells(H, S)
  BY <1>2, ChurnOutboundOK, ChurnOutboundTells
<1> HIDE DEF S
<1>4. Tells(S, M)
  BY <1>3, KeepAliveTells DEF Sized
<1>5. Tells(L, M)
  BY <1>1, <1>2, <1>3, <1>4, TellsTrans
<1> QED BY <1>5 DEF Service, M, S, H, P

\* A link that was just constructed sends syncs at most.
LEMMA UninitService ==
  ASSUME NEW n \in Nat, NEW L, Sized(L, n), L.inb = <<>>, L.st = "UNINIT", Ready(L),
         NEW app, NEW timedOut, NEW kaDue
  PROVE  Ready(Service(L, app, kaDue, timedOut))
<1> DEFINE K == Relay(L, <<SyncFrame(TRUE)>>)
<1>1. ProcessInput(L) = L
  BY DEF ProcessInput
<1>2. ChurnInbound(L, app) = L
  BY DEF ChurnInbound
<1>3. ChurnOutbound(L, timedOut) = L
  BY DEF ChurnOutbound, Ready
<1>4. Service(L, app, kaDue, timedOut) = K \/ Service(L, app, kaDue, timedOut) = L
  BY <1>1, <1>2, <1>3 DEF Service, KeepAlive, SendSync
<1>5. K.st = L.st /\ K.hupT = L.hupT /\ K.hook = L.hook /\ K.out = L.out
  BY DEF Relay, Sized, Link
<1> HIDE DEF K
<1> QED BY <1>4, <1>5 DEF Ready

\* _fsm_set_position(), but for the setup.
LEMMA EnterTells ==
  ASSUME NEW n \in Nat, NEW L, Sized(L, n), L.inb = <<>>,
         NEW s \in States \ {"PENDING_SETUP"}, NEW rnd \in Nat
  PROVE  LET r == Enter(L, s, rnd)
         IN  Tells(L, r.link) /\ (s = "HUNGUP" => r.link.hook)
<1>1. L \in Link /\ Tells(L, L)
  BY DEF Sized, Tells
<1>2. CASE s = "SYNC_RESYNC"
  <2> DEFINE ok == CanRelay(L, <<SyncFrame(TRUE)>>)
             e  == <<>>
             M  == [L EXCEPT !.buf = e, !.syncIn = FALSE, !.syncRx = FALSE, !.cast = ok]
  <2>1. Enter(L, s, rnd).link = SendSync(M, TRUE)
    BY <1>2 DEF Enter, EnterResync
  <2>2. ok \in BOOLEAN
    BY LinkAssumption DEF CanRelay
  <2>3. e \in Seq(Frame) /\ ~Hangs(e)
    BY HangsNone
  <2> HIDE DEF ok, e
  <2>4. M \in Link
    BY <1>1, <2>2, <2>3 DEF Link
  <2>5. /\ M.hupT = L.hupT /\ M.hook = L.hook /\ M.hupR = L.hupR
        /\ M.inb = L.inb /\ M.buf = e /\ M.tx = L.tx
    BY <1>1 DEF Link
  <2> HIDE DEF M
  <2>6. Tells(L, M)
    BY <2>3, <2>5 DEF Tells
  <2> QED BY <1>2, <2>1, <2>4, <2>6, SendSyncTells, TellsTrans
<1>3. CASE s = "SYNC_TENTATIVE"
  <2> DEFINE c == NewHeader("CONNECT", TRUE, rnd)
             M == [L EXCEPT !.cast = FALSE]
             R == Relay(M, <<c>>)
  <2>1. Enter(L, s, rnd).link = R \/ Enter(L, s, rnd).link = M
    BY <1>3 DEF Enter, EnterTentative
  <2>2. c \in Frame /\ c.code # "HANGUP"
    BY NewHeaderType DEF Codes
  <2> HIDE DEF c
  <2>3. M \in Link /\ Tells(L, M)
    BY <1>1, UntoldFields, UntoldTells DEF Link
  <2> HIDE DEF M
  <2>4. Tells(M, R)
    BY <2>2, <2>3, RelayOther
  <2> HIDE DEF R
  <2> QED BY <1>3, <2>1, <2>3, <2>4, TellsTrans
<1>4. CASE s = "LIVE"
  <2> DEFINE m == NewMessage(NewHeader("WHO", TRUE, rnd), L.opts.ident)
             M == [L EXCEPT !.syncIn = FALSE, !.syncRx = FALSE]
             K == SendMsg(M, m)
  <2>1. Enter(L, s, rnd).link = K \/ Enter(L, s, rnd).link = M
    BY <1>4 DEF Enter, EnterLive
  <2>2. M \in Link /\ Tells(L, M)
    BY <1>1, UntoldFields, UntoldTells DEF Link
  <2> HIDE DEF M, m
  <2>3. Tells(M, K)
    BY <2>2, QueueTells, UntoldTells
  <2> HIDE DEF K
  <2> QED BY <1>4, <2>1, <2>2, <2>3, TellsTrans
<1>5. CASE s = "PENDING_HANGUP"
  <2>1. \/ Enter(L, s, rnd).link = L
        \/ \E m : Enter(L, s, rnd).link = SendMsg(L, m)
    BY <1>5 DEF Enter, EnterHangup
  <2>2. \A m : Tells(L, SendMsg(L, m))
    BY <1>1, QueueTells, UntoldTells
  <2> QED BY <1>1, <1>5, <2>1, <2>2
<1>6. CASE s = "HUNGUP"
  <2> DEFINE M == [L EXCEPT !.hook = TRUE, !.est = FALSE]
  <2>1. Enter(L, s, rnd).link = M
    BY <1>6 DEF Enter, EnterHungup
  <2>2. /\ M.hupT = L.hupT /\ M.hook = TRUE /\ M.hupR = L.hupR
        /\ M.inb = L.inb /\ M.buf = L.buf /\ M.tx = L.tx
    BY <1>1 DEF Link
  <2> HIDE DEF M
  <2> QED BY <2>1, <2>2 DEF Tells
<1>7. CASE s \in {"PENDING_AUTH", "UNINIT"}
  BY <1>1, <1>7 DEF Enter
<1> QED BY <1>2, <1>3, <1>4, <1>5, <1>6, <1>7 DEF States

\* From the constructor into the setup, which forgets nothing worth keeping.
LEMMA SetupTells ==
  ASSUME NEW n \in Nat, NEW L, Sized(L, n), L.st = "UNINIT", Ready(L), NEW rnd \in Nat
  PROVE  LET M == Advance([L EXCEPT !.wp = SetupRoute], rnd)
         IN  Tells(L, M) /\ Ready(M)
<1> DEFINE w == SetupRoute
           t == Tail(w)
           K == [L EXCEPT !.wp = w]
           N == NewLink(K.opts)
           Q == [N EXCEPT !.st = K.st, !.wp = K.wp, !.tx = K.tx, !.just = K.just]
           X == [Q EXCEPT !.st = "PENDING_SETUP", !.wp = t]
           M == Advance(K, rnd)
<1>1. w # <<>> /\ Head(w) = "PENDING_SETUP"
  BY SetupRouteIs
<1> HIDE DEF w, t
<1>2. L \in Link /\ Untold(L, K) /\ K.wp = w /\ K.st = "UNINIT"
  BY UntoldFields DEF Sized, Link
<1>3. M = X \/ M = Q
  <2> HIDE DEF K
  <2>1. M = LET r == EnterSetup(K, rnd)
            IN  IF r.ok THEN [r.link EXCEPT !.st = "PENDING_SETUP", !.wp = t] ELSE r.link
    BY <1>1, <1>2 DEF Advance, Enter, t
  <2>2. EnterSetup(K, rnd).link = Q
    BY DEF EnterSetup, ResetClass
  <2> HIDE DEF Q
  <2> QED BY <2>1, <2>2
<1> HIDE DEF K, M
<1>4. /\ Q.hupT = FALSE /\ Q.hook = FALSE /\ Q.hupR = FALSE /\ Q.inb = <<>> /\ Q.buf = <<>>
      /\ Q.tx = K.tx /\ Q.out = <<>> /\ Q.st = "UNINIT"
  BY <1>2 DEF NewLink
<1>5. /\ X.hupT = Q.hupT /\ X.hook = Q.hook /\ X.hupR = Q.hupR /\ X.inb = Q.inb
      /\ X.buf = Q.buf /\ X.tx = Q.tx /\ X.st = "PENDING_SETUP"
  BY DEF NewLink
<1> HIDE DEF X, Q
<1>6. Tells(L, X) /\ Tells(L, Q)
  BY <1>2, <1>4, <1>5, HangsNone DEF Tells, Untold, Ready
<1>7. Ready(X) /\ Ready(Q)
  BY <1>4, <1>5 DEF Ready
<1> QED BY <1>3, <1>6, <1>7 DEF M, K, w

\* _fsm_poll(), as long as the link is on hook where it hung up.
LEMMA FsmPollTells ==
  ASSUME NEW n \in Nat, NEW L, Sized(L, n), L.inb = <<>>, PlanFits(L), Ready(L), NEW rnd \in Nat
  PROVE  LET M == FsmPoll(L, rnd) IN Tells(L, M) /\ Ready(M)
<1>1. CASE ~MayLeave(L)
  BY <1>1 DEF FsmPoll, Tells
<1>2. CASE MayLeave(L) /\ L.st = "UNINIT"
  <2>1. FsmPoll(L, rnd) = Advance([L EXCEPT !.wp = SetupRoute], rnd)
    BY <1>2 DEF FsmPoll
  <2> QED BY <1>2, <2>1, SetupTells
<1>3. L.st = "HUNGUP" => ~MayLeave(L)
  BY DEF MayLeave, Ready
<1>4. CASE MayLeave(L) /\ L.st \notin {"UNINIT", "HUNGUP"}
  <2>0. FsmPoll(L, rnd) = Advance(L, rnd)
    BY <1>4 DEF FsmPoll
  <2>1. CASE L.wp = <<>>
    BY <1>4, <2>0, <2>1 DEF Advance, Tells
  <2>2. CASE L.wp # <<>>
    <3> DEFINE s == Head(L.wp)
               w == Tail(L.wp)
               r == Enter(L, s, rnd)
               K == r.link
               M == [K EXCEPT !.st = s, !.wp = w]
    <3>1. L.wp \in Seq(States)
      BY FieldTypes DEF Sized
    <3>2. s \in States /\ w \in Seq(States) /\ 1 \in 1..Len(L.wp) /\ s = L.wp[1]
      BY <2>2, <3>1
    <3>3. s # "PENDING_SETUP"
      BY <1>4, <3>2 DEF PlanFits
    <3>4. FsmPoll(L, rnd) = IF r.ok THEN M ELSE K
      BY <2>0, <2>2 DEF Advance
    <3> HIDE DEF s, w
    <3>5. EnteredOK(L, s, r, n)
      BY <3>2, EnterOK
    <3>6. Tells(L, K) /\ (s = "HUNGUP" => K.hook)
      BY <3>2, <3>3, EnterTells
    <3> HIDE DEF r
    <3>7. K \in Link /\ K.st = L.st /\ (s = "UNINIT" => ~r.ok)
      BY <3>5 DEF EnteredOK, Sized
    <3> HIDE DEF K
    <3>8. M.st = s /\ M.hook = K.hook /\ Untold(K, M)
      BY <3>7, UntoldFields DEF Link
    <3> HIDE DEF M
    <3>9. Ready(K)
      BY <1>4, <3>7 DEF Ready
    <3>10. r.ok => Ready(M)
      BY <3>6, <3>7, <3>8 DEF Ready
    <3>11. Tells(L, M)
      BY <3>6, <3>8, UntoldTells, TellsTrans
    <3> QED BY <3>4, <3>6, <3>9, <3>10, <3>11
  <2> QED BY <2>1, <2>2
<1> QED BY <1>1, <1>2, <1>3, <1>4

\* poll() as a whole.
LEMMA PollTells ==
  ASSUME NEW L, LinkOK(L), PlanFits(L), Ready(L),
         NEW kaDue \in BOOLEAN, NEW timedOut \in BOOLEAN,
         NEW answers \in SUBSET Answers, NEW draws \in SUBSET Nat,
         NEW R \in Poll(L, kaDue, timedOut, answers, draws)
  PROVE  Tells(L, R) /\ Ready(R)
<1>1. PICK M \in {L} \cup {Service(L, app, kaDue, timedOut) : app \in answers}, rnd \in draws :
        R = [FsmPoll(M, rnd) EXCEPT !.just = FALSE]
  BY PollParts
<1>2. Sized(L, BufCap) /\ L.inb = <<>> /\ BufCap \in Nat
  BY BufCapNat DEF LinkOK
<1>3. Sized(M, BufCap) /\ M.inb = <<>> /\ PlanFits(M) /\ Tells(L, M) /\ Ready(M)
  <2>1. CASE M = L
    BY <1>2, <2>1 DEF Tells
  <2>2. ASSUME NEW app \in answers, M = Service(L, app, kaDue, timedOut)
        PROVE  Sized(M, BufCap) /\ M.inb = <<>> /\ PlanFits(M) /\ Tells(L, M) /\ Ready(M)
    <3>1. app \in Answers
      OBVIOUS
    <3>2. Sized(M, BufCap) /\ M.inb = <<>> /\ PlanFits(M) /\ M.st = L.st
      BY <1>2, <2>2, <3>1, ServiceOK DEF Service
    <3>3. Tells(L, M)
      BY <1>2, <2>2, <3>1, ServiceTells
    <3>4. L.st = "UNINIT" => Ready(M)
      BY <1>2, <2>2, UninitService
    <3>5. L.st # "UNINIT" => Ready(M)
      BY <3>2, <3>3 DEF Ready, Tells
    <3> QED BY <3>2, <3>3, <3>4, <3>5
  <2> QED BY <1>1, <2>1, <2>2
<1> DEFINE F == FsmPoll(M, rnd)
<1>4. Sized(F, BufCap) /\ Tells(M, F) /\ Ready(F)
  <2>1. rnd \in Nat
    OBVIOUS
  <2> QED BY <1>2, <1>3, <2>1, FsmPollOK, FsmPollTells
<1>5. R = [F EXCEPT !.just = FALSE]
  BY <1>1
<1> HIDE DEF F
<1>6. Untold(F, R) /\ R.st = F.st /\ R.out = F.out
  BY <1>4, <1>5, UntoldFields DEF Sized, Link
<1>7. Ready(R)
  BY <1>4, <1>6 DEF Ready, Untold
<1> QED BY <1>3, <1>4, <1>6, <1>7, UntoldTells, TellsTrans
-----------------------------------------------------------------------------
\* HANGUP_RXD and HANGUP_TXD

\* Why nobody hears a HANGUP that nobody sent: one in the transport, in the
\* input buffer of the peer or already heard was sent, and as long as no link
\* is reset none forgets that it sent one.
HangupSent ==
  used["reset"] = 0 =>
    \A e \in Ends :
      /\ Ready(link[e])
      /\ Hangs(link[e].tx) \/ Hangs(link[Peer(e)].buf) \/ link[Peer(e)].hupR => link[e].hupT

\* The peer of the peer.
LEMMA PeerPeer ==
  ASSUME NEW e \in Ends
  PROVE  Peer(e) \in Ends /\ Peer(e) # e /\ Peer(Peer(e)) = e
         /\ \A x \in Ends : x = e \/ x = Peer(e)
<1>1. PICK p \in Ends : p # e /\ Ends = {e, p}
  BY SessionAssumption
<1>2. Peer(e) \in Ends /\ Peer(e) # e
  BY PeerOK
<1>3. Peer(e) = p
  BY <1>1, <1>2
<1>4. Peer(p) \in Ends /\ Peer(p) # p
  BY PeerOK
<1> QED BY <1>1, <1>2, <1>3, <1>4

\* A step of one link that tells keeps it.
LEMMA TellingStep ==
  ASSUME IndInv, HangupSent, NEW e \in Ends, NEW M, Tells(link[e], M), Ready(M),
         link' = [link EXCEPT ![e] = M], used'["reset"] = used["reset"]
  PROVE  HangupSent'
<1> SUFFICES ASSUME used["reset"] = 0, NEW x \in Ends
             PROVE  /\ Ready(link'[x])
                    /\ Hangs(link'[x].tx) \/ Hangs(link'[Peer(x)].buf) \/ link'[Peer(x)].hupR
                         => link'[x].hupT
  BY DEF HangupSent
<1> DEFINE p == Peer(e)
<1>1. p \in Ends /\ p # e /\ Peer(p) = e /\ (x = e \/ x = p)
  BY PeerPeer
<1>2. link'[e] = M /\ link'[p] = link[p]
  BY <1>1, IndInvLinks
<1>3. link[e].inb = <<>>
  BY IndInvLinks DEF LinkOK
<1> HIDE DEF p
<1>4. /\ Ready(link[e]) /\ Ready(link[p])
      /\ Hangs(link[e].tx) \/ Hangs(link[p].buf) \/ link[p].hupR => link[e].hupT
      /\ Hangs(link[p].tx) \/ Hangs(link[e].buf) \/ link[e].hupR => link[p].hupT
  BY <1>1 DEF HangupSent, p
<1>5. CASE x = e
  BY <1>1, <1>2, <1>4, <1>5 DEF Tells, p
<1>6. CASE x = p
  BY <1>1, <1>2, <1>3, <1>4, <1>6, HangsNone DEF Tells
<1> QED BY <1>1, <1>5, <1>6

\* Only reset() counts as one.
LEMMA SpendOther ==
  ASSUME IndInv, NEW k \in Events, k # "reset", Spend(k)
  PROVE  used'["reset"] = used["reset"]
BY DEF Spend, IndInv, TypeOK, Events

\* A poll keeps it.
LEMMA HangupPoll ==
  ASSUME IndInv, HangupSent, used["reset"] = 0, NEW e \in Ends, PollEnd(e)
  PROVE  HangupSent'
<1>1. PICK kaDue \in BOOLEAN, timedOut \in BOOLEAN : PollWith(e, kaDue, timedOut)
  BY DEF PollEnd
<1>2. PICK L \in Poll(link[e], kaDue, timedOut, AppAnswers, Draws) :
        link' = [link EXCEPT ![e] = L]
  BY <1>1 DEF PollWith, Polled
<1>3. AppAnswers \in SUBSET Answers
  BY SessionAssumption
<1>4. Ready(link[e])
  BY DEF HangupSent
<1>5. Tells(link[e], L) /\ Ready(L)
  BY <1>2, <1>3, <1>4, DrawsNat, IndInvLinks, PollTells
<1>6. used'["reset"] = used["reset"]
  BY <1>1 DEF PollWith
<1> QED BY <1>2, <1>5, <1>6, TellingStep

\* A HANGUP that is delivered was sent.
LEMMA HangupDeliver ==
  ASSUME IndInv, HangupSent, used["reset"] = 0, NEW e \in Ends, Deliver(e)
  PROVE  HangupSent'
<1> DEFINE p == Peer(e)
           t == Tail(link[e].tx)
           f == Head(link[e].tx)
           S == [link[e] EXCEPT !.tx = t]
           R == PushBuffer(link[p], f)
<1>1. p \in Ends /\ p # e /\ Peer(p) = e /\ \A x \in Ends : x = e \/ x = p
  BY PeerPeer
<1>2. link \in [Ends -> Link] /\ link[e] \in Link /\ link[p] \in Link
  BY <1>1, IndInvLinks
<1>3. link[e].tx \in Seq(Frame) /\ link[e].tx # <<>> /\ link[p].buf \in Seq(Frame)
  BY <1>2, FieldTypes DEF Deliver
<1>4. /\ f \in Frame
      /\ Hangs(t) => Hangs(link[e].tx)
      /\ f.code = "HANGUP" => Hangs(link[e].tx)
  BY <1>3, HangsTail, HangsHead
<1>5. link'[e] = S /\ link'[p] = R /\ used' = used
  BY <1>1, <1>2 DEF Deliver
<1>6. /\ Ready(link[e]) /\ Ready(link[p])
      /\ Hangs(link[e].tx) \/ Hangs(link[p].buf) \/ link[p].hupR => link[e].hupT
      /\ Hangs(link[p].tx) \/ Hangs(link[e].buf) \/ link[e].hupR => link[p].hupT
  BY <1>1 DEF HangupSent
<1> HIDE DEF t, f, p
<1>7. /\ S.st = link[e].st /\ S.hupT = link[e].hupT /\ S.hook = link[e].hook
      /\ S.hupR = link[e].hupR /\ S.out = link[e].out /\ S.buf = link[e].buf /\ S.tx = t
  BY <1>2 DEF Link
<1> HIDE DEF S
<1>8. /\ R.st = link[p].st /\ R.hupT = link[p].hupT /\ R.hook = link[p].hook
      /\ R.hupR = link[p].hupR /\ R.out = link[p].out /\ R.tx = link[p].tx
      /\ Hangs(R.buf) => Hangs(link[p].buf) \/ f.code = "HANGUP"
  <2> DEFINE b == Append(link[p].buf, f)
             X == [link[p] EXCEPT !.buf = b]
  <2>1. Hangs(b) => Hangs(link[p].buf) \/ f.code = "HANGUP"
    BY <1>3, <1>4, HangsAppend
  <2>2. R = X \/ R = link[p]
    BY DEF PushBuffer
  <2> HIDE DEF b
  <2>3. /\ X.st = link[p].st /\ X.hupT = link[p].hupT /\ X.hook = link[p].hook
        /\ X.hupR = link[p].hupR /\ X.out = link[p].out /\ X.tx = link[p].tx /\ X.buf = b
    BY <1>2 DEF Link
  <2> HIDE DEF X, R
  <2> QED BY <2>1, <2>2, <2>3
<1> HIDE DEF R
<1>9. Ready(S) /\ Ready(R)
  BY <1>6, <1>7, <1>8 DEF Ready
<1>10. /\ Hangs(S.tx) \/ Hangs(R.buf) \/ R.hupR => S.hupT
       /\ Hangs(R.tx) \/ Hangs(S.buf) \/ S.hupR => R.hupT
  BY <1>4, <1>6, <1>7, <1>8
<1>11. Peer(e) = p
  BY DEF p
<1> QED BY <1>1, <1>5, <1>9, <1>10, <1>11 DEF HangupSent

\* A frame that is lost or garbled makes up no HANGUP.
LEMMA HangupLoss ==
  ASSUME IndInv, HangupSent, used["reset"] = 0, NEW e \in Ends, Lose(e) \/ Garble(e)
  PROVE  HangupSent'
<1> DEFINE t == Tail(link[e].tx)
<1>1. link \in [Ends -> Link] /\ link[e] \in Link /\ link[e].tx \in Seq(Frame)
  BY IndInvLinks, FieldTypes
<1>2. link[e].tx # <<>>
  BY DEF Lose, Garble
<1>3. t \in Seq(Frame) /\ (Hangs(t) => Hangs(link[e].tx))
  BY <1>1, <1>2, HangsTail
<1>4. used'["reset"] = used["reset"]
  BY SpendOther DEF Lose, Garble, Events
<1>5. \E u \in Seq(Frame) : /\ Hangs(u) => Hangs(link[e].tx)
                            /\ link' = [link EXCEPT ![e] = [link[e] EXCEPT !.tx = u]]
  <2>1. CASE Lose(e)
    <3>1. link' = [link EXCEPT ![e] = [link[e] EXCEPT !.tx = t]]
      BY <1>1, <2>1 DEF Lose
    <3>2. t \in Seq(Frame) /\ (Hangs(t) => Hangs(link[e].tx))
      BY <1>3
    <3> HIDE DEF t
    <3> QED BY <3>1, <3>2
  <2>2. CASE Garble(e)
    <3>1. PICK f \in {Junk, Bad} : link' = [link EXCEPT ![e].tx = <<f>> \o Tail(@)]
      BY <2>2 DEF Garble
    <3> DEFINE o == <<f>>
               g == o \o t
    <3>2. link' = [link EXCEPT ![e] = [link[e] EXCEPT !.tx = g]]
      BY <1>1, <3>1
    <3>3. f \in Frame /\ f.code # "HANGUP"
      <4>1. Junk \in Frame /\ Junk.code # "HANGUP"
        BY DEF Junk, Frame, Codes, NoId
      <4>2. Bad \in Frame /\ Bad.code # "HANGUP"
        BY DEF Bad, Frame, Codes, NoId
      <4> QED BY <4>1, <4>2
    <3>4. o \in Seq(Frame) /\ ~Hangs(o)
      BY <3>3, HangsOne
    <3> HIDE DEF t, o
    <3>5. g \in Seq(Frame) /\ (Hangs(g) => Hangs(link[e].tx))
      BY <1>3, <3>4, HangsConcat
    <3> HIDE DEF g
    <3> QED BY <3>2, <3>5
  <2> QED BY <2>1, <2>2
<1>6. PICK u \in Seq(Frame) : /\ Hangs(u) => Hangs(link[e].tx)
                              /\ link' = [link EXCEPT ![e] = [link[e] EXCEPT !.tx = u]]
  BY <1>5
<1> DEFINE M == [link[e] EXCEPT !.tx = u]
<1>7. /\ M.st = link[e].st /\ M.hupT = link[e].hupT /\ M.hook = link[e].hook
      /\ M.hupR = link[e].hupR /\ M.out = link[e].out /\ M.buf = link[e].buf
      /\ M.inb = link[e].inb /\ M.tx = u
  BY <1>1 DEF Link
<1>8. link' = [link EXCEPT ![e] = M]
  BY <1>6
<1> HIDE DEF M
<1>9. Ready(link[e])
  BY DEF HangupSent
<1>10. Ready(M) /\ Tells(link[e], M)
  BY <1>6, <1>7, <1>9 DEF Ready, Tells
<1> QED BY <1>4, <1>8, <1>10, TellingStep

\* What the application calls tells, reset() excepted.
LEMMA CallTells ==
  ASSUME NEW L, LinkOK(L), PlanFits(L), Ready(L), NEW a, NEW b, NEW rnd
  PROVE  /\ Tells(L, Send(L, a, b, rnd)) /\ Ready(Send(L, a, b, rnd))
         /\ Tells(L, WriteRemoteLog(L, a, rnd)) /\ Ready(WriteRemoteLog(L, a, rnd))
         /\ Tells(L, Hangup(L, TRUE)) /\ Ready(Hangup(L, TRUE))
         /\ Tells(L, Hangup(L, FALSE)) /\ Ready(Hangup(L, FALSE))
<1>1. L \in Link /\ L.inb = <<>> /\ Tells(L, L)
  BY DEF LinkOK, Sized, Tells
<1>2. L.st = "UNINIT" => ~L.est
  BY DEF PlanFits
<1>3. ASSUME NEW m, L.st # "UNINIT" PROVE Tells(L, SendMsg(L, m)) /\ Ready(SendMsg(L, m))
  <2>1. Untold(L, SendMsg(L, m))
    BY <1>1, QueueTells
  <2>2. SendMsg(L, m).st = L.st
    BY <1>1 DEF SendMsg, Link
  <2> QED BY <1>3, <2>1, <2>2, UntoldTells DEF Ready, Untold
<1>4. Tells(L, Send(L, a, b, rnd)) /\ Ready(Send(L, a, b, rnd))
  <2>1. MaySend(L) => L.st # "UNINIT"
    BY DEF MaySend
  <2> QED BY <1>1, <1>3, <2>1 DEF Send
<1>5. Tells(L, WriteRemoteLog(L, a, rnd)) /\ Ready(WriteRemoteLog(L, a, rnd))
  BY <1>1, <1>2, <1>3 DEF WriteRemoteLog
<1>6. Tells(L, Hangup(L, TRUE)) /\ Ready(Hangup(L, TRUE))
  <2> DEFINE w == AppendRoute(L.wp, <<"PENDING_HANGUP", "HUNGUP">>)
             M == [L EXCEPT !.wp = w]
  <2>1. Hangup(L, TRUE) = M \/ Hangup(L, TRUE) = L
    BY DEF Hangup
  <2> HIDE DEF w
  <2>2. Untold(L, M) /\ M.st = L.st /\ M.out = L.out
    BY <1>1, UntoldFields DEF Link
  <2> HIDE DEF M
  <2> QED BY <1>1, <2>1, <2>2, UntoldTells DEF Ready, Untold
<1>7. Tells(L, Hangup(L, FALSE)) /\ Ready(Hangup(L, FALSE))
  <2> DEFINE w == SetRoute(<<"HUNGUP">>)
             e == <<>>
             M == [L EXCEPT !.inb = e, !.out = e, !.wp = w]
  <2>1. Hangup(L, FALSE) = M \/ Hangup(L, FALSE) = L
    BY DEF Hangup
  <2> HIDE DEF w
  <2>2. /\ M.hupT = L.hupT /\ M.hook = L.hook /\ M.hupR = L.hupR
        /\ M.inb = e /\ M.buf = L.buf /\ M.tx = L.tx /\ M.st = L.st /\ M.out = e
    BY <1>1 DEF Link
  <2> HIDE DEF M
  <2>3. Tells(L, M) /\ Ready(M)
    BY <1>1, <2>2 DEF Ready, Tells
  <2> QED BY <1>1, <2>1, <2>3
<1> QED BY <1>4, <1>5, <1>6, <1>7

\* Nor do the options tell anything.
LEMMA SetUntold ==
  ASSUME NEW L \in Link, NEW M \in SetBy(L)
  PROVE  Untold(L, M) /\ M.st = L.st /\ M.out = L.out
<1>1. PICK x \in BOOLEAN : M \in {RequireAuth(L, x), SyncCast(L, x), LocalIdentity(L, x)}
  BY DEF SetBy
<1>2. CASE M = RequireAuth(L, x)
  BY <1>2 DEF RequireAuth, Untold, Link
<1>3. CASE M = SyncCast(L, x)
  BY <1>3 DEF SyncCast, Untold, Link
<1>4. CASE M = LocalIdentity(L, x)
  BY <1>4 DEF LocalIdentity, Untold, Link
<1> QED BY <1>1, <1>2, <1>3, <1>4

\* The application cannot make one up either.
LEMMA HangupApp ==
  ASSUME IndInv, HangupSent, used["reset"] = 0, NEW e \in Ends,
         \/ AppSend(e) \/ AppLog(e) \/ AppHangup(e) \/ AppKill(e)
         \/ AppSet(e) \/ AppIdentity(e)
  PROVE  HangupSent'
<1>1. link \in [Ends -> Link] /\ LinkOK(link[e]) /\ PlanFits(link[e])
  BY IndInvLinks
<1>2. Ready(link[e])
  BY DEF HangupSent
<1>3. used'["reset"] = used["reset"]
  BY SpendOther DEF AppSend, AppLog, AppHangup, AppKill, AppSet, AppIdentity, Events
<1>4. \E M : Tells(link[e], M) /\ Ready(M) /\ link' = [link EXCEPT ![e] = M]
  <2>1. CASE AppSend(e)
    <3>1. PICK a \in BOOLEAN, b \in BOOLEAN, rnd \in Draws :
            link' = [link EXCEPT ![e] = Send(link[e], a, b, rnd)]
      BY <2>1 DEF AppSend
    <3> QED BY <1>1, <1>2, <3>1, CallTells
  <2>2. CASE AppLog(e)
    <3>1. PICK a \in BOOLEAN, rnd \in Draws :
            link' = [link EXCEPT ![e] = WriteRemoteLog(link[e], a, rnd)]
      BY <2>2 DEF AppLog
    <3> QED BY <1>1, <1>2, <3>1, CallTells
  <2>3. CASE AppHangup(e)
    <3>1. link' = [link EXCEPT ![e] = Hangup(link[e], TRUE)]
      BY <2>3 DEF AppHangup
    <3> QED BY <1>1, <1>2, <3>1, CallTells
  <2>4. CASE AppKill(e)
    <3>1. link' = [link EXCEPT ![e] = Hangup(link[e], FALSE)]
      BY <2>4 DEF AppKill
    <3> QED BY <1>1, <1>2, <3>1, CallTells
  <2>5. CASE AppSet(e) \/ AppIdentity(e)
    <3>1. PICK M \in SetBy(link[e]) : link' = [link EXCEPT ![e] = M]
      BY <2>5, AppSets
    <3>2. link[e] \in Link
      BY <1>1
    <3>3. Untold(link[e], M) /\ M.st = link[e].st /\ M.out = link[e].out
      BY <3>2, SetUntold
    <3> QED BY <1>2, <3>1, <3>3, UntoldTells DEF Ready, Untold
  <2> QED BY <2>1, <2>2, <2>3, <2>4, <2>5
<1> QED BY <1>3, <1>4, TellingStep

\* Every step keeps it; after a reset nothing is claimed.
LEMMA HangupNext ==
  ASSUME IndInv, HangupSent, [Next]_vars
  PROVE  HangupSent'
<1>0. used["reset"] \in Nat
  BY DEF IndInv, TypeOK, Events
<1>1. CASE UNCHANGED vars
  BY <1>1 DEF vars, HangupSent
<1>2. ASSUME NEW e \in Ends, AppReset(e)
      PROVE  HangupSent'
  <2>1. used'["reset"] = used["reset"] + 1
    BY <1>2 DEF AppReset, Spend, IndInv, TypeOK, Events
  <2> QED BY <1>0, <2>1 DEF HangupSent
<1>3. CASE Next /\ used["reset"] = 0
  <2>1. PICK e \in Ends :
          \/ PollEnd(e) \/ Deliver(e) \/ Lose(e) \/ Garble(e)
          \/ AppSend(e) \/ AppLog(e) \/ AppHangup(e) \/ AppKill(e) \/ AppReset(e)
          \/ AppSet(e) \/ AppIdentity(e)
    BY <1>3 DEF Next
  <2> QED BY <1>2, <1>3, <2>1, HangupPoll, HangupDeliver, HangupLoss, HangupApp
<1>4. CASE Next /\ used["reset"] # 0
  <2>1. used'["reset"] # 0
    <3>1. \A k \in Events : Spend(k) => used'["reset"] \in {used["reset"], used["reset"] + 1}
      BY DEF Spend, IndInv, TypeOK, Events
    <3>2. used' = used \/ \E k \in Events : Spend(k)
      BY <1>4 DEF Next, PollEnd, PollWith, Deliver, Lose, Garble, AppSend, AppLog,
                  AppHangup, AppKill, AppReset, AppSet, AppIdentity, Events
    <3> QED BY <1>0, <1>4, <3>1, <3>2
  <2> QED BY <2>1 DEF HangupSent
<1> QED BY <1>1, <1>3, <1>4

\* A link believes the other end hung up (HANGUP_RXD) only if that end's
\* HANGUP went to the transport and it knows (HANGUP_TXD): no loss, garbling,
\* resync, retry or kill in between makes up a HANGUP or forgets one.
THEOREM HangupIsHeard == Spec => []HangupHeard
<1>1. Init => HangupSent
  <2> SUFFICES ASSUME Init PROVE HangupSent
    OBVIOUS
  <2>1. \A e \in Ends : /\ ~link[e].hupT /\ ~link[e].hupR /\ ~link[e].hook
                        /\ link[e].out = <<>> /\ link[e].tx = <<>> /\ link[e].buf = <<>>
                        /\ link[e].st = "UNINIT"
    BY DEF Init, NewLink
  <2> QED BY <2>1, PeerPeer, HangsNone DEF HangupSent, Ready
<1>2. IndInv /\ HangupSent /\ [Next]_vars => HangupSent'
  BY HangupNext
<1>3. HangupSent => HangupHeard
  <2> SUFFICES ASSUME HangupSent, used["reset"] = 0, NEW e \in Ends, link[e].hupR
               PROVE  link[Peer(e)].hupT
    BY DEF HangupHeard
  <2> QED BY PeerPeer DEF HangupSent
<1> QED BY <1>1, <1>2, <1>3, IndInvariant, PTL DEF Spec

-----------------------------------------------------------------------------
\* Whose dialog an id belongs to

\* What a queue or a buffer has in it, and the ids of the dialogs that it asks
\* in and answers in.
Said(s)     == {s[i] : i \in DOMAIN s}
Asked(s)    == {f.id : f \in {g \in Said(s) : ~g.reply}} \ {NoId}
Answered(s) == {f.id : f \in {g \in Said(s) : g.reply}} \ {NoId}

\* The dialogs that a link began, or was answered in, and those of its peer.
Own(L)     == Asked(L.out) \cup Asked(L.tx) \cup Answered(L.buf) \cup Answered(L.inb)
Foreign(L) == Answered(L.out) \cup Answered(L.tx) \cup Asked(L.buf) \cup Asked(L.inb)

\* An outbound queue: a reply is the end of its dialog, what needs a reply is in
\* a dialog, and no two messages of the queue are the question of the same one.
Proper(q) == \A m \in Said(q) : (m.reply => ~m.expect) /\ (m.expect => m.id # NoId)

AskedOnce(q) == \A i, j \in DOMAIN q :
             ~q[i].reply /\ ~q[j].reply /\ q[i].id = q[j].id /\ q[i].id # NoId => i = j

\* A frame that travels: a reply is one of the protocol's messages and the end
\* of its dialog.
Plain(f) == f.reply => ~f.expect /\ f.code \in Codes

\* A link of an application that has no Identity and does not answer with
\* questions: each dialog is its own or its peer's.
Lawful(L) ==
  /\ Proper(L.out) /\ AskedOnce(L.out)
  /\ \A f \in Said(L.tx) \cup Said(L.buf) \cup Said(L.inb) : Plain(f)
  /\ Own(L) \cap Foreign(L) = {}
  /\ ~L.opts.ident
  /\ L.st = "UNINIT" => L.out = <<>>

\* Nothing is said in an empty queue.
LEMMA SaidNone == Said(<<>>) = {}
BY DEF Said

\* What is in a sequence is of its type.
LEMMA SaidType ==
  ASSUME NEW S, NEW s \in Seq(S)
  PROVE  Said(s) \subseteq S
BY DEF Said

\* A frame on its own.
LEMMA SaidOne ==
  ASSUME NEW S, NEW f \in S
  PROVE  <<f>> \in Seq(S) /\ Said(<<f>>) = {f}
<1> DEFINE s == <<f>>
<1>1. s \in Seq(S) /\ DOMAIN s = {1} /\ s[1] = f
  OBVIOUS
<1> HIDE DEF s
<1>2. Said(s) = {f}
  BY <1>1 DEF Said
<1> QED BY <1>1, <1>2 DEF s

\* The head and the rest.
LEMMA SaidTail ==
  ASSUME NEW S, NEW s \in Seq(S), s # <<>>
  PROVE  /\ Head(s) \in S /\ Tail(s) \in Seq(S)
         /\ Said(s) = {Head(s)} \cup Said(Tail(s))
<1> DEFINE t == Tail(s)
           h == Head(s)
<1>1. /\ Len(s) \in Nat \ {0} /\ DOMAIN s = 1..Len(s)
      /\ DOMAIN t = 1..(Len(s) - 1)
      /\ \A i \in 1..(Len(s) - 1) : t[i] = s[i + 1]
      /\ h = s[1] /\ h \in S /\ t \in Seq(S)
  OBVIOUS
<1> HIDE DEF t, h
<1>2. ASSUME NEW i \in DOMAIN s PROVE s[i] = h \/ s[i] \in Said(t)
  <2>1. CASE i = 1
    BY <1>1, <2>1
  <2>2. CASE i # 1
    <3>1. i - 1 \in DOMAIN t /\ (i - 1) + 1 = i
      BY <1>1, <1>2, <2>2
    <3>2. t[i - 1] = s[i]
      BY <1>1, <3>1
    <3> QED BY <3>1, <3>2 DEF Said
  <2> QED BY <2>1, <2>2
<1>3. ASSUME NEW i \in DOMAIN t PROVE t[i] \in Said(s)
  <2>1. i + 1 \in DOMAIN s /\ t[i] = s[i + 1]
    BY <1>1
  <2> QED BY <2>1 DEF Said
<1>4. h \in Said(s)
  <2>1. 1 \in DOMAIN s
    BY <1>1
  <2> QED BY <1>1, <2>1 DEF Said
<1>5. Said(s) = {h} \cup Said(t)
  BY <1>2, <1>3, <1>4 DEF Said
<1> QED BY <1>1, <1>5 DEF h, t

\* A part of a sequence.
LEMMA SaidPart ==
  ASSUME NEW S, NEW s \in Seq(S), NEW k \in 1..Len(s)
  PROVE  SubSeq(s, k, Len(s)) \in Seq(S) /\ Said(SubSeq(s, k, Len(s))) \subseteq Said(s)
<1> DEFINE t == SubSeq(s, k, Len(s))
<1>1. /\ Len(s) \in Nat /\ DOMAIN s = 1..Len(s)
      /\ DOMAIN t = 1..(Len(s) - k + 1)
      /\ \A i \in 1..(Len(s) - k + 1) : t[i] = s[k + i - 1]
      /\ t \in Seq(S)
  OBVIOUS
<1> HIDE DEF t
<1>2. ASSUME NEW i \in DOMAIN t PROVE t[i] \in Said(s)
  <2>1. k + i - 1 \in DOMAIN s /\ t[i] = s[k + i - 1]
    BY <1>1
  <2> QED BY <2>1 DEF Said
<1>3. Said(t) \subseteq Said(s)
  BY <1>2 DEF Said
<1> QED BY <1>1, <1>3 DEF t

\* One sequence behind another.
LEMMA SaidConcat ==
  ASSUME NEW S, NEW s \in Seq(S), NEW t \in Seq(S)
  PROVE  s \o t \in Seq(S) /\ Said(s \o t) = Said(s) \cup Said(t)
<1> DEFINE u == s \o t
<1>1. /\ Len(s) \in Nat /\ Len(t) \in Nat /\ u \in Seq(S)
      /\ DOMAIN s = 1..Len(s) /\ DOMAIN t = 1..Len(t) /\ DOMAIN u = 1..(Len(s) + Len(t))
      /\ \A i \in 1..Len(s) : u[i] = s[i]
      /\ \A i \in 1..Len(t) : u[Len(s) + i] = t[i]
  OBVIOUS
<1> HIDE DEF u
<1>2. ASSUME NEW i \in DOMAIN u PROVE u[i] \in Said(s) \cup Said(t)
  <2>1. CASE i <= Len(s)
    BY <1>1, <2>1 DEF Said
  <2>2. CASE i > Len(s)
    <3>1. i - Len(s) \in DOMAIN t /\ Len(s) + (i - Len(s)) = i
      BY <1>1, <2>2
    <3>2. t[i - Len(s)] = u[i]
      BY <1>1, <3>1
    <3> QED BY <3>1, <3>2 DEF Said
  <2> QED BY <1>1, <2>1, <2>2
<1>3. ASSUME NEW i \in DOMAIN s PROVE s[i] \in Said(u)
  <2>1. i \in DOMAIN u /\ u[i] = s[i]
    BY <1>1
  <2> QED BY <2>1 DEF Said
<1>4. ASSUME NEW i \in DOMAIN t PROVE t[i] \in Said(u)
  <2>1. Len(s) + i \in DOMAIN u /\ u[Len(s) + i] = t[i]
    BY <1>1
  <2> QED BY <2>1 DEF Said
<1>5. Said(u) = Said(s) \cup Said(t)
  BY <1>2, <1>3, <1>4 DEF Said
<1> QED BY <1>1, <1>5 DEF u

-----------------------------------------------------------------------------
\* The outbound queue

\* insert(): what was there, and the message with its priority.
LEMMA InsertSays ==
  ASSUME NEW q \in Seq(Message), NEW m \in Message, NEW p \in Nat
  PROVE  LET x == [m EXCEPT !.prio = p]
             r == Insert(q, m, p)
         IN  /\ r \in Seq(Message) /\ Said(r) = Said(q) \cup {x} /\ x \in Message
             /\ AskedOnce(q) /\ (m.reply \/ m.id \notin Asked(q)) => AskedOnce(r)
<1> DEFINE x == [m EXCEPT !.prio = p]
           r == Insert(q, m, p)
<1>1. x \in Message /\ x.reply = m.reply /\ x.id = m.id
  BY DEF Message
<1>2. r \in Seq(Message) /\ Len(r) = Len(q) + 1
  BY <1>1, InsertType
<1>3. PICK n \in 0..Len(q) : \A i \in 1..Len(q) + 1 :
        r[i] = IF i <= n THEN q[i] ELSE IF i = n + 1 THEN x ELSE q[i - 1]
  <2>1. [m EXCEPT !.prio = p] \in Message
    BY <1>1
  <2>2. \E n \in 0..Len(q) : \A i \in 1..Len(q) + 1 :
          Insert(q, m, p)[i] = IF i <= n THEN q[i]
                               ELSE IF i = n + 1 THEN [m EXCEPT !.prio = p] ELSE q[i - 1]
    <3> DEFINE S == Message
    <3>1. q \in Seq(S) /\ [m EXCEPT !.prio = p] \in S
      BY <2>1
    <3> HIDE DEF S
    <3> QED BY <3>1, InsertAt
  <2> QED BY <2>2
<1> HIDE DEF r, x
<1>4. Len(q) \in Nat /\ DOMAIN q = 1..Len(q) /\ DOMAIN r = 1..(Len(q) + 1)
  BY <1>2
<1> DEFINE at(i) == IF i <= n THEN i ELSE i - 1
<1>5. ASSUME NEW i \in DOMAIN r, i # n + 1
      PROVE  at(i) \in DOMAIN q /\ r[i] = q[at(i)]
  BY <1>3, <1>4, <1>5
<1>6. n + 1 \in DOMAIN r /\ r[n + 1] = x
  BY <1>3, <1>4
<1>7. ASSUME NEW i \in DOMAIN q PROVE q[i] \in Said(r)
  <2>1. CASE i <= n
    <3>1. i \in DOMAIN r /\ r[i] = q[i]
      BY <1>3, <1>4, <2>1
    <3> QED BY <3>1 DEF Said
  <2>2. CASE i > n
    <3>1. i + 1 \in DOMAIN r /\ ~(i + 1 <= n) /\ i + 1 # n + 1 /\ (i + 1) - 1 = i
      BY <1>4, <2>2
    <3>2. r[i + 1] = q[i]
      BY <1>3, <1>4, <3>1
    <3> QED BY <3>1, <3>2 DEF Said
  <2> QED BY <1>4, <2>1, <2>2
<1>8. Said(r) = Said(q) \cup {x}
  <2>1. ASSUME NEW i \in DOMAIN r PROVE r[i] \in Said(q) \cup {x}
    BY <1>5, <1>6 DEF Said
  <2>2. x \in Said(r)
    BY <1>6 DEF Said
  <2> QED BY <1>7, <2>1, <2>2 DEF Said
<1>9. ASSUME AskedOnce(q), m.reply \/ m.id \notin Asked(q) PROVE AskedOnce(r)
  <2> SUFFICES ASSUME NEW i \in DOMAIN r, NEW j \in DOMAIN r,
                      ~r[i].reply, ~r[j].reply, r[i].id = r[j].id, r[i].id # NoId
               PROVE  i = j
    BY DEF AskedOnce
  <2>1. ASSUME NEW k \in DOMAIN r, ~r[k].reply, r[k].id # NoId, k # n + 1, ~x.reply
        PROVE  r[k].id # x.id
    <3>1. r[k] \in Said(q)
      BY <1>5, <2>1 DEF Said
    <3>2. r[k].id \in Asked(q)
      BY <2>1, <3>1 DEF Asked
    <3> QED BY <1>1, <1>9, <2>1, <3>2
  <2>2. CASE i = n + 1 \/ j = n + 1
    BY <1>6, <2>1, <2>2
  <2>3. CASE i # n + 1 /\ j # n + 1
    <3>1. at(i) \in DOMAIN q /\ at(j) \in DOMAIN q /\ r[i] = q[at(i)] /\ r[j] = q[at(j)]
      BY <1>5, <2>3
    <3>2. at(i) = at(j)
      <4> HIDE DEF at
      <4> QED BY <1>9, <3>1 DEF AskedOnce
    <3> QED BY <1>4, <2>3, <3>2
  <2> QED BY <2>2, <2>3
<1> QED BY <1>1, <1>2, <1>8, <1>9 DEF r, x

\* dequeue(): the head leaves, and with it what it asked.
LEMMA TailSays ==
  ASSUME NEW q \in Seq(Message), q # <<>>, AskedOnce(q)
  PROVE  /\ Head(q) \in Message /\ Tail(q) \in Seq(Message) /\ AskedOnce(Tail(q))
         /\ Said(q) = {Head(q)} \cup Said(Tail(q))
         /\ Head(q).reply \/ Head(q).id \notin Asked(Tail(q))
<1> DEFINE t == Tail(q)
           h == Head(q)
<1>1. h \in Message /\ t \in Seq(Message) /\ Said(q) = {h} \cup Said(t)
  BY SaidTail
<1>2. /\ Len(q) \in Nat \ {0} /\ DOMAIN q = 1..Len(q)
      /\ DOMAIN t = 1..(Len(q) - 1)
      /\ \A i \in 1..(Len(q) - 1) : t[i] = q[i + 1]
      /\ h = q[1]
  OBVIOUS
<1> HIDE DEF t, h
<1>3. \A i \in DOMAIN t : i + 1 \in DOMAIN q /\ i + 1 # 1 /\ t[i] = q[i + 1]
  BY <1>2
<1>4. AskedOnce(t)
  <2> SUFFICES ASSUME NEW i \in DOMAIN t, NEW j \in DOMAIN t,
                      ~t[i].reply, ~t[j].reply, t[i].id = t[j].id, t[i].id # NoId
               PROVE  i = j
    BY DEF AskedOnce
  <2>1. i + 1 = j + 1
    BY <1>3 DEF AskedOnce
  <2> QED BY <1>2, <2>1
<1>5. ASSUME ~h.reply, h.id \in Asked(t) PROVE FALSE
  <2>1. PICK g \in Said(t) : ~g.reply /\ g.id = h.id /\ h.id # NoId
    BY <1>5 DEF Asked
  <2>2. PICK i \in DOMAIN t : t[i] = g
    BY <2>1 DEF Said
  <2>3. 1 \in DOMAIN q
    BY <1>2
  <2> QED BY <1>2, <1>3, <1>5, <2>1, <2>2, <2>3 DEF AskedOnce
<1> QED BY <1>1, <1>4, <1>5 DEF t, h

\* The only message with an id is a run of its own.
LEMMA FirstOfRun ==
  ASSUME NEW q \in Seq(Message), NEW id, NEW i \in Matching(q, id),
         \A j \in Matching(q, id) : j = i
  PROVE  RunLength(q, id, i) = 1
<1> DEFINE T == {j \in 1..i : \A k \in j..i : k \in Matching(q, id)}
<1>1. i \in 1..Len(q) /\ Len(q) \in Nat
  BY DEF Matching
<1>2. T = {i}
  <2>1. i \in T
    BY <1>1
  <2>2. ASSUME NEW j \in T PROVE j = i
    <3>1. j \in j..i
      BY <1>1, <2>2
    <3>2. j \in Matching(q, id)
      BY <2>2, <3>1
    <3> QED BY <3>2
  <2> QED BY <2>1, <2>2
<1>3. Cardinality(T) = 1
  <2> HIDE DEF T
  <2> QED BY <1>2, FS_Singleton
<1> QED BY <1>3 DEF RunLength

\* _clear_waiting_send_by_id(): only messages with that id leave the queue, and if
\* one question at most has it and no answer, none stays.
LEMMA ClearSays ==
  ASSUME NEW q \in Seq(Message), AskedOnce(q), NEW id
  PROVE  LET r == ClearById(q, id)
         IN  /\ r \in Seq(Message) /\ Said(r) \subseteq Said(q) /\ AskedOnce(r)
             /\ \A m \in Said(q) : m.id # id => m \in Said(r)
             /\ id # NoId /\ id \notin Answered(q) => id \notin Asked(r)
<1> DEFINE gone == {i \in 1..Len(q) : RunLength(q, id, i) % 2 = 1}
           r    == ClearById(q, id)
<1>1. r = Without(q, gone)
  BY DEF ClearById
<1>2. Len(q) \in Nat /\ DOMAIN q = 1..Len(q)
  OBVIOUS
<1>3. ASSUME NEW i \in gone PROVE i \in Matching(q, id)
  <2> DEFINE T == {j \in 1..i : \A k \in j..i : k \in Matching(q, id)}
  <2>1. i \in 1..Len(q) /\ RunLength(q, id, i) % 2 = 1
    BY <1>3
  <2>2. ASSUME T = {} PROVE FALSE
    <3>1. RunLength(q, id, i) = Cardinality(T)
      BY DEF RunLength
    <3> HIDE DEF T
    <3>2. RunLength(q, id, i) = 0
      BY <2>2, <3>1, FS_EmptySet
    <3>3. 0 % 2 = 1
      BY <2>1, <3>2
    <3> QED BY <3>3
  <2>3. T # {}
    BY <2>2
  <2>4. PICK j \in T : TRUE
    BY <2>3
  <2>5. i \in j..i
    BY <1>2, <2>1, <2>4
  <2> QED BY <2>4, <2>5
<1>4. ASSUME NEW i \in Matching(q, id), \A j \in Matching(q, id) : j = i PROVE i \in gone
  <2>1. RunLength(q, id, i) = 1
    BY <1>4, FirstOfRun
  <2>2. i \in 1..Len(q)
    BY DEF Matching
  <2> QED BY <2>1, <2>2
<1>5. r \in Seq(Message)
  BY <1>1, WithoutType
<1> HIDE DEF gone
<1> HIDE DEF r
<1>6. PICK f \in [1..Len(r) -> (1..Len(q)) \ gone] :
        /\ \A j, k \in DOMAIN f : f[j] = f[k] => j = k
        /\ \A i \in (1..Len(q)) \ gone : \E k \in DOMAIN f : f[k] = i
        /\ \A k \in DOMAIN f : r[k] = q[f[k]]
  <2> DEFINE S == Message
             W == Without(q, gone)
  <2>1. q \in Seq(S) /\ W = r
    BY <1>1
  <2> HIDE DEF S
  <2>2. \E f \in [1..Len(W) -> (1..Len(q)) \ gone] :
          /\ \A j, k \in DOMAIN f : f[j] = f[k] => j = k
          /\ \A i \in (1..Len(q)) \ gone : \E k \in DOMAIN f : f[k] = i
          /\ \A k \in DOMAIN f : W[k] = q[f[k]]
    BY <2>1, WithoutNth
  <2> HIDE DEF W
  <2> QED BY <2>1, <2>2
<1>7. DOMAIN r = 1..Len(r) /\ DOMAIN f = DOMAIN r
  BY <1>5, <1>6
<1>8. \A k \in DOMAIN r : f[k] \in DOMAIN q /\ f[k] \notin gone /\ r[k] = q[f[k]]
  BY <1>2, <1>6, <1>7
<1>9. Said(r) \subseteq Said(q)
  BY <1>8 DEF Said
<1>10. AskedOnce(r)
  <2> SUFFICES ASSUME NEW i \in DOMAIN r, NEW j \in DOMAIN r,
                      ~r[i].reply, ~r[j].reply, r[i].id = r[j].id, r[i].id # NoId
               PROVE  i = j
    BY DEF AskedOnce
  <2>1. f[i] = f[j]
    BY <1>8 DEF AskedOnce
  <2> QED BY <1>6, <1>7, <2>1
<1>11. ASSUME NEW m \in Said(q), m.id # id PROVE m \in Said(r)
  <2>1. PICK i \in DOMAIN q : q[i] = m
    BY DEF Said
  <2>2. i \notin gone
    BY <1>3, <1>11, <2>1 DEF Matching
  <2>3. PICK k \in DOMAIN f : f[k] = i
    BY <1>2, <1>6, <2>1, <2>2
  <2> QED BY <1>7, <1>8, <2>1, <2>3 DEF Said
<1>12. ASSUME id # NoId, id \notin Answered(q), id \in Asked(r) PROVE FALSE
  <2>1. PICK g \in Said(r) : ~g.reply /\ g.id = id
    BY <1>12 DEF Asked
  <2>2. PICK k \in DOMAIN r : r[k] = g
    BY <2>1 DEF Said
  <2>3. f[k] \in Matching(q, id) /\ f[k] \notin gone /\ ~q[f[k]].reply /\ q[f[k]].id = id
    BY <1>2, <1>8, <2>1, <2>2 DEF Matching
  <2>4. ASSUME NEW j \in Matching(q, id) PROVE j = f[k]
    <3>1. j \in DOMAIN q /\ q[j].id = id
      BY <1>2 DEF Matching
    <3>2. q[j] \in Said(q)
      BY <3>1 DEF Said
    <3>3. ~q[j].reply
      BY <1>12, <3>1, <3>2 DEF Answered
    <3> QED BY <1>8, <1>12, <2>2, <2>3, <3>1, <3>3 DEF AskedOnce
  <2> QED BY <1>4, <2>3, <2>4
<1> QED BY <1>5, <1>9, <1>10, <1>11, <1>12 DEF r

-----------------------------------------------------------------------------
\* What a step of a link does to its dialogs

\* The answers that a link received and has not handled.
Heard(L) == Answered(L.buf) \cup Answered(L.inb)

\* A link goes on within its dialogs, but for a new one with id x; it learns of
\* none of its peer's, receives no answers, and waits for nothing it did not ask.
Converses(L, M, x) ==
  /\ Lawful(M)
  /\ Own(M) \subseteq Own(L) \cup {x}
  /\ Foreign(M) \subseteq Foreign(L)
  /\ Heard(M) \subseteq Heard(L)
  /\ Asked(M.out) \subseteq Asked(L.out) \cup {x}
  /\ Awaited(M.out) \subseteq Asked(L.out)

\* What waits for an answer still does, unless one was received or one more is
\* counted as unanswered.
Minds(L, M) ==
  /\ L.unackd <= M.unackd
  /\ \A id \in Awaited(L.out) \ Heard(L) :
       id \in Awaited(M.out) \/ L.unackd < M.unackd \/ L.unackd = MaxUnackd

\* What a step may make of the outbound queue, and hand to the transport.
Requeued(L, q, x) ==
  /\ Proper(q) /\ AskedOnce(q)
  /\ Asked(q) \subseteq Asked(L.out) \cup {x}
  /\ Answered(q) \subseteq Foreign(L)
  /\ Awaited(q) \subseteq Asked(L.out)

Utters(L, f, x) ==
  /\ Plain(f)
  /\ \/ f.id = NoId
     \/ f.reply /\ f.id \in Foreign(L)
     \/ ~f.reply /\ f.id \in Own(L) \cup {x}

\* The ids of what waits for an answer.
LEMMA AwaitedIds ==
  ASSUME NEW q
  PROVE  Awaited(q) = {m.id : m \in {n \in Said(q) : n.expect /\ n.sent}}
BY DEF Awaited, Said

\* The number for "no dialog" is none.
LEMMA NoDialog ==
  /\ \A s : NoId \notin Asked(s) /\ NoId \notin Answered(s)
  /\ \A L : NoId \notin Own(L) /\ NoId \notin Foreign(L) /\ NoId \notin Heard(L)
BY DEF Asked, Answered, Own, Foreign, Heard

\* Nothing is waited for that was not asked.
LEMMA AwaitedAsked ==
  ASSUME NEW q, Proper(q)
  PROVE  Awaited(q) \subseteq Asked(q)
BY AwaitedIds DEF Proper, Asked

\* A queue that stays as it is.
LEMMA RequeuedSame ==
  ASSUME NEW L, Lawful(L), NEW x
  PROVE  Requeued(L, L.out, x)
BY AwaitedAsked DEF Requeued, Lawful, Foreign

\* An empty queue.
LEMMA RequeuedNone ==
  ASSUME NEW L, NEW x
  PROVE  Requeued(L, <<>>, x)
<1> DEFINE e == <<>>
<1>1. Said(e) = {} /\ DOMAIN e = {}
  BY SaidNone
<1> HIDE DEF e
<1>2. Requeued(L, e, x)
  BY <1>1, AwaitedIds DEF Requeued, Proper, AskedOnce, Asked, Answered
<1> QED BY <1>2 DEF e

\* A step that works on the queue, takes from the buffers and talks to the
\* transport within the dialogs of a link keeps to them.
LEMMA StepConverses ==
  ASSUME NEW L, Lawful(L), NEW x, x \notin Foreign(L), NEW M, M.opts = L.opts,
         M.st = "UNINIT" => M.out = <<>>,
         Requeued(L, M.out, x),
         Said(M.buf) \cup Said(M.inb) \subseteq Said(L.buf) \cup Said(L.inb),
         \A f \in Said(M.tx) : f \in Said(L.tx) \/ Utters(L, f, x)
  PROVE  Converses(L, M, x)
<1>1. Asked(M.buf) \cup Asked(M.inb) \subseteq Asked(L.buf) \cup Asked(L.inb)
  BY DEF Asked
<1>2. Heard(M) \subseteq Heard(L)
  BY DEF Answered, Heard
<1>3. Asked(M.tx) \subseteq Own(L) \cup {x}
  BY DEF Asked, Utters, Own
<1>4. Answered(M.tx) \subseteq Foreign(L)
  BY DEF Answered, Utters, Foreign
<1>5. Own(M) \subseteq Own(L) \cup {x}
  BY <1>2, <1>3 DEF Own, Heard, Requeued
<1>6. Foreign(M) \subseteq Foreign(L)
  BY <1>1, <1>4 DEF Foreign, Requeued
<1>7. \A f \in Said(M.tx) \cup Said(M.buf) \cup Said(M.inb) : Plain(f)
  BY DEF Lawful, Utters
<1>8. Own(M) \cap Foreign(M) = {}
  BY <1>5, <1>6 DEF Lawful
<1>9. Lawful(M)
  BY <1>7, <1>8 DEF Lawful, Requeued
<1> QED BY <1>2, <1>5, <1>6, <1>9 DEF Converses, Requeued

\* What waits still does.
LEMMA StepMinds ==
  ASSUME NEW L \in Link, NEW M, M.unackd = L.unackd,
         Awaited(L.out) \ Heard(L) \subseteq Awaited(M.out)
  PROVE  Minds(L, M)
BY DEF Minds, Link

\* One step after another.
LEMMA ConversesTrans ==
  ASSUME NEW L, NEW M, NEW N, NEW x, Converses(L, M, NoId), Converses(M, N, x)
  PROVE  Converses(L, N, x)
<1>1. NoId \notin Own(N) /\ NoId \notin Asked(N.out) /\ NoId \notin Awaited(N.out)
  BY NoDialog, AwaitedAsked DEF Converses, Lawful
<1> QED BY <1>1 DEF Converses

LEMMA MindsTrans ==
  ASSUME NEW L \in Link, NEW M \in Link, NEW N \in Link,
         Heard(M) \subseteq Heard(L), Minds(L, M), Minds(M, N)
  PROVE  Minds(L, N)
<1>1. /\ L.unackd \in Nat /\ M.unackd \in Nat /\ N.unackd \in Nat /\ MaxUnackd \in Nat
      /\ M.unackd <= MaxUnackd
  BY LinkAssumption DEF Link
<1>2. L.unackd <= N.unackd
  BY <1>1 DEF Minds
<1>3. ASSUME NEW id \in Awaited(L.out) \ Heard(L)
      PROVE  id \in Awaited(N.out) \/ L.unackd < N.unackd \/ L.unackd = MaxUnackd
  <2>1. CASE id \in Awaited(M.out)
    <3>1. id \in Awaited(N.out) \/ M.unackd < N.unackd \/ M.unackd = MaxUnackd
      BY <2>1 DEF Minds
    <3>2. L.unackd <= M.unackd /\ M.unackd <= N.unackd
      BY DEF Minds
    <3> QED BY <1>1, <3>1, <3>2
  <2>2. CASE id \notin Awaited(M.out)
    <3>1. L.unackd < M.unackd \/ L.unackd = MaxUnackd
      BY <2>2 DEF Minds
    <3>2. M.unackd <= N.unackd
      BY DEF Minds
    <3> QED BY <1>1, <3>1, <3>2
  <2> QED BY <2>1, <2>2
<1> QED BY <1>2, <1>3 DEF Minds

\* A step without a new dialog that also minds.
Serves(L, M) == M \in Link /\ Converses(L, M, NoId) /\ Minds(L, M)

LEMMA ServesTrans ==
  ASSUME NEW L \in Link, NEW M, NEW N, Serves(L, M), Serves(M, N)
  PROVE  Serves(L, N)
<1>1. Converses(L, N, NoId)
  BY ConversesTrans DEF Serves
<1>2. Minds(L, N)
  BY MindsTrans DEF Serves, Converses
<1> QED BY <1>1, <1>2 DEF Serves

-----------------------------------------------------------------------------
\* The input side: frames move from the input buffer to the inbound queue or are
\* dropped, and sync packets go to the transport.

Hears(L, M) ==
  /\ M.opts = L.opts /\ M.st = L.st /\ M.out = L.out /\ M.unackd = L.unackd
  /\ Said(M.buf) \cup Said(M.inb) \subseteq Said(L.buf) \cup Said(L.inb)
  /\ \A f \in Said(M.tx) : f \in Said(L.tx) \/ f \in {SyncFrame(TRUE), SyncFrame(FALSE)}

\* A sync packet belongs to no dialog.
LEMMA SyncUtters ==
  ASSUME NEW L, NEW x, NEW b \in BOOLEAN
  PROVE  Utters(L, SyncFrame(b), x)
<1> DEFINE f == SyncFrame(b)
<1>1. f.id = NoId /\ f.code = "SYNC" /\ f.reply = ~b /\ f.expect = b
  BY DEF SyncFrame
<1> HIDE DEF f
<1>2. Utters(L, f, x)
  BY <1>1 DEF Utters, Plain, Codes
<1> QED BY <1>2 DEF f

LEMMA HearsServes ==
  ASSUME NEW L \in Link, Lawful(L), NEW M \in Link, Hears(L, M)
  PROVE  Serves(L, M)
<1>1. \A f \in {SyncFrame(TRUE), SyncFrame(FALSE)} : Utters(L, f, NoId)
  BY SyncUtters
<1>2. NoId \notin Foreign(L)
  BY NoDialog
<1>3. Requeued(L, M.out, NoId)
  BY RequeuedSame DEF Hears
<1>4. M.st = "UNINIT" => M.out = <<>>
  BY DEF Hears, Lawful
<1>5. \A f \in Said(M.tx) : f \in Said(L.tx) \/ Utters(L, f, NoId)
  BY <1>1 DEF Hears
<1>6. Converses(L, M, NoId)
  BY <1>2, <1>3, <1>4, <1>5, StepConverses DEF Hears
<1>7. Minds(L, M)
  BY StepMinds DEF Hears
<1> QED BY <1>6, <1>7 DEF Serves

LEMMA HearsTrans ==
  ASSUME NEW L, NEW M, NEW N, Hears(L, M), Hears(M, N)
  PROVE  Hears(L, N)
BY DEF Hears

\* The fields that say nothing.
LEMMA HearsFields ==
  ASSUME NEW L \in Link
  PROVE  /\ Hears(L, L)
         /\ \A w : Hears(L, [L EXCEPT !.wp = w])
         /\ \A k : Hears(L, [L EXCEPT !.perr = k])
         /\ \A b : Hears(L, [L EXCEPT !.just = b])
         /\ \A b : Hears(L, [L EXCEPT !.cast = b])
         /\ \A b : Hears(L, [L EXCEPT !.syncIn = b])
         /\ \A b : Hears(L, [L EXCEPT !.hook = b])
         /\ \A b : Hears(L, [L EXCEPT !.hupR = b])
         /\ \A b, c : Hears(L, [L EXCEPT !.syncIn = b, !.syncRx = c])
         /\ \A b, c, d : Hears(L, [L EXCEPT !.syncRx = b, !.syncIn = c, !.cast = d])
         /\ \A b, w : Hears(L, [L EXCEPT !.wp = w, !.est = b])
         /\ \A b, c : Hears(L, [L EXCEPT !.hook = b, !.est = c])
BY DEF Hears, Link

\* Part of the input buffer is dropped.
LEMMA HearsPart ==
  ASSUME NEW L \in Link, NEW b \in Seq(Frame), Said(b) \subseteq Said(L.buf)
  PROVE  /\ Hears(L, [L EXCEPT !.buf = b])
         /\ \A c, d : Hears(L, [L EXCEPT !.buf = b, !.syncRx = c, !.syncIn = d])
         /\ \A c, d, e : Hears(L, [L EXCEPT !.buf = b, !.syncIn = c, !.syncRx = d, !.cast = e])
<1>1. ASSUME NEW M, M.opts = L.opts, M.st = L.st, M.out = L.out, M.unackd = L.unackd,
             M.buf = b, M.inb = L.inb, M.tx = L.tx
      PROVE  Hears(L, M)
  BY <1>1 DEF Hears
<1>2. Hears(L, [L EXCEPT !.buf = b])
  <2> DEFINE M == [L EXCEPT !.buf = b]
  <2>1. /\ M.opts = L.opts /\ M.st = L.st /\ M.out = L.out /\ M.unackd = L.unackd
        /\ M.buf = b /\ M.inb = L.inb /\ M.tx = L.tx
    BY DEF Link
  <2> HIDE DEF M
  <2>2. Hears(L, M)
    BY <1>1, <2>1
  <2> QED BY <2>2 DEF M
<1>3. ASSUME NEW c, NEW d PROVE Hears(L, [L EXCEPT !.buf = b, !.syncRx = c, !.syncIn = d])
  <2> DEFINE M == [L EXCEPT !.buf = b, !.syncRx = c, !.syncIn = d]
  <2>1. /\ M.opts = L.opts /\ M.st = L.st /\ M.out = L.out /\ M.unackd = L.unackd
        /\ M.buf = b /\ M.inb = L.inb /\ M.tx = L.tx
    BY DEF Link
  <2> HIDE DEF M
  <2>2. Hears(L, M)
    BY <1>1, <2>1
  <2> QED BY <2>2 DEF M
<1>4. ASSUME NEW c, NEW d, NEW e
      PROVE  Hears(L, [L EXCEPT !.buf = b, !.syncIn = c, !.syncRx = d, !.cast = e])
  <2> DEFINE M == [L EXCEPT !.buf = b, !.syncIn = c, !.syncRx = d, !.cast = e]
  <2>1. /\ M.opts = L.opts /\ M.st = L.st /\ M.out = L.out /\ M.unackd = L.unackd
        /\ M.buf = b /\ M.inb = L.inb /\ M.tx = L.tx
    BY DEF Link
  <2> HIDE DEF M
  <2>2. Hears(L, M)
    BY <1>1, <2>1
  <2> QED BY <2>2 DEF M
<1> QED BY <1>2, <1>3, <1>4

\* A sync packet.
LEMMA SendSyncHears ==
  ASSUME NEW L \in Link, NEW b \in BOOLEAN
  PROVE  Hears(L, SendSync(L, b))
<1> DEFINE f == SyncFrame(b)
           o == <<f>>
           t == L.tx \o o
           M == [L EXCEPT !.tx = t, !.just = TRUE]
<1>1. SendSync(L, b) = M \/ SendSync(L, b) = L
  BY DEF SendSync, Relay
<1>2. f \in Frame /\ L.tx \in Seq(Frame)
  BY SyncFrameType, FieldTypes
<1>3. f = SyncFrame(TRUE) \/ f = SyncFrame(FALSE)
  OBVIOUS
<1> HIDE DEF f
<1>4. o \in Seq(Frame) /\ Said(o) = {f}
  BY <1>2, SaidOne
<1> HIDE DEF o
<1>5. Said(t) = Said(L.tx) \cup {f}
  BY <1>2, <1>4, SaidConcat
<1> HIDE DEF t
<1>6. /\ M.opts = L.opts /\ M.st = L.st /\ M.out = L.out /\ M.unackd = L.unackd
      /\ M.buf = L.buf /\ M.inb = L.inb /\ M.tx = t
  BY DEF Link
<1> HIDE DEF M
<1>7. Hears(L, M)
  BY <1>3, <1>5, <1>6 DEF Hears
<1> QED BY <1>1, <1>7, HearsFields

\* The general parse.
LEMMA ParseHears ==
  ASSUME NEW L \in Link
  PROVE  Hears(L, Parse(L))
<1>1. L.buf \in Seq(Frame) /\ L.perr \in 0..MAX_PARSE_FAILURES
  BY FieldTypes DEF Link
<1>2. CASE L.buf = <<>>
  BY <1>2, HearsFields DEF Parse
<1>3. CASE L.buf # <<>>
  <2> DEFINE f == Head(L.buf)
             b == Tail(L.buf)
             T == [L EXCEPT !.buf = b]
             k == IF L.perr < MAX_PARSE_FAILURES THEN L.perr + 1 ELSE L.perr
             N == [T EXCEPT !.perr = k]
             g == <<f>>
             P == [T EXCEPT !.perr = 0, !.inb = g]
  <2>1. f \in Frame /\ b \in Seq(Frame) /\ Said(L.buf) = {f} \cup Said(b)
    BY <1>1, <1>3, SaidTail
  <2>2. Parse(L) = CASE f.code = "JUNK" -> InsertSyncStates(L)
            [] f.code = "BAD"  -> IF k >= MAX_PARSE_FAILURES THEN InsertSyncStates(N) ELSE N
            [] OTHER -> P
    BY <1>3 DEF Parse
  <2>3. k \in 0..MAX_PARSE_FAILURES
    BY <1>1 DEF MAX_PARSE_FAILURES
  <2> HIDE DEF f, b, k
  <2>4. Said(g) = {f}
    BY <2>1, SaidOne
  <2> HIDE DEF g
  <2>5. T \in Link /\ Hears(L, T) /\ T.buf = b
    BY <2>1, SetBuf, HearsPart DEF Link
  <2>6. T.inb = L.inb /\ T.tx = L.tx
    BY DEF Link
  <2> HIDE DEF T
  <2>7. N \in Link /\ Hears(T, N)
    BY <2>3, <2>5, HearsFields DEF Link
  <2>8. /\ P.opts = T.opts /\ P.st = T.st /\ P.out = T.out /\ P.unackd = T.unackd
        /\ P.buf = T.buf /\ P.inb = g /\ P.tx = T.tx
    BY <2>5 DEF Link
  <2> HIDE DEF N, P
  <2>9. Hears(L, N)
    BY <2>5, <2>7, HearsTrans
  <2>10. Hears(N, InsertSyncStates(N)) /\ Hears(L, InsertSyncStates(L))
    BY <2>7, HearsFields DEF InsertSyncStates
  <2>11. Hears(L, P)
    BY <2>1, <2>4, <2>5, <2>6, <2>8 DEF Hears
  <2>12. Hears(L, InsertSyncStates(N))
    BY <2>9, <2>10, HearsTrans
  <2>13. \/ Parse(L) = InsertSyncStates(L) \/ Parse(L) = InsertSyncStates(N)
         \/ Parse(L) = N \/ Parse(L) = P
    BY <2>2
  <2> QED BY <2>9, <2>10, <2>11, <2>12, <2>13
<1> QED BY <1>2, <1>3

\* _process_for_sync()
LEMMA ConsumeSyncsHears ==
  ASSUME NEW n \in Nat, NEW L, Sized(L, n), SyncsIn(L.buf) # {}
  PROVE  Hears(L, ConsumeSyncs(L))
<1> DEFINE run  == FirstRun(L.buf)
           last == CHOOSE i \in run : \A j \in run : j <= i
           cut  == IF last < Len(L.buf) THEN last + 1 ELSE last
           set  == \E i \in run : L.buf[i].reply
           ans  == \E i \in run : L.buf[i].expect
           b    == SubSeq(L.buf, cut, Len(L.buf))
           rx   == L.syncRx \/ set
           in   == L.syncIn \/ set \/ ans
           M    == [L EXCEPT !.buf = b, !.syncRx = rx, !.syncIn = in]
<1>1. L \in Link /\ L.buf \in Seq(Frame) /\ Len(L.buf) \in Nat
  BY FieldTypes DEF Sized
<1>2. run # {} /\ run \in SUBSET (1..Len(L.buf))
  BY <1>1, FirstRunExists
<1>3. last \in 1..Len(L.buf)
  <2> HIDE DEF run
  <2>1. \E i \in run : \A j \in run : j <= i
    BY <1>1, <1>2, GreatestNat
  <2>2. last \in run
    BY <2>1
  <2> HIDE DEF last
  <2> QED BY <1>2, <2>2
<1>4. cut \in 1..Len(L.buf)
  <2> HIDE DEF last
  <2> QED BY <1>1, <1>3
<1>5. b \in Seq(Frame) /\ Said(b) \subseteq Said(L.buf)
  <2> HIDE DEF cut
  <2> QED BY <1>1, <1>4, SaidPart
<1>6. ConsumeSyncs(L) = IF ans THEN SendSync(M, FALSE) ELSE M
  BY DEF ConsumeSyncs
<1>7. rx \in BOOLEAN /\ in \in BOOLEAN
  BY <1>1 DEF Link
<1> HIDE DEF run, last, cut, set, ans, b, rx, in
<1>8. M \in Link
  BY <1>1, <1>5, <1>7 DEF Link
<1>9. Hears(L, M)
  BY <1>1, <1>5, HearsPart
<1> HIDE DEF M
<1>10. Hears(L, SendSync(M, FALSE))
  BY <1>8, <1>9, SendSyncHears, HearsTrans
<1> QED BY <1>6, <1>9, <1>10

\* The input buffer as a whole.
LEMMA ProcessInputHears ==
  ASSUME NEW n \in Nat, NEW L, Sized(L, n)
  PROVE  Hears(L, ProcessInput(L))
<1>1. L \in Link
  BY DEF Sized
<1>2. Hears(L, L) /\ Hears(L, Parse(L))
  BY <1>1, ParseHears, HearsFields
<1>3. CASE L.st = "SYNC_RESYNC" /\ SyncsIn(L.buf) = {}
  <2> DEFINE e == <<>>
  <2>1. e \in Seq(Frame) /\ Said(e) \subseteq Said(L.buf)
    BY SaidNone
  <2>2. ProcessInput(L) = [L EXCEPT !.buf = e]
    BY <1>3 DEF ProcessInput
  <2> HIDE DEF e
  <2> QED BY <1>1, <2>1, <2>2, HearsPart
<1>4. CASE L.st = "SYNC_RESYNC" /\ SyncsIn(L.buf) # {}
  <2> DEFINE M == ConsumeSyncs(L)
             N == SendSync(M, TRUE)
  <2>1. Sized(M, n) /\ M \in Link /\ Hears(L, M)
    BY <1>4, ConsumeSyncsOK, ConsumeSyncsHears DEF Sized
  <2>2. ProcessInput(L) = Parse(IF M.cast THEN N ELSE M)
    BY <1>4 DEF ProcessInput
  <2> HIDE DEF M
  <2>3. N \in Link /\ Hears(M, N)
    BY <2>1, SendSyncOK, SendSyncHears DEF Sized
  <2> HIDE DEF N
  <2>4. Hears(M, Parse(M)) /\ Hears(N, Parse(N))
    BY <2>1, <2>3, ParseHears
  <2>5. Hears(L, Parse(M)) /\ Hears(L, Parse(N))
    BY <2>1, <2>3, <2>4, HearsTrans
  <2> QED BY <2>2, <2>5
<1>5. CASE L.st # "SYNC_RESYNC"
  <2>1. ProcessInput(L) = Parse(L) \/ ProcessInput(L) = L
    BY <1>5 DEF ProcessInput
  <2> QED BY <1>2, <2>1
<1> QED BY <1>3, <1>4, <1>5

-----------------------------------------------------------------------------
\* What is queued, released and handed to the transport

\* A message is queued: an answer in a dialog of the peer, or the question of a
\* new dialog.
LEMMA QueuedConverses ==
  ASSUME NEW L \in Link, Lawful(L), L.st # "UNINIT", NEW x, x \notin Own(L), x \notin Foreign(L),
         NEW m \in Message, NEW p \in Nat,
         \/ m.reply /\ ~m.expect /\ m.id \in Foreign(L) \cup {NoId}
         \/ ~m.reply /\ ~m.sent /\ m.id \in {x, NoId} /\ (m.expect => m.id # NoId),
         NEW M \in Link, M.opts = L.opts, M.st = L.st, M.unackd = L.unackd,
         M.out = Insert(L.out, m, p), M.tx = L.tx,
         Said(M.buf) \cup Said(M.inb) \subseteq Said(L.buf) \cup Said(L.inb)
  PROVE  Converses(L, M, x) /\ Minds(L, M)
<1> DEFINE n == [m EXCEPT !.prio = p]
           q == M.out
<1>0. L.out \in Seq(Message)
  BY FieldTypes
<1>1. n.reply = m.reply /\ n.id = m.id /\ n.expect = m.expect /\ n.sent = m.sent
  BY DEF Message
<1>2. m.reply \/ m.id \notin Asked(L.out)
  BY NoDialog DEF Own
<1>3. Said(q) = Said(L.out) \cup {n} /\ AskedOnce(q)
  <2> DEFINE o == L.out
             r == Insert(o, m, p)
  <2>1. o \in Seq(Message) /\ AskedOnce(o) /\ (m.reply \/ m.id \notin Asked(o))
    BY <1>0, <1>2 DEF Lawful
  <2>2. q = r
    OBVIOUS
  <2> HIDE DEF o, q
  <2>3. Said(r) = Said(o) \cup {n} /\ AskedOnce(r)
    BY <2>1, InsertSays
  <2> HIDE DEF r, n
  <2> QED BY <2>2, <2>3 DEF o
<1> HIDE DEF n, q
<1>4. Proper(q)
  BY <1>1, <1>3 DEF Proper, Lawful
<1>5. Asked(q) \subseteq Asked(L.out) \cup {x}
  BY <1>1, <1>3 DEF Asked
<1>6. Answered(q) \subseteq Foreign(L)
  <2>1. Answered(q) \subseteq Answered(L.out) \cup Foreign(L)
    BY <1>1, <1>3 DEF Answered
  <2> QED BY <2>1 DEF Foreign
<1>7. Awaited(q) = Awaited(L.out)
  BY <1>1, <1>3, AwaitedIds
<1>8. Awaited(q) \subseteq Asked(L.out)
  BY <1>7, AwaitedAsked DEF Lawful
<1>9. Requeued(L, q, x)
  BY <1>3, <1>4, <1>5, <1>6, <1>8 DEF Requeued
<1>10. Converses(L, M, x)
  BY <1>9, StepConverses DEF q
<1>11. Minds(L, M)
  BY <1>7, StepMinds DEF q
<1> QED BY <1>10, <1>11

\* What has an id is released: an answer in that dialog was received, or it is
\* one of the peer's.
LEMMA ReleaseServes ==
  ASSUME NEW L \in Link, Lawful(L), NEW id \in Heard(L) \cup Foreign(L) \cup {NoId},
         NEW M \in Link, M.opts = L.opts, M.st = L.st, M.unackd = L.unackd,
         M.out = ClearById(L.out, id), M.tx = L.tx,
         Said(M.buf) \cup Said(M.inb) \subseteq Said(L.buf) \cup Said(L.inb)
  PROVE  Serves(L, M) /\ (id \in Heard(L) \cup {NoId} => id \notin Asked(M.out))
<1> DEFINE q == M.out
<1>0. L.out \in Seq(Message) /\ AskedOnce(L.out) /\ Proper(L.out)
  BY FieldTypes DEF Lawful
<1>1. /\ Said(q) \subseteq Said(L.out) /\ AskedOnce(q)
      /\ \A m \in Said(L.out) : m.id # id => m \in Said(q)
      /\ id # NoId /\ id \notin Answered(L.out) => id \notin Asked(q)
  BY <1>0, ClearSays
<1> HIDE DEF q
<1>2. Proper(q)
  BY <1>0, <1>1 DEF Proper
<1>3. Asked(q) \subseteq Asked(L.out) /\ Answered(q) \subseteq Answered(L.out)
  BY <1>1 DEF Asked, Answered
<1>4. Awaited(q) \subseteq Asked(L.out)
  BY <1>2, <1>3, AwaitedAsked
<1>5. Requeued(L, q, NoId)
  BY <1>1, <1>2, <1>3, <1>4 DEF Requeued, Foreign
<1>6. M.st = "UNINIT" => q = <<>>
  <2> SUFFICES ASSUME M.st = "UNINIT" PROVE q = <<>>
    OBVIOUS
  <2>1. Said(L.out) = {}
    BY SaidNone DEF Lawful
  <2>2. q \in Seq(Message) /\ Said(q) = {}
    BY <1>1, <2>1, FieldTypes DEF q
  <2>3. ASSUME q # <<>> PROVE FALSE
    BY <2>2, <2>3, SaidTail
  <2> QED BY <2>3
<1>7. Converses(L, M, NoId)
  BY <1>5, <1>6, NoDialog, StepConverses DEF q
<1>8. ASSUME NEW w \in Awaited(L.out) \ Heard(L) PROVE w \in Awaited(q)
  <2>1. PICK m \in Said(L.out) : m.expect /\ m.sent /\ m.id = w
    BY AwaitedIds
  <2>2. w \in Own(L) /\ w # NoId
    BY <1>0, AwaitedAsked, NoDialog DEF Own
  <2>3. w # id
    BY <1>8, <2>2 DEF Lawful
  <2> QED BY <1>1, <2>1, <2>3, AwaitedIds
<1>9. Minds(L, M)
  BY <1>8, StepMinds DEF q
<1>10. id \in Heard(L) \cup {NoId} => id \notin Asked(q)
  <2>1. id \in Heard(L) => id \notin Answered(L.out) /\ id # NoId
    BY NoDialog DEF Heard, Lawful, Own, Foreign
  <2> QED BY <1>1, <2>1, NoDialog
<1> QED BY <1>7, <1>9, <1>10 DEF Serves, q

\* Frames go to the transport.
LEMMA RelayConverses ==
  ASSUME NEW L \in Link, Lawful(L), NEW x, x \notin Foreign(L),
         NEW f \in Frame, Utters(L, f, x)
  PROVE  /\ Relay(L, <<f>>) \in Link
         /\ Converses(L, Relay(L, <<f>>), x) /\ Minds(L, Relay(L, <<f>>))
<1> DEFINE o == <<f>>
           t == L.tx \o o
           M == [L EXCEPT !.tx = t, !.just = TRUE]
<1>1. Relay(L, <<f>>) = M
  BY DEF Relay
<1>2. L.tx \in Seq(Frame) /\ o \in Seq(Frame) /\ Said(o) = {f}
  BY SaidOne, FieldTypes
<1> HIDE DEF o
<1>3. t \in Seq(Frame) /\ Said(t) = Said(L.tx) \cup {f}
  BY <1>2, SaidConcat
<1> HIDE DEF t
<1>4. M \in Link
  BY <1>3, SetTx
<1>5. /\ M.opts = L.opts /\ M.st = L.st /\ M.out = L.out /\ M.unackd = L.unackd
      /\ M.buf = L.buf /\ M.inb = L.inb /\ M.tx = t
  BY DEF Link
<1> HIDE DEF M
<1>6. Requeued(L, M.out, x)
  BY <1>5, RequeuedSame
<1>7. M.st = "UNINIT" => M.out = <<>>
  BY <1>5 DEF Lawful
<1>8. Converses(L, M, x)
  BY <1>3, <1>5, <1>6, <1>7, StepConverses
<1>9. Minds(L, M)
  BY <1>5, StepMinds
<1> QED BY <1>1, <1>4, <1>8, <1>9

-----------------------------------------------------------------------------
\* _churn_inbound()

\* The message was taken from the inbound queue.
Taken(L, M) ==
  /\ M \in Link
  /\ M.opts = L.opts /\ M.st = L.st /\ M.unackd = L.unackd
  /\ M.buf = L.buf /\ M.inb = <<>> /\ M.tx = L.tx

\* What the handlers may do to the outbound queue.
Outcome(L, f, M) ==
  /\ Taken(L, M)
  /\ \/ M.out = ClearById(L.out, f.id)
     \/ ~f.reply /\ M.out = L.out
     \/ ~f.reply /\ \E p \in Nat : M.out = Insert(L.out, ReplyTo(f, FALSE), p)

LEMMA DiscardOutcome ==
  ASSUME NEW L \in Link, NEW f \in Frame, NEW M, Taken(L, M), M.out = L.out
  PROVE  Outcome(L, f, Discard(M, f))
<1> DEFINE q == ClearById(L.out, f.id)
           N == [M EXCEPT !.out = q]
<1>1. CASE ~f.reply
  BY <1>1 DEF Discard, Outcome
<1>2. CASE f.reply
  <2>1. Discard(M, f) = N
    BY <1>2 DEF Discard, ClearWaiting
  <2>2. q \in Seq(Message)
    BY FieldTypes, WithoutType DEF ClearById
  <2>3. q = ClearById(L.out, f.id)
    OBVIOUS
  <2> HIDE DEF q
  <2>4. N \in Link
    BY <2>2, SetOut DEF Taken
  <2>5. /\ N.opts = M.opts /\ N.st = M.st /\ N.unackd = M.unackd
        /\ N.buf = M.buf /\ N.inb = M.inb /\ N.tx = M.tx /\ N.out = q
    BY DEF Taken, Link
  <2> HIDE DEF N
  <2> QED BY <2>1, <2>3, <2>4, <2>5 DEF Outcome, Taken
<1>3. f.reply \in BOOLEAN
  BY DEF Frame
<1> QED BY <1>1, <1>2, <1>3

LEMMA RespondOutcome ==
  ASSUME NEW L \in Link, NEW f \in Frame, f.code \in Codes, ~f.reply,
         NEW M, Taken(L, M), M.out = L.out
  PROVE  Outcome(L, f, Respond(M, f, FALSE))
<1> DEFINE m == ReplyTo(f, FALSE)
           p == PriorityOf(m)
           q == ClearById(L.out, f.id)
           r == Insert(L.out, m, p)
<1>1. m \in Message /\ p \in Nat /\ L.out \in Seq(Message)
  BY ReplyToType, FieldTypes DEF PriorityOf, PRIORITY_INTERNAL, PRIORITY_APP, PRIORITY_HANGUP
<1>2. q \in Seq(Message)
  BY <1>1, WithoutType DEF ClearById
<1>3. q = ClearById(L.out, f.id) /\ m = ReplyTo(f, FALSE)
  OBVIOUS
<1>4. Respond(M, f, FALSE) = [M EXCEPT !.out = r] \/ Respond(M, f, FALSE) = [M EXCEPT !.out = q]
  BY DEF Respond, SendMsg, ClearWaiting
<1> HIDE DEF m, p, q
<1>5. r \in Seq(Message) /\ r = Insert(L.out, m, p)
  BY <1>1, InsertSays
<1> HIDE DEF r
<1>6. ASSUME NEW s \in Seq(Message)
      PROVE  LET N == [M EXCEPT !.out = s] IN Taken(L, N) /\ N.out = s
  <2> DEFINE N == [M EXCEPT !.out = s]
  <2>1. N \in Link
    BY SetOut DEF Taken
  <2>2. /\ N.opts = M.opts /\ N.st = M.st /\ N.unackd = M.unackd
        /\ N.buf = M.buf /\ N.inb = M.inb /\ N.tx = M.tx /\ N.out = s
    BY DEF Taken, Link
  <2> HIDE DEF N
  <2>3. Taken(L, N) /\ N.out = s
    BY <2>1, <2>2 DEF Taken
  <2> QED BY <2>3 DEF N
<1>7. Outcome(L, f, [M EXCEPT !.out = q])
  BY <1>2, <1>3, <1>6 DEF Outcome
<1>8. Outcome(L, f, [M EXCEPT !.out = r])
  BY <1>1, <1>3, <1>5, <1>6 DEF Outcome
<1> QED BY <1>4, <1>7, <1>8

\* Each of these serves, and an answer releases what it answers.
LEMMA OutcomeServes ==
  ASSUME NEW L \in Link, Lawful(L), L.st # "UNINIT", NEW f \in Frame, f.code \in Codes,
         L.inb = <<f>>, NEW M, Outcome(L, f, M)
  PROVE  Serves(L, M) /\ (f.reply => f.id \notin Asked(M.out))
<1>1. M \in Link /\ M.opts = L.opts /\ M.st = L.st /\ M.unackd = L.unackd
      /\ M.buf = L.buf /\ M.inb = <<>> /\ M.tx = L.tx
  BY DEF Outcome, Taken
<1>2. Said(L.inb) = {f} /\ Said(M.inb) = {}
  BY <1>1, SaidOne, SaidNone
<1>3. Said(M.buf) \cup Said(M.inb) \subseteq Said(L.buf) \cup Said(L.inb)
  BY <1>1, <1>2
<1>4. f.reply => f.id \in Heard(L) \cup {NoId}
  BY <1>2 DEF Heard, Answered
<1>5. ~f.reply => f.id \in Foreign(L) \cup {NoId}
  BY <1>2 DEF Foreign, Asked
<1>6. CASE M.out = ClearById(L.out, f.id)
  <2>1. f.id \in Heard(L) \cup Foreign(L) \cup {NoId}
    BY <1>4, <1>5
  <2>2. Serves(L, M) /\ (f.id \in Heard(L) \cup {NoId} => f.id \notin Asked(M.out))
    BY <1>1, <1>3, <1>6, <2>1, ReleaseServes
  <2> QED BY <1>4, <2>2
<1>7. CASE ~f.reply /\ M.out = L.out
  <2>1. Hears(L, M)
    BY <1>1, <1>3, <1>7 DEF Hears
  <2> QED BY <1>1, <1>7, <2>1, HearsServes
<1>8. ASSUME ~f.reply, NEW p \in Nat, M.out = Insert(L.out, ReplyTo(f, FALSE), p)
      PROVE  Serves(L, M)
  <2> DEFINE m == ReplyTo(f, FALSE)
  <2>1. m \in Message
    BY ReplyToType
  <2>2. m.reply = TRUE /\ m.expect = FALSE /\ m.id = f.id
    BY DEF ReplyTo
  <2>3. M.out = Insert(L.out, m, p)
    BY <1>8
  <2> HIDE DEF m
  <2>4. NoId \notin Own(L) /\ NoId \notin Foreign(L)
    BY NoDialog
  <2>5. Converses(L, M, NoId) /\ Minds(L, M)
    BY <1>1, <1>3, <1>5, <1>8, <2>1, <2>2, <2>3, <2>4, QueuedConverses
  <2> QED BY <1>1, <2>5 DEF Serves
<1> QED BY <1>6, <1>7, <1>8 DEF Outcome

\* The flags and the plan may change on the way.
LEMMA TakenFields ==
  ASSUME NEW L \in Link, NEW M, Taken(L, M), M.out = L.out
  PROVE  LET K(N) == Taken(L, N) /\ N.out = L.out
         IN  /\ K([M EXCEPT !.syncRx = TRUE, !.syncIn = TRUE, !.cast = FALSE])
             /\ K([M EXCEPT !.syncIn = TRUE])
             /\ K([M EXCEPT !.hupR = TRUE])
BY DEF Taken, Link

LEMMA TakenPlan ==
  ASSUME NEW L \in Link, NEW M, Taken(L, M), M.out = L.out, NEW w \in Seq(States)
  PROVE  LET N == [M EXCEPT !.wp = w, !.est = TRUE] IN Taken(L, N) /\ N.out = L.out
BY DEF Taken, Link

\* SYNC: an answer ends the casting, a query is answered.
LEMMA OnSyncServes ==
  ASSUME NEW L \in Link, Lawful(L), L.st # "UNINIT", NEW f \in Frame, f.code \in Codes,
         L.inb = <<f>>, NEW M, Taken(L, M), M.out = L.out, OnSync(M, f) \in Link
  PROVE  Serves(L, OnSync(M, f)) /\ (f.reply => f.id \notin Asked(OnSync(M, f).out))
<1> DEFINE K == [M EXCEPT !.syncRx = TRUE, !.syncIn = TRUE, !.cast = FALSE]
           Q == [M EXCEPT !.syncIn = TRUE]
<1>1. Taken(L, K) /\ K.out = L.out /\ Taken(L, Q) /\ Q.out = L.out
  BY TakenFields
<1>2. OnSync(M, f) = IF f.reply THEN Discard(K, f) ELSE SendSync(Q, FALSE)
  BY DEF OnSync
<1> HIDE DEF K, Q
<1>3. CASE f.reply
  BY <1>1, <1>2, <1>3, DiscardOutcome, OutcomeServes
<1>4. CASE ~f.reply
  <2>1. Said(Q.inb) = {}
    BY <1>1, SaidNone DEF Taken
  <2>2. Hears(L, Q) /\ Q \in Link
    BY <1>1, <2>1 DEF Hears, Taken
  <2>3. Hears(L, SendSync(Q, FALSE))
    BY <2>2, SendSyncHears, HearsTrans
  <2> QED BY <1>2, <1>4, <2>3, HearsServes
<1> QED BY <1>3, <1>4

\* CONNECT: the answer goes past the queue, in the dialog of the question.
LEMMA OnConnectServes ==
  ASSUME NEW n \in Nat, NEW L \in Link, Lawful(L), L.st # "UNINIT", NEW f \in Frame,
         f.code = "CONNECT", L.inb = <<f>>, NEW M,
         Taken(L, M), M.out = L.out, Sized(M, n), OnConnect(M, f) \in Link
  PROVE  Serves(L, OnConnect(M, f)) /\ (f.reply => f.id \notin Asked(OnConnect(M, f).out))
<1> DEFINE route == IF ~M.est /\ M.opts.auth THEN <<"PENDING_AUTH", "LIVE">> ELSE <<"LIVE">>
           w     == IF M.est \/ IsStable(M.wp) THEN AppendRoute(M.wp, route) ELSE M.wp
           K     == [M EXCEPT !.wp = w, !.est = TRUE]
           h     == Header(ReplyTo(f, FALSE))
           R     == Relay(M, <<h>>)
<1>0. f.code \in Codes
  BY DEF Codes
<1>1. OnConnect(M, f) = IF f.reply THEN Discard(K, f)
                        ELSE IF f.expect /\ CanRelay(M, <<h>>) THEN R ELSE M
  BY DEF OnConnect
<1>2. w \in Seq(States)
  <2>1. M.wp \in Seq(States) /\ Len(M.wp) <= WpDepth
    BY FieldTypes DEF Sized
  <2>2. <<"PENDING_AUTH", "LIVE">> \in Seq(States) /\ <<"LIVE">> \in Seq(States)
    BY DEF States
  <2>3. route \in Seq(States)
    BY <2>2
  <2> HIDE DEF route
  <2> QED BY <2>1, <2>3, AppendRouteType
<1> HIDE DEF w
<1>3. Taken(L, K) /\ K.out = L.out
  BY <1>2, TakenPlan
<1> HIDE DEF K
<1>4. CASE f.reply
  BY <1>0, <1>1, <1>3, <1>4, DiscardOutcome, OutcomeServes
<1>5. Said(L.inb) = {f} /\ Said(M.inb) = {}
  BY SaidOne, SaidNone DEF Taken
<1>6. Serves(L, M)
  <2>1. Hears(L, M) /\ M \in Link
    BY <1>5 DEF Hears, Taken
  <2> QED BY <2>1, HearsServes
<1>7. CASE ~f.reply /\ OnConnect(M, f) = R
  <2> DEFINE N == Relay(L, <<h>>)
  <2>1. h \in Frame
    BY <1>0, ReplyToType, HeaderType
  <2>2. Utters(L, h, NoId)
    <3>1. h.reply = TRUE /\ h.expect = FALSE /\ h.code = f.code /\ h.id = f.id
      BY DEF Header, ReplyTo
    <3> HIDE DEF h
    <3>2. f.id = NoId \/ f.id \in Foreign(L)
      BY <1>5, <1>7 DEF Foreign, Asked
    <3> QED BY <1>0, <3>1, <3>2 DEF Utters, Plain
  <2> HIDE DEF h
  <2>3. Serves(L, N)
    BY <2>1, <2>2, NoDialog, RelayConverses DEF Serves
  <2>4. /\ R.opts = N.opts /\ R.st = N.st /\ R.out = N.out /\ R.unackd = N.unackd
        /\ R.buf = N.buf /\ R.inb = <<>> /\ R.tx = N.tx
    <3> DEFINE o == <<h>>
    <3>1. R = Relay(M, o) /\ N = Relay(L, o)
      OBVIOUS
    <3> HIDE DEF o, R, N
    <3> QED BY <3>1 DEF Relay, Taken, Link
  <2> HIDE DEF R, N
  <2>5. Hears(N, R)
    BY <2>4, SaidNone DEF Hears
  <2>6. Serves(N, R)
    BY <1>7, <2>3, <2>5, HearsServes DEF Serves, Converses
  <2> QED BY <1>7, <2>3, <2>6, ServesTrans
<1> QED BY <1>1, <1>4, <1>6, <1>7

\* HANGUP: the answer is queued, and the end of the session planned.
LEMMA OnHangupServes ==
  ASSUME NEW L \in Link, Lawful(L), L.st # "UNINIT", NEW f \in Frame, f.code = "HANGUP",
         L.inb = <<f>>, NEW M, Taken(L, M), M.out = L.out, OnHangup(M, f) \in Link
  PROVE  Serves(L, OnHangup(M, f)) /\ (f.reply => f.id \notin Asked(OnHangup(M, f).out))
<1> DEFINE K == [M EXCEPT !.hupR = TRUE]
           R == Respond(K, f, FALSE)
           w == AppendRoute(R.wp, <<"PENDING_HANGUP", "HUNGUP">>)
           X == [R EXCEPT !.wp = w]
<1>0. f.code \in Codes /\ f.reply \in BOOLEAN
  BY DEF Codes, Frame
<1>1. \/ f.reply /\ OnHangup(M, f) = Discard(K, f)
      \/ ~f.reply /\ (OnHangup(M, f) = R \/ OnHangup(M, f) = X \/ OnHangup(M, f) = K)
  BY <1>0 DEF OnHangup
<1>2. Taken(L, K) /\ K.out = L.out
  BY TakenFields
<1> HIDE DEF K
<1>3. ASSUME f.reply, OnHangup(M, f) = Discard(K, f)
      PROVE  Outcome(L, f, OnHangup(M, f))
  BY <1>2, <1>3, DiscardOutcome
<1>4. ASSUME ~f.reply PROVE Outcome(L, f, R) /\ Outcome(L, f, K)
  BY <1>0, <1>2, <1>4, RespondOutcome DEF Outcome
<1>5. ASSUME ~f.reply, OnHangup(M, f) = X PROVE Outcome(L, f, X)
  <2>1. R \in Link /\ Outcome(L, f, R)
    BY <1>4, <1>5 DEF Outcome, Taken
  <2> HIDE DEF R, w
  <2>2. /\ X.opts = R.opts /\ X.st = R.st /\ X.unackd = R.unackd
        /\ X.buf = R.buf /\ X.inb = R.inb /\ X.tx = R.tx /\ X.out = R.out
    BY <2>1 DEF Link
  <2>3. X \in Link
    BY <1>5
  <2> HIDE DEF X
  <2> QED BY <2>1, <2>2, <2>3 DEF Outcome, Taken
<1> HIDE DEF R, X
<1>6. Outcome(L, f, OnHangup(M, f))
  BY <1>1, <1>3, <1>4, <1>5
<1> QED BY <1>0, <1>6, OutcomeServes

\* The handlers of the other messages.
LEMMA OnDialogOutcome ==
  ASSUME NEW L \in Link, Lawful(L), NEW f \in Frame, f.code \in Codes, Plain(f),
         NEW app \in {"drop", "ack"}, NEW M, Taken(L, M), M.out = L.out
  PROVE  /\ Outcome(L, f, OnLog(M, f))
         /\ Outcome(L, f, OnWho(M, f))
         /\ Outcome(L, f, OnApplication(M, f, app))
<1>1. f.reply \in BOOLEAN /\ f.expect \in BOOLEAN
  BY DEF Frame
<1>2. Outcome(L, f, Discard(M, f))
  BY DiscardOutcome
<1>3. ~f.reply => Outcome(L, f, Respond(M, f, FALSE))
  BY RespondOutcome
<1>4. ~M.opts.ident
  BY DEF Taken, Lawful
<1>5. f.reply => ~f.expect
  BY DEF Plain
<1>6. Outcome(L, f, OnLog(M, f))
  BY <1>1, <1>2, <1>3 DEF OnLog
<1>7. Outcome(L, f, OnWho(M, f))
  <2>1. M.opts.ident = FALSE
    BY <1>4 DEF Taken, Link, Options
  <2>2. OnWho(M, f) = Discard(M, f) \/ (~f.reply /\ OnWho(M, f) = Respond(M, f, FALSE))
    BY <1>1, <1>5, <2>1 DEF OnWho
  <2> QED BY <1>2, <1>3, <2>2
<1>8. Outcome(L, f, OnApplication(M, f, app))
  <2>1. Answer(f, app) = "drop" \/ (~f.reply /\ Answer(f, app) = "ack")
    BY <1>1, <1>5 DEF Answer
  <2>2. \/ OnApplication(M, f, app) = Discard(M, f)
        \/ ~f.reply /\ OnApplication(M, f, app) = Respond(M, f, FALSE)
    BY <2>1 DEF OnApplication
  <2> QED BY <1>2, <1>3, <2>2
<1> QED BY <1>6, <1>7, <1>8

\* _churn_inbound(): the message in the inbound queue is handled, and an answer
\* releases what it answers.
LEMMA ChurnInboundServes ==
  ASSUME NEW n \in Nat, NEW L, Sized(L, n), Lawful(L), NEW app \in {"drop", "ack"},
         L.inb = <<>> \/ (L.st # "UNINIT" /\ \E f \in Frame : L.inb = <<f>>)
  PROVE  LET C == ChurnInbound(L, app)
         IN  /\ Serves(L, C)
             /\ \A f \in Frame : L.inb = <<f>> /\ f.reply => f.id \notin Asked(C.out)
<1> DEFINE C == ChurnInbound(L, app)
<1>1. L \in Link /\ app \in Answers
  BY DEF Sized, Answers
<1>2. CASE L.inb = <<>>
  <2>1. C = L
    BY <1>2 DEF ChurnInbound
  <2>2. Serves(L, L)
    BY <1>1, HearsFields, HearsServes
  <2>3. \A f \in Frame : L.inb # <<f>>
    BY <1>2
  <2> QED BY <2>1, <2>2, <2>3
<1>3. ASSUME NEW f \in Frame, L.inb = <<f>>, L.st # "UNINIT"
      PROVE  Serves(L, C) /\ (f.reply => f.id \notin Asked(C.out))
  <2> DEFINE e == <<>>
             M == [L EXCEPT !.inb = e]
  <2>1. L.inb # <<>> /\ Head(L.inb) = f /\ Said(L.inb) = {f}
    BY <1>3, SaidOne
  <2>2. C = CASE f.code = "SYNC"        -> OnSync(M, f)
              [] f.code = "CONNECT"     -> OnConnect(M, f)
              [] f.code = "HANGUP"      -> OnHangup(M, f)
              [] f.code = "LOG"         -> OnLog(M, f)
              [] f.code = "WHO"         -> OnWho(M, f)
              [] f.code = "APPLICATION" -> OnApplication(M, f, app)
              [] OTHER                  -> M
    BY <2>1 DEF ChurnInbound
  <2>3. C \in Link
    BY <1>1, ChurnInboundOK DEF Sized
  <2>4. Plain(f)
    BY <2>1 DEF Lawful
  <2>5. e \in Seq(Frame)
    OBVIOUS
  <2>6. Sized(M, n)
    BY <2>5, PutInb
  <2>7. Taken(L, M) /\ M.out = L.out
    BY <1>1, <2>6 DEF Taken, Sized, Link
  <2> HIDE DEF C, M, e
  <2>8. CASE f.code = "SYNC"
    <3>1. C = OnSync(M, f) /\ f.code \in Codes
      BY <2>2, <2>8 DEF Codes
    <3> QED BY <1>1, <1>3, <2>3, <2>7, <3>1, OnSyncServes
  <2>9. CASE f.code = "CONNECT"
    <3>1. C = OnConnect(M, f)
      BY <2>2, <2>9
    <3> QED BY <1>1, <1>3, <2>3, <2>6, <2>7, <2>9, <3>1, OnConnectServes
  <2>10. CASE f.code = "HANGUP"
    <3>1. C = OnHangup(M, f)
      BY <2>2, <2>10
    <3> QED BY <1>1, <1>3, <2>3, <2>7, <2>10, <3>1, OnHangupServes
  <2>11. CASE f.code \in {"LOG", "WHO", "APPLICATION"}
    <3>1. C = OnLog(M, f) \/ C = OnWho(M, f) \/ C = OnApplication(M, f, app)
      BY <2>2, <2>11
    <3>2. f.code \in Codes
      BY <2>11 DEF Codes
    <3>3. Outcome(L, f, C)
      BY <1>1, <2>4, <2>7, <3>1, <3>2, OnDialogOutcome
    <3> QED BY <1>1, <1>3, <3>2, <3>3, OutcomeServes
  <2>12. CASE f.code \notin {"SYNC", "CONNECT", "HANGUP", "LOG", "WHO", "APPLICATION"}
    <3>1. C = M
      BY <2>2, <2>12
    <3>2. ~f.reply
      BY <2>4, <2>12 DEF Plain, Codes
    <3>3. Said(M.inb) = {}
      BY <2>7, SaidNone DEF Taken
    <3>4. Hears(L, M)
      BY <2>7, <3>3 DEF Hears, Taken
    <3> QED BY <1>1, <2>3, <3>1, <3>2, <3>4, HearsServes
  <2> QED BY <2>8, <2>9, <2>10, <2>11, <2>12
<1>4. CASE L.inb # <<>>
  <2>1. PICK f \in Frame : L.inb = <<f>>
    BY <1>4
  <2>2. L.st # "UNINIT"
    BY <1>4
  <2>3. Serves(L, C) /\ (f.reply => f.id \notin Asked(C.out))
    BY <1>3, <2>1, <2>2
  <2>4. \A g \in Frame : L.inb = <<g>> => g = f
    BY <2>1
  <2> QED BY <2>3, <2>4
<1> QED BY <1>2, <1>4

-----------------------------------------------------------------------------
\* _churn_outbound()

\* The head of the queue is put back, whatever became of its retries and of its
\* place, and waits if it did before.
LEMMA PutBackSays ==
  ASSUME NEW L \in Link, Lawful(L), L.out # <<>>, NEW k \in Message, NEW p \in Nat,
         LET m == Head(L.out)
         IN  k.reply = m.reply /\ k.expect = m.expect /\ k.id = m.id /\ (m.sent => k.sent)
  PROVE  LET q == Insert(Tail(L.out), k, p)
         IN  Requeued(L, q, NoId) /\ Awaited(L.out) \subseteq Awaited(q)
<1> DEFINE m == Head(L.out)
           t == Tail(L.out)
           x == [k EXCEPT !.prio = p]
           q == Insert(t, k, p)
<1>0. L.out \in Seq(Message) /\ AskedOnce(L.out) /\ Proper(L.out)
  BY FieldTypes DEF Lawful
<1>1. /\ m \in Message /\ t \in Seq(Message) /\ AskedOnce(t)
      /\ Said(L.out) = {m} \cup Said(t)
      /\ m.reply \/ m.id \notin Asked(t)
  BY <1>0, TailSays
<1>2. k.reply = m.reply /\ k.expect = m.expect /\ k.id = m.id /\ (m.sent => k.sent)
  OBVIOUS
<1> HIDE DEF m, t
<1>3. /\ x.reply = k.reply /\ x.id = k.id /\ x.expect = k.expect /\ x.sent = k.sent
  BY DEF Message
<1>4. Said(q) = Said(t) \cup {x} /\ AskedOnce(q)
  BY <1>1, <1>2, InsertSays
<1> HIDE DEF q, x
<1>5. Proper(q)
  BY <1>0, <1>1, <1>2, <1>3, <1>4 DEF Proper
<1>6. Asked(q) \subseteq Asked(L.out) /\ Answered(q) \subseteq Answered(L.out)
  BY <1>1, <1>2, <1>3, <1>4 DEF Asked, Answered
<1>7. Awaited(q) \subseteq Asked(L.out)
  BY <1>5, <1>6, AwaitedAsked
<1>8. Requeued(L, q, NoId)
  BY <1>4, <1>5, <1>6, <1>7 DEF Requeued, Foreign
<1>9. Awaited(L.out) \subseteq Awaited(q)
  BY <1>1, <1>2, <1>3, <1>4, AwaitedIds
<1> QED BY <1>8, <1>9 DEF q, t

\* The head of the queue has left.
LEMMA DequeueSays ==
  ASSUME NEW L \in Link, Lawful(L), L.out # <<>>
  PROVE  LET m == Head(L.out)
             t == Tail(L.out)
         IN  /\ m \in Message /\ t \in Seq(Message)
             /\ Requeued(L, t, NoId)
             /\ \A id \in Awaited(L.out) : id \in Awaited(t) \/ (m.expect /\ m.sent)
             /\ Utters(L, Header(m), NoId)
<1> DEFINE m == Head(L.out)
           t == Tail(L.out)
           h == Header(m)
<1>0. L.out \in Seq(Message) /\ AskedOnce(L.out) /\ Proper(L.out)
  BY FieldTypes DEF Lawful
<1>1. /\ m \in Message /\ t \in Seq(Message) /\ AskedOnce(t)
      /\ Said(L.out) = {m} \cup Said(t)
  BY <1>0, TailSays
<1> HIDE DEF m, t
<1>2. Proper(t) /\ Asked(t) \subseteq Asked(L.out) /\ Answered(t) \subseteq Answered(L.out)
  BY <1>0, <1>1 DEF Proper, Asked, Answered
<1>3. Awaited(t) \subseteq Asked(L.out)
  BY <1>2, AwaitedAsked
<1>4. Requeued(L, t, NoId)
  BY <1>1, <1>2, <1>3 DEF Requeued, Foreign
<1>5. \A id \in Awaited(L.out) : id \in Awaited(t) \/ (m.expect /\ m.sent)
  BY <1>1, AwaitedIds
<1>6. Utters(L, h, NoId)
  <2>1. h.code = m.code /\ h.reply = m.reply /\ h.expect = m.expect /\ h.id = m.id
    BY DEF Header
  <2> HIDE DEF h
  <2>2. m.code \in Codes
    BY <1>1 DEF Message
  <2>3. m \in Said(L.out)
    BY <1>1
  <2>4. m.reply => ~m.expect
    BY <1>0, <2>3 DEF Proper
  <2>5. m.id = NoId \/ (m.reply /\ m.id \in Foreign(L)) \/ (~m.reply /\ m.id \in Own(L))
    BY <2>3 DEF Foreign, Own, Asked, Answered
  <2> QED BY <2>1, <2>2, <2>4, <2>5 DEF Utters, Plain
<1> QED BY <1>1, <1>4, <1>5, <1>6 DEF m, t, h

\* A step that only works on the queue and hands the head to the transport.
LEMMA OutboundServes ==
  ASSUME NEW L \in Link, Lawful(L), L.out # <<>>, NEW S \in Link,
         S.opts = L.opts, S.st = L.st, S.buf = L.buf, S.inb = L.inb,
         Requeued(L, S.out, NoId),
         \A f \in Said(S.tx) : f \in Said(L.tx) \/ f = Header(Head(L.out)),
         S.unackd = L.unackd, Awaited(L.out) \subseteq Awaited(S.out)
  PROVE  Serves(L, S)
<1>1. Utters(L, Header(Head(L.out)), NoId)
  BY DequeueSays
<1>2. L.st # "UNINIT"
  BY DEF Lawful
<1>3. Converses(L, S, NoId)
  BY <1>1, <1>2, NoDialog, StepConverses
<1>4. Minds(L, S)
  BY StepMinds
<1> QED BY <1>3, <1>4 DEF Serves

\* What the transport makes of the link when it takes the message.
LEMMA AfterRelaySays ==
  ASSUME NEW L \in Link, NEW m \in Message
  PROVE  LET R == AfterRelay(L, m)
         IN  /\ R \in Link
             /\ R.opts = L.opts /\ R.st = L.st /\ R.buf = L.buf /\ R.inb = L.inb
             /\ R.out = L.out /\ R.unackd = L.unackd
             /\ \A f \in Said(R.tx) : f \in Said(L.tx) \/ f = Header(m)
<1> DEFINE fs == Serialized(m)
           t  == L.tx \o fs
           h  == L.hupT \/ m.code = "HANGUP"
           R  == AfterRelay(L, m)
<1>1. L.tx \in Seq(Frame) /\ Header(m) \in Frame
  BY FieldTypes, HeaderType
<1>2. fs \in Seq(Frame) /\ Said(fs) \subseteq {Header(m)}
  <2> DEFINE x == Header(m)
             o == <<x>>
  <2>1. x \in Frame
    BY <1>1
  <2> HIDE DEF x
  <2>2. o \in Seq(Frame) /\ Said(o) = {x}
    BY <2>1, SaidOne
  <2> HIDE DEF o
  <2>3. fs = o \/ fs = <<>>
    BY DEF Serialized, o, x
  <2> HIDE DEF fs
  <2>4. CASE fs = o
    BY <2>2, <2>4 DEF x
  <2>5. CASE fs = <<>>
    <3>1. fs \in Seq(Frame)
      BY <2>5
    <3>2. Said(fs) = {}
      BY <2>5, SaidNone
    <3> QED BY <3>1, <3>2
  <2> QED BY <2>3, <2>4, <2>5
<1>3. R \in Link
  BY AfterRelayTells
<1>4. /\ R.opts = L.opts /\ R.st = L.st /\ R.buf = L.buf /\ R.inb = L.inb
      /\ R.out = L.out /\ R.unackd = L.unackd /\ R.tx = t
  <2> HIDE DEF fs, h
  <2> QED BY DEF AfterRelay, Relay, Link, fs
<1> HIDE DEF fs, R
<1>5. Said(t) = Said(L.tx) \cup Said(fs)
  BY <1>1, <1>2, SaidConcat
<1> HIDE DEF t
<1> QED BY <1>2, <1>3, <1>4, <1>5 DEF R

\* The transmission of the head of the queue.
LEMMA TransmitServes ==
  ASSUME NEW L \in Link, Lawful(L), L.out # <<>>, NEW M, M = [L EXCEPT !.out = Tail(L.out)],
         NEW k \in Message, NEW was \in Nat,
         LET m == Head(L.out)
         IN  Header(k) = Header(m) /\ k.sent = m.sent
  PROVE  Serves(L, Transmit(M, k, was))
<1> DEFINE m == Head(L.out)
           t == Tail(L.out)
           n == AfterSerialize(k)
           y == [n EXCEPT !.sent = TRUE]
           p == IF was = PRIORITY_WAITING THEN was
                ELSE IF k.code = "APPLICATION" THEN PRIORITY_APP ELSE PRIORITY_INTERNAL
           R == AfterRelay(M, k)
           a == Insert(t, n, p)
           b == Insert(t, y, PRIORITY_WAITING)
           X == [M EXCEPT !.out = a]
           Y == [R EXCEPT !.out = b]
<1>1. /\ m \in Message /\ t \in Seq(Message)
      /\ Requeued(L, t, NoId)
      /\ \A id \in Awaited(L.out) : id \in Awaited(t) \/ (m.expect /\ m.sent)
  BY DequeueSays
<1>2. k.reply = m.reply /\ k.expect = m.expect /\ k.id = m.id /\ k.sent = m.sent
  BY DEF Header
<1>3. n \in Message /\ y \in Message
  BY SerializeType
<1>4. p \in Nat /\ PRIORITY_WAITING \in Nat
  BY DEF PRIORITY_WAITING, PRIORITY_APP, PRIORITY_INTERNAL
<1>5. /\ n.reply = m.reply /\ n.expect = m.expect /\ n.id = m.id /\ n.sent = m.sent
      /\ y.reply = m.reply /\ y.expect = m.expect /\ y.id = m.id /\ y.sent = TRUE
  <2>1. n.reply = k.reply /\ n.expect = k.expect /\ n.id = k.id /\ n.sent = k.sent
    BY DEF AfterSerialize, Message
  <2>2. y.reply = n.reply /\ y.expect = n.expect /\ y.id = n.id /\ y.sent = TRUE
    BY <1>3 DEF Message
  <2> QED BY <1>2, <2>1, <2>2
<1>6. Transmit(M, k, was) = IF ~CanRelay(M, Serialized(k)) THEN [M EXCEPT !.out = Insert(@, n, p)]
                            ELSE IF k.expect THEN [R EXCEPT !.out = Insert(@, y, PRIORITY_WAITING)]
                            ELSE R
  BY DEF Transmit
<1>7. /\ M \in Link /\ M.out = t
      /\ M.opts = L.opts /\ M.st = L.st /\ M.buf = L.buf /\ M.inb = L.inb
      /\ M.unackd = L.unackd /\ M.tx = L.tx
  BY <1>1, SetOut DEF Link
<1>8. Header(k) = Header(m)
  OBVIOUS
<1> HIDE DEF m, t, n, y, p
<1>9. /\ R \in Link
      /\ R.opts = L.opts /\ R.st = L.st /\ R.buf = L.buf /\ R.inb = L.inb
      /\ R.out = t /\ R.unackd = L.unackd
      /\ \A f \in Said(R.tx) : f \in Said(L.tx) \/ f = Header(m)
  <2>1. /\ R \in Link
        /\ R.opts = M.opts /\ R.st = M.st /\ R.buf = M.buf /\ R.inb = M.inb
        /\ R.out = M.out /\ R.unackd = M.unackd
        /\ \A f \in Said(R.tx) : f \in Said(M.tx) \/ f = Header(k)
    BY <1>7, AfterRelaySays
  <2> HIDE DEF R
  <2> QED BY <1>7, <1>8, <2>1
<1> HIDE DEF R
<1>10. Transmit(M, k, was) \in {X, Y} \/ (~m.expect /\ Transmit(M, k, was) = R)
  BY <1>2, <1>6, <1>7, <1>9
<1>11. a \in Seq(Message) /\ b \in Seq(Message)
  BY <1>1, <1>3, <1>4, InsertSays
<1>12. /\ Requeued(L, a, NoId) /\ Awaited(L.out) \subseteq Awaited(a)
       /\ Requeued(L, b, NoId) /\ Awaited(L.out) \subseteq Awaited(b)
  BY <1>3, <1>4, <1>5, PutBackSays DEF m, t
<1> HIDE DEF a, b
<1>13. Serves(L, X)
  <2>1. /\ X \in Link /\ X.out = a
        /\ X.opts = L.opts /\ X.st = L.st /\ X.buf = L.buf /\ X.inb = L.inb
        /\ X.unackd = L.unackd /\ X.tx = L.tx
    BY <1>7, <1>11, SetOut DEF Link
  <2> HIDE DEF X
  <2> QED BY <1>12, <2>1, OutboundServes
<1>14. Serves(L, Y)
  <2>1. /\ Y \in Link /\ Y.out = b
        /\ Y.opts = L.opts /\ Y.st = L.st /\ Y.buf = L.buf /\ Y.inb = L.inb
        /\ Y.unackd = L.unackd /\ Y.tx = R.tx
    BY <1>9, <1>11, SetOut DEF Link
  <2> HIDE DEF Y
  <2> QED BY <1>9, <1>12, <2>1, OutboundServes DEF m
<1>15. ~m.expect => Serves(L, R)
  BY <1>1, <1>9, OutboundServes DEF m
<1> QED BY <1>10, <1>13, <1>14, <1>15

\* The retries are used up, and the message is counted.
LEMMA GiveUpServes ==
  ASSUME NEW L \in Link, Lawful(L), L.out # <<>>, NEW M, M = [L EXCEPT !.out = Tail(L.out)]
  PROVE  Serves(L, GiveUp(M))
<1> DEFINE t == Tail(L.out)
           u == IF M.unackd < MaxUnackd THEN M.unackd + 1 ELSE M.unackd
           G == [M EXCEPT !.unackd = u]
<1>1. t \in Seq(Message) /\ Requeued(L, t, NoId)
  BY DequeueSays
<1>2. /\ M \in Link /\ M.out = t
      /\ M.opts = L.opts /\ M.st = L.st /\ M.buf = L.buf /\ M.inb = L.inb
      /\ M.unackd = L.unackd /\ M.tx = L.tx
  BY <1>1, SetOut DEF Link
<1>3. GiveUp(M) = G
  BY DEF GiveUp
<1>4. M.unackd \in 0..MaxUnackd /\ MaxUnackd \in Nat
  BY <1>2, LinkAssumption DEF Link
<1>5. u \in 0..MaxUnackd /\ M.unackd <= u /\ (M.unackd < u \/ M.unackd = MaxUnackd)
  BY <1>4
<1> HIDE DEF u, t
<1>6. /\ G \in Link /\ G.out = t
      /\ G.opts = L.opts /\ G.st = L.st /\ G.buf = L.buf /\ G.inb = L.inb
      /\ G.unackd = u /\ G.tx = L.tx
  BY <1>2, <1>5 DEF Link
<1> HIDE DEF G
<1>7. L.st # "UNINIT"
  BY DEF Lawful
<1>8. Converses(L, G, NoId)
  BY <1>1, <1>6, <1>7, NoDialog, StepConverses
<1>9. Minds(L, G)
  BY <1>2, <1>5, <1>6 DEF Minds
<1> QED BY <1>3, <1>6, <1>8, <1>9 DEF Serves

\* The outbound queue as a whole.
LEMMA ChurnOutboundServes ==
  ASSUME NEW L \in Link, Lawful(L), NEW timedOut \in BOOLEAN
  PROVE  Serves(L, ChurnOutbound(L, timedOut))
<1>1. CASE L.out = <<>>
  <2>1. Serves(L, L)
    BY HearsFields, HearsServes
  <2> QED BY <1>1, <2>1 DEF ChurnOutbound
<1>2. CASE L.out # <<>>
  <2> DEFINE m == Head(L.out)
             t == Tail(L.out)
             M == [L EXCEPT !.out = t]
             q == Insert(t, m, PRIORITY_WAITING)
             W == [M EXCEPT !.out = q]
  <2>1. m \in Message /\ t \in Seq(Message)
    BY <1>2, DequeueSays
  <2>2. ChurnOutbound(L, timedOut) =
          CASE ~m.sent -> Transmit(M, m, m.prio)
            [] m.sent /\ ~timedOut ->
                 [M EXCEPT !.out = Insert(@, m, PRIORITY_WAITING)]
            [] m.sent /\ timedOut /\ m.retries > 0 -> Transmit(M, AfterRetry(m), m.prio)
            [] OTHER -> GiveUp(M)
    BY <1>2 DEF ChurnOutbound
  <2>3. m.sent \in BOOLEAN /\ m.prio \in Nat
    BY <2>1 DEF Message
  <2>4. M = [L EXCEPT !.out = Tail(L.out)] /\ M.out = t
    BY DEF Link
  <2>5. Serves(L, Transmit(M, m, m.prio))
    <3> HIDE DEF M
    <3> QED BY <1>2, <2>1, <2>3, <2>4, TransmitServes
  <2>6. m.retries > 0 => Serves(L, Transmit(M, AfterRetry(m), m.prio))
    <3> DEFINE k == AfterRetry(m)
    <3>1. Header(k) = Header(m) /\ k.sent = m.sent
      BY <2>1 DEF Header, AfterRetry, Message
    <3>2. m.retries > 0 => k \in Message
      BY <2>1, RetryType
    <3> HIDE DEF k, M
    <3> QED BY <1>2, <2>3, <2>4, <3>1, <3>2, TransmitServes DEF k
  <2>7. Serves(L, GiveUp(M))
    <3> HIDE DEF M
    <3> QED BY <1>2, <2>4, GiveUpServes
  <2>8. Serves(L, W)
    <3>1. PRIORITY_WAITING \in Nat
      BY DEF PRIORITY_WAITING
    <3>2. q \in Seq(Message) /\ Requeued(L, q, NoId) /\ Awaited(L.out) \subseteq Awaited(q)
      BY <1>2, <2>1, <3>1, PutBackSays, InsertSays
    <3> HIDE DEF q, m, t
    <3>3. M \in Link
      BY <2>1, SetOut
    <3>4. /\ M.opts = L.opts /\ M.st = L.st /\ M.buf = L.buf /\ M.inb = L.inb
          /\ M.unackd = L.unackd /\ M.tx = L.tx
      BY DEF Link
    <3> HIDE DEF M
    <3>5. /\ W \in Link /\ W.out = q
          /\ W.opts = M.opts /\ W.st = M.st /\ W.buf = M.buf /\ W.inb = M.inb
          /\ W.unackd = M.unackd /\ W.tx = M.tx
      BY <3>2, <3>3, SetOut DEF Link
    <3> HIDE DEF W
    <3> QED BY <1>2, <3>2, <3>4, <3>5, OutboundServes
  <2>9. [M EXCEPT !.out = Insert(@, m, PRIORITY_WAITING)] = W
    BY <2>4
  <2> HIDE DEF m, t, M, W
  <2>10. CASE ~m.sent
    BY <2>2, <2>5, <2>10
  <2>11. CASE m.sent /\ ~timedOut
    BY <2>2, <2>8, <2>9, <2>11
  <2>12. CASE m.sent /\ timedOut /\ m.retries > 0
    BY <2>2, <2>6, <2>12
  <2>13. CASE m.sent /\ timedOut /\ ~(m.retries > 0)
    BY <2>2, <2>7, <2>13
  <2> QED BY <2>3, <2>10, <2>11, <2>12, <2>13
<1> QED BY <1>1, <1>2

\* A keepalive is a sync packet.
LEMMA KeepAliveHears ==
  ASSUME NEW L \in Link, NEW kaDue
  PROVE  Hears(L, KeepAlive(L, kaDue))
<1>1. Hears(L, L) /\ Hears(L, SendSync(L, TRUE))
  BY HearsFields, SendSyncHears
<1> QED BY <1>1 DEF KeepAlive

\* The parser takes an answer from the input buffer, where a link takes one.
LEMMA AnswerParsed ==
  ASSUME NEW L \in Link, Lawful(L), L.st \in Behind, L.buf # <<>>, Head(L.buf).reply
  PROVE  Head(L.buf) \in Frame /\ ProcessInput(L).inb = <<Head(L.buf)>>
<1> DEFINE f == Head(L.buf)
           b == Tail(L.buf)
           T == [L EXCEPT !.buf = b]
           g == <<f>>
           P == [T EXCEPT !.perr = 0, !.inb = g]
<1>1. L.buf \in Seq(Frame)
  BY FieldTypes
<1>2. f \in Frame /\ f \in Said(L.buf)
  BY <1>1, SaidTail
<1>3. f.code \in Codes
  BY <1>2 DEF Lawful, Plain
<1>4. ProcessInput(L) = Parse(L)
  BY DEF ProcessInput, Behind
<1>5. Parse(L) = P
  <2>1. f.code # "JUNK" /\ f.code # "BAD"
    BY <1>3 DEF Codes
  <2> QED BY <2>1 DEF Parse
<1> HIDE DEF f, b, g
<1>6. P.inb = g
  BY DEF Link
<1> QED BY <1>2, <1>4, <1>5, <1>6 DEF f, g

\* All of poll() but its last call: nothing is said out of its dialog, nothing
\* that waits is forgotten, and the answer at the head of the buffer releases.
LEMMA ServiceServes ==
  ASSUME NEW n \in Nat, NEW L, Sized(L, n), L.inb = <<>>, Lawful(L),
         NEW app \in {"drop", "ack"}, NEW timedOut \in BOOLEAN, NEW kaDue \in BOOLEAN
  PROVE  LET M == Service(L, app, kaDue, timedOut)
         IN  /\ Serves(L, M)
             /\ L.st \in Behind /\ L.buf # <<>> /\ Head(L.buf).reply
                  => Head(L.buf).id \notin Asked(M.out)
<1> DEFINE P == ProcessInput(L)
           H == ChurnInbound(P, app)
           S == ChurnOutbound(H, timedOut)
           M == KeepAlive(S, kaDue)
<1>0. L \in Link /\ app \in Answers
  BY DEF Sized, Answers
<1>1. /\ Sized(P, n) /\ P.st = L.st
      /\ P.inb = <<>> \/ (L.st # "UNINIT" /\ \E f \in Frame : P.inb = <<f>>)
  BY ProcessInputOK DEF Steady, Accepting
<1>2. Serves(L, P)
  BY <1>0, <1>1, ProcessInputHears, HearsServes DEF Sized
<1>3. L.st \in Behind /\ L.buf # <<>> /\ Head(L.buf).reply =>
        Head(L.buf) \in Frame /\ P.inb = <<Head(L.buf)>>
  BY <1>0, AnswerParsed
<1> HIDE DEF P
<1>4. Lawful(P)
  BY <1>2 DEF Serves, Converses
<1>5. /\ Serves(P, H)
      /\ \A f \in Frame : P.inb = <<f>> /\ f.reply => f.id \notin Asked(H.out)
  BY <1>1, <1>4, ChurnInboundServes
<1>6. Sized(H, n) /\ H \in Link /\ Lawful(H)
  <2>1. Sized(H, n)
    BY <1>0, <1>1, ChurnInboundOK
  <2> QED BY <1>5, <2>1 DEF Serves, Converses, Sized
<1> HIDE DEF H
<1>7. Sized(S, n) /\ Serves(H, S)
  BY <1>6, ChurnOutboundOK, ChurnOutboundServes
<1>8. S \in Link /\ Lawful(S) /\ Asked(S.out) \subseteq Asked(H.out)
  BY <1>7, NoDialog DEF Serves, Converses
<1> HIDE DEF S
<1>9. M \in Link /\ Hears(S, M)
  BY <1>7, <1>8, KeepAliveOK, KeepAliveHears DEF Sized
<1>10. Serves(S, M) /\ M.out = S.out
  BY <1>8, <1>9, HearsServes DEF Hears
<1> HIDE DEF M
<1>11. Serves(L, M)
  <2>1. Serves(L, H)
    BY <1>0, <1>2, <1>5, ServesTrans
  <2>2. Serves(L, S)
    BY <1>0, <1>7, <2>1, ServesTrans
  <2> QED BY <1>0, <1>10, <2>2, ServesTrans
<1>12. L.st \in Behind /\ L.buf # <<>> /\ Head(L.buf).reply
         => Head(L.buf).id \notin Asked(M.out)
  BY <1>3, <1>5, <1>8, <1>10
<1> QED BY <1>11, <1>12 DEF Service, M, S, H, P

-----------------------------------------------------------------------------
\* _fsm_poll()

\* A step without a new dialog is one with any.
LEMMA ConversesAny ==
  ASSUME NEW L, NEW M, Converses(L, M, NoId), NEW x
  PROVE  /\ Converses(L, M, x)
         /\ Own(M) \subseteq Own(L) /\ Foreign(M) \subseteq Foreign(L)
         /\ Asked(M.out) \subseteq Asked(L.out)
<1>1. NoId \notin Own(M) /\ NoId \notin Asked(M.out)
  BY NoDialog
<1> QED BY <1>1 DEF Converses

\* The fields that say nothing may change.
LEMMA ConversesSame ==
  ASSUME NEW L, NEW K, NEW x, Converses(L, K, x), NEW M,
         M.opts.ident = K.opts.ident,
         M.out = K.out, M.tx = K.tx, M.buf = K.buf, M.inb = K.inb,
         M.st = K.st \/ M.st # "UNINIT"
  PROVE  Converses(L, M, x)
<1>1. Own(M) = Own(K) /\ Foreign(M) = Foreign(K) /\ Heard(M) = Heard(K)
  BY DEF Own, Foreign, Heard
<1>2. Lawful(M)
  BY <1>1 DEF Converses, Lawful
<1> QED BY <1>1, <1>2 DEF Converses

\* A new question is queued, with a new number for an id if it needs a reply.
LEMMA QuestionSays ==
  ASSUME NEW L \in Link, Lawful(L), L.st # "UNINIT",
         NEW rnd \in Nat, rnd \notin Own(L), rnd \notin Foreign(L),
         NEW c \in Codes \ {"SYNC"}, NEW a \in BOOLEAN, NEW b \in BOOLEAN,
         CanSend(L, NewMessage(NewHeader(c, a, rnd), b))
  PROVE  LET M == SendMsg(L, NewMessage(NewHeader(c, a, rnd), b))
         IN  M \in Link /\ Converses(L, M, rnd) /\ Minds(L, M)
<1> DEFINE h == NewHeader(c, a, rnd)
           m == NewMessage(h, b)
           p == PriorityOf(m)
           q == Insert(L.out, m, p)
           M == [L EXCEPT !.out = q]
<1>1. h \in Frame /\ h.code = c /\ h.reply = FALSE /\ h.expect = a
      /\ h.id = IF a THEN rnd ELSE NoId
  BY NewHeaderType DEF NewHeader
<1>2. IsValid(m)
  BY DEF CanSend
<1> HIDE DEF h
<1>3. m \in Message /\ m.code = c /\ m.reply = FALSE /\ m.expect = a
      /\ m.id = h.id /\ m.sent = FALSE
  BY <1>1, NewMessageType DEF NewMessage
<1>4. p \in Nat
  BY DEF PriorityOf, PRIORITY_INTERNAL, PRIORITY_APP, PRIORITY_HANGUP
<1>5. SendMsg(L, m) = M
  BY DEF SendMsg
<1> HIDE DEF m
<1>6. m.expect => m.id # NoId
  BY <1>2, <1>3 DEF IsValid
<1>7. L.out \in Seq(Message)
  BY FieldTypes
<1> HIDE DEF p
<1>8. q \in Seq(Message) /\ q = Insert(L.out, m, p)
  BY <1>3, <1>4, <1>7, InsertSays
<1> HIDE DEF q
<1>9. /\ M \in Link /\ M.opts = L.opts /\ M.st = L.st /\ M.unackd = L.unackd
      /\ M.out = q /\ M.tx = L.tx /\ M.buf = L.buf /\ M.inb = L.inb
  BY <1>8, SetOut DEF Link
<1> HIDE DEF M
<1>10. Converses(L, M, rnd) /\ Minds(L, M)
  BY <1>1, <1>3, <1>4, <1>6, <1>8, <1>9, QueuedConverses
<1> QED BY <1>5, <1>9, <1>10 DEF m, h

\* _fsm_set_position(), but for the setup.
LEMMA EnterSays ==
  ASSUME NEW n \in Nat, NEW L, Sized(L, n), L.inb = <<>>, Lawful(L), L.st # "UNINIT",
         NEW s \in States \ {"PENDING_SETUP"},
         NEW rnd \in Nat, rnd \notin Own(L), rnd \notin Foreign(L)
  PROVE  LET K == Enter(L, s, rnd).link IN Converses(L, K, rnd) /\ Minds(L, K)
<1> DEFINE K == Enter(L, s, rnd).link
<1>1. L \in Link /\ Hears(L, L)
  BY HearsFields DEF Sized
<1>2. ASSUME NEW M \in Link, Hears(L, M)
      PROVE  Converses(L, M, rnd) /\ Minds(L, M)
  BY <1>1, <1>2, HearsServes, ConversesAny DEF Serves
<1>3. K \in Link
  BY EnterOK DEF EnteredOK, Sized
<1>4. ASSUME NEW M \in Link, Hears(L, M)
      PROVE  /\ Lawful(M) /\ M.st # "UNINIT" /\ rnd \notin Own(M) /\ rnd \notin Foreign(M)
             /\ \A N \in Link : Converses(M, N, rnd) /\ Minds(M, N) =>
                                Converses(L, N, rnd) /\ Minds(L, N)
  <2>1. Serves(L, M)
    BY <1>1, <1>4, HearsServes
  <2>2. Converses(L, M, NoId) /\ Minds(L, M) /\ Heard(M) \subseteq Heard(L)
    BY <2>1 DEF Serves, Converses
  <2>3. Lawful(M) /\ Own(M) \subseteq Own(L) /\ Foreign(M) \subseteq Foreign(L)
    BY <2>2, ConversesAny DEF Converses
  <2>4. M.st # "UNINIT"
    BY <1>4 DEF Hears
  <2> QED BY <1>1, <2>2, <2>3, <2>4, ConversesTrans, MindsTrans
<1>5. ASSUME s = "SYNC_RESYNC"
     PROVE  Converses(L, K, rnd) /\ Minds(L, K)
  <2> DEFINE ok == CanRelay(L, <<SyncFrame(TRUE)>>)
             e  == <<>>
             M  == [L EXCEPT !.buf = e, !.syncIn = FALSE, !.syncRx = FALSE, !.cast = ok]
  <2>1. K = SendSync(M, TRUE)
    BY <1>5 DEF Enter, EnterResync
  <2>2. ok \in BOOLEAN
    BY LinkAssumption DEF CanRelay
  <2>3. e \in Seq(Frame) /\ Said(e) \subseteq Said(L.buf)
    BY SaidNone
  <2> HIDE DEF ok, e, K
  <2>4. M \in Link
    BY <1>1, <2>2, <2>3 DEF Link
  <2>5. Hears(L, M)
    BY <1>1, <2>3, HearsPart
  <2> HIDE DEF M
  <2>6. Hears(L, K)
    BY <2>1, <2>4, <2>5, SendSyncHears, HearsTrans
  <2> QED BY <1>2, <1>3, <2>6
<1>6. ASSUME s = "SYNC_TENTATIVE"
     PROVE  Converses(L, K, rnd) /\ Minds(L, K)
  <2> DEFINE c == NewHeader("CONNECT", TRUE, rnd)
             M == [L EXCEPT !.cast = FALSE]
             R == Relay(M, <<c>>)
  <2>1. K = R \/ K = M
    BY <1>6 DEF Enter, EnterTentative
  <2>2. c \in Frame
    BY NewHeaderType DEF Codes
  <2>3. c.reply = FALSE /\ c.id = rnd
    BY DEF NewHeader
  <2> HIDE DEF c, K
  <2>4. M \in Link
    BY <1>1 DEF Link
  <2>5. Hears(L, M)
    BY <1>1, HearsFields
  <2> HIDE DEF M
  <2>6. Lawful(M) /\ rnd \notin Foreign(M)
    BY <1>4, <2>4, <2>5
  <2>7. Utters(M, c, rnd)
    BY <2>3 DEF Utters, Plain
  <2>8. R \in Link /\ Converses(M, R, rnd) /\ Minds(M, R)
    BY <2>2, <2>4, <2>6, <2>7, RelayConverses
  <2> HIDE DEF R
  <2>9. Converses(L, R, rnd) /\ Minds(L, R)
    BY <1>4, <2>4, <2>5, <2>8
  <2> QED BY <1>2, <2>1, <2>4, <2>5, <2>9
<1>7. ASSUME s = "LIVE"
     PROVE  Converses(L, K, rnd) /\ Minds(L, K)
  <2> DEFINE c == "WHO"
             b == L.opts.ident
             m == NewMessage(NewHeader(c, TRUE, rnd), b)
             M == [L EXCEPT !.syncIn = FALSE, !.syncRx = FALSE]
             R == SendMsg(M, m)
  <2>1. K = M \/ (CanSend(M, m) /\ K = R)
    BY <1>7 DEF Enter, EnterLive
  <2>2. M \in Link
    BY <1>1 DEF Link
  <2>3. Hears(L, M)
    BY <1>1, HearsFields
  <2>4. c \in Codes \ {"SYNC"} /\ b \in BOOLEAN
    BY <1>1 DEF Codes, Link, Options
  <2> HIDE DEF M, c, b, K
  <2>5. /\ Lawful(M) /\ M.st # "UNINIT" /\ rnd \notin Own(M) /\ rnd \notin Foreign(M)
    BY <1>4, <2>2, <2>3
  <2>6. CanSend(M, m) => R \in Link /\ Converses(M, R, rnd) /\ Minds(M, R)
    BY <2>2, <2>4, <2>5, QuestionSays
  <2> HIDE DEF R, m
  <2>7. CanSend(M, m) => Converses(L, R, rnd) /\ Minds(L, R)
    BY <1>4, <2>2, <2>3, <2>6
  <2> QED BY <1>2, <2>1, <2>2, <2>3, <2>7
<1>8. ASSUME s = "PENDING_HANGUP"
     PROVE  Converses(L, K, rnd) /\ Minds(L, K)
  <2> DEFINE c == "HANGUP"
             m == NewMessage(NewHeader(c, TRUE, rnd), FALSE)
             R == SendMsg(L, m)
  <2>1. K = L \/ (CanSend(L, m) /\ K = R)
    BY <1>8 DEF Enter, EnterHangup
  <2>2. c \in Codes \ {"SYNC"}
    BY DEF Codes
  <2> HIDE DEF c, K
  <2>3. CanSend(L, m) => Converses(L, R, rnd) /\ Minds(L, R)
    BY <1>1, <2>2, QuestionSays
  <2> QED BY <1>1, <1>2, <2>1, <2>3
<1>9. ASSUME s = "HUNGUP"
     PROVE  Converses(L, K, rnd) /\ Minds(L, K)
  <2> DEFINE M == [L EXCEPT !.hook = TRUE, !.est = FALSE]
  <2>1. K = M
    BY <1>9 DEF Enter, EnterHungup
  <2>2. Hears(L, M)
    BY <1>1, HearsFields
  <2> HIDE DEF K, M
  <2> QED BY <1>2, <1>3, <2>1, <2>2
<1>10. ASSUME s \in {"PENDING_AUTH", "UNINIT"}
     PROVE  Converses(L, K, rnd) /\ Minds(L, K)
  <2>1. K = L
    BY <1>10 DEF Enter
  <2> QED BY <1>1, <1>2, <2>1
<1> HIDE DEF K
<1>11. Converses(L, K, rnd) /\ Minds(L, K)
  BY <1>5, <1>6, <1>7, <1>8, <1>9, <1>10 DEF States
<1> QED BY <1>11 DEF K

\* Into the setup: what the link had to say is dropped, what the transport has
\* is not.
LEMMA SetupSays ==
  ASSUME NEW L \in Link, Lawful(L), NEW rnd, rnd \notin Foreign(L)
  PROVE  Converses(L, Advance([L EXCEPT !.wp = SetupRoute], rnd), rnd)
<1> DEFINE w == SetupRoute
           t == Tail(w)
           K == [L EXCEPT !.wp = w]
           N == NewLink(K.opts)
           Q == [N EXCEPT !.st = K.st, !.wp = K.wp, !.tx = K.tx, !.just = K.just]
           X == [Q EXCEPT !.st = "PENDING_SETUP", !.wp = t]
           M == Advance(K, rnd)
<1>1. w # <<>> /\ Head(w) = "PENDING_SETUP"
  BY SetupRouteIs
<1> HIDE DEF w, t
<1>2. K.wp = w /\ K.st = L.st /\ K.tx = L.tx /\ K.opts = L.opts
  BY DEF Link
<1>3. M = X \/ M = Q
  <2> HIDE DEF K
  <2>1. M = LET r == EnterSetup(K, rnd)
            IN  IF r.ok THEN [r.link EXCEPT !.st = "PENDING_SETUP", !.wp = t] ELSE r.link
    BY <1>1, <1>2 DEF Advance, Enter, t
  <2>2. EnterSetup(K, rnd).link = Q
    BY DEF EnterSetup, ResetClass
  <2> HIDE DEF Q
  <2> QED BY <2>1, <2>2
<1> HIDE DEF K, M
<1>4. /\ Q.opts = L.opts /\ Q.inb = <<>> /\ Q.buf = <<>> /\ Q.tx = L.tx /\ Q.out = <<>>
  BY <1>2 DEF NewLink
<1>5. /\ X.opts = L.opts /\ X.inb = <<>> /\ X.buf = <<>> /\ X.tx = L.tx /\ X.out = <<>>
  BY <1>4 DEF NewLink
<1> HIDE DEF X, Q
<1>6. M.opts = L.opts /\ M.inb = <<>> /\ M.buf = <<>> /\ M.tx = L.tx /\ M.out = <<>>
  BY <1>3, <1>4, <1>5
<1>7. Requeued(L, M.out, rnd)
  BY <1>6, RequeuedNone
<1>8. Said(M.buf) = {} /\ Said(M.inb) = {}
  BY <1>6, SaidNone
<1>9. Converses(L, M, rnd)
  BY <1>6, <1>7, <1>8, StepConverses
<1> QED BY <1>9 DEF M, K, w

\* _fsm_poll(): a new dialog at most; outside of the setup, what waits still does.
LEMMA FsmPollSays ==
  ASSUME NEW n \in Nat, NEW L, Sized(L, n), L.inb = <<>>, PlanFits(L), Lawful(L),
         NEW rnd \in Nat, rnd \notin Own(L), rnd \notin Foreign(L)
  PROVE  LET F == FsmPoll(L, rnd)
         IN  Converses(L, F, rnd) /\ (L.st \notin {"UNINIT", "HUNGUP"} => Minds(L, F))
<1>0. L \in Link
  BY DEF Sized
<1>1. Converses(L, L, rnd) /\ Minds(L, L)
  <2>1. Serves(L, L)
    BY <1>0, HearsFields, HearsServes
  <2> QED BY <2>1, ConversesAny DEF Serves
<1>2. CASE ~MayLeave(L)
  BY <1>1, <1>2 DEF FsmPoll
<1>3. CASE MayLeave(L) /\ L.st \in {"UNINIT", "HUNGUP"}
  <2>1. FsmPoll(L, rnd) = Advance([L EXCEPT !.wp = SetupRoute], rnd)
    BY <1>3 DEF FsmPoll
  <2> QED BY <1>0, <1>3, <2>1, SetupSays
<1>4. CASE MayLeave(L) /\ L.st \notin {"UNINIT", "HUNGUP"}
  <2>0. FsmPoll(L, rnd) = Advance(L, rnd)
    BY <1>4 DEF FsmPoll
  <2>1. CASE L.wp = <<>>
    BY <1>1, <2>0, <2>1 DEF Advance
  <2>2. CASE L.wp # <<>>
    <3> DEFINE s == Head(L.wp)
               w == Tail(L.wp)
               r == Enter(L, s, rnd)
               K == r.link
               M == [K EXCEPT !.st = s, !.wp = w]
    <3>1. L.wp \in Seq(States)
      BY <1>0, FieldTypes
    <3>2. s \in States /\ 1 \in 1..Len(L.wp) /\ s = L.wp[1]
      BY <2>2, <3>1
    <3>3. s # "PENDING_SETUP"
      BY <1>4, <3>2 DEF PlanFits
    <3>4. FsmPoll(L, rnd) = IF r.ok THEN M ELSE K
      BY <2>0, <2>2 DEF Advance
    <3> HIDE DEF s, w
    <3>5. EnteredOK(L, s, r, n)
      BY <3>2, EnterOK
    <3>6. Converses(L, K, rnd) /\ Minds(L, K)
      BY <1>4, <3>2, <3>3, EnterSays
    <3> HIDE DEF r
    <3>7. K \in Link /\ (s = "UNINIT" => ~r.ok)
      BY <3>5 DEF EnteredOK, Sized
    <3> HIDE DEF K
    <3>8. /\ M.st = s /\ M.opts = K.opts /\ M.out = K.out /\ M.tx = K.tx /\ M.buf = K.buf
          /\ M.inb = K.inb /\ M.unackd = K.unackd
      BY <3>7 DEF Link
    <3> HIDE DEF M
    <3>9. r.ok => Converses(L, M, rnd)
      BY <3>6, <3>7, <3>8, ConversesSame
    <3>10. Minds(L, M)
      BY <3>6, <3>8 DEF Minds
    <3> QED BY <3>4, <3>6, <3>9, <3>10
  <2> QED BY <2>1, <2>2
<1> QED BY <1>2, <1>3, <1>4

\* poll() as a whole: the answer at the head of the buffer, which it takes from
\* there, releases what it answers.
PollKeeps(L, R, x) ==
  /\ Converses(L, R, x)
  /\ L.st \notin {"UNINIT", "HUNGUP"} => Minds(L, R)
  /\ L.st \in Behind /\ L.buf # <<>> /\ Head(L.buf).reply => Head(L.buf).id \notin Awaited(R.out)

LEMMA PollSays ==
  ASSUME NEW L, LinkOK(L), PlanFits(L), Lawful(L),
         NEW kaDue \in BOOLEAN, NEW timedOut \in BOOLEAN,
         NEW answers \in SUBSET {"drop", "ack"}, NEW draws \in SUBSET Nat,
         draws \cap (Own(L) \cup Foreign(L)) = {},
         NEW R \in Poll(L, kaDue, timedOut, answers, draws)
  PROVE  \E rnd \in draws : PollKeeps(L, R, rnd)
<1>1. PICK M \in {L} \cup {Service(L, app, kaDue, timedOut) : app \in answers}, rnd \in draws :
        /\ R = [FsmPoll(M, rnd) EXCEPT !.just = FALSE]
        /\ L.st \notin {"PENDING_SETUP", "HUNGUP"} =>
             \E app \in answers : M = Service(L, app, kaDue, timedOut)
  BY PollParts
<1>2. Sized(L, BufCap) /\ L.inb = <<>> /\ BufCap \in Nat /\ L \in Link
  BY BufCapNat DEF LinkOK, Sized
<1>3. ASSUME NEW app \in answers, M = Service(L, app, kaDue, timedOut)
      PROVE  /\ Sized(M, BufCap) /\ M.inb = <<>> /\ PlanFits(M) /\ M.st = L.st
             /\ Serves(L, M)
             /\ L.st \in Behind /\ L.buf # <<>> /\ Head(L.buf).reply
                  => Head(L.buf).id \notin Asked(M.out)
  <2>1. app \in Answers /\ app \in {"drop", "ack"}
    BY DEF Answers
  <2>2. Sized(M, BufCap) /\ M.inb = <<>> /\ PlanFits(M) /\ M.st = L.st
    BY <1>2, <1>3, <2>1, ServiceOK DEF Service
  <2>3. /\ Serves(L, M)
        /\ L.st \in Behind /\ L.buf # <<>> /\ Head(L.buf).reply
             => Head(L.buf).id \notin Asked(M.out)
    BY <1>2, <1>3, <2>1, ServiceServes
  <2> QED BY <2>2, <2>3
<1>4. Serves(L, L)
  BY <1>2, HearsFields, HearsServes
<1>5. /\ Sized(M, BufCap) /\ M.inb = <<>> /\ PlanFits(M) /\ M.st = L.st /\ Serves(L, M)
      /\ L.st \in Behind /\ L.buf # <<>> /\ Head(L.buf).reply
           => Head(L.buf).id \notin Asked(M.out)
  <2>1. CASE \E app \in answers : M = Service(L, app, kaDue, timedOut)
    BY <1>3, <2>1
  <2>2. CASE M = L /\ L.st \in {"PENDING_SETUP", "HUNGUP"}
    BY <1>2, <1>4, <2>2 DEF Behind
  <2> QED BY <1>1, <2>1, <2>2
<1>6. M \in Link /\ Lawful(M) /\ Converses(L, M, NoId) /\ Minds(L, M) /\ Heard(M) \subseteq Heard(L)
  BY <1>5 DEF Serves, Converses
<1>7. rnd \notin Own(M) /\ rnd \notin Foreign(M) /\ rnd \in Nat
  <2>1. rnd \notin Own(L) /\ rnd \notin Foreign(L)
    OBVIOUS
  <2> QED BY <1>6, <2>1, ConversesAny
<1> DEFINE F == FsmPoll(M, rnd)
<1>8. /\ F \in Link /\ Converses(M, F, rnd)
      /\ M.st \notin {"UNINIT", "HUNGUP"} => Minds(M, F)
  BY <1>2, <1>5, <1>6, <1>7, FsmPollSays, FsmPollOK DEF Sized
<1>9. R = [F EXCEPT !.just = FALSE]
  BY <1>1
<1> HIDE DEF F
<1>10. /\ R.opts = F.opts /\ R.st = F.st /\ R.out = F.out /\ R.tx = F.tx
       /\ R.buf = F.buf /\ R.inb = F.inb /\ R.unackd = F.unackd
  BY <1>8, <1>9 DEF Link
<1>11. Converses(L, R, rnd)
  BY <1>6, <1>8, <1>10, ConversesTrans, ConversesSame
<1>12. L.st \notin {"UNINIT", "HUNGUP"} => Minds(L, R)
  <2>1. M.st \notin {"UNINIT", "HUNGUP"} => Minds(L, F)
    BY <1>2, <1>6, <1>8, MindsTrans
  <2> QED BY <1>5, <1>10, <2>1 DEF Minds
<1>13. L.st \in Behind /\ L.buf # <<>> /\ Head(L.buf).reply => Head(L.buf).id \notin Awaited(R.out)
  <2>1. Awaited(R.out) \subseteq Asked(M.out)
    BY <1>8, <1>10 DEF Converses
  <2> QED BY <1>5, <2>1
<1> QED BY <1>11, <1>12, <1>13 DEF PollKeeps

-----------------------------------------------------------------------------
\* The dialogs of the two ends

\* Applications that do not answer with questions, at ends that have no Identity
\* and are given none.
Simple == /\ AppAnswers \subseteq {"drop", "ack"}
          /\ \A e \in Ends : ~Opts[e].ident
          /\ Limit["identity"] = 0

\* What one end asks the other answers, and no dialog is of both.
Apart(L, P) == (Own(L) \cup Foreign(P)) \cap (Own(P) \cup Foreign(L)) = {}

DialogInv == \A e \in Ends : Lawful(link[e]) /\ Apart(link[e], link[Peer(e)])

\* What a step does for a link: what waits still does, but for cause, and the
\* answer at the head of the buffer is left there or releases its question.
Given(L, M) ==
  /\ Minds(L, M) \/ Awaited(L.out) = {} \/ L.st = "HUNGUP" \/ used'["kill"] > used["kill"]
  /\ L.st \in Behind /\ L.buf # <<>> /\ Head(L.buf).reply =>
       Len(L.buf) <= Len(M.buf) \/ Head(L.buf).id \notin Awaited(M.out)

\* A link as it is.
LEMMA MindsSame ==
  ASSUME NEW L \in Link
  PROVE  Minds(L, L)
BY StepMinds

LEMMA GivenSame ==
  ASSUME NEW L \in Link, NEW M, Minds(L, M), M.buf = L.buf
  PROVE  Given(L, M)
<1>1. L.buf \in Seq(Frame)
  BY FieldTypes
<1>2. Len(L.buf) <= Len(M.buf)
  <2>1. Len(L.buf) \in Nat
    BY <1>1
  <2> QED BY <2>1
<1> QED BY <1>2 DEF Given

\* A number that is drawn is none of a dialog under way.
LEMMA DrawsFresh ==
  ASSUME IndInv, NEW n \in Draws, NEW e \in Ends
  PROVE  n \notin Own(link[e]) /\ n \notin Foreign(link[e])
<1>1. n = NoId \/ n \notin IdsInUse
  BY SessionAssumption DEF Draws, NoId
<1>2. \A s : Asked(s) \cup Answered(s) \subseteq IdsOf(s)
  BY DEF Asked, Answered, Said, IdsOf
<1>3. IdsOf(link[e].out) \cup IdsOf(link[e].buf) \cup IdsOf(link[e].tx) \subseteq IdsInUse
  BY DEF IdsInUse
<1>4. link[e].inb = <<>>
  BY IndInvLinks DEF LinkOK
<1>5. Asked(link[e].inb) = {} /\ Answered(link[e].inb) = {}
  BY <1>4, SaidNone DEF Asked, Answered
<1>6. Own(link[e]) \cup Foreign(link[e]) \subseteq IdsInUse
  BY <1>2, <1>3, <1>5 DEF Own, Foreign
<1> QED BY <1>1, <1>6, NoDialog

\* A step of one link within its dialogs keeps them apart.
LEMMA DialogEnd ==
  ASSUME IndInv, DialogInv, NEW e \in Ends, NEW M, NEW x,
         x \in Draws \cup {NoId}, Converses(link[e], M, x), link' = [link EXCEPT ![e] = M]
  PROVE  DialogInv'
<1> DEFINE p == Peer(e)
<1>1. p \in Ends /\ p # e /\ Peer(p) = e /\ \A y \in Ends : y = e \/ y = p
  BY PeerPeer
<1>2. link'[e] = M /\ link'[p] = link[p]
  BY <1>1, IndInvLinks
<1>3. Lawful(link[p]) /\ Apart(link[e], link[p])
  BY <1>1 DEF DialogInv
<1>4. Peer(e) = p
  OBVIOUS
<1> HIDE DEF p
<1>5. x \notin Own(link[p]) /\ x \notin Foreign(link[e])
  BY <1>1, DrawsFresh, NoDialog
<1>6. x \notin Foreign(link[p])
  BY <1>1, DrawsFresh, NoDialog
<1>7. /\ Lawful(M) /\ Own(M) \subseteq Own(link[e]) \cup {x}
      /\ Foreign(M) \subseteq Foreign(link[e])
  BY DEF Converses
<1>8. Apart(M, link[p])
  BY <1>3, <1>5, <1>7 DEF Apart
<1>9. Apart(link[p], M)
  BY <1>8 DEF Apart
<1>10. ASSUME NEW y \in Ends PROVE Lawful(link'[y]) /\ Apart(link'[y], link'[Peer(y)])
  BY <1>1, <1>2, <1>3, <1>4, <1>7, <1>8, <1>9
<1> QED BY <1>10 DEF DialogInv

\* The other link is as it was.
LEMMA GivenEnd ==
  ASSUME IndInv, NEW e \in Ends, NEW M, Given(link[e], M), link' = [link EXCEPT ![e] = M],
         NEW x \in Ends
  PROVE  Given(link[x], link'[x])
<1>1. link \in [Ends -> Link] /\ link[x] \in Link
  BY IndInvLinks
<1>2. CASE x = e
  BY <1>1, <1>2
<1>3. CASE x # e
  BY <1>1, <1>3, MindsSame, GivenSame
<1> QED BY <1>2, <1>3

\* Every step keeps the dialogs apart, and does for both links what it should.
DialogStep == DialogInv' /\ \A e \in Ends : Given(link[e], link'[e])

\* A poll.
LEMMA DialogPoll ==
  ASSUME Simple, IndInv, DialogInv, NEW e \in Ends, PollEnd(e)
  PROVE  DialogStep
<1>1. PICK kaDue \in BOOLEAN, timedOut \in BOOLEAN : PollWith(e, kaDue, timedOut)
  BY DEF PollEnd
<1>2. PICK R \in Poll(link[e], kaDue, timedOut, AppAnswers, Draws) :
        link' = [link EXCEPT ![e] = R]
  BY <1>1 DEF PollWith, Polled
<1>3. AppAnswers \in SUBSET {"drop", "ack"} /\ Draws \in SUBSET Nat
  BY DrawsNat DEF Simple
<1>4. Draws \cap (Own(link[e]) \cup Foreign(link[e])) = {}
  BY DrawsFresh
<1>5. LinkOK(link[e]) /\ PlanFits(link[e]) /\ Lawful(link[e]) /\ link[e] \in Link
  BY IndInvLinks DEF DialogInv
<1>6. PICK x \in Draws : PollKeeps(link[e], R, x)
  BY <1>2, <1>3, <1>4, <1>5, PollSays
<1>7. DialogInv'
  BY <1>2, <1>6, DialogEnd DEF PollKeeps
<1>8. link[e].st = "UNINIT" => Awaited(link[e].out) = {}
  BY <1>5 DEF Lawful, Awaited
<1>9. Given(link[e], R)
  BY <1>6, <1>8 DEF PollKeeps, Given
<1> QED BY <1>2, <1>7, <1>9, GivenEnd DEF DialogStep

\* What a buffer has in it after a frame came in.
LEMMA SaidAppend ==
  ASSUME NEW S, NEW s \in Seq(S), NEW f \in S
  PROVE  Append(s, f) \in Seq(S) /\ Said(Append(s, f)) = Said(s) \cup {f}
<1> DEFINE t == <<f>>
<1>1. t \in Seq(S) /\ Said(t) = {f}
  BY SaidOne
<1>2. Append(s, f) = s \o t
  OBVIOUS
<1> HIDE DEF t
<1> QED BY <1>1, <1>2, SaidConcat

\* A delivery: a question of the one is now one that the other was asked, an
\* answer of the one is now one that the other heard.
LEMMA DialogDeliver ==
  ASSUME IndInv, DialogInv, NEW e \in Ends, Deliver(e)
  PROVE  DialogStep
<1> DEFINE p == Peer(e)
           t == Tail(link[e].tx)
           f == Head(link[e].tx)
           b == Append(link[p].buf, f)
           S == [link[e] EXCEPT !.tx = t]
           X == [link[p] EXCEPT !.buf = b]
           R == PushBuffer(link[p], f)
<1>1. p \in Ends /\ p # e /\ Peer(p) = e /\ \A x \in Ends : x = e \/ x = p
  BY PeerPeer
<1>2. link \in [Ends -> Link] /\ link[e] \in Link /\ link[p] \in Link
  BY <1>1, IndInvLinks
<1>3. link[e].tx \in Seq(Frame) /\ link[e].tx # <<>> /\ link[p].buf \in Seq(Frame)
  BY <1>2, FieldTypes DEF Deliver
<1>4. f \in Frame /\ Said(link[e].tx) = {f} \cup Said(t)
  BY <1>3, SaidTail
<1>5. link'[e] = S /\ link'[p] = R
  BY <1>1, <1>2 DEF Deliver
<1>6. Lawful(link[e]) /\ Lawful(link[p]) /\ Apart(link[e], link[p])
  BY <1>1 DEF DialogInv
<1>7. Peer(e) = p
  OBVIOUS
<1>8. R = X \/ R = link[p]
  BY DEF PushBuffer
<1> HIDE DEF t, f, p, R
<1>9. Said(b) = Said(link[p].buf) \cup {f} /\ Len(b) = Len(link[p].buf) + 1
  BY <1>3, <1>4, SaidAppend
<1> HIDE DEF b
<1>10. /\ S.st = link[e].st /\ S.opts = link[e].opts /\ S.out = link[e].out /\ S.tx = t
       /\ S.buf = link[e].buf /\ S.inb = link[e].inb /\ S.unackd = link[e].unackd
  BY <1>2 DEF Link
<1>11. /\ X.st = link[p].st /\ X.opts = link[p].opts /\ X.out = link[p].out
       /\ X.tx = link[p].tx /\ X.buf = b /\ X.inb = link[p].inb /\ X.unackd = link[p].unackd
  BY <1>2 DEF Link
<1> HIDE DEF S, X
<1>12. /\ Said(link[p].buf) \subseteq Said(R.buf)
       /\ Said(R.buf) \subseteq Said(link[p].buf) \cup {f}
       /\ Len(link[p].buf) <= Len(R.buf)
       /\ R.st = link[p].st /\ R.opts = link[p].opts /\ R.out = link[p].out
       /\ R.tx = link[p].tx /\ R.inb = link[p].inb /\ R.unackd = link[p].unackd
  <2>1. Len(link[p].buf) \in Nat
    BY <1>3
  <2> QED BY <1>8, <1>9, <1>11, <2>1
<1>13. Own(S) \subseteq Own(link[e]) /\ Foreign(S) \subseteq Foreign(link[e])
  BY <1>4, <1>10 DEF Own, Foreign, Asked, Answered
<1>14. /\ Asked(R.buf) \subseteq Asked(link[p].buf) \cup Asked(link[e].tx)
       /\ Answered(R.buf) \subseteq Answered(link[p].buf) \cup Answered(link[e].tx)
  BY <1>4, <1>12 DEF Asked, Answered
<1>15. /\ Own(R) \subseteq Own(link[p]) \cup Foreign(link[e])
       /\ Foreign(R) \subseteq Foreign(link[p]) \cup Own(link[e])
  BY <1>12, <1>14 DEF Own, Foreign
<1>16. Lawful(S)
  <2>1. \A g \in Said(S.tx) \cup Said(S.buf) \cup Said(S.inb) : Plain(g)
    BY <1>4, <1>6, <1>10 DEF Lawful
  <2>2. Own(S) \cap Foreign(S) = {}
    BY <1>6, <1>13 DEF Lawful
  <2> QED BY <1>6, <1>10, <2>1, <2>2 DEF Lawful
<1>17. Lawful(R)
  <2>1. Plain(f)
    BY <1>4, <1>6 DEF Lawful
  <2>2. \A g \in Said(R.tx) \cup Said(R.buf) \cup Said(R.inb) : Plain(g)
    BY <1>6, <1>12, <2>1 DEF Lawful
  <2>3. Own(R) \cap Foreign(R) = {}
    BY <1>6, <1>15 DEF Apart
  <2> QED BY <1>6, <1>12, <2>2, <2>3 DEF Lawful
<1>18. Apart(S, R) /\ Apart(R, S)
  BY <1>6, <1>13, <1>15 DEF Apart
<1>19. DialogInv'
  <2>1. ASSUME NEW y \in Ends PROVE Lawful(link'[y]) /\ Apart(link'[y], link'[Peer(y)])
    BY <1>1, <1>5, <1>7, <1>16, <1>17, <1>18
  <2> QED BY <2>1 DEF DialogInv
<1>20. Given(link[e], S)
  <2>1. Minds(link[e], S)
    BY <1>2, <1>10, StepMinds
  <2> QED BY <1>2, <1>10, <2>1, GivenSame
<1>21. Given(link[p], R)
  <2>1. Minds(link[p], R)
    BY <1>2, <1>12, StepMinds
  <2> QED BY <1>12, <2>1 DEF Given
<1> QED BY <1>1, <1>5, <1>19, <1>20, <1>21 DEF DialogStep

\* A frame that is lost or garbled belongs to no dialog any more.
LEMMA DialogLoss ==
  ASSUME IndInv, DialogInv, NEW e \in Ends, Lose(e) \/ Garble(e)
  PROVE  DialogStep
<1> DEFINE t == Tail(link[e].tx)
<1>1. link \in [Ends -> Link] /\ link[e] \in Link /\ link[e].tx \in Seq(Frame)
  BY IndInvLinks, FieldTypes
<1>2. link[e].tx # <<>>
  BY DEF Lose, Garble
<1>3. t \in Seq(Frame) /\ Said(t) \subseteq Said(link[e].tx)
  BY <1>1, <1>2, SaidTail
<1>4. \E u \in Seq(Frame) : /\ Said(u) \subseteq Said(link[e].tx) \cup {Junk, Bad}
                            /\ link' = [link EXCEPT ![e] = [link[e] EXCEPT !.tx = u]]
  <2>1. CASE Lose(e)
    <3>1. link' = [link EXCEPT ![e] = [link[e] EXCEPT !.tx = t]]
      BY <1>1, <2>1 DEF Lose
    <3>2. t \in Seq(Frame) /\ Said(t) \subseteq Said(link[e].tx) \cup {Junk, Bad}
      BY <1>3
    <3> HIDE DEF t
    <3> QED BY <3>1, <3>2
  <2>2. CASE Garble(e)
    <3>1. PICK f \in {Junk, Bad} : link' = [link EXCEPT ![e].tx = <<f>> \o Tail(@)]
      BY <2>2 DEF Garble
    <3> DEFINE o == <<f>>
               g == o \o t
    <3>2. link' = [link EXCEPT ![e] = [link[e] EXCEPT !.tx = g]]
      BY <1>1, <3>1
    <3>3. f \in Frame
      <4>1. Junk \in Frame
        BY DEF Junk, Frame, Codes, NoId
      <4>2. Bad \in Frame
        BY DEF Bad, Frame, Codes, NoId
      <4> QED BY <4>1, <4>2
    <3>4. o \in Seq(Frame) /\ Said(o) = {f}
      BY <3>3, SaidOne
    <3> HIDE DEF t, o
    <3>5. g \in Seq(Frame) /\ Said(g) = Said(o) \cup Said(t)
      BY <1>3, <3>4, SaidConcat
    <3>6. Said(g) \subseteq Said(link[e].tx) \cup {Junk, Bad}
      BY <1>3, <3>4, <3>5
    <3> HIDE DEF g
    <3> QED BY <3>2, <3>5, <3>6
  <2> QED BY <2>1, <2>2
<1>5. PICK u \in Seq(Frame) : /\ Said(u) \subseteq Said(link[e].tx) \cup {Junk, Bad}
                              /\ link' = [link EXCEPT ![e] = [link[e] EXCEPT !.tx = u]]
  BY <1>4
<1> DEFINE M == [link[e] EXCEPT !.tx = u]
<1>6. /\ M.st = link[e].st /\ M.opts = link[e].opts /\ M.out = link[e].out /\ M.tx = u
      /\ M.buf = link[e].buf /\ M.inb = link[e].inb /\ M.unackd = link[e].unackd
  BY <1>1 DEF Link
<1>7. link' = [link EXCEPT ![e] = M]
  BY <1>5
<1> HIDE DEF M
<1>8. Lawful(link[e])
  BY DEF DialogInv
<1>9. \A f \in {Junk, Bad} : Utters(link[e], f, NoId)
  BY DEF Junk, Bad, Utters, Plain
<1>10. Requeued(link[e], M.out, NoId)
  BY <1>6, <1>8, RequeuedSame
<1>11. M.st = "UNINIT" => M.out = <<>>
  BY <1>6, <1>8 DEF Lawful
<1>12. \A f \in Said(M.tx) : f \in Said(link[e].tx) \/ Utters(link[e], f, NoId)
  BY <1>5, <1>6, <1>9
<1>13. NoId \notin Foreign(link[e])
  BY NoDialog
<1>14. Converses(link[e], M, NoId)
  BY <1>6, <1>8, <1>10, <1>11, <1>12, <1>13, StepConverses
<1>15. Minds(link[e], M)
  <2>1. Awaited(M.out) = Awaited(link[e].out)
    BY <1>6
  <2> QED BY <1>1, <1>6, <2>1, StepMinds
<1>16. Given(link[e], M)
  BY <1>1, <1>6, <1>15, GivenSame
<1> QED BY <1>7, <1>14, <1>16, DialogEnd, GivenEnd DEF DialogStep

\* send() and writeRemoteLog(): a message may begin a dialog.
LEMMA SendSays ==
  ASSUME NEW L, LinkOK(L), PlanFits(L), Lawful(L), NEW a \in BOOLEAN, NEW b \in BOOLEAN,
         NEW rnd \in Nat, rnd \notin Own(L), rnd \notin Foreign(L),
         NEW M \in {Send(L, a, b, rnd), WriteRemoteLog(L, a, rnd)}
  PROVE  Converses(L, M, rnd) /\ Minds(L, M) /\ M.buf = L.buf
<1>1. L \in Link /\ (L.est => L.st # "UNINIT") /\ L.inb = <<>>
  BY DEF LinkOK, Sized, PlanFits
<1>2. Converses(L, L, rnd) /\ Minds(L, L)
  <2>1. Serves(L, L)
    BY <1>1, HearsFields, HearsServes
  <2> QED BY <2>1, ConversesAny DEF Serves
<1> DEFINE m == NewMessage(NewHeader("APPLICATION", a, rnd), b)
           k == NewMessage(NewHeader("LOG", a, rnd), TRUE)
<1>3. "APPLICATION" \in Codes \ {"SYNC"} /\ "LOG" \in Codes \ {"SYNC"}
  BY DEF Codes
<1>4. L.st # "UNINIT" /\ CanSend(L, m) =>
        Converses(L, SendMsg(L, m), rnd) /\ Minds(L, SendMsg(L, m))
  BY <1>1, <1>3, QuestionSays
<1>5. L.st # "UNINIT" /\ CanSend(L, k) =>
        Converses(L, SendMsg(L, k), rnd) /\ Minds(L, SendMsg(L, k))
  BY <1>1, <1>3, QuestionSays
<1>6. \A x : SendMsg(L, x).buf = L.buf
  BY <1>1 DEF SendMsg, Link
<1>7. Send(L, a, b, rnd) = IF MaySend(L) /\ CanSend(L, m) THEN SendMsg(L, m) ELSE L
  BY DEF Send
<1>8. WriteRemoteLog(L, a, rnd) = IF L.est /\ CanSend(L, k) THEN SendMsg(L, k) ELSE L
  BY DEF WriteRemoteLog
<1>9. MaySend(L) => L.st # "UNINIT"
  BY DEF MaySend
<1> HIDE DEF m, k
<1> QED BY <1>1, <1>2, <1>4, <1>5, <1>6, <1>7, <1>8, <1>9

\* The other calls of the application begin none, and only hangup(false) drops
\* what is queued.
LEMMA CallSays ==
  ASSUME NEW L, LinkOK(L), PlanFits(L), Lawful(L)
  PROVE  /\ LET M == Hangup(L, TRUE)
            IN  Converses(L, M, NoId) /\ Minds(L, M) /\ M.buf = L.buf
         /\ LET M == Reset(L)
            IN  Converses(L, M, NoId) /\ Minds(L, M) /\ M.buf = L.buf
         /\ LET M == Hangup(L, FALSE) IN Converses(L, M, NoId) /\ M.buf = L.buf
<1>1. L \in Link /\ L.inb = <<>>
  BY DEF LinkOK, Sized
<1>2. Converses(L, L, NoId) /\ Minds(L, L)
  <2>1. Serves(L, L)
    BY <1>1, HearsFields, HearsServes
  <2> QED BY <2>1 DEF Serves
<1>3. ASSUME NEW M \in Link, Hears(L, M), M.buf = L.buf
      PROVE  Converses(L, M, NoId) /\ Minds(L, M) /\ M.buf = L.buf
  BY <1>1, <1>3, HearsServes DEF Serves
<1>4. LET M == Hangup(L, TRUE) IN Converses(L, M, NoId) /\ Minds(L, M) /\ M.buf = L.buf
  <2> DEFINE w == AppendRoute(L.wp, <<"PENDING_HANGUP", "HUNGUP">>)
             M == [L EXCEPT !.wp = w]
  <2>1. Hangup(L, TRUE) = M \/ Hangup(L, TRUE) = L
    BY DEF Hangup
  <2>2. StepOK(L, Hangup(L, TRUE))
    BY HangupOK
  <2>3. Hangup(L, TRUE) \in Link
    BY <2>2 DEF StepOK, LinkOK, Sized
  <2> HIDE DEF w
  <2>4. Hears(L, M) /\ M.buf = L.buf
    BY <1>1, HearsFields DEF Link
  <2> HIDE DEF M
  <2> QED BY <1>2, <1>3, <2>1, <2>3, <2>4
<1>5. LET M == Reset(L) IN Converses(L, M, NoId) /\ Minds(L, M) /\ M.buf = L.buf
  <2> DEFINE M == [L EXCEPT !.hook = FALSE]
  <2>1. Reset(L) = M \/ Reset(L) = L
    BY DEF Reset
  <2>2. M \in Link /\ Hears(L, M) /\ M.buf = L.buf
    BY <1>1 DEF Link, Hears
  <2> HIDE DEF M
  <2> QED BY <1>2, <1>3, <2>1, <2>2
<1>6. LET M == Hangup(L, FALSE) IN Converses(L, M, NoId) /\ M.buf = L.buf
  <2> DEFINE w == SetRoute(<<"HUNGUP">>)
             e == <<>>
             M == [L EXCEPT !.inb = e, !.out = e, !.wp = w]
  <2>1. Hangup(L, FALSE) = M \/ Hangup(L, FALSE) = L
    BY DEF Hangup
  <2> HIDE DEF w
  <2>2. /\ M.st = L.st /\ M.opts = L.opts /\ M.out = e /\ M.tx = L.tx
        /\ M.buf = L.buf /\ M.inb = e
    BY <1>1 DEF Link
  <2> HIDE DEF M
  <2>3. Requeued(L, M.out, NoId) /\ NoId \notin Foreign(L)
    BY <2>2, RequeuedNone, NoDialog
  <2>4. Converses(L, M, NoId)
    BY <1>1, <2>2, <2>3, StepConverses
  <2> QED BY <1>2, <2>1, <2>2, <2>4
<1> QED BY <1>4, <1>5, <1>6

\* Nor does an option, but for the Identity.
LEMMA SetSays ==
  ASSUME NEW L \in Link, Lawful(L), NEW x \in BOOLEAN,
         NEW M \in {RequireAuth(L, x), SyncCast(L, x)}
  PROVE  Converses(L, M, NoId) /\ Minds(L, M) /\ M.buf = L.buf
<1>1. /\ M.opts.ident = L.opts.ident /\ M.out = L.out /\ M.tx = L.tx /\ M.buf = L.buf
      /\ M.inb = L.inb /\ M.st = L.st /\ M.unackd = L.unackd
  <2>1. CASE M = RequireAuth(L, x)
    BY <2>1 DEF RequireAuth, Link, Options
  <2>2. CASE M = SyncCast(L, x)
    BY <2>2 DEF SyncCast, Link
  <2> QED BY <2>1, <2>2
<1>2. Converses(L, L, NoId)
  BY HearsFields, HearsServes DEF Serves
<1>3. Converses(L, M, NoId)
  BY <1>1, <1>2, ConversesSame
<1>4. Minds(L, M)
  BY <1>1, StepMinds
<1> QED BY <1>1, <1>3, <1>4

\* What the application calls.
LEMMA DialogApp ==
  ASSUME Simple, IndInv, DialogInv, NEW e \in Ends,
         AppSend(e) \/ AppLog(e) \/ AppHangup(e) \/ AppKill(e) \/ AppReset(e)
         \/ AppSet(e) \/ AppIdentity(e)
  PROVE  DialogStep
<1> DEFINE L == link[e]
<1>1. /\ link \in [Ends -> Link] /\ LinkOK(L) /\ PlanFits(L) /\ Lawful(L) /\ L \in Link
      /\ L.buf \in Seq(Frame)
  BY IndInvLinks, FieldTypes DEF DialogInv
<1>2. \A n \in Draws : n \in Nat /\ n \notin Own(L) /\ n \notin Foreign(L)
  BY DrawsNat, DrawsFresh
<1> HIDE DEF L
<1>3. L = link[e]
  BY DEF L
<1>4. ASSUME NEW M, NEW x \in Draws \cup {NoId}, Converses(L, M, x), M.buf = L.buf,
             Minds(L, M) \/ used'["kill"] > used["kill"], link' = [link EXCEPT ![e] = M]
      PROVE  DialogStep
  <2>1. DialogInv'
    BY <1>3, <1>4, DialogEnd
  <2>2. Len(L.buf) <= Len(M.buf)
    <3>1. Len(L.buf) \in Nat
      BY <1>1
    <3> QED BY <1>4, <3>1
  <2>3. Given(L, M)
    BY <1>4, <2>2 DEF Given
  <2> QED BY <1>3, <1>4, <2>1, <2>3, GivenEnd DEF DialogStep
<1>5. CASE AppSend(e)
  <2>1. PICK a \in BOOLEAN, b \in BOOLEAN, rnd \in Draws :
          link' = [link EXCEPT ![e] = Send(link[e], a, b, rnd)]
    BY <1>5 DEF AppSend
  <2>2. PICK M : M = Send(L, a, b, rnd)
    OBVIOUS
  <2>3. rnd \in Nat /\ rnd \notin Own(L) /\ rnd \notin Foreign(L)
    BY <1>2
  <2>4. Converses(L, M, rnd) /\ Minds(L, M) /\ M.buf = L.buf
    BY <1>1, <2>2, <2>3, SendSays
  <2>5. link' = [link EXCEPT ![e] = M]
    BY <1>3, <2>1, <2>2
  <2> QED BY <1>4, <2>4, <2>5
<1>6. CASE AppLog(e)
  <2>1. PICK a \in BOOLEAN, rnd \in Draws :
          link' = [link EXCEPT ![e] = WriteRemoteLog(link[e], a, rnd)]
    BY <1>6 DEF AppLog
  <2>2. PICK M : M = WriteRemoteLog(L, a, rnd)
    OBVIOUS
  <2>3. rnd \in Nat /\ rnd \notin Own(L) /\ rnd \notin Foreign(L)
    BY <1>2
  <2>4. Converses(L, M, rnd) /\ Minds(L, M) /\ M.buf = L.buf
    BY <1>1, <2>2, <2>3, SendSays
  <2>5. link' = [link EXCEPT ![e] = M]
    BY <1>3, <2>1, <2>2
  <2> QED BY <1>4, <2>4, <2>5
<1>7. CASE AppHangup(e)
  <2> DEFINE M == Hangup(L, TRUE)
  <2>1. Converses(L, M, NoId) /\ Minds(L, M) /\ M.buf = L.buf
    BY <1>1, CallSays
  <2>2. link' = [link EXCEPT ![e] = M]
    BY <1>3, <1>7 DEF AppHangup
  <2> HIDE DEF M
  <2> QED BY <1>4, <2>1, <2>2
<1>8. CASE AppKill(e)
  <2> DEFINE M == Hangup(L, FALSE)
  <2>1. Converses(L, M, NoId) /\ M.buf = L.buf
    BY <1>1, CallSays
  <2>2. link' = [link EXCEPT ![e] = M]
    BY <1>3, <1>8 DEF AppKill
  <2>3. used'["kill"] > used["kill"]
    BY <1>8 DEF AppKill, Spend, IndInv, TypeOK, Events
  <2> HIDE DEF M
  <2> QED BY <1>4, <2>1, <2>2, <2>3
<1>9. CASE AppReset(e)
  <2> DEFINE M == Reset(L)
  <2>1. Converses(L, M, NoId) /\ Minds(L, M) /\ M.buf = L.buf
    BY <1>1, CallSays
  <2>2. link' = [link EXCEPT ![e] = M]
    BY <1>3, <1>9 DEF AppReset
  <2> HIDE DEF M
  <2> QED BY <1>4, <2>1, <2>2
<1>10. CASE AppSet(e)
  <2>1. PICK x \in BOOLEAN : \/ link' = [link EXCEPT ![e] = RequireAuth(L, x)]
                            \/ link' = [link EXCEPT ![e] = SyncCast(L, x)]
    BY <1>3, <1>10 DEF AppSet
  <2>2. PICK M \in {RequireAuth(L, x), SyncCast(L, x)} : link' = [link EXCEPT ![e] = M]
    BY <2>1
  <2>3. Converses(L, M, NoId) /\ Minds(L, M) /\ M.buf = L.buf
    BY <1>1, SetSays
  <2> QED BY <1>4, <2>2, <2>3
<1>11. ~AppIdentity(e)
  BY DEF AppIdentity, Spend, Simple, IndInv, TypeOK, Events
<1> QED BY <1>5, <1>6, <1>7, <1>8, <1>9, <1>10, <1>11

\* Every step.
LEMMA DialogNext ==
  ASSUME Simple, IndInv, DialogInv, [Next]_vars
  PROVE  DialogStep
<1>1. CASE UNCHANGED vars
  <2>1. DialogInv'
    BY <1>1 DEF vars, DialogInv
  <2>2. ASSUME NEW e \in Ends PROVE Given(link[e], link'[e])
    <3>1. link[e] \in Link
      BY IndInvLinks
    <3> QED BY <1>1, <3>1, MindsSame, GivenSame DEF vars
  <2> QED BY <2>1, <2>2 DEF DialogStep
<1>2. CASE Next
  BY <1>2, DialogPoll, DialogDeliver, DialogLoss, DialogApp DEF Next
<1> QED BY <1>1, <1>2

\* Before the first dialog, whether or not the session is established already.
LEMMA InitLiveInv ==
  ASSUME InitLive
  PROVE  IndInv
<1> DEFINE N(e) == NewLink(Opts[e])
           M(e) == [N(e) EXCEPT !.st = "LIVE", !.est = TRUE]
<1>1. \A e \in Ends : N(e) \in Link
  BY SessionAssumption, NewLinkType
<1>2. \A e \in Ends : /\ N(e).just = FALSE /\ N(e).wp = <<>> /\ N(e).out = <<>>
                      /\ N(e).tx = <<>> /\ N(e).buf = <<>> /\ N(e).inb = <<>>
  BY DEF NewLink
<1>3. link = [e \in Ends |-> M(e)] /\ used \in [Events -> Nat]
  BY DEF InitLive
<1> HIDE DEF N
<1>4. \A e \in Ends : M(e) \in Link
  <2>1. \A L \in Link : [L EXCEPT !.st = "LIVE", !.est = TRUE] \in Link
    BY DEF Link, States
  <2> QED BY <1>1, <2>1
<1>5. \A e \in Ends : /\ M(e).st = "LIVE" /\ M(e).est = TRUE /\ M(e).just = FALSE
                      /\ M(e).wp = <<>> /\ M(e).out = <<>> /\ M(e).tx = <<>>
                      /\ M(e).buf = <<>> /\ M(e).inb = <<>>
  BY <1>1, <1>2 DEF Link
<1> HIDE DEF M
<1>6. link \in [Ends -> Link]
  BY <1>3, <1>4
<1>7. WpDepth \in Nat /\ MaxOutbound \in Nat /\ TxCap \in Nat /\ BufCap \in Nat
  BY WpDepthAssumption, LinkAssumption, SessionAssumption
<1>8. \A e \in Ends : LinkOK(link[e]) /\ PlanFits(link[e])
  <2> SUFFICES ASSUME NEW e \in Ends PROVE LinkOK(M(e)) /\ PlanFits(M(e))
    BY <1>3
  <2>1. Len(M(e).wp) = 0 /\ Len(M(e).out) = 0 /\ Len(M(e).tx) = 0 /\ Len(M(e).buf) = 0
    BY <1>5
  <2>2. LinkOK(M(e))
    BY <1>4, <1>5, <1>7, <2>1 DEF LinkOK, Sized
  <2>3. PlanFits(M(e))
    BY <1>5, <2>1 DEF PlanFits, Behind
  <2> QED BY <2>2, <2>3
<1> QED BY <1>3, <1>6, <1>8 DEF IndInv, TypeOK, PlanInv, LinkOK, Sized

LEMMA InitDialog ==
  ASSUME Simple, Init \/ InitLive
  PROVE  DialogInv
<1> DEFINE N(e) == NewLink(Opts[e])
<1>0. \A e \in Ends : /\ N(e) \in Link /\ N(e).opts = Opts[e] /\ N(e).out = <<>>
                      /\ N(e).tx = <<>> /\ N(e).buf = <<>> /\ N(e).inb = <<>>
  <2>1. \A e \in Ends : N(e) \in Link
    BY SessionAssumption, NewLinkType
  <2> QED BY <2>1 DEF NewLink
<1>1. \A e \in Ends : /\ link[e].opts = Opts[e] /\ link[e].out = <<>> /\ link[e].tx = <<>>
                      /\ link[e].buf = <<>> /\ link[e].inb = <<>>
  <2>1. CASE Init
    BY <1>0, <2>1 DEF Init
  <2>2. CASE InitLive
    <3>1. link = [e \in Ends |-> [N(e) EXCEPT !.st = "LIVE", !.est = TRUE]]
      BY <2>2 DEF InitLive
    <3> HIDE DEF N
    <3> QED BY <1>0, <3>1 DEF Link
  <2> QED BY <2>1, <2>2
<1>2. ASSUME NEW s, s = <<>> PROVE Said(s) = {} /\ Asked(s) = {} /\ Answered(s) = {} /\ DOMAIN s = {}
  BY <1>2, SaidNone DEF Asked, Answered
<1>3. \A e \in Ends : Own(link[e]) = {} /\ Foreign(link[e]) = {}
  BY <1>1, <1>2 DEF Own, Foreign
<1>4. \A e \in Ends : Lawful(link[e])
  BY <1>1, <1>2, <1>3 DEF Lawful, Proper, AskedOnce, Simple
<1> QED BY <1>3, <1>4, PeerOK DEF DialogInv, Apart

\* What the two properties say of a step.
LEMMA StepReleases ==
  ASSUME IndInv, IndInv', NEW e \in Ends, Given(link[e], link'[e]),
         link[e].st \in {"PENDING_AUTH", "LIVE", "PENDING_HANGUP"}, link[e].buf # <<>>,
         Len(link'[e].buf) < Len(link[e].buf), Head(link[e].buf).reply
  PROVE  Head(link[e].buf).id \notin Awaited(link'[e].out)
<1>1. link[e] \in Link /\ link'[e] \in Link
  <2>1. link' \in [Ends -> Link]
    BY DEF IndInv, TypeOK
  <2> QED BY <2>1, IndInvLinks
<1>2. Len(link[e].buf) \in Nat /\ Len(link'[e].buf) \in Nat
  <2>1. link[e].buf \in Seq(Frame) /\ link'[e].buf \in Seq(Frame)
    BY <1>1, FieldTypes
  <2> QED BY <2>1
<1> QED BY <1>2 DEF Given, Behind

LEMMA StepRemembers ==
  ASSUME IndInv, NEW e \in Ends, Given(link[e], link'[e]),
         NEW id \in Awaited(link[e].out) \ Awaited(link'[e].out)
  PROVE  \/ \E i \in DOMAIN link[e].buf : link[e].buf[i].reply /\ link[e].buf[i].id = id
         \/ link'[e].unackd > link[e].unackd
         \/ link[e].unackd = MaxUnackd
         \/ used'["kill"] > used["kill"]
         \/ link[e].st = "HUNGUP"
<1>1. link[e].inb = <<>>
  BY IndInvLinks DEF LinkOK
<1>2. Heard(link[e]) = Answered(link[e].buf)
  BY <1>1, SaidNone DEF Heard, Answered
<1>3. CASE id \in Heard(link[e])
  BY <1>2, <1>3 DEF Answered, Said
<1>4. CASE id \notin Heard(link[e])
  BY <1>4 DEF Given, Minds
<1> QED BY <1>3, <1>4

\* Whatever the loss, the retries and the order in which the two ends poll, and
\* although _clear_waiting_send_by_id() skips an element behind each one it
\* removes: a reply that is taken from the buffer releases the message that it
\* answers.  The application is one that drops or acknowledges what it receives,
\* and the links have no Identity, so that only questions are asked.
THEOREM ReplyIsRelease ==
  ASSUME Simple
  PROVE  (Spec => ReplyReleases) /\ (LiveSpec => ReplyReleases)
<1>1. Init \/ InitLive => IndInv /\ DialogInv
  BY InitInv, InitLiveInv, InitDialog
<1>2. IndInv /\ DialogInv /\ [Next]_vars => IndInv' /\ DialogInv'
  BY NextInv, DialogNext DEF DialogStep
<1>3. IndInv /\ IndInv' /\ DialogInv /\ [Next]_vars =>
        [\A e \in Ends :
           LET L == link[e]
           IN  /\ L.st \in {"PENDING_AUTH", "LIVE", "PENDING_HANGUP"}
               /\ L.buf # <<>>
               /\ Len(link'[e].buf) < Len(L.buf)
               /\ Head(L.buf).reply
               => Head(L.buf).id \notin Awaited(link'[e].out)]_vars
  BY DialogNext, StepReleases DEF DialogStep
<1> QED BY <1>1, <1>2, <1>3, PTL DEF Spec, LiveSpec, ReplyReleases

\* Under the same conditions a message that waits for a reply is only given up
\* when that reply came in, when its retries are used up and counted, or with
\* the session: no reply to another message, retry, resync, rejected frame or
\* handshake takes it from the queue.
THEOREM WaitingIsMinded ==
  ASSUME Simple
  PROVE  (Spec => WaitingNotForgotten) /\ (LiveSpec => WaitingNotForgotten)
<1>1. Init \/ InitLive => IndInv /\ DialogInv
  BY InitInv, InitLiveInv, InitDialog
<1>2. IndInv /\ DialogInv /\ [Next]_vars => IndInv' /\ DialogInv'
  BY NextInv, DialogNext DEF DialogStep
<1>3. IndInv /\ DialogInv /\ [Next]_vars =>
        [\A e \in Ends : \A id \in Awaited(link[e].out) \ Awaited(link'[e].out) :
           \/ \E i \in DOMAIN link[e].buf : link[e].buf[i].reply /\ link[e].buf[i].id = id
           \/ link'[e].unackd > link[e].unackd
           \/ link[e].unackd = MaxUnackd
           \/ used'["kill"] > used["kill"]
           \/ link[e].st = "HUNGUP"]_vars
  BY DialogNext, StepRemembers DEF DialogStep
<1> QED BY <1>1, <1>2, <1>3, PTL DEF Spec, LiveSpec, WaitingNotForgotten
=============================================================================
