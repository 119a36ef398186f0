----------------------------- MODULE M2MSession -----------------------------
(***************************************************************************)
(* Two M2MLinks and the transport between them.                            *)
(*                                                                         *)
(* The transport is a FIFO of frames in each direction (field tx of the    *)
(* sender), which a UART or a socket is.  It may lose a frame or garble    *)
(* one, as often as the bounds allow.  Each link is polled by its own main *)
(* loop at arbitrary times, so the polls of the two ends, the deliveries   *)
(* and the calls of the applications interleave in any order; one poll is  *)
(* one step, for the two ends share nothing but the transport.             *)
(***************************************************************************)
EXTENDS M2MLink

CONSTANTS Ends,          \* the two ends
          Opts,          \* [Ends -> Options]
          AppAnswers,    \* what the application may do with a message
          Ids,           \* the ids randomUInt32() is taken to draw from
          ZeroDraws,     \* {0} if it may also draw 0, else {}
          Prompt,        \* does the transport empty within ms_keepalive?
          BufCap,        \* frames accepted before bufferAvailable() is 0
          Limit          \* how often each of the Events may happen

Events == {"send", "log", "hangup", "kill", "reset", "set", "identity", "lose", "garble"}

ASSUME SessionAssumption ==
  /\ \A e \in Ends : \E p \in Ends : p # e /\ Ends = {e, p}
  /\ Opts \in [Ends -> Options]
  /\ AppAnswers \subseteq Answers
  /\ Ids \subseteq Nat \ {0}
  /\ ZeroDraws \subseteq {0}
  /\ Prompt \in BOOLEAN
  /\ BufCap \in Nat \ {0}
  /\ Limit \in [Events -> Nat]

VARIABLES link,   \* the two links
          used    \* how often each of the Events happened

vars == <<link, used>>

Peer(e) == CHOOSE p \in Ends : p # e

Init == /\ link = [e \in Ends |-> NewLink(Opts[e])]
        /\ used = [k \in Events |-> 0]

-----------------------------------------------------------------------------
\* Random ids.  24 random bits are taken not to repeat an id that is in use; of
\* the free ones, which are all alike, the model draws the least.

IdsOf(s) == {s[i].id : i \in DOMAIN s}

IdsInUse == UNION {IdsOf(link[e].out) \cup IdsOf(link[e].buf) \cup IdsOf(link[e].tx) : e \in Ends}

Draws == ZeroDraws \cup
         {n \in Ids \ IdsInUse : \A k \in Ids \ IdsInUse : n <= k}

-----------------------------------------------------------------------------
\* Steps

Spend(k) == /\ used[k] < Limit[k]
            /\ used' = [used EXCEPT ![k] = @ + 1]

\* What poll() may make of a link, the timers being as given.
Polled(e, kaDue, timedOut) ==
  Poll(link[e], kaDue, timedOut, AppAnswers, Draws)

PollWith(e, kaDue, timedOut) ==
  /\ Prompt /\ kaDue => link[e].tx = <<>>
  /\ \E L \in Polled(e, kaDue, timedOut) : link' = [link EXCEPT ![e] = L]
  /\ UNCHANGED used

PollEnd(e) == \E kaDue, timedOut \in BOOLEAN : PollWith(e, kaDue, timedOut)

\* The transport hands the oldest frame to the other end, while that end has
\* room (the transport drivers ask bufferAvailable()).
Deliver(e) ==
  /\ link[e].tx # <<>>
  /\ Len(link[Peer(e)].buf) < BufCap
  /\ link' = [link EXCEPT ![e].tx = Tail(@),
                          ![Peer(e)] = PushBuffer(@, Head(link[e].tx))]
  /\ UNCHANGED used

Lose(e) == /\ link[e].tx # <<>>
           /\ Spend("lose")
           /\ link' = [link EXCEPT ![e].tx = Tail(@)]

Garble(e) == /\ link[e].tx # <<>>
             /\ Spend("garble")
             /\ \E f \in {Junk, Bad} : link' = [link EXCEPT ![e].tx = <<f>> \o Tail(@)]

AppSend(e) ==
  /\ Spend("send")
  /\ \E needReply, hasPayload \in BOOLEAN, rnd \in Draws :
       link' = [link EXCEPT ![e] = Send(@, needReply, hasPayload, rnd)]

AppLog(e) ==
  /\ Spend("log")
  /\ \E needReply \in BOOLEAN, rnd \in Draws :
       link' = [link EXCEPT ![e] = WriteRemoteLog(@, needReply, rnd)]

AppHangup(e) == /\ Spend("hangup")
                /\ link' = [link EXCEPT ![e] = Hangup(@, TRUE)]

AppKill(e) == /\ Spend("kill")
              /\ link' = [link EXCEPT ![e] = Hangup(@, FALSE)]

AppReset(e) == /\ link[e].st = "HUNGUP"
               /\ Spend("reset")
               /\ link' = [link EXCEPT ![e] = Reset(@)]

AppSet(e) ==
  /\ Spend("set")
  /\ \E x \in BOOLEAN : \/ link' = [link EXCEPT ![e] = RequireAuth(@, x)]
                        \/ link' = [link EXCEPT ![e] = SyncCast(@, x)]

AppIdentity(e) ==
  /\ Spend("identity")
  /\ \E x \in BOOLEAN : link' = [link EXCEPT ![e] = LocalIdentity(@, x)]

Next == \E e \in Ends :
  \/ PollEnd(e)
  \/ Deliver(e)
  \/ Lose(e)
  \/ Garble(e)
  \/ AppSend(e)
  \/ AppLog(e)
  \/ AppHangup(e)
  \/ AppKill(e)
  \/ AppReset(e)
  \/ AppSet(e)
  \/ AppIdentity(e)

Spec == Init /\ [][Next]_vars

\* Both main loops keep polling, and while a link is quiet the timers expire
\* between two polls; the transport carries what it took.
Fairness == \A e \in Ends : /\ WF_vars(PollEnd(e))
                            /\ WF_vars(PollWith(e, TRUE, TRUE))
                            /\ WF_vars(Deliver(e))

FairSpec == Spec /\ Fairness

\* The same session from the point where both ends are LIVE, have done with
\* their WHO dialogs and are idle: a state in which Spec arrives, and the one
\* to start from when the opening handshake is not the question.
InitLive == /\ link = [e \in Ends |-> [NewLink(Opts[e]) EXCEPT !.st = "LIVE", !.est = TRUE]]
            /\ used = [k \in Events |-> 0]

LiveSpec == InitLive /\ [][Next]_vars

FairLiveSpec == LiveSpec /\ Fairness

-----------------------------------------------------------------------------
\* Type invariant.  Queues stay within their limits, the flag just is reset and
\* nothing stays in the inbound queue between two polls.
TypeOK ==
  /\ link \in [Ends -> Link]
  /\ used \in [Events -> Nat]
  /\ \A e \in Ends : /\ Len(link[e].wp) <= WpDepth
                     /\ Len(link[e].out) <= MaxOutbound
                     /\ Len(link[e].tx) <= TxCap
                     /\ Len(link[e].buf) <= BufCap
                     /\ link[e].inb = <<>>
                     /\ ~link[e].just

-----------------------------------------------------------------------------
\* Safety

\* Whatever was planned in between (a resync, a hangup that the peer asked for,
\* a route that no longer fitted), a link is in one of the states behind the
\* CONNECT exchange only with that exchange done: isConnected() is true there.
Established ==
  \A e \in Ends :
    link[e].st \in {"PENDING_AUTH", "LIVE", "PENDING_HANGUP"} => link[e].est

\* Why that is so: what is planned (wp) fits where the link is (st).  A resync
\* is always planned together with the SYNC_TENTATIVE that waits for est, the
\* setup only where nothing else is left of a session, and nothing leads from
\* the setup or from a resync straight to a state behind the CONNECT exchange.
Behind == {"PENDING_AUTH", "LIVE", "PENDING_HANGUP"}

PlanFits(L) ==
  /\ \A i \in 1..Len(L.wp) :
       L.wp[i] = "SYNC_RESYNC" => i < Len(L.wp) /\ L.wp[i+1] = "SYNC_TENTATIVE"
  /\ \A i \in 1..Len(L.wp) :
       L.wp[i] = "PENDING_SETUP" => L.st \in {"UNINIT", "HUNGUP"}
  /\ L.st = "SYNC_RESYNC" =>
       L.wp # <<>> /\ Head(L.wp) \in {"SYNC_TENTATIVE", "SYNC_RESYNC", "HUNGUP"}
  /\ L.st = "PENDING_SETUP" => L.wp # <<>> /\ Head(L.wp) = "SYNC_RESYNC"
  /\ L.st \in Behind => L.est
  /\ L.st \in {"UNINIT", "PENDING_SETUP", "HUNGUP"} => ~L.est

PlanInv == \A e \in Ends : PlanFits(link[e])

\* What the application sees of each link is the life of a session.
PhaseOf(s) == CASE s \in {"UNINIT", "PENDING_SETUP", "HUNGUP"} -> "down"
                [] s \in {"SYNC_RESYNC", "SYNC_TENTATIVE"}     -> "syncing"
                [] s \in {"PENDING_AUTH", "LIVE"}              -> "up"
                [] s = "PENDING_HANGUP"                        -> "closing"

Life == INSTANCE LinkLifecycle
          WITH phase <- [e \in Ends |-> PhaseOf(link[e].st)],
               conn  <- [e \in Ends |-> link[e].est]

Lifecycle == Life!Spec

\* HANGUP_RXD at one end means HANGUP_TXD at the other, as long as neither link
\* was reset for another session.
HangupHeard ==
  used["reset"] = 0 => \A e \in Ends : link[e].hupR => link[Peer(e)].hupT

\* Awaited(q): the ids under which queue q waits for a reply.
Awaited(q) == {q[i].id : i \in {j \in DOMAIN q : q[j].expect /\ q[j].sent}}

\* A message that was sent and needs a reply leaves the outbound queue only
\* for cause: a reply to it came in, its retries are used up and it is counted
\* in replyTimeouts() (as far as the model counts), or the session is over: the
\* application tore it down, or the link hung up and is reset.
WaitingNotForgotten ==
  [][\A e \in Ends : \A id \in Awaited(link[e].out) \ Awaited(link'[e].out) :
       \/ \E i \in DOMAIN link[e].buf : link[e].buf[i].reply /\ link[e].buf[i].id = id
       \/ link'[e].unackd > link[e].unackd
       \/ link[e].unackd = MaxUnackd
       \/ used'["kill"] > used["kill"]
       \/ link[e].st = "HUNGUP"]_vars

\* HANGUP goes out last ("Hangup ought to be the last thing we deal with"):
\* when the frame of one, question or answer, enters the transport, no
\* application message is left unsent in the queue.
HangupsIn(s) == Cardinality({i \in DOMAIN s : s[i].code = "HANGUP"})

HangupLast ==
  [][\A e \in Ends : HangupsIn(link'[e].tx) > HangupsIn(link[e].tx) =>
       \A i \in DOMAIN link'[e].out :
         link'[e].out[i].code = "APPLICATION" => link'[e].out[i].sent]_vars

\* A reply that is taken from the buffer releases the message it answers: that
\* one no longer waits, will not be sent again or be counted as unanswered.
ReplyReleases ==
  [][\A e \in Ends :
       LET L == link[e]
       IN  /\ L.st \in {"PENDING_AUTH", "LIVE", "PENDING_HANGUP"}
           /\ L.buf # <<>>
           /\ Len(link'[e].buf) < Len(L.buf)
           /\ Head(L.buf).reply
           => Head(L.buf).id \notin Awaited(link'[e].out)]_vars

\* A message that was accepted by send() and is not in a dialog leaves the
\* queue only by being handed to the transport, or with the session.
QueuedIsSent ==
  [][\A e \in Ends :
       LET unsent(q) == Cardinality({i \in DOMAIN q : ~q[i].sent /\ q[i].id = NoId})
       IN  unsent(link'[e].out) < unsent(link[e].out) =>
             \/ Len(link'[e].tx) > Len(link[e].tx)
             \/ used'["kill"] > used["kill"]
             \/ link'[e].st = "PENDING_SETUP"]_vars

-----------------------------------------------------------------------------
\* Liveness

InState(e, S) == link[e].st \in S

\* A link that casts sync gets out of SYNC_RESYNC.
ResyncEnds == \A e \in Ends : InState(e, {"SYNC_RESYNC"}) ~> ~InState(e, {"SYNC_RESYNC"})

\* Syncs ask for syncs, but not forever: without keepalives the exchange dies out.
SyncDiesOut == <>[](\A e \in Ends : SyncsIn(link[e].tx) = {})

\* SYNC_TENTATIVE: "Stop casting sync. Churn until non-sync data arrives."
TentativeEnds ==
  \A e \in Ends : InState(e, {"SYNC_TENTATIVE"}) ~> ~InState(e, {"SYNC_TENTATIVE"})

\* A hangup that was begun comes to its end, at both ends.
HangupEnds ==
  \A e \in Ends : InState(e, {"PENDING_HANGUP"}) ~> InState(e, {"HUNGUP"})
=============================================================================
