------------------------------- MODULE M2MLink -------------------------------
(***************************************************************************)
(* One end of a machine-to-machine link (src/src/M2MLink/M2MLink.cpp).     *)
(*                                                                         *)
(* A link is a record (Link below) and every member function is an         *)
(* operator on such records.  Poll composes the functions in the order in  *)
(* which M2MLink::poll() calls them; module M2MSession turns Poll and the  *)
(* API calls into actions, for two links joined by a transport.            *)
(*                                                                         *)
(* The transport takes and gives whole frames, so the accumulation of a    *)
(* frame over several polls (_working) is not modelled.  inb is the        *)
(* inbound queue: a poll files at most one message in it and handles it    *)
(* before it ends.  Statistics nobody reads back (_sync_losses,            *)
(* _seq_ack_fails) and logging are left out.                               *)
(***************************************************************************)
EXTENDS StateMachine, PriorityQueue, M2MMsg

CONSTANTS MaxOutbound,     \* M2MLinkOpts::max_outbound
          TxCap,           \* frames the transport holds before it rejects more
          EmptyAccepted,   \* does the transport accept an empty buffer?
          MaxUnackd        \* _unackd_sends is counted up to here

ASSUME LinkAssumption ==
  /\ WpDepth >= 3     \* the setup route fits
  /\ MaxOutbound \in Nat \ {0}
  /\ TxCap \in Nat \ {0}
  /\ EmptyAccepted \in BOOLEAN
  /\ MaxUnackd \in Nat

States == {"UNINIT", "PENDING_SETUP", "SYNC_RESYNC", "SYNC_TENTATIVE",
           "PENDING_AUTH", "LIVE", "PENDING_HANGUP", "HUNGUP"}

PRIORITY_INTERNAL == 20
PRIORITY_APP      == 10
PRIORITY_WAITING  == 5
PRIORITY_HANGUP   == 0

MAX_PARSE_FAILURES == 3

\* The options of a link that outlive a session: AUTH_REQUIRED, SEND_KA, and
\* whether the application gave it an Identity.
Options == [auth : BOOLEAN, ka : BOOLEAN, ident : BOOLEAN]

Link ==
  [opts   : Options,
   st     : States,               \* current FSM position
   wp     : Seq(States),          \* waypoints
   syncIn : BOOLEAN,              \* SYNC_INCOMING
   syncRx : BOOLEAN,              \* SYNC_REPLY_RXD
   cast   : BOOLEAN,              \* SYNC_CASTING
   est    : BOOLEAN,              \* ESTABLISHED
   hupR   : BOOLEAN,              \* HANGUP_RXD
   hupT   : BOOLEAN,              \* HANGUP_TXD
   hook   : BOOLEAN,              \* ON_HOOK
   buf    : Seq(Frame),           \* _inbound_buf
   inb    : Seq(Frame),           \* _inbound_messages
   out    : Seq(Message),         \* _outbound_messages
   tx     : Seq(Frame),           \* what the transport took and has yet to carry
   perr   : 0..MAX_PARSE_FAILURES,\* _seq_parse_errs
   unackd : 0..MaxUnackd,         \* _unackd_sends
   just   : BOOLEAN]              \* did this poll send? (_ms_last_send = now)

\* The constructor.
NewLink(opts) ==
  [opts |-> opts, st |-> "UNINIT", wp |-> <<>>, syncIn |-> FALSE, syncRx |-> FALSE,
   cast |-> FALSE, est |-> FALSE, hupR |-> FALSE, hupT |-> FALSE, hook |-> FALSE,
   buf |-> <<>>, inb |-> <<>>, out |-> <<>>, tx |-> <<>>, perr |-> 0, unackd |-> 0,
   just |-> FALSE]

-----------------------------------------------------------------------------
\* Transport, queue and dialog helpers

\* _relay_to_output_target(): can the transport take these frames, and what it
\* makes of the link if it does.
Mut_CanRelay(L, fs) == Len(L.tx) <= TxCap      \* mutant: off by one

CanRelay(L, fs) == IF fs = <<>> THEN EmptyAccepted ELSE Len(L.tx) < TxCap

Relay(L, fs) == [L EXCEPT !.tx = @ \o fs, !.just = TRUE]

\* _send_sync_packet(): straight to the transport; a rejected one is lost.
SendSync(L, needReply) ==
  LET f == <<SyncFrame(needReply)>> IN IF CanRelay(L, f) THEN Relay(L, f) ELSE L

\* _send_msg(): refused if the queue is full or the message invalid.
CanSend(L, m) == Len(L.out) < MaxOutbound /\ IsValid(m)

Mut_PriorityOf(m) ==                          \* mutant: HANGUP does not queue last
  IF m.code = "APPLICATION" THEN PRIORITY_APP ELSE PRIORITY_INTERNAL

PriorityOf(m) == CASE m.code = "APPLICATION" -> PRIORITY_APP
                   [] m.code = "HANGUP"      -> PRIORITY_HANGUP
                   [] OTHER                  -> PRIORITY_INTERNAL

SendMsg(L, m) == [L EXCEPT !.out = Insert(@, m, PriorityOf(m))]

\* _clear_waiting_send_by_id() walks the queue by index and steps over the
\* element that moves into the place of a removed one: of a run of matches,
\* it removes every other one, the first included.
Matching(q, id) == {i \in 1..Len(q) : q[i].id = id}

RunLength(q, id, i) ==
  Cardinality({j \in 1..i : \A k \in j..i : k \in Matching(q, id)})

ClearById(q, id) == Without(q, {i \in 1..Len(q) : RunLength(q, id, i) % 2 = 1})

ClearWaiting(L, id) == [L EXCEPT !.out = ClearById(@, id)]

\* The tail of _churn_inbound(): a message that is a reply, and that was not
\* passed on, releases what waits for it.
Mut_Discard(L, f) == L                        \* mutant: nothing is released

Discard(L, f) == IF f.reply THEN ClearWaiting(L, f.id) ELSE L

\* A received message is turned into an answer and queued.  If it cannot be,
\* it is discarded, and by now it is a reply.
Respond(L, f, needReply) ==
  LET m == ReplyTo(f, needReply)
  IN  IF CanSend(L, m) THEN SendMsg(L, m) ELSE ClearWaiting(L, f.id)

Mut_InsertSyncStates(L) ==                    \* mutant: one state is forgotten
  [L EXCEPT !.wp = PrependState(@, "SYNC_RESYNC")]

\* _fsm_insert_sync_states()
InsertSyncStates(L) ==
  [L EXCEPT !.wp = PrependState(PrependState(@, "SYNC_TENTATIVE"), "SYNC_RESYNC")]

-----------------------------------------------------------------------------
\* _process_input_buffer()

SyncsIn(buf) == {i \in 1..Len(buf) : IsSync(buf[i])}

\* The positions of the first unbroken run of sync packets.
FirstRun(buf) ==
  {i \in SyncsIn(buf) : \A j \in 1..i : (\E k \in 1..j : IsSync(buf[k])) => IsSync(buf[j])}

\* _process_for_sync(), if there is a sync packet.  What precedes the frame
\* that breaks the run is culled; if the data ends first, the last sync packet
\* stays, to be parsed as a message.
ConsumeSyncs(L) ==
  LET run  == FirstRun(L.buf)
      last == CHOOSE i \in run : \A j \in run : j <= i
      cut  == IF last < Len(L.buf) THEN last + 1 ELSE last
      set  == \E i \in run : L.buf[i].reply
      ans  == \E i \in run : L.buf[i].expect
      M    == [L EXCEPT !.buf    = SubSeq(@, cut, Len(@)),
                        !.syncRx = @ \/ set,
                        !.syncIn = @ \/ set \/ ans]
  IN  IF ans THEN SendSync(M, FALSE) ELSE M

\* The general parse of the head of the buffer.  Junk is left where it is.
Parse(L) ==
  IF L.buf = <<>> THEN L
  ELSE LET f == Head(L.buf)
           M == [L EXCEPT !.buf = Tail(@)]
       IN CASE f.code = "JUNK" -> InsertSyncStates(L)
            [] f.code = "BAD"  ->
                 LET n == IF L.perr < MAX_PARSE_FAILURES THEN L.perr + 1 ELSE L.perr
                     N == [M EXCEPT !.perr = n]
                 IN  IF n >= MAX_PARSE_FAILURES THEN InsertSyncStates(N) ELSE N
            [] OTHER -> [M EXCEPT !.perr = 0, !.inb = <<f>>]

ProcessInput(L) ==
  CASE L.st = "SYNC_RESYNC" ->
         IF SyncsIn(L.buf) = {}
         THEN [L EXCEPT !.buf = <<>>]
         ELSE LET M == ConsumeSyncs(L)
              IN  Parse(IF M.cast THEN SendSync(M, TRUE) ELSE M)
    [] L.st \in {"SYNC_TENTATIVE", "PENDING_AUTH", "LIVE", "PENDING_HANGUP"} -> Parse(L)
    [] OTHER -> L

-----------------------------------------------------------------------------
\* _churn_inbound(), by message code

Mut_OnSyncMute(L, f) ==                       \* mutant: queries stay unanswered
  IF f.reply
  THEN Discard([L EXCEPT !.syncRx = TRUE, !.syncIn = TRUE, !.cast = FALSE], f)
  ELSE [L EXCEPT !.syncIn = TRUE]

Mut_OnSyncEcho(L, f) ==                       \* mutant: the answer is a query
  IF f.reply
  THEN Discard([L EXCEPT !.syncRx = TRUE, !.syncIn = TRUE, !.cast = FALSE], f)
  ELSE SendSync([L EXCEPT !.syncIn = TRUE], TRUE)

OnSync(L, f) ==
  IF f.reply
  THEN Discard([L EXCEPT !.syncRx = TRUE, !.syncIn = TRUE, !.cast = FALSE], f)
  ELSE SendSync([L EXCEPT !.syncIn = TRUE], FALSE)

\* The answer to a CONNECT goes straight to the transport.
OnConnect(L, f) ==
  IF f.reply
  THEN LET route == IF ~L.est /\ L.opts.auth THEN <<"PENDING_AUTH", "LIVE">> ELSE <<"LIVE">>
           wp    == IF L.est \/ IsStable(L.wp) THEN AppendRoute(L.wp, route) ELSE L.wp
       IN  Discard([L EXCEPT !.wp = wp, !.est = TRUE], f)
  ELSE IF f.expect
       THEN LET ack == <<Header(ReplyTo(f, FALSE))>>
            IN  IF CanRelay(L, ack) THEN Relay(L, ack) ELSE L
       ELSE L

OnHangup(L, f) ==
  LET M == [L EXCEPT !.hupR = TRUE]
      R == Respond(M, f, FALSE)
  IN  CASE f.reply -> Discard(M, f)
        [] ~f.reply /\ f.expect ->
             IF CanSend(M, ReplyTo(f, FALSE))
             THEN [R EXCEPT !.wp = AppendRoute(@, <<"PENDING_HANGUP", "HUNGUP">>)]
             ELSE R
        [] OTHER -> M

OnLog(L, f) == IF ~f.reply /\ f.expect THEN Respond(L, f, FALSE) ELSE Discard(L, f)

\* A reply that wants a reply is acknowledged, a query is answered: with our
\* Identity, wanting a reply in turn, or with a plain ACK.
OnWho(L, f) ==
  CASE f.expect /\ f.reply  -> Respond(L, f, FALSE)
    [] f.expect /\ ~f.reply -> Respond(L, f, L.opts.ident)
    [] OTHER                -> Discard(L, f)

\* The application's callback answers nothing that does not ask for it, as the
\* one in the unit tests does.
Answers == {"drop", "ack", "dialog"}

Answer(f, app) == IF f.expect THEN app ELSE "drop"

\* _invoke_msg_callback(): the application drops the message, acknowledges it,
\* or answers with a message that needs a reply.
OnApplication(L, f, app) ==
  CASE Answer(f, app) = "drop"   -> Discard(L, f)
    [] Answer(f, app) = "ack"    -> Respond(L, f, FALSE)
    [] Answer(f, app) = "dialog" -> Respond(L, f, TRUE)

ChurnInbound(L, app) ==
  IF L.inb = <<>> THEN L
  ELSE LET f == Head(L.inb)
           M == [L EXCEPT !.inb = <<>>]
       IN CASE f.code = "SYNC"        -> OnSync(M, f)
            [] f.code = "CONNECT"     -> OnConnect(M, f)
            [] f.code = "HANGUP"      -> OnHangup(M, f)
            [] f.code = "LOG"         -> OnLog(M, f)
            [] f.code = "WHO"         -> OnWho(M, f)
            [] f.code = "APPLICATION" -> OnApplication(M, f, app)
            [] OTHER                  -> M

-----------------------------------------------------------------------------
\* _churn_outbound(): the head of the queue is taken out, sent if it is due,
\* and put back unless it is done with.

\* The transport took m: a HANGUP is known to be on its way.
Mut_AfterRelayQuery(L, m) ==                  \* mutant: a reply does not count
  [Relay(L, Serialized(m)) EXCEPT !.hupT = @ \/ (m.code = "HANGUP" /\ ~m.reply)]

Mut_AfterRelayNone(L, m) ==                   \* mutant: HANGUP_TXD is never set
  Relay(L, Serialized(m))

AfterRelay(L, m) == [Relay(L, Serialized(m)) EXCEPT !.hupT = @ \/ m.code = "HANGUP"]

\* The transmission of m, which is out of the queue already.  The message is
\* kept if it waits for a reply, or if the transport rejected it; then it gets
\* the priority its code and its place before (was) call for.
Transmit(L, m, was) ==
  LET n == AfterSerialize(m)
      p == IF was = PRIORITY_WAITING THEN was
           ELSE IF m.code = "APPLICATION" THEN PRIORITY_APP ELSE PRIORITY_INTERNAL
      R == AfterRelay(L, m)
  IN  IF ~CanRelay(L, Serialized(m)) THEN [L EXCEPT !.out = Insert(@, n, p)]
      ELSE IF m.expect
           THEN [R EXCEPT !.out = Insert(@, [n EXCEPT !.sent = TRUE], PRIORITY_WAITING)]
           ELSE R

\* The retries of a message are used up.
Mut_GiveUp(L) == L                            \* mutant: dropped, not counted

GiveUp(L) == [L EXCEPT !.unackd = IF @ < MaxUnackd THEN @ + 1 ELSE @]

ChurnOutbound(L, timedOut) ==
  IF L.out = <<>> THEN L
  ELSE LET m == Head(L.out)
           M == [L EXCEPT !.out = Tail(@)]
       IN CASE ~m.sent -> Transmit(M, m, m.prio)
            [] m.sent /\ ~timedOut ->
                 [M EXCEPT !.out = Insert(@, m, PRIORITY_WAITING)]
            [] m.sent /\ timedOut /\ m.retries > 0 -> Transmit(M, AfterRetry(m), m.prio)
            [] OTHER -> GiveUp(M)

\* The keepalive clause of poll(): nothing was sent for ms_keepalive.
KeepAlive(L, kaDue) ==
  IF (L.cast \/ L.opts.ka) /\ kaDue /\ ~L.just THEN SendSync(L, TRUE) ELSE L

-----------------------------------------------------------------------------
\* _fsm_poll() and _fsm_set_position()

SetupRoute == SetRoute(<<"PENDING_SETUP", "SYNC_RESYNC", "SYNC_TENTATIVE">>)

\* _reset_class(): only the options survive.
ResetClass(L) == [NewLink(L.opts) EXCEPT !.st = L.st, !.wp = L.wp, !.tx = L.tx, !.just = L.just]

\* The cases of _fsm_set_position(): the link that the entry into a state
\* leaves, and whether it succeeded.  rnd is the number randomUInt32() yields.
EnterSetup(L, rnd) == [link |-> ResetClass(L), ok |-> rnd # 0]

Mut_EnterResync(L) ==                         \* mutant: a resync ends the session
  LET ok == CanRelay(L, <<SyncFrame(TRUE)>>)
      M  == [L EXCEPT !.buf = <<>>, !.syncIn = FALSE, !.syncRx = FALSE, !.cast = ok,
                      !.est = FALSE]
  IN  [link |-> SendSync(M, TRUE), ok |-> ok]

EnterResync(L) ==
  LET ok == CanRelay(L, <<SyncFrame(TRUE)>>)
      M  == [L EXCEPT !.buf = <<>>, !.syncIn = FALSE, !.syncRx = FALSE, !.cast = ok]
  IN  [link |-> SendSync(M, TRUE), ok |-> ok]

\* with _send_connect_message(), past the queue
EnterTentative(L, rnd) ==
  LET c  == NewHeader("CONNECT", TRUE, rnd)
      ok == IsValid(c) /\ CanRelay(L, <<c>>)
      M  == [L EXCEPT !.cast = FALSE]
  IN  [link |-> IF ok THEN Relay(M, <<c>>) ELSE M, ok |-> ok]

\* with _send_who_message(), whose failure is ignored
EnterLive(L, rnd) ==
  LET m == NewMessage(NewHeader("WHO", TRUE, rnd), L.opts.ident)
      M == [L EXCEPT !.syncIn = FALSE, !.syncRx = FALSE]
  IN  [link |-> IF CanSend(M, m) THEN SendMsg(M, m) ELSE M, ok |-> TRUE]

\* with _send_hangup_message()
EnterHangup(L, rnd) ==
  LET m == NewMessage(NewHeader("HANGUP", TRUE, rnd), FALSE)
  IN  [link |-> IF CanSend(L, m) THEN SendMsg(L, m) ELSE L, ok |-> CanSend(L, m)]

Mut_EnterHungup(L) ==                         \* mutant: isConnected() stays true
  [link |-> [L EXCEPT !.hook = TRUE], ok |-> TRUE]

EnterHungup(L) == [link |-> [L EXCEPT !.hook = TRUE, !.est = FALSE], ok |-> TRUE]

Enter(L, s, rnd) ==
  CASE s = "PENDING_SETUP"  -> EnterSetup(L, rnd)
    [] s = "SYNC_RESYNC"    -> EnterResync(L)
    [] s = "SYNC_TENTATIVE" -> EnterTentative(L, rnd)
    [] s = "PENDING_AUTH"   -> [link |-> L, ok |-> TRUE]
    [] s = "LIVE"           -> EnterLive(L, rnd)
    [] s = "PENDING_HANGUP" -> EnterHangup(L, rnd)
    [] s = "HUNGUP"         -> EnterHungup(L)
    [] OTHER                -> [link |-> L, ok |-> FALSE]

\* _fsm_advance()
Advance(L, rnd) ==
  IF L.wp = <<>> THEN L
  ELSE LET r == Enter(L, Head(L.wp), rnd)
       IN  IF r.ok THEN [r.link EXCEPT !.st = Head(L.wp), !.wp = Tail(L.wp)] ELSE r.link

\* The exit conditions.  AUTHD, the one of PENDING_AUTH, is never set.
Mut_MayLeave(L) ==                            \* mutant: no wait for the CONNECT reply
  CASE L.st \in {"SYNC_TENTATIVE", "LIVE"} -> ~IsStable(L.wp)
    [] L.st = "SYNC_RESYNC"    -> L.syncIn /\ L.syncRx
    [] L.st = "PENDING_AUTH"   -> FALSE
    [] L.st = "PENDING_HANGUP" -> L.out = <<>> /\ L.hupR /\ L.hupT
    [] L.st = "HUNGUP"         -> ~L.hook
    [] OTHER                   -> TRUE

MayLeave(L) ==
  CASE L.st = "UNINIT"         -> TRUE     \* efferent and callback are wired
    [] L.st = "PENDING_SETUP"  -> TRUE
    [] L.st = "SYNC_RESYNC"    -> L.syncIn /\ L.syncRx
    [] L.st = "SYNC_TENTATIVE" -> L.est
    [] L.st = "PENDING_AUTH"   -> FALSE
    [] L.st = "LIVE"           -> ~IsStable(L.wp)
    [] L.st = "PENDING_HANGUP" -> L.out = <<>> /\ L.hupR /\ L.hupT
    [] L.st = "HUNGUP"         -> ~L.hook

FsmPoll(L, rnd) ==
  IF ~MayLeave(L) THEN L
  ELSE IF L.st \in {"UNINIT", "HUNGUP"}
       THEN Advance([L EXCEPT !.wp = SetupRoute], rnd)
       ELSE Advance(L, rnd)

\* poll(): the links it may leave, given whether the timers expired, what the
\* application may answer and which numbers may be drawn.  The flag just is
\* only meaningful while it runs.
Poll(L, kaDue, timedOut, answers, draws) ==
  LET idle     == L.st \in {"PENDING_SETUP", "HUNGUP"}
      parsed   == {ProcessInput(L)}
      handled  == {ChurnInbound(M, app) : M \in parsed, app \in answers}
      sent     == {ChurnOutbound(M, timedOut) : M \in handled}
      serviced == {KeepAlive(M, kaDue) : M \in sent}
      moved    == {FsmPoll(M, rnd) : M \in IF idle THEN {L} ELSE serviced, rnd \in draws}
  IN  {[M EXCEPT !.just = FALSE] : M \in moved}

-----------------------------------------------------------------------------
\* The interface to the transport and to the application

Accepting == {"SYNC_RESYNC", "SYNC_TENTATIVE", "PENDING_AUTH", "LIVE", "PENDING_HANGUP"}

\* pushBuffer(): claimed in any state, kept in those.
PushBuffer(L, f) == IF L.st \in Accepting THEN [L EXCEPT !.buf = Append(@, f)] ELSE L

\* send()
MaySend(L) == L.st \in {"PENDING_SETUP", "SYNC_RESYNC", "SYNC_TENTATIVE", "PENDING_AUTH", "LIVE"}

Send(L, needReply, hasPayload, rnd) ==
  LET m == NewMessage(NewHeader("APPLICATION", needReply, rnd), hasPayload)
  IN  IF MaySend(L) /\ CanSend(L, m) THEN SendMsg(L, m) ELSE L

\* writeRemoteLog()
WriteRemoteLog(L, needReply, rnd) ==
  LET m == NewMessage(NewHeader("LOG", needReply, rnd), TRUE)
  IN  IF L.est /\ CanSend(L, m) THEN SendMsg(L, m) ELSE L

\* hangup()
Hangup(L, graceful) ==
  CASE graceful /\ L.st \in Accepting \ {"PENDING_HANGUP"} ->
         [L EXCEPT !.wp = AppendRoute(@, <<"PENDING_HANGUP", "HUNGUP">>)]
    [] ~graceful /\ L.st \in Accepting \cup {"HUNGUP"} ->
         [L EXCEPT !.inb = <<>>, !.out = <<>>, !.wp = SetRoute(<<"HUNGUP">>)]
    [] OTHER -> L

\* requireAuth(), syncCast() and localIdentity(), at any time.
RequireAuth(L, x) == [L EXCEPT !.opts.auth = x]

SyncCast(L, x) == [L EXCEPT !.cast = x]

LocalIdentity(L, x) == [L EXCEPT !.opts.ident = x]

\* reset()
Reset(L) == IF L.st = "HUNGUP" THEN [L EXCEPT !.hook = FALSE] ELSE L
=============================================================================
