--------------------------- MODULE M2MLinkProofs ---------------------------
(***************************************************************************)
(* What the member functions of an M2MLink do to the type of a link, to    *)
(* the sizes of its queues and to the state it is in.                      *)
(***************************************************************************)
EXTENDS M2MLink, PriorityQueueProofs

\* A link whose queues are within their limits; n frames fit into its buffer.
Sized(L, n) == /\ L \in Link
               /\ Len(L.wp)  <= WpDepth
               /\ Len(L.out) <= MaxOutbound
               /\ Len(L.tx)  <= TxCap
               /\ Len(L.buf) <= n

\* The state, the plan, the connection and the inbound queue are as they were.
Steady(L, M) == M.st = L.st /\ M.wp = L.wp /\ M.est = L.est /\ M.inb = L.inb

-----------------------------------------------------------------------------
\* Assignments to the fields of a link

\* The transport buffer of a link is replaced.
LEMMA SetTx ==
  ASSUME NEW L \in Link, NEW t \in Seq(Frame)
  PROVE  [L EXCEPT !.tx = t, !.just = TRUE] \in Link
BY DEF Link

\* Its outbound queue is.
LEMMA SetOut ==
  ASSUME NEW L \in Link, NEW q \in Seq(Message)
  PROVE  [L EXCEPT !.out = q] \in Link
BY DEF Link

\* Its plan is.
LEMMA SetWp ==
  ASSUME NEW L \in Link, NEW w \in Seq(States)
  PROVE  [L EXCEPT !.wp = w] \in Link
BY DEF Link

\* Its input buffer is.
LEMMA SetBuf ==
  ASSUME NEW L \in Link, NEW b \in Seq(Frame)
  PROVE  [L EXCEPT !.buf = b] \in Link
BY DEF Link

\* Its inbound queue is.
LEMMA SetInb ==
  ASSUME NEW L \in Link, NEW b \in Seq(Frame)
  PROVE  [L EXCEPT !.inb = b] \in Link
BY DEF Link

\* Its flags are.
LEMMA SetFlags ==
  ASSUME NEW L \in Link, NEW b \in BOOLEAN, NEW c \in BOOLEAN, NEW d \in BOOLEAN
  PROVE  /\ [L EXCEPT !.est = b] \in Link
         /\ [L EXCEPT !.syncRx = b, !.syncIn = c, !.cast = d] \in Link
         /\ [L EXCEPT !.syncIn = b] \in Link
BY DEF Link

\* The fields that the proofs below are about.
LEMMA FieldTypes ==
  ASSUME NEW L \in Link
  PROVE  /\ L.st \in States
         /\ L.wp \in Seq(States)
         /\ L.est \in BOOLEAN
         /\ L.buf \in Seq(Frame)
         /\ L.inb \in Seq(Frame)
         /\ L.out \in Seq(Message)
         /\ L.tx \in Seq(Frame)
BY DEF Link

\* The constructor makes a link.
LEMMA NewLinkType ==
  ASSUME NEW o \in Options
  PROVE  NewLink(o) \in Link
<1>1. "UNINIT" \in States
  BY DEF States
<1>2. 0 \in 0..MAX_PARSE_FAILURES
  BY DEF MAX_PARSE_FAILURES
<1>3. 0 \in 0..MaxUnackd
  BY LinkAssumption
<1>4. <<>> \in Seq(States) /\ <<>> \in Seq(Frame) /\ <<>> \in Seq(Message)
  OBVIOUS
<1> QED BY <1>1, <1>2, <1>3, <1>4 DEF NewLink, Link

-----------------------------------------------------------------------------
\* Frames and messages

\* A message with another priority is a message.
LEMMA MessagePrio ==
  ASSUME NEW m \in Message, NEW p \in Nat
  PROVE  [m EXCEPT !.prio = p] \in Message
BY DEF Message

\* What travels of a message is a frame.
LEMMA HeaderType ==
  ASSUME NEW m \in Message
  PROVE  Header(m) \in Frame
BY DEF Message, Header, Frame

\* The sync packets are frames.
LEMMA SyncFrameType ==
  ASSUME NEW b \in BOOLEAN
  PROVE  SyncFrame(b) \in Frame
BY DEF SyncFrame, Frame, Codes, NoId

\* The constructor of M2MMsgHdr makes a frame of the given code.
LEMMA NewHeaderType ==
  ASSUME NEW c \in Codes, NEW b \in BOOLEAN, NEW rnd \in Nat
  PROVE  NewHeader(c, b, rnd) \in Frame /\ NewHeader(c, b, rnd).code = c
BY DEF NewHeader, Frame, NoId

\* The constructor of M2MMsg makes a message.
LEMMA NewMessageType ==
  ASSUME NEW h \in Frame, h.code \in Codes, NEW b \in BOOLEAN
  PROVE  NewMessage(h, b) \in Message
<1>1. MaxRetries \in 0..MaxRetries
  BY MaxRetriesAssumption
<1> QED BY <1>1 DEF NewMessage, Frame, Message

\* reply() makes a message of a received one.
LEMMA ReplyToType ==
  ASSUME NEW f \in Frame, f.code \in Codes, NEW b \in BOOLEAN
  PROVE  ReplyTo(f, b) \in Message
<1>1. MaxRetries \in 0..MaxRetries
  BY MaxRetriesAssumption
<1> QED BY <1>1 DEF ReplyTo, Frame, Message

\* attemptRetry() keeps _retries in range.
LEMMA RetryType ==
  ASSUME NEW m \in Message, m.retries > 0
  PROVE  AfterRetry(m) \in Message
<1>1. m.retries - 1 \in 0..MaxRetries
  BY MaxRetriesAssumption DEF Message
<1> QED BY <1>1 DEF AfterRetry, Message

\* serialize() gives the transport one frame or none, and leaves a message.
LEMMA SerializeType ==
  ASSUME NEW m \in Message
  PROVE  /\ Serialized(m) = <<>> \/ \E f \in Frame : Serialized(m) = <<f>>
         /\ AfterSerialize(m) \in Message
         /\ [AfterSerialize(m) EXCEPT !.sent = TRUE] \in Message
<1>1. Serialized(m) = <<>> \/ \E f \in Frame : Serialized(m) = <<f>>
  BY HeaderType DEF Serialized
<1>2. AfterSerialize(m) \in Message
  BY DEF AfterSerialize, Message
<1>3. [AfterSerialize(m) EXCEPT !.sent = TRUE] \in Message
  <2> DEFINE k == AfterSerialize(m)
  <2> HIDE DEF k
  <2>1. k \in Message
    BY <1>2 DEF k
  <2>2. [k EXCEPT !.sent = TRUE] \in Message
    BY <2>1 DEF Message
  <2> QED BY <2>2 DEF k
<1> QED BY <1>1, <1>2, <1>3

-----------------------------------------------------------------------------
\* Transport, queue and dialog helpers

\* What the transport takes fits into it.
LEMMA RelayOK ==
  ASSUME NEW n \in Nat, NEW L, Sized(L, n), NEW fs,
         fs = <<>> \/ \E f \in Frame : fs = <<f>>, CanRelay(L, fs)
  PROVE  Sized(Relay(L, fs), n) /\ Steady(L, Relay(L, fs)) /\ Relay(L, fs).out = L.out
<1>1. L.tx \in Seq(Frame) /\ L \in Link /\ Len(L.tx) <= TxCap
  BY FieldTypes DEF Sized
<1>2. L.tx \o fs \in Seq(Frame) /\ Len(L.tx \o fs) <= TxCap
  <2>1. CASE fs = <<>>
    BY <1>1, <2>1
  <2>2. CASE \E f \in Frame : fs = <<f>>
    <3>1. PICK f \in Frame : fs = <<f>>
      BY <2>2
    <3>2. Len(L.tx) < TxCap
      BY <3>1 DEF CanRelay
    <3> QED BY <1>1, <3>1, <3>2, LinkAssumption
  <2> QED BY <2>1, <2>2
<1> DEFINE t == L.tx \o fs
           M == [L EXCEPT !.tx = t, !.just = TRUE]
<1>3. Relay(L, fs) = M
  BY DEF Relay
<1>4. t \in Seq(Frame) /\ Len(t) <= TxCap
  BY <1>2
<1> HIDE DEF t
<1>5. M \in Link
  BY <1>1, <1>4, SetTx
<1>6. /\ M.tx = t /\ M.wp = L.wp /\ M.out = L.out /\ M.buf = L.buf
      /\ M.st = L.st /\ M.est = L.est /\ M.inb = L.inb
  BY <1>1 DEF Link
<1> QED BY <1>3, <1>4, <1>5, <1>6 DEF Sized, Steady

\* A sync packet is taken by the transport or lost.
LEMMA SendSyncOK ==
  ASSUME NEW n \in Nat, NEW L, Sized(L, n), NEW b \in BOOLEAN
  PROVE  Sized(SendSync(L, b), n) /\ Steady(L, SendSync(L, b)) /\ SendSync(L, b).out = L.out
BY RelayOK, SyncFrameType DEF SendSync, Steady

\* The outbound queue is replaced.
LEMMA PutOut ==
  ASSUME NEW n \in Nat, NEW L, Sized(L, n), NEW q \in Seq(Message), Len(q) <= MaxOutbound
  PROVE  Sized([L EXCEPT !.out = q], n) /\ Steady(L, [L EXCEPT !.out = q])
<1> DEFINE M == [L EXCEPT !.out = q]
<1>1. M \in Link
  BY SetOut DEF Sized
<1>2. /\ M.tx = L.tx /\ M.wp = L.wp /\ M.out = q /\ M.buf = L.buf
      /\ M.st = L.st /\ M.est = L.est /\ M.inb = L.inb
  BY DEF Sized, Link
<1> QED BY <1>1, <1>2 DEF Sized, Steady

\* There is room for one more message in a queue that is not full.
LEMMA InsertMessage ==
  ASSUME NEW q \in Seq(Message), NEW m \in Message, NEW p \in Nat, Len(q) < MaxOutbound
  PROVE  Insert(q, m, p) \in Seq(Message) /\ Len(Insert(q, m, p)) <= MaxOutbound
<1>0. [m EXCEPT !.prio = p] \in Message
  BY MessagePrio
<1>1. Insert(q, m, p) \in Seq(Message) /\ Len(Insert(q, m, p)) = Len(q) + 1
  BY <1>0, InsertType
<1>2. Len(q) \in Nat /\ MaxOutbound \in Nat
  BY LinkAssumption
<1> QED BY <1>1, <1>2

\* _send_msg() respects max_outbound.
LEMMA SendMsgOK ==
  ASSUME NEW n \in Nat, NEW L, Sized(L, n), NEW m \in Message, CanSend(L, m)
  PROVE  Sized(SendMsg(L, m), n) /\ Steady(L, SendMsg(L, m))
<1>1. PriorityOf(m) \in Nat
  BY DEF PriorityOf, PRIORITY_INTERNAL, PRIORITY_APP, PRIORITY_HANGUP
<1>2. L.out \in Seq(Message) /\ Len(L.out) < MaxOutbound
  BY FieldTypes DEF Sized, CanSend
<1>3. /\ Insert(L.out, m, PriorityOf(m)) \in Seq(Message)
      /\ Len(Insert(L.out, m, PriorityOf(m))) <= MaxOutbound
  BY <1>1, <1>2, InsertMessage
<1> QED BY <1>3, PutOut DEF SendMsg

\* _clear_waiting_send_by_id() only shortens the outbound queue.
LEMMA ClearWaitingOK ==
  ASSUME NEW n \in Nat, NEW L, Sized(L, n), NEW id
  PROVE  Sized(ClearWaiting(L, id), n) /\ Steady(L, ClearWaiting(L, id))
<1>1. L.out \in Seq(Message) /\ Len(L.out) <= MaxOutbound
  BY FieldTypes DEF Sized
<1>2. ClearById(L.out, id) \in Seq(Message) /\ Len(ClearById(L.out, id)) <= Len(L.out)
  BY <1>1, WithoutType DEF ClearById
<1>3. Len(ClearById(L.out, id)) \in Nat /\ Len(L.out) \in Nat /\ MaxOutbound \in Nat
  BY <1>1, <1>2, LinkAssumption
<1>4. Len(ClearById(L.out, id)) <= MaxOutbound
  BY <1>1, <1>2, <1>3
<1> QED BY <1>2, <1>4, PutOut DEF ClearWaiting

\* A message that is discarded does not touch state or plan.
LEMMA DiscardOK ==
  ASSUME NEW n \in Nat, NEW L, Sized(L, n), NEW f
  PROVE  Sized(Discard(L, f), n) /\ Steady(L, Discard(L, f))
BY ClearWaitingOK DEF Discard, Steady

\* An answer is queued within max_outbound, or nothing is.
LEMMA RespondOK ==
  ASSUME NEW n \in Nat, NEW L, Sized(L, n), NEW f \in Frame, f.code \in Codes, NEW b \in BOOLEAN
  PROVE  Sized(Respond(L, f, b), n) /\ Steady(L, Respond(L, f, b))
<1>1. ReplyTo(f, b) \in Message
  BY ReplyToType
<1> QED BY <1>1, SendMsgOK, ClearWaitingOK DEF Respond

-----------------------------------------------------------------------------
\* Plans

\* A route that is appended goes behind the plan, as far as it fits.
LEMMA AppendRouteType ==
  ASSUME NEW w \in Seq(States), Len(w) <= WpDepth, NEW r \in Seq(States)
  PROVE  /\ AppendRoute(w, r) \in Seq(States)
         /\ Len(AppendRoute(w, r)) <= WpDepth
         /\ Len(AppendRoute(w, r)) >= Len(w)
         /\ \A i \in 1..Len(w) : AppendRoute(w, r)[i] = w[i]
         /\ \A i \in 1..Len(AppendRoute(w, r)) :
              i > Len(w) => \E k \in 1..Len(r) : AppendRoute(w, r)[i] = r[k]
<1> DEFINE room == WpDepth - Len(w)
           n    == IF Len(r) < room THEN Len(r) ELSE room
           t    == SubSeq(r, 1, n)
<1>1. WpDepth \in Nat /\ Len(w) \in Nat /\ Len(r) \in Nat
  BY WpDepthAssumption
<1>2. n \in 0..Len(r) /\ n <= WpDepth - Len(w)
  BY <1>1
<1>3. AppendRoute(w, r) = w \o t
  BY DEF AppendRoute, Fitting
<1> HIDE DEF n
<1>4. t \in Seq(States) /\ Len(t) = n
  BY <1>1, <1>2
<1>5. \A k \in 1..n : t[k] = r[k] /\ k \in 1..Len(r)
  BY <1>1, <1>2
<1> HIDE DEF t
<1>6. Len(w \o t) = Len(w) + n /\ w \o t \in Seq(States)
  BY <1>4
<1>7. \A i \in 1..Len(w) : (w \o t)[i] = w[i]
  BY <1>4
<1>8. \A i \in 1..Len(w \o t) : i > Len(w) => (w \o t)[i] = t[i - Len(w)] /\ i - Len(w) \in 1..n
  BY <1>1, <1>2, <1>4, <1>6
<1> QED BY <1>1, <1>2, <1>3, <1>5, <1>6, <1>7, <1>8

\* The ring takes a state in front, or stays as it was.
LEMMA PrependType ==
  ASSUME NEW w \in Seq(States), Len(w) <= WpDepth, NEW s \in States
  PROVE  /\ PrependState(w, s) \in Seq(States)
         /\ Len(PrependState(w, s)) <= WpDepth
         /\ \/ PrependState(w, s) = w /\ Len(w) = WpDepth
            \/ PrependState(w, s) = <<s>> \o w
<1>1. WpDepth \in Nat /\ Len(w) \in Nat
  BY WpDepthAssumption
<1>2. <<s>> \o w \in Seq(States) /\ Len(<<s>> \o w) = Len(w) + 1
  OBVIOUS
<1> QED BY <1>1, <1>2 DEF PrependState

\* The plan is replaced.
LEMMA PutWp ==
  ASSUME NEW n \in Nat, NEW L, Sized(L, n), NEW w \in Seq(States), Len(w) <= WpDepth
  PROVE  LET M == [L EXCEPT !.wp = w]
         IN  Sized(M, n) /\ M.st = L.st /\ M.est = L.est /\ M.inb = L.inb /\ M.wp = w
<1> DEFINE M == [L EXCEPT !.wp = w]
<1>1. M \in Link
  BY SetWp DEF Sized
<1>2. /\ M.tx = L.tx /\ M.wp = w /\ M.out = L.out /\ M.buf = L.buf
      /\ M.st = L.st /\ M.est = L.est /\ M.inb = L.inb
  BY DEF Sized, Link
<1> QED BY <1>1, <1>2 DEF Sized

\* The states of a resync go in front of the plan, as far as they fit.
LEMMA InsertSyncStatesOK ==
  ASSUME NEW n \in Nat, NEW L, Sized(L, n)
  PROVE  LET M == InsertSyncStates(L)
         IN  /\ Sized(M, n) /\ M.st = L.st /\ M.est = L.est /\ M.inb = L.inb
             /\ \/ M.wp = L.wp /\ Len(L.wp) = WpDepth
                \/ M.wp = <<"SYNC_TENTATIVE">> \o L.wp
                \/ M.wp = <<"SYNC_RESYNC">> \o (<<"SYNC_TENTATIVE">> \o L.wp)
<1> DEFINE w == PrependState(L.wp, "SYNC_TENTATIVE")
           v == PrependState(w, "SYNC_RESYNC")
<1>1. L.wp \in Seq(States) /\ Len(L.wp) <= WpDepth
  BY FieldTypes DEF Sized
<1>2. "SYNC_TENTATIVE" \in States /\ "SYNC_RESYNC" \in States
  BY DEF States
<1>3. /\ w \in Seq(States) /\ Len(w) <= WpDepth
      /\ (w = L.wp /\ Len(L.wp) = WpDepth) \/ w = <<"SYNC_TENTATIVE">> \o L.wp
  BY <1>1, <1>2, PrependType
<1> HIDE DEF w
<1>4. /\ v \in Seq(States) /\ Len(v) <= WpDepth
      /\ (v = w /\ Len(w) = WpDepth) \/ v = <<"SYNC_RESYNC">> \o w
  BY <1>2, <1>3, PrependType
<1>5. Len(L.wp) = WpDepth /\ w = L.wp => v = w
  BY WpDepthAssumption DEF v, PrependState
<1>6. InsertSyncStates(L) = [L EXCEPT !.wp = v]
  BY DEF InsertSyncStates, w
<1> HIDE DEF v
<1>7. LET M == [L EXCEPT !.wp = v]
      IN  Sized(M, n) /\ M.st = L.st /\ M.est = L.est /\ M.inb = L.inb /\ M.wp = v
  BY <1>4, PutWp
<1> QED BY <1>3, <1>4, <1>5, <1>6, <1>7

-----------------------------------------------------------------------------
\* _process_input_buffer()

\* The buffer is replaced by a shorter one.
LEMMA PutBuf ==
  ASSUME NEW n \in Nat, NEW L, Sized(L, n), NEW b \in Seq(Frame), Len(b) <= Len(L.buf)
  PROVE  Sized([L EXCEPT !.buf = b], n) /\ Steady(L, [L EXCEPT !.buf = b])
<1> DEFINE M == [L EXCEPT !.buf = b]
<1>1. M \in Link
  BY SetBuf DEF Sized
<1>2. /\ M.tx = L.tx /\ M.wp = L.wp /\ M.out = L.out /\ M.buf = b
      /\ M.st = L.st /\ M.est = L.est /\ M.inb = L.inb
  BY DEF Sized, Link
<1>3. Len(L.buf) \in Nat /\ Len(b) \in Nat /\ Len(L.buf) <= n
  BY FieldTypes DEF Sized
<1> QED BY <1>1, <1>2, <1>3 DEF Sized, Steady

\* A non-empty set of naturals below a bound has a greatest element.
LEMMA GreatestNat ==
  ASSUME NEW N \in Nat, NEW S \in SUBSET (1..N), S # {}
  PROVE  \E n \in S : \A k \in S : k <= n
<1> DEFINE T == {N - k : k \in S}
<1>1. T \in SUBSET Nat /\ T # {}
  OBVIOUS
<1>2. PICK t \in T : \A u \in T : t <= u
  <2> HIDE DEF T
  <2> QED BY <1>1, LeastNat
<1>3. PICK n \in S : t = N - n
  OBVIOUS
<1>4. ASSUME NEW k \in S PROVE k <= n
  <2>1. N - k \in T
    OBVIOUS
  <2>2. N - n <= N - k
    <3> HIDE DEF T
    <3> QED BY <1>2, <1>3, <2>1
  <2> QED BY <2>2
<1> QED BY <1>4

\* Where there is a sync packet, there is a first run of them.
LEMMA FirstRunExists ==
  ASSUME NEW b \in Seq(Frame), SyncsIn(b) # {}
  PROVE  FirstRun(b) # {} /\ FirstRun(b) \in SUBSET (1..Len(b))
<1>1. SyncsIn(b) \in SUBSET Nat
  BY DEF SyncsIn
<1>2. PICK i \in SyncsIn(b) : \A k \in SyncsIn(b) : i <= k
  BY <1>1, LeastNat
<1>3. i \in 1..Len(b) /\ IsSync(b[i]) /\ Len(b) \in Nat
  BY DEF SyncsIn
<1>4. ASSUME NEW j \in 1..i, NEW k \in 1..j, IsSync(b[k]) PROVE IsSync(b[j])
  <2>1. k \in SyncsIn(b)
    BY <1>3, <1>4 DEF SyncsIn
  <2>2. j = i
    BY <1>2, <1>3, <2>1
  <2> QED BY <1>3, <2>2
<1>5. i \in FirstRun(b)
  BY <1>4 DEF FirstRun
<1> QED BY <1>5 DEF FirstRun, SyncsIn

\* _process_for_sync() only shortens the input buffer.
LEMMA ConsumeSyncsOK ==
  ASSUME NEW n \in Nat, NEW L, Sized(L, n), SyncsIn(L.buf) # {}
  PROVE  Sized(ConsumeSyncs(L), n) /\ Steady(L, ConsumeSyncs(L))
<1> DEFINE run  == FirstRun(L.buf)
           last == CHOOSE i \in run : \A j \in run : j <= i
           cut  == IF last < Len(L.buf) THEN last + 1 ELSE last
           set  == \E i \in run : L.buf[i].reply
           ans  == \E i \in run : L.buf[i].expect
           b    == SubSeq(L.buf, cut, Len(L.buf))
           K    == [L EXCEPT !.buf = b]
           M    == [L EXCEPT !.buf = b, !.syncRx = @ \/ set, !.syncIn = @ \/ set \/ ans]
<1>1. L \in Link /\ L.buf \in Seq(Frame) /\ Len(L.buf) \in Nat
  BY FieldTypes DEF Sized
<1>2. run # {} /\ run \in SUBSET (1..Len(L.buf))
  BY <1>1, FirstRunExists
<1>3. last \in 1..Len(L.buf)
  <2> HIDE DEF run
  <2>1. \E i \in run : \A j \in run : j <= i
    BY <1>1, <1>2, GreatestNat
  <2>2. last \in run
    BY <2>1
  <2> HIDE DEF last
  <2> QED BY <1>2, <2>2
<1>4. cut \in 1..Len(L.buf)
  <2> HIDE DEF last
  <2> QED BY <1>1, <1>3
<1>5. b \in Seq(Frame) /\ Len(b) <= Len(L.buf)
  <2> HIDE DEF cut
  <2> QED BY <1>1, <1>4
<1>6. ConsumeSyncs(L) = IF ans THEN SendSync(M, FALSE) ELSE M
  BY DEF ConsumeSyncs
<1>7. set \in BOOLEAN /\ ans \in BOOLEAN
  OBVIOUS
<1> HIDE DEF run, last, cut, set, ans, b
<1>8. Sized(K, n) /\ Steady(L, K)
  BY <1>5, PutBuf
<1> DEFINE rx == L.syncRx \/ set
           in == L.syncIn \/ set \/ ans
<1>9. rx \in BOOLEAN /\ in \in BOOLEAN
  BY <1>7
<1>10. M = [K EXCEPT !.syncRx = rx, !.syncIn = in]
  BY <1>1 DEF Link
<1> HIDE DEF rx, in
<1> HIDE DEF K
<1>11. [K EXCEPT !.syncRx = rx, !.syncIn = in] \in Link
  BY <1>8, <1>9 DEF Link, Sized
<1>12. LET N == [K EXCEPT !.syncRx = rx, !.syncIn = in]
       IN  /\ N.tx = K.tx /\ N.wp = K.wp /\ N.out = K.out /\ N.buf = K.buf
           /\ N.st = K.st /\ N.est = K.est /\ N.inb = K.inb
  BY <1>8 DEF Sized, Link
<1>13. Sized(M, n) /\ Steady(L, M)
  BY <1>8, <1>10, <1>11, <1>12 DEF Sized, Steady
<1> HIDE DEF M
<1> QED BY <1>6, <1>13, SendSyncOK DEF Steady

\* What the parser does to the plan: nothing, or it plans a resync.
Replanned(L, M) ==
  \/ M.wp = L.wp
  \/ M.wp = <<"SYNC_TENTATIVE">> \o L.wp
  \/ M.wp = <<"SYNC_RESYNC">> \o (<<"SYNC_TENTATIVE">> \o L.wp)

\* The count of parse errors is replaced.
LEMMA PutCount ==
  ASSUME NEW n \in Nat, NEW L, Sized(L, n), NEW k \in 0..MAX_PARSE_FAILURES
  PROVE  Sized([L EXCEPT !.perr = k], n) /\ Steady(L, [L EXCEPT !.perr = k])
<1> DEFINE M == [L EXCEPT !.perr = k]
<1>1. L \in Link
  BY DEF Sized
<1>2. M \in Link
  BY <1>1 DEF Link
<1>3. /\ M.tx = L.tx /\ M.wp = L.wp /\ M.out = L.out /\ M.buf = L.buf
      /\ M.st = L.st /\ M.est = L.est /\ M.inb = L.inb
  BY <1>1 DEF Link
<1> QED BY <1>2, <1>3 DEF Sized, Steady

\* The inbound queue is replaced.
LEMMA PutInb ==
  ASSUME NEW n \in Nat, NEW L, Sized(L, n), NEW b \in Seq(Frame)
  PROVE  LET M == [L EXCEPT !.inb = b]
         IN  Sized(M, n) /\ M.st = L.st /\ M.wp = L.wp /\ M.est = L.est /\ M.inb = b
<1> DEFINE M == [L EXCEPT !.inb = b]
<1>1. M \in Link
  BY SetInb DEF Sized
<1>2. /\ M.tx = L.tx /\ M.wp = L.wp /\ M.out = L.out /\ M.buf = L.buf
      /\ M.st = L.st /\ M.est = L.est /\ M.inb = b
  BY DEF Sized, Link
<1> QED BY <1>1, <1>2 DEF Sized

\* The parser files at most one message, or plans a resync.
LEMMA ParseOK ==
  ASSUME NEW n \in Nat, NEW L, Sized(L, n)
  PROVE  LET M == Parse(L)
         IN  /\ Sized(M, n) /\ M.st = L.st /\ M.est = L.est /\ Replanned(L, M)
             /\ M.inb = L.inb \/ \E f \in Frame : M.inb = <<f>>
<1>1. L \in Link /\ L.buf \in Seq(Frame) /\ L.perr \in 0..MAX_PARSE_FAILURES
  BY FieldTypes DEF Sized, Link
<1>2. CASE L.buf = <<>>
  BY <1>2 DEF Parse, Replanned
<1>3. CASE L.buf # <<>>
  <2> DEFINE f == Head(L.buf)
             T == [L EXCEPT !.buf = Tail(L.buf)]
             k == IF L.perr < MAX_PARSE_FAILURES THEN L.perr + 1 ELSE L.perr
             N == [T EXCEPT !.perr = k]
             z == 0
             P == [T EXCEPT !.perr = z, !.inb = <<f>>]
  <2>1. f \in Frame /\ Tail(L.buf) \in Seq(Frame) /\ Len(Tail(L.buf)) <= Len(L.buf)
    BY <1>1, <1>3
  <2>2. Sized(T, n) /\ Steady(L, T)
    BY <2>1, PutBuf
  <2>3. k \in 0..MAX_PARSE_FAILURES /\ z \in 0..MAX_PARSE_FAILURES
    BY <1>1 DEF MAX_PARSE_FAILURES
  <2>4. Parse(L) = CASE f.code = "JUNK" -> InsertSyncStates(L)
            [] f.code = "BAD"  -> IF k >= MAX_PARSE_FAILURES THEN InsertSyncStates(N) ELSE N
            [] OTHER -> P
    BY <1>3 DEF Parse
  <2> HIDE DEF f, T, k, z
  <2>5. Sized(N, n) /\ Steady(T, N)
    BY <2>2, <2>3, PutCount
  <2>6. Sized(P, n) /\ P.st = T.st /\ P.wp = T.wp /\ P.est = T.est /\ P.inb = <<f>>
    <3> DEFINE Z == [T EXCEPT !.perr = z]
               b == <<f>>
    <3>1. Sized(Z, n) /\ Steady(T, Z)
      BY <2>2, <2>3, PutCount
    <3>2. P = [Z EXCEPT !.inb = b]
      BY <2>2 DEF Sized, Link
    <3>3. b \in Seq(Frame)
      BY <2>1
    <3> HIDE DEF Z, P, b
    <3>4. P.inb = b /\ Sized(P, n) /\ P.st = Z.st /\ P.wp = Z.wp /\ P.est = Z.est
      BY <3>1, <3>2, <3>3, PutInb
    <3> QED BY <3>1, <3>4 DEF Steady, b
  <2> HIDE DEF N, P
  <2>7. Steady(L, N)
    BY <2>2, <2>5 DEF Steady
  <2>8. CASE f.code = "JUNK"
    <3>1. Parse(L) = InsertSyncStates(L)
      BY <2>4, <2>8
    <3> QED BY <3>1, InsertSyncStatesOK DEF Replanned
  <2>9. CASE f.code = "BAD"
    <3>1. Parse(L) = IF k >= MAX_PARSE_FAILURES THEN InsertSyncStates(N) ELSE N
      BY <2>4, <2>9
    <3>2. LET M == InsertSyncStates(N)
          IN  Sized(M, n) /\ M.st = N.st /\ M.est = N.est /\ M.inb = N.inb /\ Replanned(N, M)
      BY <2>5, InsertSyncStatesOK DEF Replanned
    <3> QED BY <2>5, <2>7, <3>1, <3>2 DEF Steady, Replanned
  <2>10. CASE f.code # "JUNK" /\ f.code # "BAD"
    <3>1. Parse(L) = P
      BY <2>4, <2>10
    <3> QED BY <2>1, <2>2, <2>6, <3>1 DEF Steady, Replanned
  <2> QED BY <2>8, <2>9, <2>10
<1> QED BY <1>2, <1>3

\* A message is filed, and a resync is planned, only where data is accepted.
LEMMA ProcessInputOK ==
  ASSUME NEW n \in Nat, NEW L, Sized(L, n), L.inb = <<>>
  PROVE  LET M == ProcessInput(L)
         IN  /\ Sized(M, n) /\ M.st = L.st /\ M.est = L.est
             /\ \/ Steady(L, M)
                \/ /\ L.st \in Accepting
                   /\ Replanned(L, M)
                   /\ M.inb = <<>> \/ \E f \in Frame : M.inb = <<f>>
<1>1. CASE L.st = "SYNC_RESYNC" /\ SyncsIn(L.buf) = {}
  <2>1. ProcessInput(L) = [L EXCEPT !.buf = <<>>]
    BY <1>1 DEF ProcessInput
  <2> DEFINE e == <<>>
  <2>2. e \in Seq(Frame) /\ Len(e) <= Len(L.buf)
    BY FieldTypes DEF Sized
  <2>3. ProcessInput(L) = [L EXCEPT !.buf = e]
    BY <2>1
  <2> HIDE DEF e
  <2>4. LET M == [L EXCEPT !.buf = e]
        IN  /\ Sized(M, n) /\ M.st = L.st /\ M.est = L.est
            /\ M.route = L.route /\ M.inb = L.inb
    BY <2>2, PutBuf
  <2> QED BY <2>3, <2>4 DEF Steady
<1>2. CASE L.st = "SYNC_RESYNC" /\ SyncsIn(L.buf) # {}
  <2> DEFINE C == ConsumeSyncs(L)
             K == IF C.cast THEN SendSync(C, TRUE) ELSE C
  <2>1. ProcessInput(L) = Parse(K)
    BY <1>2 DEF ProcessInput
  <2>2. Sized(C, n) /\ Steady(L, C)
    BY <1>2, ConsumeSyncsOK
  <2> HIDE DEF C
  <2>3. Sized(K, n) /\ Steady(L, K)
    BY <2>2, SendSyncOK DEF Steady
  <2> HIDE DEF K
  <2> DEFINE M == Parse(K)
  <2>4. /\ Sized(M, n) /\ M.st = K.st /\ M.est = K.est /\ Replanned(K, M)
        /\ M.inb = K.inb \/ \E f \in Frame : M.inb = <<f>>
    BY <2>3, ParseOK
  <2> HIDE DEF M
  <2>5. /\ Sized(M, n) /\ M.st = L.st /\ M.est = L.est /\ Replanned(L, M)
        /\ M.inb = <<>> \/ \E f \in Frame : M.inb = <<f>>
    BY <2>3, <2>4 DEF Steady, Replanned
  <2>6. L.st \in Accepting
    BY <1>2 DEF Accepting
  <2>7. ProcessInput(L) = M
    BY <2>1 DEF M
  <2> QED BY <2>5, <2>6, <2>7
<1>3. CASE L.st \in {"SYNC_TENTATIVE", "PENDING_AUTH", "LIVE", "PENDING_HANGUP"}
  <2> DEFINE M == Parse(L)
  <2>1. ProcessInput(L) = M
    BY <1>3 DEF ProcessInput
  <2>2. /\ Sized(M, n) /\ M.st = L.st /\ M.est = L.est /\ Replanned(L, M)
        /\ M.inb = <<>> \/ \E f \in Frame : M.inb = <<f>>
    BY ParseOK
  <2> HIDE DEF M
  <2> QED BY <1>3, <2>1, <2>2 DEF Accepting
<1>4. CASE L.st \notin Accepting
  <2>1. ProcessInput(L) = L
    BY <1>4 DEF ProcessInput, Accepting
  <2> QED BY <2>1 DEF Steady
<1> QED BY <1>1, <1>2, <1>3, <1>4 DEF Accepting

-----------------------------------------------------------------------------
\* _churn_inbound()

\* What a handler does to the plan: nothing, or it appends a route that leads
\* on from a link that is connected, or to the end of the session.
Onward == {<<"LIVE">>, <<"PENDING_AUTH", "LIVE">>, <<"PENDING_HANGUP", "HUNGUP">>}

Extended(L, M) == M.wp = L.wp \/ \E r \in Onward : M.wp = AppendRoute(L.wp, r)

\* What a handler leaves: est is as it was, or a CONNECT was answered.
HandledOK(L, M, n) == /\ Sized(M, n) /\ M.st = L.st /\ M.inb = L.inb
                      /\ M.est = L.est \/ M.est
                      /\ Extended(L, M)

\* The routes that handlers append are made of states.
LEMMA OnwardType == Onward \in SUBSET Seq(States)
BY DEF Onward, States

\* A handler may leave state and plan alone.
LEMMA SteadyHandled ==
  ASSUME NEW n \in Nat, NEW L, NEW M, Sized(M, n), Steady(L, M)
  PROVE  HandledOK(L, M, n)
BY DEF Steady, HandledOK, Extended

\* SYNC: state and plan are left alone.
LEMMA OnSyncOK ==
  ASSUME NEW n \in Nat, NEW L, Sized(L, n), NEW f
  PROVE  HandledOK(L, OnSync(L, f), n)
<1> DEFINE K == [L EXCEPT !.syncRx = TRUE, !.syncIn = TRUE, !.cast = FALSE]
           Q == [L EXCEPT !.syncIn = TRUE]
<1>1. L \in Link
  BY DEF Sized
<1>2. K \in Link /\ Q \in Link
  BY <1>1, SetFlags
<1>3. /\ K.tx = L.tx /\ K.wp = L.wp /\ K.out = L.out /\ K.buf = L.buf
      /\ K.st = L.st /\ K.est = L.est /\ K.inb = L.inb
  BY <1>1 DEF Link
<1>4. /\ Q.tx = L.tx /\ Q.wp = L.wp /\ Q.out = L.out /\ Q.buf = L.buf
      /\ Q.st = L.st /\ Q.est = L.est /\ Q.inb = L.inb
  BY <1>1 DEF Link
<1>5. OnSync(L, f) = IF f.reply THEN Discard(K, f) ELSE SendSync(Q, FALSE)
  BY DEF OnSync
<1> HIDE DEF K, Q
<1>6. Sized(K, n) /\ Sized(Q, n) /\ Steady(L, K) /\ Steady(L, Q)
  BY <1>2, <1>3, <1>4 DEF Sized, Steady
<1>7. Sized(Discard(K, f), n) /\ Steady(K, Discard(K, f))
  BY <1>6, DiscardOK
<1>8. Sized(SendSync(Q, FALSE), n) /\ Steady(Q, SendSync(Q, FALSE))
  BY <1>6, SendSyncOK
<1>9. Sized(OnSync(L, f), n) /\ Steady(L, OnSync(L, f))
  BY <1>5, <1>6, <1>7, <1>8 DEF Steady
<1> QED BY <1>9, SteadyHandled

\* CONNECT: the reply establishes the link and may lead on to LIVE.
LEMMA OnConnectOK ==
  ASSUME NEW n \in Nat, NEW L, Sized(L, n), NEW f \in Frame, f.code = "CONNECT"
  PROVE  HandledOK(L, OnConnect(L, f), n)
<1>0. L \in Link /\ L.wp \in Seq(States) /\ Len(L.wp) <= WpDepth
  BY FieldTypes DEF Sized
<1>1. CASE f.reply
  <2> DEFINE route == IF ~L.est /\ L.opts.auth THEN <<"PENDING_AUTH", "LIVE">> ELSE <<"LIVE">>
             wp    == IF L.est \/ IsStable(L.wp) THEN AppendRoute(L.wp, route) ELSE L.wp
             P     == [L EXCEPT !.wp = wp]
             M     == [L EXCEPT !.wp = wp, !.est = TRUE]
  <2>1. OnConnect(L, f) = Discard(M, f)
    BY <1>1 DEF OnConnect
  <2>2. route \in Onward
    BY DEF Onward
  <2>3. route \in Seq(States)
    BY <2>2, OnwardType
  <2> HIDE DEF route
  <2>4. AppendRoute(L.wp, route) \in Seq(States) /\ Len(AppendRoute(L.wp, route)) <= WpDepth
    BY <1>0, <2>3, AppendRouteType
  <2>5. wp \in Seq(States) /\ Len(wp) <= WpDepth
    BY <1>0, <2>4
  <2>6. wp = L.wp \/ wp = AppendRoute(L.wp, route)
    OBVIOUS
  <2> HIDE DEF wp
  <2>7. Sized(P, n) /\ P.st = L.st /\ P.inb = L.inb /\ P.wp = wp
    BY <2>5, PutWp
  <2>8. M = [P EXCEPT !.est = TRUE]
    BY <1>0 DEF Link
  <2> HIDE DEF P
  <2>9. [P EXCEPT !.est = TRUE] \in Link
    BY <2>7, SetFlags DEF Sized
  <2>10. /\ M.tx = P.tx /\ M.wp = P.wp /\ M.out = P.out /\ M.buf = P.buf
         /\ M.st = P.st /\ M.est /\ M.inb = P.inb
    BY <2>7, <2>8 DEF Sized, Link
  <2> HIDE DEF M
  <2>11. Sized(M, n)
    BY <2>7, <2>8, <2>9, <2>10 DEF Sized
  <2>12. Sized(Discard(M, f), n) /\ Steady(M, Discard(M, f))
    BY <2>11, DiscardOK
  <2> QED BY <2>1, <2>2, <2>6, <2>7, <2>10, <2>12 DEF HandledOK, Extended, Steady
<1>2. CASE ~f.reply
  <2>1. f.code \in Codes
    BY DEF Codes
  <2>2. ReplyTo(f, FALSE) \in Message
    BY <2>1, ReplyToType
  <2> DEFINE a   == Header(ReplyTo(f, FALSE))
             ack == <<a>>
  <2>3. OnConnect(L, f) = IF f.expect THEN IF CanRelay(L, ack) THEN Relay(L, ack) ELSE L ELSE L
    BY <1>2 DEF OnConnect
  <2>4. a \in Frame
    BY <2>2, HeaderType
  <2> HIDE DEF a
  <2>5. CanRelay(L, ack) => Sized(Relay(L, ack), n) /\ Steady(L, Relay(L, ack))
    BY <2>4, RelayOK
  <2>6. Sized(OnConnect(L, f), n) /\ Steady(L, OnConnect(L, f))
    BY <2>3, <2>5 DEF Steady
  <2> QED BY <2>6, SteadyHandled
<1> QED BY <1>1, <1>2

\* HANGUP: the query may plan the end of the session.
LEMMA OnHangupOK ==
  ASSUME NEW n \in Nat, NEW L, Sized(L, n), NEW f \in Frame, f.code = "HANGUP"
  PROVE  HandledOK(L, OnHangup(L, f), n)
<1> DEFINE M == [L EXCEPT !.hupR = TRUE]
           R == Respond(M, f, FALSE)
           r == <<"PENDING_HANGUP", "HUNGUP">>
<1>1. M \in Link
  BY DEF Sized, Link
<1>2. /\ M.tx = L.tx /\ M.wp = L.wp /\ M.out = L.out /\ M.buf = L.buf
      /\ M.st = L.st /\ M.est = L.est /\ M.inb = L.inb
  BY DEF Sized, Link
<1>3. Sized(M, n) /\ Steady(L, M)
  BY <1>1, <1>2 DEF Sized, Steady
<1>4. OnHangup(L, f) \in {Discard(M, f), R, M, [R EXCEPT !.wp = AppendRoute(R.wp, r)]}
  BY DEF OnHangup
<1> HIDE DEF M
<1>5. f.code \in Codes
  BY DEF Codes
<1>6. Sized(R, n) /\ Steady(M, R)
  BY <1>3, <1>5, RespondOK
<1>7. Sized(Discard(M, f), n) /\ Steady(M, Discard(M, f))
  BY <1>3, DiscardOK
<1> HIDE DEF R
<1>8. r \in Onward /\ r \in Seq(States)
  BY OnwardType DEF Onward
<1> HIDE DEF r
<1> DEFINE w == AppendRoute(R.wp, r)
           H == [R EXCEPT !.wp = w]
<1>9. w \in Seq(States) /\ Len(w) <= WpDepth
  <2>1. R.wp \in Seq(States) /\ Len(R.wp) <= WpDepth
    BY <1>6, FieldTypes DEF Sized
  <2> QED BY <1>8, <2>1, AppendRouteType
<1>10. w = AppendRoute(L.wp, r)
  BY <1>3, <1>6 DEF Steady
<1> HIDE DEF w
<1>11. Sized(H, n) /\ H.st = R.st /\ H.est = R.est /\ H.inb = R.inb /\ H.wp = w
  BY <1>6, <1>9, PutWp
<1>12. HandledOK(L, H, n)
  <2> HIDE DEF H
  <2> QED BY <1>3, <1>6, <1>8, <1>10, <1>11 DEF HandledOK, Extended, Steady
<1>13. HandledOK(L, R, n) /\ HandledOK(L, M, n) /\ HandledOK(L, Discard(M, f), n)
  BY <1>3, <1>6, <1>7 DEF HandledOK, Extended, Steady
<1>14. OnHangup(L, f) \in {Discard(M, f), R, M, H}
  BY <1>4 DEF w
<1> QED BY <1>12, <1>13, <1>14

\* LOG, WHO and application messages leave state and plan alone.
LEMMA OnDialogOK ==
  ASSUME NEW n \in Nat, NEW L, Sized(L, n), NEW f \in Frame, f.code \in Codes, NEW app \in Answers
  PROVE  /\ HandledOK(L, OnLog(L, f), n)
         /\ HandledOK(L, OnWho(L, f), n)
         /\ HandledOK(L, OnApplication(L, f, app), n)
<1>1. Sized(Discard(L, f), n) /\ Steady(L, Discard(L, f))
  BY DiscardOK
<1>2. \A b \in BOOLEAN : Sized(Respond(L, f, b), n) /\ Steady(L, Respond(L, f, b))
  BY RespondOK
<1>3. L.opts.ident \in BOOLEAN
  BY DEF Sized, Link, Options
<1>4. \A M \in {Discard(L, f)} \cup {Respond(L, f, b) : b \in BOOLEAN} : HandledOK(L, M, n)
  BY <1>1, <1>2, SteadyHandled
<1>5. OnLog(L, f) \in {Discard(L, f)} \cup {Respond(L, f, b) : b \in BOOLEAN}
  BY DEF OnLog
<1>6. OnWho(L, f) \in {Discard(L, f)} \cup {Respond(L, f, b) : b \in BOOLEAN}
  BY <1>3 DEF OnWho
<1>7. OnApplication(L, f, app) \in {Discard(L, f)} \cup {Respond(L, f, b) : b \in BOOLEAN}
  <2>1. Answer(f, app) \in {"drop", "ack", "dialog"}
    BY DEF Answer, Answers
  <2> QED BY <2>1 DEF OnApplication
<1> QED BY <1>4, <1>5, <1>6, <1>7

\* _churn_inbound() empties the inbound queue.
LEMMA ChurnInboundOK ==
  ASSUME NEW n \in Nat, NEW L, Sized(L, n), NEW app \in Answers,
         L.inb = <<>> \/ \E f \in Frame : L.inb = <<f>>
  PROVE  LET M == ChurnInbound(L, app)
         IN  /\ Sized(M, n) /\ M.st = L.st /\ M.inb = <<>>
             /\ M.est = L.est \/ M.est
             /\ Extended(L, M)
             /\ L.inb = <<>> => M = L
<1>1. CASE L.inb = <<>>
  BY <1>1 DEF ChurnInbound, Extended
<1>2. CASE L.inb # <<>>
  <2>1. PICK f \in Frame : L.inb = <<f>>
    BY <1>2
  <2> DEFINE e == <<>>
             K == [L EXCEPT !.inb = e]
             M == ChurnInbound(L, app)
  <2>2. /\ f.code = "SYNC"        => M = OnSync(K, f)
        /\ f.code = "CONNECT"     => M = OnConnect(K, f)
        /\ f.code = "HANGUP"      => M = OnHangup(K, f)
        /\ f.code = "LOG"         => M = OnLog(K, f)
        /\ f.code = "WHO"         => M = OnWho(K, f)
        /\ f.code = "APPLICATION" => M = OnApplication(K, f, app)
        /\ f.code \notin Codes    => M = K
    BY <2>1 DEF ChurnInbound, Codes
  <2>3. e \in Seq(Frame)
    OBVIOUS
  <2> HIDE DEF e
  <2>4. Sized(K, n) /\ K.st = L.st /\ K.wp = L.wp /\ K.est = L.est /\ K.inb = e
    BY <2>3, PutInb
  <2> HIDE DEF K, M
  <2>5. HandledOK(K, M, n)
    <3>1. CASE f.code \notin Codes
      BY <2>2, <2>4, <3>1, SteadyHandled DEF Steady
    <3>2. CASE f.code \in Codes
      BY <2>2, <2>4, <3>2, OnSyncOK, OnConnectOK, OnHangupOK, OnDialogOK DEF Codes
    <3> QED BY <3>1, <3>2
  <2>6. M.inb = e /\ Sized(M, n) /\ M.st = L.st /\ Extended(L, M) /\ (M.est = L.est \/ M.est)
    BY <2>4, <2>5 DEF HandledOK, Extended
  <2> QED BY <1>2, <2>6 DEF e, M
<1> QED BY <1>1, <1>2

-----------------------------------------------------------------------------
\* _churn_outbound() and the keepalive

\* A message goes back into the queue it was taken from.
LEMMA PutBack ==
  ASSUME NEW n \in Nat, NEW L, Sized(L, n), Len(L.out) < MaxOutbound,
         NEW m \in Message, NEW p \in Nat
  PROVE  LET M == [L EXCEPT !.out = Insert(@, m, p)] IN Sized(M, n) /\ Steady(L, M)
<1> DEFINE q == Insert(L.out, m, p)
<1>1. L.out \in Seq(Message)
  BY FieldTypes DEF Sized
<1>2. q \in Seq(Message) /\ Len(q) <= MaxOutbound
  BY <1>1, InsertMessage
<1> HIDE DEF q
<1>3. Sized([L EXCEPT !.out = q], n) /\ Steady(L, [L EXCEPT !.out = q])
  BY <1>2, PutOut
<1> QED BY <1>3 DEF q

\* The transport took a message.
LEMMA AfterRelayOK ==
  ASSUME NEW n \in Nat, NEW L, Sized(L, n), NEW m \in Message, CanRelay(L, Serialized(m))
  PROVE  LET M == AfterRelay(L, m) IN Sized(M, n) /\ Steady(L, M) /\ M.out = L.out
<1> DEFINE K == Relay(L, Serialized(m))
           h == K.hupT \/ m.code = "HANGUP"
           M == [K EXCEPT !.hupT = h]
<1>1. Sized(K, n) /\ Steady(L, K) /\ K.out = L.out
  BY SerializeType, RelayOK
<1>2. AfterRelay(L, m) = M
  BY DEF AfterRelay
<1> HIDE DEF K
<1>3. h \in BOOLEAN
  OBVIOUS
<1> HIDE DEF h
<1>4. M \in Link
  BY <1>1, <1>3 DEF Sized, Link
<1>5. /\ M.tx = K.tx /\ M.wp = K.wp /\ M.out = K.out /\ M.buf = K.buf
      /\ M.st = K.st /\ M.est = K.est /\ M.inb = K.inb
  BY <1>1 DEF Sized, Link
<1> HIDE DEF M
<1> QED BY <1>1, <1>2, <1>4, <1>5 DEF Sized, Steady

\* A message that was taken out of the queue finds its place again.
LEMMA TransmitOK ==
  ASSUME NEW n \in Nat, NEW L, Sized(L, n), Len(L.out) < MaxOutbound,
         NEW m \in Message, NEW was \in Nat
  PROVE  Sized(Transmit(L, m, was), n) /\ Steady(L, Transmit(L, m, was))
<1> DEFINE s == AfterSerialize(m)
           p == IF was = PRIORITY_WAITING THEN was
                ELSE IF m.code = "APPLICATION" THEN PRIORITY_APP ELSE PRIORITY_INTERNAL
           R == AfterRelay(L, m)
           t == [s EXCEPT !.sent = TRUE]
           X == [L EXCEPT !.out = Insert(@, s, p)]
           Y == [R EXCEPT !.out = Insert(@, t, PRIORITY_WAITING)]
<1>1. s \in Message /\ t \in Message
  BY SerializeType
<1>2. p \in Nat /\ PRIORITY_WAITING \in Nat
  BY DEF PRIORITY_WAITING, PRIORITY_APP, PRIORITY_INTERNAL
<1>3. Transmit(L, m, was) = IF ~CanRelay(L, Serialized(m)) THEN X ELSE IF m.expect THEN Y ELSE R
  BY DEF Transmit
<1>4. Sized(X, n) /\ Steady(L, X)
  <2> HIDE DEF s, p, t
  <2> QED BY <1>1, <1>2, PutBack
<1>5. CanRelay(L, Serialized(m)) => Sized(R, n) /\ Steady(L, R) /\ R.out = L.out
  BY AfterRelayOK
<1> HIDE DEF s, p, t, R
<1>6. CanRelay(L, Serialized(m)) => Sized(Y, n) /\ Steady(R, Y)
  BY <1>1, <1>2, <1>5, PutBack
<1> HIDE DEF X, Y
<1> QED BY <1>3, <1>4, <1>5, <1>6 DEF Steady

\* An unanswered message is counted.
LEMMA GiveUpOK ==
  ASSUME NEW n \in Nat, NEW L, Sized(L, n)
  PROVE  Sized(GiveUp(L), n) /\ Steady(L, GiveUp(L))
<1> DEFINE u == IF L.unackd < MaxUnackd THEN L.unackd + 1 ELSE L.unackd
           M == [L EXCEPT !.unackd = u]
<1>1. L \in Link /\ L.unackd \in 0..MaxUnackd
  BY DEF Sized, Link
<1>2. u \in 0..MaxUnackd
  BY <1>1, LinkAssumption
<1>3. GiveUp(L) = M
  BY DEF GiveUp
<1> HIDE DEF u
<1>4. M \in Link
  BY <1>1, <1>2 DEF Link
<1>5. /\ M.tx = L.tx /\ M.wp = L.wp /\ M.out = L.out /\ M.buf = L.buf
      /\ M.st = L.st /\ M.est = L.est /\ M.inb = L.inb
  BY <1>1 DEF Link
<1> QED BY <1>3, <1>4, <1>5 DEF Sized, Steady

\* _churn_outbound() respects max_outbound.
LEMMA ChurnOutboundOK ==
  ASSUME NEW n \in Nat, NEW L, Sized(L, n), NEW timedOut \in BOOLEAN
  PROVE  Sized(ChurnOutbound(L, timedOut), n) /\ Steady(L, ChurnOutbound(L, timedOut))
<1>1. CASE L.out = <<>>
  BY <1>1 DEF ChurnOutbound, Steady
<1>2. CASE L.out # <<>>
  <2> DEFINE m == Head(L.out)
             t == Tail(L.out)
             M == [L EXCEPT !.out = t]
             W == [M EXCEPT !.out = Insert(@, m, PRIORITY_WAITING)]
  <2>1. L.out \in Seq(Message) /\ Len(L.out) <= MaxOutbound
    BY FieldTypes DEF Sized
  <2>2. m \in Message /\ t \in Seq(Message) /\ Len(t) = Len(L.out) - 1 /\ Len(L.out) \in Nat
    BY <1>2, <2>1
  <2>3. Len(t) < MaxOutbound /\ Len(t) <= MaxOutbound
    BY <2>1, <2>2, LinkAssumption
  <2>4. ChurnOutbound(L, timedOut) =
          CASE ~m.sent -> Transmit(M, m, m.prio)
            [] m.sent /\ ~timedOut -> W
            [] m.sent /\ timedOut /\ m.retries > 0 -> Transmit(M, AfterRetry(m), m.prio)
            [] OTHER -> GiveUp(M)
    BY <1>2 DEF ChurnOutbound
  <2> HIDE DEF m, t
  <2>5. Sized(M, n) /\ Steady(L, M) /\ M.out = t
    <3>1. M.out = t
      BY DEF Sized, Link
    <3> QED BY <2>2, <2>3, <3>1, PutOut
  <2> HIDE DEF M
  <2>6. m.prio \in Nat /\ PRIORITY_WAITING \in Nat
    BY <2>2 DEF Message, PRIORITY_WAITING
  <2>7. Sized(Transmit(M, m, m.prio), n) /\ Steady(M, Transmit(M, m, m.prio))
    BY <2>2, <2>3, <2>5, <2>6, TransmitOK
  <2>8. Sized(W, n) /\ Steady(M, W)
    BY <2>2, <2>3, <2>5, <2>6, PutBack
  <2> HIDE DEF W
  <2>9. m.retries > 0 => /\ Sized(Transmit(M, AfterRetry(m), m.prio), n)
                         /\ Steady(M, Transmit(M, AfterRetry(m), m.prio))
    BY <2>2, <2>3, <2>5, <2>6, RetryType, TransmitOK
  <2>10. Sized(GiveUp(M), n) /\ Steady(M, GiveUp(M))
    BY <2>5, GiveUpOK
  <2>11. \/ ChurnOutbound(L, timedOut) = Transmit(M, m, m.prio)
         \/ ChurnOutbound(L, timedOut) = W
         \/ m.retries > 0 /\ ChurnOutbound(L, timedOut) = Transmit(M, AfterRetry(m), m.prio)
         \/ ChurnOutbound(L, timedOut) = GiveUp(M)
    BY <2>4
  <2> QED BY <2>5, <2>7, <2>8, <2>9, <2>10, <2>11 DEF Steady
<1> QED BY <1>1, <1>2

\* A keepalive is a sync packet.
LEMMA KeepAliveOK ==
  ASSUME NEW n \in Nat, NEW L, Sized(L, n), NEW kaDue \in BOOLEAN
  PROVE  Sized(KeepAlive(L, kaDue), n) /\ Steady(L, KeepAlive(L, kaDue))
BY SendSyncOK DEF KeepAlive, Steady

-----------------------------------------------------------------------------
\* _fsm_set_position() and _fsm_advance()

\* The states that a link enters with nothing left of a session.
Outside == {"PENDING_SETUP", "HUNGUP"}

\* An entry leaves state and plan to _fsm_advance().
EnteredOK(L, s, r, n) == /\ Sized(r.link, n)
                         /\ r.link.st = L.st /\ r.link.wp = L.wp /\ r.link.inb = <<>>
                         /\ r.link.est = (L.est /\ s \notin Outside)
                         /\ s = "UNINIT" => ~r.ok

\* PENDING_SETUP: _reset_class() ends the connection.
LEMMA EnterSetupOK ==
  ASSUME NEW n \in Nat, NEW L, Sized(L, n), NEW rnd
  PROVE  EnteredOK(L, "PENDING_SETUP", EnterSetup(L, rnd), n)
<1> DEFINE N == NewLink(L.opts)
           M == [N EXCEPT !.st = L.st, !.wp = L.wp, !.tx = L.tx, !.just = L.just]
<1>1. L \in Link /\ L.opts \in Options /\ L.just \in BOOLEAN
  BY DEF Sized, Link
<1>2. L.st \in States /\ L.wp \in Seq(States) /\ L.tx \in Seq(Frame)
  BY <1>1, FieldTypes
<1>3. N \in Link
  BY <1>1, NewLinkType
<1>4. N.out = <<>> /\ N.buf = <<>> /\ N.inb = <<>> /\ N.est = FALSE
  BY DEF NewLink
<1>5. EnterSetup(L, rnd).link = M
  BY DEF EnterSetup, ResetClass
<1> HIDE DEF N
<1>6. M \in Link
  BY <1>1, <1>2, <1>3 DEF Link
<1>7. /\ M.tx = L.tx /\ M.wp = L.wp /\ M.out = N.out /\ M.buf = N.buf
      /\ M.st = L.st /\ M.est = N.est /\ M.inb = N.inb
  BY <1>3 DEF Link
<1>8. Len(M.out) = 0 /\ Len(M.buf) = 0
  BY <1>4, <1>7
<1>9. Sized(M, n)
  BY <1>6, <1>7, <1>8, LinkAssumption DEF Sized
<1> HIDE DEF M
<1> QED BY <1>4, <1>5, <1>7, <1>9 DEF EnteredOK, Outside

\* SYNC_RESYNC: the connection survives.
LEMMA EnterResyncOK ==
  ASSUME NEW n \in Nat, NEW L, Sized(L, n), L.inb = <<>>
  PROVE  EnteredOK(L, "SYNC_RESYNC", EnterResync(L), n)
<1> DEFINE ok == CanRelay(L, <<SyncFrame(TRUE)>>)
           e  == <<>>
           M  == [L EXCEPT !.buf = e, !.syncIn = FALSE, !.syncRx = FALSE, !.cast = ok]
<1>1. EnterResync(L).link = SendSync(M, TRUE)
  BY DEF EnterResync
<1>2. ok \in BOOLEAN
  BY LinkAssumption DEF CanRelay
<1>3. e \in Seq(Frame) /\ Len(e) = 0
  OBVIOUS
<1> HIDE DEF ok, e
<1>4. M \in Link
  BY <1>2, <1>3 DEF Sized, Link
<1>5. /\ M.tx = L.tx /\ M.wp = L.wp /\ M.out = L.out /\ M.buf = e
      /\ M.st = L.st /\ M.est = L.est /\ M.inb = L.inb
  BY DEF Sized, Link
<1> HIDE DEF M
<1>6. Sized(M, n) /\ Steady(L, M)
  BY <1>3, <1>4, <1>5 DEF Sized, Steady
<1>7. L.est \in BOOLEAN
  BY FieldTypes DEF Sized
<1>8. Sized(SendSync(M, TRUE), n) /\ Steady(M, SendSync(M, TRUE))
  BY <1>6, SendSyncOK
<1> QED BY <1>1, <1>6, <1>7, <1>8 DEF EnteredOK, Outside, Steady

\* SYNC_TENTATIVE: the connection is as it was.
LEMMA EnterTentativeOK ==
  ASSUME NEW n \in Nat, NEW L, Sized(L, n), L.inb = <<>>, NEW rnd \in Nat
  PROVE  EnteredOK(L, "SYNC_TENTATIVE", EnterTentative(L, rnd), n)
<1> DEFINE c  == NewHeader("CONNECT", TRUE, rnd)
           ok == IsValid(c) /\ CanRelay(L, <<c>>)
           M  == [L EXCEPT !.cast = FALSE]
           K  == IF ok THEN Relay(M, <<c>>) ELSE M
<1>1. c \in Frame
  BY NewHeaderType DEF Codes
<1>2. EnterTentative(L, rnd).link = K
  BY DEF EnterTentative
<1>3. M \in Link
  BY DEF Sized, Link
<1>4. /\ M.tx = L.tx /\ M.wp = L.wp /\ M.out = L.out /\ M.buf = L.buf
      /\ M.st = L.st /\ M.est = L.est /\ M.inb = L.inb
  BY DEF Sized, Link
<1> HIDE DEF M, c
<1>5. Sized(M, n) /\ Steady(L, M)
  BY <1>3, <1>4 DEF Sized, Steady
<1>6. CanRelay(L, <<c>>) => CanRelay(M, <<c>>)
  BY <1>4 DEF CanRelay
<1>7. ok => Sized(Relay(M, <<c>>), n) /\ Steady(M, Relay(M, <<c>>))
  BY <1>1, <1>5, <1>6, RelayOK
<1>8. Sized(K, n) /\ Steady(L, K)
  BY <1>5, <1>7 DEF Steady
<1>9. L.est \in BOOLEAN
  BY FieldTypes DEF Sized
<1> HIDE DEF K
<1> QED BY <1>2, <1>8, <1>9 DEF EnteredOK, Outside, Steady

\* LIVE: the connection is as it was.
LEMMA EnterLiveOK ==
  ASSUME NEW n \in Nat, NEW L, Sized(L, n), L.inb = <<>>, NEW rnd \in Nat
  PROVE  EnteredOK(L, "LIVE", EnterLive(L, rnd), n)
<1> DEFINE m == NewMessage(NewHeader("WHO", TRUE, rnd), L.opts.ident)
           M == [L EXCEPT !.syncIn = FALSE, !.syncRx = FALSE]
           K == IF CanSend(M, m) THEN SendMsg(M, m) ELSE M
<1>1. L.opts.ident \in BOOLEAN /\ "WHO" \in Codes
  BY DEF Sized, Link, Options, Codes
<1>2. m \in Message
  BY <1>1, NewHeaderType, NewMessageType
<1>3. EnterLive(L, rnd).link = K
  BY DEF EnterLive
<1>4. M \in Link
  BY DEF Sized, Link
<1>5. /\ M.tx = L.tx /\ M.wp = L.wp /\ M.out = L.out /\ M.buf = L.buf
      /\ M.st = L.st /\ M.est = L.est /\ M.inb = L.inb
  BY DEF Sized, Link
<1> HIDE DEF M, m
<1>6. Sized(M, n) /\ Steady(L, M)
  BY <1>4, <1>5 DEF Sized, Steady
<1>7. CanSend(M, m) => Sized(SendMsg(M, m), n) /\ Steady(M, SendMsg(M, m))
  BY <1>2, <1>6, SendMsgOK
<1>8. Sized(K, n) /\ Steady(L, K)
  BY <1>6, <1>7 DEF Steady
<1>9. L.est \in BOOLEAN
  BY FieldTypes DEF Sized
<1> HIDE DEF K
<1> QED BY <1>3, <1>8, <1>9 DEF EnteredOK, Outside, Steady

\* PENDING_HANGUP: the connection is as it was.
LEMMA EnterHangupOK ==
  ASSUME NEW n \in Nat, NEW L, Sized(L, n), L.inb = <<>>, NEW rnd \in Nat
  PROVE  EnteredOK(L, "PENDING_HANGUP", EnterHangup(L, rnd), n)
<1> DEFINE m == NewMessage(NewHeader("HANGUP", TRUE, rnd), FALSE)
           K == IF CanSend(L, m) THEN SendMsg(L, m) ELSE L
<1>1. "HANGUP" \in Codes
  BY DEF Codes
<1>2. m \in Message
  BY <1>1, NewHeaderType, NewMessageType
<1>3. EnterHangup(L, rnd).link = K
  BY DEF EnterHangup
<1> HIDE DEF m
<1>4. CanSend(L, m) => Sized(SendMsg(L, m), n) /\ Steady(L, SendMsg(L, m))
  BY <1>2, SendMsgOK
<1>5. Sized(K, n) /\ Steady(L, K)
  BY <1>4 DEF Steady
<1>6. L.est \in BOOLEAN
  BY FieldTypes DEF Sized
<1> HIDE DEF K
<1> QED BY <1>3, <1>5, <1>6 DEF EnteredOK, Outside, Steady

\* HUNGUP: the connection is over.
LEMMA EnterHungupOK ==
  ASSUME NEW n \in Nat, NEW L, Sized(L, n), L.inb = <<>>
  PROVE  EnteredOK(L, "HUNGUP", EnterHungup(L), n)
<1> DEFINE M == [L EXCEPT !.hook = TRUE, !.est = FALSE]
<1>1. EnterHungup(L).link = M
  BY DEF EnterHungup
<1>2. M \in Link
  BY DEF Sized, Link
<1>3. /\ M.tx = L.tx /\ M.wp = L.wp /\ M.out = L.out /\ M.buf = L.buf
      /\ M.st = L.st /\ M.est = FALSE /\ M.inb = L.inb
  BY DEF Sized, Link
<1> HIDE DEF M
<1> QED BY <1>1, <1>2, <1>3 DEF EnteredOK, Outside, Sized

\* _fsm_set_position() as a whole.
LEMMA EnterOK ==
  ASSUME NEW n \in Nat, NEW L, Sized(L, n), L.inb = <<>>, NEW s \in States, NEW rnd \in Nat
  PROVE  EnteredOK(L, s, Enter(L, s, rnd), n)
<1>1. L.est \in BOOLEAN
  BY FieldTypes DEF Sized
<1>2. CASE s = "PENDING_SETUP"
  BY <1>2, EnterSetupOK DEF Enter
<1>3. CASE s = "SYNC_RESYNC"
  BY <1>3, EnterResyncOK DEF Enter
<1>4. CASE s = "SYNC_TENTATIVE"
  BY <1>4, EnterTentativeOK DEF Enter
<1>5. CASE s = "PENDING_AUTH"
  BY <1>1, <1>5 DEF Enter, EnteredOK, Outside
<1>6. CASE s = "LIVE"
  BY <1>6, EnterLiveOK DEF Enter
<1>7. CASE s = "PENDING_HANGUP"
  BY <1>7, EnterHangupOK DEF Enter
<1>8. CASE s = "HUNGUP"
  BY <1>8, EnterHungupOK DEF Enter
<1>9. CASE s = "UNINIT"
  BY <1>1, <1>9 DEF Enter, EnteredOK, Outside
<1> QED BY <1>2, <1>3, <1>4, <1>5, <1>6, <1>7, <1>8, <1>9 DEF States

\* _fsm_advance() takes the link to the first waypoint, or leaves state and
\* plan as they were.
LEMMA AdvanceOK ==
  ASSUME NEW n \in Nat, NEW L, Sized(L, n), L.inb = <<>>, NEW rnd \in Nat
  PROVE  LET M == Advance(L, rnd)
         IN  /\ Sized(M, n) /\ M.inb = <<>>
             /\ \/ M.st = L.st /\ M.wp = L.wp /\ M.est = L.est
                \/ /\ L.wp # <<>>
                   /\ M.st = L.st /\ M.wp = L.wp
                   /\ M.est = (L.est /\ Head(L.wp) \notin Outside)
                   /\ Head(L.wp) # "HUNGUP"
                \/ /\ L.wp # <<>>
                   /\ M.st = Head(L.wp) /\ M.wp = Tail(L.wp)
                   /\ M.est = (L.est /\ Head(L.wp) \notin Outside)
                   /\ Head(L.wp) # "UNINIT"
<1>1. CASE L.wp = <<>>
  BY <1>1 DEF Advance
<1>2. CASE L.wp # <<>>
  <2> DEFINE s == Head(L.wp)
             w == Tail(L.wp)
             r == Enter(L, s, rnd)
             K == r.link
             M == [K EXCEPT !.st = s, !.wp = w]
  <2>1. L.wp \in Seq(States) /\ Len(L.wp) <= WpDepth
    BY FieldTypes DEF Sized
  <2>2. s \in States /\ w \in Seq(States) /\ Len(w) = Len(L.wp) - 1 /\ Len(L.wp) \in Nat
    BY <1>2, <2>1
  <2>3. Len(w) <= WpDepth
    BY <2>1, <2>2, WpDepthAssumption
  <2>4. Advance(L, rnd) = IF r.ok THEN M ELSE K
    BY <1>2 DEF Advance
  <2>5. s = "HUNGUP" => r.ok
    BY DEF Enter, EnterHungup
  <2> HIDE DEF s, w
  <2>6. EnteredOK(L, s, r, n)
    BY <2>2, EnterOK
  <2> HIDE DEF r
  <2>7. /\ Sized(K, n) /\ K.st = L.st /\ K.wp = L.wp /\ K.inb = <<>>
        /\ K.est = (L.est /\ s \notin Outside)
        /\ s = "UNINIT" => ~r.ok
    BY <2>6 DEF EnteredOK
  <2> HIDE DEF K
  <2>8. M \in Link
    BY <2>2, <2>7 DEF Sized, Link
  <2>9. /\ M.tx = K.tx /\ M.wp = w /\ M.out = K.out /\ M.buf = K.buf
        /\ M.st = s /\ M.est = K.est /\ M.inb = K.inb
    BY <2>7 DEF Sized, Link
  <2> HIDE DEF M
  <2>10. Sized(M, n)
    BY <2>3, <2>7, <2>8, <2>9 DEF Sized
  <2>11. CASE r.ok
    <3>1. Advance(L, rnd) = M
      BY <2>4, <2>11
    <3> QED BY <1>2, <2>7, <2>9, <2>10, <2>11, <3>1 DEF s, w
  <2>12. CASE ~r.ok
    <3>1. Advance(L, rnd) = K
      BY <2>4, <2>12
    <3> QED BY <1>2, <2>5, <2>7, <2>12, <3>1 DEF s
  <2> QED BY <2>11, <2>12
<1> QED BY <1>1, <1>2
=============================================================================
