------------------------------- MODULE M2MMsg -------------------------------
(***************************************************************************)
(* The messages of an M2MLink (src/src/M2MLink/M2MMsg.cpp, M2MMsgHdr.cpp). *)
(*                                                                         *)
(* A frame is one message as it travels: its code, the two header flags    *)
(* that the protocol acts on and its id.  Lengths, checksum arithmetic and *)
(* payload bytes are abstracted to what the receiver makes of them:        *)
(*   "JUNK"  at least four bytes whose header checksum does not match      *)
(*           (attempt_header_parse returns -3),                            *)
(*   "BAD"   a header with a good checksum that isValid() refuses.         *)
(* The codes that nothing in the repository sends (PROTOCOL, DESCRIBE,     *)
(* the service slots, ...) are left out.                                   *)
(***************************************************************************)
EXTENDS Integers, Sequences

CONSTANT MaxRetries   \* initial value of M2MMsg::_retries (3)

ASSUME MaxRetriesAssumption == MaxRetries \in Nat

NoId == 0             \* msg_id of a message that is outside any dialog

Codes == {"SYNC", "CONNECT", "HANGUP", "LOG", "WHO", "APPLICATION"}

Frame == [code : Codes \cup {"JUNK", "BAD"}, reply : BOOLEAN, expect : BOOLEAN, id : Nat]

\* A queued outbound message.  body is where its bytes are:
\*   "none"  not serialized yet: the accumulator is empty and
\*           M2MMSG_FLAG_ACCUMULATOR_COMPLETE is clear,
\*   "held"  in the accumulator, the flag is set (setPayload(), reply()),
\*   "spent" serialized straight into a buffer for the transport: the flag is
\*           set and the accumulator is still empty.
Message == [code : Codes, reply : BOOLEAN, expect : BOOLEAN, id : Nat,
            body : {"none", "held", "spent"}, sent : BOOLEAN,
            retries : 0..MaxRetries, prio : Nat]

Header(m) == [code |-> m.code, reply |-> m.reply, expect |-> m.expect, id |-> m.id]

Junk == [code |-> "JUNK", reply |-> FALSE, expect |-> FALSE, id |-> NoId]
Bad  == [code |-> "BAD", reply |-> FALSE, expect |-> FALSE, id |-> NoId]

\* M2MMsgHdr::isValid(), the part that the callers can fail: a message has an
\* id if and only if it belongs to a dialog.
IsValid(h) == h.code = "SYNC" \/ ((h.reply \/ h.expect) <=> h.id # NoId)

\* M2MMsgHdr::isSync() and the byte comparisons of _contains_sync_pattern()
IsSync(f) == f.code = "SYNC"

SyncFrame(needReply) ==
  [code |-> "SYNC", reply |-> ~needReply, expect |-> needReply, id |-> NoId]

\* The M2MMsgHdr constructor: a message that needs a reply is given the random
\* number rnd for an id, one that does not has none.
NewHeader(code, needReply, rnd) ==
  [code |-> code, reply |-> FALSE, expect |-> needReply,
   id |-> IF needReply THEN rnd ELSE NoId]

\* M2MMsg(M2MMsgHdr*, TX), and setPayload() if there is a payload.
NewMessage(h, hasPayload) ==
  [code |-> h.code, reply |-> h.reply, expect |-> h.expect, id |-> h.id,
   body |-> IF hasPayload THEN "held" ELSE "none",
   sent |-> FALSE, retries |-> MaxRetries, prio |-> 0]

\* reply(): the received message becomes its own answer.  The id is kept.  A
\* header that cannot be serialized (no id) leaves the accumulator empty.
ReplyTo(f, needReply) ==
  [code |-> f.code, reply |-> TRUE, expect |-> needReply, id |-> f.id,
   body |-> "held", sent |-> FALSE, retries |-> MaxRetries, prio |-> 0]

\* serialize(): the frames that m puts into the transport's buffer.
Serialized(m) == IF m.body = "spent" THEN <<>> ELSE <<Header(m)>>

\* ... and what it makes of the message: without an accumulator to copy from,
\* the bytes leave with the caller's buffer.
AfterSerialize(m) == [m EXCEPT !.body = IF @ = "none" THEN "spent" ELSE @]

\* attemptRetry(), when it returns true
AfterRetry(m) == [m EXCEPT !.retries = @ - 1]
=============================================================================
