----------------------------- MODULE Balthandler -----------------------------
(***************************************************************************)
(* The requests of two connected peers (balthernet/src/balthazar/handler): *)
(* each end of each connection has a handler, which opens a substream for  *)
(* a request, and keeps a substream of the other end until its own         *)
(* behaviour answers the request that came on it.                          *)
(*                                                                         *)
(* A request and what is left of its substream are one index r; its two    *)
(* halves advance on their own. A half that is gone is the end of file of  *)
(* the other. The behaviours hand requests and answers to the handler of   *)
(* any open connection (NotifyHandler::Any, balthazar/mod.rs), and an      *)
(* answer is for the request of that connection with the right id.         *)
(*                                                                         *)
(* A connection may close at any time: by failure, or because keep_alive,  *)
(* renewed only when a request is opened or fails while no other substream *)
(* is left, is over. The kind of a message is left out: any answer ends    *)
(* any request (process_answer), an Ack without telling the behaviour.     *)
(***************************************************************************)
EXTENDS Naturals, FiniteSets

CONSTANTS
    Request,        \* requests the two behaviours may make, at the end "a"
    FromB,          \* or, these ones, at the end "b"
    Conn,           \* connections they may have, at once or one after the other
    Unanswered,     \* requests their receiver never answers (TasksPing)
    NoConn, Nothing, Error,
    MaxErrors       \* bound: errors of substreams

End == {"a", "b"}
from(r) == IF r \in FromB THEN "b" ELSE "a"
at(r) == IF r \in FromB THEN "a" ELSE "b"

ASSUME HandlerAssumption ==
    /\ FromB \subseteq Request /\ Unanswered \subseteq Request /\ MaxErrors \in Nat
    /\ NoConn \notin Conn /\ Nothing # Error /\ {Nothing, Error} \cap Request = {}

VARIABLES
    conns,      \* each connection: "none", "open" or "closed"
    next_id,    \* next_connec_unique_id of the handler of each end
    conn,       \* the connection a request goes by
    out, in,    \* state of the two halves of its substream
    id,         \* its UniqueConnecId at the end that receives it
    sent,       \* its message is on the substream, no behaviour took it
    back,       \* the request whose answer is on the substream
    to_send,    \* the request whose answer the receiving half holds
    asked,      \* requests the behaviours have to answer
    got,        \* what ended a request: an answer, by its request, or an error
    errors

vars == <<conns, next_id, conn, id, out, in, sent, back, to_send, asked, got, errors>>

Open == {c \in Conn : conns[c] = "open"}
Live(r) == conn[r] \in Open

------------------------------------------------------------------------------
Init ==
    /\ conns = [c \in Conn |-> "none"]
    /\ next_id = [e \in End |-> [c \in Conn |-> 0]]
    /\ conn = [r \in Request |-> NoConn]
    /\ out = [r \in Request |-> "none"] /\ in = [r \in Request |-> "none"]
    /\ id = [r \in Request |-> 0]
    /\ sent = {} /\ back = [r \in Request |-> Nothing]
    /\ to_send = [r \in Request |-> Nothing]
    /\ asked = {} /\ got = [r \in Request |-> Nothing]
    /\ errors = 0

Connect(c) ==
    /\ conns[c] = "none" /\ conns' = [conns EXCEPT ![c] = "open"]
    /\ UNCHANGED <<next_id, conn, id, out, in, sent, back, to_send, asked, got, errors>>

(* The handlers are dropped with their substreams; nobody is told.          *)
Close(c) ==
    /\ conns[c] = "open" /\ conns' = [conns EXCEPT ![c] = "closed"]
    /\ out' = [r \in Request |-> IF conn[r] = c THEN "gone" ELSE out[r]]
    /\ in' = [r \in Request |-> IF conn[r] = c THEN "gone" ELSE in[r]]
    /\ UNCHANGED <<next_id, conn, id, sent, back, to_send, asked, got, errors>>

------------------------------------------------------------------------------
(* The half of the end that makes the request *)

OutStep(r, s, t) ==
    /\ Live(r) /\ out[r] = s
    /\ out' = [out EXCEPT ![r] = t]
    /\ UNCHANGED <<conns, next_id, conn, id, in, to_send, asked>>

(* inject_new_request_event *)
NewRequest(r, c) ==
    /\ out[r] = "none" /\ c \in Open
    /\ conn' = [conn EXCEPT ![r] = c]
    /\ out' = [out EXCEPT ![r] = "PendingOpen"]
    /\ UNCHANGED <<conns, next_id, id, in, sent, back, to_send, asked, got, errors>>

PendingOpen(r) ==
    OutStep(r, "PendingOpen", "Negotiating") /\ UNCHANGED <<sent, back, got, errors>>

inject_fully_negotiated_outbound(r) ==
    OutStep(r, "Negotiating", "PendingSend") /\ UNCHANGED <<sent, back, got, errors>>

Fails == errors < MaxErrors /\ errors' = errors + 1

inject_dial_upgrade_error(r) ==
    OutStep(r, "Negotiating", "ReportError") /\ Fails /\ UNCHANGED <<sent, back, got>>

ReportError(r) ==
    /\ OutStep(r, "ReportError", "gone")
    /\ got' = [got EXCEPT ![r] = Error]
    /\ UNCHANGED <<sent, back, errors>>

(* The message may reach the other end before the flush returns. *)
OutPendingSend(r) ==
    /\ OutStep(r, "PendingSend", "PendingFlush")
    /\ sent' = sent \cup {r}
    /\ UNCHANGED <<back, got, errors>>

OutPendingFlush(r) ==
    OutStep(r, "PendingFlush", "WaitingAnswer") /\ UNCHANGED <<sent, back, got, errors>>

WaitingAnswer(r) ==
    /\ back[r] # Nothing /\ back' = [back EXCEPT ![r] = Nothing]
    /\ OutStep(r, "WaitingAnswer", "Closing")
    /\ got' = [got EXCEPT ![r] = back[r]]
    /\ UNCHANGED <<sent, errors>>

WaitingAnswerEnds_AsAck(r) ==
    /\ back[r] = Nothing /\ in[r] = "gone"
    /\ OutStep(r, "WaitingAnswer", "gone")
    /\ got' = [got EXCEPT ![r] = r]
    /\ UNCHANGED <<sent, back, errors>>

(* UnexpectedEof *)
WaitingAnswerEnds(r) ==
    /\ back[r] = Nothing /\ in[r] = "gone"
    /\ OutStep(r, "WaitingAnswer", "gone")
    /\ got' = [got EXCEPT ![r] = Error]
    /\ UNCHANGED <<sent, back, errors>>

(* An error of the sink or the stream; what was sent may be lost. *)
OutFails(r) ==
    /\ Fails
    /\ \E s \in {"PendingSend", "PendingFlush", "WaitingAnswer"} : OutStep(r, s, "gone")
    /\ got' = [got EXCEPT ![r] = Error]
    /\ sent' \in {sent, sent \ {r}}
    /\ UNCHANGED back

OutClosing(r) == OutStep(r, "Closing", "gone") /\ UNCHANGED <<sent, back, got, errors>>

Out(r) ==
    \/ PendingOpen(r) \/ inject_fully_negotiated_outbound(r) \/ ReportError(r)
    \/ OutPendingSend(r) \/ OutPendingFlush(r)
    \/ WaitingAnswer(r) \/ WaitingAnswerEnds(r) \/ OutClosing(r)

------------------------------------------------------------------------------
(* The half of the end that receives it *)

InStep(r, s, t) ==
    /\ Live(r) /\ in[r] = s
    /\ in' = [in EXCEPT ![r] = t]
    /\ UNCHANGED <<conns, conn, out, got>>

Negotiated(r) == out[r] \notin {"none", "PendingOpen", "ReportError"}

inject_fully_negotiated_inbound_SameId(r) ==
    /\ Negotiated(r)
    /\ InStep(r, "none", "WaitingMessage")
    /\ id' = [id EXCEPT ![r] = next_id[at(r)][conn[r]]]
    /\ UNCHANGED <<next_id, sent, back, to_send, asked, errors>>

inject_fully_negotiated_inbound(r) ==
    /\ Negotiated(r)
    /\ InStep(r, "none", "WaitingMessage")
    /\ id' = [id EXCEPT ![r] = next_id[at(r)][conn[r]]]
    /\ next_id' = [next_id EXCEPT ![at(r)][conn[r]] = @ + 1]
    /\ UNCHANGED <<sent, back, to_send, asked, errors>>

(* The behaviour is given the request, by process_request. *)
WaitingMessage(r) ==
    /\ r \in sent /\ sent' = sent \ {r}
    /\ InStep(r, "WaitingMessage", "WaitingUser")
    /\ asked' = asked \cup {r}
    /\ UNCHANGED <<next_id, id, back, to_send, errors>>

(* process_request knows no such request. *)
NotARequest(r) ==
    /\ r \in sent /\ Fails
    /\ InStep(r, "WaitingMessage", "Closing")
    /\ UNCHANGED <<next_id, id, sent, back, to_send, asked>>

WaitingMessageEnds_Ignored(r) ==
    /\ r \notin sent /\ out[r] = "gone"
    /\ InStep(r, "WaitingMessage", "WaitingMessage")
    /\ UNCHANGED <<next_id, id, sent, back, to_send, asked, errors>>

WaitingMessageEnds(r) ==
    /\ r \notin sent /\ out[r] = "gone"
    /\ InStep(r, "WaitingMessage", "gone")
    /\ UNCHANGED <<next_id, id, sent, back, to_send, asked, errors>>

(* inject_answer_event_to_peer_request: the behaviour answers r, the        *)
(* handler of this connection looks for the substream with the id of r.     *)
Matches_AnyId(q, r, c) == at(q) = at(r) /\ conn[q] = c /\ in[q] = "WaitingUser"

Matches(q, r, c) ==
    at(q) = at(r) /\ conn[q] = c /\ in[q] = "WaitingUser" /\ id[q] = id[r]

Answer(r) ==
    /\ r \in asked \ Unanswered /\ asked' = asked \ {r}
    /\ \/ \E c \in Open, q \in Request :
            /\ Matches(q, r, c)
            /\ in' = [in EXCEPT ![q] = "PendingSend"]
            /\ to_send' = [to_send EXCEPT ![q] = r]
       \/ /\ Open = {} \/ \E c \in Open : \A q \in Request : ~Matches(q, r, c)
          /\ UNCHANGED <<in, to_send>>
    /\ UNCHANGED <<conns, next_id, conn, id, out, sent, back, got, errors>>

InPendingSend_Unsent(r) ==
    /\ InStep(r, "PendingSend", "PendingFlush")
    /\ to_send' = [to_send EXCEPT ![r] = Nothing]
    /\ UNCHANGED <<next_id, id, sent, back, asked, errors>>

InPendingSend(r) ==
    /\ InStep(r, "PendingSend", "PendingFlush")
    /\ back' = [back EXCEPT ![r] = to_send[r]]
    /\ to_send' = [to_send EXCEPT ![r] = Nothing]
    /\ UNCHANGED <<next_id, id, sent, asked, errors>>

InPendingFlush(r) ==
    /\ InStep(r, "PendingFlush", "WaitingMessage")
    /\ UNCHANGED <<next_id, id, sent, back, to_send, asked, errors>>

InClosing(r) ==
    InStep(r, "Closing", "gone") /\ UNCHANGED <<next_id, id, sent, back, to_send, asked, errors>>

(* An error of the sink or the stream, or an inbound upgrade that fails; an *)
(* answer already sent may be lost. Only the other end is told, by the end  *)
(* of file.                                                                 *)
InFails(r) ==
    /\ Fails
    /\ \/ Negotiated(r) /\ InStep(r, "none", "gone")
       \/ \E s \in {"WaitingMessage", "PendingSend", "PendingFlush"} : InStep(r, s, "gone")
    /\ back' \in {back, [back EXCEPT ![r] = Nothing]}
    /\ UNCHANGED <<next_id, id, sent, to_send, asked>>

In(r) ==
    \/ inject_fully_negotiated_inbound(r)
    \/ WaitingMessage(r) \/ WaitingMessageEnds(r)
    \/ InPendingSend(r) \/ InPendingFlush(r) \/ InClosing(r)

------------------------------------------------------------------------------
Next ==
    \/ \E c \in Conn : Connect(c) \/ Close(c)
    \/ \E r \in Request :
          \/ Answer(r) \/ \E c \in Conn : NewRequest(r, c)
          \/ Out(r) \/ inject_dial_upgrade_error(r) \/ OutFails(r)
          \/ In(r) \/ NotARequest(r) \/ InFails(r)

(* The handlers are polled while the connection is open, and a behaviour    *)
(* answers what it answers at all.                                          *)
Fairness ==
    \A r \in Request :
        WF_vars(Out(r)) /\ WF_vars(In(r)) /\ WF_vars(Answer(r))

Spec == Init /\ [][Next]_vars /\ Fairness

------------------------------------------------------------------------------
(* Properties *)

OutStates == {"none", "PendingOpen", "Negotiating", "PendingSend", "PendingFlush",
              "WaitingAnswer", "Closing", "ReportError", "gone"}
InStates == {"none", "WaitingMessage", "WaitingUser", "PendingSend", "PendingFlush",
             "Closing", "gone"}

(* The types, and that a handler has no two substreams of one id: "Unique   *)
(* identifier for a request" (handler_misc.rs:28).                          *)
TypeOK ==
    /\ out \in [Request -> OutStates] /\ in \in [Request -> InStates]
    /\ conn \in [Request -> Conn \cup {NoConn}] /\ sent \cup asked \subseteq Request
    /\ got \in [Request -> Request \cup {Nothing, Error}]
    /\ \A q, r \in Request :
          in[q] # "none" /\ in[r] # "none" /\ conn[q] = conn[r] /\ at(q) = at(r)
             /\ id[q] = id[r] /\ "gone" \notin {in[q], in[r]} => q = r

(* A request ends with the answer the peer gave to that very request: what  *)
(* RequestId is there for (handler_misc.rs:28). Nothing in a message tells  *)
(* whose answer it is.                                                      *)
AnswerIsOwn == \A r \in Request : got[r] \in {Nothing, Error, r}

(* Where a request is, for those who make and answer requests *)
StageOf(r) ==
    CASE got[r] \in Request -> "ended"
      [] got[r] = Error -> "failed"
      [] OTHER ->
           IF out[r] \in {"gone", "none"} THEN (IF out[r] = "none" THEN "new" ELSE "failed")
           ELSE IF r \in asked THEN "taken"
           ELSE IF out[r] \in {"PendingFlush", "WaitingAnswer"} /\ r \notin sent THEN "answered"
           ELSE "made"

Promise == INSTANCE Exchange WITH stage <- [r \in Request |-> StageOf(r)]

(* A request ends once, with an answer its receiver gave to it after it     *)
(* took it, or as failed; nothing is taken or answered twice.               *)
ImplementsExchange == Promise!Spec

(* A substream kept for the behaviour's answer is one of a request the      *)
(* behaviour still has to answer: none is kept for nothing.                 *)
WaitingIsOwed == \A r \in Request : in[r] = "WaitingUser" => r \in asked

(* A request its receiver answers ends, with an answer or an error, if the  *)
(* connection holds: the half that waits without a timeout                  *)
(* (handler_misc.rs:122) is always woken by an answer or an end of file.    *)
RequestEnds ==
    \A r \in Request \ Unanswered :
        out[r] = "PendingOpen" ~> got[r] # Nothing \/ ~Live(r)

(* Both handlers then free what they kept for it.                           *)
SubstreamsFreed ==
    \A r \in Request \ Unanswered :
        got[r] # Nothing ~> out[r] = "gone" /\ in[r] \in {"none", "gone"}
==============================================================================
