-------------------------- MODULE BalthandlerProofs --------------------------
(***************************************************************************)
(* Proofs about the requests of two peers, for any requests at both ends   *)
(* and any bound on errors. Ids are unique whatever the connections; that  *)
(* an answer ends its own request needs that there is one connection.      *)
(***************************************************************************)
EXTENDS Balthandler, TLAPS

------------------------------------------------------------------------------
(* The inductive invariant, request by request *)

TypeInv ==
    /\ out \in [Request -> OutStates] /\ in \in [Request -> InStates]
    /\ conn \in [Request -> Conn \cup {NoConn}] /\ id \in [Request -> Nat]
    /\ next_id \in [End -> [Conn -> Nat]]
    /\ sent \subseteq Request /\ asked \subseteq Request
    /\ back \in [Request -> Request \cup {Nothing}]
    /\ to_send \in [Request -> Request \cup {Nothing}]
    /\ got \in [Request -> Request \cup {Nothing, Error}]
    /\ DOMAIN conns = Conn

(* A half that is not gone has an open connection. *)
HalvesLive ==
    \A r \in Request : /\ out[r] = "none" => conn[r] = NoConn
                       /\ out[r] \notin {"none", "gone"} => Live(r)
                       /\ in[r] \notin {"none", "gone"} => Live(r)

(* The message is not on the substream yet. *)
Unsent == {"none", "PendingOpen", "Negotiating", "PendingSend", "ReportError"}

(* r has an id: its substream is there, or the behaviour has to answer it. *)
HasId(r) == r \in asked \/ in[r] \notin {"none", "gone"}

IdsOK ==
    /\ \A r \in Request : HasId(r) => /\ conn[r] \in Conn /\ out[r] # "none"
                                      /\ id[r] < next_id[at(r)][conn[r]]
    /\ \A q, r \in Request :
          HasId(q) /\ HasId(r) /\ at(q) = at(r) /\ conn[q] = conn[r] /\ id[q] = id[r] => q = r

BaseInv == TypeInv /\ HalvesLive /\ IdsOK

(* Where the message of r and its answer are *)
StageOK(r) ==
    /\ r \in sent => out[r] \notin Unsent
    /\ r \in asked => out[r] \notin Unsent /\ r \notin sent
    /\ in[r] = "WaitingUser" => r \in asked
    /\ in[r] = "PendingSend" =>
          to_send[r] = r /\ r \notin asked /\ r \notin sent /\ out[r] \notin Unsent
    /\ back[r] # Nothing =>
          back[r] = r /\ r \notin asked /\ r \notin sent /\ out[r] \notin Unsent
    /\ out[r] \notin {"Closing", "gone"} => got[r] = Nothing
    /\ out[r] = "Closing" => got[r] = r
    /\ got[r] \in {Nothing, Error, r}

StagesOK == \A r \in Request : StageOK(r)

LEMMA Ends == \A r \in Request : at(r) \in End
  BY DEF at, End

------------------------------------------------------------------------------
(* Ids are unique. *)

LEMMA InitBase == Init => BaseInv /\ StagesOK
  BY HandlerAssumption
     DEF Init, BaseInv, TypeInv, HalvesLive, IdsOK, HasId, StagesOK, StageOK, OutStates, InStates, End

(* Steps of the half that makes a request *)
LEMMA OutKeepsBase ==
    ASSUME BaseInv, NEW r \in Request, NEW s, NEW t \in OutStates, OutStep(r, s, t),
           s \notin {"none", "gone"}, t # "none", next_id' = next_id,
           sent' \subseteq Request,
           back' \in [Request -> Request \cup {Nothing}],
           got' \in [Request -> Request \cup {Nothing, Error}]
    PROVE  BaseInv'
<1>1. TypeInv'
  BY DEF OutStep, BaseInv, TypeInv
<1>2. HalvesLive'
  BY DEF OutStep, BaseInv, TypeInv, HalvesLive, Live, Open
<1>3. IdsOK'
  BY DEF OutStep, BaseInv, TypeInv, IdsOK, HasId
<1>. QED
  BY <1>1, <1>2, <1>3 DEF BaseInv

(* Steps of the half that receives it *)
LEMMA InKeepsBase ==
    ASSUME BaseInv, NEW r \in Request, NEW s, NEW t \in InStates \ {"none"}, InStep(r, s, t),
           s \notin {"none", "gone"} \/ t = "gone",
           UNCHANGED <<next_id, id>>, sent' \subseteq Request,
           asked' = asked \/ (asked' = asked \cup {r} /\ s \notin {"none", "gone"}),
           back' \in [Request -> Request \cup {Nothing}],
           to_send' \in [Request -> Request \cup {Nothing}]
    PROVE  BaseInv'
<1>1. TypeInv'
  BY DEF InStep, BaseInv, TypeInv
<1>2. HalvesLive'
  BY DEF InStep, BaseInv, TypeInv, HalvesLive, Live, Open
<1>3. \A q \in Request : HasId(q)' => HasId(q)
  BY DEF InStep, BaseInv, TypeInv, HasId
<1>4. IdsOK'
  BY <1>3 DEF InStep, BaseInv, TypeInv, IdsOK
<1>. QED
  BY <1>1, <1>2, <1>4 DEF BaseInv

LEMMA InboundKeepsBase ==
    ASSUME BaseInv, NEW r \in Request, inject_fully_negotiated_inbound(r)
    PROVE  BaseInv'
<1>1. /\ in[r] = "none" /\ out[r] # "none" /\ conn[r] \in Conn
      /\ in' = [in EXCEPT ![r] = "WaitingMessage"]
      /\ id' = [id EXCEPT ![r] = next_id[at(r)][conn[r]]]
      /\ next_id' = [next_id EXCEPT ![at(r)][conn[r]] = @ + 1]
      /\ UNCHANGED <<conns, conn, out, got, sent, back, to_send, asked>>
      /\ Live(r)
  BY DEF inject_fully_negotiated_inbound, InStep, Negotiated, Live, Open
<1>2. next_id[at(r)][conn[r]] \in Nat /\ at(r) \in End
  BY <1>1, Ends DEF BaseInv, TypeInv
<1>3. /\ next_id' \in [End -> [Conn -> Nat]]
      /\ next_id'[at(r)][conn[r]] = next_id[at(r)][conn[r]] + 1
      /\ \A e \in End, c \in Conn : next_id'[e][c] >= next_id[e][c]
  BY <1>1, <1>2 DEF BaseInv, TypeInv
<1>4. TypeInv'
  BY <1>1, <1>2, <1>3 DEF BaseInv, TypeInv, InStates
<1>5. HalvesLive'
  BY <1>1 DEF BaseInv, TypeInv, HalvesLive, Live, Open
<1>6. \A q \in Request : q # r => (HasId(q)' <=> HasId(q)) /\ id'[q] = id[q]
  BY <1>1 DEF HasId, BaseInv, TypeInv
<1>7. /\ id'[r] = next_id[at(r)][conn[r]] /\ id'[r] \in Nat
      /\ \A q \in Request : id[q] \in Nat /\ id'[q] \in Nat
  BY <1>1, <1>2, <1>4 DEF BaseInv, TypeInv
<1>8. ASSUME NEW q \in Request, HasId(q)'
      PROVE  (conn[q] \in Conn /\ out[q] # "none" /\ id[q] < next_id[at(q)][conn[q]])'
  <2>1. CASE q = r
    BY <1>1, <1>2, <1>3, <1>7, <2>1 DEF at
  <2>2. CASE q # r
    <3>1. conn[q] \in Conn /\ out[q] # "none" /\ id[q] < next_id[at(q)][conn[q]]
      BY <1>6, <1>8, <2>2 DEF BaseInv, IdsOK
    <3>2. next_id'[at(q)][conn[q]] >= next_id[at(q)][conn[q]]
      BY <1>3, <3>1, Ends
    <3>3. next_id[at(q)][conn[q]] \in Nat /\ next_id'[at(q)][conn[q]] \in Nat
      BY <1>3, <3>1, Ends DEF BaseInv, TypeInv
    <3>4. id[q] < next_id'[at(q)][conn[q]]
      BY <1>7, <3>1, <3>2, <3>3
    <3>. QED
      BY <1>1, <1>6, <2>2, <3>1, <3>4 DEF at
  <2>. QED
    BY <2>1, <2>2
<1>9. ASSUME NEW q \in Request, HasId(q)', q # r, at(q) = at(r), conn[q] = conn[r]
      PROVE  id'[q] # id'[r]
  <2>1. id[q] < next_id[at(r)][conn[r]]
    BY <1>6, <1>9 DEF BaseInv, IdsOK
  <2>. QED
    BY <1>2, <1>6, <1>7, <1>9, <2>1
<1>10. IdsOK'
  BY <1>1, <1>6, <1>8, <1>9 DEF BaseInv, IdsOK, at
<1>. QED
  BY <1>4, <1>5, <1>10 DEF BaseInv

LEMMA AnswerKeepsBase ==
    ASSUME BaseInv, NEW r \in Request, Answer(r)
    PROVE  BaseInv'
<1>1. /\ asked' = asked \ {r}
      /\ UNCHANGED <<conns, next_id, conn, id, out, sent, back, got>>
      /\ \/ UNCHANGED <<in, to_send>>
         \/ \E q \in Request : /\ in[q] = "WaitingUser"
                               /\ in' = [in EXCEPT ![q] = "PendingSend"]
                               /\ to_send' = [to_send EXCEPT ![q] = r]
  BY DEF Answer, Matches
<1>2. TypeInv'
  BY <1>1 DEF BaseInv, TypeInv, InStates
<1>3. HalvesLive'
  BY <1>1 DEF BaseInv, TypeInv, HalvesLive, Live, Open
<1>4. \A q \in Request : HasId(q)' => HasId(q)
  BY <1>1 DEF HasId, BaseInv, TypeInv
<1>5. IdsOK'
  BY <1>1, <1>4 DEF BaseInv, IdsOK, at
<1>. QED
  BY <1>2, <1>3, <1>5 DEF BaseInv

LEMMA ConnectionKeepsBase ==
    ASSUME BaseInv, NEW c \in Conn, Connect(c) \/ Close(c)
    PROVE  BaseInv'
<1>1. UNCHANGED <<next_id, conn, id, sent, back, to_send, asked, got>>
  BY DEF Connect, Close
<1>2. CASE Connect(c)
  <2>1. conns' = [conns EXCEPT ![c] = "open"] /\ UNCHANGED <<out, in>>
    BY <1>2 DEF Connect
  <2>2. \A r \in Request : Live(r) => Live(r)'
    BY <1>1, <2>1 DEF BaseInv, TypeInv, Live, Open
  <2>3. TypeInv' /\ HalvesLive' /\ IdsOK'
    BY <1>1, <2>1, <2>2 DEF BaseInv, TypeInv, HalvesLive, IdsOK, HasId
  <2>. QED
    BY <2>3 DEF BaseInv
<1>3. CASE Close(c)
  <2>1. /\ conns' = [conns EXCEPT ![c] = "closed"]
        /\ out' = [r \in Request |-> IF conn[r] = c THEN "gone" ELSE out[r]]
        /\ in' = [r \in Request |-> IF conn[r] = c THEN "gone" ELSE in[r]]
    BY <1>3 DEF Close
  <2>2. \A r \in Request : Live(r) /\ conn[r] # c => Live(r)'
    BY <1>1, <2>1 DEF BaseInv, TypeInv, Live, Open
  <2>3. TypeInv'
    BY <1>1, <2>1 DEF BaseInv, TypeInv, OutStates, InStates
  <2>4. HalvesLive'
    BY <1>1, <2>1, <2>2, HandlerAssumption DEF BaseInv, TypeInv, HalvesLive
  <2>5. \A r \in Request : (HasId(r)' => HasId(r)) /\ (out'[r] = "none" => out[r] = "none")
    BY <1>1, <2>1 DEF HasId
  <2>6. IdsOK'
    BY <1>1, <2>5 DEF BaseInv, IdsOK
  <2>. QED
    BY <2>3, <2>4, <2>6 DEF BaseInv
<1>. QED
  BY <1>2, <1>3

LEMMA NewKeepsBase ==
    ASSUME BaseInv, NEW r \in Request, NEW c \in Conn, NewRequest(r, c)
    PROVE  BaseInv'
<1>1. /\ out[r] = "none" /\ conns[c] = "open"
      /\ conn' = [conn EXCEPT ![r] = c] /\ out' = [out EXCEPT ![r] = "PendingOpen"]
      /\ UNCHANGED <<conns, next_id, id, in, sent, back, to_send, asked, got>>
  BY DEF NewRequest, Open
<1>2. TypeInv'
  BY <1>1 DEF BaseInv, TypeInv, OutStates
<1>3. ~HasId(r) /\ \A q \in Request : HasId(q)' => HasId(q)
  BY <1>1 DEF BaseInv, IdsOK, HasId
<1>4. HalvesLive'
  BY <1>1, <1>3 DEF BaseInv, TypeInv, HalvesLive, Live, Open, HasId
<1>5. IdsOK'
  BY <1>1, <1>3 DEF BaseInv, TypeInv, IdsOK, HasId
<1>. QED
  BY <1>2, <1>4, <1>5 DEF BaseInv

LEMMA NextKeepsBase == BaseInv /\ [Next]_vars => BaseInv'
<1>1. ASSUME BaseInv, NEW r \in Request, Out(r) \/ inject_dial_upgrade_error(r) \/ OutFails(r)
      PROVE  BaseInv'
  <2>. USE <1>1 DEF OutStates
  <2>1. CASE PendingOpen(r)
    BY <2>1, OutKeepsBase DEF PendingOpen, OutStep, BaseInv, TypeInv
  <2>2. CASE inject_fully_negotiated_outbound(r)
    BY <2>2, OutKeepsBase DEF inject_fully_negotiated_outbound, OutStep, BaseInv, TypeInv
  <2>3. CASE inject_dial_upgrade_error(r)
    BY <2>3, OutKeepsBase DEF inject_dial_upgrade_error, OutStep, BaseInv, TypeInv
  <2>4. CASE ReportError(r)
    BY <2>4, OutKeepsBase DEF ReportError, OutStep, BaseInv, TypeInv
  <2>5. CASE OutPendingSend(r)
    BY <2>5, OutKeepsBase DEF OutPendingSend, OutStep, BaseInv, TypeInv
  <2>6. CASE OutPendingFlush(r)
    BY <2>6, OutKeepsBase DEF OutPendingFlush, OutStep, BaseInv, TypeInv
  <2>7. CASE WaitingAnswer(r)
    <3>1. OutStep(r, "WaitingAnswer", "Closing") /\ sent' = sent /\ next_id' = next_id
      BY <2>7 DEF WaitingAnswer, OutStep
    <3>2. /\ back' \in [Request -> Request \cup {Nothing}]
          /\ got' \in [Request -> Request \cup {Nothing, Error}]
      BY <2>7 DEF WaitingAnswer, BaseInv, TypeInv
    <3>. QED
      BY <3>1, <3>2, OutKeepsBase DEF BaseInv, TypeInv
  <2>8. CASE WaitingAnswerEnds(r)
    BY <2>8, OutKeepsBase DEF WaitingAnswerEnds, OutStep, BaseInv, TypeInv
  <2>9. CASE OutFails(r)
    <3>1. PICK s \in {"PendingSend", "PendingFlush", "WaitingAnswer"} : OutStep(r, s, "gone")
      BY <2>9 DEF OutFails
    <3>2. /\ sent' \subseteq Request /\ back' = back /\ next_id' = next_id
          /\ got' = [got EXCEPT ![r] = Error]
      BY <2>9, <3>1 DEF OutFails, OutStep, BaseInv, TypeInv
    <3>3. got' \in [Request -> Request \cup {Nothing, Error}]
      BY <3>2 DEF BaseInv, TypeInv
    <3>. QED
      BY <3>1, <3>2, <3>3, OutKeepsBase DEF BaseInv, TypeInv
  <2>10. CASE OutClosing(r)
    BY <2>10, OutKeepsBase DEF OutClosing, OutStep, BaseInv, TypeInv
  <2>. QED
    BY <2>1, <2>2, <2>3, <2>4, <2>5, <2>6, <2>7, <2>8, <2>9, <2>10 DEF Out
<1>2. ASSUME BaseInv, NEW r \in Request, In(r) \/ NotARequest(r) \/ InFails(r)
      PROVE  BaseInv'
  <2>. USE <1>2 DEF InStates
  <2>1. CASE inject_fully_negotiated_inbound(r)
    BY <2>1, InboundKeepsBase
  <2>2. CASE WaitingMessage(r)
    BY <2>2, InKeepsBase DEF WaitingMessage, InStep, BaseInv, TypeInv
  <2>3. CASE NotARequest(r)
    BY <2>3, InKeepsBase DEF NotARequest, InStep, BaseInv, TypeInv
  <2>4. CASE WaitingMessageEnds(r)
    BY <2>4, InKeepsBase DEF WaitingMessageEnds, InStep, BaseInv, TypeInv
  <2>5. CASE InPendingSend(r)
    <3>1. InStep(r, "PendingSend", "PendingFlush") /\ UNCHANGED <<next_id, id, sent, asked>>
      BY <2>5 DEF InPendingSend
    <3>2. /\ back' \in [Request -> Request \cup {Nothing}]
          /\ to_send' \in [Request -> Request \cup {Nothing}]
      BY <2>5 DEF InPendingSend, BaseInv, TypeInv
    <3>. QED
      BY <3>1, <3>2, InKeepsBase DEF BaseInv, TypeInv
  <2>6. CASE InPendingFlush(r)
    BY <2>6, InKeepsBase DEF InPendingFlush, InStep, BaseInv, TypeInv
  <2>7. CASE InClosing(r)
    BY <2>7, InKeepsBase DEF InClosing, InStep, BaseInv, TypeInv
  <2>8. CASE InFails(r)
    <3>1. PICK s \in InStates : InStep(r, s, "gone")
      BY <2>8 DEF InFails
    <3>2. /\ back' \in [Request -> Request \cup {Nothing}]
          /\ UNCHANGED <<next_id, id, sent, to_send, asked>>
      BY <2>8 DEF InFails, BaseInv, TypeInv
    <3>. QED
      BY <3>1, <3>2, InKeepsBase DEF BaseInv, TypeInv
  <2>. QED
    BY <2>1, <2>2, <2>3, <2>4, <2>5, <2>6, <2>7, <2>8 DEF In
<1>3. ASSUME BaseInv, UNCHANGED vars PROVE BaseInv'
  BY <1>3 DEF vars, BaseInv, TypeInv, HalvesLive, Live, Open, IdsOK, HasId
<1>. QED
  BY <1>1, <1>2, <1>3, ConnectionKeepsBase, AnswerKeepsBase, NewKeepsBase DEF Next

(* A handler has no two substreams of one id, however many connections the  *)
(* peers have and however their substreams fail.                            *)
THEOREM UniqueIds == Spec => []TypeOK
<1>1. BaseInv => TypeOK
  BY DEF BaseInv, TypeInv, IdsOK, HasId, TypeOK
<1>2. Init => BaseInv
  BY InitBase
<1>. QED
  BY <1>1, <1>2, NextKeepsBase, PTL DEF Spec

------------------------------------------------------------------------------
(* With one connection, the handlers implement Exchange. *)

OneConnection == \A c, d \in Conn : c = d

stages == [r \in Request |-> StageOf(r)]

(* What a step does to the stage of a request *)
Advances(s, t) ==
    \/ t = s
    \/ <<s, t>> \in {<<"new", "made">>, <<"made", "taken">>, <<"taken", "answered">>,
                     <<"answered", "ended">>}
    \/ s \in {"made", "taken", "answered"} /\ t = "failed"

Moved == [Promise!Next]_stages

LEMMA OneMoves ==
    ASSUME NEW r \in Request, \A q \in Request : q # r => StageOf(q)' = StageOf(q),
           Advances(StageOf(r), StageOf(r)')
    PROVE  Moved
<1>. DEFINE t == StageOf(r)'
<1>1. stages' = [stages EXCEPT ![r] = t] /\ stages[r] = StageOf(r)
  BY DEF stages
<1>2. CASE t = StageOf(r)
  BY <1>1, <1>2 DEF stages, Moved
<1>3. CASE <<StageOf(r), t>> \in {<<"new", "made">>, <<"made", "taken">>, <<"taken", "answered">>,
                                  <<"answered", "ended">>}
  BY <1>1, <1>3 DEF Moved, Promise!Next, Promise!Make, Promise!Take, Promise!Answer, Promise!End,
                    Promise!Moves, stages
<1>4. CASE StageOf(r) \in {"made", "taken", "answered"} /\ t = "failed"
  <2>1. Promise!Fail({r})
    BY <1>1, <1>4 DEF Promise!Fail, stages
  <2>. QED
    BY <2>1 DEF Moved, Promise!Next
<1>. QED
  BY <1>2, <1>3, <1>4 DEF Advances

LEMMA OutAdvances ==
    ASSUME StagesOK, NEW r \in Request, NEW s, NEW t, OutStep(r, s, t),
           \A q \in Request \ {r} : /\ q \in sent' <=> q \in sent
                                    /\ back'[q] = back[q] /\ got'[q] = got[q],
           DOMAIN out = Request,
           StageOK(r)', Advances(StageOf(r), StageOf(r)')
    PROVE  StagesOK' /\ Moved
<1>1. \A q \in Request \ {r} : StageOf(q)' = StageOf(q)
  BY DEF OutStep, StageOf
<1>2. \A q \in Request \ {r} : StageOK(q)'
  BY DEF StagesOK, StageOK, OutStep
<1>. QED
  BY <1>1, <1>2, OneMoves DEF StagesOK

LEMMA OutStages ==
    ASSUME BaseInv, StagesOK, NEW r \in Request,
           Out(r) \/ inject_dial_upgrade_error(r) \/ OutFails(r)
    PROVE  StagesOK' /\ Moved
<1>0. /\ DOMAIN out = Request /\ DOMAIN back = Request /\ DOMAIN got = Request
      /\ Error \notin Request /\ Nothing \notin Request /\ Nothing # Error
      /\ StageOK(r) /\ got[r] \in Request \cup {Nothing, Error}
  BY HandlerAssumption DEF BaseInv, TypeInv, StagesOK
<1>. USE <1>0
<1>1. CASE PendingOpen(r)
  <2>1. StageOK(r)' /\ StageOf(r)' = StageOf(r)
    BY <1>1 DEF PendingOpen, OutStep, StageOK, StageOf, Unsent
  <2>. QED
    BY <1>1, <2>1, OutAdvances DEF PendingOpen, Advances
<1>2. CASE inject_fully_negotiated_outbound(r)
  <2>1. StageOK(r)' /\ StageOf(r)' = StageOf(r)
    BY <1>2 DEF inject_fully_negotiated_outbound, OutStep, StageOK, StageOf, Unsent
  <2>. QED
    BY <1>2, <2>1, OutAdvances DEF inject_fully_negotiated_outbound, Advances
<1>3. CASE inject_dial_upgrade_error(r)
  <2>1. StageOK(r)' /\ StageOf(r)' = StageOf(r)
    BY <1>3 DEF inject_dial_upgrade_error, OutStep, StageOK, StageOf, Unsent
  <2>. QED
    BY <1>3, <2>1, OutAdvances DEF inject_dial_upgrade_error, Advances
<1>4. CASE ReportError(r)
  <2>1. StageOK(r)' /\ StageOf(r) = "made" /\ StageOf(r)' = "failed"
    BY <1>4 DEF ReportError, OutStep, StageOK, StageOf, Unsent
  <2>2. \A q \in Request \ {r} : got'[q] = got[q]
    BY <1>4 DEF ReportError
  <2>. QED
    BY <1>4, <2>1, <2>2, OutAdvances DEF ReportError, Advances
<1>5. CASE OutPendingSend(r)
  <2>1. StageOK(r)' /\ StageOf(r)' = StageOf(r)
    BY <1>5 DEF OutPendingSend, OutStep, StageOK, StageOf, Unsent
  <2>. QED
    BY <1>5, <2>1, OutAdvances DEF OutPendingSend, Advances
<1>6. CASE OutPendingFlush(r)
  <2>1. StageOK(r)' /\ StageOf(r)' = StageOf(r)
    BY <1>6 DEF OutPendingFlush, OutStep, StageOK, StageOf, Unsent
  <2>. QED
    BY <1>6, <2>1, OutAdvances DEF OutPendingFlush, Advances
<1>7. CASE WaitingAnswer(r)
  <2>1. back[r] = r /\ r \notin asked /\ r \notin sent /\ out[r] = "WaitingAnswer"
           /\ got[r] = Nothing
    BY <1>7 DEF WaitingAnswer, OutStep, StageOK
  <2>2. out'[r] = "Closing" /\ got'[r] = r /\ back'[r] = Nothing
           /\ UNCHANGED <<asked, sent, in, to_send>>
    BY <1>7, <2>1 DEF WaitingAnswer, OutStep
  <2>3. StageOK(r)' /\ StageOf(r) = "answered" /\ StageOf(r)' = "ended"
    BY <2>1, <2>2 DEF StageOK, StageOf, Unsent
  <2>4. \A q \in Request \ {r} : got'[q] = got[q] /\ back'[q] = back[q]
    BY <1>7 DEF WaitingAnswer
  <2>. QED
    BY <1>7, <2>3, <2>4, OutAdvances DEF WaitingAnswer, Advances
<1>8. CASE WaitingAnswerEnds(r) \/ OutFails(r)
  <2>1. PICK s \in {"PendingSend", "PendingFlush", "WaitingAnswer"} : OutStep(r, s, "gone")
    BY <1>8 DEF WaitingAnswerEnds, OutFails
  <2>2. /\ got' = [got EXCEPT ![r] = Error] /\ back' = back
        /\ sent' = sent \/ sent' = sent \ {r}
    BY <1>8 DEF WaitingAnswerEnds, OutFails
  <2>3. /\ out[r] = s /\ out'[r] = "gone" /\ got'[r] = Error /\ got[r] = Nothing
        /\ UNCHANGED <<asked, in, to_send>>
    BY <2>1, <2>2 DEF OutStep, StageOK
  <2>4. StageOK(r)'
    BY <2>2, <2>3 DEF StageOK, Unsent
  <2>5. StageOf(r) \in {"made", "taken", "answered"} /\ StageOf(r)' = "failed"
    BY <2>3 DEF StageOf
  <2>. QED
    BY <2>1, <2>2, <2>4, <2>5, OutAdvances DEF Advances
<1>9. CASE OutClosing(r)
  <2>1. StageOK(r)' /\ StageOf(r)' = StageOf(r)
    BY <1>9 DEF OutClosing, OutStep, StageOK, StageOf, Unsent
  <2>. QED
    BY <1>9, <2>1, OutAdvances DEF OutClosing, Advances
<1>. QED
  BY <1>1, <1>2, <1>3, <1>4, <1>5, <1>6, <1>7, <1>8, <1>9 DEF Out

LEMMA InAdvances ==
    ASSUME StagesOK, NEW r \in Request, NEW s, NEW t, InStep(r, s, t),
           \A q \in Request \ {r} : /\ q \in sent' <=> q \in sent
                                    /\ q \in asked' <=> q \in asked
                                    /\ back'[q] = back[q] /\ to_send'[q] = to_send[q],
           DOMAIN in = Request,
           StageOK(r)', Advances(StageOf(r), StageOf(r)')
    PROVE  StagesOK' /\ Moved
<1>1. \A q \in Request \ {r} : StageOf(q)' = StageOf(q)
  BY DEF InStep, StageOf
<1>2. \A q \in Request \ {r} : StageOK(q)'
  BY DEF StagesOK, StageOK, InStep
<1>. QED
  BY <1>1, <1>2, OneMoves DEF StagesOK

LEMMA InStages ==
    ASSUME BaseInv, StagesOK, NEW r \in Request, In(r) \/ NotARequest(r) \/ InFails(r)
    PROVE  StagesOK' /\ Moved
<1>0. /\ DOMAIN in = Request /\ DOMAIN back = Request /\ DOMAIN to_send = Request
      /\ Error \notin Request /\ Nothing \notin Request /\ Nothing # Error
      /\ StageOK(r) /\ got[r] \in Request \cup {Nothing, Error} /\ out[r] \in OutStates
  BY HandlerAssumption DEF BaseInv, TypeInv, StagesOK
<1>. USE <1>0
<1>1. CASE inject_fully_negotiated_inbound(r)
  <2>1. StageOK(r)' /\ StageOf(r)' = StageOf(r)
    BY <1>1 DEF inject_fully_negotiated_inbound, InStep, StageOK, StageOf
  <2>. QED
    BY <1>1, <2>1, InAdvances DEF inject_fully_negotiated_inbound, Advances
<1>2. CASE WaitingMessage(r)
  <2>1. /\ r \in sent /\ r \notin asked /\ out[r] \notin Unsent /\ back[r] = Nothing
        /\ in'[r] = "WaitingUser" /\ r \in asked' /\ r \notin sent'
        /\ UNCHANGED <<out, got, back, to_send>>
    BY <1>2 DEF WaitingMessage, InStep, StageOK
  <2>2. StageOK(r)'
    BY <2>1 DEF StageOK
  <2>3. Advances(StageOf(r), StageOf(r)')
    BY <2>1 DEF StageOf, Advances, Unsent, OutStates, StageOK
  <2>4. \A q \in Request \ {r} : (q \in sent' <=> q \in sent) /\ (q \in asked' <=> q \in asked)
    BY <1>2 DEF WaitingMessage
  <2>. QED
    BY <1>2, <2>1, <2>2, <2>3, <2>4, InAdvances DEF WaitingMessage
<1>3. CASE NotARequest(r)
  <2>1. StageOK(r)' /\ StageOf(r)' = StageOf(r)
    BY <1>3 DEF NotARequest, InStep, StageOK, StageOf
  <2>. QED
    BY <1>3, <2>1, InAdvances DEF NotARequest, Advances
<1>4. CASE WaitingMessageEnds(r)
  <2>1. StageOK(r)' /\ StageOf(r)' = StageOf(r)
    BY <1>4 DEF WaitingMessageEnds, InStep, StageOK, StageOf
  <2>. QED
    BY <1>4, <2>1, InAdvances DEF WaitingMessageEnds, Advances
<1>5. CASE InPendingSend(r)
  <2>1. /\ to_send[r] = r /\ r \notin asked /\ r \notin sent /\ out[r] \notin Unsent
        /\ in'[r] = "PendingFlush" /\ back'[r] = to_send[r]
        /\ UNCHANGED <<out, got, asked, sent>>
    BY <1>5 DEF InPendingSend, InStep, StageOK
  <2>2. StageOK(r)' /\ StageOf(r)' = StageOf(r)
    BY <2>1 DEF StageOK, StageOf
  <2>3. \A q \in Request \ {r} : back'[q] = back[q] /\ to_send'[q] = to_send[q]
    BY <1>5 DEF InPendingSend
  <2>. QED
    BY <1>5, <2>1, <2>2, <2>3, InAdvances DEF InPendingSend, Advances
<1>6. CASE InPendingFlush(r)
  <2>1. StageOK(r)' /\ StageOf(r)' = StageOf(r)
    BY <1>6 DEF InPendingFlush, InStep, StageOK, StageOf
  <2>. QED
    BY <1>6, <2>1, InAdvances DEF InPendingFlush, Advances
<1>7. CASE InClosing(r)
  <2>1. StageOK(r)' /\ StageOf(r)' = StageOf(r)
    BY <1>7 DEF InClosing, InStep, StageOK, StageOf
  <2>. QED
    BY <1>7, <2>1, InAdvances DEF InClosing, Advances
<1>8. CASE InFails(r)
  <2>1. PICK s : InStep(r, s, "gone")
    BY <1>8 DEF InFails
  <2>2. /\ in'[r] = "gone" /\ UNCHANGED <<out, got, sent, asked, to_send>>
        /\ back'[r] \in {back[r], Nothing}
        /\ \A q \in Request \ {r} : back'[q] = back[q]
    BY <1>8, <2>1 DEF InFails, InStep
  <2>3. StageOK(r)' /\ StageOf(r)' = StageOf(r)
    BY <2>2 DEF StageOK, StageOf
  <2>. QED
    BY <2>1, <2>2, <2>3, InAdvances DEF Advances
<1>. QED
  BY <1>1, <1>2, <1>3, <1>4, <1>5, <1>6, <1>7, <1>8 DEF In

(* The substream with the id of r on its connection is its own. *)
LEMMA AnswerStages ==
    ASSUME OneConnection, BaseInv, StagesOK, NEW r \in Request, Answer(r)
    PROVE  StagesOK' /\ Moved
<1>1. /\ r \in asked /\ asked' = asked \ {r}
      /\ UNCHANGED <<conn, id, out, sent, back, got>>
      /\ out[r] \notin Unsent /\ r \notin sent /\ conn[r] \in Conn
      /\ back[r] = Nothing
  BY DEF Answer, StagesOK, StageOK, BaseInv, IdsOK, HasId
<1>2. \/ /\ UNCHANGED <<in, to_send>> /\ in[r] # "WaitingUser"
      \/ /\ in' = [in EXCEPT ![r] = "PendingSend"]
         /\ to_send' = [to_send EXCEPT ![r] = r]
  <2>1. ASSUME NEW c \in Open, NEW q \in Request, Matches(q, r, c)
        PROVE  q = r
    <3>1. HasId(q) /\ HasId(r) /\ at(q) = at(r) /\ conn[q] = conn[r] /\ id[q] = id[r]
      BY <1>1, <2>1 DEF Matches, HasId, Open, OneConnection
    <3>. QED
      BY <3>1 DEF BaseInv, IdsOK
  <2>2. ASSUME NEW c \in Open, \A q \in Request : ~Matches(q, r, c)
        PROVE  in[r] # "WaitingUser"
    BY <1>1, <2>2 DEF Matches, Open, OneConnection
  <2>3. ASSUME Open = {}
        PROVE  in[r] # "WaitingUser"
    BY <2>3 DEF BaseInv, HalvesLive, Live
  <2>4. CASE \E c \in Open, q \in Request :
               /\ Matches(q, r, c)
               /\ in' = [in EXCEPT ![q] = "PendingSend"]
               /\ to_send' = [to_send EXCEPT ![q] = r]
    BY <2>1, <2>4
  <2>5. CASE /\ Open = {} \/ \E c \in Open : \A q \in Request : ~Matches(q, r, c)
             /\ UNCHANGED <<in, to_send>>
    BY <2>2, <2>3, <2>5
  <2>. QED
    BY <2>4, <2>5 DEF Answer
<1>3. DOMAIN in = Request /\ DOMAIN to_send = Request /\ out[r] \in OutStates
  BY DEF BaseInv, TypeInv
<1>4. StageOK(r)'
  BY <1>1, <1>2, <1>3 DEF StagesOK, StageOK
<1>5. \A q \in Request \ {r} : StageOK(q)' /\ StageOf(q)' = StageOf(q)
  BY <1>1, <1>2, <1>3 DEF StagesOK, StageOK, StageOf
<1>6. Advances(StageOf(r), StageOf(r)')
  <2>1. CASE got[r] = Nothing /\ out[r] # "gone"
    <3>1. out[r] \in {"PendingFlush", "WaitingAnswer"}
      BY <1>1, <1>3, <2>1, HandlerAssumption DEF OutStates, Unsent, StagesOK, StageOK
    <3>2. StageOf(r) = "taken" /\ StageOf(r)' = "answered"
      BY <1>1, <2>1, <3>1, HandlerAssumption DEF StageOf
    <3>. QED
      BY <3>2 DEF Advances
  <2>2. CASE got[r] # Nothing \/ out[r] = "gone"
    <3>1. StageOf(r)' = StageOf(r)
      BY <1>1, <2>2 DEF StageOf, StagesOK, StageOK
    <3>. QED
      BY <3>1 DEF Advances
  <2>. QED
    BY <2>1, <2>2
<1>. QED
  BY <1>4, <1>5, <1>6, OneMoves DEF StagesOK

LEMMA NewStages ==
    ASSUME BaseInv, StagesOK, NEW r \in Request, NEW c \in Conn, NewRequest(r, c)
    PROVE  StagesOK' /\ Moved
<1>1. /\ out[r] = "none" /\ out' = [out EXCEPT ![r] = "PendingOpen"]
      /\ UNCHANGED <<in, sent, back, to_send, asked, got>>
      /\ DOMAIN out = Request
  BY DEF NewRequest, BaseInv, TypeInv
<1>2. StagesOK'
  BY <1>1 DEF StagesOK, StageOK, Unsent
<1>3. \A q \in Request : q # r => StageOf(q)' = StageOf(q)
  BY <1>1 DEF StageOf
<1>4. got[r] = Nothing /\ r \notin asked
  BY <1>1 DEF StagesOK, StageOK, Unsent
<1>5. StageOf(r) = "new" /\ StageOf(r)' = "made"
  BY <1>1, <1>4, HandlerAssumption DEF StageOf
<1>. QED
  BY <1>2, <1>3, <1>5, OneMoves DEF Advances

(* All that is under way on the connection fails at once. *)
LEMMA ConnectionStages ==
    ASSUME BaseInv, StagesOK, NEW c \in Conn, Connect(c) \/ Close(c)
    PROVE  StagesOK' /\ Moved
<1>1. UNCHANGED <<conn, sent, back, to_send, asked, got>>
  BY DEF Connect, Close
<1>2. CASE Connect(c)
  <2>1. UNCHANGED <<out, in>>
    BY <1>2 DEF Connect
  <2>2. StagesOK' /\ \A r \in Request : StageOf(r)' = StageOf(r)
    BY <1>1, <2>1 DEF StagesOK, StageOK, StageOf
  <2>. QED
    BY <2>2 DEF Moved, stages
<1>3. CASE Close(c)
  <2>1. /\ out' = [r \in Request |-> IF conn[r] = c THEN "gone" ELSE out[r]]
        /\ in' = [r \in Request |-> IF conn[r] = c THEN "gone" ELSE in[r]]
    BY <1>3 DEF Close
  <2>2. StagesOK'
    BY <1>1, <2>1 DEF StagesOK, StageOK, Unsent
  <2>. DEFINE F == {r \in Request : conn[r] = c /\ StageOf(r) \in {"made", "taken", "answered"}}
  <2>3. ASSUME NEW r \in Request, r \in F PROVE StageOf(r)' = "failed"
    <3>1. got[r] = Nothing
      BY <2>3 DEF StageOf, StagesOK, StageOK
    <3>. QED
      BY <1>1, <2>1, <2>3, <3>1, HandlerAssumption DEF StageOf
  <2>4. ASSUME NEW r \in Request, r \notin F PROVE StageOf(r)' = StageOf(r)
    <3>1. CASE conn[r] # c
      BY <1>1, <2>1, <3>1 DEF StageOf
    <3>2. CASE conn[r] = c
      <4>1. out[r] # "none" /\ StageOf(r) \notin {"made", "taken", "answered"}
        BY <2>4, <3>2, HandlerAssumption DEF BaseInv, HalvesLive
      <4>. QED
        BY <1>1, <2>1, <3>2, <4>1 DEF StageOf
    <3>. QED
      BY <3>1, <3>2
  <2>5. CASE F = {}
    BY <2>2, <2>4, <2>5 DEF Moved, stages
  <2>6. CASE F # {}
    <3>1. \A r \in F : stages[r] \in {"made", "taken", "answered"}
      BY DEF stages
    <3>2. stages' = [r \in Request |-> IF r \in F THEN "failed" ELSE stages[r]]
      BY <2>3, <2>4 DEF stages
    <3>3. F \in SUBSET Request
      OBVIOUS
    <3>. HIDE DEF F
    <3>4. Promise!Fail(F)
      BY <2>6, <3>1, <3>2 DEF Promise!Fail, stages
    <3>. QED
      BY <2>2, <3>3, <3>4 DEF Moved, Promise!Next
  <2>. QED
    BY <2>5, <2>6
<1>. QED
  BY <1>2, <1>3

HInv == BaseInv /\ StagesOK

LEMMA NextKeeps ==
    ASSUME OneConnection
    PROVE  HInv /\ [Next]_vars => HInv' /\ Moved
<1>1. ASSUME HInv, Next PROVE StagesOK' /\ Moved
  BY <1>1, OutStages, InStages, AnswerStages, NewStages, ConnectionStages DEF HInv, Next
<1>2. ASSUME HInv, UNCHANGED vars PROVE StagesOK' /\ Moved
  BY <1>2 DEF vars, HInv, StagesOK, StageOK, Moved, stages, StageOf
<1>. QED
  BY <1>1, <1>2, NextKeepsBase DEF HInv

LEMMA Invariance ==
    ASSUME OneConnection
    PROVE  Spec => []HInv
<1>1. Init => HInv
  BY InitBase DEF HInv
<1>2. HInv /\ [Next]_vars => HInv'
  BY NextKeeps
<1>. QED
  BY <1>1, <1>2, PTL DEF Spec

(* On one connection, a request ends with its own answer or an error, and   *)
(* no substream is kept for an answer nobody will give.                     *)
THEOREM OwnAnswers ==
    ASSUME OneConnection
    PROVE  Spec => [](AnswerIsOwn /\ WaitingIsOwed)
<1>1. HInv => AnswerIsOwn /\ WaitingIsOwed
  BY DEF HInv, StagesOK, StageOK, AnswerIsOwn, WaitingIsOwed
<1>. QED
  BY <1>1, Invariance, PTL

(* On one connection, the handlers of the two ends implement the exchange:  *)
(* every request is taken once, answered once and ended once, or fails.     *)
THEOREM HandlersImplementExchange ==
    ASSUME OneConnection
    PROVE  Spec => ImplementsExchange
<1>1. Init => Promise!Init
  <2>1. ASSUME Init PROVE \A r \in Request : StageOf(r) = "new"
    BY <2>1, HandlerAssumption DEF Init, StageOf
  <2>. QED
    BY <2>1 DEF Promise!Init
<1>2. HInv /\ [Next]_vars => [Promise!Next]_stages
  BY NextKeeps DEF Moved
<1>3. stages = [r \in Request |-> StageOf(r)]
  BY DEF stages
<1>. QED
  BY <1>1, <1>2, Invariance, PTL DEF Spec, ImplementsExchange, Promise!Spec, stages
==============================================================================
