------------------------- MODULE GatewayEventsProofs -------------------------
(***************************************************************************)
(* Proofs about what the gateway tells its clients: the approval broker,   *)
(* for every set of requests, handlers and options; the event bus, for any *)
(* number of publishers, subscribers and events and every size of the ring *)
(* and of the channels; a subscriber end to end, for every size of the     *)
(* forwarder's channel and every filter; and the projection's store, for   *)
(* every set of events and every number of starts.                         *)
(***************************************************************************)
EXTENDS ApprovalBroker, EventStream, EventStore, FiniteSetTheorems, SequenceTheorems, TLAPS

(* The broker.  BrokerInv is inductive: it ties the program counter of a   *)
(* requester to its record, its channel and its answer.                    *)

Undecided(r) == pc[r] \in {"announcing", "waiting", "cancelling"}

ReqInv(r) ==
  /\ pc[r] = "start" => OutcomeOf(r) = [status |-> "absent", option |-> NoOption]
  /\ record[r].status = "absent" => pc[r] = "start"
  /\ record[r].status = "pending" => Undecided(r) /\ record[r].option = NoOption /\ done[r] = <<>>
  /\ done[r] # <<>> => Settled(r) /\ done[r] = <<OutcomeOf(r)>>
  /\ Settled(r) => OutcomeOf(r) \in Outcome
  /\ record[r].status = "selected" => HasOption(Offer[r], record[r].option)
  /\ pc[r] \in {"announcing", "closing"} => outbox[r] \in Event
  /\ pc[r] \in {"closing", "returned"} => Settled(r)
  /\ pc[r] = "returned" <=> answer[r] # NoAnswer
  /\ answer[r] \in Outcome => answer[r] = OutcomeOf(r)

HandlerInv(h) == outbox[h] # NoEvent => \E r \in Request, o \in Outcome : outbox[h] = Decided(r, o)

BrokerInv ==
  /\ TypeOK
  /\ \A r \in Request : ReqInv(r)
  /\ \A h \in Handler : HandlerInv(h)

-----------------------------------------------------------------------------
\* An option a request offers is an option id.
LEMMA OfferedIsOption ==
  ASSUME NEW r \in Request, NEW id, HasOption(Offer[r], id)
  PROVE  id \in OptionId
<1>1. PICK i \in DOMAIN Offer[r] : Offer[r][i].id = id
  BY DEF HasOption
<1>2. Offer[r] \in Seq([id : OptionId, kind : Kind])
  BY BrokerAssumption
<1>3. \A S : \A s \in Seq(S) : \A j \in DOMAIN s : s[j] \in S
  OBVIOUS
<1>4. Offer[r][i] \in [id : OptionId, kind : Kind]
  BY <1>2, <1>3
<1>5. QED
  BY <1>1, <1>4

\* The initial state satisfies the inductive invariant.
LEMMA BrokerInitInv == Init => BrokerInv
<1>1. Init => TypeOK
  BY DEF Init, TypeOK, Record
<1>2. Init => \A r \in Request : ReqInv(r)
  BY BrokerAssumption DEF Init, ReqInv, OutcomeOf, Settled, Outcome, Selected, Undecided, Cancelled
<1>3. Init => \A h \in Handler : HandlerInv(h)
  BY DEF Init, HandlerInv, Actor
<1>4. QED
  BY <1>1, <1>2, <1>3 DEF BrokerInv

\* What a settlement does to the record, the channel and the outbox.
LEMMA SettleStep ==
  ASSUME BrokerInv, NEW a \in Actor, NEW r \in Request, NEW o \in Outcome, Settle(a, r, o)
  PROVE  /\ record' \in [Request -> Record]
         /\ done' \in [Request -> {<<>>} \cup {<<x>> : x \in Outcome}]
         /\ outbox' \in [Actor -> Event \cup {NoEvent}]
         /\ done'[r] = <<o>>
         /\ OutcomeOf(r)' = o
         /\ Settled(r)'
         /\ \A q \in Request \ {r} : record'[q] = record[q] /\ done'[q] = done[q]
         /\ outbox'[a] = Decided(r, o)
         /\ \A b \in Actor \ {a} : outbox'[b] = outbox[b]
<1> USE DEF BrokerInv, TypeOK, Settle
<1>1. done[r] = <<>>
  BY DEF ReqInv
<1>2. Append(done[r], o) = <<o>>
  BY <1>1
<1>3. /\ o.status \in {"selected", "cancelled"}
      /\ o.option \in OptionId \cup {NoOption}
      /\ o = [status |-> o.status, option |-> o.option]
  BY DEF Outcome, Selected, Cancelled
<1>4. Decided(r, o) \in Event
  BY DEF Event
<1>5. record' \in [Request -> Record] /\ record'[r] = [status |-> o.status, option |-> o.option, stamped |-> TRUE]
  BY <1>3 DEF Record
<1>6. OutcomeOf(r)' = o /\ Settled(r)'
  BY <1>3, <1>5 DEF OutcomeOf, Settled
<1>7. done' \in [Request -> {<<>>} \cup {<<x>> : x \in Outcome}] /\ done'[r] = <<o>>
  BY <1>2
<1>8. outbox' \in [Actor -> Event \cup {NoEvent}] /\ outbox'[a] = Decided(r, o)
  BY <1>4
<1>9. QED
  BY <1>5, <1>6, <1>7, <1>8

\* The choice a decision makes is only recorded when the request offers it.
LEMMA ChosenOutcome ==
  ASSUME NEW r \in Request, NEW d \in Decision, HasOption(Offer[r], ChosenOption(r, d))
  PROVE  Selected(ChosenOption(r, d)) \in Outcome
BY OfferedIsOption DEF Outcome

\* Every step keeps the inductive invariant.
LEMMA BrokerNextInv == BrokerInv /\ [Next]_vars => BrokerInv'
<1> SUFFICES ASSUME BrokerInv, [Next]_vars
             PROVE  BrokerInv'
  OBVIOUS
<1> USE DEF BrokerInv, TypeOK
<1>1. ASSUME NEW r \in Request, Insert(r)
      PROVE  BrokerInv'
  <2> outbox' \in [Actor -> Event \cup {NoEvent}]
    BY <1>1 DEF Insert, Actor, Event
  <2> record' \in [Request -> Record]
    <3>1. record \in [Request -> Record] /\ record' = [record EXCEPT ![r].status = "pending"]
      BY <1>1 DEF Insert
    <3>2. [record[r] EXCEPT !.status = "pending"] \in Record
      BY <3>1 DEF Record
    <3> HIDE DEF BrokerInv, TypeOK
    <3> QED BY <3>1, <3>2
  <2>1. TypeOK'
    BY <1>1 DEF Insert
  <2>2. ASSUME NEW q \in Request
        PROVE  ReqInv(q)'
    <3>1. CASE q = r
      <4>1. /\ record[r].status = "absent" /\ record[r].option = NoOption
            /\ done[r] = <<>> /\ answer[r] = NoAnswer
        BY <1>1 DEF Insert, ReqInv, OutcomeOf, Settled
      <4>2. record'[r].status = "pending" /\ record'[r].option = NoOption
        BY <1>1, <4>1 DEF Insert, Record
      <4>3. done'[r] = <<>> /\ answer'[r] = NoAnswer /\ pc'[r] = "announcing"
        BY <1>1, <4>1 DEF Insert
      <4>4. outbox'[r] \in Event
        BY <1>1 DEF Insert, Actor, Event
      <4>5. QED
        BY <3>1, <4>2, <4>3, <4>4, BrokerAssumption DEF ReqInv, OutcomeOf, Settled, Undecided
    <3>2. CASE q # r
      BY <3>2, <1>1 DEF Insert, ReqInv, OutcomeOf, Settled, Undecided, Actor
    <3>3. QED
      BY <3>1, <3>2
  <2>3. ASSUME NEW h \in Handler
        PROVE  HandlerInv(h)'
    BY <1>1, BrokerAssumption DEF Insert, HandlerInv, Actor
  <2>4. QED
    BY <2>1, <2>2, <2>3
<1>2. ASSUME NEW r \in Request, PublishRequested(r)
      PROVE  BrokerInv'
  <2> log' \in Seq(Event)
    BY <1>2 DEF PublishRequested, ReqInv
  <2>1. TypeOK'
    BY <1>2 DEF PublishRequested
  <2>2. ASSUME NEW q \in Request
        PROVE  ReqInv(q)'
    BY <1>2 DEF PublishRequested, ReqInv, OutcomeOf, Settled, Undecided, Actor
  <2>3. ASSUME NEW h \in Handler
        PROVE  HandlerInv(h)'
    BY <1>2, BrokerAssumption DEF PublishRequested, HandlerInv, Actor
  <2>4. QED
    BY <2>1, <2>2, <2>3
<1>3. ASSUME NEW r \in Request, EndContext(r)
      PROVE  BrokerInv'
  <2>1. TypeOK'
    BY <1>3 DEF EndContext
  <2>2. ASSUME NEW q \in Request
        PROVE  ReqInv(q)'
    BY <1>3 DEF EndContext, ReqInv, OutcomeOf, Settled, Undecided
  <2>3. ASSUME NEW h \in Handler
        PROVE  HandlerInv(h)'
    BY <1>3 DEF EndContext, HandlerInv
  <2>4. QED
    BY <2>1, <2>2, <2>3
<1>4. ASSUME NEW r \in Request, ReceiveDecision(r)
      PROVE  BrokerInv'
  <2>1. /\ done[r] = <<OutcomeOf(r)>>
        /\ Settled(r)
        /\ OutcomeOf(r) \in Outcome
    BY <1>4 DEF ReceiveDecision, ReqInv
  <2>2. Head(done[r]) = OutcomeOf(r) /\ Tail(done[r]) = <<>>
    BY <2>1
  <2>3. TypeOK'
    BY <1>4, <2>1, <2>2 DEF ReceiveDecision
  <2>4. ASSUME NEW q \in Request
        PROVE  ReqInv(q)'
    <3>1. CASE q = r
      BY <3>1, <1>4, <2>1, <2>2, BrokerAssumption DEF ReceiveDecision, ReqInv, OutcomeOf, Settled, Undecided
    <3>2. CASE q # r
      BY <3>2, <1>4 DEF ReceiveDecision, ReqInv, OutcomeOf, Settled, Undecided
    <3>3. QED
      BY <3>1, <3>2
  <2>5. ASSUME NEW h \in Handler
        PROVE  HandlerInv(h)'
    BY <1>4 DEF ReceiveDecision, HandlerInv
  <2>6. QED
    BY <2>3, <2>4, <2>5
<1>5. ASSUME NEW r \in Request, ObserveCancel(r)
      PROVE  BrokerInv'
  <2>1. TypeOK'
    BY <1>5 DEF ObserveCancel
  <2>2. ASSUME NEW q \in Request
        PROVE  ReqInv(q)'
    BY <1>5 DEF ObserveCancel, ReqInv, OutcomeOf, Settled, Undecided
  <2>3. ASSUME NEW h \in Handler
        PROVE  HandlerInv(h)'
    BY <1>5 DEF ObserveCancel, HandlerInv
  <2>4. QED
    BY <2>1, <2>2, <2>3
<1>6. ASSUME NEW r \in Request, CancelOwn(r)
      PROVE  BrokerInv'
  <2>1. CASE /\ Settle(r, r, Cancelled)
             /\ pc' = [pc EXCEPT ![r] = "closing"]
             /\ UNCHANGED answer
    <3>1. r \in Actor /\ Cancelled \in Outcome
      BY DEF Actor, Outcome
    <3>2. /\ record' \in [Request -> Record]
          /\ done' \in [Request -> {<<>>} \cup {<<x>> : x \in Outcome}]
          /\ outbox' \in [Actor -> Event \cup {NoEvent}]
          /\ done'[r] = <<Cancelled>>
          /\ OutcomeOf(r)' = Cancelled
          /\ Settled(r)'
          /\ \A q \in Request \ {r} : record'[q] = record[q] /\ done'[q] = done[q]
          /\ outbox'[r] = Decided(r, Cancelled)
          /\ \A b \in Actor \ {r} : outbox'[b] = outbox[b]
      BY <2>1, <3>1, SettleStep
    <3>3. TypeOK'
      BY <1>6, <2>1, <3>2 DEF CancelOwn
    <3>4. ReqInv(r)'
      <4>1. Decided(r, Cancelled) \in Event
        BY <3>1 DEF Event
      <4>2. record'[r].status = "cancelled"
        BY <3>2 DEF OutcomeOf, Cancelled
      <4>3. answer'[r] = NoAnswer
        BY <1>6, <2>1 DEF CancelOwn, ReqInv
      <4>4. pc'[r] = "closing"
        BY <2>1
      <4>5. answer'[r] \notin Outcome
        BY <4>3, BrokerAssumption
      <4>6. OutcomeOf(r)' = Cancelled /\ outbox'[r] \in Event /\ done'[r] = <<OutcomeOf(r)'>>
        BY <3>2, <4>1
      <4>7. QED
        BY <3>1, <3>2, <4>2, <4>3, <4>4, <4>5, <4>6 DEF ReqInv, Undecided
    <3>5. ASSUME NEW q \in Request, q # r
          PROVE  ReqInv(q)'
      <4>1. outbox'[q] = outbox[q] /\ record'[q] = record[q] /\ done'[q] = done[q]
        BY <3>2, <3>5 DEF Actor
      <4>2. pc'[q] = pc[q] /\ answer'[q] = answer[q]
        BY <2>1, <3>5
      <4>3. QED
        BY <4>1, <4>2 DEF ReqInv, OutcomeOf, Settled, Undecided
    <3>6. ASSUME NEW h \in Handler
          PROVE  HandlerInv(h)'
      BY <3>2, BrokerAssumption DEF HandlerInv, Actor
    <3>7. QED
      BY <3>3, <3>4, <3>5, <3>6
  <2>2. CASE /\ Settled(r)
             /\ pc' = [pc EXCEPT ![r] = "returned"]
             /\ answer' = [answer EXCEPT ![r] = RequestCancelled]
             /\ UNCHANGED <<record, done, outbox>>
    <3>1. TypeOK'
      BY <1>6, <2>2 DEF CancelOwn
    <3>2. RequestCancelled \notin Outcome
      BY DEF RequestCancelled, Outcome, Selected, Cancelled
    <3>3. ASSUME NEW q \in Request
          PROVE  ReqInv(q)'
      BY <1>6, <2>2, <3>2, BrokerAssumption DEF CancelOwn, ReqInv, OutcomeOf, Settled, Undecided
    <3>4. ASSUME NEW h \in Handler
          PROVE  HandlerInv(h)'
      BY <2>2 DEF HandlerInv
    <3>5. QED
      BY <3>1, <3>3, <3>4
  <2>3. QED
    BY <1>6, <2>1, <2>2 DEF CancelOwn
<1>7. ASSUME NEW r \in Request, PublishOwnCancel(r)
      PROVE  BrokerInv'
  <2> log' \in Seq(Event)
    BY <1>7 DEF PublishOwnCancel, ReqInv
  <2>1. TypeOK'
    BY <1>7 DEF PublishOwnCancel
  <2>2. RequestCancelled \notin Outcome
    BY DEF RequestCancelled, Outcome, Selected, Cancelled
  <2>3. ASSUME NEW q \in Request
        PROVE  ReqInv(q)'
    BY <1>7, <2>2, BrokerAssumption DEF PublishOwnCancel, ReqInv, OutcomeOf, Settled, Undecided, Actor
  <2>4. ASSUME NEW h \in Handler
        PROVE  HandlerInv(h)'
    BY <1>7, BrokerAssumption DEF PublishOwnCancel, HandlerInv, Actor
  <2>5. QED
    BY <2>1, <2>3, <2>4
<1>8. ASSUME NEW h \in Handler, PublishDecided(h)
      PROVE  BrokerInv'
  <2>1. PICK r \in Request, o \in Outcome : outbox[h] = Decided(r, o)
    BY <1>8 DEF PublishDecided, HandlerInv
  <2>2. /\ outbox[h] \in Event
        /\ outbox[h].request = r
        /\ outbox[h].outcome = o
    BY <2>1 DEF Event, Decided
  <2> log' \in Seq(Event)
    BY <1>8, <2>2 DEF PublishDecided
  <2>3. TypeOK'
    BY <1>8, <2>2 DEF PublishDecided
  <2>4. ASSUME NEW q \in Request
        PROVE  ReqInv(q)'
    BY <1>8, BrokerAssumption DEF PublishDecided, ReqInv, OutcomeOf, Settled, Undecided, Actor
  <2>5. ASSUME NEW k \in Handler
        PROVE  HandlerInv(k)'
    BY <1>8 DEF PublishDecided, HandlerInv, Actor
  <2>6. QED
    BY <2>3, <2>4, <2>5
<1>9. ASSUME NEW h \in Handler, NEW r \in Request, NEW d \in Decision, Decide(h, r, d)
      PROVE  BrokerInv'
  <2> h \in Actor
    BY DEF Actor
  <2>1. ASSUME NEW o \in Outcome, Settle(h, r, o), o.status = "selected" => HasOption(Offer[r], o.option)
        PROVE  BrokerInv'
    <3>1. /\ record' \in [Request -> Record]
          /\ done' \in [Request -> {<<>>} \cup {<<x>> : x \in Outcome}]
          /\ outbox' \in [Actor -> Event \cup {NoEvent}]
          /\ done'[r] = <<o>>
          /\ OutcomeOf(r)' = o
          /\ Settled(r)'
          /\ \A q \in Request \ {r} : record'[q] = record[q] /\ done'[q] = done[q]
          /\ outbox'[h] = Decided(r, o)
          /\ \A b \in Actor \ {h} : outbox'[b] = outbox[b]
      BY <2>1, SettleStep
    <3>2. TypeOK'
      BY <1>9, <3>1 DEF Decide
    <3>3. \A q \in Request : outbox'[q] = outbox[q] /\ pc'[q] = pc[q] /\ answer'[q] = answer[q]
      BY <1>9, <3>1, BrokerAssumption DEF Decide, Actor
    <3>4. Undecided(r) /\ answer[r] = NoAnswer
      BY <2>1 DEF Settle, ReqInv, Undecided
    <3>5. ReqInv(r)'
      <4>1. record'[r].status = o.status /\ record'[r].option = o.option /\ Settled(r)'
        BY <3>1 DEF OutcomeOf
      <4>2. OutcomeOf(r)' = o /\ done'[r] = <<OutcomeOf(r)'>>
        BY <3>1
      <4>3. answer'[r] = NoAnswer /\ answer'[r] \notin Outcome
        BY <3>3, <3>4, BrokerAssumption
      <4>4. /\ pc'[r] \in {"announcing", "waiting", "cancelling"}
            /\ pc'[r] = "announcing" => outbox'[r] \in Event
        BY <3>3, <3>4 DEF Undecided, ReqInv
      <4>5. record'[r].status \in {"selected", "cancelled"}
        BY <4>1 DEF Settled
      <4>6. QED
        BY <2>1, <4>1, <4>2, <4>3, <4>4, <4>5 DEF ReqInv
    <3>6. ASSUME NEW q \in Request, q # r
          PROVE  ReqInv(q)'
      BY <3>1, <3>3, <3>6 DEF ReqInv, OutcomeOf, Settled, Undecided
    <3>7. ASSUME NEW k \in Handler
          PROVE  HandlerInv(k)'
      BY <3>1 DEF HandlerInv, Actor
    <3>8. QED
      BY <3>2, <3>5, <3>6, <3>7
  <2>2. CASE Settle(h, r, Cancelled)
    BY <2>1, <2>2 DEF Outcome, Cancelled
  <2>3. CASE HasOption(Offer[r], ChosenOption(r, d)) /\ Settle(h, r, Selected(ChosenOption(r, d)))
    <3>1. Selected(ChosenOption(r, d)) \in Outcome
      BY <2>3, ChosenOutcome
    <3>2. Selected(ChosenOption(r, d)).option = ChosenOption(r, d)
      BY DEF Selected
    <3>3. QED
      BY <2>1, <2>3, <3>1, <3>2
  <2>4. CASE /\ record[r].status = "pending"
             /\ record' = [record EXCEPT ![r].stamped = TRUE]
             /\ UNCHANGED <<done, outbox>>
    <3>1. TypeOK'
      BY <1>9, <2>4 DEF Decide, Record
    <3>2. \A q \in Request : record'[q].status = record[q].status /\ record'[q].option = record[q].option
      BY <2>4 DEF Record
    <3>3. ASSUME NEW q \in Request
          PROVE  ReqInv(q)'
      BY <1>9, <2>4, <3>2 DEF Decide, ReqInv, OutcomeOf, Settled, Undecided
    <3>4. ASSUME NEW k \in Handler
          PROVE  HandlerInv(k)'
      BY <2>4 DEF HandlerInv
    <3>5. QED
      BY <3>1, <3>3, <3>4
  <2>5. QED
    BY <1>9, <2>2, <2>3, <2>4 DEF Decide
<1>10. CASE UNCHANGED vars
  <2>1. TypeOK'
    BY <1>10 DEF vars
  <2>2. ASSUME NEW q \in Request
        PROVE  ReqInv(q)'
    BY <1>10 DEF vars, ReqInv, OutcomeOf, Settled, Undecided
  <2>3. ASSUME NEW h \in Handler
        PROVE  HandlerInv(h)'
    BY <1>10 DEF vars, HandlerInv
  <2>4. QED
    BY <2>1, <2>2, <2>3
<1>11. QED
  BY <1>1, <1>2, <1>3, <1>4, <1>5, <1>6, <1>7, <1>8, <1>9, <1>10 DEF Next, Requester

\* The inductive invariant holds in every reachable state.
THEOREM BrokerInvariance == Spec => []BrokerInv
<1>1. QED
  BY BrokerInitInv, BrokerNextInv, PTL DEF Spec

\* The variables keep their types, and the channel its capacity.
THEOREM BrokerTypeCorrect == Spec => []TypeOK
<1>1. BrokerInv => TypeOK
  BY DEF BrokerInv
<1>2. QED
  BY <1>1, BrokerInvariance, PTL

\* The agent's answer is the recorded outcome, for any number of handlers.
THEOREM AnswersAgree == Spec => []AnswerAgrees
<1>1. BrokerInv => AnswerAgrees
  <2>1. ASSUME BrokerInv, NEW r \in Request
        PROVE  /\ answer[r] # NoAnswer => Settled(r)
               /\ answer[r] \in Outcome => answer[r] = OutcomeOf(r)
               /\ record[r].status = "selected" => HasOption(Offer[r], record[r].option)
    BY <2>1 DEF BrokerInv, ReqInv
  <2>2. QED
    BY <2>1 DEF AnswerAgrees
<1>2. QED
  BY <1>1, BrokerInvariance, PTL

\* A settled record never changes again.
THEOREM DecisionsAreFinal == Spec => DecisionIsFinal
<1>1. ASSUME BrokerInv, [Next]_vars, NEW r \in Request, Settled(r)
      PROVE  record'[r] = record[r]
  <2> USE <1>1 DEF BrokerInv, TypeOK
  <2>1. ASSUME NEW a \in Actor, NEW q \in Request, NEW o \in Outcome, Settle(a, q, o)
        PROVE  record'[r] = record[r]
    BY <2>1 DEF Settle, Settled
  <2>2. ASSUME NEW q \in Request, Insert(q)
        PROVE  record'[r] = record[r]
    BY <2>2 DEF Insert, ReqInv, OutcomeOf, Settled
  <2>3. ASSUME NEW q \in Request, CancelOwn(q)
        PROVE  record'[r] = record[r]
    BY <2>1, <2>3 DEF CancelOwn, Actor, Outcome
  <2>4. ASSUME NEW h \in Handler, NEW q \in Request, NEW d \in Decision, Decide(h, q, d)
        PROVE  record'[r] = record[r]
    <3>1. CASE Settle(h, q, Cancelled)
      BY <2>1, <3>1 DEF Actor, Outcome
    <3>2. CASE HasOption(Offer[q], ChosenOption(q, d)) /\ Settle(h, q, Selected(ChosenOption(q, d)))
      BY <2>1, <3>2, ChosenOutcome DEF Actor
    <3>3. CASE record[q].status = "pending" /\ record' = [record EXCEPT ![q].stamped = TRUE]
      BY <3>3 DEF Settled
    <3>4. QED
      BY <2>4, <3>1, <3>2, <3>3 DEF Decide
  <2>5. QED
    BY <2>2, <2>3, <2>4 DEF Next, Requester, vars, PublishRequested, EndContext, ReceiveDecision,
      ObserveCancel, PublishOwnCancel, PublishDecided
<1>2. BrokerInv /\ [Next]_vars => [\A r \in Request : Settled(r) => record'[r] = record[r]]_vars
  BY <1>1
<1>3. QED
  BY <1>2, BrokerInvariance, PTL DEF Spec, DecisionIsFinal

-----------------------------------------------------------------------------
\* A step that leaves the outcomes and the answers alone is a stutter of the
\* promise.
LEMMA PromiseStutter ==
  ASSUME \A q \in Request : OutcomeOf(q)' = OutcomeOf(q), answer' = answer
  PROVE  UNCHANGED Promise!vars
BY DEF Promise!vars

\* A settlement is a step Settle of the promise.
LEMMA PromiseSettle ==
  ASSUME BrokerInv, NEW a \in Actor, NEW r \in Request, NEW o \in Outcome, Settle(a, r, o), answer' = answer
  PROVE  Promise!Settle(r, o)
<1>1. /\ OutcomeOf(r)' = o
      /\ \A q \in Request \ {r} : OutcomeOf(q)' = OutcomeOf(q)
  BY SettleStep DEF OutcomeOf
<1>2. OutcomeOf(r) = [status |-> "pending", option |-> NoOption]
  BY DEF BrokerInv, ReqInv, Settle, OutcomeOf
<1>3. QED
  BY <1>1, <1>2 DEF Promise!Settle

\* A return to the agent is a step Return of the promise.
LEMMA PromiseReturn ==
  ASSUME NEW r \in Request, NEW x \in {OutcomeOf(r), RequestCancelled},
         OutcomeOf(r) \in Outcome, answer[r] = NoAnswer,
         answer' = [answer EXCEPT ![r] = x],
         \A q \in Request : OutcomeOf(q)' = OutcomeOf(q)
  PROVE  Promise!Return(r)
BY DEF Promise!Return

\* The broker implements the safety part of its promise: every decision is
\* write-once and every call returns the outcome it was settled with, or
\* "cancelled" after it was settled.
THEOREM KeepsPromise == Spec => Promise!Safety
<1>1. Init => Promise!Init
  BY DEF Init, Promise!Init, OutcomeOf
<1>2. BrokerInv /\ [Next]_vars => [Promise!Next]_(Promise!vars)
  <2> SUFFICES ASSUME BrokerInv, [Next]_vars
               PROVE  Promise!Next \/ UNCHANGED Promise!vars
    OBVIOUS
  <2> USE DEF BrokerInv, TypeOK
  <2>1. ASSUME NEW r \in Request, Insert(r)
        PROVE  Promise!Ask(r)
    <3>1. OutcomeOf(r) = [status |-> "absent", option |-> NoOption]
      BY <2>1 DEF Insert, ReqInv
    <3>2. OutcomeOf(r)' = [status |-> "pending", option |-> NoOption]
      BY <2>1, <3>1 DEF Insert, OutcomeOf, Record
    <3>3. \A q \in Request \ {r} : OutcomeOf(q)' = OutcomeOf(q)
      BY <2>1 DEF Insert, OutcomeOf
    <3>4. QED
      BY <2>1, <3>1, <3>2, <3>3 DEF Insert, Promise!Ask
  <2>2. ASSUME NEW r \in Request, ReceiveDecision(r)
        PROVE  Promise!Return(r)
    <3>1. done[r] = <<OutcomeOf(r)>> /\ OutcomeOf(r) \in Outcome /\ answer[r] = NoAnswer
      BY <2>2 DEF ReceiveDecision, ReqInv
    <3>2. Head(done[r]) = OutcomeOf(r)
      BY <3>1
    <3>3. \A q \in Request : OutcomeOf(q)' = OutcomeOf(q)
      BY <2>2 DEF ReceiveDecision, OutcomeOf
    <3>4. answer' = [answer EXCEPT ![r] = OutcomeOf(r)]
      BY <2>2, <3>2 DEF ReceiveDecision
    <3>5. QED
      BY <3>1, <3>3, <3>4, PromiseReturn
  <2>3. ASSUME NEW r \in Request, CancelOwn(r)
        PROVE  Promise!Return(r) \/ Promise!Settle(r, Cancelled)
    <3>1. CASE Settle(r, r, Cancelled) /\ UNCHANGED answer
      BY <3>1, PromiseSettle DEF Actor, Outcome
    <3>2. CASE /\ Settled(r)
               /\ answer' = [answer EXCEPT ![r] = RequestCancelled]
               /\ UNCHANGED record
      <4>1. OutcomeOf(r) \in Outcome /\ answer[r] = NoAnswer
        BY <2>3, <3>2 DEF CancelOwn, ReqInv
      <4>2. \A q \in Request : OutcomeOf(q)' = OutcomeOf(q)
        BY <3>2 DEF OutcomeOf
      <4>3. QED
        BY <3>2, <4>1, <4>2, PromiseReturn
    <3>3. QED
      BY <2>3, <3>1, <3>2 DEF CancelOwn
  <2>4. ASSUME NEW r \in Request, PublishOwnCancel(r)
        PROVE  Promise!Return(r)
    <3>1. OutcomeOf(r) \in Outcome /\ answer[r] = NoAnswer
      BY <2>4 DEF PublishOwnCancel, ReqInv
    <3>2. \A q \in Request : OutcomeOf(q)' = OutcomeOf(q)
      BY <2>4 DEF PublishOwnCancel, OutcomeOf
    <3>3. QED
      BY <2>4, <3>1, <3>2, PromiseReturn DEF PublishOwnCancel
  <2>5. ASSUME NEW h \in Handler, NEW r \in Request, NEW d \in Decision, Decide(h, r, d)
        PROVE  (\E o \in Outcome : Promise!Settle(r, o)) \/ UNCHANGED Promise!vars
    <3>1. h \in Actor /\ answer' = answer
      BY <2>5 DEF Actor, Decide
    <3>2. CASE Settle(h, r, Cancelled)
      BY <3>1, <3>2, PromiseSettle DEF Outcome
    <3>3. CASE HasOption(Offer[r], ChosenOption(r, d)) /\ Settle(h, r, Selected(ChosenOption(r, d)))
      <4>1. Selected(ChosenOption(r, d)) \in Outcome
        BY <3>3, ChosenOutcome
      <4>2. QED
        BY <3>1, <3>3, <4>1, PromiseSettle
    <3>4. CASE record' = [record EXCEPT ![r].stamped = TRUE]
      <4>1. \A q \in Request : OutcomeOf(q)' = OutcomeOf(q)
        BY <3>4 DEF OutcomeOf, Record
      <4>2. QED
        BY <3>1, <4>1, PromiseStutter
    <3>5. QED
      BY <2>5, <3>2, <3>3, <3>4 DEF Decide
  <2>6. ASSUME record' = record, answer' = answer
        PROVE  UNCHANGED Promise!vars
    BY <2>6, PromiseStutter DEF OutcomeOf
  <2>7. Cancelled \in Outcome
    BY DEF Outcome
  <2>8. QED
    BY <2>1, <2>2, <2>3, <2>4, <2>5, <2>6, <2>7 DEF Next, Requester, vars, Promise!Next,
      PublishRequested, EndContext, ObserveCancel, PublishDecided
<1>3. QED
  BY <1>1, <1>2, BrokerInvariance, PTL DEF Spec, Promise!Safety

-----------------------------------------------------------------------------
(* The broker's events.  Announced counts nothing: it says where the one   *)
(* decided event of a request is, in an actor's outbox or in the log.      *)

DecidedOf(r) == {Decided(r, o) : o \in Outcome}
Logged(r) == {i \in DOMAIN log : log[i] \in DecidedOf(r)}
Held(r) == {a \in Actor : outbox[a] \in DecidedOf(r)}

Announced(r) ==
  \/ ~Settled(r) /\ Logged(r) = {} /\ Held(r) = {}
  \/ /\ Settled(r) /\ Logged(r) = {}
     /\ \E a \in Actor : Held(r) = {a} /\ outbox[a] = Decided(r, OutcomeOf(r))
  \/ /\ Settled(r) /\ Held(r) = {}
     /\ \E i \in DOMAIN log : Logged(r) = {i} /\ log[i] = Decided(r, OutcomeOf(r))

\* What a requester has to publish, by the place it is at.
Outgoing(r) ==
  /\ pc[r] = "announcing" => outbox[r] = Requested(r)
  /\ pc[r] = "closing" => outbox[r] \in DecidedOf(r)
  /\ pc[r] \notin {"announcing", "closing"} => outbox[r] = NoEvent

AnnounceInv == BrokerInv /\ \A r \in Request : Outgoing(r) /\ Announced(r)

\* The events of two requests, and the two events of one, are different.
LEMMA EventsDiffer ==
  ASSUME NEW r \in Request
  PROVE  /\ NoEvent \notin DecidedOf(r)
         /\ \A q \in Request : Requested(q) \notin DecidedOf(r)
         /\ \A q \in Request : q # r => DecidedOf(q) \cap DecidedOf(r) = {}
         /\ DecidedOf(r) \subseteq Event
<1>1. DecidedOf(r) \subseteq Event
  BY DEF DecidedOf, Event
<1>2. NoEvent \notin DecidedOf(r)
  BY <1>1, BrokerAssumption
<1>3. \A q \in Request : Requested(q) \notin DecidedOf(r)
  BY DEF DecidedOf, Requested, Decided
<1>4. \A q \in Request : q # r => DecidedOf(q) \cap DecidedOf(r) = {}
  BY DEF DecidedOf, Decided
<1>5. QED
  BY <1>1, <1>2, <1>3, <1>4

\* A step that moves no event of r and leaves its record alone.
LEMMA AnnouncedFrame ==
  ASSUME NEW r \in Request, Announced(r), log \in Seq(Event),
         OutcomeOf(r)' = OutcomeOf(r), Settled(r)' <=> Settled(r),
         \A a \in Actor : outbox'[a] = outbox[a]
                            \/ (outbox[a] \notin DecidedOf(r) /\ outbox'[a] \notin DecidedOf(r)),
         log' = log \/ \E e \in Event \ DecidedOf(r) : log' = Append(log, e)
  PROVE  Announced(r)'
<1>1. DecidedOf(r)' = DecidedOf(r)
  BY DEF DecidedOf
<1>2. Held(r)' = Held(r)
  BY <1>1 DEF Held
<1>3. Logged(r)' = Logged(r) /\ \A i \in DOMAIN log : i \in DOMAIN log' /\ log'[i] = log[i]
  <2>1. CASE log' = log
    BY <1>1, <2>1 DEF Logged
  <2>2. ASSUME NEW e \in Event \ DecidedOf(r), log' = Append(log, e)
        PROVE  Logged(r)' = Logged(r) /\ \A i \in DOMAIN log : i \in DOMAIN log' /\ log'[i] = log[i]
    <3>1. /\ DOMAIN log' = DOMAIN log \cup {Len(log) + 1} /\ log'[Len(log) + 1] = e
          /\ \A i \in DOMAIN log : log'[i] = log[i]
      BY <2>2
    <3>2. QED
      BY <1>1, <2>2, <3>1 DEF Logged
  <2>3. QED
    BY <2>1, <2>2
<1>4. \A a \in Held(r) : outbox'[a] = outbox[a]
  BY DEF Held
<1>5. CASE ~Settled(r) /\ Logged(r) = {} /\ Held(r) = {}
  BY <1>2, <1>3, <1>5 DEF Announced
<1>6. ASSUME Settled(r), Logged(r) = {}, NEW a \in Actor, Held(r) = {a}, outbox[a] = Decided(r, OutcomeOf(r))
      PROVE  Announced(r)'
  <2>1. Held(r)' = {a} /\ outbox'[a] = Decided(r, OutcomeOf(r)) /\ Logged(r)' = {} /\ Settled(r)'
    BY <1>2, <1>3, <1>4, <1>6
  <2>2. Decided(r, OutcomeOf(r))' = Decided(r, OutcomeOf(r))
    BY DEF Decided
  <2>3. Actor' = Actor
    BY DEF Actor
  <2>4. QED
    BY <2>1, <2>2, <2>3 DEF Announced
<1>7. ASSUME Settled(r), Held(r) = {}, NEW i \in DOMAIN log, Logged(r) = {i}, log[i] = Decided(r, OutcomeOf(r))
      PROVE  Announced(r)'
  <2>1. /\ Held(r)' = {} /\ i \in DOMAIN log' /\ log'[i] = Decided(r, OutcomeOf(r))
        /\ Logged(r)' = {i} /\ Settled(r)'
    BY <1>2, <1>3, <1>7
  <2>2. Decided(r, OutcomeOf(r))' = Decided(r, OutcomeOf(r))
    BY DEF Decided
  <2>3. QED
    BY <2>1, <2>2 DEF Announced
<1>8. QED
  BY <1>5, <1>6, <1>7 DEF Announced

\* A settlement puts the event of its request into one outbox.
LEMMA SettleAnnounces ==
  ASSUME AnnounceInv, NEW a \in Actor, NEW r \in Request, NEW o \in Outcome, Settle(a, r, o),
         outbox[a] = NoEvent, log' = log
  PROVE  \A q \in Request : Announced(q)'
<1> USE DEF AnnounceInv
<1>1. /\ OutcomeOf(r)' = o /\ Settled(r)'
      /\ \A q \in Request \ {r} : record'[q] = record[q]
      /\ outbox'[a] = Decided(r, o)
      /\ \A b \in Actor \ {a} : outbox'[b] = outbox[b]
  BY SettleStep
<1>2. ASSUME NEW q \in Request, q # r
      PROVE  Announced(q)'
  <2>1. OutcomeOf(q)' = OutcomeOf(q) /\ (Settled(q)' <=> Settled(q))
    BY <1>1, <1>2 DEF OutcomeOf, Settled
  <2>2. Decided(r, o) \in DecidedOf(r)
    BY DEF DecidedOf
  <2>3. Decided(r, o) \notin DecidedOf(q) /\ NoEvent \notin DecidedOf(q)
    BY <1>2, <2>2, EventsDiffer
  <2>4. \A b \in Actor : outbox'[b] = outbox[b]
                           \/ (outbox[b] \notin DecidedOf(q) /\ outbox'[b] \notin DecidedOf(q))
    BY <1>1, <2>3
  <2>5. log \in Seq(Event)
    BY DEF BrokerInv, TypeOK
  <2>6. QED
    BY <2>1, <2>4, <2>5, AnnouncedFrame
<1>3. Announced(r)'
  <2>1. ~Settled(r)
    BY DEF Settle, Settled
  <2>2. Logged(r) = {} /\ Held(r) = {}
    BY <2>1 DEF Announced
  <2>3. DecidedOf(r)' = DecidedOf(r) /\ Actor' = Actor
    BY DEF DecidedOf, Actor
  <2>4. Logged(r)' = {}
    BY <2>2, <2>3 DEF Logged
  <2>5. Decided(r, o) \in DecidedOf(r)
    BY DEF DecidedOf
  <2>6. Held(r)' = {a}
    BY <1>1, <2>2, <2>3, <2>5 DEF Held
  <2>7. outbox'[a] = Decided(r, OutcomeOf(r))'
    BY <1>1 DEF Decided
  <2>8. QED
    BY <1>1, <2>3, <2>4, <2>6, <2>7 DEF Announced
<1>4. QED
  BY <1>2, <1>3

\* A publication moves an event from an outbox to the log.
LEMMA PublishAnnounces ==
  ASSUME AnnounceInv, NEW a \in Actor, NEW r \in Request, outbox[a] \in DecidedOf(r),
         log' = Append(log, outbox[a]), outbox' = [outbox EXCEPT ![a] = NoEvent], record' = record
  PROVE  \A q \in Request : Announced(q)'
<1> USE DEF AnnounceInv
<1>1. log \in Seq(Event) /\ outbox \in [Actor -> Event \cup {NoEvent}]
  BY DEF BrokerInv, TypeOK
<1>2. outbox'[a] = NoEvent /\ \A b \in Actor \ {a} : outbox'[b] = outbox[b]
  BY <1>1
<1>3. \A q \in Request : OutcomeOf(q)' = OutcomeOf(q) /\ (Settled(q)' <=> Settled(q))
  BY DEF OutcomeOf, Settled
<1>4. ASSUME NEW q \in Request, q # r
      PROVE  Announced(q)'
  <2>1. outbox[a] \in Event \ DecidedOf(q) /\ NoEvent \notin DecidedOf(q)
    BY <1>4, EventsDiffer
  <2>2. \A b \in Actor : outbox'[b] = outbox[b]
                           \/ (outbox[b] \notin DecidedOf(q) /\ outbox'[b] \notin DecidedOf(q))
    BY <1>2, <2>1
  <2>3. QED
    BY <1>1, <1>3, <2>1, <2>2, AnnouncedFrame
<1>5. Announced(r)'
  <2>1. a \in Held(r)
    BY DEF Held
  <2>2. Settled(r) /\ Logged(r) = {} /\ Held(r) = {a} /\ outbox[a] = Decided(r, OutcomeOf(r))
    BY <2>1 DEF Announced
  <2>3. DecidedOf(r)' = DecidedOf(r) /\ Actor' = Actor
    BY DEF DecidedOf, Actor
  <2>4. NoEvent \notin DecidedOf(r)
    BY EventsDiffer
  <2>5. Held(r)' = {}
    BY <1>2, <2>2, <2>3, <2>4 DEF Held
  <2>6. outbox[a] \in Event
    BY EventsDiffer
  <2>7. /\ DOMAIN log' = DOMAIN log \cup {Len(log) + 1} /\ log'[Len(log) + 1] = outbox[a]
        /\ \A i \in DOMAIN log : log'[i] = log[i]
    BY <1>1, <2>6
  <2>8. Logged(r)' = {Len(log) + 1}
    BY <2>2, <2>3, <2>7 DEF Logged
  <2>9. log'[Len(log) + 1] = Decided(r, OutcomeOf(r))' /\ Len(log) + 1 \in DOMAIN log'
    BY <1>3, <2>2, <2>7 DEF Decided
  <2>10. QED
    BY <1>3, <2>2, <2>5, <2>8, <2>9 DEF Announced
<1>6. QED
  BY <1>4, <1>5

\* A step that leaves records, outboxes and the log alone.
LEMMA AnnouncedIdle ==
  ASSUME AnnounceInv, UNCHANGED <<outbox, log>>,
         \A q \in Request : OutcomeOf(q)' = OutcomeOf(q)
  PROVE  \A q \in Request : Announced(q)'
<1>1. ASSUME NEW q \in Request
      PROVE  Announced(q)'
  <2>1. Settled(q)' <=> Settled(q)
    BY DEF OutcomeOf, Settled
  <2>2. log \in Seq(Event)
    BY DEF AnnounceInv, BrokerInv, TypeOK
  <2>3. QED
    BY <2>1, <2>2, AnnouncedFrame DEF AnnounceInv
<1>2. QED
  BY <1>1

\* Every step keeps what each requester has to publish, and the place of
\* every decided event.
LEMMA AnnounceNext == AnnounceInv /\ [Next]_vars => AnnounceInv'
<1> SUFFICES ASSUME AnnounceInv, [Next]_vars
             PROVE  AnnounceInv'
  OBVIOUS
<1>0. BrokerInv'
  BY BrokerNextInv DEF AnnounceInv
<1>a. /\ pc \in [Request -> {"start", "announcing", "waiting", "cancelling", "closing", "returned"}]
      /\ outbox \in [Actor -> Event \cup {NoEvent}] /\ log \in Seq(Event)
      /\ record \in [Request -> Record]
      /\ Request \subseteq Actor /\ Handler \subseteq Actor /\ Request \cap Handler = {}
  BY BrokerAssumption DEF AnnounceInv, BrokerInv, TypeOK, Actor
<1>b. \A r \in Request : Outgoing(r) /\ Announced(r)
  BY DEF AnnounceInv
<1>c. \A r \in Request : DecidedOf(r)' = DecidedOf(r) /\ Requested(r)' = Requested(r)
  BY DEF DecidedOf, Requested
<1>d. SUFFICES \A r \in Request : Outgoing(r)' /\ Announced(r)'
  BY <1>0 DEF AnnounceInv
<1>1. ASSUME NEW r \in Request, Insert(r)
      PROVE  \A q \in Request : Outgoing(q)' /\ Announced(q)'
  <2>1. outbox[r] = NoEvent /\ outbox'[r] = Requested(r) /\ pc'[r] = "announcing"
    BY <1>1, <1>a, <1>b DEF Insert, Outgoing
  <2>2. \A b \in Actor \ {r} : outbox'[b] = outbox[b]
    BY <1>1, <1>a DEF Insert
  <2>3. ASSUME NEW q \in Request
        PROVE  Announced(q)'
    <3>1. record[r].status = "absent" /\ record'[r].status = "pending" /\ record'[r].option = record[r].option
      BY <1>1, <1>a DEF Insert, AnnounceInv, BrokerInv, ReqInv, OutcomeOf, Record
    <3>2. Requested(r) \notin DecidedOf(q) /\ NoEvent \notin DecidedOf(q)
      BY EventsDiffer
    <3>3. \A a \in Actor : outbox'[a] = outbox[a]
                             \/ (outbox[a] \notin DecidedOf(q) /\ outbox'[a] \notin DecidedOf(q))
      BY <2>1, <2>2, <3>2
    <3>4. CASE q # r
      <4>1. record'[q] = record[q]
        BY <1>1, <1>a, <3>4 DEF Insert
      <4>2. OutcomeOf(q)' = OutcomeOf(q) /\ (Settled(q)' <=> Settled(q)) /\ log' = log
        BY <1>1, <4>1 DEF OutcomeOf, Settled, Insert
      <4>3. QED
        BY <1>a, <1>b, <3>3, <4>2, AnnouncedFrame
    <3>5. CASE q = r
      <4>1. ~Settled(r) /\ ~Settled(r)' /\ log' = log
        BY <1>1, <3>1 DEF Settled, Insert
      <4>2. Logged(r) = {} /\ Held(r) = {}
        BY <1>b, <4>1 DEF Announced
      <4>3. Logged(r)' = {}
        BY <1>c, <4>1, <4>2 DEF Logged
      <4>4. Held(r)' = {}
        BY <1>c, <2>1, <2>2, <3>2, <3>5, <4>2 DEF Held, Actor
      <4>5. QED
        BY <3>5, <4>1, <4>3, <4>4 DEF Announced
    <3>6. QED
      BY <3>4, <3>5
  <2>4. \A q \in Request : Outgoing(q)'
    BY <1>1, <1>a, <1>b, <1>c, <2>1, <2>2 DEF Outgoing, Insert
  <2>5. QED
    BY <2>3, <2>4
<1>2. ASSUME NEW r \in Request, PublishRequested(r)
      PROVE  \A q \in Request : Outgoing(q)' /\ Announced(q)'
  <2>1. outbox[r] = Requested(r) /\ outbox'[r] = NoEvent /\ pc'[r] = "waiting" /\ Requested(r) \in Event
    BY <1>2, <1>a, <1>b DEF PublishRequested, Outgoing, Event
  <2>2. \A b \in Actor \ {r} : outbox'[b] = outbox[b]
    BY <1>2, <1>a DEF PublishRequested
  <2>3. ASSUME NEW q \in Request
        PROVE  Announced(q)'
    <3>1. Requested(r) \notin DecidedOf(q) /\ NoEvent \notin DecidedOf(q)
      BY EventsDiffer
    <3>2. \A a \in Actor : outbox'[a] = outbox[a]
                             \/ (outbox[a] \notin DecidedOf(q) /\ outbox'[a] \notin DecidedOf(q))
      BY <2>1, <2>2, <3>1
    <3>3. OutcomeOf(q)' = OutcomeOf(q) /\ (Settled(q)' <=> Settled(q)) /\ log' = Append(log, Requested(r))
      BY <1>2, <2>1 DEF OutcomeOf, Settled, PublishRequested
    <3>4. QED
      BY <1>a, <1>b, <2>1, <3>1, <3>2, <3>3, AnnouncedFrame
  <2>4. \A q \in Request : Outgoing(q)'
    BY <1>2, <1>a, <1>b, <1>c, <2>1, <2>2 DEF Outgoing, PublishRequested
  <2>5. QED
    BY <2>3, <2>4
<1>3. ASSUME NEW r \in Request, CancelOwn(r)
      PROVE  \A q \in Request : Outgoing(q)' /\ Announced(q)'
  <2>1. outbox[r] = NoEvent /\ pc[r] = "cancelling"
    BY <1>3, <1>b DEF CancelOwn, Outgoing
  <2>2. CASE Settle(r, r, Cancelled) /\ pc' = [pc EXCEPT ![r] = "closing"]
    <3>1. Cancelled \in Outcome
      BY DEF Outcome
    <3>2. log' = log
      BY <1>3 DEF CancelOwn
    <3>3. \A q \in Request : Announced(q)'
      BY <1>a, <2>1, <2>2, <3>1, <3>2, SettleAnnounces
    <3>4. /\ outbox'[r] \in DecidedOf(r)
          /\ \A b \in Actor \ {r} : outbox'[b] = outbox[b]
          /\ pc'[r] = "closing"
      BY <1>a, <2>2, <3>1, SettleStep DEF DecidedOf, AnnounceInv
    <3>5. \A q \in Request : Outgoing(q)'
      BY <1>a, <1>b, <1>c, <2>2, <3>4 DEF Outgoing
    <3>6. QED
      BY <3>3, <3>5
  <2>3. CASE Settled(r) /\ pc' = [pc EXCEPT ![r] = "returned"] /\ UNCHANGED <<record, done, outbox>>
    <3>1. UNCHANGED <<outbox, log>>
      BY <1>3, <2>3 DEF CancelOwn
    <3>2. \A q \in Request : OutcomeOf(q)' = OutcomeOf(q)
      BY <2>3 DEF OutcomeOf
    <3>3. \A q \in Request : Announced(q)'
      BY <3>1, <3>2, AnnouncedIdle
    <3>4. \A q \in Request : Outgoing(q)'
      BY <1>a, <1>b, <1>c, <2>1, <2>3 DEF Outgoing
    <3>5. QED
      BY <3>3, <3>4
  <2>4. QED
    BY <1>3, <2>2, <2>3 DEF CancelOwn
<1>4. ASSUME NEW r \in Request, PublishOwnCancel(r)
      PROVE  \A q \in Request : Outgoing(q)' /\ Announced(q)'
  <2>1. outbox[r] \in DecidedOf(r)
    BY <1>4, <1>b DEF PublishOwnCancel, Outgoing
  <2>2. \A q \in Request : Announced(q)'
    BY <1>4, <1>a, <2>1, PublishAnnounces DEF PublishOwnCancel
  <2>3. pc'[r] = "returned" /\ outbox'[r] = NoEvent
    BY <1>4, <1>a DEF PublishOwnCancel
  <2>4. \A q \in Request : Outgoing(q)'
    BY <1>4, <1>a, <1>b, <1>c, <2>3 DEF Outgoing, PublishOwnCancel
  <2>5. QED
    BY <2>2, <2>4
<1>5. ASSUME NEW h \in Handler, NEW r \in Request, NEW d \in Decision, Decide(h, r, d)
      PROVE  \A q \in Request : Outgoing(q)' /\ Announced(q)'
  <2>1. outbox[h] = NoEvent /\ log' = log /\ pc' = pc
    BY <1>5 DEF Decide
  <2>2. ASSUME NEW o \in Outcome, Settle(h, r, o)
        PROVE  \A q \in Request : Outgoing(q)' /\ Announced(q)'
    <3>1. \A q \in Request : Announced(q)'
      BY <1>a, <2>1, <2>2, SettleAnnounces
    <3>2. \A q \in Request : outbox'[q] = outbox[q]
      BY <1>a, <2>2, SettleStep DEF AnnounceInv
    <3>3. \A q \in Request : Outgoing(q)'
      BY <1>a, <1>b, <1>c, <2>1, <3>2 DEF Outgoing
    <3>4. QED
      BY <3>1, <3>3
  <2>3. CASE Settle(h, r, Cancelled)
    BY <2>2, <2>3 DEF Outcome
  <2>4. CASE HasOption(Offer[r], ChosenOption(r, d)) /\ Settle(h, r, Selected(ChosenOption(r, d)))
    BY <2>2, <2>4, ChosenOutcome
  <2>5. CASE record' = [record EXCEPT ![r].stamped = TRUE] /\ UNCHANGED <<done, outbox>>
    <3>1. \A q \in Request : OutcomeOf(q)' = OutcomeOf(q)
      BY <1>a, <2>5 DEF OutcomeOf, Record
    <3>2. UNCHANGED <<outbox, log>>
      BY <2>1, <2>5
    <3>3. \A q \in Request : Announced(q)'
      BY <3>1, <3>2, AnnouncedIdle
    <3>4. \A q \in Request : Outgoing(q)'
      BY <1>a, <1>b, <1>c, <2>1, <3>2 DEF Outgoing
    <3>5. QED
      BY <3>3, <3>4
  <2>6. QED
    BY <1>5, <2>3, <2>4, <2>5 DEF Decide
<1>6. ASSUME NEW h \in Handler, PublishDecided(h)
      PROVE  \A q \in Request : Outgoing(q)' /\ Announced(q)'
  <2>1. PICK r \in Request, o \in Outcome : outbox[h] = Decided(r, o)
    BY <1>6 DEF PublishDecided, AnnounceInv, BrokerInv, HandlerInv
  <2>2. outbox[h] \in DecidedOf(r)
    BY <2>1 DEF DecidedOf
  <2>3. \A q \in Request : Announced(q)'
    BY <1>6, <1>a, <2>2, PublishAnnounces DEF PublishDecided
  <2>4. \A q \in Request : outbox'[q] = outbox[q]
    BY <1>6, <1>a DEF PublishDecided
  <2>5. \A q \in Request : Outgoing(q)'
    BY <1>6, <1>a, <1>b, <1>c, <2>4 DEF Outgoing, PublishDecided
  <2>6. QED
    BY <2>3, <2>5
<1>7. ASSUME UNCHANGED <<record, outbox, log>>,
             \A q \in Request : pc[q] \in {"announcing", "closing"} \/ pc'[q] \in {"announcing", "closing"}
                                  => pc'[q] = pc[q]
      PROVE  \A q \in Request : Outgoing(q)' /\ Announced(q)'
  <2>1. \A q \in Request : OutcomeOf(q)' = OutcomeOf(q)
    BY <1>7 DEF OutcomeOf
  <2>2. \A q \in Request : Announced(q)'
    BY <1>7, <2>1, AnnouncedIdle
  <2>3. \A q \in Request : Outgoing(q)'
    BY <1>7, <1>b, <1>c DEF Outgoing
  <2>4. QED
    BY <2>2, <2>3
<1>8. ASSUME NEW r \in Request, EndContext(r) \/ ReceiveDecision(r) \/ ObserveCancel(r)
      PROVE  \A q \in Request : Outgoing(q)' /\ Announced(q)'
  BY <1>7, <1>8, <1>a DEF EndContext, ReceiveDecision, ObserveCancel
<1>9. CASE UNCHANGED vars
  BY <1>7, <1>9 DEF vars
<1>10. QED
  BY <1>1, <1>2, <1>3, <1>4, <1>5, <1>6, <1>8, <1>9 DEF Next, Requester

\* For any requests, handlers and interleaving, a settled request has just
\* one decided event and it carries the recorded outcome.
THEOREM DecisionsAreAnnounced == Spec => []AnnouncedOnce
<1>1. Init => AnnounceInv
  <2>1. SUFFICES ASSUME Init, NEW r \in Request
                 PROVE  Outgoing(r) /\ Announced(r)
    BY BrokerInitInv DEF AnnounceInv
  <2>2. NoEvent \notin DecidedOf(r)
    BY EventsDiffer
  <2>3. Logged(r) = {} /\ Held(r) = {}
    BY <2>1, <2>2 DEF Init, Logged, Held
  <2>4. ~Settled(r)
    BY <2>1 DEF Init, Settled
  <2>5. outbox[r] = NoEvent /\ pc[r] = "start"
    BY <2>1 DEF Init, Actor
  <2>6. QED
    BY <2>3, <2>4, <2>5 DEF Outgoing, Announced
<1>2. AnnounceInv => AnnouncedOnce
  <2>1. SUFFICES ASSUME AnnounceInv, NEW r \in Request
                 PROVE  /\ Cardinality(Logged(r)) + Cardinality(Held(r)) = IF Settled(r) THEN 1 ELSE 0
                        /\ \A i \in Logged(r) : log[i] = Decided(r, OutcomeOf(r))
                        /\ \A a \in Held(r) : outbox[a] = Decided(r, OutcomeOf(r))
    BY DEF AnnouncedOnce, Logged, Held, DecidedOf
  <2>2. Cardinality({}) = 0 /\ \A x : Cardinality({x}) = 1
    BY FS_EmptySet, FS_Singleton
  <2>3. Announced(r)
    BY <2>1 DEF AnnounceInv
  <2>4. CASE ~Settled(r) /\ Logged(r) = {} /\ Held(r) = {}
    BY <2>2, <2>4
  <2>5. ASSUME Settled(r), Logged(r) = {}, NEW a \in Actor, Held(r) = {a}, outbox[a] = Decided(r, OutcomeOf(r))
        PROVE  /\ Cardinality(Logged(r)) + Cardinality(Held(r)) = 1
               /\ \A i \in Logged(r) : log[i] = Decided(r, OutcomeOf(r))
               /\ \A b \in Held(r) : outbox[b] = Decided(r, OutcomeOf(r))
    <3>1. Cardinality(Held(r)) = 1
      BY <2>2, <2>5
    <3>2. Cardinality(Logged(r)) = 0
      BY <2>2, <2>5
    <3>3. QED
      BY <2>5, <3>1, <3>2
  <2>6. ASSUME Settled(r), Held(r) = {}, NEW i \in DOMAIN log, Logged(r) = {i}, log[i] = Decided(r, OutcomeOf(r))
        PROVE  /\ Cardinality(Logged(r)) + Cardinality(Held(r)) = 1
               /\ \A j \in Logged(r) : log[j] = Decided(r, OutcomeOf(r))
               /\ \A b \in Held(r) : outbox[b] = Decided(r, OutcomeOf(r))
    <3>1. Cardinality(Logged(r)) = 1
      BY <2>2, <2>6
    <3>2. Cardinality(Held(r)) = 0
      BY <2>2, <2>6
    <3>3. QED
      BY <2>6, <3>1, <3>2
  <2>7. QED
    BY <2>3, <2>4, <2>5, <2>6 DEF Announced
<1>3. QED
  BY <1>1, <1>2, AnnounceNext, PTL DEF Spec

-----------------------------------------------------------------------------
(* The bus.  BusInv is inductive: beside the properties themselves, what   *)
(* the publishers that run outside b.mu hold.  Two of them never hold the  *)
(* same event, and what one holds for a subscriber is newer than the       *)
(* moment the subscriber joined and has not been offered to it yet.        *)
JoinedPast ==
  \A s \in Sub :
    /\ joined[s] <= pushed
    /\ dropped[s] \subseteq (joined[s] + 1)..pushed
    /\ stage[s] = "new" => delivered[s] = <<>> /\ dropped[s] = {}

InFlight ==
  /\ \A p \in Publisher : \A s \in targets[p] :
       /\ stage[s] # "new"
       /\ event[p] \in (joined[s] + 1)..pushed
       /\ ~WasDelivered(s, event[p])
       /\ event[p] \notin dropped[s]
  /\ \A p, q \in Publisher :
       event[p] = event[q] /\ targets[p] # {} /\ targets[q] # {} => p = q

Accounted ==
  \A s \in Sub : stage[s] = "open" =>
    \A e \in (joined[s] + 1)..pushed :
      \/ \E p \in Publisher : Waiting(p, s, e)
      \/ WasDelivered(s, e)
      \/ e \in dropped[s]

DeliveredOnce ==
  \A s \in Sub :
    /\ \A i, j \in DOMAIN delivered[s] : delivered[s][i] = delivered[s][j] => i = j
    /\ \A i \in DOMAIN delivered[s] :
         /\ delivered[s][i] \in (joined[s] + 1)..pushed
         /\ delivered[s][i] \notin dropped[s]

BusInv ==
  /\ BusTypeOK
  /\ RingIsRecent
  /\ JoinedPast
  /\ InFlight
  /\ Accounted
  /\ DeliveredOnce
  /\ SnapshotMeetsLive

-----------------------------------------------------------------------------
(* The ring.                                                               *)

\* An index is at most one turn beyond the ring.
LEMMA ModWrap ==
  ASSUME NEW a \in 0..(2 * RingSize - 1)
  PROVE  a % RingSize = IF a < RingSize THEN a ELSE a - RingSize
BY BusAssumption, SMT

\* The sum of two slot indices stays below two turns.
LEMMA SlotSum ==
  ASSUME NEW a \in 0..(RingSize - 1), NEW b \in 0..(RingSize - 1)
  PROVE  a + b \in 0..(2 * RingSize - 1)
BY BusAssumption, SMT

\* Pushing the next event keeps the ring a window on the latest events.
LEMMA PushKeepsRing ==
  ASSUME BusTypeOK, RingIsRecent, pushed' = pushed + 1, PushToRing(pushed + 1)
  PROVE  /\ ring' \in [Slot -> Nat]
         /\ ringStart' \in Slot
         /\ ringCount' \in 0..RingSize
         /\ RingIsRecent'
<1> DEFINE N == RingSize
           Wrap(a) == IF a < N THEN a ELSE a - N
<1>1. /\ N \in Nat \ {0}
      /\ ring \in [0..(N - 1) -> Nat]
      /\ ringStart \in 0..(N - 1)
      /\ ringCount \in 0..N
      /\ pushed \in Nat
  BY BusAssumption DEF BusTypeOK, Slot
<1>2. \A a \in 0..(2 * N - 1) : a % N = Wrap(a)
  BY ModWrap
<1> HIDE DEF Wrap
<1>3. CASE ringCount < N
  <2>0. (ringStart + ringCount) % N = Wrap(ringStart + ringCount)
    <3>1. ringStart + ringCount \in 0..(2 * N - 1)
      BY <1>1, <1>3
    <3> QED BY <1>2, <3>1
  <2>1. /\ ring' = [ring EXCEPT ![Wrap(ringStart + ringCount)] = pushed + 1]
        /\ ringCount' = ringCount + 1
        /\ ringStart' = ringStart
        /\ pushed = ringCount
    BY <1>3, <2>0 DEF PushToRing, RingIsRecent
  <2>2. Wrap(ringStart + ringCount) \in 0..(N - 1)
    BY <1>1, <1>3 DEF Wrap
  <2>3. ASSUME NEW i \in 0..(ringCount' - 1)
        PROVE  ring'[(ringStart' + i) % N] = pushed' - ringCount' + i + 1
    <3>0. ringStart + i \in 0..(2 * N - 1)
      BY <1>1, <1>3, <2>1
    <3>1. /\ (ringStart' + i) % N = Wrap(ringStart + i)
          /\ Wrap(ringStart + i) \in 0..(N - 1)
      <4>1. (ringStart' + i) % N = Wrap(ringStart + i)
        BY <1>2, <2>1, <3>0
      <4>2. Wrap(ringStart + i) \in 0..(N - 1)
        BY <1>1, <3>0 DEF Wrap
      <4> QED BY <4>1, <4>2
    <3>2. CASE i = ringCount
      BY <1>1, <2>1, <2>2, <3>1, <3>2
    <3>3. CASE i # ringCount
      <4>1. i \in 0..(ringCount - 1) /\ Wrap(ringStart + i) # Wrap(ringStart + ringCount)
        BY <1>1, <1>3, <2>1, <3>3 DEF Wrap
      <4>2. ring[Wrap(ringStart + i)] = pushed - ringCount + i + 1
        <5>1. ring[(ringStart + i) % N] = pushed - ringCount + i + 1
          BY <4>1 DEF RingIsRecent
        <5> QED BY <2>1, <3>1, <5>1
      <4> QED BY <1>1, <2>1, <3>1, <4>1, <4>2
    <3> QED BY <3>2, <3>3
  <2>4. ring' \in [0..(N - 1) -> Nat] /\ ringCount' \in 0..N /\ ringStart' \in 0..(N - 1)
    BY <1>1, <1>3, <2>1, <2>2
  <2> QED BY <1>1, <2>1, <2>3, <2>4 DEF RingIsRecent, Slot
<1>4. CASE ringCount = N
  <2>1. /\ ring' = [ring EXCEPT ![ringStart] = pushed + 1]
        /\ ringStart' = Wrap(ringStart + 1)
        /\ ringCount' = N
    BY <1>1, <1>2, <1>4 DEF PushToRing
  <2>2. ringStart' \in 0..(N - 1)
    BY <1>1, <2>1 DEF Wrap
  <2>3. ASSUME NEW i \in 0..(N - 1)
        PROVE  ring'[(ringStart' + i) % N] = pushed' - N + i + 1
    <3>0. ringStart' + i \in 0..(2 * N - 1)
      BY <1>1, <2>2, SlotSum
    <3>1. /\ (ringStart' + i) % N = Wrap(ringStart' + i)
          /\ Wrap(ringStart' + i) \in 0..(N - 1)
      <4>1. (ringStart' + i) % N = Wrap(ringStart' + i)
        BY <1>2, <3>0
      <4>2. Wrap(ringStart' + i) \in 0..(N - 1)
        BY <1>1, <3>0 DEF Wrap
      <4> QED BY <4>1, <4>2
    <3>2. CASE i = N - 1
      <4>1. Wrap(ringStart' + i) = ringStart
        BY <1>1, <2>1, <3>2 DEF Wrap
      <4> QED BY <1>1, <2>1, <3>1, <3>2, <4>1
    <3>3. CASE i # N - 1
      <4>1. /\ Wrap(ringStart' + i) = Wrap(ringStart + (i + 1))
            /\ Wrap(ringStart' + i) # ringStart
        BY <1>1, <2>1, <3>3 DEF Wrap
      <4>2. i + 1 \in 0..(ringCount - 1) /\ ringStart + (i + 1) \in 0..(2 * N - 1)
        BY <1>1, <1>4, <3>3
      <4>3. ring[(ringStart + (i + 1)) % N] = pushed - N + (i + 1) + 1
        BY <1>4, <4>2 DEF RingIsRecent
      <4>4. ring[Wrap(ringStart + (i + 1))] = pushed - N + (i + 1) + 1
        BY <1>2, <4>2, <4>3
      <4> QED BY <1>1, <2>1, <3>1, <4>1, <4>4
    <3> QED BY <3>2, <3>3
  <2>4. ring' \in [0..(N - 1) -> Nat]
    BY <1>1, <2>1
  <2> QED BY <1>1, <2>1, <2>2, <2>3, <2>4 DEF RingIsRecent, Slot
<1> QED BY <1>1, <1>3, <1>4

\* What is buffered is the latest events, oldest first.
LEMMA BufferedIs ==
  ASSUME BusTypeOK, RingIsRecent
  PROVE  /\ \A i \in 1..ringCount : Buffered[i] = pushed - ringCount + i /\ Buffered[i] \in Nat
         /\ Buffered \in Seq(Nat) /\ Len(Buffered) = ringCount /\ DOMAIN Buffered = 1..ringCount
<1>1. /\ ringCount \in Nat
      /\ pushed \in Nat
      /\ ring \in [0..(RingSize - 1) -> Nat]
      /\ RingSize \in Nat \ {0}
      /\ ringStart \in 0..(RingSize - 1)
      /\ ringCount <= RingSize
  BY BusAssumption DEF BusTypeOK, Slot
<1>2. \A i \in 1..ringCount : Buffered[i] = pushed - ringCount + i /\ Buffered[i] \in Nat
  <2> SUFFICES ASSUME NEW i \in 1..ringCount
               PROVE  Buffered[i] = pushed - ringCount + i /\ Buffered[i] \in Nat
    OBVIOUS
  <2>1. Buffered[i] = ring[(ringStart + i - 1) % RingSize]
    BY DEF Buffered
  <2>2. i - 1 \in 0..(ringCount - 1) /\ ringStart + (i - 1) = ringStart + i - 1
    BY <1>1
  <2>3. ring[(ringStart + (i - 1)) % RingSize] = pushed - ringCount + (i - 1) + 1
    BY <2>2 DEF RingIsRecent
  <2>4. (ringStart + (i - 1)) % RingSize \in 0..(RingSize - 1)
    BY <1>1, <2>2, ModWrap
  <2>5. ring[(ringStart + (i - 1)) % RingSize] \in Nat
    BY <1>1, <2>4
  <2> QED BY <1>1, <2>1, <2>2, <2>3, <2>5
<1>3. Buffered \in Seq(Nat) /\ Len(Buffered) = ringCount /\ DOMAIN Buffered = 1..ringCount
  <2>1. Buffered = [i \in 1..ringCount |-> Buffered[i]]
    BY DEF Buffered
  <2>2. Buffered \in [1..ringCount -> Nat]
    BY <1>2, <2>1
  <2> QED BY <1>1, <2>2
<1> QED BY <1>2, <1>3

\* Whatever id is asked for, the snapshot ends with the latest event.
LEMMA SnapshotIsSuffix ==
  ASSUME BusTypeOK, RingIsRecent, NEW last \in Nat
  PROVE  /\ SnapshotSince(last) \in Seq(Nat) /\ Len(SnapshotSince(last)) <= RingSize
         /\ \A i \in DOMAIN SnapshotSince(last) :
              SnapshotSince(last)[i] = pushed - Len(SnapshotSince(last)) + i
<1>1. /\ ringCount \in Nat
      /\ pushed \in Nat
      /\ ring \in [0..(RingSize - 1) -> Nat]
      /\ RingSize \in Nat \ {0}
      /\ ringStart \in 0..(RingSize - 1)
      /\ ringCount <= RingSize
  BY BusAssumption DEF BusTypeOK, Slot
<1>2. \A i \in 1..ringCount : Buffered[i] = pushed - ringCount + i /\ Buffered[i] \in Nat
  BY BufferedIs
<1>3. Buffered \in Seq(Nat) /\ Len(Buffered) = ringCount /\ DOMAIN Buffered = 1..ringCount
  BY BufferedIs
<1> HIDE DEF Buffered
<1>4. CASE last = NoEventId
  BY <1>1, <1>2, <1>3, <1>4 DEF SnapshotSince
<1>5. CASE last # NoEventId /\ \E i \in 1..ringCount : Buffered[i] = last
  <2> DEFINE k == CHOOSE i \in 1..ringCount : Buffered[i] = last
  <2>1. k \in 1..ringCount
    BY <1>5
  <2> HIDE DEF k
  <2>2. SnapshotSince(last) = SubSeq(Buffered, k + 1, ringCount)
    BY <1>5 DEF SnapshotSince, k
  <2>3. /\ SubSeq(Buffered, k + 1, ringCount) \in Seq(Nat)
        /\ Len(SubSeq(Buffered, k + 1, ringCount)) = ringCount - k
        /\ \A i \in 1..(ringCount - k) :
             SubSeq(Buffered, k + 1, ringCount)[i] = Buffered[k + i]
    BY <1>1, <1>3, <2>1
  <2>4. ASSUME NEW i \in 1..(ringCount - k)
        PROVE  Buffered[k + i] = pushed - (ringCount - k) + i
    <3>1. k + i \in 1..ringCount
      BY <1>1, <2>1
    <3> QED BY <1>1, <1>2, <2>1, <3>1
  <2>5. Len(SnapshotSince(last)) = ringCount - k /\ SnapshotSince(last) \in Seq(Nat)
    BY <2>2, <2>3
  <2>6. DOMAIN SnapshotSince(last) = 1..(ringCount - k)
    BY <2>5
  <2>7. \A i \in 1..(ringCount - k) :
          SnapshotSince(last)[i] = pushed - (ringCount - k) + i
    BY <2>2, <2>3, <2>4
  <2>8. ringCount - k <= RingSize
    BY <1>1, <2>1
  <2> QED BY <2>5, <2>6, <2>7, <2>8
<1>6. CASE last # NoEventId /\ ~\E i \in 1..ringCount : Buffered[i] = last
  BY <1>1, <1>6 DEF SnapshotSince
<1> QED BY <1>4, <1>5, <1>6

-----------------------------------------------------------------------------
(* The steps.                                                              *)

\* An empty bus satisfies the inductive invariant.
LEMMA BusInitInv == BusInit => BusInv
<1> SUFFICES ASSUME BusInit PROVE BusInv
  OBVIOUS
<1> USE BusAssumption
<1>1. BusTypeOK
  BY DEF BusInit, BusTypeOK, Slot, NoEventId
<1>2. RingIsRecent
  BY DEF BusInit, RingIsRecent
<1>3. JoinedPast
  BY DEF BusInit, JoinedPast
<1>4. InFlight
  BY DEF BusInit, InFlight
<1>5. Accounted /\ DeliveredOnce /\ SnapshotMeetsLive
  BY DEF BusInit, Accounted, DeliveredOnce, SnapshotMeetsLive
<1> QED BY <1>1, <1>2, <1>3, <1>4, <1>5 DEF BusInv

\* Publish keeps it: the new event is newer than all that anyone holds.
LEMMA PublishStep ==
  ASSUME BusInv, NEW p \in Publisher, Publish(p)
  PROVE  BusInv'
<1> DEFINE e == pushed + 1
           open == {s \in Sub : stage[s] = "open"}
<1>1. /\ BusTypeOK /\ RingIsRecent /\ JoinedPast /\ InFlight
      /\ Accounted /\ DeliveredOnce /\ SnapshotMeetsLive
  BY DEF BusInv
<1>2. /\ pushed' = pushed + 1
      /\ PushToRing(pushed + 1)
      /\ event' = [event EXCEPT ![p] = e]
      /\ targets' = [targets EXCEPT ![p] = open]
      /\ UNCHANGED <<stage, queue, snapshot, since, joined, delivered, dropped>>
  BY DEF Publish, subVars
<1>3. /\ pushed \in Nat /\ joined \in [Sub -> Nat]
      /\ event \in [Publisher -> Nat] /\ targets \in [Publisher -> SUBSET Sub]
  BY <1>1 DEF BusTypeOK
<1>4. BusTypeOK' /\ RingIsRecent'
  <2>1. /\ ring' \in [Slot -> Nat] /\ ringStart' \in Slot
        /\ ringCount' \in 0..RingSize /\ RingIsRecent'
    BY <1>1, <1>2, PushKeepsRing
  <2>2. pushed' \in Nat /\ event' \in [Publisher -> Nat] /\ targets' \in [Publisher -> SUBSET Sub]
    BY <1>2, <1>3
  <2> QED BY <1>1, <1>2, <2>1, <2>2 DEF BusTypeOK
<1>5. JoinedPast'
  BY <1>1, <1>2, <1>3 DEF JoinedPast
<1>6. ASSUME NEW s \in Sub
      PROVE  ~WasDelivered(s, e) /\ e \notin dropped[s] /\ e \in (joined[s] + 1)..pushed'
  BY <1>1, <1>2, <1>3 DEF JoinedPast, DeliveredOnce, WasDelivered
<1>7. InFlight'
  <2>1. ASSUME NEW q \in Publisher, NEW s \in targets'[q]
        PROVE  /\ stage'[s] # "new"
               /\ event'[q] \in (joined'[s] + 1)..pushed'
               /\ ~WasDelivered(s, event[q])'
               /\ event'[q] \notin dropped'[s]
    <3>1. CASE q = p
      BY <1>2, <1>3, <1>6, <3>1 DEF WasDelivered
    <3>2. CASE q # p
      <4>1. targets'[q] = targets[q] /\ event'[q] = event[q] /\ s \in Sub
        BY <1>2, <1>3, <3>2
      <4> QED BY <1>1, <1>2, <1>3, <4>1 DEF InFlight, WasDelivered
    <3> QED BY <3>1, <3>2
  <2>2. ASSUME NEW q \in Publisher, NEW r \in Publisher,
               event'[q] = event'[r], targets'[q] # {}, targets'[r] # {}
        PROVE  q = r
    <3>1. \A t \in Publisher : targets[t] # {} => event[t] # e
      BY <1>1, <1>3 DEF InFlight
    <3> QED BY <1>1, <1>2, <1>3, <2>2, <3>1 DEF InFlight
  <2> QED BY <2>1, <2>2 DEF InFlight
<1>8. Accounted'
  <2> SUFFICES ASSUME NEW s \in Sub, stage'[s] = "open", NEW f \in (joined'[s] + 1)..pushed'
               PROVE  \/ \E q \in Publisher : Waiting(q, s, f)'
                      \/ WasDelivered(s, f)'
                      \/ f \in dropped'[s]
    BY DEF Accounted
  <2>1. CASE f = e
    BY <1>2, <1>3, <2>1 DEF Waiting
  <2>2. CASE f # e
    <3>1. f \in (joined[s] + 1)..pushed
      BY <1>2, <1>3, <2>2
    <3>2. \/ \E q \in Publisher : Waiting(q, s, f)
          \/ WasDelivered(s, f)
          \/ f \in dropped[s]
      BY <1>1, <1>2, <3>1 DEF Accounted
    <3>3. ASSUME NEW q \in Publisher, Waiting(q, s, f)
          PROVE  Waiting(q, s, f)'
      <4>1. q # p
        BY <3>3 DEF Waiting, Publish
      <4> QED BY <1>2, <1>3, <3>3, <4>1 DEF Waiting
    <3> QED BY <1>2, <3>2, <3>3 DEF WasDelivered
  <2> QED BY <2>1, <2>2
<1>9. DeliveredOnce'
  <2> SUFFICES ASSUME NEW s \in Sub
               PROVE  /\ \A i, j \in DOMAIN delivered[s] : delivered[s][i] = delivered[s][j] => i = j
                      /\ \A i \in DOMAIN delivered[s] :
                           /\ delivered[s][i] \in (joined[s] + 1)..(pushed + 1)
                           /\ delivered[s][i] \notin dropped[s]
    BY <1>2 DEF DeliveredOnce
  <2> QED BY <1>1, <1>3 DEF DeliveredOnce
<1>10. SnapshotMeetsLive'
  BY <1>1, <1>2 DEF SnapshotMeetsLive
<1> QED BY <1>4, <1>5, <1>7, <1>8, <1>9, <1>10 DEF BusInv

\* The delivery (or drop) of one event to one copied subscriber keeps it.
LEMMA DeliverStep ==
  ASSUME BusInv, NEW p \in Publisher, NEW s \in Sub, Deliver(p, s)
  PROVE  BusInv'
<1> DEFINE e == event[p]
<1>1. /\ BusTypeOK /\ RingIsRecent /\ JoinedPast /\ InFlight
      /\ Accounted /\ DeliveredOnce /\ SnapshotMeetsLive
  BY DEF BusInv
<1>2. /\ s \in targets[p]
      /\ targets' = [targets EXCEPT ![p] = @ \ {s}]
      /\ UNCHANGED <<ring, ringStart, ringCount, pushed, event, stage, snapshot, since, joined>>
  BY DEF Deliver, ringVars
<1>3. /\ pushed \in Nat /\ joined \in [Sub -> Nat]
      /\ event \in [Publisher -> Nat] /\ targets \in [Publisher -> SUBSET Sub]
      /\ queue \in [Sub -> Seq(Nat)] /\ delivered \in [Sub -> Seq(Nat)]
      /\ dropped \in [Sub -> SUBSET Nat]
  BY <1>1 DEF BusTypeOK
<1>4. e \in Nat /\ e \in (joined[s] + 1)..pushed /\ ~WasDelivered(s, e) /\ e \notin dropped[s]
      /\ stage[s] # "new"
  BY <1>1, <1>2, <1>3 DEF InFlight
<1>5. \A q \in Publisher : targets'[q] \subseteq targets[q]
      /\ (q # p => targets'[q] = targets[q])
  BY <1>2, <1>3
<1>6. RingIsRecent' /\ SnapshotMeetsLive'
  BY <1>1, <1>2 DEF RingIsRecent, SnapshotMeetsLive
<1>7. \A q \in Publisher : \A t \in targets'[q] : t = s => event[q] # e
  BY <1>1, <1>2, <1>3, <1>5 DEF InFlight
<1>8. CASE queue' = queue /\ delivered' = delivered /\ dropped' = dropped /\ stage[s] = "closed"
  <2>1. BusTypeOK'
    BY <1>1, <1>2, <1>3, <1>8 DEF BusTypeOK
  <2>2. JoinedPast' /\ DeliveredOnce'
    BY <1>1, <1>2, <1>8 DEF JoinedPast, DeliveredOnce
  <2>3. InFlight'
    <3>1. ASSUME NEW q \in Publisher, NEW t \in targets'[q]
          PROVE  /\ stage'[t] # "new"
                 /\ event'[q] \in (joined'[t] + 1)..pushed'
                 /\ ~WasDelivered(t, event[q])'
                 /\ event'[q] \notin dropped'[t]
      <4>1. t \in targets[q]
        BY <1>5
      <4> QED BY <1>1, <1>2, <1>8, <4>1 DEF InFlight, WasDelivered
    <3>2. ASSUME NEW q \in Publisher, NEW r \in Publisher,
                 event'[q] = event'[r], targets'[q] # {}, targets'[r] # {}
          PROVE  q = r
      BY <1>1, <1>2, <1>5, <3>2 DEF InFlight
    <3> QED BY <3>1, <3>2 DEF InFlight
  <2>4. Accounted'
    <3> SUFFICES ASSUME NEW t \in Sub, stage[t] = "open", NEW f \in (joined[t] + 1)..pushed
                 PROVE  \/ \E q \in Publisher : Waiting(q, t, f)'
                        \/ WasDelivered(t, f)
                        \/ f \in dropped[t]
      BY <1>2, <1>8 DEF Accounted, WasDelivered
    <3>1. t # s
      BY <1>8
    <3>2. \A q \in Publisher : Waiting(q, t, f) => Waiting(q, t, f)'
      BY <1>2, <1>3, <3>1 DEF Waiting
    <3> QED BY <1>1, <3>2 DEF Accounted
  <2> QED BY <1>6, <2>1, <2>2, <2>3, <2>4 DEF BusInv
<1>9. CASE /\ queue' = [queue EXCEPT ![s] = Append(@, e)]
           /\ delivered' = [delivered EXCEPT ![s] = Append(@, e)]
           /\ dropped' = dropped
  <2>1. /\ delivered'[s] = Append(delivered[s], e)
        /\ delivered[s] \in Seq(Nat)
        /\ Len(delivered'[s]) = Len(delivered[s]) + 1
        /\ DOMAIN delivered'[s] = 1..(Len(delivered[s]) + 1)
        /\ DOMAIN delivered[s] = 1..Len(delivered[s])
        /\ \A i \in 1..Len(delivered[s]) : delivered'[s][i] = delivered[s][i]
        /\ delivered'[s][Len(delivered[s]) + 1] = e
    BY <1>3, <1>4, <1>9
  <2>2. \A t \in Sub : t # s => delivered'[t] = delivered[t]
    BY <1>3, <1>9
  <2>3. BusTypeOK'
    <3>1. queue' \in [Sub -> Seq(Nat)]
      BY <1>3, <1>4, <1>9
    <3>2. delivered' \in [Sub -> Seq(Nat)]
      BY <1>3, <1>4, <1>9
    <3>3. targets' \in [Publisher -> SUBSET Sub]
      BY <1>2, <1>3
    <3> QED BY <1>1, <1>2, <1>9, <3>1, <3>2, <3>3 DEF BusTypeOK
  <2>4. JoinedPast'
    BY <1>1, <1>2, <1>4, <1>9, <2>2 DEF JoinedPast
  <2>5. \A t \in Sub, f \in Nat : WasDelivered(t, f)' <=> (WasDelivered(t, f) \/ (t = s /\ f = e))
    <3> SUFFICES ASSUME NEW t \in Sub, NEW f \in Nat
                 PROVE  WasDelivered(t, f)' <=> (WasDelivered(t, f) \/ (t = s /\ f = e))
      OBVIOUS
    <3>1. CASE t # s
      BY <2>2, <3>1 DEF WasDelivered
    <3>2. CASE t = s
      <4>1. Len(delivered[s]) \in Nat
        BY <2>1
      <4>2. ASSUME WasDelivered(s, f)' PROVE WasDelivered(s, f) \/ f = e
        <5>1. PICK i \in 1..(Len(delivered[s]) + 1) : delivered'[s][i] = f
          BY <2>1, <4>2 DEF WasDelivered
        <5>2. CASE i = Len(delivered[s]) + 1
          BY <2>1, <5>1, <5>2
        <5>3. CASE i # Len(delivered[s]) + 1
          <6>1. i \in 1..Len(delivered[s])
            BY <4>1, <5>3
          <6> QED BY <2>1, <5>1, <6>1 DEF WasDelivered
        <5> QED BY <5>2, <5>3
      <4>3. ASSUME WasDelivered(s, f) PROVE WasDelivered(s, f)'
        <5>1. PICK i \in 1..Len(delivered[s]) : delivered[s][i] = f
          BY <2>1, <4>3 DEF WasDelivered
        <5>2. i \in 1..(Len(delivered[s]) + 1) /\ delivered'[s][i] = f
          BY <2>1, <4>1, <5>1
        <5> QED BY <2>1, <5>2 DEF WasDelivered
      <4>4. ASSUME f = e PROVE WasDelivered(s, f)'
        <5>1. Len(delivered[s]) + 1 \in 1..(Len(delivered[s]) + 1)
          BY <4>1
        <5> QED BY <2>1, <4>4, <5>1 DEF WasDelivered
      <4> QED BY <3>2, <4>2, <4>3, <4>4
    <3> QED BY <3>1, <3>2
  <2>6. InFlight'
    <3>1. ASSUME NEW q \in Publisher, NEW t \in targets'[q]
          PROVE  /\ stage'[t] # "new"
                 /\ event'[q] \in (joined'[t] + 1)..pushed'
                 /\ ~WasDelivered(t, event[q])'
                 /\ event'[q] \notin dropped'[t]
      <4>1. t \in targets[q] /\ t \in Sub /\ event[q] \in Nat /\ (t = s => event[q] # e)
        BY <1>3, <1>5, <1>7
      <4>2. /\ stage[t] # "new"
            /\ event[q] \in (joined[t] + 1)..pushed
            /\ ~WasDelivered(t, event[q])
            /\ event[q] \notin dropped[t]
        BY <1>1, <4>1 DEF InFlight
      <4>3. ~WasDelivered(t, event[q])'
        <5>1. ~WasDelivered(t, event[q])' <=> ~(\E i \in DOMAIN delivered'[t] : delivered'[t][i] = event[q])
          BY <1>2 DEF WasDelivered
        <5>2. WasDelivered(t, event[q]) <=> \E i \in DOMAIN delivered[t] : delivered[t][i] = event[q]
          BY DEF WasDelivered
        <5>3. CASE t # s
          BY <2>2, <4>1, <4>2, <5>1, <5>2, <5>3
        <5>4. CASE t = s
          <6>1. Len(delivered[s]) \in Nat
            BY <2>1
          <6> QED BY SMTT(30), <2>1, <4>1, <4>2, <5>1, <5>2, <5>4, <6>1
        <5> QED BY <5>3, <5>4
      <4> QED BY <1>2, <1>9, <4>2, <4>3
    <3>2. ASSUME NEW q \in Publisher, NEW r \in Publisher,
                 event'[q] = event'[r], targets'[q] # {}, targets'[r] # {}
          PROVE  q = r
      BY <1>1, <1>2, <1>5, <3>2 DEF InFlight
    <3> QED BY <3>1, <3>2 DEF InFlight
  <2>7. Accounted'
    <3> SUFFICES ASSUME NEW t \in Sub, stage[t] = "open", NEW f \in (joined[t] + 1)..pushed
                 PROVE  \/ \E q \in Publisher : Waiting(q, t, f)'
                        \/ WasDelivered(t, f)'
                        \/ f \in dropped[t]
      BY <1>2, <1>9 DEF Accounted
    <3>1. f \in Nat
      BY <1>3
    <3>2. \/ \E q \in Publisher : Waiting(q, t, f)
          \/ WasDelivered(t, f)
          \/ f \in dropped[t]
      BY <1>1 DEF Accounted
    <3>3. ASSUME NEW q \in Publisher, Waiting(q, t, f)
          PROVE  Waiting(q, t, f)' \/ WasDelivered(t, f)'
      <4>1. CASE q = p /\ t = s
        BY <2>5, <3>1, <3>3, <4>1 DEF Waiting
      <4>2. CASE ~(q = p /\ t = s)
        BY <1>2, <1>3, <3>3, <4>2 DEF Waiting
      <4> QED BY <4>1, <4>2
    <3> QED BY <2>5, <3>1, <3>2, <3>3
  <2>8. DeliveredOnce'
    <3> SUFFICES ASSUME NEW t \in Sub
                 PROVE  /\ \A i, j \in DOMAIN delivered'[t] : delivered'[t][i] = delivered'[t][j] => i = j
                        /\ \A i \in DOMAIN delivered'[t] :
                             /\ delivered'[t][i] \in (joined[t] + 1)..pushed
                             /\ delivered'[t][i] \notin dropped[t]
      BY <1>2, <1>9 DEF DeliveredOnce
    <3>1. CASE t # s
      BY <1>1, <2>2, <3>1 DEF DeliveredOnce
    <3>2. CASE t = s
      <4>1. Len(delivered[s]) \in Nat /\ \A i \in 1..Len(delivered[s]) : delivered[s][i] # e
        BY <1>4, <2>1 DEF WasDelivered
      <4>2. /\ \A i, j \in DOMAIN delivered[s] : delivered[s][i] = delivered[s][j] => i = j
            /\ \A i \in DOMAIN delivered[s] :
                 /\ delivered[s][i] \in (joined[s] + 1)..pushed
                 /\ delivered[s][i] \notin dropped[s]
        BY <1>1 DEF DeliveredOnce
      <4>3. ASSUME NEW i \in DOMAIN delivered'[s]
            PROVE  /\ delivered'[s][i] \in (joined[s] + 1)..pushed
                   /\ delivered'[s][i] \notin dropped[s]
                   /\ delivered'[s][i] = e <=> i = Len(delivered[s]) + 1
                   /\ i # Len(delivered[s]) + 1 =>
                        i \in DOMAIN delivered[s] /\ delivered'[s][i] = delivered[s][i]
        <5>1. CASE i = Len(delivered[s]) + 1
          BY <1>4, <2>1, <5>1
        <5>2. CASE i # Len(delivered[s]) + 1
          <6>1. i \in 1..Len(delivered[s])
            BY <2>1, <4>1, <5>2
          <6> QED BY <2>1, <4>1, <4>2, <5>2, <6>1
        <5> QED BY <5>1, <5>2
      <4>4. ASSUME NEW i \in DOMAIN delivered'[s], NEW j \in DOMAIN delivered'[s],
                   delivered'[s][i] = delivered'[s][j]
            PROVE  i = j
        <5>1. CASE i = Len(delivered[s]) + 1 \/ j = Len(delivered[s]) + 1
          BY <4>3, <4>4, <5>1
        <5>2. CASE i # Len(delivered[s]) + 1 /\ j # Len(delivered[s]) + 1
          BY <4>2, <4>3, <4>4, <5>2
        <5> QED BY <5>1, <5>2
      <4> QED BY <3>2, <4>3, <4>4
    <3> QED BY <3>1, <3>2
  <2> QED BY <1>6, <2>3, <2>4, <2>6, <2>7, <2>8 DEF BusInv
<1>10. CASE /\ dropped' = [dropped EXCEPT ![s] = @ \cup {e}]
            /\ queue' = queue
            /\ delivered' = delivered
  <2>1. \A t \in Sub : /\ t # s => dropped'[t] = dropped[t]
                       /\ dropped'[s] = dropped[s] \cup {e}
    BY <1>3, <1>10
  <2>2. BusTypeOK'
    <3>1. dropped' \in [Sub -> SUBSET Nat]
      BY <1>3, <1>4, <1>10
    <3>2. targets' \in [Publisher -> SUBSET Sub]
      BY <1>2, <1>3
    <3> QED BY <1>1, <1>2, <1>10, <3>1, <3>2 DEF BusTypeOK
  <2>3. JoinedPast'
    BY <1>1, <1>2, <1>4, <1>10, <2>1 DEF JoinedPast
  <2>4. InFlight'
    <3>1. ASSUME NEW q \in Publisher, NEW t \in targets'[q]
          PROVE  /\ stage'[t] # "new"
                 /\ event'[q] \in (joined'[t] + 1)..pushed'
                 /\ ~WasDelivered(t, event[q])'
                 /\ event'[q] \notin dropped'[t]
      <4>1. t \in targets[q] /\ t \in Sub /\ (t = s => event[q] # e)
        BY <1>3, <1>5, <1>7
      <4>2. /\ stage[t] # "new"
            /\ event[q] \in (joined[t] + 1)..pushed
            /\ ~WasDelivered(t, event[q])
            /\ event[q] \notin dropped[t]
        BY <1>1, <4>1 DEF InFlight
      <4>3. event[q] \notin dropped'[t]
        BY <2>1, <4>1, <4>2
      <4> QED BY <1>2, <1>10, <4>2, <4>3 DEF WasDelivered
    <3>2. ASSUME NEW q \in Publisher, NEW r \in Publisher,
                 event'[q] = event'[r], targets'[q] # {}, targets'[r] # {}
          PROVE  q = r
      BY <1>1, <1>2, <1>5, <3>2 DEF InFlight
    <3> QED BY <3>1, <3>2 DEF InFlight
  <2>5. Accounted'
    <3> SUFFICES ASSUME NEW t \in Sub, stage[t] = "open", NEW f \in (joined[t] + 1)..pushed
                 PROVE  \/ \E q \in Publisher : Waiting(q, t, f)'
                        \/ WasDelivered(t, f)
                        \/ f \in dropped'[t]
      BY <1>2, <1>10 DEF Accounted, WasDelivered
    <3>1. \A q \in Publisher : Waiting(q, t, f) => Waiting(q, t, f)' \/ (t = s /\ f = e)
      BY <1>2, <1>3 DEF Waiting
    <3> QED BY <1>1, <2>1, <3>1 DEF Accounted
  <2>6. DeliveredOnce'
    BY <1>1, <1>2, <1>4, <1>10, <2>1 DEF DeliveredOnce, WasDelivered
  <2> QED BY <1>6, <2>2, <2>3, <2>4, <2>5, <2>6 DEF BusInv
<1> QED BY <1>8, <1>9, <1>10 DEF Deliver

\* A new subscription, registered with its snapshot in one section, keeps it.
LEMMA SubscribeStep ==
  ASSUME BusInv, NEW s \in Sub, NEW last \in Nat, Subscribe(s, last)
  PROVE  BusInv'
<1>1. /\ BusTypeOK /\ RingIsRecent /\ JoinedPast /\ InFlight
      /\ Accounted /\ DeliveredOnce /\ SnapshotMeetsLive
  BY DEF BusInv
<1>2. /\ stage[s] = "new"
      /\ stage' = [stage EXCEPT ![s] = "open"]
      /\ snapshot' = [snapshot EXCEPT ![s] = SnapshotSince(last)]
      /\ since' = [since EXCEPT ![s] = last]
      /\ joined' = [joined EXCEPT ![s] = pushed]
      /\ UNCHANGED <<ring, ringStart, ringCount, pushed, event, targets, queue, delivered, dropped>>
  BY DEF Subscribe, ringVars, pubVars
<1>3. /\ pushed \in Nat /\ joined \in [Sub -> Nat] /\ snapshot \in [Sub -> Seq(Nat)]
      /\ since \in [Sub -> Nat] /\ stage \in [Sub -> {"new", "open", "closed"}]
      /\ event \in [Publisher -> Nat] /\ targets \in [Publisher -> SUBSET Sub]
  BY <1>1 DEF BusTypeOK
<1>4. /\ SnapshotSince(last) \in Seq(Nat)
      /\ \A i \in DOMAIN SnapshotSince(last) :
           SnapshotSince(last)[i] = pushed - Len(SnapshotSince(last)) + i
  BY <1>1, SnapshotIsSuffix
<1>5. delivered[s] = <<>> /\ dropped[s] = {} /\ \A p \in Publisher : s \notin targets[p]
  BY <1>1, <1>2 DEF JoinedPast, InFlight
<1>6. \A t \in Sub : t # s => stage'[t] = stage[t] /\ joined'[t] = joined[t] /\ snapshot'[t] = snapshot[t]
  BY <1>2, <1>3
<1>7. stage'[s] = "open" /\ joined'[s] = pushed /\ snapshot'[s] = SnapshotSince(last)
  BY <1>2, <1>3
<1>8. BusTypeOK'
  <2>1. snapshot' \in [Sub -> Seq(Nat)]
    BY <1>2, <1>3, <1>4
  <2>2. stage' \in [Sub -> {"new", "open", "closed"}]
    BY <1>2, <1>3
  <2>3. since' \in [Sub -> Nat] /\ joined' \in [Sub -> Nat]
    BY <1>2, <1>3
  <2> QED BY <1>1, <1>2, <2>1, <2>2, <2>3 DEF BusTypeOK
<1>9. RingIsRecent'
  BY <1>1, <1>2 DEF RingIsRecent
<1>10. JoinedPast'
  <2> SUFFICES ASSUME NEW t \in Sub
               PROVE  /\ joined'[t] <= pushed
                      /\ dropped[t] \subseteq (joined'[t] + 1)..pushed
                      /\ stage'[t] = "new" => delivered[t] = <<>> /\ dropped[t] = {}
    BY <1>2 DEF JoinedPast
  <2>1. CASE t = s
    BY <1>3, <1>5, <1>7, <2>1
  <2>2. CASE t # s
    BY <1>1, <1>6, <2>2 DEF JoinedPast
  <2> QED BY <2>1, <2>2
<1>11. InFlight'
  <2>1. ASSUME NEW p \in Publisher, NEW t \in targets'[p]
        PROVE  /\ stage'[t] # "new"
               /\ event'[p] \in (joined'[t] + 1)..pushed'
               /\ ~WasDelivered(t, event[p])'
               /\ event'[p] \notin dropped'[t]
    <3>1. t \in targets[p] /\ t \in Sub /\ t # s
      BY <1>2, <1>3, <1>5
    <3> QED BY <1>1, <1>2, <1>6, <3>1 DEF InFlight, WasDelivered
  <2>2. ASSUME NEW q \in Publisher, NEW r \in Publisher,
               event'[q] = event'[r], targets'[q] # {}, targets'[r] # {}
        PROVE  q = r
    BY <1>1, <1>2, <2>2 DEF InFlight
  <2> QED BY <2>1, <2>2 DEF InFlight
<1>12. Accounted'
  <2> SUFFICES ASSUME NEW t \in Sub, stage'[t] = "open", NEW f \in (joined'[t] + 1)..pushed
               PROVE  \/ \E q \in Publisher : Waiting(q, t, f)
                      \/ WasDelivered(t, f)
                      \/ f \in dropped[t]
    BY <1>2 DEF Accounted, Waiting, WasDelivered
  <2>1. CASE t = s
    BY <1>3, <1>7, <2>1
  <2>2. CASE t # s
    BY <1>1, <1>6, <2>2 DEF Accounted
  <2> QED BY <2>1, <2>2
<1>13. DeliveredOnce'
  <2> SUFFICES ASSUME NEW t \in Sub
               PROVE  /\ \A i, j \in DOMAIN delivered[t] : delivered[t][i] = delivered[t][j] => i = j
                      /\ \A i \in DOMAIN delivered[t] :
                           /\ delivered[t][i] \in (joined'[t] + 1)..pushed
                           /\ delivered[t][i] \notin dropped[t]
    BY <1>2 DEF DeliveredOnce
  <2>1. CASE t = s
    BY <1>5, <2>1
  <2>2. CASE t # s
    BY <1>1, <1>6, <2>2 DEF DeliveredOnce
  <2> QED BY <2>1, <2>2
<1>14. SnapshotMeetsLive'
  <2> SUFFICES ASSUME NEW t \in Sub, NEW i \in DOMAIN snapshot'[t]
               PROVE  snapshot'[t][i] = joined'[t] - Len(snapshot'[t]) + i
    BY DEF SnapshotMeetsLive
  <2>1. CASE t = s
    BY <1>4, <1>7, <2>1
  <2>2. CASE t # s
    BY <1>1, <1>6, <2>2 DEF SnapshotMeetsLive
  <2> QED BY <2>1, <2>2
<1> QED BY <1>8, <1>9, <1>10, <1>11, <1>12, <1>13, <1>14 DEF BusInv

\* Closing a subscription keeps it.
LEMMA CloseStep ==
  ASSUME BusInv, NEW s \in Sub, Close(s)
  PROVE  BusInv'
<1>1. /\ BusTypeOK /\ RingIsRecent /\ JoinedPast /\ InFlight
      /\ Accounted /\ DeliveredOnce /\ SnapshotMeetsLive
  BY DEF BusInv
<1>2. /\ stage[s] = "open"
      /\ stage' = [stage EXCEPT ![s] = "closed"]
      /\ UNCHANGED <<ring, ringStart, ringCount, pushed, event, targets, queue, snapshot,
                     since, joined, delivered, dropped>>
  BY DEF Close, ringVars, pubVars
<1>3. stage \in [Sub -> {"new", "open", "closed"}] /\ targets \in [Publisher -> SUBSET Sub]
  BY <1>1 DEF BusTypeOK
<1>4. stage' \in [Sub -> {"new", "open", "closed"}]
      /\ \A t \in Sub : /\ stage'[t] = "new" => stage[t] = "new"
                        /\ stage[t] # "new" => stage'[t] # "new"
                        /\ stage'[t] = "open" => stage[t] = "open"
  BY <1>2, <1>3
<1>5. BusTypeOK'
  BY <1>1, <1>2, <1>4 DEF BusTypeOK
<1>6. RingIsRecent' /\ DeliveredOnce' /\ SnapshotMeetsLive'
  BY <1>1, <1>2 DEF RingIsRecent, DeliveredOnce, SnapshotMeetsLive
<1>7. JoinedPast' /\ Accounted'
  BY <1>1, <1>2, <1>4 DEF JoinedPast, Accounted, Waiting, WasDelivered
<1>8. InFlight'
  <2>1. ASSUME NEW p \in Publisher, NEW t \in targets[p]
        PROVE  stage'[t] # "new"
    BY <1>1, <1>3, <1>4 DEF InFlight
  <2> QED BY <1>1, <1>2, <2>1 DEF InFlight, WasDelivered
<1> QED BY <1>5, <1>6, <1>7, <1>8 DEF BusInv

\* A reader that takes an event from its channel keeps it.
LEMMA TakeStep ==
  ASSUME BusInv, NEW s \in Sub, Take(s)
  PROVE  BusInv'
<1>1. /\ BusTypeOK /\ RingIsRecent /\ JoinedPast /\ InFlight
      /\ Accounted /\ DeliveredOnce /\ SnapshotMeetsLive
  BY DEF BusInv
<1>2. /\ queue[s] # <<>>
      /\ queue' = [queue EXCEPT ![s] = Tail(@)]
      /\ UNCHANGED <<ring, ringStart, ringCount, pushed, event, targets, stage, snapshot,
                     since, joined, delivered, dropped>>
  BY DEF Take, ringVars, pubVars
<1>3. BusTypeOK'
  <2>1. queue \in [Sub -> Seq(Nat)]
    BY <1>1 DEF BusTypeOK
  <2>2. queue' \in [Sub -> Seq(Nat)]
    BY <1>2, <2>1
  <2> QED BY <1>1, <1>2, <2>2 DEF BusTypeOK
<1>4. RingIsRecent' /\ DeliveredOnce' /\ SnapshotMeetsLive' /\ JoinedPast'
  BY <1>1, <1>2 DEF RingIsRecent, DeliveredOnce, SnapshotMeetsLive, JoinedPast
<1>5. Accounted' /\ InFlight'
  BY <1>1, <1>2 DEF Accounted, InFlight, Waiting, WasDelivered
<1> QED BY <1>3, <1>4, <1>5 DEF BusInv

\* So does a step that changes nothing of the bus.
LEMMA StutterStep ==
  ASSUME BusInv, UNCHANGED busVars
  PROVE  BusInv'
<1>1. UNCHANGED <<ring, ringStart, ringCount, pushed, event, targets, stage, queue, snapshot,
                  since, joined, delivered, dropped>>
  BY DEF busVars, ringVars, pubVars, subVars
<1>2. BusTypeOK' /\ RingIsRecent' /\ DeliveredOnce' /\ SnapshotMeetsLive' /\ JoinedPast'
  BY <1>1 DEF BusInv, BusTypeOK, RingIsRecent, DeliveredOnce, SnapshotMeetsLive, JoinedPast
<1>3. Accounted' /\ InFlight'
  BY <1>1 DEF BusInv, Accounted, InFlight, Waiting, WasDelivered
<1> QED BY <1>2, <1>3 DEF BusInv

\* The invariant is inductive.
LEMMA BusKeeps == ASSUME BusInv, [BusNext]_busVars PROVE BusInv'
<1>1. ASSUME NEW p \in Publisher, Publish(p) PROVE BusInv'
  BY <1>1, PublishStep
<1>2. ASSUME NEW p \in Publisher, NEW s \in Sub, Deliver(p, s) PROVE BusInv'
  BY <1>2, DeliverStep
<1>3. ASSUME NEW s \in Sub, NEW last \in 0..pushed, Subscribe(s, last) PROVE BusInv'
  <2>1. last \in Nat
    BY DEF BusInv, BusTypeOK
  <2> QED BY <1>3, <2>1, SubscribeStep
<1>4. ASSUME NEW s \in Sub, Close(s) PROVE BusInv'
  BY <1>4, CloseStep
<1>5. ASSUME NEW s \in Sub, Take(s) PROVE BusInv'
  BY <1>5, TakeStep
<1>6. CASE UNCHANGED busVars
  BY <1>6, StutterStep
<1> QED BY <1>1, <1>2, <1>3, <1>4, <1>5, <1>6 DEF BusNext

\* The ring, the copies of the subscribers and what was delivered agree.
THEOREM BusInvariance == BusSpec => []BusInv
  BY BusInitInv, BusKeeps, PTL DEF BusSpec

\* Every variable of the bus keeps its type; ringCount and ringStart stay
\* inside the ring.
THEOREM BusTypeCorrect == BusSpec => []BusTypeOK
<1>1. BusInv => BusTypeOK
  BY DEF BusInv
<1> QED BY <1>1, BusInvariance, PTL

\* pushToRing: for every ring size the ring is a window on the latest events.
THEOREM RingStaysRecent == BusSpec => []RingIsRecent
<1>1. BusInv => RingIsRecent
  BY DEF BusInv
<1> QED BY <1>1, BusInvariance, PTL

\* Publish delivers outside the lock, and still every open subscription
\* accounts exactly once for each event published since it joined.
THEOREM EveryEventAccounted == BusSpec => []LiveExactlyOnce
<1>1. BusInv => LiveExactlyOnce
  BY DEF BusInv, Accounted, DeliveredOnce, LiveExactlyOnce
<1> QED BY <1>1, BusInvariance, PTL

\* Subscribe: the snapshot ends where the channel begins.
THEOREM SnapshotsMeetLive == BusSpec => []SnapshotMeetsLive
<1>1. BusInv => SnapshotMeetsLive
  BY DEF BusInv
<1> QED BY <1>1, BusInvariance, PTL

-----------------------------------------------------------------------------
(* A subscriber end to end.                                                *)

StreamTypes ==
  /\ link \in [Sub -> {"none", "up", "broken"}]
  /\ serve \in [Sub -> {"idle", "run", "closing", "releasing", "ended"}]
  /\ forward \in [Sub -> {"none", "receive", "send", "ended"}]
  /\ replayed \in [Sub -> Nat] /\ held \in [Sub -> Nat] /\ relay \in [Sub -> Seq(Nat)]
  /\ stopped \in [Sub -> BOOLEAN] /\ seen \in [Sub -> Seq(Nat)] /\ cursor \in Nat

\* Nothing is under way before a connection is there; while it is up, Serve
\* runs and has not told the forwarder to stop.
Linked(s) ==
  /\ link[s] = "none" =>
       /\ stage[s] = "new" /\ serve[s] = "idle" /\ forward[s] = "none" /\ ~stopped[s] /\ replayed[s] = 0
       /\ relay[s] = <<>> /\ queue[s] = <<>> /\ seen[s] = <<>>
  /\ link[s] = "up" => serve[s] = "run"
  /\ serve[s] \in {"run", "closing"} => ~stopped[s]

\* What is between the bus and Serve, and how much of the channel has passed.
UnderWay(s) == Len(relay[s]) + (IF forward[s] = "send" THEN 1 ELSE 0) + Len(queue[s])
Passed(s) == Len(delivered[s]) - UnderWay(s)

\* Until the forwarder is stopped, relay, hand and queue are the end of the
\* channel, in order.
Piped(s) ==
  ~stopped[s] =>
    /\ UnderWay(s) <= Len(delivered[s])
    /\ \A k \in 1..Len(relay[s]) : relay[s][k] = delivered[s][Passed(s) + k]
    /\ forward[s] = "send" => held[s] = delivered[s][Len(delivered[s]) - Len(queue[s])]
    /\ \A k \in 1..Len(queue[s]) : queue[s][k] = delivered[s][Len(delivered[s]) - Len(queue[s]) + k]

\* The client has seen what Serve has gone through.
Shown(s) ==
  link[s] = "up" =>
    /\ replayed[s] <= Len(snapshot[s])
    /\ Passed(s) > 0 => replayed[s] = Len(snapshot[s])
    /\ Len(seen[s]) = WantedUpTo(s, replayed[s] + Passed(s))

InOrder(s) ==
  \A i \in DOMAIN seen[s] : \E a \in DOMAIN Due(s) :
    seen[s][i] = Due(s)[a] /\ seen[s][i] \in Wanted /\ WantedUpTo(s, a) = i

Served(s) == Linked(s) /\ Piped(s) /\ Shown(s) /\ InOrder(s)

StreamInv == BusInv /\ StreamTypes /\ \A s \in Sub : Served(s)

\* Where two sequences of events end up when they are put together.
LEMMA JoinedEntries ==
  ASSUME NEW first \in Seq(Nat), NEW then \in Seq(Nat)
  PROVE  /\ first \o then \in Seq(Nat) /\ Len(first \o then) = Len(first) + Len(then)
         /\ Len(first) \in Nat /\ Len(then) \in Nat
         /\ DOMAIN (first \o then) = 1..(Len(first) + Len(then))
         /\ \A a \in 1..Len(first) : (first \o then)[a] = first[a]
         /\ \A a \in 1..Len(then) : (first \o then)[Len(first) + a] = then[a]
<1>1. Len(first) \in Nat /\ Len(then) \in Nat
  OBVIOUS
<1>2. /\ first \o then \in Seq(Nat) /\ Len(first \o then) = Len(first) + Len(then)
      /\ \A i \in 1..(Len(first) + Len(then)) :
           (first \o then)[i] = IF i <= Len(first) THEN first[i] ELSE then[i - Len(first)]
  BY ConcatProperties
<1>3. DOMAIN (first \o then) = 1..(Len(first) + Len(then))
  BY <1>2
<1> DEFINE whole == first \o then
<1> HIDE DEF whole
<1>4. \A i \in 1..(Len(first) + Len(then)) : whole[i] = IF i <= Len(first) THEN first[i] ELSE then[i - Len(first)]
  BY <1>2 DEF whole
<1>5. \A a \in 1..Len(first) : whole[a] = first[a]
  BY <1>1, <1>4
<1>6. ASSUME NEW a \in 1..Len(then) PROVE whole[Len(first) + a] = then[a]
  <2>1. Len(first) + a \in 1..(Len(first) + Len(then)) /\ ~(Len(first) + a <= Len(first))
        /\ (Len(first) + a) - Len(first) = a
    BY <1>1
  <2> QED BY <1>4, <2>1
<1> QED BY <1>1, <1>2, <1>3, <1>5, <1>6 DEF whole

\* The snapshot comes first, then the channel.
LEMMA DueEntries ==
  ASSUME BusTypeOK, NEW s \in Sub
  PROVE  /\ Due(s) \in Seq(Nat) /\ Len(Due(s)) = Len(snapshot[s]) + Len(delivered[s])
         /\ Len(snapshot[s]) \in Nat /\ Len(delivered[s]) \in Nat
         /\ DOMAIN Due(s) = 1..(Len(snapshot[s]) + Len(delivered[s]))
         /\ \A a \in 1..Len(snapshot[s]) : Due(s)[a] = snapshot[s][a]
         /\ \A a \in 1..Len(delivered[s]) : Due(s)[Len(snapshot[s]) + a] = delivered[s][a]
<1>1. snapshot[s] \in Seq(Nat) /\ delivered[s] \in Seq(Nat)
  BY DEF BusTypeOK
<1> QED BY <1>1, JoinedEntries DEF Due

\* One more entry is one more wanted event, or none.
LEMMA WantedStep ==
  ASSUME NEW s \in Sub, NEW a \in Nat
  PROVE  /\ WantedUpTo(s, a) \in Nat
         /\ WantedUpTo(s, 0) = 0
         /\ WantedUpTo(s, a + 1) = WantedUpTo(s, a) + (IF Due(s)[a + 1] \in Wanted THEN 1 ELSE 0)
<1> DEFINE W(n) == {b \in 1..n : Due(s)[b] \in Wanted}
<1>1. IsFiniteSet(W(a))
  <2>1. IsFiniteSet(1..a)
    BY FS_Interval
  <2> QED BY <2>1, FS_Subset
<1>2. W(0) = {}
  OBVIOUS
<1>3. a + 1 \notin W(a)
  OBVIOUS
<1>4. W(a + 1) = IF Due(s)[a + 1] \in Wanted THEN W(a) \cup {a + 1} ELSE W(a)
  OBVIOUS
<1> HIDE DEF W
<1>5. Cardinality(W(a)) \in Nat
  BY <1>1, FS_CardinalityType
<1>6. Cardinality(W(a) \cup {a + 1}) = Cardinality(W(a)) + 1
  BY <1>1, <1>3, FS_AddElement
<1>7. Cardinality(W(0)) = 0
  BY <1>2, FS_EmptySet
<1> QED BY <1>4, <1>5, <1>6, <1>7 DEF W, WantedUpTo

\* What has been due stays so.
LEMMA DueGrows ==
  ASSUME BusTypeOK, BusTypeOK', NEW s \in Sub, snapshot'[s] = snapshot[s],
         \/ delivered'[s] = delivered[s]
         \/ \E e \in Nat : delivered'[s] = Append(delivered[s], e)
  PROVE  /\ \A a \in DOMAIN Due(s) : a \in DOMAIN Due(s)' /\ Due(s)'[a] = Due(s)[a]
         /\ \A a \in 0..Len(Due(s)) : WantedUpTo(s, a)' = WantedUpTo(s, a)
<1>1. /\ delivered[s] \in Seq(Nat) /\ delivered'[s] \in Seq(Nat) /\ snapshot[s] \in Seq(Nat)
      /\ Len(delivered'[s]) >= Len(delivered[s]) /\ Len(delivered'[s]) \in Nat
      /\ \A a \in 1..Len(delivered[s]) : delivered'[s][a] = delivered[s][a]
  <2>1. delivered[s] \in Seq(Nat) /\ delivered'[s] \in Seq(Nat) /\ snapshot[s] \in Seq(Nat)
    BY DEF BusTypeOK
  <2>2. CASE delivered'[s] = delivered[s]
    BY <2>1, <2>2
  <2>3. CASE \E e \in Nat : delivered'[s] = Append(delivered[s], e)
    <3>1. PICK e \in Nat : delivered'[s] = Append(delivered[s], e)
      BY <2>3
    <3> QED BY <2>1, <3>1, AppendProperties
  <2> QED BY <2>2, <2>3
<1>m. PICK m \in Nat : m = Len(snapshot[s])
  BY <1>1
<1>n. PICK n \in Nat : n = Len(delivered[s])
  BY <1>1
<1>2. /\ DOMAIN Due(s) = 1..(m + n) /\ Len(Due(s)) = m + n
      /\ \A a \in 1..m : Due(s)[a] = snapshot[s][a]
      /\ \A a \in 1..n : Due(s)[m + a] = delivered[s][a]
  BY <1>m, <1>n, DueEntries
<1>3. /\ DOMAIN Due(s)' = 1..(m + Len(delivered'[s]))
      /\ \A a \in 1..m : Due(s)'[a] = snapshot[s][a]
      /\ \A a \in 1..Len(delivered'[s]) : Due(s)'[m + a] = delivered'[s][a]
  <2>1. Due(s)' = snapshot[s] \o delivered'[s]
    BY DEF Due
  <2>2. /\ DOMAIN (snapshot[s] \o delivered'[s]) = 1..(Len(snapshot[s]) + Len(delivered'[s]))
        /\ \A a \in 1..Len(snapshot[s]) : (snapshot[s] \o delivered'[s])[a] = snapshot[s][a]
        /\ \A a \in 1..Len(delivered'[s]) :
             (snapshot[s] \o delivered'[s])[Len(snapshot[s]) + a] = delivered'[s][a]
    BY <1>1, JoinedEntries
  <2> QED BY <1>m, <2>1, <2>2
<1>4. ASSUME NEW a \in 1..(m + n) PROVE a \in DOMAIN Due(s)' /\ Due(s)'[a] = Due(s)[a]
  <2>0. a \in DOMAIN Due(s)'
    BY <1>1, <1>3, <1>n
  <2>1. CASE a <= m
    <3>1. a \in 1..m
      BY <2>1
    <3> QED BY <1>2, <1>3, <2>0, <3>1
  <2>2. CASE a > m
    <3>1. PICK k \in 1..n : a = m + k
      <4>1. a - m \in 1..n /\ a = m + (a - m)
        BY <2>2
      <4> QED BY <4>1
    <3>2. k \in 1..Len(delivered'[s]) /\ k \in 1..Len(delivered[s])
      BY <1>1, <1>n, <3>1
    <3>3. Due(s)[a] = delivered[s][k]
      BY <1>2, <3>1
    <3>4. Due(s)'[a] = delivered'[s][k]
      BY <1>3, <3>1, <3>2
    <3> QED BY <1>1, <2>0, <3>2, <3>3, <3>4
  <2> QED BY <2>1, <2>2
<1>5. ASSUME NEW a \in 0..(m + n) PROVE WantedUpTo(s, a)' = WantedUpTo(s, a)
  <2>1. \A b \in 1..a : Due(s)'[b] = Due(s)[b]
    BY <1>2, <1>4
  <2>2. {b \in 1..a : Due(s)'[b] \in Wanted} = {b \in 1..a : Due(s)[b] \in Wanted}
    BY <2>1
  <2> QED BY <2>2 DEF WantedUpTo
<1> QED BY <1>2, <1>4, <1>5

\* What the client has seen it has seen in order, whatever comes.
LEMMA StaysInOrder ==
  ASSUME BusTypeOK, BusTypeOK', NEW s \in Sub, InOrder(s), seen'[s] = seen[s], snapshot'[s] = snapshot[s],
         \/ delivered'[s] = delivered[s]
         \/ \E e \in Nat : delivered'[s] = Append(delivered[s], e)
  PROVE  InOrder(s)'
<1>1. /\ \A a \in DOMAIN Due(s) : a \in DOMAIN Due(s)' /\ Due(s)'[a] = Due(s)[a]
      /\ \A a \in 0..Len(Due(s)) : WantedUpTo(s, a)' = WantedUpTo(s, a)
  BY DueGrows
<1>2. \A a \in DOMAIN Due(s) : a \in 0..Len(Due(s))
  BY DueEntries
<1> SUFFICES ASSUME NEW i \in DOMAIN seen[s]
             PROVE  \E a \in DOMAIN Due(s)' : seen[s][i] = Due(s)'[a] /\ seen[s][i] \in Wanted /\ WantedUpTo(s, a)' = i
  BY DEF InOrder
<1>3. PICK a \in DOMAIN Due(s) : seen[s][i] = Due(s)[a] /\ seen[s][i] \in Wanted /\ WantedUpTo(s, a) = i
  BY DEF InOrder
<1> QED BY <1>1, <1>2, <1>3

\* A subscription nobody touches.
LEMMA LeftAlone ==
  ASSUME BusTypeOK, BusTypeOK', NEW s \in Sub, Served(s),
         link'[s] = link[s], serve'[s] = serve[s], forward'[s] = forward[s], stopped'[s] = stopped[s],
         replayed'[s] = replayed[s], held'[s] = held[s], relay'[s] = relay[s], seen'[s] = seen[s],
         stage'[s] = stage[s], queue'[s] = queue[s], snapshot'[s] = snapshot[s], delivered'[s] = delivered[s]
  PROVE  Served(s)'
<1>1. UnderWay(s)' = UnderWay(s) /\ Passed(s)' = Passed(s)
  BY DEF UnderWay, Passed
<1>2. Linked(s)' /\ Piped(s)'
  BY <1>1 DEF Served, Linked, Piped
<1>3. InOrder(s)'
  BY StaysInOrder DEF Served
<1>4. \A a : WantedUpTo(s, a)' = WantedUpTo(s, a)
  BY DEF WantedUpTo, Due
<1>5. Shown(s)'
  BY <1>1, <1>4 DEF Served, Shown
<1> QED BY <1>2, <1>3, <1>5 DEF Served

\* Writing the next entry shows it, if it is wanted and somebody is there.
LEMMA WriteShows ==
  ASSUME BusTypeOK, BusTypeOK', StreamTypes, NEW s \in Sub, InOrder(s), UNCHANGED busVars, link' = link,
         link[s] # "none", serve[s] = "run",
         NEW n \in Nat, n + 1 \in DOMAIN Due(s), Write(s, Due(s)[n + 1]),
         link[s] = "up" => Len(seen[s]) = WantedUpTo(s, n)
  PROVE  /\ InOrder(s)'
         /\ link[s] = "up" => serve' = serve /\ Len(seen'[s]) = WantedUpTo(s, n + 1)
         /\ serve'[s] \in {"run", "closing"}
         /\ \A t \in Sub : t # s => serve'[t] = serve[t] /\ seen'[t] = seen[t]
         /\ serve' \in [Sub -> {"idle", "run", "closing", "releasing", "ended"}]
         /\ seen' \in [Sub -> Seq(Nat)] /\ cursor' \in Nat
<1> DEFINE e == Due(s)[n + 1]
<1>1. snapshot' = snapshot /\ delivered' = delivered
  BY DEF busVars, subVars
<1>2. \A a : WantedUpTo(s, a)' = WantedUpTo(s, a) /\ Due(s)' = Due(s)
  BY <1>1 DEF WantedUpTo, Due
<1>3. /\ WantedUpTo(s, n) \in Nat
      /\ WantedUpTo(s, n + 1) = WantedUpTo(s, n) + (IF e \in Wanted THEN 1 ELSE 0)
  BY WantedStep
<1>4. e \in Nat /\ serve \in [Sub -> {"idle", "run", "closing", "releasing", "ended"}]
      /\ seen \in [Sub -> Seq(Nat)] /\ cursor \in Nat
  <2>1. Due(s) \in Seq(Nat)
    BY DueEntries
  <2>2. e \in Nat
    BY <2>1
  <2> QED BY <2>2 DEF StreamTypes
<1>5. CASE seen' = seen /\ cursor' = cursor /\ (e \in Wanted => link[s] = "broken")
           /\ (serve' = serve \/ (e \in Wanted /\ \E c \in {"run", "closing"} : serve' = [serve EXCEPT ![s] = c]))
  <2>1. InOrder(s)'
    BY <1>1, <1>5, StaysInOrder
  <2>2. /\ serve'[s] \in {"run", "closing"} /\ \A t \in Sub : t # s => serve'[t] = serve[t]
        /\ serve' \in [Sub -> {"idle", "run", "closing", "releasing", "ended"}]
    BY <1>4, <1>5
  <2> QED BY <1>2, <1>3, <1>4, <1>5, <2>1, <2>2
<1>6. CASE e \in Wanted /\ link[s] = "up" /\ seen' = [seen EXCEPT ![s] = Append(@, e)] /\ cursor' = e /\ serve' = serve
  <2>1. /\ seen' \in [Sub -> Seq(Nat)] /\ seen'[s] = Append(seen[s], e)
        /\ \A t \in Sub : t # s => seen'[t] = seen[t]
    BY <1>4, <1>6
  <2>2. /\ Len(seen[s]) \in Nat /\ Len(seen'[s]) = Len(seen[s]) + 1 /\ seen'[s][Len(seen[s]) + 1] = e
        /\ DOMAIN seen'[s] = 1..(Len(seen[s]) + 1)
        /\ DOMAIN seen[s] = 1..Len(seen[s])
        /\ \A i \in DOMAIN seen[s] : seen'[s][i] = seen[s][i]
    BY <1>4, <2>1
  <2>3. InOrder(s)'
    <3> SUFFICES ASSUME NEW i \in DOMAIN seen'[s]
                 PROVE  \E a \in DOMAIN Due(s) :
                          seen'[s][i] = Due(s)[a] /\ seen'[s][i] \in Wanted /\ WantedUpTo(s, a) = i
      BY <1>2 DEF InOrder
    <3>1. CASE i \in DOMAIN seen[s]
      BY <2>2, <3>1 DEF InOrder
    <3>2. CASE i = Len(seen[s]) + 1
      <4>1. WantedUpTo(s, n + 1) = i
        BY <1>3, <1>6, <3>2
      <4> QED BY <1>6, <2>2, <3>2, <4>1
    <3> QED BY <2>2, <3>1, <3>2
  <2> QED BY <1>2, <1>3, <1>4, <1>6, <2>1, <2>2, <2>3
<1> QED BY <1>5, <1>6 DEF Write

\* After a step that leaves the stream alone, what is shown is what it was.
LEMMA ShownTo ==
  ASSUME NEW s \in Sub, NEW n \in Nat, UNCHANGED <<snapshot, delivered>>, (replayed[s] + Passed(s))' = n,
         Len(seen'[s]) = WantedUpTo(s, n)
  PROVE  Len(seen'[s]) = WantedUpTo(s, replayed[s] + Passed(s))'
<1>1. Due(s)' = Due(s)
  BY DEF Due
<1> QED BY <1>1 DEF WantedUpTo

LEMMA UnderWayTyped ==
  ASSUME BusTypeOK, StreamTypes, NEW s \in Sub
  PROVE  /\ UnderWay(s) \in Nat /\ Len(relay[s]) \in Nat /\ Len(queue[s]) \in Nat
         /\ UnderWay(s) = Len(relay[s]) + (IF forward[s] = "send" THEN 1 ELSE 0) + Len(queue[s])
<1>1. relay[s] \in Seq(Nat) /\ queue[s] \in Seq(Nat)
  BY DEF StreamTypes, BusTypeOK
<1>2. Len(relay[s]) \in Nat /\ Len(queue[s]) \in Nat
  BY <1>1
<1>3. (IF forward[s] = "send" THEN 1 ELSE 0) \in Nat
  OBVIOUS
<1>4. \A a, b, c \in Nat : a + b + c \in Nat
  OBVIOUS
<1>5. UnderWay(s) = Len(relay[s]) + (IF forward[s] = "send" THEN 1 ELSE 0) + Len(queue[s])
  BY DEF UnderWay
<1> QED BY <1>2, <1>3, <1>4, <1>5

\* Serve goes through one more event of the snapshot.
LEMMA ReplayStep ==
  ASSUME StreamInv, NEW s \in Sub, Replay(s), BusTypeOK'
  PROVE  StreamTypes' /\ \A t \in Sub : Served(t)'
<1>1. /\ BusTypeOK /\ StreamTypes /\ \A t \in Sub : Served(t)
      /\ serve[s] = "run" /\ replayed[s] < Len(snapshot[s])
      /\ replayed' = [replayed EXCEPT ![s] = @ + 1]
      /\ UNCHANGED <<busVars, link, forward, held, relay, stopped>>
  BY DEF StreamInv, BusInv, Replay
<1>2. UNCHANGED <<stage, queue, snapshot, delivered>>
  BY <1>1 DEF busVars, subVars
<1>3. /\ Linked(s) /\ Piped(s) /\ Shown(s) /\ InOrder(s) /\ link[s] # "none" /\ ~stopped[s]
      /\ replayed \in [Sub -> Nat]
  BY <1>1 DEF Served, Linked, StreamTypes
<1>n. PICK n \in Nat : n = replayed[s]
  BY <1>3
<1>d. /\ Len(snapshot[s]) \in Nat /\ Len(delivered[s]) \in Nat
      /\ DOMAIN Due(s) = 1..(Len(snapshot[s]) + Len(delivered[s]))
      /\ \A a \in 1..Len(snapshot[s]) : Due(s)[a] = snapshot[s][a]
  BY <1>1, DueEntries
<1>4. n + 1 \in DOMAIN Due(s) /\ n + 1 \in 1..Len(snapshot[s])
  <2>1. \A a, b, c \in Nat : a < b => a + 1 \in 1..b /\ a + 1 \in 1..(b + c)
    OBVIOUS
  <2>2. n < Len(snapshot[s])
    BY <1>1, <1>n
  <2> QED BY <1>d, <2>1, <2>2
<1>5. UnderWay(s) \in Nat
  BY <1>1, UnderWayTyped
<1>6. link[s] = "up" => Passed(s) = 0 /\ Len(seen[s]) = WantedUpTo(s, n)
  <2> SUFFICES ASSUME link[s] = "up" PROVE Passed(s) = 0 /\ Len(seen[s]) = WantedUpTo(s, n)
    OBVIOUS
  <2>1. ~(Passed(s) > 0) /\ Len(seen[s]) = WantedUpTo(s, replayed[s] + Passed(s))
    BY <1>1, <1>3, <1>d DEF Shown
  <2>2. UnderWay(s) <= Len(delivered[s]) /\ Passed(s) = Len(delivered[s]) - UnderWay(s)
    BY <1>3 DEF Piped, Passed
  <2>3. Passed(s) = 0
    BY <1>5, <1>d, <2>1, <2>2
  <2>4. replayed[s] + Passed(s) = n
    BY <1>n, <2>3
  <2> QED BY <2>1, <2>3, <2>4
<1>7. Write(s, Due(s)[n + 1])
  <2>1. Write(s, snapshot[s][replayed[s] + 1])
    BY DEF Replay
  <2> QED BY <1>n, <1>d, <1>4, <2>1
<1>8. /\ InOrder(s)'
      /\ link[s] = "up" => serve' = serve /\ Len(seen'[s]) = WantedUpTo(s, n + 1)
      /\ serve'[s] \in {"run", "closing"}
      /\ \A t \in Sub : t # s => serve'[t] = serve[t] /\ seen'[t] = seen[t]
      /\ serve' \in [Sub -> {"idle", "run", "closing", "releasing", "ended"}]
      /\ seen' \in [Sub -> Seq(Nat)] /\ cursor' \in Nat
  BY <1>1, <1>3, <1>4, <1>6, <1>7, WriteShows
<1>9. replayed' \in [Sub -> Nat] /\ replayed'[s] = n + 1 /\ \A t \in Sub : t # s => replayed'[t] = replayed[t]
  BY <1>1, <1>3, <1>n
<1>10. StreamTypes'
  BY <1>1, <1>8, <1>9 DEF StreamTypes
<1>11. UnderWay(s)' = UnderWay(s) /\ Passed(s)' = Passed(s)
  BY <1>1, <1>2 DEF UnderWay, Passed
<1>12. Linked(s)'
  BY <1>1, <1>2, <1>3, <1>8 DEF Linked
<1>13. Piped(s)'
  BY <1>1, <1>2, <1>3, <1>11 DEF Piped
<1>14. Shown(s)'
  <2> SUFFICES ASSUME link[s] = "up"
               PROVE  /\ replayed'[s] <= Len(snapshot[s]) /\ ~(Passed(s)' > 0)
                      /\ Len(seen'[s]) = WantedUpTo(s, replayed[s] + Passed(s))'
    BY <1>1, <1>2 DEF Shown
  <2>1. replayed'[s] <= Len(snapshot[s])
    BY <1>4, <1>9, <1>d
  <2>2. Passed(s)' = 0
    BY <1>6, <1>11
  <2>3. (replayed[s] + Passed(s))' = n + 1
    BY <1>9, <2>2
  <2>4. Len(seen'[s]) = WantedUpTo(s, replayed[s] + Passed(s))'
    BY <1>2, <1>8, <2>3, ShownTo
  <2> QED BY <2>1, <2>2, <2>4
<1>15. ASSUME NEW t \in Sub, t # s PROVE Served(t)'
  BY <1>1, <1>2, <1>8, <1>9, <1>15, LeftAlone
<1> QED BY <1>8, <1>10, <1>12, <1>13, <1>14, <1>15 DEF Served

\* Serve goes through one more live event.
LEMMA WriteEventStep ==
  ASSUME StreamInv, NEW s \in Sub, WriteEvent(s), BusTypeOK'
  PROVE  StreamTypes' /\ \A t \in Sub : Served(t)'
<1>1. /\ BusTypeOK /\ StreamTypes /\ \A t \in Sub : Served(t)
      /\ serve[s] = "run" /\ replayed[s] = Len(snapshot[s]) /\ relay[s] # <<>>
      /\ relay' = [relay EXCEPT ![s] = Tail(@)]
      /\ UNCHANGED <<busVars, link, replayed, forward, held, stopped>>
  BY DEF StreamInv, BusInv, WriteEvent, InLoop
<1>2. UNCHANGED <<stage, queue, snapshot, delivered>>
  BY <1>1 DEF busVars, subVars
<1>3. /\ Linked(s) /\ Piped(s) /\ Shown(s) /\ InOrder(s) /\ link[s] # "none" /\ ~stopped[s]
      /\ relay \in [Sub -> Seq(Nat)]
  BY <1>1 DEF Served, Linked, StreamTypes
<1>d. /\ Len(snapshot[s]) \in Nat /\ Len(delivered[s]) \in Nat
      /\ DOMAIN Due(s) = 1..(Len(snapshot[s]) + Len(delivered[s]))
      /\ \A a \in 1..Len(delivered[s]) : Due(s)[Len(snapshot[s]) + a] = delivered[s][a]
  BY <1>1, DueEntries
<1>4. /\ UnderWay(s) \in Nat /\ Len(relay[s]) \in Nat /\ Len(queue[s]) \in Nat
      /\ UnderWay(s) = Len(relay[s]) + (IF forward[s] = "send" THEN 1 ELSE 0) + Len(queue[s])
  BY <1>1, UnderWayTyped
<1>5. /\ Len(relay[s]) \in Nat \ {0} /\ Head(relay[s]) = relay[s][1] /\ relay'[s] = Tail(relay[s])
      /\ relay' \in [Sub -> Seq(Nat)] /\ Len(relay'[s]) = Len(relay[s]) - 1
      /\ \A k \in 1..(Len(relay[s]) - 1) : relay'[s][k] = relay[s][k + 1]
      /\ \A t \in Sub : t # s => relay'[t] = relay[t]
  <2>1. relay[s] \in Seq(Nat) /\ relay'[s] = Tail(relay[s]) /\ \A t \in Sub : t # s => relay'[t] = relay[t]
    BY <1>1, <1>3
  <2>2. /\ Tail(relay[s]) \in Seq(Nat) /\ Len(Tail(relay[s])) = Len(relay[s]) - 1
        /\ \A k \in 1..Len(Tail(relay[s])) : Tail(relay[s])[k] = relay[s][k + 1]
    BY <1>1, <2>1, HeadTailProperties
  <2>3. Len(relay[s]) # 0 /\ Head(relay[s]) = relay[s][1]
    BY <1>1, <2>1
  <2>4. relay' \in [Sub -> Seq(Nat)]
    BY <1>1, <1>3, <2>2
  <2> QED BY <1>4, <2>1, <2>2, <2>3, <2>4
<1>u. PICK u \in Nat : u = UnderWay(s)
  BY <1>4
<1>l. PICK l \in Nat \ {0} : l = Len(relay[s])
  BY <1>5
<1>f. PICK f \in Nat : f = IF forward[s] = "send" THEN 1 ELSE 0
  OBVIOUS
<1>q. PICK q \in Nat : q = Len(queue[s])
  BY <1>4
<1>c. PICK c \in Nat : c = Len(delivered[s])
  BY <1>d
<1>m. PICK m \in Nat : m = Len(snapshot[s])
  BY <1>d
<1>6. u = l + f + q /\ UnderWay(s)' = u - 1 /\ u >= l /\ u <= c
  <2>1. UnderWay(s)' = Len(relay'[s]) + (IF forward[s] = "send" THEN 1 ELSE 0) + Len(queue[s])
    BY <1>1, <1>2 DEF UnderWay
  <2>2. u <= c
    BY <1>3, <1>u, <1>c DEF Piped
  <2>3. Len(relay'[s]) = l - 1
    BY <1>5, <1>l
  <2>4. u = l + f + q /\ UnderWay(s)' = (l - 1) + f + q
    BY <1>4, <1>u, <1>l, <1>f, <1>q, <2>1, <2>3
  <2> QED BY <2>2, <2>4
<1>k. PICK k \in Nat : k = c - u /\ k = Passed(s) /\ Passed(s)' = k + 1
  <2>1. Passed(s) = c - u /\ Passed(s)' = c - (u - 1)
    BY <1>2, <1>6, <1>u, <1>c DEF Passed
  <2>2. c - u \in Nat /\ c - (u - 1) = (c - u) + 1
    BY <1>6
  <2> QED BY <2>1, <2>2
<1>n. PICK n \in Nat : n = m + k
  OBVIOUS
<1>7. n + 1 \in DOMAIN Due(s) /\ Due(s)[n + 1] = Head(relay[s])
  <2>1. relay[s][1] = delivered[s][k + 1]
    <3>1. 1 \in 1..Len(relay[s])
      BY <1>5
    <3> QED BY <1>3, <1>k, <3>1 DEF Piped
  <2>2. k + 1 \in 1..c /\ n + 1 = m + (k + 1) /\ n + 1 \in 1..(m + c)
    BY <1>6, <1>k, <1>n
  <2>3. Due(s)[m + (k + 1)] = delivered[s][k + 1]
    BY <1>d, <1>c, <1>m, <2>2
  <2>4. n + 1 \in DOMAIN Due(s)
    BY <1>d, <1>c, <1>m, <2>2
  <2> QED BY <1>5, <2>1, <2>2, <2>3, <2>4
<1>8. Write(s, Due(s)[n + 1]) /\ (link[s] = "up" => Len(seen[s]) = WantedUpTo(s, n))
  <2>1. Write(s, Head(relay[s]))
    BY DEF WriteEvent
  <2>2. link[s] = "up" => Len(seen[s]) = WantedUpTo(s, replayed[s] + Passed(s))
    BY <1>3 DEF Shown
  <2> QED BY <1>1, <1>k, <1>m, <1>n, <1>7, <2>1, <2>2
<1>9. /\ InOrder(s)'
      /\ link[s] = "up" => serve' = serve /\ Len(seen'[s]) = WantedUpTo(s, n + 1)
      /\ serve'[s] \in {"run", "closing"}
      /\ \A t \in Sub : t # s => serve'[t] = serve[t] /\ seen'[t] = seen[t]
      /\ serve' \in [Sub -> {"idle", "run", "closing", "releasing", "ended"}]
      /\ seen' \in [Sub -> Seq(Nat)] /\ cursor' \in Nat
  BY <1>1, <1>3, <1>7, <1>8, WriteShows
<1>10. StreamTypes'
  BY <1>1, <1>5, <1>9 DEF StreamTypes
<1>11. Linked(s)'
  BY <1>1, <1>2, <1>3, <1>9 DEF Linked
<1>12. Piped(s)'
  <2>1. ASSUME NEW j \in 1..Len(relay'[s]) PROVE relay'[s][j] = delivered[s][Passed(s)' + j]
    <3>0. j \in 1..(l - 1)
      BY <1>5, <1>l
    <3>1. j + 1 \in 1..l /\ k + (j + 1) = (k + 1) + j
      BY <3>0
    <3>2. relay[s][j + 1] = delivered[s][k + (j + 1)]
      BY <1>3, <1>k, <1>l, <3>1 DEF Piped
    <3>3. relay'[s][j] = relay[s][j + 1]
      BY <1>5, <1>l, <3>0
    <3> QED BY <1>k, <3>1, <3>2, <3>3
  <2>2. UnderWay(s)' <= Len(delivered[s])
    BY <1>6, <1>c
  <2>3. /\ forward[s] = "send" => held[s] = delivered[s][Len(delivered[s]) - Len(queue[s])]
        /\ \A j \in 1..Len(queue[s]) : queue[s][j] = delivered[s][Len(delivered[s]) - Len(queue[s]) + j]
    BY <1>3 DEF Piped
  <2> QED BY <1>1, <1>2, <2>1, <2>2, <2>3 DEF Piped
<1>13. Shown(s)'
  <2> SUFFICES ASSUME link[s] = "up" PROVE Len(seen'[s]) = WantedUpTo(s, replayed[s] + Passed(s))'
    BY <1>1, <1>2, <1>d DEF Shown
  <2>1. (replayed[s] + Passed(s))' = n + 1
    <3>1. m + (k + 1) = n + 1
      BY <1>n
    <3> QED BY <1>1, <1>2, <1>k, <1>m, <3>1
  <2> QED BY <1>2, <1>9, <2>1, ShownTo
<1>14. ASSUME NEW t \in Sub, t # s PROVE Served(t)'
  BY <1>1, <1>2, <1>5, <1>9, <1>14, LeftAlone
<1> QED BY <1>9, <1>10, <1>11, <1>12, <1>13, <1>14 DEF Served

\* What only moves from one hand to the next is still under way.
LEMMA OnlyMoved ==
  ASSUME BusTypeOK, BusTypeOK', NEW s \in Sub, Served(s), UNCHANGED <<snapshot, delivered>>,
         link'[s] = link[s], replayed'[s] = replayed[s], seen'[s] = seen[s], UnderWay(s)' = UnderWay(s)
  PROVE  Shown(s)' /\ InOrder(s)'
<1>1. Passed(s)' = Passed(s)
  BY DEF Passed
<1>2. \A a : WantedUpTo(s, a)' = WantedUpTo(s, a)
  BY DEF WantedUpTo, Due
<1>3. Shown(s)'
  BY <1>1, <1>2 DEF Served, Shown
<1>4. InOrder(s)'
  BY StaysInOrder DEF Served
<1> QED BY <1>3, <1>4

\* A new connection has nothing behind it.
LEMMA ConnectStep ==
  ASSUME StreamInv, NEW s \in Sub, Connect(s), BusTypeOK'
  PROVE  StreamTypes' /\ \A t \in Sub : Served(t)'
<1>1. /\ BusTypeOK /\ StreamTypes /\ JoinedPast /\ \A t \in Sub : Served(t)
      /\ link[s] = "none" /\ link' = [link EXCEPT ![s] = "up"]
      /\ serve' = [serve EXCEPT ![s] = "run"] /\ forward' = [forward EXCEPT ![s] = "receive"]
      /\ UNCHANGED <<replayed, held, relay, stopped, cursor, seen>>
      /\ stage[s] = "new" /\ stage' = [stage EXCEPT ![s] = "open"]
      /\ snapshot' = [snapshot EXCEPT ![s] = SnapshotSince(cursor)]
      /\ UNCHANGED <<queue, delivered>>
  BY DEF StreamInv, BusInv, Connect, Subscribe
<1>2. /\ link \in [Sub -> {"none", "up", "broken"}]
      /\ serve \in [Sub -> {"idle", "run", "closing", "releasing", "ended"}]
      /\ forward \in [Sub -> {"none", "receive", "send", "ended"}]
      /\ stage \in [Sub -> {"new", "open", "closed"}] /\ snapshot \in [Sub -> Seq(Nat)]
  BY <1>1 DEF StreamTypes, BusTypeOK
<1>3. StreamTypes'
  BY <1>1, <1>2 DEF StreamTypes
<1>4. /\ link'[s] = "up" /\ serve'[s] = "run" /\ forward'[s] = "receive" /\ stage'[s] = "open"
      /\ snapshot'[s] = SnapshotSince(cursor) /\ snapshot'[s] \in Seq(Nat)
      /\ \A t \in Sub : t # s => /\ link'[t] = link[t] /\ serve'[t] = serve[t] /\ forward'[t] = forward[t]
                                 /\ stage'[t] = stage[t] /\ snapshot'[t] = snapshot[t]
  BY <1>1, <1>2 DEF BusTypeOK
<1>5. /\ ~stopped[s] /\ replayed[s] = 0 /\ relay[s] = <<>> /\ queue[s] = <<>> /\ seen[s] = <<>>
      /\ delivered[s] = <<>>
  BY <1>1 DEF Served, Linked, JoinedPast
<1>6. Linked(s)' /\ InOrder(s)'
  BY <1>1, <1>4, <1>5 DEF Linked, InOrder
<1>7. UnderWay(s)' = 0 /\ Passed(s)' = 0
  <2>1. Len(relay'[s]) = 0 /\ Len(queue'[s]) = 0 /\ Len(delivered'[s]) = 0
    BY <1>1, <1>5
  <2>2. (IF forward'[s] = "send" THEN 1 ELSE 0) = 0
    BY <1>4
  <2>3. UnderWay(s)' = Len(relay'[s]) + (IF forward'[s] = "send" THEN 1 ELSE 0) + Len(queue'[s])
    BY DEF UnderWay
  <2>4. UnderWay(s)' = 0
    BY <2>1, <2>2, <2>3
  <2>5. Passed(s)' = Len(delivered'[s]) - UnderWay(s)'
    BY DEF Passed
  <2> QED BY <2>1, <2>4, <2>5
<1>8. Piped(s)'
  BY <1>1, <1>4, <1>5, <1>7 DEF Piped
<1>9. Shown(s)'
  <2>1. WantedUpTo(s, replayed[s] + Passed(s))' = 0
    <3>1. (replayed[s] + Passed(s))' = 0
      BY <1>1, <1>5, <1>7
    <3>2. {b \in 1..0 : Due(s)'[b] \in Wanted} = {}
      OBVIOUS
    <3> QED BY <3>1, <3>2, FS_EmptySet DEF WantedUpTo
  <2>2. Len(seen'[s]) = 0 /\ replayed'[s] = 0 /\ Len(snapshot'[s]) \in Nat
    BY <1>1, <1>4, <1>5
  <2> QED BY <1>7, <2>1, <2>2 DEF Shown
<1>10. ASSUME NEW t \in Sub, t # s PROVE Served(t)'
  BY <1>1, <1>4, <1>10, LeftAlone
<1> QED BY <1>3, <1>6, <1>8, <1>9, <1>10 DEF Served

\* Steps of one connection that move no event: the connection breaks, Serve
\* leaves its loop, stops the forwarder, releases the subscription, the
\* request ends.
LEMMA EndingStep ==
  ASSUME StreamInv, NEW s \in Sub, Break(s) \/ LeaveLoop(s) \/ StopForward(s) \/ Release(s) \/ EndRequest(s),
         BusTypeOK'
  PROVE  StreamTypes' /\ \A t \in Sub : Served(t)'
<1>1. BusTypeOK /\ StreamTypes /\ \A t \in Sub : Served(t)
  BY DEF StreamInv, BusInv
<1>2. /\ link \in [Sub -> {"none", "up", "broken"}] /\ stopped \in [Sub -> BOOLEAN]
      /\ serve \in [Sub -> {"idle", "run", "closing", "releasing", "ended"}]
      /\ stage \in [Sub -> {"new", "open", "closed"}]
  BY <1>1 DEF StreamTypes, BusTypeOK
<1>3. UNCHANGED <<replayed, held, relay, cursor, seen, forward, queue, snapshot, delivered>>
  BY DEF Break, LeaveLoop, StopForward, Release, EndRequest, Close, busVars, subVars, streamVars
<1>4. UnderWay(s)' = UnderWay(s)
  BY <1>3 DEF UnderWay
<1>5. StreamTypes' /\ \A t \in Sub : t # s => /\ link'[t] = link[t] /\ serve'[t] = serve[t]
                                              /\ stopped'[t] = stopped[t] /\ stage'[t] = stage[t]
  <2>1. /\ link' \in [Sub -> {"none", "up", "broken"}] /\ stopped' \in [Sub -> BOOLEAN]
        /\ serve' \in [Sub -> {"idle", "run", "closing", "releasing", "ended"}]
        /\ \A t \in Sub : t # s => link'[t] = link[t] /\ serve'[t] = serve[t] /\ stopped'[t] = stopped[t]
    BY <1>2 DEF Break, LeaveLoop, StopForward, Release, EndRequest, streamVars
  <2>2. \A t \in Sub : t # s => stage'[t] = stage[t]
    BY <1>2 DEF Break, LeaveLoop, StopForward, Release, EndRequest, Close, busVars, subVars
  <2> QED BY <1>1, <1>3, <2>1, <2>2 DEF StreamTypes
<1>6. ASSUME NEW t \in Sub, t # s PROVE Served(t)'
  BY <1>1, <1>3, <1>5, <1>6, LeftAlone
<1>7. Linked(s) /\ Piped(s) /\ Shown(s) /\ InOrder(s)
  BY <1>1 DEF Served
<1>8. link[s] # "none"
  BY <1>7 DEF Linked, Break, LeaveLoop, StopForward, Release, EndRequest, InLoop
<1>9. CASE Break(s) \/ LeaveLoop(s)
  <2>1. link'[s] = "broken" /\ stopped' = stopped /\ serve[s] = "run" /\ serve'[s] \in {"run", "closing"}
    BY <1>2, <1>7, <1>9 DEF Break, LeaveLoop, InLoop, Linked
  <2>2. Linked(s)' /\ Shown(s)'
    BY <1>7, <2>1 DEF Linked, Shown
  <2>3. Piped(s)' /\ InOrder(s)'
    BY <1>1, <1>3, <1>4, <1>7, <2>1, StaysInOrder DEF Piped, Passed
  <2> QED BY <1>5, <1>6, <2>2, <2>3 DEF Served
<1>10. CASE StopForward(s)
  <2>1. stopped'[s] /\ serve[s] = "closing" /\ serve'[s] = "releasing" /\ link' = link
    BY <1>2, <1>10 DEF StopForward
  <2>2. link[s] # "up"
    BY <1>7, <2>1 DEF Linked
  <2>3. Linked(s)' /\ Piped(s)' /\ Shown(s)'
    BY <1>8, <2>1, <2>2 DEF Linked, Piped, Shown
  <2>4. InOrder(s)'
    BY <1>1, <1>3, <1>7, StaysInOrder
  <2> QED BY <1>5, <1>6, <2>3, <2>4 DEF Served
<1>11. CASE Release(s) \/ EndRequest(s)
  <2>1. /\ link' = link /\ stopped' = stopped
        /\ serve'[s] = serve[s] \/ (serve[s] = "releasing" /\ serve'[s] = "ended")
    BY <1>2, <1>11 DEF Release, EndRequest, streamVars
  <2>2. Linked(s)'
    BY <1>7, <1>8, <2>1 DEF Linked
  <2>3. Piped(s)'
    BY <1>3, <1>4, <1>7, <2>1 DEF Piped, Passed
  <2>4. Shown(s)' /\ InOrder(s)'
    BY <1>1, <1>3, <1>4, <2>1, OnlyMoved
  <2> QED BY <1>5, <1>6, <2>2, <2>3, <2>4 DEF Served
<1> QED BY <1>9, <1>10, <1>11

\* The forwarder takes the oldest event of the queue into its hand.
LEMMA ReceiveStep ==
  ASSUME StreamInv, NEW s \in Sub, Receive(s), BusTypeOK'
  PROVE  StreamTypes' /\ \A t \in Sub : Served(t)'
<1>1. /\ BusTypeOK /\ StreamTypes /\ \A t \in Sub : Served(t)
      /\ forward[s] = "receive" /\ queue[s] # <<>> /\ queue' = [queue EXCEPT ![s] = Tail(@)]
      /\ held' = [held EXCEPT ![s] = Head(queue[s])] /\ forward' = [forward EXCEPT ![s] = "send"]
      /\ UNCHANGED <<stage, snapshot, delivered, link, serve, replayed, relay, stopped, cursor, seen>>
  BY DEF StreamInv, BusInv, Receive, Take
<1>2. /\ queue \in [Sub -> Seq(Nat)] /\ held \in [Sub -> Nat]
      /\ forward \in [Sub -> {"none", "receive", "send", "ended"}]
  BY <1>1 DEF StreamTypes, BusTypeOK
<1>3. /\ Linked(s) /\ Piped(s) /\ link[s] # "none"
      /\ Len(delivered[s]) \in Nat /\ Len(relay[s]) \in Nat /\ Len(queue[s]) \in Nat
      /\ UnderWay(s) = Len(relay[s]) + (IF forward[s] = "send" THEN 1 ELSE 0) + Len(queue[s])
  BY <1>1, DueEntries, UnderWayTyped DEF Served, Linked
<1>4. /\ queue'[s] = Tail(queue[s]) /\ held'[s] = queue[s][1] /\ held'[s] \in Nat /\ forward'[s] = "send"
      /\ Len(queue[s]) \in Nat \ {0} /\ Len(queue'[s]) = Len(queue[s]) - 1
      /\ \A k \in 1..(Len(queue[s]) - 1) : queue'[s][k] = queue[s][k + 1]
      /\ \A t \in Sub : t # s => queue'[t] = queue[t] /\ held'[t] = held[t] /\ forward'[t] = forward[t]
  <2>1. queue[s] \in Seq(Nat) /\ queue[s] # <<>>
    BY <1>1, <1>2
  <2>2. /\ Tail(queue[s]) \in Seq(Nat) /\ Len(Tail(queue[s])) = Len(queue[s]) - 1 /\ Head(queue[s]) \in Nat
        /\ \A k \in 1..Len(Tail(queue[s])) : Tail(queue[s])[k] = queue[s][k + 1]
    BY <2>1, HeadTailProperties
  <2>3. Len(queue[s]) # 0 /\ Head(queue[s]) = queue[s][1]
    BY <2>1
  <2> QED BY <1>1, <1>2, <1>3, <2>2, <2>3
<1>5. StreamTypes'
  <2>1. held' \in [Sub -> Nat] /\ forward' \in [Sub -> {"none", "receive", "send", "ended"}]
    BY <1>1, <1>2, <1>4
  <2> QED BY <1>1, <2>1 DEF StreamTypes
<1>d. PICK d \in Nat : d = Len(delivered[s])
  BY <1>3
<1>l. PICK l \in Nat : l = Len(relay[s])
  BY <1>3
<1>q. PICK q \in Nat \ {0} : q = Len(queue[s])
  BY <1>4
<1>6. UnderWay(s) = l + q /\ UnderWay(s)' = l + q
  <2>1. (IF forward[s] = "send" THEN 1 ELSE 0) = 0 /\ (IF forward'[s] = "send" THEN 1 ELSE 0) = 1
    BY <1>1, <1>4
  <2>2. UnderWay(s)' = Len(relay[s]) + (IF forward'[s] = "send" THEN 1 ELSE 0) + Len(queue'[s])
    BY <1>1 DEF UnderWay
  <2>3. UnderWay(s) = l + 0 + q /\ UnderWay(s)' = l + 1 + (q - 1)
    BY <1>3, <1>4, <1>l, <1>q, <2>1, <2>2
  <2> QED BY <2>3
<1>7. Shown(s)' /\ InOrder(s)'
  BY <1>1, <1>6, OnlyMoved
<1>8. Linked(s)'
  BY <1>1, <1>3 DEF Linked
<1>9. Piped(s)'
  <2> SUFFICES ASSUME ~stopped[s]
               PROVE  /\ UnderWay(s)' <= Len(delivered[s])
                      /\ \A k \in 1..Len(relay[s]) : relay[s][k] = delivered[s][Passed(s)' + k]
                      /\ held'[s] = delivered[s][Len(delivered[s]) - Len(queue'[s])]
                      /\ \A k \in 1..Len(queue'[s]) :
                           queue'[s][k] = delivered[s][Len(delivered[s]) - Len(queue'[s]) + k]
    BY <1>1 DEF Piped
  <2>1. /\ UnderWay(s) <= Len(delivered[s])
        /\ \A k \in 1..Len(relay[s]) : relay[s][k] = delivered[s][Passed(s) + k]
        /\ \A k \in 1..q : queue[s][k] = delivered[s][d - q + k]
    BY <1>3, <1>d, <1>q DEF Piped
  <2>2. Passed(s)' = Passed(s)
    BY <1>1, <1>6 DEF Passed
  <2>3. 1 \in 1..q /\ d - q + 1 = d - (q - 1)
    OBVIOUS
  <2>4. held'[s] = delivered[s][d - (q - 1)]
    BY <1>4, <2>1, <2>3
  <2>5. ASSUME NEW k \in 1..(q - 1) PROVE queue'[s][k] = delivered[s][d - (q - 1) + k]
    <3>1. k + 1 \in 1..q /\ d - q + (k + 1) = d - (q - 1) + k
      OBVIOUS
    <3>2. queue[s][k + 1] = delivered[s][d - q + (k + 1)]
      BY <2>1, <3>1
    <3> QED BY <1>4, <1>q, <3>1, <3>2
  <2> QED BY <1>4, <1>6, <1>d, <1>q, <2>1, <2>2, <2>4, <2>5
<1>10. ASSUME NEW t \in Sub, t # s PROVE Served(t)'
  BY <1>1, <1>4, <1>10, LeftAlone
<1> QED BY <1>5, <1>7, <1>8, <1>9, <1>10 DEF Served

\* The forwarder hands its event to Serve's channel.
LEMMA SendStep ==
  ASSUME StreamInv, NEW s \in Sub, Send(s), BusTypeOK'
  PROVE  StreamTypes' /\ \A t \in Sub : Served(t)'
<1>1. /\ BusTypeOK /\ StreamTypes /\ \A t \in Sub : Served(t)
      /\ forward[s] = "send" /\ relay' = [relay EXCEPT ![s] = Append(@, held[s])]
      /\ forward' = [forward EXCEPT ![s] = "receive"]
      /\ UNCHANGED <<queue, stage, snapshot, delivered, link, serve, replayed, held, stopped, cursor, seen>>
  BY DEF StreamInv, BusInv, Send, busVars, subVars
<1>2. /\ relay \in [Sub -> Seq(Nat)] /\ held \in [Sub -> Nat]
      /\ forward \in [Sub -> {"none", "receive", "send", "ended"}]
  BY <1>1 DEF StreamTypes
<1>3. /\ Linked(s) /\ Piped(s) /\ link[s] # "none"
      /\ Len(delivered[s]) \in Nat /\ Len(relay[s]) \in Nat /\ Len(queue[s]) \in Nat
      /\ UnderWay(s) = Len(relay[s]) + (IF forward[s] = "send" THEN 1 ELSE 0) + Len(queue[s])
  BY <1>1, DueEntries, UnderWayTyped DEF Served, Linked
<1>4. /\ relay'[s] = Append(relay[s], held[s]) /\ relay'[s] \in Seq(Nat) /\ forward'[s] = "receive"
      /\ Len(relay'[s]) = Len(relay[s]) + 1 /\ relay'[s][Len(relay[s]) + 1] = held[s]
      /\ \A k \in 1..Len(relay[s]) : relay'[s][k] = relay[s][k]
      /\ \A t \in Sub : t # s => relay'[t] = relay[t] /\ forward'[t] = forward[t]
  <2>1. relay[s] \in Seq(Nat) /\ held[s] \in Nat
    BY <1>2
  <2> QED BY <1>1, <1>2, <2>1, AppendProperties
<1>5. StreamTypes'
  <2>1. relay' \in [Sub -> Seq(Nat)] /\ forward' \in [Sub -> {"none", "receive", "send", "ended"}]
    BY <1>1, <1>2, <1>4
  <2> QED BY <1>1, <2>1 DEF StreamTypes
<1>d. PICK d \in Nat : d = Len(delivered[s])
  BY <1>3
<1>l. PICK l \in Nat : l = Len(relay[s])
  BY <1>3
<1>q. PICK q \in Nat : q = Len(queue[s])
  BY <1>3
<1>6. UnderWay(s) = l + 1 + q /\ UnderWay(s)' = l + 1 + q
  <2>1. (IF forward[s] = "send" THEN 1 ELSE 0) = 1 /\ (IF forward'[s] = "send" THEN 1 ELSE 0) = 0
    BY <1>1, <1>4
  <2>2. UnderWay(s)' = Len(relay'[s]) + (IF forward'[s] = "send" THEN 1 ELSE 0) + Len(queue[s])
    BY <1>1 DEF UnderWay
  <2>3. UnderWay(s) = l + 1 + q /\ UnderWay(s)' = (l + 1) + 0 + q
    BY <1>3, <1>4, <1>l, <1>q, <2>1, <2>2
  <2> QED BY <2>3
<1>7. Shown(s)' /\ InOrder(s)'
  BY <1>1, <1>6, OnlyMoved
<1>8. Linked(s)'
  BY <1>1, <1>3 DEF Linked
<1>9. Piped(s)'
  <2> SUFFICES ASSUME ~stopped[s]
               PROVE  /\ UnderWay(s)' <= Len(delivered[s])
                      /\ \A k \in 1..Len(relay'[s]) : relay'[s][k] = delivered[s][Passed(s)' + k]
                      /\ \A k \in 1..Len(queue[s]) :
                           queue[s][k] = delivered[s][Len(delivered[s]) - Len(queue[s]) + k]
    BY <1>1, <1>4 DEF Piped
  <2>1. /\ UnderWay(s) <= Len(delivered[s])
        /\ \A k \in 1..l : relay[s][k] = delivered[s][Passed(s) + k]
        /\ held[s] = delivered[s][d - q]
        /\ \A k \in 1..Len(queue[s]) : queue[s][k] = delivered[s][Len(delivered[s]) - Len(queue[s]) + k]
    BY <1>1, <1>3, <1>d, <1>l, <1>q DEF Piped
  <2>2. Passed(s)' = Passed(s) /\ Passed(s) = d - (l + 1 + q)
    BY <1>1, <1>6, <1>d DEF Passed
  <2>3. d - (l + 1 + q) + (l + 1) = d - q
    OBVIOUS
  <2>4. ASSUME NEW k \in 1..(l + 1) PROVE relay'[s][k] = delivered[s][Passed(s) + k]
    <3>1. CASE k = l + 1
      BY <1>4, <1>l, <2>1, <2>2, <2>3, <3>1
    <3>2. CASE k # l + 1
      <4>1. k \in 1..l
        BY <3>2
      <4> QED BY <1>4, <1>l, <2>1, <4>1
    <3> QED BY <3>1, <3>2
  <2> QED BY <1>4, <1>6, <1>l, <2>1, <2>2, <2>4
<1>10. ASSUME NEW t \in Sub, t # s PROVE Served(t)'
  BY <1>1, <1>4, <1>10, LeftAlone
<1> QED BY <1>5, <1>7, <1>8, <1>9, <1>10 DEF Served

\* A forwarder that ends with an event in its hand was told to stop.
LEMMA EndForwardStep ==
  ASSUME StreamInv, NEW s \in Sub, EndForward(s), BusTypeOK'
  PROVE  StreamTypes' /\ \A t \in Sub : Served(t)'
<1>1. /\ BusTypeOK /\ StreamTypes /\ \A t \in Sub : Served(t)
      /\ forward[s] \in {"receive", "send"} /\ (forward[s] = "send" => stopped[s])
      /\ forward' = [forward EXCEPT ![s] = "ended"]
      /\ UNCHANGED <<queue, stage, snapshot, delivered, link, serve, replayed, held, relay, stopped, cursor, seen>>
  BY DEF StreamInv, BusInv, EndForward, busVars, subVars
<1>2. forward \in [Sub -> {"none", "receive", "send", "ended"}] /\ stopped \in [Sub -> BOOLEAN]
  BY <1>1 DEF StreamTypes
<1>3. forward'[s] = "ended" /\ \A t \in Sub : t # s => forward'[t] = forward[t]
  BY <1>1, <1>2
<1>4. StreamTypes'
  BY <1>1, <1>2 DEF StreamTypes
<1>5. Linked(s) /\ Piped(s) /\ Shown(s) /\ InOrder(s) /\ link[s] # "none"
  BY <1>1 DEF Served, Linked
<1>6. Linked(s)'
  BY <1>1, <1>5 DEF Linked
<1>7. ASSUME NEW t \in Sub, t # s PROVE Served(t)'
  BY <1>1, <1>3, <1>7, LeftAlone
<1>8. CASE stopped[s]
  <2>1. link[s] # "up"
    BY <1>5, <1>8 DEF Linked
  <2>2. Piped(s)' /\ Shown(s)'
    BY <1>1, <1>8, <2>1 DEF Piped, Shown
  <2>3. InOrder(s)'
    BY <1>1, <1>5, StaysInOrder
  <2> QED BY <1>4, <1>6, <1>7, <2>2, <2>3 DEF Served
<1>9. CASE ~stopped[s]
  <2>1. UnderWay(s)' = UnderWay(s) /\ Passed(s)' = Passed(s)
    BY <1>1, <1>3, <1>9 DEF UnderWay, Passed
  <2>2. Shown(s)' /\ InOrder(s)'
    BY <1>1, <2>1, OnlyMoved
  <2>3. Piped(s)'
    BY <1>1, <1>3, <1>5, <2>1 DEF Piped
  <2> QED BY <1>4, <1>6, <1>7, <2>2, <2>3 DEF Served
<1> QED BY <1>8, <1>9

\* What the bus delivers goes to the end of the queue.
LEMMA DeliveringStep ==
  ASSUME StreamInv, NEW p \in Publisher, NEW s \in Sub, Deliver(p, s), UNCHANGED streamVars, BusTypeOK'
  PROVE  StreamTypes' /\ \A t \in Sub : Served(t)'
<1>1. /\ BusTypeOK /\ StreamTypes /\ InFlight /\ \A t \in Sub : Served(t)
      /\ s \in targets[p]
      /\ UNCHANGED <<stage, snapshot, link, serve, replayed, forward, held, relay, stopped, cursor, seen>>
  BY DEF StreamInv, BusInv, Deliver, streamVars
<1>2. StreamTypes'
  BY <1>1 DEF StreamTypes
<1>3. CASE queue' = queue /\ delivered' = delivered
  BY <1>1, <1>2, <1>3, LeftAlone
<1>4. CASE queue' = [queue EXCEPT ![s] = Append(@, event[p])]
             /\ delivered' = [delivered EXCEPT ![s] = Append(@, event[p])]
  <2>1. /\ queue \in [Sub -> Seq(Nat)] /\ delivered \in [Sub -> Seq(Nat)] /\ event[p] \in Nat
        /\ stage[s] # "new"
    BY <1>1 DEF BusTypeOK, InFlight
  <2>2. \A t \in Sub : t # s => queue'[t] = queue[t] /\ delivered'[t] = delivered[t]
    BY <1>4, <2>1
  <2>3. ASSUME NEW t \in Sub, t # s PROVE Served(t)'
    BY <1>1, <2>2, <2>3, LeftAlone
  <2>4. /\ Linked(s) /\ Piped(s) /\ Shown(s) /\ InOrder(s) /\ link[s] # "none"
        /\ Len(delivered[s]) \in Nat /\ Len(relay[s]) \in Nat /\ Len(queue[s]) \in Nat /\ UnderWay(s) \in Nat
        /\ Len(snapshot[s]) \in Nat /\ Len(Due(s)) = Len(snapshot[s]) + Len(delivered[s])
        /\ UnderWay(s) = Len(relay[s]) + (IF forward[s] = "send" THEN 1 ELSE 0) + Len(queue[s])
        /\ replayed[s] \in Nat
    BY <1>1, <2>1, DueEntries, UnderWayTyped DEF Served, Linked, StreamTypes
  <2>d. PICK d \in Nat : d = Len(delivered[s])
    BY <2>4
  <2>q. PICK q \in Nat : q = Len(queue[s])
    BY <2>4
  <2>u. PICK u \in Nat : u = UnderWay(s)
    BY <2>4
  <2>5. /\ Len(queue'[s]) = q + 1 /\ queue'[s][q + 1] = event[p] /\ \A k \in 1..q : queue'[s][k] = queue[s][k]
        /\ Len(delivered'[s]) = d + 1 /\ delivered'[s][d + 1] = event[p]
        /\ \A k \in 1..d : delivered'[s][k] = delivered[s][k]
        /\ delivered'[s] = Append(delivered[s], event[p])
    <3>1. queue[s] \in Seq(Nat) /\ delivered[s] \in Seq(Nat) /\ event[p] \in Nat
      BY <2>1
    <3>2. queue'[s] = Append(queue[s], event[p]) /\ delivered'[s] = Append(delivered[s], event[p])
      BY <1>4, <2>1
    <3> QED BY <2>d, <2>q, <3>1, <3>2, AppendProperties
  <2>6. UnderWay(s)' = u + 1 /\ Passed(s) = d - u /\ Passed(s)' = d - u
    <3>f. PICK f \in Nat : f = IF forward[s] = "send" THEN 1 ELSE 0
      OBVIOUS
    <3>l. PICK l \in Nat : l = Len(relay[s])
      BY <2>4
    <3>1. UnderWay(s)' = Len(relay[s]) + (IF forward[s] = "send" THEN 1 ELSE 0) + Len(queue'[s])
      BY <1>1 DEF UnderWay
    <3>2. u = l + f + q /\ UnderWay(s)' = l + f + (q + 1)
      BY <2>4, <2>5, <2>q, <2>u, <3>f, <3>l, <3>1
    <3>3. UnderWay(s)' = u + 1
      BY <3>2
    <3>4. Passed(s) = d - u /\ Passed(s)' = (d + 1) - (u + 1)
      BY <2>5, <2>d, <2>u, <3>3 DEF Passed
    <3> QED BY <3>3, <3>4
  <2>7. Linked(s)'
    BY <1>1, <2>4 DEF Linked
  <2>8. InOrder(s)'
    BY <1>1, <2>1, <2>4, <2>5, StaysInOrder
  <2>9. Piped(s)'
    <3> SUFFICES ASSUME ~stopped[s]
                 PROVE  /\ UnderWay(s)' <= Len(delivered'[s])
                        /\ \A k \in 1..Len(relay[s]) : relay[s][k] = delivered'[s][Passed(s)' + k]
                        /\ forward[s] = "send" => held[s] = delivered'[s][Len(delivered'[s]) - Len(queue'[s])]
                        /\ \A k \in 1..Len(queue'[s]) :
                             queue'[s][k] = delivered'[s][Len(delivered'[s]) - Len(queue'[s]) + k]
      BY <1>1 DEF Piped
    <3>l. PICK l \in Nat : l = Len(relay[s])
      BY <2>4
    <3>1. /\ u <= d
          /\ \A k \in 1..l : relay[s][k] = delivered[s][d - u + k]
          /\ forward[s] = "send" => held[s] = delivered[s][d - q]
          /\ \A k \in 1..q : queue[s][k] = delivered[s][d - q + k]
      BY <2>4, <2>6, <2>d, <2>q, <2>u, <3>l DEF Piped
    <3>2. u = l + (IF forward[s] = "send" THEN 1 ELSE 0) + q
      BY <2>4, <2>q, <2>u, <3>l
    <3>3. l + q <= u /\ (forward[s] = "send" => u = l + 1 + q)
      BY <3>2
    <3>4. ASSUME NEW k \in 1..l PROVE relay[s][k] = delivered'[s][d - u + k]
      <4>1. d - u + k \in 1..d
        BY <3>1, <3>3
      <4> QED BY <2>5, <3>1, <4>1
    <3>5. ASSUME forward[s] = "send" PROVE held[s] = delivered'[s][(d + 1) - (q + 1)]
      <4>1. d - q \in 1..d /\ (d + 1) - (q + 1) = d - q
        BY <3>1, <3>3, <3>5
      <4> QED BY <2>5, <3>1, <3>5, <4>1
    <3>6. ASSUME NEW k \in 1..(q + 1) PROVE queue'[s][k] = delivered'[s][(d + 1) - (q + 1) + k]
      <4>1. CASE k = q + 1
        <5>1. (d + 1) - (q + 1) + k = d + 1
          BY <4>1
        <5> QED BY <2>5, <4>1, <5>1
      <4>2. CASE k # q + 1
        <5>1. k \in 1..q /\ d - q + k \in 1..d /\ (d + 1) - (q + 1) + k = d - q + k
          BY <3>1, <3>3, <4>2
        <5> QED BY <2>5, <3>1, <5>1
      <4> QED BY <4>1, <4>2
    <3>7. UnderWay(s)' <= Len(delivered'[s])
      BY <2>5, <2>6, <3>1
    <3>8. \A k \in 1..Len(relay[s]) : relay[s][k] = delivered'[s][Passed(s)' + k]
      BY <2>6, <3>4, <3>l
    <3>9. forward[s] = "send" => held[s] = delivered'[s][Len(delivered'[s]) - Len(queue'[s])]
      BY <2>5, <3>5
    <3>10. \A k \in 1..Len(queue'[s]) : queue'[s][k] = delivered'[s][Len(delivered'[s]) - Len(queue'[s]) + k]
      BY <2>5, <3>6
    <3> QED BY <3>7, <3>8, <3>9, <3>10
  <2>10. Shown(s)'
    <3> SUFFICES ASSUME link[s] = "up"
                 PROVE  /\ replayed[s] <= Len(snapshot[s])
                        /\ Passed(s)' > 0 => replayed[s] = Len(snapshot[s])
                        /\ Len(seen[s]) = WantedUpTo(s, replayed[s] + Passed(s))'
      BY <1>1 DEF Shown
    <3>1. /\ replayed[s] <= Len(snapshot[s]) /\ (Passed(s) > 0 => replayed[s] = Len(snapshot[s]))
          /\ Len(seen[s]) = WantedUpTo(s, replayed[s] + Passed(s))
      BY <2>4 DEF Shown
    <3>2. ~stopped[s] /\ u <= d
      BY <2>4, <2>d, <2>u DEF Linked, Piped
    <3>m. PICK m \in Nat : m = Len(snapshot[s])
      BY <2>4
    <3>r. PICK r \in Nat : r = replayed[s]
      BY <2>4
    <3>3. r + (d - u) \in 0..(m + d)
      BY <3>1, <3>2, <3>m, <3>r
    <3>n. PICK n \in 0..Len(Due(s)) : n = r + (d - u)
      BY <2>4, <2>d, <3>3, <3>m
    <3>4. WantedUpTo(s, n)' = WantedUpTo(s, n)
      BY <1>1, <2>1, <2>5, DueGrows
    <3>5. replayed[s] + Passed(s) = n /\ (replayed[s] + Passed(s))' = n
      BY <1>1, <2>6, <3>n, <3>r
    <3>6. WantedUpTo(s, replayed[s] + Passed(s))' = WantedUpTo(s, n)'
      BY <3>5 DEF WantedUpTo
    <3> QED BY <2>6, <3>1, <3>4, <3>5, <3>6
  <2> QED BY <1>2, <2>3, <2>7, <2>8, <2>9, <2>10 DEF Served
<1> QED BY <1>3, <1>4 DEF Deliver

\* The bus keeps its invariant whoever steps.
LEMMA StreamKeepsBus ==
  ASSUME BusInv, cursor \in Nat, [StreamNext]_streamAllVars
  PROVE  BusInv'
<1>1. ASSUME NEW p \in Publisher, Publishing(p) PROVE BusInv'
  BY <1>1, PublishStep DEF Publishing
<1>2. ASSUME NEW p \in Publisher, Delivering(p) PROVE BusInv'
  BY <1>2, DeliverStep DEF Delivering
<1>3. ASSUME NEW s \in Sub, Serving(s) PROVE BusInv'
  <2>1. UNCHANGED busVars \/ Close(s)
    BY <1>3 DEF Serving, Replay, WriteEvent, LeaveLoop, StopForward, Release
  <2> QED BY <2>1, StutterStep, CloseStep
<1>4. ASSUME NEW s \in Sub, Forwarding(s) PROVE BusInv'
  <2>1. UNCHANGED busVars \/ Take(s)
    BY <1>4 DEF Forwarding, Receive, Send, EndForward
  <2> QED BY <2>1, StutterStep, TakeStep
<1>5. ASSUME NEW s \in Sub, Environment(s) PROVE BusInv'
  <2>1. UNCHANGED busVars \/ Close(s) \/ Subscribe(s, cursor)
    BY <1>5 DEF Environment, Connect, Break, EndRequest
  <2> QED BY <2>1, StutterStep, CloseStep, SubscribeStep
<1>6. CASE UNCHANGED streamAllVars
  <2>1. UNCHANGED busVars
    BY <1>6 DEF streamAllVars
  <2> QED BY <2>1, StutterStep
<1> QED BY <1>1, <1>2, <1>3, <1>4, <1>5, <1>6 DEF StreamNext

\* No connection has been made.
LEMMA StreamInitInv == StreamInit => StreamInv
<1> SUFFICES ASSUME StreamInit PROVE StreamInv
  OBVIOUS
<1>1. BusInv
  BY BusInitInv DEF StreamInit
<1>2. /\ link = [s \in Sub |-> "none"] /\ serve = [s \in Sub |-> "idle"] /\ replayed = [s \in Sub |-> 0]
      /\ forward = [s \in Sub |-> "none"] /\ held = [s \in Sub |-> NoEventId] /\ relay = [s \in Sub |-> <<>>]
      /\ stopped = [s \in Sub |-> FALSE] /\ cursor = NoEventId /\ seen = [s \in Sub |-> <<>>]
      /\ stage = [s \in Sub |-> "new"] /\ queue = [s \in Sub |-> <<>>] /\ delivered = [s \in Sub |-> <<>>]
  BY DEF StreamInit, BusInit
<1>3. StreamTypes
  <2>1. <<>> \in Seq(Nat)
    OBVIOUS
  <2> QED BY <1>2, <2>1 DEF StreamTypes, NoEventId
<1>4. ASSUME NEW s \in Sub PROVE Served(s)
  <2>1. /\ link[s] = "none" /\ serve[s] = "idle" /\ forward[s] = "none" /\ ~stopped[s] /\ replayed[s] = 0
        /\ relay[s] = <<>> /\ queue[s] = <<>> /\ seen[s] = <<>> /\ delivered[s] = <<>> /\ stage[s] = "new"
    BY <1>2
  <2>2. Linked(s) /\ Shown(s) /\ InOrder(s)
    BY <2>1 DEF Linked, Shown, InOrder
  <2>3. Len(relay[s]) = 0 /\ Len(queue[s]) = 0 /\ Len(delivered[s]) = 0 /\ (IF forward[s] = "send" THEN 1 ELSE 0) = 0
    BY <2>1
  <2>4. UnderWay(s) = 0
    BY <2>3 DEF UnderWay
  <2>5. Piped(s)
    BY <2>1, <2>3, <2>4 DEF Piped
  <2> QED BY <2>2, <2>5 DEF Served
<1> QED BY <1>1, <1>3, <1>4 DEF StreamInv

\* A step that leaves every connection as it is: an event enters the ring, or
\* nothing happens.
LEMMA NobodyTouched ==
  ASSUME StreamInv, BusTypeOK', UNCHANGED streamVars, UNCHANGED subVars
  PROVE  StreamTypes' /\ \A t \in Sub : Served(t)'
<1>1. /\ BusTypeOK /\ StreamTypes /\ \A t \in Sub : Served(t)
      /\ UNCHANGED <<link, serve, replayed, forward, held, relay, stopped, cursor, seen,
                     stage, queue, snapshot, delivered>>
  BY DEF StreamInv, BusInv, streamVars, subVars
<1>2. StreamTypes'
  BY <1>1 DEF StreamTypes
<1>3. ASSUME NEW t \in Sub PROVE Served(t)'
  BY <1>1, LeftAlone
<1> QED BY <1>2, <1>3

\* The invariant of the stream is inductive: what is in the forwarder's hands
\* is the end of the channel, and what Serve has gone through is what the
\* client has seen.
LEMMA StreamKeeps == ASSUME StreamInv, [StreamNext]_streamAllVars PROVE StreamInv'
<1>1. BusInv'
  BY StreamKeepsBus DEF StreamInv, StreamTypes
<1>2. BusTypeOK'
  BY <1>1 DEF BusInv
<1>3. ASSUME NEW p \in Publisher, Publishing(p) PROVE StreamInv'
  BY <1>1, <1>2, <1>3, NobodyTouched DEF Publishing, Publish, StreamInv
<1>4. ASSUME NEW p \in Publisher, Delivering(p) PROVE StreamInv'
  BY <1>1, <1>2, <1>4, DeliveringStep DEF Delivering, StreamInv
<1>5. ASSUME NEW s \in Sub, Serving(s) PROVE StreamInv'
  <2>1. CASE Replay(s)
    BY <1>1, <1>2, <2>1, ReplayStep DEF StreamInv
  <2>2. CASE WriteEvent(s)
    BY <1>1, <1>2, <2>2, WriteEventStep DEF StreamInv
  <2>3. CASE LeaveLoop(s) \/ StopForward(s) \/ Release(s)
    BY <1>1, <1>2, <2>3, EndingStep DEF StreamInv
  <2> QED BY <1>5, <2>1, <2>2, <2>3 DEF Serving
<1>6. ASSUME NEW s \in Sub, Forwarding(s) PROVE StreamInv'
  <2>1. CASE Receive(s)
    BY <1>1, <1>2, <2>1, ReceiveStep DEF StreamInv
  <2>2. CASE Send(s)
    BY <1>1, <1>2, <2>2, SendStep DEF StreamInv
  <2>3. CASE EndForward(s)
    BY <1>1, <1>2, <2>3, EndForwardStep DEF StreamInv
  <2> QED BY <1>6, <2>1, <2>2, <2>3 DEF Forwarding
<1>7. ASSUME NEW s \in Sub, Environment(s) PROVE StreamInv'
  <2>1. CASE Connect(s)
    BY <1>1, <1>2, <2>1, ConnectStep DEF StreamInv
  <2>2. CASE Break(s) \/ EndRequest(s)
    BY <1>1, <1>2, <2>2, EndingStep DEF StreamInv
  <2> QED BY <1>7, <2>1, <2>2 DEF Environment
<1>8. CASE UNCHANGED streamAllVars
  BY <1>1, <1>2, <1>8, NobodyTouched DEF streamAllVars, busVars, StreamInv
<1> QED BY <1>3, <1>4, <1>5, <1>6, <1>7, <1>8 DEF StreamNext

\* What Serve has gone through is what its client has seen, always.
THEOREM StreamInvariance == StreamSpec => []StreamInv
  BY StreamInitInv, StreamKeeps, PTL DEF StreamSpec

\* Hub.Serve and its forwarder: whatever breaks and whoever overtakes, a
\* connection shows its client the wanted events of its snapshot and then of
\* its channel, in order, none skipped and none twice.
THEOREM ClientSeesInOrder == StreamSpec => []SeenInOrder
<1>1. StreamInv => SeenInOrder
  BY DEF StreamInv, Served, InOrder, SeenInOrder
<1> QED BY <1>1, StreamInvariance, PTL

\* The bus keeps its promises under the stream as it does alone.
THEOREM StreamKeepsPromises == StreamSpec => [](RingIsRecent /\ LiveExactlyOnce /\ SnapshotMeetsLive)
<1>1. StreamInv => RingIsRecent /\ LiveExactlyOnce /\ SnapshotMeetsLive
  BY DEF StreamInv, BusInv, Accounted, DeliveredOnce, LiveExactlyOnce
<1> QED BY <1>1, StreamInvariance, PTL

-----------------------------------------------------------------------------
(* The bus implements FeedPromise.  What a subscription is owed is what    *)
(* the publishers hold for it outside b.mu; BusInv says that they hold     *)
(* different events, so that an offer takes one away for good.             *)

Owed(s) == {event[p] : p \in {q \in Publisher : s \in targets[q]}}

\* The ring never counts more events than there were.
FeedInv == BusInv /\ ringCount <= pushed

LEMMA CountKept ==
  ASSUME FeedInv, \/ \E p \in Publisher : Publish(p)
                  \/ UNCHANGED <<ringCount, pushed>>
  PROVE  (ringCount <= pushed)'
<1>1. ringCount \in Nat /\ pushed \in Nat /\ ringCount <= pushed
  BY BusAssumption DEF FeedInv, BusInv, BusTypeOK
<1>2. ASSUME NEW p \in Publisher, Publish(p) PROVE (ringCount <= pushed)'
  <2>1. pushed' = pushed + 1 /\ (ringCount' = ringCount + 1 \/ ringCount' = ringCount)
    BY <1>2 DEF Publish, PushToRing
  <2> QED BY <1>1, <2>1
<1> QED BY <1>1, <1>2

\* What an event is owed by does not change while no publisher moves.
LEMMA OwedStays ==
  ASSUME UNCHANGED <<event, targets>>
  PROVE  \A s \in Sub : Owed(s)' = Owed(s)
BY DEF Owed

\* Publish: the new event is owed to the open subscriptions.
LEMMA OwedPublished ==
  ASSUME BusInv, NEW p \in Publisher, Publish(p), NEW s \in Sub
  PROVE  Owed(s)' = IF stage[s] = "open" THEN Owed(s) \cup {pushed + 1} ELSE Owed(s)
<1>1. /\ targets[p] = {} /\ targets'[p] = {t \in Sub : stage[t] = "open"} /\ event'[p] = pushed + 1
      /\ \A q \in Publisher \ {p} : targets'[q] = targets[q] /\ event'[q] = event[q]
  BY DEF BusInv, BusTypeOK, Publish
<1>2. ASSUME NEW e PROVE e \in Owed(s)' <=> e \in Owed(s) \/ (stage[s] = "open" /\ e = pushed + 1)
  <2>1. ASSUME NEW q \in Publisher, s \in targets'[q], e = event'[q]
        PROVE  e \in Owed(s) \/ (stage[s] = "open" /\ e = pushed + 1)
    BY <1>1, <2>1 DEF Owed
  <2>2. ASSUME NEW q \in Publisher, s \in targets[q], e = event[q]
        PROVE  e \in Owed(s)'
    <3>1. targets'[q] = targets[q] /\ event'[q] = event[q]
      BY <1>1, <2>2
    <3> QED BY <2>2, <3>1 DEF Owed
  <2>3. ASSUME stage[s] = "open", e = pushed + 1 PROVE e \in Owed(s)'
    <3>1. s \in targets'[p] /\ e = event'[p]
      BY <1>1, <2>3
    <3> QED BY <3>1 DEF Owed
  <2> QED BY <2>1, <2>2, <2>3 DEF Owed
<1> QED BY <1>2

\* Deliver: the event is not owed any more, for nobody else holds it.
LEMMA OwedDelivered ==
  ASSUME BusInv, NEW p \in Publisher, NEW s \in Sub, Deliver(p, s)
  PROVE  /\ event[p] \in Owed(s)
         /\ Owed(s)' = Owed(s) \ {event[p]}
         /\ \A t \in Sub \ {s} : Owed(t)' = Owed(t)
<1>1. /\ s \in targets[p] /\ targets'[p] = targets[p] \ {s} /\ event' = event
      /\ \A q \in Publisher \ {p} : targets'[q] = targets[q]
  BY DEF BusInv, BusTypeOK, Deliver
<1>2. \A q \in Publisher : s \in targets[q] /\ event[q] = event[p] => q = p
  BY <1>1 DEF BusInv, InFlight
<1>3. ASSUME NEW e PROVE e \in Owed(s)' <=> e \in Owed(s) /\ e # event[p]
  <2>1. ASSUME NEW q \in Publisher, s \in targets'[q], e = event[q]
        PROVE  e \in Owed(s) /\ e # event[p]
    BY <1>1, <1>2, <2>1 DEF Owed
  <2>2. ASSUME NEW q \in Publisher, s \in targets[q], e = event[q], e # event[p]
        PROVE  e \in Owed(s)'
    BY <1>1, <2>2 DEF Owed
  <2> QED BY <1>1, <2>1, <2>2 DEF Owed
<1>4. ASSUME NEW t \in Sub \ {s} PROVE Owed(t)' = Owed(t)
  <2>1. \A q \in Publisher : t \in targets'[q] <=> t \in targets[q]
    BY <1>1
  <2> QED BY <1>1, <2>1 DEF Owed
<1> QED BY <1>1, <1>3, <1>4 DEF Owed

\* snapshotSince: the recent events after the one that is asked for, to the
\* last one of them.
LEMMA SnapshotLength ==
  ASSUME FeedInv, NEW e \in 0..pushed
  PROVE  Len(SnapshotSince(e)) = IF e = 0 THEN ringCount
                                 ELSE IF e > pushed - ringCount THEN pushed - e ELSE 0
<1>1. /\ pushed \in Nat /\ ringCount \in 0..RingSize /\ ringCount <= pushed /\ ringCount \in Nat
      /\ RingSize \in Nat
  BY BusAssumption DEF FeedInv, BusInv, BusTypeOK
<1>2. \A i \in 1..ringCount : Buffered[i] = pushed - ringCount + i
  BY BufferedIs DEF FeedInv, BusInv
<1>3. Buffered \in Seq(Nat) /\ Len(Buffered) = ringCount
  BY BufferedIs DEF FeedInv, BusInv
<1> HIDE DEF Buffered
<1>4. CASE e = 0
  BY <1>3, <1>4 DEF SnapshotSince, NoEventId
<1>5. CASE e # 0 /\ e > pushed - ringCount
  <2> DEFINE k == CHOOSE i \in 1..ringCount : Buffered[i] = e
  <2>1. e - (pushed - ringCount) \in 1..ringCount
    BY <1>1, <1>5
  <2>2. Buffered[e - (pushed - ringCount)] = e
    BY <1>1, <1>2, <2>1
  <2>3. k \in 1..ringCount /\ Buffered[k] = e
    BY <2>1, <2>2
  <2>4. SnapshotSince(e) = SubSeq(Buffered, k + 1, ringCount)
    BY <1>5, <2>1, <2>2 DEF SnapshotSince, NoEventId
  <2> HIDE DEF k
  <2>5. k = e - (pushed - ringCount)
    BY <1>1, <1>2, <2>3
  <2>6. Len(SubSeq(Buffered, k + 1, ringCount)) = ringCount - k
    BY <1>1, <1>3, <2>3
  <2> QED BY <1>1, <1>5, <2>4, <2>5, <2>6
<1>6. CASE e # 0 /\ ~(e > pushed - ringCount)
  <2>1. \A i \in 1..ringCount : Buffered[i] # e
    BY <1>1, <1>2, <1>6
  <2>2. SnapshotSince(e) = <<>>
    BY <1>6, <2>1 DEF SnapshotSince, NoEventId
  <2> QED BY <1>6, <2>2
<1> QED BY <1>4, <1>5, <1>6

LEMMA SnapshotPromised ==
  ASSUME FeedInv, NEW e \in 0..pushed
  PROVE  SnapshotSince(e) = Feed!After(e)
<1>1. /\ pushed \in Nat /\ ringCount \in 0..RingSize /\ ringCount <= pushed /\ ringCount \in Nat
      /\ RingSize \in Nat /\ (ringCount < RingSize => pushed = ringCount)
  BY BusAssumption DEF FeedInv, BusInv, BusTypeOK, RingIsRecent
<1>2. Feed!Kept = ringCount
  BY <1>1 DEF Feed!Kept
<1> DEFINE q == SnapshotSince(e)
           n == IF e = 0 THEN ringCount ELSE IF e > pushed - ringCount THEN pushed - e ELSE 0
<1>3. q \in Seq(Nat) /\ Len(q) = n /\ \A i \in DOMAIN q : q[i] = pushed - Len(q) + i
  <2>1. BusTypeOK /\ RingIsRecent /\ e \in Nat
    BY <1>1 DEF FeedInv, BusInv
  <2>2. q \in Seq(Nat) /\ \A i \in DOMAIN q : q[i] = pushed - Len(q) + i
    BY <2>1, SnapshotIsSuffix
  <2>3. Len(q) = n
    BY SnapshotLength
  <2> QED BY <2>2, <2>3
<1>4. n \in Nat
  BY <1>1
<1>5. Feed!After(e) = [i \in 1..n |-> pushed - n + i]
  <2>1. CASE e # 0 /\ ~(e > pushed - ringCount)
    BY <1>2, <2>1 DEF Feed!After
  <2>2. CASE e = 0 \/ e > pushed - ringCount
    BY <1>1, <1>2, <2>2 DEF Feed!After, Feed!Latest
  <2> QED BY <2>1, <2>2
<1> HIDE DEF q, n
<1>6. q = [i \in 1..n |-> pushed - n + i]
  BY <1>3, <1>4
<1> QED BY <1>5, <1>6 DEF q

\* The steps of the promise, told by what they change.
LEMMA FeedStutters ==
  ASSUME UNCHANGED <<pushed, stage, snapshot, queue, event, targets>>
  PROVE  UNCHANGED Feed!vars
BY DEF Feed!vars

LEMMA FeedPublish ==
  ASSUME BusInv, NEW p \in Publisher, Publish(p)
  PROVE  Feed!Next
<1>1. /\ pushed' = pushed + 1 /\ UNCHANGED <<stage, snapshot, queue>>
  BY DEF Publish, subVars
<1>2. \A s \in Sub : Owed(s)' = IF stage[s] = "open" THEN Owed(s) \cup {pushed + 1} ELSE Owed(s)
  BY OwedPublished
<1>3. Feed!Happen
  BY <1>1, <1>2 DEF Feed!Happen, Owed
<1> QED BY <1>3 DEF Feed!Next

LEMMA FeedDeliver ==
  ASSUME BusInv, NEW p \in Publisher, NEW s \in Sub, Deliver(p, s)
  PROVE  Feed!Next
<1>1. /\ stage[s] \in {"open", "closed"} /\ event[p] \in 0..pushed
      /\ UNCHANGED <<pushed, stage, snapshot>>
  <2>1. /\ stage[s] # "new" /\ event[p] \in (joined[s] + 1)..pushed /\ joined[s] \in Nat
        /\ stage[s] \in {"new", "open", "closed"} /\ pushed \in Nat
    BY DEF Deliver, BusInv, BusTypeOK, InFlight
  <2> QED BY <2>1 DEF Deliver, ringVars
<1>2. \A t \in Sub : Owed(t)' = IF t = s THEN Owed(s) \ {event[p]} ELSE Owed(t)
  BY OwedDelivered
<1>3. event[p] \in Owed(s)
  BY OwedDelivered
<1>4. queue' = IF stage[s] = "open" /\ Len(queue[s]) < QueueSize
               THEN [queue EXCEPT ![s] = Append(@, event[p])] ELSE queue
  <2>1. Len(queue[s]) \in Nat /\ QueueSize \in Nat
    BY BusAssumption DEF BusInv, BusTypeOK
  <2> QED BY <1>1, <2>1 DEF Deliver
<1>5. PICK e \in 0..pushed : e = event[p]
  BY <1>1
<1>6. Feed!Give(s, e)
  <2>1. [t \in Sub |-> Owed(t)]' = [[t \in Sub |-> Owed(t)] EXCEPT ![s] = @ \ {e}]
    BY <1>2, <1>5
  <2> QED BY <1>1, <1>3, <1>4, <1>5, <2>1 DEF Feed!Give, Owed
<1> QED BY <1>6 DEF Feed!Next

LEMMA FeedSubscribe ==
  ASSUME FeedInv, NEW s \in Sub, NEW e \in 0..pushed, Subscribe(s, e)
  PROVE  Feed!Next
<1>1. /\ stage[s] = "new" /\ stage' = [stage EXCEPT ![s] = "open"]
      /\ snapshot' = [snapshot EXCEPT ![s] = Feed!After(e)]
      /\ UNCHANGED <<pushed, queue, event, targets>>
  BY SnapshotPromised DEF Subscribe, ringVars, pubVars
<1>2. Feed!Join(s, e)
  BY <1>1 DEF Feed!Join
<1> QED BY <1>2 DEF Feed!Next

LEMMA FeedCloseTake ==
  ASSUME NEW s \in Sub, Close(s) \/ Take(s)
  PROVE  Feed!Next
<1>1. UNCHANGED <<pushed, snapshot, event, targets>>
  BY DEF Close, Take, ringVars, pubVars
<1>2. Feed!Leave(s) \/ Feed!Read(s)
  BY <1>1 DEF Close, Take, Feed!Leave, Feed!Read
<1> QED BY <1>2 DEF Feed!Next

\* An empty bus starts as the promise does.
LEMMA FeedStart == BusInit => Feed!Init /\ FeedInv
<1>1. BusInit => Feed!Init
  BY DEF BusInit, Feed!Init
<1> QED BY <1>1, BusInitInv DEF BusInit, FeedInv

\* Every step of the bus is a step of the promise, or not seen.
LEMMA FeedKept ==
  ASSUME FeedInv, [BusNext]_busVars
  PROVE  FeedInv' /\ [Feed!Next]_(Feed!vars)
<1>1. BusInv
  BY DEF FeedInv
<1>2. FeedInv'
  <2>1. (\E p \in Publisher : Publish(p)) \/ UNCHANGED <<ringCount, pushed>>
    BY DEF BusNext, Deliver, Subscribe, Close, Take, busVars, ringVars
  <2> QED BY <1>1, <2>1, BusKeeps, CountKept DEF FeedInv
<1>3. [Feed!Next]_(Feed!vars)
  <2>1. ASSUME NEW p \in Publisher, Publish(p) \/ \E s \in Sub : Deliver(p, s) PROVE Feed!Next
    BY <1>1, <2>1, FeedPublish, FeedDeliver
  <2>2. ASSUME NEW s \in Sub, (\E last \in 0..pushed : Subscribe(s, last)) \/ Close(s) \/ Take(s)
        PROVE  Feed!Next
    BY <2>2, FeedSubscribe, FeedCloseTake
  <2>3. CASE UNCHANGED busVars
    BY <2>3, FeedStutters DEF busVars, ringVars, pubVars, subVars
  <2> QED BY <2>1, <2>2, <2>3 DEF BusNext
<1> QED BY <1>2, <1>3

\* The bus implements FeedPromise, for every number of publishers and
\* subscriptions and every size of the ring and of the channels.
THEOREM FeedsArePromised == BusSpec => FeedsKeepPromise
  BY FeedStart, FeedKept, PTL DEF BusSpec, FeedsKeepPromise, Feed!Spec

\* The stream takes the steps of the bus, and no others touch it.
LEMMA StreamIsBus ==
  ASSUME cursor \in 0..pushed, [StreamNext]_streamAllVars
  PROVE  [BusNext]_busVars
<1>1. ASSUME NEW p \in Publisher, Publishing(p) \/ Delivering(p) PROVE BusNext
  BY <1>1 DEF Publishing, Delivering, BusNext
<1>2. ASSUME NEW s \in Sub, Serving(s) PROVE [BusNext]_busVars
  BY <1>2 DEF Serving, Replay, WriteEvent, LeaveLoop, StopForward, Release, BusNext
<1>3. ASSUME NEW s \in Sub, Forwarding(s) PROVE [BusNext]_busVars
  BY <1>3 DEF Forwarding, Receive, Send, EndForward, BusNext
<1>4. ASSUME NEW s \in Sub, Environment(s) PROVE [BusNext]_busVars
  BY <1>4 DEF Environment, Connect, Break, EndRequest, BusNext
<1>5. CASE UNCHANGED streamAllVars
  BY <1>5 DEF streamAllVars
<1> QED BY <1>1, <1>2, <1>3, <1>4, <1>5 DEF StreamNext

\* What Serve may write next has been published.
LEMMA WritablePast ==
  ASSUME StreamInv, NEW s \in Sub, serve[s] = "run"
  PROVE  /\ \A k \in 1..Len(snapshot[s]) : snapshot[s][k] \in 0..pushed
         /\ relay[s] # <<>> => Head(relay[s]) \in 0..pushed
<1>1. /\ BusTypeOK /\ JoinedPast /\ DeliveredOnce /\ SnapshotMeetsLive /\ Linked(s) /\ Piped(s)
      /\ relay[s] \in Seq(Nat)
  BY DEF StreamInv, StreamTypes, BusInv, Served
<1>2. /\ snapshot[s] \in Seq(Nat) /\ delivered[s] \in Seq(Nat) /\ queue[s] \in Seq(Nat)
      /\ joined[s] \in Nat /\ pushed \in Nat /\ joined[s] <= pushed
  BY <1>1 DEF BusTypeOK, JoinedPast
<1>3. ASSUME NEW k \in 1..Len(snapshot[s]) PROVE snapshot[s][k] \in 0..pushed
  <2>1. /\ Len(snapshot[s]) \in Nat /\ snapshot[s][k] \in Nat
        /\ snapshot[s][k] = joined[s] - Len(snapshot[s]) + k
    BY <1>1, <1>2 DEF SnapshotMeetsLive
  <2> QED BY <1>2, <2>1
<1>4. ASSUME relay[s] # <<>> PROVE Head(relay[s]) \in 0..pushed
  <2>1. /\ Len(relay[s]) \in Nat /\ Len(relay[s]) >= 1 /\ Head(relay[s]) = relay[s][1]
        /\ Len(queue[s]) \in Nat /\ Len(delivered[s]) \in Nat
    BY <1>1, <1>2, <1>4
  <2>2. ~stopped[s]
    BY <1>1 DEF Linked
  <2>3. /\ UnderWay(s) <= Len(delivered[s]) /\ UnderWay(s) \in Nat /\ UnderWay(s) >= 1
        /\ relay[s][1] = delivered[s][Passed(s) + 1]
    <3>1. UnderWay(s) \in Nat /\ UnderWay(s) >= 1
      <4>1. /\ UnderWay(s) \in Nat
            /\ UnderWay(s) = Len(relay[s]) + (IF forward[s] = "send" THEN 1 ELSE 0) + Len(queue[s])
        BY UnderWayTyped DEF StreamInv, BusInv
      <4>2. (IF forward[s] = "send" THEN 1 ELSE 0) \in Nat
        OBVIOUS
      <4>3. \A a, b, c \in Nat : a >= 1 => a + b + c >= 1
        OBVIOUS
      <4> QED BY <2>1, <4>1, <4>2, <4>3
    <3>2. /\ UnderWay(s) <= Len(delivered[s])
          /\ \A k \in 1..Len(relay[s]) : relay[s][k] = delivered[s][Passed(s) + k]
      BY <1>1, <2>2 DEF Piped
    <3>3. 1 \in 1..Len(relay[s])
      BY <2>1
    <3> QED BY <3>1, <3>2, <3>3
  <2>4. Passed(s) + 1 \in 1..Len(delivered[s])
    BY <2>1, <2>3 DEF Passed
  <2>5. delivered[s][Passed(s) + 1] \in (joined[s] + 1)..pushed
    BY <1>1, <1>2, <2>4 DEF DeliveredOnce
  <2>6. (joined[s] + 1)..pushed \subseteq 0..pushed
    BY <1>2
  <2> QED BY <2>1, <2>3, <2>5, <2>6
<1> QED BY <1>3, <1>4

\* The client never asks for an event that was not published.
LEMMA CursorKept ==
  ASSUME StreamInv, cursor \in 0..pushed, [StreamNext]_streamAllVars
  PROVE  (cursor \in 0..pushed)'
<1>1. pushed \in Nat
  BY DEF StreamInv, BusInv, BusTypeOK
<1>2. CASE UNCHANGED cursor
  <2>1. pushed' \in {pushed, pushed + 1}
    <3>1. [BusNext]_busVars
      BY StreamIsBus
    <3> QED BY <3>1 DEF BusNext, Publish, Deliver, Subscribe, Close, Take, busVars, ringVars
  <2> QED BY <1>1, <1>2, <2>1
<1>3. ASSUME NEW s \in Sub, Replay(s) PROVE (cursor \in 0..pushed)'
  <2>1. /\ serve[s] = "run" /\ replayed[s] < Len(snapshot[s]) /\ pushed' = pushed
        /\ cursor' \in {cursor, snapshot[s][replayed[s] + 1]}
    BY <1>3 DEF Replay, Write, busVars, ringVars
  <2>2. replayed[s] + 1 \in 1..Len(snapshot[s])
    <3>1. replayed[s] \in Nat /\ snapshot[s] \in Seq(Nat)
      BY DEF StreamInv, StreamTypes, BusInv, BusTypeOK
    <3> QED BY <2>1, <3>1
  <2> QED BY <2>1, <2>2, WritablePast
<1>4. ASSUME NEW s \in Sub, WriteEvent(s) PROVE (cursor \in 0..pushed)'
  <2>1. /\ serve[s] = "run" /\ relay[s] # <<>> /\ pushed' = pushed
        /\ cursor' \in {cursor, Head(relay[s])}
    BY <1>4 DEF WriteEvent, InLoop, Write, busVars, ringVars
  <2> QED BY <2>1, WritablePast
<1>5. UNCHANGED cursor \/ \E s \in Sub : Replay(s) \/ WriteEvent(s)
  <2>1. ASSUME NEW p \in Publisher, Publishing(p) \/ Delivering(p) PROVE UNCHANGED cursor
    BY <2>1 DEF Publishing, Delivering, streamVars
  <2>2. ASSUME NEW s \in Sub, Serving(s) PROVE UNCHANGED cursor \/ Replay(s) \/ WriteEvent(s)
    BY <2>2 DEF Serving, LeaveLoop, StopForward, Release
  <2>3. ASSUME NEW s \in Sub, Forwarding(s) \/ Environment(s) PROVE UNCHANGED cursor
    BY <2>3 DEF Forwarding, Receive, Send, EndForward, Environment, Connect, Break, EndRequest, streamVars
  <2> QED BY <2>1, <2>2, <2>3 DEF StreamNext, streamAllVars, streamVars
<1> QED BY <1>2, <1>3, <1>4, <1>5

\* The same under the stream, whose clients ask for what they saw last.
THEOREM StreamsArePromised == StreamSpec => FeedsKeepPromise
<1>1. StreamInit => BusInit /\ cursor \in 0..pushed
  BY DEF StreamInit, BusInit, NoEventId
<1> QED BY <1>1, StreamInvariance, StreamIsBus, CursorKept, FeedStart, FeedKept, PTL
        DEF StreamSpec, FeedsKeepPromise, Feed!Spec

-----------------------------------------------------------------------------
(* What fits where: the channels and the ring are never beyond their size, *)
(* and what is under way are events.                                       *)

BusBounds ==
  /\ pushed \in 0..MaxEvents
  /\ \A p \in Publisher : targets[p] # {} => event[p] \in 1..MaxEvents
  /\ \A s \in Sub : queue[s] \in Seq(1..MaxEvents) /\ Len(queue[s]) <= QueueSize /\ Len(snapshot[s]) <= RingSize

StreamBounds ==
  /\ \A s \in Sub :
       /\ replayed[s] <= Len(snapshot[s])
       /\ held[s] \in 0..MaxEvents /\ (forward[s] = "send" => held[s] \in 1..MaxEvents)
       /\ relay[s] \in Seq(1..MaxEvents) /\ Len(relay[s]) <= RelaySize
       /\ seen[s] \in Seq(Wanted)
  /\ cursor \in {NoEventId} \cup Wanted

LEMMA BusBoundsInit == BusInit => BusBounds
  BY BusAssumption DEF BusInit, BusBounds

LEMMA PublishFits == ASSUME BusInv, BusBounds, NEW p \in Publisher, Publish(p) PROVE BusBounds'
<1>1. pushed < MaxEvents /\ pushed' = pushed + 1 /\ UNCHANGED <<queue, snapshot>>
  BY DEF Publish, subVars
<1>2. pushed' \in 1..MaxEvents
  BY <1>1, BusAssumption DEF BusBounds
<1>3. ASSUME NEW q \in Publisher, targets'[q] # {} PROVE event'[q] \in 1..MaxEvents
  <2>1. CASE q = p
    <3>1. event'[p] = pushed'
      BY <1>1 DEF Publish, BusInv, BusTypeOK
    <3> QED BY <1>2, <2>1, <3>1
  <2>2. CASE q # p
    <3>1. event'[q] = event[q] /\ targets'[q] = targets[q]
      BY <2>2 DEF Publish, BusInv, BusTypeOK
    <3> QED BY <1>3, <3>1 DEF BusBounds
  <2> QED BY <2>1, <2>2
<1> QED BY <1>1, <1>2, <1>3 DEF BusBounds

LEMMA DeliverFits == ASSUME BusInv, BusBounds, NEW p \in Publisher, NEW s \in Sub, Deliver(p, s) PROVE BusBounds'
<1>1. UNCHANGED <<pushed, event, snapshot>> /\ targets[p] # {}
  BY DEF Deliver, ringVars
<1>2. event[p] \in 1..MaxEvents
  BY <1>1 DEF BusBounds
<1>3. ASSUME NEW q \in Publisher, targets'[q] # {} PROVE event'[q] \in 1..MaxEvents
  <2>1. targets[q] # {}
    BY <1>1, <1>3 DEF Deliver, BusInv, BusTypeOK
  <2> QED BY <1>1, <2>1 DEF BusBounds
<1>4. CASE UNCHANGED queue
  BY <1>1, <1>3, <1>4 DEF BusBounds
<1>5. CASE Len(queue[s]) < QueueSize /\ queue' = [queue EXCEPT ![s] = Append(@, event[p])]
  <2> DEFINE fuller == Append(queue[s], event[p])
  <2>1. queue[s] \in Seq(1..MaxEvents)
    BY DEF BusBounds
  <2>2. fuller \in Seq(1..MaxEvents) /\ Len(fuller) <= QueueSize
    BY <1>2, <1>5, <2>1, BusAssumption
  <2>3. \A t \in Sub : queue'[t] = IF t = s THEN fuller ELSE queue[t]
    BY <1>5 DEF BusInv, BusTypeOK
  <2> HIDE DEF fuller
  <2> QED BY <1>1, <1>3, <2>2, <2>3 DEF BusBounds
<1> QED BY <1>4, <1>5 DEF Deliver

LEMMA SubscribeFits ==
  ASSUME BusInv, BusBounds, NEW s \in Sub, NEW last \in Nat, Subscribe(s, last)
  PROVE  BusBounds'
<1>1. UNCHANGED <<pushed, event, targets, queue>> /\ snapshot' = [snapshot EXCEPT ![s] = SnapshotSince(last)]
  BY DEF Subscribe, ringVars, pubVars
<1>2. Len(SnapshotSince(last)) <= RingSize
  BY SnapshotIsSuffix DEF BusInv
<1>3. \A t \in Sub : snapshot'[t] = IF t = s THEN SnapshotSince(last) ELSE snapshot[t]
  BY <1>1 DEF BusInv, BusTypeOK
<1> QED BY <1>1, <1>2, <1>3 DEF BusBounds

LEMMA TakeFits == ASSUME BusInv, BusBounds, NEW s \in Sub, Take(s) PROVE BusBounds'
<1>1. UNCHANGED <<pushed, event, targets, snapshot>> /\ queue[s] # <<>> /\ queue' = [queue EXCEPT ![s] = Tail(@)]
  BY DEF Take, ringVars, pubVars
<1>2. queue[s] \in Seq(1..MaxEvents) /\ Len(queue[s]) <= QueueSize
  BY DEF BusBounds
<1>3. Tail(queue[s]) \in Seq(1..MaxEvents) /\ Len(Tail(queue[s])) <= QueueSize
  <2>1. \A S : \A q \in Seq(S) : q # <<>> => Tail(q) \in Seq(S) /\ Len(Tail(q)) <= Len(q) /\ Len(Tail(q)) \in Nat
    OBVIOUS
  <2>2. Len(queue[s]) \in Nat
    BY <1>2
  <2>3. Tail(queue[s]) \in Seq(1..MaxEvents) /\ Len(Tail(queue[s])) <= Len(queue[s]) /\ Len(Tail(queue[s])) \in Nat
    BY <1>1, <1>2, <2>1
  <2> QED BY <1>2, <2>2, <2>3, BusAssumption
<1>4. \A t \in Sub : queue'[t] = IF t = s THEN Tail(queue[s]) ELSE queue[t]
  BY <1>1 DEF BusInv, BusTypeOK
<1> QED BY <1>1, <1>3, <1>4 DEF BusBounds

LEMMA IdleFits ==
  ASSUME BusBounds, (UNCHANGED busVars) \/ \E s \in Sub : Close(s)
  PROVE  BusBounds'
  BY DEF busVars, ringVars, pubVars, subVars, Close, BusBounds

LEMMA BusFits == ASSUME BusInv, BusBounds, [BusNext]_busVars PROVE BusBounds'
<1>1. BusTypeOK
  BY DEF BusInv
<1>2. \A last \in 0..pushed : last \in Nat
  BY <1>1 DEF BusTypeOK
<1> QED BY <1>2, PublishFits, DeliverFits, SubscribeFits, TakeFits, IdleFits DEF BusNext

\* What Serve writes is what the client asked for.
LEMMA WriteFits ==
  ASSUME StreamTypes, StreamBounds, NEW s \in Sub, NEW e, Write(s, e)
  PROVE  (\A t \in Sub : seen'[t] \in Seq(Wanted)) /\ cursor' \in {NoEventId} \cup Wanted
<1>1. CASE UNCHANGED <<seen, cursor>>
  BY <1>1 DEF StreamBounds
<1>2. CASE e \in Wanted /\ seen' = [seen EXCEPT ![s] = Append(@, e)] /\ cursor' = e
  <2>1. Append(seen[s], e) \in Seq(Wanted)
    BY <1>2 DEF StreamBounds
  <2>2. \A t \in Sub : seen'[t] = IF t = s THEN Append(seen[s], e) ELSE seen[t]
    BY <1>2 DEF StreamTypes
  <2> QED BY <1>2, <2>1, <2>2 DEF StreamBounds
<1> QED BY <1>1, <1>2 DEF Write

LEMMA ServingFits ==
  ASSUME StreamInv, BusBounds, StreamBounds, NEW s \in Sub, Serving(s)
  PROVE  BusBounds' /\ StreamBounds'
<1>0. StreamTypes /\ BusTypeOK
  BY DEF StreamInv, BusInv
<1>1. UNCHANGED busVars \/ Close(s)
  BY DEF Serving, Replay, WriteEvent, LeaveLoop, StopForward, Release
<1>2. BusBounds' /\ UNCHANGED snapshot
  BY <1>1, IdleFits DEF busVars, subVars, Close
<1>3. CASE Replay(s)
  <2>1. (\A t \in Sub : seen'[t] \in Seq(Wanted)) /\ cursor' \in {NoEventId} \cup Wanted
    BY <1>0, <1>3, WriteFits DEF Replay
  <2>2. \A t \in Sub : replayed'[t] <= Len(snapshot[t])
    <3>1. replayed[s] < Len(snapshot[s]) /\ replayed' = [replayed EXCEPT ![s] = @ + 1]
      BY <1>3 DEF Replay
    <3>2. replayed[s] \in Nat /\ Len(snapshot[s]) \in Nat
      BY <1>0 DEF StreamTypes, BusTypeOK
    <3>3. replayed[s] + 1 <= Len(snapshot[s])
      BY <3>1, <3>2
    <3>4. \A t \in Sub : replayed'[t] = IF t = s THEN replayed[s] + 1 ELSE replayed[t]
      BY <1>0, <3>1 DEF StreamTypes
    <3> QED BY <3>3, <3>4 DEF StreamBounds
  <2> QED BY <1>2, <1>3, <2>1, <2>2 DEF Replay, StreamBounds
<1>4. CASE WriteEvent(s)
  <2>1. (\A t \in Sub : seen'[t] \in Seq(Wanted)) /\ cursor' \in {NoEventId} \cup Wanted
    BY <1>0, <1>4, WriteFits DEF WriteEvent
  <2>2. Tail(relay[s]) \in Seq(1..MaxEvents) /\ Len(Tail(relay[s])) <= RelaySize
    <3>1. \A S : \A q \in Seq(S) : q # <<>> => Tail(q) \in Seq(S) /\ Len(Tail(q)) <= Len(q) /\ Len(Tail(q)) \in Nat
      OBVIOUS
    <3>2. relay[s] # <<>> /\ relay[s] \in Seq(1..MaxEvents) /\ Len(relay[s]) <= RelaySize
      BY <1>4 DEF WriteEvent, StreamBounds
    <3>3. Tail(relay[s]) \in Seq(1..MaxEvents) /\ Len(Tail(relay[s])) <= Len(relay[s]) /\ Len(Tail(relay[s])) \in Nat
      BY <3>1, <3>2
    <3>4. Len(relay[s]) \in Nat
      BY <3>2
    <3> QED BY <3>2, <3>3, <3>4, StreamAssumption
  <2>3. \A t \in Sub : relay'[t] = IF t = s THEN Tail(relay[s]) ELSE relay[t]
    BY <1>0, <1>4 DEF WriteEvent, StreamTypes
  <2> QED BY <1>2, <1>4, <2>1, <2>2, <2>3 DEF WriteEvent, StreamBounds
<1>5. CASE LeaveLoop(s) \/ StopForward(s) \/ Release(s)
  BY <1>2, <1>5 DEF LeaveLoop, StopForward, Release, StreamBounds
<1> QED BY <1>3, <1>4, <1>5 DEF Serving

LEMMA ForwardingFits ==
  ASSUME StreamInv, BusBounds, StreamBounds, NEW s \in Sub, Forwarding(s)
  PROVE  BusBounds' /\ StreamBounds'
<1>0. StreamTypes /\ BusTypeOK /\ BusInv
  BY DEF StreamInv, BusInv
<1>1. UNCHANGED snapshot /\ BusBounds'
  BY <1>0, TakeFits, IdleFits DEF Forwarding, Receive, Send, EndForward, Take, busVars, subVars
<1>2. CASE Receive(s)
  <2>1. Head(queue[s]) \in 1..MaxEvents
    <3>1. \A S : \A q \in Seq(S) : q # <<>> => Head(q) \in S
      OBVIOUS
    <3> QED BY <1>2, <3>1 DEF Receive, Take, BusBounds
  <2>2. \A t \in Sub : held'[t] = (IF t = s THEN Head(queue[s]) ELSE held[t]) /\ (t # s => forward'[t] = forward[t])
    BY <1>0, <1>2 DEF Receive, StreamTypes
  <2> QED BY <1>1, <1>2, <2>1, <2>2 DEF Receive, StreamBounds
<1>3. CASE Send(s)
  <2>1. Append(relay[s], held[s]) \in Seq(1..MaxEvents) /\ Len(Append(relay[s], held[s])) <= RelaySize
    <3>1. relay[s] \in Seq(1..MaxEvents) /\ held[s] \in 1..MaxEvents /\ Len(relay[s]) < RelaySize
      BY <1>3 DEF Send, StreamBounds
    <3> QED BY <3>1, StreamAssumption
  <2>2. \A t \in Sub : /\ relay'[t] = IF t = s THEN Append(relay[s], held[s]) ELSE relay[t]
                       /\ forward'[t] = IF t = s THEN "receive" ELSE forward[t]
    BY <1>0, <1>3 DEF Send, StreamTypes
  <2> QED BY <1>1, <1>3, <2>1, <2>2 DEF Send, StreamBounds
<1>4. CASE EndForward(s)
  <2>1. \A t \in Sub : forward'[t] = IF t = s THEN "ended" ELSE forward[t]
    BY <1>0, <1>4 DEF EndForward, StreamTypes
  <2> QED BY <1>1, <1>4, <2>1 DEF EndForward, StreamBounds
<1> QED BY <1>2, <1>3, <1>4 DEF Forwarding

LEMMA EnvironmentFits ==
  ASSUME StreamInv, BusBounds, StreamBounds, NEW s \in Sub, Environment(s)
  PROVE  BusBounds' /\ StreamBounds'
<1>0. StreamTypes /\ BusTypeOK /\ BusInv
  BY DEF StreamInv, BusInv
<1>1. CASE Connect(s)
  <2>1. cursor \in Nat /\ Subscribe(s, cursor)
    BY <1>0, <1>1 DEF Connect, StreamTypes
  <2>2. BusBounds'
    BY <1>0, <2>1, SubscribeFits
  <2>3. replayed[s] = 0
    BY <1>1 DEF Connect, StreamInv, Served, Linked
  <2>4. \A t \in Sub : t # s => snapshot'[t] = snapshot[t] /\ forward'[t] = forward[t]
    BY <1>0, <1>1, <2>1 DEF Connect, Subscribe, StreamTypes, BusTypeOK
  <2>5. forward'[s] = "receive" /\ Len(snapshot'[s]) \in Nat
    <3>1. SnapshotSince(cursor) \in Seq(Nat)
      BY <1>0, <2>1, SnapshotIsSuffix DEF BusInv
    <3>2. snapshot'[s] = SnapshotSince(cursor)
      BY <1>0, <2>1 DEF Subscribe, BusTypeOK
    <3> QED BY <1>0, <1>1, <3>1, <3>2 DEF Connect, StreamTypes
  <2>6. UNCHANGED <<replayed, held, relay, cursor, seen>>
    BY <1>1 DEF Connect
  <2>7. ASSUME NEW t \in Sub
        PROVE replayed[t] <= Len(snapshot'[t]) /\ (forward'[t] = "send" => held[t] \in 1..MaxEvents)
    BY <2>3, <2>4, <2>5 DEF StreamBounds
  <2> QED BY <2>2, <2>6, <2>7 DEF StreamBounds
<1>2. CASE Break(s) \/ EndRequest(s)
  <2>1. BusBounds' /\ UNCHANGED snapshot
    BY <1>2, IdleFits DEF Break, EndRequest, Close, busVars, subVars
  <2> QED BY <1>2, <2>1 DEF Break, EndRequest, streamVars, StreamBounds
<1> QED BY <1>1, <1>2 DEF Environment

LEMMA StreamFits ==
  ASSUME StreamInv, BusBounds, StreamBounds, [StreamNext]_streamAllVars
  PROVE  BusBounds' /\ StreamBounds'
<1>1. CASE \E p \in Publisher : Publishing(p) \/ Delivering(p)
  <2>1. UNCHANGED <<streamVars, snapshot>>
    BY <1>1 DEF Publishing, Delivering, Publish, Deliver, subVars
  <2>2. BusBounds'
    BY <1>1, PublishFits, DeliverFits DEF Publishing, Delivering, StreamInv
  <2> QED BY <2>1, <2>2 DEF streamVars, StreamBounds
<1>2. CASE UNCHANGED streamAllVars
  BY <1>2, IdleFits DEF streamAllVars, streamVars, busVars, subVars, StreamBounds
<1> QED BY <1>1, <1>2, ServingFits, ForwardingFits, EnvironmentFits DEF StreamNext

LEMMA StreamBoundsInit == StreamInit => BusBounds /\ StreamBounds
<1> SUFFICES ASSUME StreamInit PROVE BusBounds /\ StreamBounds
  OBVIOUS
<1>1. BusBounds
  BY BusBoundsInit DEF StreamInit
<1>2. \A s \in Sub : /\ replayed[s] = 0 /\ held[s] = 0 /\ forward[s] = "none"
                     /\ relay[s] = <<>> /\ seen[s] = <<>> /\ snapshot[s] = <<>>
  BY DEF StreamInit, BusInit, NoEventId
<1> QED BY <1>1, <1>2, BusAssumption, StreamAssumption DEF StreamInit, StreamBounds

LEMMA StreamIsTyped == BusTypeOK /\ StreamTypes /\ BusBounds /\ StreamBounds => StreamTypeOK
<1> SUFFICES ASSUME BusTypeOK, StreamTypes, BusBounds, StreamBounds PROVE StreamTypeOK
  OBVIOUS
<1>1. ASSUME NEW s \in Sub PROVE replayed[s] \in 0..RingSize
  <2>1. /\ replayed[s] \in Nat /\ Len(snapshot[s]) \in Nat
        /\ replayed[s] <= Len(snapshot[s]) /\ Len(snapshot[s]) <= RingSize
    BY DEF BusTypeOK, StreamTypes, BusBounds, StreamBounds
  <2> QED BY <2>1, BusAssumption
<1>2. \A s \in Sub : held[s] \in 0..MaxEvents /\ relay[s] \in Seq(1..MaxEvents) /\ seen[s] \in Seq(Wanted)
  BY DEF StreamBounds
<1> QED BY <1>1, <1>2 DEF StreamTypeOK, StreamTypes, BusBounds, StreamBounds

\* The bus's subscriptions, their channels and their connections hold what
\* they can: no ring and no channel ever holds more than its size.
THEOREM StreamTypeCorrect == StreamSpec => []StreamTypeOK
<1>1. StreamInv /\ BusBounds /\ StreamBounds => StreamTypeOK
  BY StreamIsTyped DEF StreamInv, BusInv
<1> QED BY <1>1, StreamInvariance, StreamBoundsInit, StreamFits, PTL DEF StreamSpec

-----------------------------------------------------------------------------
(* The store.  StoreInv is inductive: events reach the files in the order  *)
(* of their numbers, the write of a run comes right after that of its      *)
(* message, and a run that is not behind agrees with its messages in the   *)
(* memory and in what would be loaded now.                                 *)

\* What is kept are messages, runs and approvals of events.
Messages == {Message(n, e) : n \in Nat, e \in Envelopes}
RunRecords == {Run(n, e) : n \in Nat, e \in Envelopes}
Approvals == {Approval(e) : e \in Envelopes}
Records == Messages \cup RunRecords \cup Approvals
RecordsOf(k) == {x \in Records : x.kind = k}
RunKeys == {RunOf(n, e) : n \in Nat, e \in Envelopes}

LineState == {"whole", "bare", "torn", "spoilt"}
Lines(k) == [item : RecordsOf(k), state : LineState]

StoreTypes ==
  /\ count \in Nat
  /\ channel \in Seq(Nat \X Envelopes)
  /\ mem = [k \in RecordKind |-> mem[k]] /\ \A k \in RecordKind : mem[k] \subseteq RecordsOf(k)
  /\ disk = [k \in RecordKind |-> disk[k]] /\ \A k \in RecordKind : disk[k] \in Seq(Lines(k))
  /\ todo \in Seq(Records)

\* All of these messages, and those of the lines of this file, have lower
\* numbers than n.
Below(messages, f, n) ==
  /\ \A m \in messages : m.key < n
  /\ \A i \in DOMAIN f : f[i].item.key < n

\* Events are taken, and their messages written, in the order of their
\* numbers.
StoreOrder ==
  /\ Below(mem["message"], disk["message"], count + 1)
  /\ \A i \in DOMAIN channel :
       /\ channel[i][1] <= count /\ Below(mem["message"], disk["message"], channel[i][1])
       /\ \A j \in DOMAIN channel : i < j => channel[i][1] < channel[j][1]
  /\ \A t \in DOMAIN todo : todo[t].kind = "message" =>
       /\ todo[t].key <= count /\ Below(mem["message"], disk["message"], todo[t].key)
       /\ \A i \in DOMAIN channel : todo[t].key < channel[i][1]

\* The messages of run r that have a status, and the runs with its key.
Stated(messages, r) == {m \in messages : m.run = r /\ m.status # NoText}
Own(runs, r) == {x \in runs : x.key = r}

\* Run r has the status of the newest of them, or neither is there.
Agree(messages, runs, r) ==
  \/ Stated(messages, r) = {} /\ Own(runs, r) = {}
  \/ \E m \in Stated(messages, r) :
       /\ \A n \in Stated(messages, r) : n = m \/ n.key < m.key
       /\ Own(runs, r) # {}
       /\ \A x \in Own(runs, r) : x.status = m.status

\* What Apply has left: a run comes right after the message with its status.
TodoShape ==
  /\ ~up => todo = <<>>
  /\ \A i \in DOMAIN todo : todo[i].kind = "message" => i = 1
  /\ \A i \in DOMAIN todo : todo[i].kind = "run" =>
       /\ todo[i].status # NoText
       /\ i # 1 => i = 2 /\ todo[1].kind = "message" /\ todo[1].run = todo[2].key /\ todo[1].status = todo[2].status
  /\ todo # <<>> /\ todo[1].kind = "message" /\ todo[1].status # NoText => Len(todo) >= 2 /\ todo[2].kind = "run"

\* A run is about to be written.
RunDue(r) == todo # <<>> /\ todo[1].kind = "run" /\ todo[1].key = r

\* Its message is the newest in the memory and, on a line of its own unless
\* the run is behind, in the file.
Pending ==
  todo # <<>> /\ todo[1].kind = "run" =>
    \E m \in mem["message"] :
      /\ m.run = todo[1].key /\ m.status = todo[1].status
      /\ \A n \in mem["message"] : n = m \/ n.key < m.key
      /\ \A i \in DOMAIN disk["message"] : disk["message"][i].item = m \/ disk["message"][i].item.key < m.key
      /\ disk["message"] # <<>>
      /\ LET last == disk["message"][Len(disk["message"])]
         IN  IF last.state = "whole" THEN last.item = m ELSE todo[1].key \in behind

Followed ==
  \A r \in RunKeys \ behind :
    \/ RunDue(r)
    \/ /\ Agree(Load(disk["message"]), Load(disk["run"]), r)
       /\ up => Agree(mem["message"], mem["run"], r)

StoreInv == StoreTypes /\ StoreOrder /\ TodoShape /\ Pending /\ Followed

-----------------------------------------------------------------------------
\* What a record of each kind looks like.
LEMMA RecordForms ==
  /\ \A x \in Messages : x.kind = "message" /\ x.key \in Nat /\ x.run \in RunKeys
  /\ \A x \in RunRecords : x.kind = "run" /\ x.key \in RunKeys
  /\ \A x \in Approvals : x.kind = "approval"
BY DEF Messages, RunRecords, Approvals, Message, Run, Approval, RunKeys

LEMMA KindForms ==
  /\ RecordsOf("message") = Messages /\ RecordsOf("run") = RunRecords /\ RecordsOf("approval") = Approvals
  /\ \A x \in Records : x.kind \in RecordKind /\ x \in RecordsOf(x.kind)
<1>1. "message" # "run" /\ "message" # "approval" /\ "run" # "approval"
  OBVIOUS
<1>2. RecordsOf("message") = Messages
  BY <1>1, RecordForms DEF RecordsOf, Records
<1>3. RecordsOf("run") = RunRecords
  BY <1>1, RecordForms DEF RecordsOf, Records
<1>4. RecordsOf("approval") = Approvals
  BY <1>1, RecordForms DEF RecordsOf, Records
<1>5. \A x \in Records : x.kind \in RecordKind /\ x \in RecordsOf(x.kind)
  BY RecordForms DEF RecordsOf, Records, RecordKind
<1> QED BY <1>2, <1>3, <1>4, <1>5

LEMMA LoadIs ==
  ASSUME NEW f, NEW y
  PROVE  y \in Load(f) <=>
           \E i \in DOMAIN f :
             /\ Readable(f[i]) /\ f[i].item = y
             /\ y.kind = "message" \/ \A j \in DOMAIN f : Readable(f[j]) /\ j > i => f[j].item.key # y.key
BY DEF Load

\* What a line that is appended does to a file.
LEMMA ItemKinds ==
  ASSUME NEW k, NEW f \in Seq(Lines(k))
  PROVE  /\ Len(f) \in Nat /\ DOMAIN f = 1..Len(f)
         /\ \A i \in DOMAIN f : f[i] \in Lines(k) /\ f[i].item \in RecordsOf(k) /\ f[i].item.kind = k
<1>1. Len(f) \in Nat /\ DOMAIN f = 1..Len(f)
  BY LenProperties
<1>2. \A i \in DOMAIN f : f[i] \in Lines(k)
  BY <1>1, ElementOfSeq
<1> QED BY <1>1, <1>2 DEF Lines, RecordsOf

LEMMA GluedLine ==
  ASSUME NEW k, NEW f \in Seq(Lines(k)), NEW x \in RecordsOf(k), NEW state \in {"whole", "bare", "torn"},
         Open(f), NEW g, g = AppendLine(f, x, state)
  PROVE  /\ g \in Seq(Lines(k)) /\ Len(g) = Len(f) /\ DOMAIN g = DOMAIN f /\ Len(f) \in DOMAIN f
         /\ \A i \in DOMAIN f : g[i].item = f[i].item /\ (i # Len(f) => g[i] = f[i])
         /\ g[Len(f)].state \in {"torn", "spoilt"}
<1>1. Len(f) \in Nat /\ DOMAIN f = 1..Len(f)
  BY LenProperties
<1>2. f # <<>> /\ Len(f) \in Nat \ {0}
  BY <1>1, EmptySeq DEF Open
<1> DEFINE s == IF state = "whole" THEN "spoilt" ELSE "torn"
<1>3. g = [f EXCEPT ![Len(f)] = [@ EXCEPT !.state = s]]
  BY DEF AppendLine
<1>4. f[Len(f)] \in Lines(k)
  BY <1>1, <1>2, ElementOfSeq
<1>5. s \in {"spoilt", "torn"}
  OBVIOUS
<1> HIDE DEF s
<1> DEFINE l == [f[Len(f)] EXCEPT !.state = s]
<1>6. l \in Lines(k) /\ l.item = f[Len(f)].item /\ l.state = s
  BY <1>4, <1>5 DEF Lines, LineState
<1> HIDE DEF l
<1>7. g = [f EXCEPT ![Len(f)] = l]
  BY <1>3 DEF l
<1>8. g \in Seq(Lines(k)) /\ Len(g) = Len(f) /\ DOMAIN g = 1..Len(f)
  BY <1>1, <1>2, <1>6, <1>7, ExceptSeq
<1>9. \A i \in DOMAIN f : g[i].item = f[i].item /\ (i # Len(f) => g[i] = f[i])
  BY <1>1, <1>6, <1>7
<1>10. g[Len(f)].state \in {"torn", "spoilt"}
  BY <1>1, <1>2, <1>5, <1>6, <1>7
<1> QED BY <1>1, <1>2, <1>8, <1>9, <1>10

LEMMA Grown ==
  ASSUME NEW S, NEW f \in Seq(S), NEW l \in S
  PROVE  LET g == Append(f, l)
         IN  /\ g \in Seq(S) /\ Len(g) \in Nat
             /\ DOMAIN g = DOMAIN f \cup {Len(g)} /\ Len(g) \notin DOMAIN f
             /\ \A i \in DOMAIN f : g[i] = f[i]
             /\ g[Len(g)] = l
<1>1. Len(f) \in Nat /\ DOMAIN f = 1..Len(f)
  BY LenProperties
<1> DEFINE g == Append(f, l)
<1>4. g \in Seq(S) /\ Len(g) = Len(f) + 1 /\ g[Len(f) + 1] = l /\ \A i \in 1..Len(f) : g[i] = f[i]
  BY <1>1, AppendProperties
<1>5. DOMAIN g = 1..(Len(f) + 1)
  BY <1>4, LenProperties
<1>6. 1..(Len(f) + 1) = (1..Len(f)) \cup {Len(f) + 1} /\ Len(f) + 1 \in Nat /\ \A i \in 1..Len(f) : i < Len(f) + 1
  BY <1>1
<1> QED BY <1>1, <1>4, <1>5, <1>6

LEMMA NewLine ==
  ASSUME NEW k, NEW x \in RecordsOf(k), NEW state \in {"whole", "bare", "torn"}
  PROVE  Line(x, state) \in Lines(k) /\ Line(x, state).item = x /\ Line(x, state).state = state
BY DEF Line, Lines, LineState

\* A write about something else leaves what is loaded of run r alone.
LEMMA MessagesUntouched ==
  ASSUME NEW f \in Seq(Lines("message")), NEW x \in Messages, NEW state \in {"whole", "bare", "torn"},
         NEW r, r \notin Touched(x) \cup Spoilt(f)
  PROVE  Stated(Load(AppendLine(f, x, state)), r) = Stated(Load(f), r)
<1> DEFINE g == AppendLine(f, x, state)
<1>0. /\ x \in RecordsOf("message") /\ x.run # r
      /\ \A i \in DOMAIN f : f[i].item \in Messages /\ f[i].item.kind = "message"
      /\ \A y \in Messages : y.kind = "message" /\ Touched(y) = {y.run}
  <2>1. \A i \in DOMAIN f : f[i].item \in Messages
    BY KindForms, ItemKinds
  <2>2. \A y \in Messages : y.kind = "message" /\ Touched(y) = {y.run}
    BY RecordForms DEF Touched
  <2> QED BY <2>1, <2>2, KindForms
<1>1. CASE Open(f)
  <2>0. g = AppendLine(f, x, state)
    OBVIOUS
  <2> HIDE DEF g
  <2>2. /\ DOMAIN g = DOMAIN f /\ Len(f) \in DOMAIN f
        /\ \A i \in DOMAIN f : g[i].item = f[i].item /\ (i # Len(f) => g[i] = f[i])
        /\ ~Readable(g[Len(f)])
    BY SMTT(30), <1>0, <1>1, <2>0, GluedLine DEF Readable
  <2>1. f[Len(f)].item.run # r
    BY <1>0, <1>1, <2>2 DEF Spoilt
  <2>3. ASSUME NEW y, y.run = r PROVE y \in Load(g) <=> y \in Load(f)
    <3>1. y \in Load(f) <=> \E i \in DOMAIN f : Readable(f[i]) /\ f[i].item = y
      BY <1>0, LoadIs
    <3>2. y \in Load(g) <=> \E i \in DOMAIN g : Readable(g[i]) /\ g[i].item = y
      BY <1>0, <2>2, LoadIs
    <3> QED BY <2>1, <2>2, <2>3, <3>1, <3>2
  <2> QED BY <2>3 DEF Stated, g
<1>2. CASE ~Open(f)
  <2>0. g = AppendLine(f, x, state)
    OBVIOUS
  <2> HIDE DEF g
  <2>4. g = Append(f, Line(x, state))
    BY <1>2, <2>0 DEF AppendLine
  <2>1. PICK l \in Lines("message") : l.item = x /\ g = Append(f, l)
    BY <1>0, <2>4, NewLine
  <2>2. /\ Len(g) \in Nat /\ DOMAIN g = DOMAIN f \cup {Len(g)} /\ Len(g) \notin DOMAIN f
        /\ \A i \in DOMAIN f : g[i] = f[i]
        /\ g[Len(g)] = l
    BY <2>1, Grown
  <2>3. PICK n \in Nat : /\ DOMAIN g = DOMAIN f \cup {n} /\ n \notin DOMAIN f
                         /\ \A i \in DOMAIN f : g[i] = f[i]
                         /\ g[n].item = x
    BY <2>1, <2>2
  <2>5. ASSUME NEW y, y.run = r PROVE y \in Load(g) <=> y \in Load(f)
    <3>1. y \in Load(f) <=> \E i \in DOMAIN f : Readable(f[i]) /\ f[i].item = y
      BY <1>0, LoadIs
    <3>2. \A i \in DOMAIN g : g[i].item.kind = "message"
      BY <1>0, <2>3
    <3>3. y \in Load(g) <=> \E i \in DOMAIN g : Readable(g[i]) /\ g[i].item = y
      BY <3>2, LoadIs
    <3> QED BY <1>0, <2>3, <2>5, <3>1, <3>3
  <2> QED BY <2>5 DEF Stated, g
<1> QED BY <1>1, <1>2

LEMMA RunsUntouched ==
  ASSUME NEW f \in Seq(Lines("run")), NEW x \in RunRecords, NEW state \in {"whole", "bare", "torn"},
         NEW r, r \notin Touched(x) \cup Spoilt(f)
  PROVE  Own(Load(AppendLine(f, x, state)), r) = Own(Load(f), r)
<1> DEFINE g == AppendLine(f, x, state)
<1>0. /\ x \in RecordsOf("run") /\ x.key # r
      /\ \A i \in DOMAIN f : f[i].item \in RunRecords /\ f[i].item.kind = "run"
      /\ \A y \in RunRecords : y.kind = "run" /\ Touched(y) = {y.key}
  <2>1. \A i \in DOMAIN f : f[i].item \in RunRecords
    BY KindForms, ItemKinds
  <2>2. \A y \in RunRecords : y.kind = "run" /\ Touched(y) = {y.key}
    BY RecordForms DEF Touched
  <2> QED BY <2>1, <2>2, KindForms
<1>1. CASE Open(f)
  <2>0. g = AppendLine(f, x, state)
    OBVIOUS
  <2> HIDE DEF g
  <2>2. /\ DOMAIN g = DOMAIN f /\ Len(f) \in DOMAIN f
        /\ \A i \in DOMAIN f : g[i].item = f[i].item /\ (i # Len(f) => g[i] = f[i])
        /\ ~Readable(g[Len(f)])
    BY SMTT(30), <1>0, <1>1, <2>0, GluedLine DEF Readable
  <2>1. f[Len(f)].item.key # r
    BY <1>0, <1>1, <2>2 DEF Spoilt
  <2>3. ASSUME NEW y, y.key = r PROVE y \in Load(g) <=> y \in Load(f)
    <3>1. y \in Load(f) <=> \E i \in DOMAIN f : /\ Readable(f[i]) /\ f[i].item = y
                                            /\ \A j \in DOMAIN f : Readable(f[j]) /\ j > i => f[j].item.key # y.key
      BY <1>0, LoadIs
    <3>2. y \in Load(g) <=> \E i \in DOMAIN g : /\ Readable(g[i]) /\ g[i].item = y
                                            /\ \A j \in DOMAIN g : Readable(g[j]) /\ j > i => g[j].item.key # y.key
      BY <1>0, <2>2, LoadIs
    <3> QED BY <2>1, <2>2, <2>3, <3>1, <3>2
  <2> QED BY <2>3 DEF Own, g
<1>2. CASE ~Open(f)
  <2>0. g = AppendLine(f, x, state)
    OBVIOUS
  <2> HIDE DEF g
  <2>4. g = Append(f, Line(x, state))
    BY <1>2, <2>0 DEF AppendLine
  <2>1. PICK l \in Lines("run") : l.item = x /\ g = Append(f, l)
    BY <1>0, <2>4, NewLine
  <2>2. /\ Len(g) \in Nat /\ DOMAIN g = DOMAIN f \cup {Len(g)} /\ Len(g) \notin DOMAIN f
        /\ \A i \in DOMAIN f : g[i] = f[i]
        /\ g[Len(g)] = l
    BY <2>1, Grown
  <2>3. PICK n \in Nat : /\ DOMAIN g = DOMAIN f \cup {n} /\ n \notin DOMAIN f
                         /\ \A i \in DOMAIN f : g[i] = f[i]
                         /\ g[n].item = x
    BY <2>1, <2>2
  <2>5. ASSUME NEW y, y.key = r PROVE y \in Load(g) <=> y \in Load(f)
    <3>1. y \in Load(f) <=> \E i \in DOMAIN f : /\ Readable(f[i]) /\ f[i].item = y
                                            /\ \A j \in DOMAIN f : Readable(f[j]) /\ j > i => f[j].item.key # y.key
      BY <1>0, LoadIs
    <3>2. \A i \in DOMAIN g : g[i].item.kind = "run"
      BY <1>0, <2>3
    <3>3. y \in Load(g) <=> \E i \in DOMAIN g : /\ Readable(g[i]) /\ g[i].item = y
                                            /\ \A j \in DOMAIN g : Readable(g[j]) /\ j > i => g[j].item.key # y.key
      BY <3>2, LoadIs
    <3> QED BY <1>0, <2>3, <2>5, <3>1, <3>3
  <2> QED BY <2>5 DEF Own, g
<1> QED BY <1>1, <1>2

\* A whole line at the end of a file is loaded.
LEMMA MessageLoaded ==
  ASSUME NEW f \in Seq(Lines("message")), NEW x \in Messages, ~Open(f)
  PROVE  Load(AppendLine(f, x, "whole")) = Load(f) \cup {x}
<1> DEFINE g == AppendLine(f, x, "whole")
<1>0. /\ x \in RecordsOf("message") /\ x.kind = "message"
      /\ \A i \in DOMAIN f : f[i].item.kind = "message"
  BY KindForms, RecordForms, ItemKinds
<1>1. g = AppendLine(f, x, "whole")
  OBVIOUS
<1> HIDE DEF g
<1>8. g = Append(f, Line(x, "whole"))
  BY <1>1 DEF AppendLine
<1>4. PICK l \in Lines("message") : l.item = x /\ l.state = "whole" /\ g = Append(f, l)
  BY <1>0, <1>8, NewLine
<1>6. /\ Len(g) \in Nat /\ DOMAIN g = DOMAIN f \cup {Len(g)} /\ Len(g) \notin DOMAIN f
      /\ \A i \in DOMAIN f : g[i] = f[i]
      /\ g[Len(g)] = l
  BY <1>4, Grown
<1>7. \A i \in DOMAIN f : i < Len(g)
  <2>1. Len(g) = Len(f) + 1 /\ Len(f) \in Nat
    BY <1>4, AppendProperties, LenProperties
  <2> QED BY <2>1, ItemKinds
<1>2. PICK n \in Nat : /\ DOMAIN g = DOMAIN f \cup {n} /\ n \notin DOMAIN f
                       /\ \A i \in DOMAIN f : g[i] = f[i] /\ i < n
                       /\ g[n].item = x /\ g[n].state = "whole"
  BY <1>4, <1>6, <1>7
<1>3. Readable(g[n])
  BY <1>2 DEF Readable
<1>5. ASSUME NEW y PROVE y \in Load(g) <=> y \in Load(f) \/ y = x
  <2>1. y \in Load(f) <=> \E i \in DOMAIN f : Readable(f[i]) /\ f[i].item = y
    BY <1>0, LoadIs
  <2>2. \A i \in DOMAIN g : g[i].item.kind = "message"
    BY <1>0, <1>2
  <2>3. y \in Load(g) <=> \E i \in DOMAIN g : Readable(g[i]) /\ g[i].item = y
    BY <2>2, LoadIs
  <2> QED BY <1>2, <1>3, <2>1, <2>3
<1> QED BY <1>5 DEF g

LEMMA RunLoaded ==
  ASSUME NEW f \in Seq(Lines("run")), NEW x \in RunRecords, ~Open(f)
  PROVE  Own(Load(AppendLine(f, x, "whole")), x.key) = {x}
<1> DEFINE g == AppendLine(f, x, "whole")
<1>0. /\ x \in RecordsOf("run") /\ x.kind = "run"
      /\ \A i \in DOMAIN f : f[i].item.kind = "run"
  BY KindForms, RecordForms, ItemKinds
<1>1. g = AppendLine(f, x, "whole")
  OBVIOUS
<1> HIDE DEF g
<1>8. g = Append(f, Line(x, "whole"))
  BY <1>1 DEF AppendLine
<1>4. PICK l \in Lines("run") : l.item = x /\ l.state = "whole" /\ g = Append(f, l)
  BY <1>0, <1>8, NewLine
<1>6. /\ Len(g) \in Nat /\ DOMAIN g = DOMAIN f \cup {Len(g)} /\ Len(g) \notin DOMAIN f
      /\ \A i \in DOMAIN f : g[i] = f[i]
      /\ g[Len(g)] = l
  BY <1>4, Grown
<1>7. \A i \in DOMAIN f : i < Len(g)
  <2>1. Len(g) = Len(f) + 1 /\ Len(f) \in Nat
    BY <1>4, AppendProperties, LenProperties
  <2> QED BY <2>1, ItemKinds
<1>2. PICK n \in Nat : /\ DOMAIN g = DOMAIN f \cup {n} /\ n \notin DOMAIN f
                       /\ \A i \in DOMAIN f : g[i] = f[i] /\ i < n
                       /\ g[n].item = x /\ g[n].state = "whole"
  BY <1>4, <1>6, <1>7
<1>3. Readable(g[n])
  BY <1>2 DEF Readable
<1>5. ASSUME NEW y, y.key = x.key PROVE y \in Load(g) <=> y = x
  <2>1. \A i \in DOMAIN g : g[i].item.kind = "run"
    BY <1>0, <1>2
  <2>2. y \in Load(g) <=> \E i \in DOMAIN g : /\ Readable(g[i]) /\ g[i].item = y
                                          /\ \A j \in DOMAIN g : Readable(g[j]) /\ j > i => g[j].item.key # y.key
    BY <2>1, LoadIs
  <2>3. /\ \A i \in DOMAIN f : n > i
        /\ \A j \in DOMAIN g : ~(j > n)
    BY <1>2, ItemKinds
  <2> QED BY <1>2, <1>3, <1>5, <2>2, <2>3
<1> QED BY <1>5 DEF g, Own

\* A file after a write: the lines of before, and the new one.
Written(f, x, state, g) ==
  /\ g # <<>>
  /\ \A i \in DOMAIN g : g[i].item = x \/ \E j \in DOMAIN f : g[i].item = f[j].item
  /\ g[Len(g)].state = "whole" <=> state = "whole" /\ ~Open(f)
  /\ ~Open(f) => g[Len(g)].item = x

LEMMA AppendItems ==
  ASSUME NEW k, NEW f \in Seq(Lines(k)), NEW x \in RecordsOf(k), NEW state \in {"whole", "bare", "torn"}
  PROVE  AppendLine(f, x, state) \in Seq(Lines(k)) /\ Written(f, x, state, AppendLine(f, x, state))
<1> DEFINE g == AppendLine(f, x, state)
<1>0. g = AppendLine(f, x, state)
  OBVIOUS
<1> HIDE DEF g
<1>1. CASE Open(f)
  <2>1. /\ g \in Seq(Lines(k)) /\ Len(g) = Len(f) /\ DOMAIN g = DOMAIN f /\ Len(f) \in DOMAIN f
        /\ \A i \in DOMAIN f : g[i].item = f[i].item
        /\ g[Len(f)].state \in {"torn", "spoilt"}
    BY <1>0, <1>1, GluedLine
  <2>2. g # <<>>
    BY <2>1, EmptySeq, LenProperties
  <2>3. g[Len(g)].state # "whole"
    BY <2>1
  <2>4. Written(f, x, state, g)
    BY <1>1, <2>1, <2>2, <2>3 DEF Written
  <2> QED BY <1>0, <2>1, <2>4
<1>2. CASE ~Open(f)
  <2>1. g = Append(f, Line(x, state))
    BY <1>0, <1>2 DEF AppendLine
  <2>2. PICK l \in Lines(k) : l.item = x /\ l.state = state /\ g = Append(f, l)
    BY <2>1, NewLine
  <2>3. /\ g \in Seq(Lines(k)) /\ Len(g) \in Nat
        /\ DOMAIN g = DOMAIN f \cup {Len(g)} /\ Len(g) \notin DOMAIN f
        /\ \A i \in DOMAIN f : g[i] = f[i]
        /\ g[Len(g)] = l
    BY <2>2, Grown
  <2>4. g # <<>>
    BY <2>3
  <2>5. Written(f, x, state, g)
    BY <1>2, <2>2, <2>3, <2>4 DEF Written
  <2> QED BY <1>0, <2>3, <2>5
<1> QED BY <1>1, <1>2

Outcomes == {"whole", "bare", "torn", "none"}
WriteLine(x, state) == disk' = IF state = "none" THEN disk ELSE [disk EXCEPT ![x.kind] = AppendLine(@, x, state)]

LEMMA WrittenFile ==
  ASSUME StoreTypes, NEW x \in Records, NEW state \in Outcomes, WriteLine(x, state)
  PROVE  /\ disk' = [k \in RecordKind |-> disk'[k]]
         /\ \A k \in RecordKind : k # x.kind => disk'[k] = disk[k]
         /\ IF state = "none" THEN disk'[x.kind] = disk[x.kind]
            ELSE disk'[x.kind] = AppendLine(disk[x.kind], x, state)
         /\ \A k \in RecordKind : disk'[k] \in Seq(Lines(k))
<1>0. x.kind \in RecordKind /\ x \in RecordsOf(x.kind) /\ disk[x.kind] \in Seq(Lines(x.kind))
  BY KindForms DEF StoreTypes
<1>1. CASE state = "none"
  BY <1>1 DEF WriteLine, StoreTypes
<1>2. CASE state # "none"
  <2> DEFINE g == AppendLine(disk[x.kind], x, state)
  <2>1. g \in Seq(Lines(x.kind))
    BY <1>0, <1>2, AppendItems DEF Outcomes
  <2> HIDE DEF g
  <2>2. disk' = [disk EXCEPT ![x.kind] = g]
    BY <1>2 DEF WriteLine, g
  <2> QED BY <1>0, <1>2, <2>1, <2>2 DEF StoreTypes, g
<1> QED BY <1>1, <1>2

LEMMA WriteKeeps ==
  ASSUME StoreTypes, NEW x \in Records, NEW state \in Outcomes, WriteLine(x, state),
         NEW r, r \notin Touched(x), r \notin Spoilt(disk[x.kind])
  PROVE  /\ Stated(Load(disk'["message"]), r) = Stated(Load(disk["message"]), r)
         /\ Own(Load(disk'["run"]), r) = Own(Load(disk["run"]), r)
<1>0. "message" \in RecordKind /\ "run" \in RecordKind
  BY DEF RecordKind
<1>1. CASE state = "none"
  BY <1>1 DEF WriteLine
<1>2. CASE state # "none" /\ x.kind = "message"
  <2>1. x \in Messages /\ disk["message"] \in Seq(Lines("message"))
    BY <1>0, <1>2, KindForms DEF StoreTypes
  <2>2. disk'["message"] = AppendLine(disk["message"], x, state) /\ disk'["run"] = disk["run"]
    BY <1>0, <1>2, WrittenFile
  <2> QED BY <1>2, <2>1, <2>2, MessagesUntouched DEF Outcomes
<1>3. CASE state # "none" /\ x.kind = "run"
  <2>1. x \in RunRecords /\ disk["run"] \in Seq(Lines("run"))
    BY <1>0, <1>3, KindForms DEF StoreTypes
  <2>2. disk'["run"] = AppendLine(disk["run"], x, state) /\ disk'["message"] = disk["message"]
    BY <1>0, <1>3, WrittenFile
  <2> QED BY <1>3, <2>1, <2>2, RunsUntouched DEF Outcomes
<1>4. CASE x.kind # "message" /\ x.kind # "run"
  BY <1>0, <1>4, WrittenFile
<1> QED BY <1>1, <1>2, <1>3, <1>4

\* A record that is put into the memory.
LEMMA PutInMemory ==
  ASSUME StoreTypes, NEW x \in Records, mem' = [mem EXCEPT ![x.kind] = Put(@, x)]
  PROVE  /\ mem' = [k \in RecordKind |-> mem'[k]] /\ \A k \in RecordKind : mem'[k] \subseteq RecordsOf(k)
         /\ \A k \in RecordKind : k # x.kind => mem'[k] = mem[k]
         /\ x.kind = "message" => mem'["message"] = mem["message"] \cup {x}
         /\ x.kind = "run" => Own(mem'["run"], x.key) = {x}
         /\ \A r : r \notin Touched(x) => /\ Stated(mem'["message"], r) = Stated(mem["message"], r)
                                          /\ Own(mem'["run"], r) = Own(mem["run"], r)
<1>0. /\ x.kind \in RecordKind /\ x \in RecordsOf(x.kind) /\ "message" \in RecordKind /\ "run" \in RecordKind
      /\ mem[x.kind] \subseteq RecordsOf(x.kind)
      /\ \A k \in RecordKind : \A y \in RecordsOf(k) : y.kind = k
  BY KindForms DEF StoreTypes, RecordsOf, RecordKind
<1>1. mem'[x.kind] = Put(mem[x.kind], x) /\ \A k \in RecordKind : k # x.kind => mem'[k] = mem[k]
  BY <1>0 DEF StoreTypes
<1>2. Put(mem[x.kind], x) \subseteq RecordsOf(x.kind)
  BY <1>0 DEF Put
<1>3. mem' = [k \in RecordKind |-> mem'[k]] /\ \A k \in RecordKind : mem'[k] \subseteq RecordsOf(k)
  BY <1>0, <1>1, <1>2 DEF StoreTypes
<1>4. x.kind = "message" => mem'["message"] = mem["message"] \cup {x}
  BY <1>0, <1>1 DEF Put
<1>5. x.kind = "run" => \A y : y \in mem'["run"] <=> y = x \/ (y \in mem["run"] /\ y.key # x.key)
  BY <1>0, <1>1 DEF Put
<1>6. x.kind = "run" => Own(mem'["run"], x.key) = {x}
  BY <1>5 DEF Own
<1>7. ASSUME NEW r, r \notin Touched(x)
      PROVE  /\ Stated(mem'["message"], r) = Stated(mem["message"], r)
             /\ Own(mem'["run"], r) = Own(mem["run"], r)
  <2>1. CASE x.kind = "message"
    <3>1. x.run # r
      BY <1>7, <2>1 DEF Touched
    <3>2. mem'["run"] = mem["run"]
      BY <1>0, <1>1, <2>1
    <3> QED BY <1>4, <2>1, <3>1, <3>2 DEF Stated
  <2>2. CASE x.kind = "run"
    <3>1. x.key # r
      BY <1>7, <2>2 DEF Touched
    <3>2. mem'["message"] = mem["message"]
      BY <1>0, <1>1, <2>2
    <3> QED BY <1>5, <2>2, <3>1, <3>2 DEF Own
  <2>3. CASE x.kind # "message" /\ x.kind # "run"
    BY <1>0, <1>1, <2>3
  <2> QED BY <2>1, <2>2, <2>3
<1> QED BY <1>1, <1>3, <1>4, <1>6, <1>7

\* Agree looks at nothing but these.
LEMMA AgreeSame ==
  ASSUME NEW M, NEW R, NEW N, NEW S, NEW r, Stated(M, r) = Stated(N, r), Own(R, r) = Own(S, r)
  PROVE  Agree(M, R, r) <=> Agree(N, S, r)
BY DEF Agree

-----------------------------------------------------------------------------
\* What Build makes of an event.
LEMMA Joined ==
  ASSUME NEW S, NEW m \in S, NEW u \in S, NEW a \in S
  PROVE  /\ <<m>> \o <<>> \o <<>> = <<m>> /\ <<m>> \o <<>> \o <<a>> = <<m, a>>
         /\ <<m>> \o <<u>> \o <<>> = <<m, u>> /\ <<m>> \o <<u>> \o <<a>> = <<m, u, a>>
<1>1. /\ <<m>> \in Seq(S) /\ <<u>> \in Seq(S) /\ <<a>> \in Seq(S) /\ <<m, u>> \in Seq(S)
      /\ <<m, a>> \in Seq(S) /\ <<m, u, a>> \in Seq(S)
  OBVIOUS
<1>2. <<m>> \o <<>> = <<m>> /\ <<m, u>> \o <<>> = <<m, u>>
  BY <1>1, ConcatEmptySeq
<1>3. ASSUME NEW p \in S, NEW q \in S PROVE <<p>> \o <<q>> = <<p, q>>
  <2> DEFINE c == <<p>> \o <<q>>
  <2>1. <<p>> \in Seq(S) /\ <<q>> \in Seq(S) /\ <<p, q>> \in Seq(S)
    OBVIOUS
  <2>2. c \in Seq(S) /\ Len(c) = 2 /\ c[1] = p /\ c[2] = q
    BY <2>1, ConcatProperties
  <2> HIDE DEF c
  <2> DEFINE d == <<p, q>>
  <2>3. d \in Seq(S) /\ Len(d) = 2 /\ d[1] = p /\ d[2] = q
    BY <2>1
  <2> HIDE DEF d
  <2>4. c = d
    BY <2>2, <2>3, SeqEqual
  <2> QED BY <2>4 DEF c, d
<1>4. <<m, u>> \o <<a>> = <<m, u, a>>
  <2> DEFINE c == <<m, u>> \o <<a>>
  <2>1. c \in Seq(S) /\ Len(c) = 3 /\ c[1] = m /\ c[2] = u /\ c[3] = a
    BY <1>1, ConcatProperties
  <2> HIDE DEF c
  <2> DEFINE d == <<m, u, a>>
  <2>3. d \in Seq(S) /\ Len(d) = 3 /\ d[1] = m /\ d[2] = u /\ d[3] = a
    BY <1>1
  <2> HIDE DEF d
  <2>4. c = d
    BY <2>1, <2>3, SeqEqual
  <2> QED BY <2>4 DEF c, d
<1> QED BY <1>2, <1>3, <1>4

LEMMA BuildForms ==
  ASSUME NEW n \in Nat, NEW e \in Envelopes, NEW t, t = Build(n, e)
  PROVE  /\ t \in Seq(Records)
         /\ \A i \in DOMAIN t : t[i].kind = "message" => i = 1 /\ t[i].key = n
         /\ \A i \in DOMAIN t : t[i].kind = "run" =>
              /\ i = 2 /\ t[2].status # NoText
              /\ t[1].kind = "message" /\ t[1].run = t[2].key /\ t[1].status = t[2].status
         /\ t # <<>> => t[1].kind = "message"
         /\ t # <<>> /\ t[1].status # NoText => Len(t) >= 2 /\ t[2].kind = "run"
<1> DEFINE m == Message(n, e)
           u == Run(n, e)
           a == Approval(e)
<1>1. /\ m \in Records /\ m.kind = "message" /\ m.key = n /\ m.status = e.status
      /\ u \in Records /\ u.kind = "run" /\ u.key = m.run /\ u.status = e.status
      /\ a \in Records /\ a.kind = "approval"
  <2>1. m \in Messages /\ u \in RunRecords /\ a \in Approvals
    BY DEF Messages, RunRecords, Approvals
  <2>2. m.kind = "message" /\ m.key = n /\ m.status = e.status /\ m.run = RunOf(n, e)
    BY DEF Message
  <2>3. u.kind = "run" /\ u.key = RunOf(n, e) /\ u.status = e.status
    BY DEF Run
  <2>4. a.kind = "approval"
    BY DEF Approval
  <2> QED BY <2>1, <2>2, <2>3, <2>4 DEF Records
<1> HIDE DEF m, u, a
<1>2. \/ t = <<>>
      \/ e.status = NoText /\ t = <<m>>
      \/ e.status = NoText /\ t = <<m, a>>
      \/ e.status # NoText /\ t = <<m, u>>
      \/ e.status # NoText /\ t = <<m, u, a>>
  <2>1. ~e.session => t = <<>>
    BY DEF Build
  <2>2. e.session => t = <<m>> \o (IF e.status = NoText THEN <<>> ELSE <<u>>) \o (IF IsApproval(e) THEN <<a>> ELSE <<>>)
    BY DEF Build, m, u, a
  <2>3. <<m>> \o <<>> \o <<>> = <<m>> /\ <<m>> \o <<>> \o <<a>> = <<m, a>>
    BY <1>1, Joined
  <2>4. <<m>> \o <<u>> \o <<>> = <<m, u>> /\ <<m>> \o <<u>> \o <<a>> = <<m, u, a>>
    BY <1>1, Joined
  <2>5. CASE e.session /\ e.status = NoText
    <3>1. t = <<m>> \o <<>> \o (IF IsApproval(e) THEN <<a>> ELSE <<>>)
      BY <2>2, <2>5
    <3> QED BY <2>3, <2>5, <3>1
  <2>6. CASE e.session /\ e.status # NoText
    <3>1. t = <<m>> \o <<u>> \o (IF IsApproval(e) THEN <<a>> ELSE <<>>)
      BY <2>2, <2>6
    <3> QED BY <2>4, <2>6, <3>1
  <2> QED BY <2>1, <2>5, <2>6
<1>3. "message" # "run" /\ "message" # "approval" /\ "run" # "approval"
  OBVIOUS
<1>4. CASE t = <<>>
  BY <1>4
<1>5. CASE e.status = NoText /\ t = <<m>>
  BY <1>1, <1>3, <1>5
<1>6. CASE e.status = NoText /\ t = <<m, a>>
  BY <1>1, <1>3, <1>6
<1>7. CASE e.status # NoText /\ t = <<m, u>>
  BY <1>1, <1>3, <1>7
<1>8. CASE e.status # NoText /\ t = <<m, u, a>>
  BY <1>1, <1>3, <1>8
<1> QED BY <1>2, <1>4, <1>5, <1>6, <1>7, <1>8

LEMMA StoreStart == StoreInit => StoreInv
<1> SUFFICES ASSUME StoreInit PROVE StoreInv
  OBVIOUS
<1> USE DEF StoreInit
<1>0. \A k \in RecordKind : mem[k] = {} /\ disk[k] = <<>>
  BY DEF NoRecords, NoLines
<1>1. StoreTypes
  <2>1. mem = [k \in RecordKind |-> mem[k]] /\ disk = [k \in RecordKind |-> disk[k]]
    BY DEF NoRecords, NoLines
  <2>2. \A k \in RecordKind : disk[k] \in Seq(Lines(k)) /\ mem[k] \subseteq RecordsOf(k)
    BY <1>0, EmptySeq
  <2>3. channel \in Seq(Nat \X Envelopes) /\ todo \in Seq(Records) /\ count \in Nat
    BY EmptySeq
  <2> QED BY <2>1, <2>2, <2>3 DEF StoreTypes
<1>2. mem["message"] = {} /\ mem["run"] = {} /\ disk["message"] = <<>> /\ disk["run"] = <<>>
  BY <1>0 DEF RecordKind
<1>3. StoreOrder
  BY <1>2 DEF StoreOrder, Below
<1>4. Load(<<>>) = {}
  BY DEF Load
<1>5. Followed
  BY <1>2, <1>4 DEF Followed, Agree, Stated, Own
<1>6. TodoShape /\ Pending
  BY DEF TodoShape, Pending
<1> QED BY <1>1, <1>3, <1>5, <1>6 DEF StoreInv

\* The keys that are compared are numbers.
LEMMA StoreKeys ==
  ASSUME StoreTypes
  PROVE  /\ mem["message"] \subseteq Messages /\ \A m \in mem["message"] : m.key \in Nat
         /\ \A i \in DOMAIN disk["message"] :
              disk["message"][i].item \in Messages /\ disk["message"][i].item.key \in Nat
         /\ \A i \in DOMAIN channel : channel[i][1] \in Nat /\ channel[i][2] \in Envelopes
         /\ \A i \in DOMAIN todo : todo[i] \in Records /\ (todo[i].kind = "message" => todo[i].key \in Nat)
         /\ count \in Nat
<1>1. mem["message"] \subseteq Messages /\ disk["message"] \in Seq(Lines("message"))
  BY KindForms DEF StoreTypes, RecordKind
<1>2. \A i \in DOMAIN disk["message"] : disk["message"][i].item \in Messages
  BY <1>1, ItemKinds, KindForms
<1>3. \A i \in DOMAIN channel : channel[i] \in Nat \X Envelopes
  BY ElementOfSeq, LenProperties DEF StoreTypes
<1>4. \A i \in DOMAIN todo : todo[i] \in Records
  BY ElementOfSeq, LenProperties DEF StoreTypes
<1>5. \A x \in Records : x.kind = "message" => x \in Messages
  BY KindForms
<1>6. \A i \in DOMAIN todo : todo[i].kind = "message" => todo[i].key \in Nat
  BY <1>4, <1>5, RecordForms
<1>7. /\ \A m \in mem["message"] : m.key \in Nat
      /\ \A i \in DOMAIN disk["message"] : disk["message"][i].item.key \in Nat
  BY <1>1, <1>2, RecordForms
<1> QED BY <1>1, <1>2, <1>3, <1>4, <1>6, <1>7 DEF StoreTypes

LEMMA EnqueueKeeps == ASSUME StoreInv, NEW e \in Envelopes, Enqueue(e) PROVE StoreInv'
<1> USE DEF Enqueue
<1>0. StoreTypes /\ StoreOrder
  BY DEF StoreInv
<1>1. PICK n \in Nat : n = count + 1 /\ count < n
  BY <1>0 DEF StoreTypes
<1>2. <<n, e>> \in Nat \X Envelopes /\ <<n, e>>[1] = n
  OBVIOUS
<1>3. channel' = channel \/ channel' = Append(channel, <<n, e>>)
  BY <1>1
<1>4. channel' \in Seq(Nat \X Envelopes)
  BY <1>0, <1>2, <1>3, AppendProperties DEF StoreTypes
<1>5. StoreTypes'
  BY <1>0, <1>1, <1>4 DEF StoreTypes
<1> DEFINE M == mem["message"]
           f == disk["message"]
<1>6. Below(M, f, n) /\ Below(M, f, count' + 1)
  <2>1. Below(M, f, n)
    BY <1>0, <1>1 DEF StoreOrder
  <2>2. n \in Nat /\ count' + 1 = n + 1
    BY <1>1
  <2>3. (\A m \in M : m.key \in Nat) /\ \A i \in DOMAIN f : f[i].item.key \in Nat
    BY <1>0, StoreKeys
  <2> HIDE DEF M, f
  <2> QED BY <2>1, <2>2, <2>3 DEF Below
<1>6a. M' = M /\ f' = f
  OBVIOUS
<1> HIDE DEF M, f
<1>7. \A i \in DOMAIN channel : channel[i][1] \in Nat /\ channel[i][1] <= count
  BY <1>0, StoreKeys DEF StoreOrder
<1>8. \A i \in DOMAIN channel' : \/ i \in DOMAIN channel /\ channel'[i] = channel[i]
                                 \/ channel'[i] = <<n, e>> /\ \A j \in DOMAIN channel : j < i
  <2>1. CASE channel' = channel
    BY <2>1
  <2>2. CASE channel' = Append(channel, <<n, e>>)
    <3>1. /\ DOMAIN channel = 1..Len(channel) /\ Len(channel) \in Nat
          /\ DOMAIN channel' = 1..(Len(channel) + 1)
          /\ channel'[Len(channel) + 1] = <<n, e>>
          /\ \A i \in 1..Len(channel) : channel'[i] = channel[i]
      BY <1>0, <1>2, <1>4, <2>2, AppendProperties, LenProperties DEF StoreTypes
    <3> QED BY <3>1
  <2> QED BY <1>3, <2>1, <2>2
<1>9. \A t \in DOMAIN todo : todo[t].kind = "message" => todo[t].key \in Nat /\ todo[t].key <= count
  BY <1>0, StoreKeys DEF StoreOrder
<1>10. StoreOrder'
  <2>1. \A i \in DOMAIN channel' : channel'[i][1] <= count' /\ Below(M, f, channel'[i][1])
    <3> SUFFICES ASSUME NEW i \in DOMAIN channel' PROVE channel'[i][1] <= count' /\ Below(M, f, channel'[i][1])
      OBVIOUS
    <3>1. CASE i \in DOMAIN channel /\ channel'[i] = channel[i]
      <4>1. Below(M, f, channel[i][1])
        BY <1>0, <3>1 DEF StoreOrder, M, f
      <4>2. Below(M, f, channel'[i][1])
        BY <3>1, <4>1
      <4>3. channel[i][1] <= count'
        BY <1>0, <1>1, <1>7, <3>1, StoreKeys
      <4> QED BY <3>1, <4>2, <4>3
    <3>2. CASE channel'[i] = <<n, e>>
      <4>1. n <= count'
        BY <1>1
      <4> QED BY <1>2, <1>6, <3>2, <4>1
    <3> QED BY <1>8, <3>1, <3>2
  <2>2. \A i, j \in DOMAIN channel' : i < j => channel'[i][1] < channel'[j][1]
    <3> SUFFICES ASSUME NEW i \in DOMAIN channel', NEW j \in DOMAIN channel', i < j
                 PROVE  channel'[i][1] < channel'[j][1]
      OBVIOUS
    <3>0. i \in Nat /\ j \in Nat /\ \A l \in DOMAIN channel : l \in Nat
      BY SMTT(30), <1>0, <1>4, LenProperties DEF StoreTypes
    <3>1. CASE i \in DOMAIN channel /\ channel'[i] = channel[i] /\ j \in DOMAIN channel /\ channel'[j] = channel[j]
      BY <1>0, <3>1 DEF StoreOrder
    <3>2. CASE i \in DOMAIN channel /\ channel'[i] = channel[i] /\ channel'[j] = <<n, e>>
      <4>1. channel[i][1] < n
        BY <1>0, <1>1, <1>7, <3>2, StoreKeys
      <4> QED BY <1>2, <3>2, <4>1
    <3>3. CASE (\A l \in DOMAIN channel : l < i) /\ j \in DOMAIN channel
      BY <3>0, <3>3
    <3>4. ~((\A l \in DOMAIN channel : l < i) /\ j \notin DOMAIN channel)
      <4>1. \A k \in DOMAIN channel' : k \notin DOMAIN channel => k = Len(channel) + 1 /\ Len(channel) \in Nat
        <5>1. DOMAIN channel = 1..Len(channel) /\ Len(channel) \in Nat
          BY <1>0, LenProperties DEF StoreTypes
        <5>2. CASE channel' = channel
          BY <5>2
        <5>3. CASE channel' = Append(channel, <<n, e>>)
          <6>1. DOMAIN channel' = 1..(Len(channel) + 1)
            BY <1>0, <1>2, <1>4, <5>3, AppendProperties, LenProperties DEF StoreTypes
          <6> QED BY <5>1, <6>1
        <5> QED BY <1>3, <5>2, <5>3
      <4>2. ASSUME \A l \in DOMAIN channel : l < i, j \notin DOMAIN channel PROVE FALSE
        <5>1. i \notin DOMAIN channel
          BY <3>0, <4>2
        <5> QED BY <3>0, <4>1, <4>2, <5>1
      <4> QED BY <4>2
    <3> QED BY <1>8, <3>1, <3>2, <3>3, <3>4
  <2>3. \A t \in DOMAIN todo : todo[t].kind = "message" =>
          /\ todo[t].key <= count' /\ Below(M, f, todo[t].key)
          /\ \A i \in DOMAIN channel' : todo[t].key < channel'[i][1]
    <3> SUFFICES ASSUME NEW t \in DOMAIN todo, todo[t].kind = "message"
                 PROVE  /\ todo[t].key <= count' /\ Below(M, f, todo[t].key)
                        /\ \A i \in DOMAIN channel' : todo[t].key < channel'[i][1]
      OBVIOUS
    <3>1. PICK k \in Nat : k = todo[t].key
      BY <1>9
    <3>2. k <= count /\ Below(M, f, k) /\ \A i \in DOMAIN channel : k < channel[i][1]
      BY <1>0, <3>1 DEF StoreOrder, M, f
    <3>3. k <= count' /\ k < n
      BY <1>0, <1>1, <3>2, StoreKeys
    <3>4. Below(M, f, k)
      BY <3>2
    <3>5. \A i \in DOMAIN channel' : k < channel'[i][1]
      <4> SUFFICES ASSUME NEW i \in DOMAIN channel' PROVE k < channel'[i][1]
        OBVIOUS
      <4>1. CASE i \in DOMAIN channel /\ channel'[i] = channel[i]
        BY <3>2, <4>1
      <4>2. CASE channel'[i] = <<n, e>>
        BY <1>2, <3>3, <4>2
      <4> QED BY <1>8, <4>1, <4>2
    <3> QED BY <3>1, <3>3, <3>4, <3>5
  <2> QED BY <1>6, <1>6a, <2>1, <2>2, <2>3 DEF StoreOrder, M, f
<1>11. TodoShape' /\ Pending' /\ Followed'
  BY DEF StoreInv, TodoShape, Pending, Followed, RunDue
<1> QED BY <1>5, <1>10, <1>11 DEF StoreInv

LEMMA TakeKeeps == ASSUME StoreInv, TakeEvent PROVE StoreInv'
<1> USE DEF TakeEvent
<1>0. StoreTypes /\ StoreOrder /\ TodoShape /\ Followed
  BY DEF StoreInv
<1>1. channel \in Seq(Nat \X Envelopes) /\ channel # <<>>
  BY <1>0 DEF StoreTypes
<1>2. /\ Len(channel) \in Nat \ {0} /\ DOMAIN channel = 1..Len(channel)
      /\ channel' \in Seq(Nat \X Envelopes) /\ Len(channel') = Len(channel) - 1
      /\ \A i \in 1..Len(channel') : channel'[i] = channel[i + 1]
      /\ DOMAIN channel' = 1..Len(channel')
  <2>1. /\ Tail(channel) \in Seq(Nat \X Envelopes) /\ Len(Tail(channel)) = Len(channel) - 1
        /\ \A i \in 1..Len(Tail(channel)) : Tail(channel)[i] = channel[i + 1]
    BY <1>1, HeadTailProperties
  <2>2. DOMAIN Tail(channel) = 1..Len(Tail(channel))
    BY <2>1, LenProperties
  <2> QED BY <1>1, <2>1, <2>2, EmptySeq, LenProperties
<1>3. 1 \in DOMAIN channel /\ \A i \in DOMAIN channel' : i + 1 \in DOMAIN channel /\ 1 < i + 1 /\ i \in Nat
  BY <1>2
<1>4. PICK n \in Nat, e \in Envelopes : n = channel[1][1] /\ e = channel[1][2]
  BY <1>0, <1>3, StoreKeys
<1>5. todo' = Build(n, e)
  BY <1>4
<1>6. /\ todo' \in Seq(Records)
      /\ \A t \in DOMAIN todo' : todo'[t].kind = "message" => t = 1 /\ todo'[t].key = n
      /\ \A t \in DOMAIN todo' : todo'[t].kind = "run" =>
           /\ t = 2 /\ todo'[2].status # NoText
           /\ todo'[1].kind = "message" /\ todo'[1].run = todo'[2].key /\ todo'[1].status = todo'[2].status
      /\ todo' # <<>> => todo'[1].kind = "message"
      /\ todo' # <<>> /\ todo'[1].status # NoText => Len(todo') >= 2 /\ todo'[2].kind = "run"
  BY <1>5, BuildForms
<1>7. StoreTypes'
  BY <1>0, <1>2, <1>6 DEF StoreTypes
<1> DEFINE M == mem["message"]
           f == disk["message"]
<1>8. M' = M /\ f' = f
  OBVIOUS
<1>9. /\ Below(M, f, count + 1) /\ n <= count /\ Below(M, f, n)
      /\ \A i \in DOMAIN channel : channel[i][1] <= count /\ Below(M, f, channel[i][1])
      /\ \A i, j \in DOMAIN channel : i < j => channel[i][1] < channel[j][1]
  BY <1>0, <1>3, <1>4 DEF StoreOrder
<1> HIDE DEF M, f
<1>10. StoreOrder'
  <2>1. \A i \in DOMAIN channel' : channel'[i] = channel[i + 1] /\ n < channel'[i][1]
    BY <1>2, <1>3, <1>4, <1>9
  <2>2. \A i \in DOMAIN channel' : channel'[i][1] <= count /\ Below(M, f, channel'[i][1])
    BY <1>3, <1>9, <2>1
  <2>3. \A i, j \in DOMAIN channel' : i < j => channel'[i][1] < channel'[j][1]
    <3> SUFFICES ASSUME NEW i \in DOMAIN channel', NEW j \in DOMAIN channel', i < j
                 PROVE  channel'[i][1] < channel'[j][1]
      OBVIOUS
    <3>1. PICK a \in DOMAIN channel : a = i + 1
      BY <1>3
    <3>2. PICK b \in DOMAIN channel : b = j + 1
      BY <1>3
    <3>3. a < b
      BY <1>3, <3>1, <3>2
    <3> QED BY <1>9, <2>1, <3>1, <3>2, <3>3
  <2>4. \A t \in DOMAIN todo' : todo'[t].kind = "message" =>
          /\ todo'[t].key <= count /\ Below(M, f, todo'[t].key)
          /\ \A i \in DOMAIN channel' : todo'[t].key < channel'[i][1]
    BY <1>6, <1>9, <2>1
  <2> QED BY <1>8, <1>9, <2>2, <2>3, <2>4 DEF StoreOrder, M, f
<1>11. TodoShape'
  <2>1. \A t \in DOMAIN todo' : todo'[t].kind = "message" => t = 1
    BY <1>6
  <2>2. \A t \in DOMAIN todo' : todo'[t].kind = "run" =>
          /\ todo'[t].status # NoText
          /\ t # 1 => t = 2 /\ todo'[1].kind = "message" /\ todo'[1].run = todo'[2].key
                      /\ todo'[1].status = todo'[2].status
    BY <1>6
  <2> QED BY <1>6, <2>1, <2>2 DEF TodoShape
<1>12. Pending'
  BY <1>6 DEF Pending
<1>13. Followed'
  BY <1>0 DEF Followed, RunDue
<1> QED BY <1>7, <1>10, <1>11, <1>12, <1>13 DEF StoreInv

\* What a cancelled context refuses concerns runs that are behind now.
LEMMA RefuseKeeps == ASSUME StoreInv, Refuse PROVE StoreInv'
<1> USE DEF Refuse
<1>0. StoreTypes /\ StoreOrder /\ Followed
  BY DEF StoreInv
<1>1. StoreTypes' /\ TodoShape' /\ Pending'
  BY <1>0, EmptySeq DEF StoreTypes, TodoShape, Pending
<1>2. StoreOrder'
  BY <1>0 DEF StoreOrder
<1>3. Followed'
  <2> SUFFICES ASSUME NEW r \in RunKeys, r \notin behind'
               PROVE  /\ Agree(Load(disk["message"]), Load(disk["run"]), r)
                      /\ up => Agree(mem["message"], mem["run"], r)
    BY DEF Followed
  <2>1. r \notin behind /\ r \notin Touched(todo[1])
    BY DEF Late
  <2>2. ~RunDue(r)
    BY <2>1 DEF RunDue, Touched
  <2> QED BY <1>0, <2>1, <2>2 DEF Followed
<1> QED BY <1>1, <1>2, <1>3 DEF StoreInv

LEMMA StopKeeps == ASSUME StoreInv, Stop PROVE StoreInv'
BY DEF Stop, StoreInv, StoreTypes, StoreOrder, TodoShape, Pending, Followed, RunDue


\* What is written next.
LEMMA FirstLeft ==
  ASSUME StoreTypes, todo # <<>>
  PROVE  todo[1] \in Records /\ 1 \in DOMAIN todo
<1>1. 1 \in 1..Len(todo) /\ DOMAIN todo = 1..Len(todo)
  BY EmptySeq, LenProperties DEF StoreTypes
<1> QED BY <1>1, ElementOfSeq DEF StoreTypes

\* The messages stay below a number that a message written now is below.
LEMMA BelowKept ==
  ASSUME StoreTypes, NEW x \in Records, NEW state \in Outcomes, WriteLine(x, state),
         NEW n \in Nat, Below(mem["message"], disk["message"], n), x.kind = "message" => x.key < n,
         NEW M, \A m \in M : m \in mem["message"] \/ (x.kind = "message" /\ m = x)
  PROVE  Below(M, disk'["message"], n)
<1>0. "message" \in RecordKind
  BY DEF RecordKind
<1>1. \A m \in M : m.key < n
  BY DEF Below
<1>2. CASE disk'["message"] = disk["message"]
  BY <1>1, <1>2 DEF Below
<1>3. CASE disk'["message"] # disk["message"]
  <2>1. x.kind = "message" /\ state # "none"
    BY <1>0, <1>3, WrittenFile
  <2> DEFINE f == disk["message"]
             g == disk'["message"]
  <2>2. g = AppendLine(f, x, state) /\ f \in Seq(Lines("message")) /\ x \in RecordsOf("message")
    BY <1>0, <2>1, WrittenFile, KindForms DEF StoreTypes
  <2>3. \A i \in DOMAIN f : f[i].item.key < n
    BY DEF Below
  <2>6. state \in {"whole", "bare", "torn"}
    BY <2>1 DEF Outcomes
  <2> HIDE DEF f, g
  <2>4. \A i \in DOMAIN g : g[i].item = x \/ \E j \in DOMAIN f : g[i].item = f[j].item
    <3>1. Written(f, x, state, g)
      BY <2>2, <2>6, AppendItems
    <3> QED BY <3>1 DEF Written
  <2>5. \A i \in DOMAIN g : g[i].item.key < n
    BY <2>1, <2>3, <2>4
  <2> QED BY <1>1, <2>5 DEF Below, g
<1> QED BY <1>2, <1>3

\* A write of what is left first, whatever becomes of its line: the runs that
\* are not behind then were not due.
LEMMA EndKeeps == ASSUME StoreInv, End PROVE StoreInv'
<1> USE DEF End
<1>0. StoreTypes /\ StoreOrder /\ Followed
  BY DEF StoreInv
<1>1. ~up' /\ todo' = <<>> /\ channel' = <<>> /\ mem' = NoRecords /\ count' = count /\ behind \subseteq behind'
  OBVIOUS
<1>2. mem' = [k \in RecordKind |-> mem'[k]] /\ mem'["message"] = {} /\ \A k \in RecordKind : mem'[k] = {}
  BY <1>1 DEF NoRecords, RecordKind
<1>3. TodoShape' /\ Pending'
  BY <1>1 DEF TodoShape, Pending
<1>4. SUFFICES /\ disk' = [k \in RecordKind |-> disk'[k]] /\ \A k \in RecordKind : disk'[k] \in Seq(Lines(k))
               /\ Below({}, disk'["message"], count + 1)
               /\ \A r \in RunKeys \ behind' : Agree(Load(disk'["message"]), Load(disk'["run"]), r)
  <2>1. channel' \in Seq(Nat \X Envelopes) /\ todo' \in Seq(Records) /\ count' \in Nat
    BY <1>0, <1>1, EmptySeq DEF StoreTypes
  <2>2. \A k \in RecordKind : mem'[k] \subseteq RecordsOf(k)
    BY <1>2
  <2>3. StoreTypes'
    BY <1>2, <1>4, <2>1, <2>2 DEF StoreTypes
  <2>4. StoreOrder'
    BY <1>1, <1>2, <1>4 DEF StoreOrder
  <2>5. Followed'
    BY <1>1, <1>4 DEF Followed
  <2> QED BY <1>3, <2>3, <2>4, <2>5 DEF StoreInv
<1>5. Below(mem["message"], disk["message"], count + 1)
  BY <1>0 DEF StoreOrder
<1>6. CASE todo = <<>>
  <2>1. disk' = disk
    BY <1>6
  <2>2. \A r \in RunKeys \ behind' : Agree(Load(disk["message"]), Load(disk["run"]), r)
    BY <1>0, <1>1, <1>6 DEF Followed, RunDue
  <2>3. disk' = [k \in RecordKind |-> disk'[k]] /\ \A k \in RecordKind : disk'[k] \in Seq(Lines(k))
    BY <1>0, <2>1 DEF StoreTypes
  <2>4. Below({}, disk'["message"], count + 1)
    BY <1>5, <2>1 DEF Below
  <2> QED BY <2>1, <2>2, <2>3, <2>4
<1>7. CASE todo # <<>>
  <2>1. PICK x \in Records : x = todo[1] /\ 1 \in DOMAIN todo
    BY <1>0, <1>7, FirstLeft
  <2>2. PICK state \in Outcomes : WriteLine(x, state)
    <3>1. CASE disk' = disk
      BY <3>1 DEF WriteLine, Outcomes
    <3>2. CASE disk' # disk
      <4>1. PICK s \in {"whole", "bare", "torn"} : disk' = [disk EXCEPT ![x.kind] = AppendLine(@, x, s)]
        BY <2>1, <3>2
      <4> QED BY <4>1 DEF WriteLine, Outcomes
    <3> QED BY <3>1, <3>2
  <2>3. behind' = behind \cup Late(x) \cup Spoilt(disk[x.kind])
    BY <1>7, <2>1
  <2>4. x.kind = "message" => x.key < count + 1
    <3>1. x.kind = "message" => x.key \in Nat /\ x.key <= count
      BY <1>0, <2>1, StoreKeys DEF StoreOrder
    <3> QED BY <1>0, <3>1, StoreKeys
  <2>5. Below({}, disk'["message"], count + 1)
    <3>1. PICK n \in Nat : n = count + 1
      BY <1>0, StoreKeys
    <3> QED BY <1>0, <1>5, <2>2, <2>4, <3>1, BelowKept
  <2>6. \A r \in RunKeys \ behind' : Agree(Load(disk'["message"]), Load(disk'["run"]), r)
    <3> SUFFICES ASSUME NEW r \in RunKeys, r \notin behind'
                 PROVE  Agree(Load(disk'["message"]), Load(disk'["run"]), r)
      OBVIOUS
    <3>1. r \notin behind /\ r \notin Touched(x) /\ r \notin Spoilt(disk[x.kind])
      BY <2>3 DEF Late
    <3>2. Agree(Load(disk["message"]), Load(disk["run"]), r)
      BY <1>0, <2>1, <3>1 DEF Followed, RunDue, Touched
    <3>3. /\ Stated(Load(disk'["message"]), r) = Stated(Load(disk["message"]), r)
          /\ Own(Load(disk'["run"]), r) = Own(Load(disk["run"]), r)
      BY <1>0, <2>2, <3>1, WriteKeeps
    <3> QED BY <3>2, <3>3, AgreeSame
  <2>7. disk' = [k \in RecordKind |-> disk'[k]] /\ \A k \in RecordKind : disk'[k] \in Seq(Lines(k))
    BY <1>0, <2>2, WrittenFile
  <2> QED BY <2>5, <2>6, <2>7
<1> QED BY <1>6, <1>7

\* The memory of the next start is what the files hold.
LEMMA StartKeeps == ASSUME StoreInv, Start PROVE StoreInv'
<1> USE DEF Start
<1>0. StoreTypes /\ StoreOrder /\ TodoShape /\ Followed
  BY DEF StoreInv
<1>1. todo = <<>> /\ todo' = <<>>
  BY <1>0 DEF TodoShape
<1>2. ASSUME NEW k \in RecordKind, NEW y \in Load(disk[k]) PROVE \E i \in DOMAIN disk[k] : disk[k][i].item = y
  BY <1>2, LoadIs
<1>3. ASSUME NEW k \in RecordKind PROVE Load(disk[k]) \subseteq RecordsOf(k)
  <2>1. \A i \in DOMAIN disk[k] : disk[k][i].item \in RecordsOf(k)
    BY <1>0, ItemKinds DEF StoreTypes
  <2> QED BY <1>2, <2>1
<1>4. "message" \in RecordKind /\ "run" \in RecordKind
  BY DEF RecordKind
<1>5. mem'["message"] = Load(disk["message"]) /\ mem'["run"] = Load(disk["run"])
  BY <1>4
<1>6. StoreTypes'
  BY <1>0, <1>3 DEF StoreTypes
<1>7. ASSUME NEW n, Below(mem["message"], disk["message"], n) PROVE Below(mem'["message"], disk'["message"], n)
  BY <1>2, <1>4, <1>5, <1>7 DEF Below
<1>8. StoreOrder'
  BY <1>0, <1>1, <1>7 DEF StoreOrder
<1>9. Followed'
  BY <1>0, <1>1, <1>5 DEF Followed, RunDue
<1> QED BY <1>1, <1>6, <1>8, <1>9 DEF StoreInv, TodoShape, Pending

LEMMA ApplyKeeps == ASSUME StoreInv, Apply PROVE StoreInv'
<1> USE DEF Apply
<1>0. StoreTypes /\ StoreOrder /\ TodoShape /\ Pending /\ Followed
  BY DEF StoreInv
<1>1. todo # <<>> /\ up /\ up' = up /\ count' = count /\ channel' = channel
  OBVIOUS
<1>2. PICK x \in Records : x = todo[1] /\ 1 \in DOMAIN todo
  BY <1>0, <1>1, FirstLeft
<1>3. PICK state \in Outcomes :
        /\ WriteLine(x, state)
        /\ \/ /\ state = "whole" /\ todo' = Tail(todo)
              /\ behind' = IF Open(disk[x.kind]) THEN behind \cup Late(x) \cup Spoilt(disk[x.kind])
                           ELSE IF x.kind = "run" /\ Kept(x) THEN behind \ {x.key} ELSE behind
           \/ todo' = <<>> /\ behind' = behind \cup Late(x) \cup Spoilt(disk[x.kind])
  <2>1. CASE /\ disk' = [disk EXCEPT ![x.kind] = AppendLine(@, x, "whole")]
             /\ todo' = Tail(todo)
             /\ behind' = IF Open(disk[x.kind]) THEN behind \cup Late(x) \cup Spoilt(disk[x.kind])
                          ELSE IF x.kind = "run" /\ Kept(x) THEN behind \ {x.key} ELSE behind
    <3>1. WriteLine(x, "whole")
      BY <2>1 DEF WriteLine
    <3> QED BY <2>1, <3>1 DEF Outcomes
  <2>2. CASE /\ \E s \in {"bare", "torn", "none"} :
                  disk' = IF s = "none" THEN disk ELSE [disk EXCEPT ![x.kind] = AppendLine(@, x, s)]
             /\ todo' = <<>>
             /\ behind' = behind \cup Late(x) \cup Spoilt(disk[x.kind])
    <3>1. PICK s \in {"bare", "torn", "none"} : WriteLine(x, s)
      BY <2>2 DEF WriteLine
    <3> QED BY <2>2, <3>1 DEF Outcomes
  <2> QED BY <1>2, <2>1, <2>2
<1>4. mem' = [mem EXCEPT ![x.kind] = Put(@, x)]
  BY <1>2
<1> HIDE DEF Apply
<1> DEFINE M == mem["message"]
           N == mem'["message"]
           f == disk["message"]
           g == disk'["message"]
<1>5. /\ \A k \in RecordKind : k # x.kind => mem'[k] = mem[k]
      /\ x.kind = "message" => N = M \cup {x}
      /\ x.kind = "run" => Own(mem'["run"], x.key) = {x}
      /\ "message" \in RecordKind /\ "run" \in RecordKind
  BY <1>0, <1>4, PutInMemory DEF RecordKind
<1>6. /\ \A i \in DOMAIN todo' : i \in Nat \ {0} /\ i + 1 \in DOMAIN todo /\ todo'[i] = todo[i + 1]
      /\ todo' \in Seq(Records)
      /\ state = "whole" /\ Len(todo) >= 2 /\ todo' = Tail(todo) => todo' # <<>> /\ 1 \in DOMAIN todo'
  <2>1. CASE todo' = <<>>
    <3>1. Len(todo) >= 2 /\ todo' = Tail(todo) => FALSE
      <4>1. Len(Tail(todo)) = Len(todo) - 1 /\ Len(todo) \in Nat
        BY <1>0, <1>1, HeadTailProperties, LenProperties DEF StoreTypes
      <4> QED BY <2>1, <4>1
    <3> QED BY <2>1, <3>1, EmptySeq
  <2>2. CASE todo' = Tail(todo)
    <3>1. /\ Tail(todo) \in Seq(Records) /\ Len(Tail(todo)) = Len(todo) - 1
          /\ \A i \in 1..Len(Tail(todo)) : Tail(todo)[i] = todo[i + 1]
      BY <1>0, <1>1, HeadTailProperties DEF StoreTypes
    <3>2. DOMAIN Tail(todo) = 1..(Len(todo) - 1) /\ DOMAIN todo = 1..Len(todo) /\ Len(todo) \in Nat
      BY <1>0, <3>1, LenProperties DEF StoreTypes
    <3>3. \A i \in DOMAIN todo' : i \in Nat \ {0} /\ i + 1 \in DOMAIN todo /\ todo'[i] = todo[i + 1]
      BY <2>2, <3>1, <3>2
    <3>4. Len(todo) >= 2 => todo' # <<>> /\ 1 \in DOMAIN todo'
      BY <2>2, <3>2
    <3> QED BY <2>2, <3>1, <3>3, <3>4
  <2> QED BY <1>3, <2>1, <2>2
<1>7. StoreTypes'
  <2>1. mem' = [k \in RecordKind |-> mem'[k]] /\ \A k \in RecordKind : mem'[k] \subseteq RecordsOf(k)
    BY <1>0, <1>4, PutInMemory
  <2>2. disk' = [k \in RecordKind |-> disk'[k]] /\ \A k \in RecordKind : disk'[k] \in Seq(Lines(k))
    BY <1>0, <1>3, WrittenFile
  <2> QED BY <1>0, <1>1, <1>6, <2>1, <2>2 DEF StoreTypes
<1>8. ASSUME NEW n \in Nat, Below(M, f, n), x.kind = "message" => x.key < n
      PROVE  Below(N, g, n)
  <2>1. \A m \in N : m \in M \/ (x.kind = "message" /\ m = x)
    BY <1>5
  <2> QED BY <1>0, <1>3, <1>8, <2>1, BelowKept
<1>9. x.kind = "message" => /\ x.key \in Nat /\ x.key <= count /\ Below(M, f, x.key)
                            /\ \A i \in DOMAIN channel : x.key < channel[i][1]
  BY <1>0, <1>2, StoreKeys DEF StoreOrder
<1>10. \A i \in DOMAIN todo' : todo'[i].kind # "message"
  <2> SUFFICES ASSUME NEW i \in DOMAIN todo', todo'[i].kind = "message" PROVE FALSE
    OBVIOUS
  <2>1. i + 1 = 1 /\ i \in Nat \ {0}
    BY <1>0, <1>6 DEF TodoShape
  <2> QED BY <2>1
<1>11. StoreOrder'
  <2>1. Below(N, g, count + 1)
    <3>1. PICK n \in Nat : n = count + 1
      BY <1>0, StoreKeys
    <3>2. x.kind = "message" => x.key < n
      BY <1>0, <1>9, <3>1, StoreKeys
    <3>3. Below(M, f, n)
      BY <1>0, <3>1 DEF StoreOrder
    <3> QED BY <1>8, <3>1, <3>2, <3>3
  <2>2. \A i \in DOMAIN channel : Below(N, g, channel[i][1])
    <3> SUFFICES ASSUME NEW i \in DOMAIN channel PROVE Below(N, g, channel[i][1])
      OBVIOUS
    <3>1. PICK n \in Nat : n = channel[i][1]
      BY <1>0, StoreKeys
    <3>2. Below(M, f, n)
      BY <1>0, <3>1 DEF StoreOrder
    <3> QED BY <1>8, <1>9, <3>1, <3>2
  <2> QED BY <1>0, <1>1, <1>10, <2>1, <2>2 DEF StoreOrder
<1>12. TodoShape'
  <2>1. \A i \in DOMAIN todo' : todo'[i].kind = "run" => todo'[i].status # NoText /\ i = 1
    <3> SUFFICES ASSUME NEW i \in DOMAIN todo', todo'[i].kind = "run" PROVE todo'[i].status # NoText /\ i = 1
      OBVIOUS
    <3>1. i + 1 # 1 /\ i \in Nat
      BY <1>6
    <3>2. PICK j \in DOMAIN todo : j = i + 1
      BY <1>6
    <3>3. todo[j].kind = "run" /\ todo'[i] = todo[j] /\ j # 1
      BY <1>6, <3>1, <3>2
    <3>4. todo[j].status # NoText /\ j = 2
      BY <1>0, <3>3 DEF TodoShape
    <3> QED BY <3>1, <3>2, <3>3, <3>4
  <2>2. todo' # <<>> => 1 \in DOMAIN todo'
    BY <1>7, EmptySeq, LenProperties DEF StoreTypes
  <2>3. up' /\ (todo' # <<>> => todo'[1].kind # "message")
    BY <1>1, <1>10, <2>2
  <2> QED BY <1>10, <2>1, <2>3 DEF TodoShape
<1>13. Pending'
  <2> SUFFICES ASSUME todo' # <<>>, todo'[1].kind = "run" PROVE Pending'
    BY DEF Pending
  <2>1. 1 \in DOMAIN todo' /\ todo'[1] = todo[2] /\ 2 \in DOMAIN todo
    <3>1. 1 \in DOMAIN todo'
      BY <1>7, EmptySeq, LenProperties DEF StoreTypes
    <3> QED BY <1>6, <3>1
  <2>2. state = "whole" /\ todo' = Tail(todo)
    BY <1>3
  <2>3. x.kind = "message" /\ x.run = todo'[1].key /\ x.status = todo'[1].status
    BY <1>0, <1>2, <2>1 DEF TodoShape
  <2>4. x \in N /\ \A n \in N : n = x \/ n.key < x.key
    BY <1>5, <1>9, <2>3 DEF Below
  <2>5. g = AppendLine(f, x, state) /\ f \in Seq(Lines("message")) /\ x \in RecordsOf("message")
    BY <1>0, <1>3, <1>5, <2>2, <2>3, WrittenFile, KindForms DEF StoreTypes
  <2>6. \A i \in DOMAIN f : f[i].item.key < x.key
    BY <1>9, <2>3 DEF Below
  <2> HIDE DEF f, g, M, N
  <2>7. state \in {"whole", "bare", "torn"}
    BY <2>2
  <2>8. /\ g # <<>>
        /\ \A i \in DOMAIN g : g[i].item = x \/ \E j \in DOMAIN f : g[i].item = f[j].item
        /\ g[Len(g)].state = "whole" <=> state = "whole" /\ ~Open(f)
        /\ ~Open(f) => g[Len(g)].item = x
    <3>1. Written(f, x, state, g)
      BY <2>5, <2>7, AppendItems
    <3> QED BY <3>1 DEF Written
  <2>9. \A i \in DOMAIN g : g[i].item = x \/ g[i].item.key < x.key
    BY <2>6, <2>8
  <2>10. Open(f) => todo'[1].key \in behind'
    <3> SUFFICES ASSUME Open(f) PROVE todo'[1].key \in behind'
      OBVIOUS
    <3>1. Late(x) \subseteq behind'
      BY <1>3, <2>3 DEF f
    <3> QED BY <2>3, <3>1 DEF Late, Touched
  <2>11. IF g[Len(g)].state = "whole" THEN g[Len(g)].item = x ELSE todo'[1].key \in behind'
    BY <2>2, <2>8, <2>10
  <2> QED BY <2>3, <2>4, <2>8, <2>9, <2>11 DEF Pending, g, N
<1>14. Followed'
  <2> SUFFICES ASSUME NEW r \in RunKeys, r \notin behind', ~RunDue(r)'
               PROVE  Agree(Load(g), Load(disk'["run"]), r) /\ Agree(N, mem'["run"], r)
    BY DEF Followed
  <2>1. r \notin Spoilt(disk[x.kind])
    BY <1>3 DEF Spoilt
  <2>2. CASE r \notin Touched(x)
    <3>1. r \notin behind
      BY <1>3, <2>2 DEF Touched
    <3>2. ~RunDue(r)
      BY <1>2, <2>2 DEF RunDue, Touched
    <3>3. Agree(Load(f), Load(disk["run"]), r) /\ Agree(M, mem["run"], r)
      BY <1>0, <1>1, <3>1, <3>2 DEF Followed
    <3>4. /\ Stated(Load(g), r) = Stated(Load(f), r)
          /\ Own(Load(disk'["run"]), r) = Own(Load(disk["run"]), r)
      BY <1>0, <1>3, <2>1, <2>2, WriteKeeps
    <3>5. Stated(N, r) = Stated(M, r) /\ Own(mem'["run"], r) = Own(mem["run"], r)
      BY <1>0, <1>4, <2>2, PutInMemory
    <3> QED BY <3>3, <3>4, <3>5, AgreeSame
  <2>3. CASE r \in Touched(x)
    <3>1. r \notin behind \cup Late(x) \cup Spoilt(disk[x.kind]) => FALSE
      BY <2>3 DEF Late
    <3>2. state = "whole" /\ todo' = Tail(todo) /\ ~Open(disk[x.kind])
      BY <1>3, <2>3 DEF Late
    <3>3. behind' = IF x.kind = "run" /\ Kept(x) THEN behind \ {x.key} ELSE behind
      BY <1>3, <2>3, <3>2 DEF Late
    <3>4. CASE x.kind = "message"
      <4>1. r = x.run /\ r \notin behind /\ behind' = behind /\ ~RunDue(r)
        BY <1>2, <2>3, <3>3, <3>4 DEF Touched, RunDue
      <4>2. x.status = NoText
        <5> SUFFICES ASSUME x.status # NoText PROVE FALSE
          OBVIOUS
        <5>1. Len(todo) >= 2 /\ todo[2].kind = "run"
          BY <1>0, <1>1, <1>2, <3>4 DEF TodoShape
        <5>2. todo' # <<>> /\ 1 \in DOMAIN todo' /\ todo'[1] = todo[2] /\ 2 \in DOMAIN todo
          BY <1>6, <3>2, <5>1
        <5>3. todo[2].key = x.run
          BY <1>0, <1>2, <5>1, <5>2 DEF TodoShape
        <5> QED BY <4>1, <5>1, <5>2, <5>3 DEF RunDue
      <4>3. Agree(Load(f), Load(disk["run"]), r) /\ Agree(M, mem["run"], r)
        BY <1>0, <1>1, <4>1 DEF Followed
      <4>4. Stated(N, r) = Stated(M, r)
        BY <1>5, <3>4, <4>2 DEF Stated
      <4>5. mem'["run"] = mem["run"] /\ disk'["run"] = disk["run"] /\ g = AppendLine(f, x, "whole")
        BY <1>0, <1>3, <1>5, <3>2, <3>4, WrittenFile
      <4>6. f \in Seq(Lines("message")) /\ x \in Messages /\ ~Open(f)
        BY <1>0, <1>5, <3>2, <3>4, KindForms DEF StoreTypes
      <4>7. Load(g) = Load(f) \cup {x}
        BY <4>5, <4>6, MessageLoaded
      <4>8. Stated(Load(g), r) = Stated(Load(f), r)
        BY <4>2, <4>7 DEF Stated
      <4> QED BY <4>3, <4>4, <4>5, <4>8, AgreeSame
    <3>5. CASE x.kind = "run"
      <4>1. r = x.key
        BY <2>3, <3>5 DEF Touched
      <4>2. PICK m \in M :
              /\ m.run = x.key /\ m.status = x.status
              /\ \A n \in M : n = m \/ n.key < m.key
              /\ \A i \in DOMAIN f : f[i].item = m \/ f[i].item.key < m.key
              /\ f # <<>>
              /\ IF f[Len(f)].state = "whole" THEN f[Len(f)].item = m ELSE x.key \in behind
        BY <1>0, <1>1, <1>2, <3>5 DEF Pending
      <4>3. f[Len(f)].state = "whole" /\ f[Len(f)].item = m
        BY <3>3, <3>5, <4>1, <4>2 DEF Kept
      <4>4. x.status # NoText
        BY <1>0, <1>2, <3>5 DEF TodoShape
      <4>5. N = M /\ g = f /\ disk'["run"] = AppendLine(disk["run"], x, "whole")
        BY <1>0, <1>3, <1>5, <3>2, <3>5, WrittenFile
      <4>6. disk["run"] \in Seq(Lines("run")) /\ x \in RunRecords /\ ~Open(disk["run"])
        BY <1>0, <1>5, <3>2, <3>5, KindForms DEF StoreTypes
      <4>7. Own(Load(disk'["run"]), r) = {x} /\ Own(mem'["run"], r) = {x}
        BY <1>5, <3>5, <4>1, <4>5, <4>6, RunLoaded
      <4>8. m.kind = "message" /\ Len(f) \in DOMAIN f
        <5>1. m \in Messages /\ f \in Seq(Lines("message"))
          BY <1>0, <1>5, StoreKeys DEF StoreTypes
        <5>2. Len(f) \in Nat \ {0} /\ DOMAIN f = 1..Len(f)
          BY <4>2, <5>1, EmptySeq, LenProperties
        <5> QED BY <5>1, <5>2, RecordForms
      <4>9. m \in Load(f)
        BY <4>3, <4>8, LoadIs DEF Readable
      <4>10. \A n \in Load(f) : n = m \/ n.key < m.key
        BY <4>2, LoadIs
      <4>11. Agree(Load(f), Load(disk'["run"]), r)
        BY <4>1, <4>2, <4>4, <4>7, <4>9, <4>10 DEF Agree, Stated
      <4>12. Agree(M, mem'["run"], r)
        BY <4>1, <4>2, <4>4, <4>7 DEF Agree, Stated
      <4> QED BY <4>5, <4>11, <4>12
    <3>6. x.kind = "message" \/ x.kind = "run"
      <4>1. x.kind \in RecordKind
        BY KindForms
      <4> QED BY <2>3, <4>1 DEF RecordKind, Touched
    <3> QED BY <3>4, <3>5, <3>6
  <2> QED BY <2>2, <2>3
<1> QED BY <1>7, <1>11, <1>12, <1>13, <1>14 DEF StoreInv

-----------------------------------------------------------------------------
\* Every write, refusal, stop, crash and start keeps StoreInv.
LEMMA StoreKeeps == ASSUME StoreInv, [StoreNext]_storeVars PROVE StoreInv'
<1>1. CASE \E e \in Envelopes : Enqueue(e)
  BY <1>1, EnqueueKeeps
<1>2. CASE TakeEvent
  BY <1>2, TakeKeeps
<1>3. CASE Apply
  BY <1>3, ApplyKeeps
<1>4. CASE Refuse
  BY <1>4, RefuseKeeps
<1>5. CASE Stop
  BY <1>5, StopKeeps
<1>6. CASE End
  BY <1>6, EndKeeps
<1>7. CASE Start
  BY <1>7, StartKeeps
<1>8. CASE UNCHANGED storeVars
  BY <1>8 DEF storeVars, StoreInv, StoreTypes, StoreOrder, TodoShape, Pending, Followed, RunDue
<1> QED BY <1>1, <1>2, <1>3, <1>4, <1>5, <1>6, <1>7, <1>8 DEF StoreNext

\* StoreInv holds through every failure and every restart.
THEOREM StoreInvariance == StoreSpec => []StoreInv
  BY StoreStart, StoreKeeps, PTL DEF StoreSpec

\* The runs the gateway shows follow their messages: whatever was dropped,
\* refused, cut off or lost, before and after every restart, the status of a
\* run is that of its newest message with one, unless its own last projection
\* was interrupted or is under way.
THEOREM RunsFollowMessages == StoreSpec => []RunFollowsMessages
<1>1. StoreInv => RunFollowsMessages
  <2> SUFFICES ASSUME StoreInv, up, NEW r \in Runs, r \notin behind
               PROVE  (\E i \in DOMAIN todo : r \in Touched(todo[i])) \/ RunStatus(r) = LastStatus(r)
    BY DEF RunFollowsMessages
  <2>0. StoreTypes
    BY DEF StoreInv
  <2>1. r \in RunKeys
    <3>1. mem["message"] \subseteq Messages /\ mem["run"] \subseteq RunRecords
      BY <2>0, KindForms DEF StoreTypes, RecordKind
    <3> QED BY <3>1, RecordForms DEF Runs
  <2>2. RunDue(r) \/ Agree(mem["message"], mem["run"], r)
    BY <2>1 DEF StoreInv, Followed
  <2>3. CASE RunDue(r)
    <3>1. 1 \in DOMAIN todo
      BY <2>0, <2>3, FirstLeft DEF RunDue
    <3>2. r \in Touched(todo[1])
      BY <2>3 DEF RunDue, Touched
    <3> QED BY <3>1, <3>2
  <2>4. CASE Stated(mem["message"], r) = {} /\ Own(mem["run"], r) = {}
    BY <2>4 DEF RunStatus, LastStatus, Stated, Own
  <2>5. CASE \E m \in Stated(mem["message"], r) :
               /\ \A n \in Stated(mem["message"], r) : n = m \/ n.key < m.key
               /\ Own(mem["run"], r) # {}
               /\ \A x \in Own(mem["run"], r) : x.status = m.status
    <3> DEFINE S == Stated(mem["message"], r)
               O == Own(mem["run"], r)
    <3>1. PICK m \in S : (\A n \in S : n = m \/ n.key < m.key) /\ O # {} /\ \A x \in O : x.status = m.status
      BY <2>5
    <3>2. \A n \in S : n.key \in Nat
      BY <2>0, StoreKeys DEF Stated
    <3>3. LastStatus(r) = (CHOOSE n \in S : \A l \in S : l.key <= n.key).status
      BY <3>1 DEF LastStatus, Stated
    <3>4. RunStatus(r) = (CHOOSE x \in O : TRUE).status
      BY <3>1 DEF RunStatus, Own
    <3> HIDE DEF S, O
    <3>5. \A l \in S : l.key <= m.key
      BY <3>1, <3>2
    <3>6. PICK n \in S : n = (CHOOSE o \in S : \A l \in S : l.key <= o.key) /\ \A l \in S : l.key <= n.key
      BY <3>5
    <3>7. n = m
      BY <3>1, <3>2, <3>6
    <3>8. PICK x \in O : x = (CHOOSE y \in O : TRUE)
      BY <3>1
    <3> QED BY <3>1, <3>3, <3>4, <3>6, <3>7, <3>8
  <2> QED BY <2>2, <2>3, <2>4, <2>5 DEF Agree
<1> QED BY <1>1, StoreInvariance, PTL

\* The bounds of the channel and of the models' counters.
StoreBounds ==
  /\ {up, cancelled} \subseteq BOOLEAN /\ starts \in 1..MaxStarts /\ count \in 0..MaxPublished
  /\ Len(channel) <= ChannelSize

LEMMA StoreFits == ASSUME StoreInv, StoreBounds, [StoreNext]_storeVars PROVE StoreBounds'
<1>0. channel \in Seq(Nat \X Envelopes) /\ ChannelSize \in Nat /\ Len(channel) <= ChannelSize /\ Len(channel) \in Nat
  BY StoreAssumption DEF StoreInv, StoreTypes, StoreBounds
<1>1. CASE \E e \in Envelopes : Enqueue(e)
  <2>1. PICK e \in Envelopes : Enqueue(e)
    BY <1>1
  <2>2. count < MaxPublished /\ count' = count + 1 /\ UNCHANGED <<up, cancelled, starts>>
    BY <2>1 DEF Enqueue
  <2>3. count' \in 0..MaxPublished
    BY <2>2, StoreAssumption DEF StoreBounds
  <2>4. Len(channel') <= ChannelSize
    <3>1. CASE Len(channel) < ChannelSize /\ channel' = Append(channel, <<count + 1, e>>)
      BY <1>0, <3>1
    <3>2. CASE channel' = channel
      BY <1>0, <3>2
    <3> QED BY <2>1, <3>1, <3>2 DEF Enqueue
  <2> QED BY <2>2, <2>3, <2>4 DEF StoreBounds
<1>2. CASE TakeEvent
  <2>1. channel # <<>> /\ channel' = Tail(channel) /\ UNCHANGED <<up, cancelled, starts, count>>
    BY <1>2 DEF TakeEvent
  <2>2. Len(channel') <= ChannelSize
    BY <1>0, <2>1
  <2> QED BY <2>1, <2>2 DEF StoreBounds
<1>3. CASE Apply \/ Refuse \/ Stop \/ UNCHANGED storeVars
  BY <1>3 DEF Apply, Refuse, Stop, storeVars, StoreBounds
<1>4. CASE End
  <2>1. channel' = <<>> /\ up' = FALSE /\ UNCHANGED <<cancelled, starts, count>>
    BY <1>4 DEF End
  <2>2. Len(channel') <= ChannelSize
    BY <1>0, <2>1
  <2> QED BY <2>1, <2>2 DEF StoreBounds
<1>5. CASE Start
  <2>1. starts < MaxStarts /\ starts' = starts + 1 /\ up' = TRUE /\ cancelled' = FALSE /\ UNCHANGED <<count, channel>>
    BY <1>5 DEF Start
  <2>2. starts' \in 1..MaxStarts
    BY <2>1, StoreAssumption DEF StoreBounds
  <2> QED BY <2>1, <2>2 DEF StoreBounds
<1> QED BY <1>1, <1>2, <1>3, <1>4, <1>5 DEF StoreNext

LEMMA StoreBoundsInit == ASSUME StoreInit PROVE StoreBounds
<1>1. Len(<<>>) <= ChannelSize
  BY StoreAssumption
<1>2. starts \in 1..MaxStarts /\ count \in 0..MaxPublished
  BY StoreAssumption DEF StoreInit
<1> QED BY <1>1, <1>2 DEF StoreInit, StoreBounds

LEMMA StoreIsTyped == StoreTypes /\ StoreBounds => StoreTypeOK
<1> SUFFICES ASSUME StoreTypes, StoreBounds PROVE StoreTypeOK
  OBVIOUS
<1>1. ASSUME NEW k \in RecordKind, NEW x \in mem[k] PROVE x.kind = k
  BY DEF StoreTypes, RecordsOf
<1>2. ASSUME NEW k \in RecordKind, NEW i \in DOMAIN disk[k]
      PROVE  disk[k][i].item.kind = k /\ disk[k][i].state \in {"whole", "bare", "torn", "spoilt"}
  <2>1. disk[k] \in Seq(Lines(k))
    BY DEF StoreTypes
  <2>2. disk[k][i] \in Lines(k)
    BY <2>1
  <2> QED BY <2>2 DEF Lines, RecordsOf, LineState
<1> QED BY <1>1, <1>2 DEF StoreTypeOK, StoreBounds

\* Each file holds records of its own kind, and the channel never more than
\* it can, through every failure and restart.
THEOREM StoreTypeCorrect == StoreSpec => []StoreTypeOK
<1>1. StoreInv /\ StoreBounds => StoreTypeOK
  BY StoreIsTyped DEF StoreInv
<1> QED BY <1>1, StoreInvariance, StoreBoundsInit, StoreFits, PTL DEF StoreSpec
=============================================================================
