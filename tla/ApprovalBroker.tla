--------------------------- MODULE ApprovalBroker ---------------------------
(***************************************************************************)
(* The gateway's approval broker (runtime/acp/approval.go).  An agent asks *)
(* for permission through the ACP callback Client.RequestPermission, whose *)
(* goroutine blocks in ApprovalBroker.Request; HTTP handlers decide the    *)
(* request; the requester's context may end at any moment.  Each critical  *)
(* section of b.mu is one step, and what runs after b.mu.Unlock (the       *)
(* publication of an event, the return) is a step of its own, because      *)
(* other goroutines run in between.                                        *)
(***************************************************************************)
EXTENDS Naturals, Sequences, FiniteSets

CONSTANTS
  Request,    \* calls of ApprovalBroker.Request; each has a fresh record id
  Handler,    \* goroutines that serve POST /v1/approvals/:id/decision
  OptionId,   \* option ids an agent may offer or a client may send
  NoOption,   \* the empty option id or decision word
  NoEvent,    \* nothing to publish
  NoAnswer,   \* the call has not returned
  Offer       \* the options each request offers, in order

Kind == {"allow_once", "allow_always", "reject_once", "reject_always"}

VARIABLES
  record,   \* b.records: status, optionId and whether DecidedAt and Message are set
  done,     \* entry.done, a channel of capacity 1
  pc,       \* where the goroutine of each Request call is
  ctx,      \* has the context of the call ended?
  answer,   \* what the call returned to the agent
  outbox,   \* the event an actor has built under the lock and not published yet
  log,      \* events in the order the bus received them
  told      \* history: the outcome an HTTP handler reported for a request

vars == <<record, done, pc, ctx, answer, outbox, log, told>>

Actor == Request \cup Handler

Selected(o) == [status |-> "selected", option |-> o]
Cancelled == [status |-> "cancelled", option |-> NoOption]
Outcome == {Selected(o) : o \in OptionId} \cup {Cancelled}
RequestCancelled == [status |-> "request_cancelled", option |-> NoOption]

Requested(r) == [type |-> "approval.requested", request |-> r, outcome |-> NoEvent]
Decided(r, o) == [type |-> "approval.decided", request |-> r, outcome |-> o]
Event == {Requested(r) : r \in Request} \cup {Decided(r, o) : r \in Request, o \in Outcome}

ASSUME BrokerAssumption ==
  /\ Request \cap Handler = {}
  /\ NoOption \notin OptionId
  /\ Offer \in [Request -> Seq([id : OptionId, kind : Kind])]
  /\ NoEvent \notin Event
  /\ NoAnswer \notin Outcome \cup {RequestCancelled}

Record ==
  [status : {"absent", "pending", "selected", "cancelled"},
   option : OptionId \cup {NoOption}, stamped : BOOLEAN]

OutcomeOf(r) == [status |-> record[r].status, option |-> record[r].option]
Settled(r) == record[r].status \in {"selected", "cancelled"}

-----------------------------------------------------------------------------
(* Resolving a decision to an option.                                      *)

\* The kinds each family of decision words prefers; any other word is taken
\* for an option id.
Preferred ==
  [approved |-> <<"allow_once", "allow_always">>,
   always_approved |-> <<"allow_always", "allow_once">>,
   rejected |-> <<"reject_once", "reject_always">>,
   reject_always |-> <<"reject_always", "reject_once">>]

Word == DOMAIN Preferred \cup OptionId \cup {NoOption}
Decision == [cancelled : BOOLEAN, option : OptionId \cup {NoOption}, word : Word]

OfKind(opts, k) == {i \in DOMAIN opts : opts[i].kind = k}
FirstOfKind(opts, k) ==
  opts[CHOOSE i \in OfKind(opts, k) : \A j \in OfKind(opts, k) : i <= j].id

OptionIDFromDecision(opts, w) ==
  IF w \notin DOMAIN Preferred THEN w
  ELSE LET some == {k \in 1..2 : OfKind(opts, Preferred[w][k]) # {}}
       IN  IF some = {} THEN NoOption
           ELSE FirstOfKind(opts, Preferred[w][IF 1 \in some THEN 1 ELSE 2])

HasOption(opts, id) == \E i \in DOMAIN opts : opts[i].id = id

ChosenOption(r, d) ==
  IF d.option # NoOption THEN d.option ELSE OptionIDFromDecision(Offer[r], d.word)

-----------------------------------------------------------------------------
Init ==
  /\ record = [r \in Request |-> [status |-> "absent", option |-> NoOption, stamped |-> FALSE]]
  /\ done = [r \in Request |-> <<>>]
  /\ pc = [r \in Request |-> "start"]
  /\ ctx = [r \in Request |-> FALSE]
  /\ answer = [r \in Request |-> NoAnswer]
  /\ outbox = [a \in Actor |-> NoEvent]
  /\ log = <<>>
  /\ told = [r \in Request |-> NoAnswer]

\* Request: the record is inserted under the lock; its event is still to come.
Insert(r) ==
  /\ pc[r] = "start"
  /\ record' = [record EXCEPT ![r].status = "pending"]
  /\ pc' = [pc EXCEPT ![r] = "announcing"]
  /\ outbox' = [outbox EXCEPT ![r] = Requested(r)]
  /\ UNCHANGED <<done, ctx, answer, log, told>>

\* Request: publish("approval.requested"), after the lock is released.
PublishRequested(r) ==
  /\ pc[r] = "announcing"
  /\ log' = Append(log, outbox[r])
  /\ outbox' = [outbox EXCEPT ![r] = NoEvent]
  /\ pc' = [pc EXCEPT ![r] = "waiting"]
  /\ UNCHANGED <<record, done, ctx, answer, told>>

\* Environment: the agent cancels its request, or its connection closes.
EndContext(r) ==
  /\ pc[r] \in {"announcing", "waiting"}
  /\ ~ctx[r]
  /\ ctx' = [ctx EXCEPT ![r] = TRUE]
  /\ UNCHANGED <<record, done, pc, answer, outbox, log, told>>

\* Request: the branch "case decided := <-entry.done" of the select.
ReceiveDecision(r) ==
  /\ pc[r] = "waiting"
  /\ done[r] # <<>>
  /\ answer' = [answer EXCEPT ![r] = Head(done[r])]
  /\ done' = [done EXCEPT ![r] = Tail(@)]
  /\ pc' = [pc EXCEPT ![r] = "returned"]
  /\ UNCHANGED <<record, ctx, outbox, log, told>>

\* Defective variant: the call returns without closing its record.
LeaveOnCancel(r) ==
  /\ pc[r] = "waiting"
  /\ ctx[r]
  /\ pc' = [pc EXCEPT ![r] = "returned"]
  /\ answer' = [answer EXCEPT ![r] = RequestCancelled]
  /\ UNCHANGED <<record, done, ctx, outbox, log, told>>

\* Request: the branch "case <-ctx.Done()"; the select may take it although
\* a decision is already in the channel.
ObserveCancel(r) ==
  /\ pc[r] = "waiting"
  /\ ctx[r]
  /\ pc' = [pc EXCEPT ![r] = "cancelling"]
  /\ UNCHANGED <<record, done, ctx, answer, outbox, log, told>>

\* Defective variants of Settle: without the status check, and without the
\* send to the requester.
SettleUnguarded(a, r, o) ==
  /\ record[r].status # "absent"
  /\ record' = [record EXCEPT ![r] = [status |-> o.status, option |-> o.option, stamped |-> TRUE]]
  /\ done' = [done EXCEPT ![r] = Append(@, o)]
  /\ outbox' = [outbox EXCEPT ![a] = Decided(r, o)]

SettleSilently(a, r, o) ==
  /\ record[r].status = "pending"
  /\ record' = [record EXCEPT ![r] = [status |-> o.status, option |-> o.option, stamped |-> TRUE]]
  /\ outbox' = [outbox EXCEPT ![a] = Decided(r, o)]
  /\ UNCHANGED done

\* Decide's critical section when the decision stands: the record is closed,
\* sent to the requester, and its event prepared for actor a to publish.
Settle(a, r, o) ==
  /\ record[r].status = "pending"
  /\ record' = [record EXCEPT ![r] = [status |-> o.status, option |-> o.option, stamped |-> TRUE]]
  /\ done' = [done EXCEPT ![r] = Append(@, o)]
  /\ outbox' = [outbox EXCEPT ![a] = Decided(r, o)]

\* Request calls Decide(Cancelled) on its own record and ignores the error
\* that says it is closed.
CancelOwn(r) ==
  /\ pc[r] = "cancelling"
  /\ \/ /\ Settle(r, r, Cancelled)
        /\ pc' = [pc EXCEPT ![r] = "closing"]
        /\ UNCHANGED answer
     \/ /\ Settled(r)
        /\ pc' = [pc EXCEPT ![r] = "returned"]
        /\ answer' = [answer EXCEPT ![r] = RequestCancelled]
        /\ UNCHANGED <<record, done, outbox>>
  /\ UNCHANGED <<ctx, log, told>>

\* Request: publish("approval.decided") of its own cancellation, and return.
PublishOwnCancel(r) ==
  /\ pc[r] = "closing"
  /\ log' = Append(log, outbox[r])
  /\ outbox' = [outbox EXCEPT ![r] = NoEvent]
  /\ answer' = [answer EXCEPT ![r] = RequestCancelled]
  /\ pc' = [pc EXCEPT ![r] = "returned"]
  /\ UNCHANGED <<record, done, ctx, told>>

\* An HTTP handler decides.  On an absent or closed record Decide returns an
\* error and changes nothing; on an option the request does not offer it
\* returns ErrInvalidOption with DecidedAt and Message already set.
Decide(h, r, d) ==
  /\ outbox[h] = NoEvent
  /\ \/ /\ d.cancelled
        /\ Settle(h, r, Cancelled)
     \/ /\ ~d.cancelled
        /\ HasOption(Offer[r], ChosenOption(r, d))
        /\ Settle(h, r, Selected(ChosenOption(r, d)))
     \/ /\ ~d.cancelled
        /\ ~HasOption(Offer[r], ChosenOption(r, d))
        /\ record[r].status = "pending"
        /\ record' = [record EXCEPT ![r].stamped = TRUE]
        /\ UNCHANGED <<done, outbox>>
  /\ UNCHANGED <<pc, ctx, answer, log, told>>

\* The handler publishes the decision it made and answers its HTTP client.
PublishDecided(h) ==
  /\ outbox[h] # NoEvent
  /\ log' = Append(log, outbox[h])
  /\ told' = [told EXCEPT ![outbox[h].request] = outbox[h].outcome]
  /\ outbox' = [outbox EXCEPT ![h] = NoEvent]
  /\ UNCHANGED <<record, done, pc, ctx, answer>>

Requester(r) ==
  \/ Insert(r) \/ PublishRequested(r) \/ ReceiveDecision(r)
  \/ ObserveCancel(r) \/ CancelOwn(r) \/ PublishOwnCancel(r)

Next ==
  \/ \E r \in Request : Requester(r) \/ EndContext(r)
  \/ \E h \in Handler : PublishDecided(h) \/ \E r \in Request, d \in Decision : Decide(h, r, d)

\* The Go scheduler runs every goroutine that can run.  Nothing makes a user
\* decide, nor a context end.
Fairness ==
  /\ \A r \in Request :
       WF_vars(PublishRequested(r) \/ ReceiveDecision(r) \/ ObserveCancel(r)
                 \/ CancelOwn(r) \/ PublishOwnCancel(r))
  /\ \A h \in Handler : WF_vars(PublishDecided(h))

Spec == Init /\ [][Next]_vars /\ Fairness

-----------------------------------------------------------------------------
\* Types, with the capacity of entry.done: the send in Decide runs under
\* b.mu, so a channel that could be full would block every other caller.
TypeOK ==
  /\ record \in [Request -> Record]
  /\ done \in [Request -> {<<>>} \cup {<<o>> : o \in Outcome}]
  /\ pc \in [Request -> {"start", "announcing", "waiting", "cancelling", "closing", "returned"}]
  /\ ctx \in [Request -> BOOLEAN]
  /\ answer \in [Request -> Outcome \cup {NoAnswer, RequestCancelled}]
  /\ outbox \in [Actor -> Event \cup {NoEvent}]
  /\ log \in Seq(Event)
  /\ told \in [Request -> Outcome \cup {NoAnswer}]

\* Whatever the race of handlers and cancellation, the agent never hears an
\* outcome other than the recorded one, never an option it did not offer,
\* and never returns while its request can still be decided (Request's
\* select, approval.go:86-92).
AnswerAgrees ==
  \A r \in Request :
    /\ answer[r] # NoAnswer => Settled(r)
    /\ answer[r] \in Outcome => answer[r] = OutcomeOf(r)
    /\ record[r].status = "selected" => HasOption(Offer[r], record[r].option)

\* Every settled request has exactly one decided event, published or in the
\* hands of the goroutine that settled it, and it carries the recorded
\* outcome; a request that is not settled has none (approval.go:154-159).
AnnouncedOnce ==
  \A r \in Request :
    LET logged == {i \in DOMAIN log : log[i] \in {Decided(r, o) : o \in Outcome}}
        held == {a \in Actor : outbox[a] \in {Decided(r, o) : o \in Outcome}}
    IN  /\ Cardinality(logged) + Cardinality(held) = IF Settled(r) THEN 1 ELSE 0
        /\ \A i \in logged : log[i] = Decided(r, OutcomeOf(r))
        /\ \A a \in held : outbox[a] = Decided(r, OutcomeOf(r))

\* Once a request is settled nothing changes its record again: not a second
\* decision, not a late cancellation, not an invalid option (the check of
\* the status precedes every write, approval.go:132-152).
DecisionIsFinal ==
  [][\A r \in Request : Settled(r) => record'[r] = record[r]]_vars

\* A call of Request returns once its request is settled or its context has
\* ended; no interleaving loses the wake-up.
RequestsReturn ==
  \A r \in Request :
    (pc[r] # "start" /\ (ctx[r] \/ Settled(r))) ~> (pc[r] = "returned")

\* The broker implements its promise: a write-once decision and one answer.
Promise ==
  INSTANCE ApprovalPromise
  WITH decision <- [r \in Request |-> OutcomeOf(r)],
       Unasked <- [status |-> "absent", option |-> NoOption],
       Open <- [status |-> "pending", option |-> NoOption],
       Abandoned <- RequestCancelled

PromiseSpec == Promise!Spec

\* What docs/agent-chat-gateway-bootstrap-integration-plan.md asks: the
\* outcome a handler reported to the UI is the one the agent acts on.
CancelAndApprovalAgree ==
  \A r \in Request :
    told[r] # NoAnswer /\ answer[r] # NoAnswer =>
      \/ answer[r] = told[r]
      \/ answer[r] = RequestCancelled /\ told[r] = Cancelled
=============================================================================
