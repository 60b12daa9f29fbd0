------------------------------ MODULE EventBus ------------------------------
(***************************************************************************)
(* The gateway's in-process event bus (events/bus.go): a ring of the most  *)
(* recent events and one bounded channel per subscriber.  Publish pushes   *)
(* the event and copies the set of subscribers under b.mu, and offers the  *)
(* event to each of them after the unlock, one sub.mu at a time, in the    *)
(* order of a Go map.  So the events of two publishers may reach a         *)
(* subscriber in the other order than the ring has them.                   *)
(*                                                                         *)
(* An event is identified by a fresh id that the bus only compares for     *)
(* equality; the model numbers the events in the order they enter the      *)
(* ring, so that event e is the e-th event published.                      *)
(***************************************************************************)
EXTENDS Naturals, Sequences, FiniteSets

CONSTANTS
  Publisher,   \* goroutines that call Publish
  Sub,         \* subscriptions; each is made once, by one call of Subscribe
  RingSize,    \* length of b.ring (256)
  QueueSize,   \* capacity of a subscriber's channel (32)
  MaxEvents    \* bound of the model: how many events are published

ASSUME BusAssumption ==
  /\ RingSize \in Nat \ {0}
  /\ QueueSize \in Nat \ {0}
  /\ MaxEvents \in Nat

NoEventId == 0    \* the empty event id, and an empty slot of the ring

VARIABLES
  ring, ringStart, ringCount,   \* the ring buffer
  pushed,      \* history: how many events have entered the ring
  event,       \* the event each publisher is delivering
  targets,     \* the subscribers it has copied and not served yet
  stage,       \* each subscription: "new", in b.subscribers, or "closed"
  queue,       \* the channel of each subscription
  snapshot,    \* the buffered events Subscribe returned
  since,       \* history: the lastEventID Subscribe was called with
  joined,      \* history: the value of pushed when it was called
  delivered,   \* history: what has entered the channel, in order
  dropped      \* history: what a full channel refused

ringVars == <<ring, ringStart, ringCount, pushed>>
pubVars == <<event, targets>>
subVars == <<stage, queue, snapshot, since, joined, delivered, dropped>>
busVars == <<ringVars, pubVars, subVars>>

Slot == 0..(RingSize - 1)

-----------------------------------------------------------------------------
BusInit ==
  /\ ring = [i \in Slot |-> NoEventId]
  /\ ringStart = 0
  /\ ringCount = 0
  /\ pushed = 0
  /\ event = [p \in Publisher |-> NoEventId]
  /\ targets = [p \in Publisher |-> {}]
  /\ stage = [s \in Sub |-> "new"]
  /\ queue = [s \in Sub |-> <<>>]
  /\ snapshot = [s \in Sub |-> <<>>]
  /\ since = [s \in Sub |-> NoEventId]
  /\ joined = [s \in Sub |-> 0]
  /\ delivered = [s \in Sub |-> <<>>]
  /\ dropped = [s \in Sub |-> {}]

\* Defective variant: the ring never counts as full.
PushUncapped(e) ==
  /\ ring' = [ring EXCEPT ![(ringStart + ringCount) % RingSize] = e]
  /\ ringCount' = ringCount + 1
  /\ UNCHANGED ringStart

\* Defective variant: a full ring overwrites its oldest slot and leaves
\* ringStart where it is.
PushKeepingStart(e) ==
  IF ringCount < RingSize
  THEN /\ ring' = [ring EXCEPT ![(ringStart + ringCount) % RingSize] = e]
       /\ ringCount' = ringCount + 1
       /\ UNCHANGED ringStart
  ELSE /\ ring' = [ring EXCEPT ![ringStart] = e]
       /\ UNCHANGED <<ringStart, ringCount>>

PushToRing(e) ==
  IF ringCount < RingSize
  THEN /\ ring' = [ring EXCEPT ![(ringStart + ringCount) % RingSize] = e]
       /\ ringCount' = ringCount + 1
       /\ UNCHANGED ringStart
  ELSE /\ ring' = [ring EXCEPT ![ringStart] = e]
       /\ ringStart' = (ringStart + 1) % RingSize
       /\ UNCHANGED ringCount

\* Defective variant: the subscribers are copied before b.mu is taken for the
\* push, so the copy may miss one that joined in between.
PublishStaleCopy(p) ==
  /\ targets[p] = {}
  /\ pushed < MaxEvents
  /\ pushed' = pushed + 1
  /\ PushToRing(pushed + 1)
  /\ event' = [event EXCEPT ![p] = pushed + 1]
  /\ \E late \in SUBSET {s \in Sub : stage[s] = "open" /\ joined[s] = pushed} :
       targets' = [targets EXCEPT ![p] = {s \in Sub : stage[s] = "open"} \ late]
  /\ UNCHANGED subVars

\* Publish, under b.mu.
Publish(p) ==
  /\ targets[p] = {}
  /\ pushed < MaxEvents
  /\ pushed' = pushed + 1
  /\ PushToRing(pushed + 1)
  /\ event' = [event EXCEPT ![p] = pushed + 1]
  /\ targets' = [targets EXCEPT ![p] = {s \in Sub : stage[s] = "open"}]
  /\ UNCHANGED subVars

\* subscriber.deliver, under sub.mu: never waits.
Deliver(p, s) ==
  /\ s \in targets[p]
  /\ targets' = [targets EXCEPT ![p] = @ \ {s}]
  /\ \/ /\ stage[s] = "closed"
        /\ UNCHANGED <<queue, delivered, dropped>>
     \/ /\ stage[s] # "closed"
        /\ Len(queue[s]) < QueueSize
        /\ queue' = [queue EXCEPT ![s] = Append(@, event[p])]
        /\ delivered' = [delivered EXCEPT ![s] = Append(@, event[p])]
        /\ UNCHANGED dropped
     \/ /\ stage[s] # "closed"
        /\ Len(queue[s]) >= QueueSize
        /\ dropped' = [dropped EXCEPT ![s] = @ \cup {event[p]}]
        /\ UNCHANGED <<queue, delivered>>
  /\ UNCHANGED <<ringVars, event, stage, snapshot, since, joined>>

\* The events in the ring, oldest first.
Buffered == [i \in 1..ringCount |-> ring[(ringStart + i - 1) % RingSize]]

\* snapshotSince: everything for the empty id, what follows the id if the
\* ring still holds it, nothing otherwise.
SnapshotSince(last) ==
  IF last = NoEventId THEN Buffered
  ELSE IF \E i \in 1..ringCount : Buffered[i] = last
       THEN SubSeq(Buffered, (CHOOSE i \in 1..ringCount : Buffered[i] = last) + 1, ringCount)
       ELSE <<>>

\* Defective variant: the snapshot is taken before the subscriber is added,
\* in a critical section of its own, so one event may fall between them.
SubscribeLate(s, last) ==
  /\ stage[s] = "new"
  /\ stage' = [stage EXCEPT ![s] = "open"]
  /\ \E missed \in 0..1 :
       LET snap == SnapshotSince(last)
       IN  /\ missed <= Len(snap)
           /\ snapshot' = [snapshot EXCEPT ![s] = SubSeq(snap, 1, Len(snap) - missed)]
  /\ since' = [since EXCEPT ![s] = last]
  /\ joined' = [joined EXCEPT ![s] = pushed]
  /\ UNCHANGED <<ringVars, pubVars, queue, delivered, dropped>>

\* Subscribe: joins and takes the snapshot in one critical section of b.mu.
Subscribe(s, last) ==
  /\ stage[s] = "new"
  /\ stage' = [stage EXCEPT ![s] = "open"]
  /\ snapshot' = [snapshot EXCEPT ![s] = SnapshotSince(last)]
  /\ since' = [since EXCEPT ![s] = last]
  /\ joined' = [joined EXCEPT ![s] = pushed]
  /\ UNCHANGED <<ringVars, pubVars, queue, delivered, dropped>>

\* Subscription.Close (at most once), unsubscribe and subscriber.close.  What
\* the channel holds can still be received.
Close(s) ==
  /\ stage[s] = "open"
  /\ stage' = [stage EXCEPT ![s] = "closed"]
  /\ UNCHANGED <<ringVars, pubVars, queue, snapshot, since, joined, delivered, dropped>>

\* The reader of the subscription receives from its channel.
Take(s) ==
  /\ queue[s] # <<>>
  /\ queue' = [queue EXCEPT ![s] = Tail(@)]
  /\ UNCHANGED <<ringVars, pubVars, stage, snapshot, since, joined, delivered, dropped>>

BusNext ==
  \/ \E p \in Publisher : Publish(p) \/ \E s \in Sub : Deliver(p, s)
  \/ \E s \in Sub :
       \/ \E last \in 0..pushed : Subscribe(s, last)
       \/ Close(s)
       \/ Take(s)

\* A publisher works through its copy of the subscribers; nobody else owes
\* anything.
BusFairness == \A p \in Publisher : WF_busVars(\E s \in Sub : Deliver(p, s))

BusSpec == BusInit /\ [][BusNext]_busVars /\ BusFairness

-----------------------------------------------------------------------------
BusTypeOK ==
  /\ ring \in [Slot -> Nat]
  /\ ringStart \in Slot
  /\ ringCount \in 0..RingSize
  /\ pushed \in Nat
  /\ event \in [Publisher -> Nat]
  /\ targets \in [Publisher -> SUBSET Sub]
  /\ stage \in [Sub -> {"new", "open", "closed"}]
  /\ queue \in [Sub -> Seq(Nat)]
  /\ snapshot \in [Sub -> Seq(Nat)]
  /\ since \in [Sub -> Nat]
  /\ joined \in [Sub -> Nat]
  /\ delivered \in [Sub -> Seq(Nat)]
  /\ dropped \in [Sub -> SUBSET Nat]

(* The ring holds the most recent events, oldest first, and forgets none   *)
(* while it has room (pushToRing's index arithmetic).                      *)
RingIsRecent ==
  /\ \A i \in 0..(ringCount - 1) :
       ring[(ringStart + i) % RingSize] = pushed - ringCount + i + 1
  /\ ringCount < RingSize => pushed = ringCount

\* Publisher p has still to offer event e to subscription s.
Waiting(p, s, e) == s \in targets[p] /\ event[p] = e

WasDelivered(s, e) == \E i \in DOMAIN delivered[s] : delivered[s][i] = e

(* An open subscription accounts for every event published since it        *)
(* joined exactly once: on its way, delivered or dropped by a full queue;  *)
(* never an event from before it joined.  Neither the copy of the          *)
(* subscriber set that Publish uses after the unlock, nor publishers that  *)
(* overtake each other, lose or repeat one.                                *)
LiveExactlyOnce ==
  \A s \in Sub :
    /\ stage[s] = "open" =>
         \A e \in (joined[s] + 1)..pushed :
           \/ \E p \in Publisher : Waiting(p, s, e)
           \/ WasDelivered(s, e)
           \/ e \in dropped[s]
    /\ \A i, j \in DOMAIN delivered[s] : delivered[s][i] = delivered[s][j] => i = j
    /\ \A i \in DOMAIN delivered[s] :
         /\ delivered[s][i] \in (joined[s] + 1)..pushed
         /\ delivered[s][i] \notin dropped[s]

(* The snapshot a subscription starts with is consecutive and ends with    *)
(* the last event published before it joined, so that no event falls       *)
(* between the snapshot and the channel.  (It may be empty: nothing was    *)
(* published after lastEventID, or the ring no longer holds that id.)      *)
SnapshotMeetsLive ==
  \A s \in Sub : \A i \in DOMAIN snapshot[s] :
    snapshot[s][i] = joined[s] - Len(snapshot[s]) + i

Feed ==
  INSTANCE FeedPromise
    WITH Recent <- RingSize, Backlog <- QueueSize,
         last <- pushed, replay <- snapshot, unread <- queue,
         owed <- [s \in Sub |-> {event[p] : p \in {q \in Publisher : s \in targets[q]}}]

(* The bus implements FeedPromise: its ring is the recent history, and     *)
(* what publishers hold for a subscription outside b.mu is what it is      *)
(* owed, each event once.                                                  *)
FeedsKeepPromise == Feed!Spec

(* What pkg/wshub/README.md promises of a new connection: the buffered     *)
(* events after lastEventId are replayed.                                  *)
ReplaysAfterLastEventId ==
  \A s \in Sub :
    stage[s] # "new" /\ since[s] < joined[s] /\ joined[s] > 0 => snapshot[s] # <<>>
=============================================================================
