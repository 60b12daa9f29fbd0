---------------------------- MODULE EventStream ----------------------------
(***************************************************************************)
(* One subscriber of the event bus end to end: the bus (EventBus), the     *)
(* goroutine that forwards a subscription into the channel the websocket   *)
(* hub reads (controllers/websocket_controller.go), the goroutine of       *)
(* Hub.Serve that replays the snapshot and then writes live events         *)
(* (pkg/wshub/hub.go), and the chat application that reads them,           *)
(* remembers the last event id and reconnects with it                      *)
(* (agent_chat/internal/bridge).  A subscription of the bus belongs to     *)
(* one websocket connection; a connection that broke is never reused.      *)
(***************************************************************************)
EXTENDS EventBus

CONSTANTS
  RelaySize,   \* capacity of eventSubscription.ch (32)
  Wanted       \* the events the client's sessionId filter accepts

ASSUME StreamAssumption ==
  /\ RelaySize \in Nat \ {0}
  /\ Wanted \subseteq 1..MaxEvents

VARIABLES
  link,      \* the connection: "none", "up" or "broken"
  serve,     \* Hub.Serve: "idle", "run" (the replay, then the loop), "closing", "releasing", "ended"
  replayed,  \* how much of the snapshot Serve has gone through
  forward,   \* forward(): "none", "receive", "send", "ended" (its channel closed)
  held,      \* the event forward() holds between its two selects
  relay,     \* eventSubscription.ch
  stopped,   \* is eventSubscription.done closed?
  cursor,    \* the client's lastEventID
  seen       \* history: what the client received, per connection

streamVars == <<link, serve, replayed, forward, held, relay, stopped, cursor, seen>>
streamAllVars == <<busVars, streamVars>>

-----------------------------------------------------------------------------
StreamInit ==
  /\ BusInit
  /\ link = [s \in Sub |-> "none"]
  /\ serve = [s \in Sub |-> "idle"]
  /\ replayed = [s \in Sub |-> 0]
  /\ forward = [s \in Sub |-> "none"]
  /\ held = [s \in Sub |-> NoEventId]
  /\ relay = [s \in Sub |-> <<>>]
  /\ stopped = [s \in Sub |-> FALSE]
  /\ cursor = NoEventId
  /\ seen = [s \in Sub |-> <<>>]

\* The client dials with its lastEventID, over a connection not used before
\* (which one does not matter); Serve subscribes, and the wrapper starts its
\* forwarder.
Connect(s) ==
  /\ link[s] = "none"
  /\ \A t \in Sub : link[t] # "up"
  /\ s = CHOOSE t \in Sub : link[t] = "none"
  /\ Subscribe(s, cursor)
  /\ link' = [link EXCEPT ![s] = "up"]
  /\ serve' = [serve EXCEPT ![s] = "run"]
  /\ forward' = [forward EXCEPT ![s] = "receive"]
  /\ UNCHANGED <<replayed, held, relay, stopped, cursor, seen>>

\* Environment: the connection breaks, or the client closes it.
Break(s) ==
  /\ link[s] = "up"
  /\ link' = [link EXCEPT ![s] = "broken"]
  /\ UNCHANGED <<busVars, serve, replayed, forward, held, relay, stopped, cursor, seen>>

\* writeNotification.  The client, if it is there, remembers the id of what
\* it reads.  On a broken connection the write fails, and Serve returns, or
\* ends in a socket buffer nobody reads.
Write(s, e) ==
  \/ /\ e \notin Wanted
     /\ UNCHANGED <<serve, seen, cursor>>
  \/ /\ e \in Wanted
     /\ link[s] = "up"
     /\ seen' = [seen EXCEPT ![s] = Append(@, e)]
     /\ cursor' = e
     /\ UNCHANGED serve
  \/ /\ e \in Wanted
     /\ link[s] = "broken"
     /\ \E n \in {"run", "closing"} : serve' = [serve EXCEPT ![s] = n]
     /\ UNCHANGED <<seen, cursor>>

\* Serve, the loop over the snapshot.
Replay(s) ==
  /\ serve[s] = "run"
  /\ replayed[s] < Len(snapshot[s])
  /\ Write(s, snapshot[s][replayed[s] + 1])
  /\ replayed' = [replayed EXCEPT ![s] = @ + 1]
  /\ UNCHANGED <<busVars, link, forward, held, relay, stopped>>

InLoop(s) == serve[s] = "run" /\ replayed[s] = Len(snapshot[s])

\* Defective variant: live events are written while the snapshot is replayed.
WriteEventEarly(s) ==
  /\ serve[s] = "run"
  /\ relay[s] # <<>>
  /\ Write(s, Head(relay[s]))
  /\ relay' = [relay EXCEPT ![s] = Tail(@)]
  /\ UNCHANGED <<busVars, link, replayed, forward, held, stopped>>

\* Serve, case event, ok := <-sub.Events() with an event.
WriteEvent(s) ==
  /\ InLoop(s)
  /\ relay[s] # <<>>
  /\ Write(s, Head(relay[s]))
  /\ relay' = [relay EXCEPT ![s] = Tail(@)]
  /\ UNCHANGED <<busVars, link, replayed, forward, held, stopped>>

\* Serve, the other ways out of its loop: the channel is closed and empty, or
\* the reader of the connection failed, or the context of the request ended
\* (which the model does not tell from a broken connection here).
LeaveLoop(s) ==
  /\ InLoop(s)
  /\ \/ forward[s] = "ended" /\ relay[s] = <<>>
     \/ link[s] = "broken"
  /\ serve' = [serve EXCEPT ![s] = "closing"]
  /\ link' = [link EXCEPT ![s] = "broken"]
  /\ UNCHANGED <<busVars, replayed, forward, held, relay, stopped, cursor, seen>>

\* Serve, deferred sub.Close(): first close(done), then Subscription.Close.
StopForward(s) ==
  /\ serve[s] = "closing"
  /\ serve' = [serve EXCEPT ![s] = "releasing"]
  /\ stopped' = [stopped EXCEPT ![s] = TRUE]
  /\ UNCHANGED <<busVars, link, replayed, forward, held, relay, cursor, seen>>

Release(s) ==
  /\ serve[s] = "releasing"
  /\ serve' = [serve EXCEPT ![s] = "ended"]
  /\ IF stage[s] = "open" THEN Close(s) ELSE UNCHANGED busVars
  /\ UNCHANGED <<link, replayed, forward, held, relay, stopped, cursor, seen>>

\* The goroutine Bus.Subscribe starts: the context of the request ended, so
\* the subscription closes under the reader.
EndRequest(s) ==
  /\ serve[s] = "run"
  /\ Close(s)
  /\ UNCHANGED streamVars

-----------------------------------------------------------------------------
(* forward()                                                               *)

Receive(s) ==
  /\ forward[s] = "receive"
  /\ Take(s)
  /\ held' = [held EXCEPT ![s] = Head(queue[s])]
  /\ forward' = [forward EXCEPT ![s] = "send"]
  /\ UNCHANGED <<link, serve, replayed, relay, stopped, cursor, seen>>

Send(s) ==
  /\ forward[s] = "send"
  /\ Len(relay[s]) < RelaySize
  /\ relay' = [relay EXCEPT ![s] = Append(@, held[s])]
  /\ forward' = [forward EXCEPT ![s] = "receive"]
  /\ UNCHANGED <<busVars, link, serve, replayed, held, stopped, cursor, seen>>

\* Defective variant: the inner send does not watch done.
EndForwardOutside(s) ==
  /\ forward[s] = "receive"
  /\ stopped[s] \/ (stage[s] = "closed" /\ queue[s] = <<>>)
  /\ forward' = [forward EXCEPT ![s] = "ended"]
  /\ UNCHANGED <<busVars, link, serve, replayed, held, relay, stopped, cursor, seen>>

\* Both selects watch done; the outer one ends on a closed, empty channel too.
EndForward(s) ==
  /\ \/ forward[s] \in {"receive", "send"} /\ stopped[s]
     \/ forward[s] = "receive" /\ stage[s] = "closed" /\ queue[s] = <<>>
  /\ forward' = [forward EXCEPT ![s] = "ended"]
  /\ UNCHANGED <<busVars, link, serve, replayed, held, relay, stopped, cursor, seen>>

-----------------------------------------------------------------------------
Publishing(p) == Publish(p) /\ UNCHANGED streamVars
Delivering(p) == \E s \in Sub : Deliver(p, s) /\ UNCHANGED streamVars
Serving(s) ==
  Replay(s) \/ WriteEvent(s) \/ LeaveLoop(s) \/ StopForward(s) \/ Release(s)
Forwarding(s) == Receive(s) \/ Send(s) \/ EndForward(s)
Environment(s) == Connect(s) \/ Break(s) \/ EndRequest(s)

StreamNext ==
  \/ \E p \in Publisher : Publishing(p) \/ Delivering(p)
  \/ \E s \in Sub : Serving(s) \/ Forwarding(s) \/ Environment(s)

\* Goroutines that can run do; the client and the network owe nothing.
StreamFairness ==
  /\ \A p \in Publisher : WF_streamAllVars(Delivering(p))
  /\ \A s \in Sub : WF_streamAllVars(Serving(s)) /\ WF_streamAllVars(Forwarding(s))

StreamSpec == StreamInit /\ [][StreamNext]_streamAllVars /\ StreamFairness

-----------------------------------------------------------------------------
StreamTypeOK ==
  /\ BusTypeOK
  /\ \A s \in Sub : Len(queue[s]) <= QueueSize /\ Len(relay[s]) <= RelaySize
  /\ link \in [Sub -> {"none", "up", "broken"}]
  /\ serve \in [Sub -> {"idle", "run", "closing", "releasing", "ended"}]
  /\ replayed \in [Sub -> 0..RingSize]
  /\ forward \in [Sub -> {"none", "receive", "send", "ended"}]
  /\ held \in [Sub -> 0..MaxEvents]
  /\ relay \in [Sub -> Seq(1..MaxEvents)]
  /\ stopped \in [Sub -> BOOLEAN]
  /\ cursor \in {NoEventId} \cup Wanted
  /\ seen \in [Sub -> Seq(Wanted)]

\* What connection s has for its client: its snapshot, then its channel.
Due(s) == snapshot[s] \o delivered[s]
WantedUpTo(s, a) == Cardinality({b \in 1..a : Due(s)[b] \in Wanted})

(* A connection shows the client the wanted events of its snapshot and     *)
(* then of its channel in the order they entered it, none skipped and none *)
(* twice, whatever the forwarder and Serve are doing: the i-th event it    *)
(* has seen is the i-th wanted one of that stream.                         *)
SeenInOrder ==
  \A s \in Sub : \A i \in DOMAIN seen[s] : \E a \in DOMAIN Due(s) :
    seen[s][i] = Due(s)[a] /\ seen[s][i] \in Wanted /\ WantedUpTo(s, a) = i

(* A broken connection leaves nothing behind: Serve returns, the forwarder *)
(* ends though it may be blocked on a channel nobody reads, and the bus    *)
(* forgets the subscription.                                               *)
BrokenLinkReleases ==
  \A s \in Sub :
    link[s] = "broken" ~>
      serve[s] = "ended" /\ forward[s] = "ended" /\ stage[s] = "closed"
=============================================================================
