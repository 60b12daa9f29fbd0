----------------------------- MODULE FeedPromise -----------------------------
(***************************************************************************)
(* What the gateway's event bus promises its subscribers, with no ring,    *)
(* mutex, publisher or copy of the subscriber set.  There is one history   *)
(* of events.  A subscription starts with the recent ones that follow the  *)
(* event its client saw last, up to the moment it joins; every later event *)
(* is offered to it once, in any order, and it misses one only while as    *)
(* many as it may leave unread are unread, or after it was closed.         *)
(***************************************************************************)
EXTENDS Naturals, Sequences

CONSTANTS
  Sub,        \* subscriptions
  Recent,     \* how many events can be replayed
  Backlog     \* how many delivered events a subscription may leave unread

VARIABLES
  last,       \* how many events there were
  stage,      \* of each subscription: "new", "open" or "closed"
  replay,     \* what it starts with
  owed,       \* what is to be offered to it
  unread      \* what it was given and has not read

vars == <<last, stage, replay, owed, unread>>

Init ==
  /\ last = 0
  /\ stage = [s \in Sub |-> "new"]
  /\ replay = [s \in Sub |-> <<>>]
  /\ owed = [s \in Sub |-> {}]
  /\ unread = [s \in Sub |-> <<>>]

Happen ==
  /\ last' = last + 1
  /\ owed' = [s \in Sub |-> IF stage[s] = "open" THEN owed[s] \cup {last + 1} ELSE owed[s]]
  /\ UNCHANGED <<stage, replay, unread>>

Latest(n) == [i \in 1..n |-> last - n + i]
Kept == IF last < Recent THEN last ELSE Recent

\* The recent events after event e; all of them for a client that saw none.
After(e) == IF e = 0 THEN Latest(Kept) ELSE IF e > last - Kept THEN Latest(last - e) ELSE <<>>

Join(s, e) ==
  /\ stage[s] = "new"
  /\ stage' = [stage EXCEPT ![s] = "open"]
  /\ replay' = [replay EXCEPT ![s] = After(e)]
  /\ UNCHANGED <<last, owed, unread>>

Give(s, e) ==
  /\ e \in owed[s]
  /\ owed' = [owed EXCEPT ![s] = @ \ {e}]
  /\ unread' = IF stage[s] = "open" /\ Len(unread[s]) < Backlog
               THEN [unread EXCEPT ![s] = Append(@, e)] ELSE unread
  /\ UNCHANGED <<last, stage, replay>>

Read(s) ==
  /\ unread[s] # <<>>
  /\ unread' = [unread EXCEPT ![s] = Tail(@)]
  /\ UNCHANGED <<last, stage, replay, owed>>

Leave(s) ==
  /\ stage[s] = "open"
  /\ stage' = [stage EXCEPT ![s] = "closed"]
  /\ UNCHANGED <<last, replay, owed, unread>>

Next ==
  \/ Happen
  \/ \E s \in Sub : Read(s) \/ Leave(s) \/ \E e \in 0..last : Join(s, e) \/ Give(s, e)

Spec == Init /\ [][Next]_vars
=============================================================================
