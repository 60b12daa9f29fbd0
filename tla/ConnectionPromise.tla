-------------------------- MODULE ConnectionPromise --------------------------
(***************************************************************************)
(* What the gateway's MCP manager promises of its connections, with no     *)
(* mutex, retry or row: a connection is made, may serve one server, and is *)
(* closed once.  What takes its place in the table, or the end of the      *)
(* manager, is the only reason to close one that serves; it is in nobody's *)
(* hands twice and never forgotten.  Tool calls begin on what serves their *)
(* server, and the end of the manager closes what then serves only when no *)
(* call is in flight.                                                      *)
(***************************************************************************)

CONSTANTS
  Server,     \* ids of servers
  Caller,     \* those who call tools
  Client,     \* connections
  None        \* no connection

VARIABLES
  life,       \* of each connection: "unused", "new", "serving", "retired", "last", "closed"
  serving,    \* the connection that serves each server
  use,        \* the connection each caller's tool call is on
  ended       \* the manager was closed

vars == <<life, serving, use, ended>>

Init ==
  /\ life = [k \in Client |-> "unused"]
  /\ serving = [s \in Server |-> None]
  /\ use = [c \in Caller |-> None]
  /\ ended = FALSE

Make(k) ==
  /\ life[k] = "unused"
  /\ life' = [life EXCEPT ![k] = "new"]
  /\ UNCHANGED <<serving, use, ended>>

\* A connection serves s from now on, and what served it is to be closed.
Serve(s, k) ==
  /\ ~ended /\ life[k] = "new"
  /\ life' = [l \in Client |-> IF l = k THEN "serving" ELSE IF l = serving[s] THEN "retired" ELSE life[l]]
  /\ serving' = [serving EXCEPT ![s] = k]
  /\ UNCHANGED <<use, ended>>

Withdraw(s) ==
  /\ ~ended
  /\ life' = [l \in Client |-> IF l = serving[s] THEN "retired" ELSE life[l]]
  /\ serving' = [serving EXCEPT ![s] = None]
  /\ UNCHANGED <<use, ended>>

\* A connection that is ready after the end never serves.
ComeTooLate(k) ==
  /\ ended /\ life[k] = "new"
  /\ life' = [life EXCEPT ![k] = "retired"]
  /\ UNCHANGED <<serving, use, ended>>

\* A new one is closed when it is of no use.
Discard(k) ==
  /\ life[k] \in {"new", "retired"}
  /\ life' = [life EXCEPT ![k] = "closed"]
  /\ UNCHANGED <<serving, use, ended>>

CallTool(c, s) ==
  /\ ~ended /\ use[c] = None /\ serving[s] # None
  /\ use' = [use EXCEPT ![c] = serving[s]]
  /\ UNCHANGED <<life, serving, ended>>

Return(c) ==
  /\ use[c] # None
  /\ use' = [use EXCEPT ![c] = None]
  /\ UNCHANGED <<life, serving, ended>>

\* The manager is closed: nothing serves, and what did is closed after the
\* last call.
End ==
  /\ ~ended /\ ended' = TRUE
  /\ life' = [l \in Client |-> IF life[l] = "serving" THEN "last" ELSE life[l]]
  /\ serving' = [s \in Server |-> None]
  /\ UNCHANGED use

CloseLast(k) ==
  /\ life[k] = "last" /\ \A c \in Caller : use[c] = None
  /\ life' = [life EXCEPT ![k] = "closed"]
  /\ UNCHANGED <<serving, use, ended>>

Next ==
  \/ \E k \in Client : Make(k) \/ ComeTooLate(k) \/ Discard(k) \/ CloseLast(k)
  \/ \E s \in Server : Withdraw(s) \/ \E k \in Client : Serve(s, k)
  \/ \E c \in Caller : Return(c) \/ \E s \in Server : CallTool(c, s)
  \/ End

Spec == Init /\ [][Next]_vars
=============================================================================
