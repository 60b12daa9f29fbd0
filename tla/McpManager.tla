----------------------------- MODULE McpManager -----------------------------
(***************************************************************************)
(* The manager of the connections to MCP servers                           *)
(* (agent_gateway/internal/runtime/mcp/manager.go) and the service that    *)
(* drives it (services/admin/mcp_server_service.go).  Handlers and the     *)
(* agents' extensions edit the servers' rows, refresh their tools and call *)
(* them; a connection is made, listed and closed outside the manager's     *)
(* mutex, which guards only the table.  The end of the gateway closes the  *)
(* manager while all of that goes on.                                      *)
(* What a refresh writes back into the row (tools, status, last error) and *)
(* the status events are for display, and left out.                        *)
(***************************************************************************)
EXTENDS Naturals, FiniteSets

CONSTANTS
  Server,     \* ids of MCP servers
  Caller,     \* goroutines that call the service
  Client,     \* connections
  None,       \* no connection
  NoServer,   \* the server of a goroutine at rest
  Stored,     \* the rows the gateway finds in its database
  MaxOps      \* bound of the model: calls of the service

\* sound: the configuration has a transport (Normalized, ResolveTransport).
Row == [present : BOOLEAN, enabled : BOOLEAN, sound : BOOLEAN]

ASSUME McpAssumption ==
  /\ Stored \in [Server -> Row]
  /\ None \notin Client
  /\ NoServer \notin Server
  /\ MaxOps \in Nat

VARIABLES
  rows,     \* the rows of the servers
  conns,    \* Manager.servers: client and state of each entry ("none": no entry)
  closed,   \* Manager.closed
  client,   \* the life of each connection
  call,     \* what each goroutine is doing
  shut,     \* Close: "no", "wait" (for calls in flight), "closing", "done"
  taken,    \* the connections Close took out and has not closed yet
  ops       \* how much of the bound is used

vars == <<rows, conns, closed, client, call, shut, taken, ops>>

NoRow == [present |-> FALSE, enabled |-> FALSE, sound |-> FALSE]
Rest == [pc |-> "idle", server |-> NoServer, row |-> NoRow, held |-> None, tries |-> 0]

Open(k) == client[k] = "open"
Calling == {c \in Caller : call[c].pc = "calling"}

Init ==
  /\ rows = Stored
  /\ conns = [s \in Server |-> [client |-> None, state |-> "none"]]
  /\ closed = FALSE
  /\ client = [k \in Client |-> "unused"]
  /\ call = [c \in Caller |-> Rest]
  /\ shut = "no"
  /\ taken = {}
  /\ ops = 0

-----------------------------------------------------------------------------
(* The service: rows first, then the manager.  (Goroutines at rest are     *)
(* alike.  syncRuntimeAsync starts a goroutine of its own; the handler is  *)
(* done then, and its goroutine stands for the new one.)                   *)

Begin(c) ==
  /\ call[c].pc = "idle"
  /\ c = CHOOSE d \in Caller : call[d].pc = "idle"
  /\ ops < MaxOps
  /\ ops' = ops + 1
  /\ UNCHANGED <<conns, closed, client, shut, taken>>

Enter(c, s, pc) == call' = [call EXCEPT ![c].pc = pc, ![c].server = s]
Goto(c, pc) == call' = [call EXCEPT ![c].pc = pc]
End(c) == call' = [call EXCEPT ![c] = Rest]

\* Update, or Create with an id of the caller's choice: a row that is enabled
\* is refreshed; one that is not stays connected.
Save(c, s) ==
  /\ Begin(c)
  /\ \E row \in {r \in Row : r.present} :
       /\ rows' = [rows EXCEPT ![s] = row]
       /\ IF row.enabled THEN Enter(c, s, "get") ELSE UNCHANGED call

Delete(c, s) ==
  /\ Begin(c)
  /\ rows[s].present
  /\ rows' = [rows EXCEPT ![s] = NoRow]
  /\ Enter(c, s, "close")

SetStatus(c, s) ==
  /\ Begin(c)
  /\ rows[s].present
  /\ \E enabled \in BOOLEAN :
       /\ rows' = [rows EXCEPT ![s].enabled = enabled]
       /\ Enter(c, s, IF enabled THEN "reread" ELSE "close")

\* SetStatus reads the row back and refreshes it if it is still enabled.
Reread(c) ==
  LET row == rows[call[c].server]
  IN  /\ call[c].pc = "reread"
      /\ IF row.present /\ row.enabled THEN Goto(c, "get") ELSE End(c)
      /\ UNCHANGED <<rows, conns, closed, client, shut, taken, ops>>

Refresh(c, s) == Begin(c) /\ Enter(c, s, "get") /\ UNCHANGED rows

Get(c) ==
  LET row == rows[call[c].server]
  IN  /\ call[c].pc = "get"
      /\ IF row.present THEN call' = [call EXCEPT ![c].pc = "resolve", ![c].row = row]
         ELSE End(c)
      /\ UNCHANGED <<rows, conns, closed, client, shut, taken, ops>>

-----------------------------------------------------------------------------
(* RefreshTools.                                                           *)

\* recordFailure: the entry keeps the client it has.
RecordFailure(c) ==
  conns' = IF closed THEN conns ELSE [conns EXCEPT ![call[c].server].state = "failed"]

\* The configuration is checked, its environment file read (which may
\* fail), and the entry is said to be connecting.
Resolve(c) ==
  LET row == call[c].row
      s == call[c].server
  IN  /\ call[c].pc = "resolve"
      /\ \/ ~row.sound /\ RecordFailure(c) /\ End(c)
         \/ row.sound /\ ~row.enabled /\ Goto(c, "close") /\ UNCHANGED conns
         \/ /\ row.sound /\ row.enabled
            /\ \/ RecordFailure(c) /\ End(c)
               \/ closed /\ End(c) /\ UNCHANGED conns
               \/ /\ ~closed
                  /\ conns' = [conns EXCEPT ![s].state = "connecting"]
                  /\ call' = [call EXCEPT ![c].pc = "connect", ![c].tries = 1]
      /\ UNCHANGED <<rows, closed, client, shut, taken, ops>>

Connect(c) ==
  /\ call[c].pc = "connect"
  /\ \/ RecordFailure(c) /\ End(c) /\ UNCHANGED client
     \/ \E k \in Client :
          /\ client[k] = "unused"
          /\ k = CHOOSE l \in Client : client[l] = "unused"
          /\ client' = [client EXCEPT ![k] = "open"]
          /\ call' = [call EXCEPT ![c].pc = "list", ![c].held = k]
          /\ UNCHANGED conns
  /\ UNCHANGED <<rows, closed, shut, taken, ops>>

\* A connection that cannot list is closed, and a second one is tried.
List(c) ==
  /\ call[c].pc = "list"
  /\ \/ Goto(c, "replace") /\ UNCHANGED <<conns, client>>
     \/ /\ client' = [client EXCEPT ![call[c].held] = "closed"]
        /\ \/ /\ call[c].tries = 1
              /\ call' = [call EXCEPT ![c].pc = "connect", ![c].held = None, ![c].tries = 2]
              /\ UNCHANGED conns
           \/ call[c].tries = 2 /\ RecordFailure(c) /\ End(c)
  /\ UNCHANGED <<rows, closed, shut, taken, ops>>

\* What leaves the table is still to be closed by its goroutine.
DropOf(c, k) ==
  IF k = None THEN End(c) ELSE call' = [call EXCEPT ![c].pc = "drop", ![c].held = k]

\* Defective variant: closed is not looked at again.
ReplaceAnyway(c) ==
  LET s == call[c].server
  IN  /\ call[c].pc = "replace"
      /\ conns' = [conns EXCEPT ![s] = [client |-> call[c].held, state |-> "connected"]]
      /\ DropOf(c, conns[s].client)
      /\ UNCHANGED <<rows, closed, client, shut, taken, ops>>

\* Defective variant: the client that is replaced is forgotten.
ReplaceForgetting(c) ==
  LET s == call[c].server
  IN  /\ call[c].pc = "replace"
      /\ \/ closed /\ Goto(c, "drop") /\ UNCHANGED conns
         \/ /\ ~closed
            /\ conns' = [conns EXCEPT ![s] = [client |-> call[c].held, state |-> "connected"]]
            /\ End(c)
      /\ UNCHANGED <<rows, closed, client, shut, taken, ops>>

\* The new client replaces the one in the table, whatever the row says now;
\* or the manager was closed meanwhile, and the new one is closed.
Replace(c) ==
  LET s == call[c].server
  IN  /\ call[c].pc = "replace"
      /\ \/ closed /\ Goto(c, "drop") /\ UNCHANGED conns
         \/ /\ ~closed
            /\ conns' = [conns EXCEPT ![s] = [client |-> call[c].held, state |-> "connected"]]
            /\ DropOf(c, conns[s].client)
      /\ UNCHANGED <<rows, closed, client, shut, taken, ops>>

\* closeServerWithState, for a refresh of a disabled row or for CloseServer.
CloseServer(c) ==
  LET s == call[c].server
      state == IF call[c].row.present THEN "disabled" ELSE "disconnected"
  IN  /\ call[c].pc = "close"
      /\ \/ closed /\ End(c) /\ UNCHANGED conns
         \/ /\ ~closed
            /\ conns' = [conns EXCEPT ![s] = [client |-> None, state |-> state]]
            /\ DropOf(c, conns[s].client)
      /\ UNCHANGED <<rows, closed, client, shut, taken, ops>>

Drop(c) ==
  /\ call[c].pc = "drop"
  /\ client' = [client EXCEPT ![call[c].held] = "closed"]
  /\ End(c)
  /\ UNCHANGED <<rows, conns, closed, shut, taken, ops>>

-----------------------------------------------------------------------------
(* Tool calls and the end of the manager.                                  *)

\* The client is looked up and the call counted under the read lock.
CallTool(c, s) ==
  /\ Begin(c)
  /\ ~closed
  /\ conns[s].client # None
  /\ call' = [call EXCEPT ![c].pc = "calling", ![c].server = s, ![c].held = conns[s].client]
  /\ UNCHANGED rows

EndCall(c) ==
  /\ call[c].pc = "calling"
  /\ End(c)
  /\ UNCHANGED <<rows, conns, closed, client, shut, taken, ops>>

Close ==
  /\ ~closed
  /\ closed' = TRUE
  /\ taken' = {conns[s].client : s \in Server} \ {None}
  /\ conns' = [s \in Server |->
       [client |-> None, state |-> IF conns[s].state = "none" THEN "none" ELSE "closed"]]
  /\ shut' = "wait"
  /\ UNCHANGED <<rows, client, call, ops>>

\* Defective variant: calls in flight are not waited for.
EndWaitEarly ==
  /\ shut = "wait"
  /\ shut' = "closing"
  /\ UNCHANGED <<rows, conns, closed, client, call, taken, ops>>

\* inflight.Wait returns.
EndWait ==
  /\ shut = "wait"
  /\ Calling = {}
  /\ shut' = "closing"
  /\ UNCHANGED <<rows, conns, closed, client, call, taken, ops>>

CloseTaken ==
  /\ shut = "closing"
  /\ \/ \E k \in taken :
          /\ client' = [client EXCEPT ![k] = "closed"]
          /\ taken' = taken \ {k}
          /\ UNCHANGED shut
     \/ taken = {} /\ shut' = "done" /\ UNCHANGED <<client, taken>>
  /\ UNCHANGED <<rows, conns, closed, call, ops>>

-----------------------------------------------------------------------------
Serve(c) ==
  \E s \in Server : Save(c, s) \/ Delete(c, s) \/ SetStatus(c, s) \/ Refresh(c, s) \/ CallTool(c, s)
Step(c) ==
  Reread(c) \/ Get(c) \/ Resolve(c) \/ Replace(c) \/ CloseServer(c) \/ Drop(c)
Shut == EndWait \/ CloseTaken

Next ==
  \/ \E c \in Caller : Serve(c) \/ Step(c) \/ Connect(c) \/ List(c) \/ EndCall(c)
  \/ Close
  \/ Shut

\* Goroutines that can run do.  A server owes no answer to Connect, ListTools
\* or CallTool, and nobody owes a call or the closing.
Fairness == WF_vars(Shut) /\ \A c \in Caller : WF_vars(Step(c))

Spec == Init /\ [][Next]_vars /\ Fairness

-----------------------------------------------------------------------------
State == {"none", "connecting", "connected", "failed", "disconnected", "disabled", "closed"}
Entry == [client : Client \cup {None}, state : State]
CallState ==
  [pc : {"idle", "reread", "get", "resolve", "connect", "list", "replace", "close", "drop", "calling"},
   server : Server \cup {NoServer}, row : Row, held : Client \cup {None}, tries : 0..2]

TypeOK ==
  /\ rows \in [Server -> Row]
  /\ conns \in [Server -> Entry]
  /\ closed \in BOOLEAN
  /\ client \in [Client -> {"unused", "open", "closed"}]
  /\ call \in [Caller -> CallState]
  /\ \A c \in Caller :
       /\ call[c].held # None <=> call[c].pc \in {"list", "replace", "drop", "calling"}
       /\ call[c].server = NoServer <=> call[c].pc = "idle"
  /\ shut \in {"no", "wait", "closing", "done"}
  /\ taken \subseteq Client
  /\ ops \in Nat

\* A goroutine that will close the connection k, or give it to the table.
Holds(c, k) == call[c].held = k /\ call[c].pc \in {"list", "replace", "drop"}

(* No connection is lost: while it is open the table has it, or a refresh  *)
(* or a disconnect that will close it, or Close; whatever refreshes,       *)
(* deletions, retries and the end of the manager overlap.                  *)
NoClientLost ==
  \A k \in Client :
    Open(k) => \/ \E s \in Server : conns[s].client = k
               \/ \E c \in Caller : Holds(c, k)
               \/ k \in taken

(* A connection has one owner: what the table serves is open, nobody else  *)
(* is about to close it, and a closed manager serves nothing.              *)
OneOwner ==
  /\ \A s \in Server :
       LET k == conns[s].client
       IN  k # None =>
             /\ Open(k) /\ ~closed
             /\ \A c \in Caller : ~Holds(c, k)
             /\ \A t \in Server \ {s} : conns[t].client # k
  /\ \A k \in taken : Open(k) /\ \A c \in Caller : ~Holds(c, k)

\* Where an open connection is.
LifeOf(k) ==
  IF ~Open(k) THEN client[k]
  ELSE IF \E s \in Server : conns[s].client = k THEN "serving"
  ELSE IF k \in taken THEN "last"
  ELSE IF \E c \in Caller : call[c].held = k /\ call[c].pc \in {"list", "replace"} THEN "new"
  ELSE IF \E c \in Caller : call[c].held = k /\ call[c].pc = "drop" THEN "retired"
  ELSE "lost"

Promise ==
  INSTANCE ConnectionPromise
    WITH life <- [k \in Client |-> LifeOf(k)],
         serving <- [s \in Server |-> conns[s].client],
         use <- [c \in Caller |-> IF call[c].pc = "calling" THEN call[c].held ELSE None],
         ended <- closed

(* The manager implements ConnectionPromise: whatever refreshes, deletions,*)
(* retries, tool calls and the end of the gateway overlap, a connection    *)
(* goes its way from the making over the table to one closing.             *)
ConnectionsKeepPromise == Promise!Spec

(* Close closes no connection under a call: it waits for every call that   *)
(* was let in, and none is let in after it looked.                         *)
CallsEndBeforeClose == shut \in {"closing", "done"} => Calling = {}

(* What the status says of a server is what CallTool would find.           *)
StatusAgrees ==
  \A s \in Server :
    /\ conns[s].state = "connected" => conns[s].client # None
    /\ conns[s].client # None => conns[s].state \in {"connected", "connecting", "failed"}

(* After Close every connection ends, the ones that refreshes were making  *)
(* then included; but for a server that never answers the refresh or a     *)
(* call.                                                                   *)
CloseEndsAll ==
  closed ~> \/ Calling # {}
            \/ \A k \in Client : Open(k) => \E c \in Caller : Holds(c, k) /\ call[c].pc = "list"

(* The plan ticks off that a deleted server is disconnected: when nobody   *)
(* works on it any more, a server without a row has no connection.         *)
DeletedIsClosed ==
  \A s \in Server :
    (\A c \in Caller : call[c].server # s) /\ ~rows[s].present => conns[s].client = None
=============================================================================
