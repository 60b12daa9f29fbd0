----------------------------- MODULE AcpManager -----------------------------
(***************************************************************************)
(* The manager of the agents' processes                                    *)
(* (agent_gateway/internal/runtime/acp/manager.go).  HTTP handlers and the *)
(* start of the gateway call StartAgent, StopAgent and SyncAgents with     *)
(* rows they read earlier; a goroutine per process waits for its end; the  *)
(* end of the gateway closes the manager.  The table of processes is       *)
(* looked at and written under a mutex, but a process is started,          *)
(* connected to, killed and waited for outside it.                         *)
(* Of a status only its presence matters: the strings are for display.     *)
(***************************************************************************)
EXTENDS Naturals, FiniteSets

CONSTANTS
  Agent,        \* agent ids
  Caller,       \* goroutines that call the manager
  Proc,         \* operating system processes
  Key,          \* what agentRuntimeKey tells apart
  NoCommand,    \* the key of a row without a command
  None,         \* no process
  NoAgent,      \* a caller at rest
  Stored,       \* the rows the gateway finds in its database
  Written,      \* the rows administrators and agents write
  MaxCalls,     \* bound of the model: calls
  MaxEdits      \* bound of the model: edits of the rows

Row == [present : BOOLEAN, enabled : BOOLEAN, key : Key \cup {NoCommand}]

ASSUME ManagerAssumption ==
  /\ Stored \in [Agent -> Row]
  /\ Written \subseteq Row
  /\ NoCommand \notin Key
  /\ None \notin Proc
  /\ NoAgent \notin Agent
  /\ MaxCalls \in Nat /\ MaxEdits \in Nat

VARIABLES
  config,    \* the rows of the agents
  table,     \* Manager.processes: the process of each agent
  known,     \* the keys of Manager.statuses
  closed,    \* Manager.closed
  proc,      \* the life of each process
  watch,     \* waitAgent: "none", "wait", "evict" or "done"
  call,      \* what each caller is doing
  closing,   \* the entries Close took out
  calls, edits,   \* how much of the bounds is used
  leaked     \* history: processes dropped from the table by somebody else's step

vars == <<config, table, known, closed, proc, watch, call, closing, calls, edits, leaked>>

Alive(p) == proc[p].state = "alive"
Dead(p) == proc[p].state = "dead"

NoRow == [present |-> FALSE, enabled |-> FALSE, key |-> NoCommand]
\* A caller that has called nothing.
Rest == [pc |-> "idle", job |-> "none", why |-> "none", agent |-> NoAgent, row |-> NoRow,
         todo |-> {}, listed |-> [a \in Agent |-> NoRow], held |-> None]

\* setStatus: nothing is written once the manager is closed.
Known(a) == known' = IF closed THEN known ELSE known \cup {a}

\* The entry of the table is replaced or deleted by a step that did not mean it.
Drop(p) == leaked' = leaked \cup ({p} \ {None})

Kill(p) == proc' = [proc EXCEPT ![p].killed = TRUE]

-----------------------------------------------------------------------------
Init ==
  /\ config = Stored
  /\ table = [a \in Agent |-> None]
  /\ known = {}
  /\ closed = FALSE
  /\ proc = [p \in Proc |-> [state |-> "unused", agent |-> NoAgent, key |-> NoCommand,
                             killed |-> FALSE]]
  /\ watch = [p \in Proc |-> "none"]
  /\ call = [c \in Caller |-> Rest]
  /\ closing = {}
  /\ calls = 0 /\ edits = 0
  /\ leaked = {}

\* The CRUD routes and the agents' extensions edit the rows and nothing else.
Configure(a) ==
  /\ edits < MaxEdits
  /\ edits' = edits + 1
  /\ \E row \in Written : config' = [config EXCEPT ![a] = row]
  /\ UNCHANGED <<table, known, closed, proc, watch, call, closing, calls, leaked>>

-----------------------------------------------------------------------------
(* Calls.  (Goroutines at rest are alike.)                                 *)

Begin(c) ==
  /\ call[c].pc = "idle"
  /\ c = CHOOSE d \in Caller : call[d].pc = "idle"
  /\ calls < MaxCalls
  /\ calls' = calls + 1
  /\ UNCHANGED <<config, table, known, closed, proc, watch, closing, edits, leaked>>

BeginStart(c, a) ==
  /\ Begin(c)
  /\ config[a].present
  /\ call' = [call EXCEPT ![c] = [Rest EXCEPT !.pc = "look", !.job = "start", !.agent = a,
                                              !.row = config[a]]]

BeginStop(c, a) ==
  /\ Begin(c)
  /\ call' = [call EXCEPT ![c] = [Rest EXCEPT !.pc = "takeout", !.job = "stop", !.why = "stop",
                                              !.agent = a]]

\* SyncRuntime lists the agents that pass the query's filter, and SyncAgents
\* goes through the list (in the order of the query, which the model leaves
\* open).
BeginSync(c) ==
  /\ Begin(c)
  /\ \E filter \in SUBSET Agent :
       call' = [call EXCEPT ![c] = [Rest EXCEPT !.pc = "next", !.job = "sync",
                  !.listed = [a \in Agent |-> IF a \in filter THEN config[a] ELSE NoRow],
                  !.todo = {a \in filter : config[a].present}]]

SyncAgent(c, a) ==
  LET row == call[c].listed[a]
  IN  /\ call[c].pc = "next"
      /\ a \in call[c].todo
      /\ call' = [call EXCEPT ![c].todo = @ \ {a}, ![c].agent = a, ![c].row = row,
                              ![c].pc = IF row.enabled THEN "look" ELSE "takeout",
                              ![c].why = IF row.enabled THEN "none" ELSE "disable"]
      /\ UNCHANGED <<config, table, known, closed, proc, watch, closing, calls, edits, leaked>>

\* The list is done: every other agent that has a status is to be pruned.
ListDone(c) ==
  /\ call[c].pc = "next"
  /\ call[c].todo = {}
  /\ call' = [call EXCEPT ![c].pc = "prune",
                          ![c].todo = {a \in known : ~call[c].listed[a].present}]
  /\ UNCHANGED <<config, table, known, closed, proc, watch, closing, calls, edits, leaked>>

Prune(c, a) ==
  /\ call[c].pc = "prune"
  /\ a \in call[c].todo
  /\ call' = [call EXCEPT ![c].todo = @ \ {a}, ![c].agent = a, ![c].pc = "takeout", ![c].why = "prune"]
  /\ UNCHANGED <<config, table, known, closed, proc, watch, closing, calls, edits, leaked>>

EndSync(c) ==
  /\ call[c].pc = "prune"
  /\ call[c].todo = {}
  /\ call' = [call EXCEPT ![c] = Rest]
  /\ UNCHANGED <<config, table, known, closed, proc, watch, closing, calls, edits, leaked>>

-----------------------------------------------------------------------------
(* StartAgent.                                                             *)

Goto(c, pc) == call' = [call EXCEPT ![c].pc = pc]

\* SyncAgents goes on with its loop.
Resume(c, pc) ==
  call' = [call EXCEPT ![c].pc = pc, ![c].why = "none", ![c].agent = NoAgent, ![c].row = NoRow,
                       ![c].held = None]
End(c) == call' = [call EXCEPT ![c] = Rest]

\* StartAgent returns; SyncAgents records its error as a status and goes on.
StartReturns(c) == IF call[c].job = "sync" THEN Resume(c, "next") ELSE End(c)

\* Up to the look at the table, under the read lock.
Look(c) ==
  LET a == call[c].agent
      row == call[c].row
      runnable == row.enabled /\ row.key # NoCommand
  IN  /\ call[c].pc = "look"
      /\ \/ ~runnable /\ Known(a) /\ StartReturns(c)
         \/ runnable /\ closed /\ StartReturns(c) /\ UNCHANGED known
         \/ /\ runnable /\ ~closed
            /\ \/ table[a] = None /\ Goto(c, "launch")
               \/ /\ table[a] # None
                  /\ IF proc[table[a]].key = row.key THEN Goto(c, "claim")
                     ELSE call' = [call EXCEPT ![c].pc = "takeout", ![c].why = "restart"]
            /\ UNCHANGED known
      /\ UNCHANGED <<config, table, closed, proc, watch, closing, calls, edits, leaked>>

\* The agent runs already: so its status says.
Claim(c) ==
  /\ call[c].pc = "claim"
  /\ Known(call[c].agent)
  /\ StartReturns(c)
  /\ UNCHANGED <<config, table, closed, proc, watch, closing, calls, edits, leaked>>

\* starter.Start, which may fail.
Launch(c) ==
  /\ call[c].pc = "launch"
  /\ Known(call[c].agent)
  /\ \/ StartReturns(c) /\ UNCHANGED proc
     \/ \E p \in Proc :
          /\ proc[p].state = "unused"
          /\ p = CHOOSE q \in Proc : proc[q].state = "unused"
          /\ proc' = [proc EXCEPT ![p] = [state |-> "alive", agent |-> call[c].agent,
                        key |-> call[c].row.key, killed |-> FALSE]]
          /\ call' = [call EXCEPT ![c].pc = "connect", ![c].held = p]
  /\ UNCHANGED <<config, table, closed, watch, closing, calls, edits, leaked>>

\* Defective variant: a process that cannot be connected to is left behind.
ConnectFailsQuietly(c) ==
  /\ call[c].pc = "connect"
  /\ StartReturns(c)
  /\ UNCHANGED <<config, table, known, closed, proc, watch, closing, calls, edits, leaked>>

ConnectFails(c) ==
  /\ call[c].pc = "connect"
  /\ Kill(call[c].held)
  /\ Goto(c, "abort")
  /\ UNCHANGED <<config, table, known, closed, watch, closing, calls, edits, leaked>>

\* Defective variant: closed is not looked at again.
RegisterAnyway(c) ==
  LET a == call[c].agent
      p == call[c].held
  IN  /\ call[c].pc = "connect"
      /\ Drop(table[a])
      /\ table' = [table EXCEPT ![a] = p]
      /\ Known(a)
      /\ watch' = [watch EXCEPT ![p] = "wait"]
      /\ StartReturns(c)
      /\ UNCHANGED <<config, closed, proc, closing, calls, edits>>

\* Defective variant: nobody waits for the process.
RegisterUnwatched(c) ==
  LET a == call[c].agent
  IN  /\ call[c].pc = "connect"
      /\ ~closed
      /\ Drop(table[a])
      /\ table' = [table EXCEPT ![a] = call[c].held]
      /\ Known(a)
      /\ StartReturns(c)
      /\ UNCHANGED <<config, closed, proc, watch, closing, calls, edits>>

\* Connected: the process enters the table, whatever is there, and its
\* waitAgent starts; or the manager was closed meanwhile.
Register(c) ==
  LET a == call[c].agent
      p == call[c].held
  IN  /\ call[c].pc = "connect"
      /\ \/ /\ closed
            /\ Kill(p)
            /\ Goto(c, "abort")
            /\ UNCHANGED <<table, known, watch, leaked>>
         \/ /\ ~closed
            /\ Drop(table[a])
            /\ table' = [table EXCEPT ![a] = p]
            /\ Known(a)
            /\ watch' = [watch EXCEPT ![p] = "wait"]
            /\ StartReturns(c)
            /\ UNCHANGED proc
      /\ UNCHANGED <<config, closed, closing, calls, edits>>

\* The killed process is waited for, and StartAgent returns its error.
Abort(c) ==
  /\ call[c].pc = "abort"
  /\ Dead(call[c].held)
  /\ Known(call[c].agent)
  /\ StartReturns(c)
  /\ UNCHANGED <<config, table, closed, proc, watch, closing, calls, edits, leaked>>

-----------------------------------------------------------------------------
(* StopAgent, on its own or within StartAgent and SyncAgents.              *)

\* Its error is what Wait says of a process that was killed.  SyncAgents
\* gives up on it, and so does a StartAgent that wanted to restart.
StopReturns(c, ok) ==
  LET why == call[c].why
  IN  \/ why = "restart" /\ ok /\ call' = [call EXCEPT ![c].pc = "launch", ![c].held = None]
      \/ why = "restart" /\ ~ok /\ StartReturns(c)
      \/ why = "disable" /\ ok /\ Resume(c, "next")
      \/ why = "prune" /\ ok /\ Resume(c, "prune")
      \/ why \in {"disable", "prune"} /\ ~ok /\ End(c)
      \/ why = "stop" /\ End(c)

\* What StopAgent and its caller write into statuses.
StopStatus(c, ok, stopped) ==
  LET a == call[c].agent
  IN  IF call[c].why = "prune" /\ ok THEN known' = known \ {a}
      ELSE IF stopped \/ call[c].why = "disable" THEN Known(a)
      ELSE UNCHANGED known

\* The entry leaves the table, and its process is killed.
TakeOut(c) ==
  LET p == table[call[c].agent]
  IN  /\ call[c].pc = "takeout"
      /\ \/ /\ p = None
            /\ StopReturns(c, TRUE)
            /\ StopStatus(c, TRUE, FALSE)
            /\ UNCHANGED <<table, proc>>
         \/ /\ p # None
            /\ table' = [table EXCEPT ![call[c].agent] = None]
            /\ Kill(p)
            /\ call' = [call EXCEPT ![c].pc = "wait", ![c].held = p]
            /\ UNCHANGED known
      /\ UNCHANGED <<config, closed, watch, closing, calls, edits, leaked>>

\* Wait returns: no error if the process ended well before it was killed.
Reap(c) ==
  /\ call[c].pc = "wait"
  /\ Dead(call[c].held)
  /\ \E ok \in BOOLEAN : StopReturns(c, ok) /\ StopStatus(c, ok, TRUE)
  /\ UNCHANGED <<config, table, closed, proc, watch, closing, calls, edits, leaked>>

-----------------------------------------------------------------------------
(* Processes, waitAgent and Close.                                         *)

\* A process ends, by itself or because it was killed.
Exit(p) ==
  /\ Alive(p)
  /\ proc' = [proc EXCEPT ![p].state = "dead"]
  /\ UNCHANGED <<config, table, known, closed, watch, call, closing, calls, edits, leaked>>

\* waitAgent: Wait returns, and the table is looked at under the read lock ...
Watch(p) ==
  /\ watch[p] = "wait"
  /\ Dead(p)
  /\ watch' = [watch EXCEPT ![p] = IF table[proc[p].agent] = p THEN "evict" ELSE "done"]
  /\ UNCHANGED <<config, table, known, closed, proc, call, closing, calls, edits, leaked>>

\* ... and then written, whatever it holds by now.
Evict(p) ==
  LET a == proc[p].agent
  IN  /\ watch[p] = "evict"
      /\ watch' = [watch EXCEPT ![p] = "done"]
      /\ Drop(IF table[a] = p THEN None ELSE table[a])
      /\ table' = [table EXCEPT ![a] = None]
      /\ known' = known \cup {a}
      /\ UNCHANGED <<config, closed, proc, call, closing, calls, edits>>

Close ==
  /\ ~closed
  /\ closed' = TRUE
  /\ closing' = {table[a] : a \in Agent} \ {None}
  /\ table' = [a \in Agent |-> None]
  /\ UNCHANGED <<config, known, proc, watch, call, calls, edits, leaked>>

\* Close kills and waits for one entry after the other.
KillNext(p) ==
  /\ p \in closing
  /\ ~proc[p].killed
  /\ \A q \in closing : proc[q].killed => Dead(q)
  /\ Kill(p)
  /\ UNCHANGED <<config, table, known, closed, watch, call, closing, calls, edits, leaked>>

-----------------------------------------------------------------------------
Calling(c) ==
  \/ BeginSync(c)
  \/ \E a \in Agent : BeginStart(c, a) \/ BeginStop(c, a)
Starting(c) == Look(c) \/ Claim(c) \/ Launch(c) \/ Abort(c)
Connecting(c) == ConnectFails(c) \/ Register(c)
Stopping(c) == TakeOut(c) \/ Reap(c)
Syncing(c) == ListDone(c) \/ EndSync(c) \/ \E a \in Agent : SyncAgent(c, a) \/ Prune(c, a)
Watching(p) == Watch(p) \/ Evict(p)

Next ==
  \/ \E a \in Agent : Configure(a)
  \/ \E c \in Caller : Calling(c) \/ Starting(c) \/ Connecting(c) \/ Stopping(c) \/ Syncing(c)
  \/ \E p \in Proc : Exit(p) \/ Watching(p) \/ KillNext(p)
  \/ Close

\* Goroutines that can run do, and a killed process ends.  An agent owes no
\* answer to Initialize, and nobody owes a call, an edit or the closing.
Fairness ==
  /\ \A c \in Caller : WF_vars(Starting(c)) /\ WF_vars(Stopping(c)) /\ WF_vars(Syncing(c))
  /\ \A p \in Proc : /\ WF_vars(proc[p].killed /\ Exit(p))
                      /\ WF_vars(Watching(p))
                      /\ WF_vars(KillNext(p))

Spec == Init /\ [][Next]_vars /\ Fairness

-----------------------------------------------------------------------------
Process == [state : {"unused", "alive", "dead"}, agent : Agent \cup {NoAgent},
            key : Key \cup {NoCommand}, killed : BOOLEAN]
CallState ==
  [pc : {"idle", "next", "prune", "look", "claim", "launch", "connect", "abort", "takeout", "wait"},
   job : {"none", "start", "stop", "sync"}, why : {"none", "restart", "stop", "disable", "prune"},
   agent : Agent \cup {NoAgent}, row : Row, todo : SUBSET Agent, listed : [Agent -> Row],
   held : Proc \cup {None}]

TypeOK ==
  /\ config \in [Agent -> Row]
  /\ table \in [Agent -> Proc \cup {None}]
  /\ known \subseteq Agent
  /\ closed \in BOOLEAN
  /\ proc \in [Proc -> Process]
  /\ watch \in [Proc -> {"none", "wait", "evict", "done"}]
  /\ call \in [Caller -> CallState]
  /\ \A c \in Caller : call[c].held # None <=> call[c].pc \in {"connect", "abort", "wait"}
  /\ closing \subseteq Proc
  /\ calls \in Nat /\ edits \in Nat
  /\ leaked \subseteq Proc

Owned(p) ==
  \/ \E a \in Agent : table[a] = p
  \/ \E c \in Caller : call[c].held = p
  \/ p \in closing

(* A running process can be stopped: it is the table's, or in the hands of *)
(* the call that starts or stops it, or of Close.  It gets out of them in  *)
(* two ways only (leaked): a concurrent start of the same agent registers  *)
(* over it, or the waitAgent of its predecessor deletes its entry between  *)
(* its look at the table and its lock.                                     *)
EveryProcessHasAnOwner == \A p \in Proc : Alive(p) => Owned(p) \/ p \in leaked

(* What the table holds is a process of that agent that was started and    *)
(* registered once, and nothing at all once the manager is closed, though  *)
(* a start may have been under way: no entry has two owners that would     *)
(* both stop it, and each one has a waitAgent.                             *)
TableIsOwn ==
  \A a \in Agent :
    LET p == table[a]
    IN  p # None =>
          /\ ~closed
          /\ proc[p].agent = a /\ proc[p].state # "unused" /\ ~proc[p].killed
          /\ watch[p] \in {"wait", "evict"}
          /\ \A c \in Caller : call[c].held # p

(* A process that ended does not stay in the table, whoever else is        *)
(* starting or stopping its agent.                                         *)
DeadAreForgotten ==
  \A a \in Agent, p \in Proc : table[a] = p /\ Dead(p) ~> table[a] # p

(* After Close every process ends, also those that were being started and  *)
(* were not in the table then; but for the leaked ones and those whose     *)
(* agent never answers Initialize.                                         *)
CloseEndsAll ==
  closed ~> \A p \in Proc :
    Alive(p) => p \in leaked \/ \E c \in Caller : call[c].pc = "connect" /\ call[c].held = p

(* The plans tick off that an agent is restarted when its configuration    *)
(* changes: a StartAgent that took the old process out goes on to launch   *)
(* the new one.                                                            *)
RestartLaunches ==
  [][\A c \in Caller :
       call[c].pc = "wait" /\ call[c].why = "restart" /\ call'[c] # call[c] =>
         call'[c].pc = "launch"]_vars
=============================================================================
