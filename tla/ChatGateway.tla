---------------------------- MODULE ChatGateway ----------------------------
(***************************************************************************)
(* The gateway process as the desktop chat sees it: the bridge finds or    *)
(* launches it, remembers what it may kill (gateway_bootstrap.go), reads   *)
(* its events in a goroutine that repairs the connection by itself, and    *)
(* starts, restarts and stops it for the user (agent_service.go).  The     *)
(* gateway's own start is runtime/server.go's.  Every gateway listens on   *)
(* the configured port, so one at a time can.  Launched is the binary (the *)
(* fallback "go run" of a development tree is left out), and the status    *)
(* shown to the user and the events' contents are left out.                *)
(***************************************************************************)
EXTENDS FiniteSets, Naturals

CONSTANTS
  Proc,         \* gateway processes the bridge may launch
  Foreign,      \* gateways somebody else starts
  Ui,           \* calls of the application: its start, and what the user asks
  Stream,       \* goroutines of streamGatewayEvents
  None,
  MaxFailures,  \* maxGatewayStreamFailures (8)
  MaxAuth,      \* maxGatewayAuthFailures (3)
  MaxAsks       \* bound of the model: what the user asks in all

VARIABLES
  proc,       \* the state of each process
  file,       \* the process that wrote endpoint.json
  launched,   \* history: processes the bridge launched
  dropped,    \* history: processes whose handle another launch replaced
  managed, managedPid, owned,  \* the bootstrapper's fields
  gateway,    \* is there a proxy? (every proxy has the same address)
  stream,     \* streamCancel: the goroutine it belongs to
  cancelled,  \* streams whose context was cancelled
  task,       \* calls and goroutines
  asks,       \* what the user asked so far
  exited      \* has the application ended?

boot == <<managed, managedPid, owned>>
vars == <<proc, file, launched, dropped, boot, gateway, stream, cancelled, task, asks, exited>>

AnyProc == Proc \cup Foreign
Serving == \E p \in AnyProc : proc[p] = "up"
Alive(p) == proc[p] \in {"starting", "listening", "up"}
Fresh == [op |-> "none", at |-> "idle", pid |-> None, hold |-> None, kill |-> {}, fails |-> 0, auths |-> 0]

Init ==
  /\ proc \in [AnyProc -> {"none", "starting"}] /\ (\A p \in Proc : proc[p] = "none")
  /\ file \in {None} \cup Foreign
  /\ launched = {} /\ dropped = {}
  /\ managed = None /\ managedPid = None /\ owned = FALSE
  /\ gateway = (file # None)
  /\ stream = None /\ cancelled = {}
  /\ task = [t \in Ui \cup Stream |->
               IF t = (CHOOSE u \in Ui : TRUE) THEN [Fresh EXCEPT !.op = "startup", !.at = "ping"] ELSE Fresh]
  /\ asks = 0
  /\ exited = FALSE

-----------------------------------------------------------------------------
(* A gateway process: Server.Start listens, builds everything, writes the  *)
(* runtime files and serves; on a port in use it ends.                     *)

Listen(p) ==
  /\ proc[p] = "starting"
  /\ proc' = [proc EXCEPT ![p] =
       IF \E q \in AnyProc : proc[q] \in {"listening", "up"} THEN "dead" ELSE "listening"]
  /\ UNCHANGED <<file, launched, dropped, boot, gateway, stream, cancelled, task, asks, exited>>

Serve(p) ==
  /\ proc[p] = "listening"
  /\ proc' = [proc EXCEPT ![p] = "up"]
  /\ file' = p
  /\ UNCHANGED <<launched, dropped, boot, gateway, stream, cancelled, task, asks, exited>>

\* The start fails, or the process ends by itself.
Crash(p) ==
  /\ proc[p] \in {"listening", "up"}
  /\ proc' = [proc EXCEPT ![p] = "dead"]
  /\ UNCHANGED <<file, launched, dropped, boot, gateway, stream, cancelled, task, asks, exited>>

-----------------------------------------------------------------------------
At(t, op, at) == ~exited /\ task[t].op \in op /\ task[t].at = at
\* A call of the application leaves nothing behind but the fact that it is
\* shutting down; a stream goroutine is not started twice.
Ended(t) == IF task[t].op \in {"stream", "shutdown"} THEN [Fresh EXCEPT !.op = task[t].op, !.at = "done"] ELSE Fresh
\* Only the failure of the start has a consequence.
Goto(t, at) ==
  task' = [task EXCEPT ![t] =
    IF at = "done" \/ (at = "failed" /\ @.op # "startup") THEN Ended(t) ELSE [@ EXCEPT !.at = at, !.pid = None]]
AnyOp == {"startup", "stop", "restart", "shutdown", "stream"}
TaskOnly == UNCHANGED <<proc, file, launched, dropped, boot, gateway, stream, cancelled, asks, exited>>

\* ensureGatewayRunning, up to the call of EnsureRunning.
Ping(t) ==
  /\ At(t, AnyOp, "ping")
  /\ Goto(t, IF gateway /\ Serving THEN "ready" ELSE "find")
  /\ gateway' = (gateway /\ Serving)
  /\ UNCHANGED <<proc, file, launched, dropped, boot, stream, cancelled, asks, exited>>

\* discoverHealthy: an endpoint's file, and somebody who answers there.
Discovered == file # None /\ Serving

Healthy(t) ==
  /\ At(t, AnyOp, "find") /\ Discovered
  /\ managedPid' = IF task[t].hold = None THEN managedPid ELSE file
  /\ gateway' = TRUE
  /\ task' = [task EXCEPT ![t].at = "ready", ![t].hold = None]
  /\ UNCHANGED <<proc, file, launched, dropped, managed, owned, stream, cancelled, asks, exited>>

\* Nobody answers: a call that launched a gateway tries again until its
\* deadline, which also stops it, or the end of its context.
Unhealthy(t) ==
  /\ At(t, AnyOp, "find") /\ ~Discovered /\ task[t].hold # None
  /\ Goto(t, "giveup") \/ Goto(t, "failed")
  /\ TaskOnly

\* The others launch one, or fail to.
Launch(t) ==
  /\ At(t, AnyOp, "find") /\ ~Discovered /\ task[t].hold = None
  /\ \/ /\ Goto(t, "failed")
        /\ UNCHANGED <<proc, launched>>
     \/ \E p \in Proc :
          /\ proc[p] = "none" /\ p = CHOOSE q \in Proc : proc[q] = "none"
          /\ proc' = [proc EXCEPT ![p] = "starting"]
          /\ launched' = launched \cup {p}
          /\ task' = [task EXCEPT ![t].hold = p, ![t].at = "adopt"]
  /\ UNCHANGED <<file, dropped, boot, gateway, stream, cancelled, asks, exited>>

\* Defective variant: the process is kept but not as the bridge's own.
AdoptUnowned(t) ==
  /\ At(t, AnyOp, "adopt")
  /\ managed' = task[t].hold
  /\ dropped' = IF managed \in {None, task[t].hold} THEN dropped ELSE dropped \cup {managed}
  /\ Goto(t, "find")
  /\ UNCHANGED <<proc, file, launched, managedPid, owned, gateway, stream, cancelled, asks, exited>>

\* setManagedProcess
Adopt(t) ==
  /\ At(t, AnyOp, "adopt")
  /\ managed' = task[t].hold /\ owned' = TRUE
  /\ dropped' = IF managed \in {None, task[t].hold} THEN dropped ELSE dropped \cup {managed}
  /\ Goto(t, "find")
  /\ UNCHANGED <<proc, file, launched, managedPid, gateway, stream, cancelled, asks, exited>>

\* StopManagedProcess takes the fields under its lock, then kills.
Take(t, at) ==
  /\ task' = [task EXCEPT ![t].at = at, ![t].hold = None,
                          ![t].kill = IF owned THEN {managed, managedPid} \ {None} ELSE {}]
  /\ managed' = None /\ managedPid' = None /\ owned' = FALSE
  /\ UNCHANGED <<proc, file, launched, dropped, gateway, stream, cancelled, asks, exited>>

GiveUp(t) == At(t, AnyOp, "giveup") /\ Take(t, "undo")
TakeToStop(t) == At(t, AnyOp, "take") /\ Take(t, "kill")

Killed(t) ==
  /\ proc' = [p \in AnyProc |-> IF p \in task[t].kill /\ Alive(p) THEN "dead" ELSE proc[p]]
  /\ UNCHANGED <<file, launched, dropped, boot, stream, cancelled, asks, exited>>

Undo(t) ==
  /\ At(t, AnyOp, "undo") /\ Killed(t)
  /\ task' = [task EXCEPT ![t] = IF @.op = "startup" THEN [@ EXCEPT !.at = "failed", !.kill = {}] ELSE Ended(t)]
  /\ UNCHANGED gateway

\* RestartGateway and restartGatewayForAuthRecovery go on to a new gateway.
Kill(t) ==
  /\ At(t, AnyOp, "kill") /\ Killed(t)
  /\ task' = [task EXCEPT ![t] = IF @.op \in {"stop", "shutdown"} THEN Ended(t)
                                 ELSE [@ EXCEPT !.at = "ping", !.kill = {}]]
  /\ gateway' = (gateway /\ task[t].op = "shutdown")

-----------------------------------------------------------------------------
(* What the application and the user ask for.                              *)

\* RestartGateway, StopGateway and ServiceShutdown cancel the stream first.
Ask(t, op) ==
  /\ ~exited
  /\ task[t].op = "none" /\ asks < MaxAsks
  /\ \A u \in Ui : task[u].op \notin {"startup", "shutdown"}
  /\ asks' = asks + 1
  /\ task' = [task EXCEPT ![t].op = op, ![t].at = "take"]
  /\ cancelled' = cancelled \cup ({stream} \ {None})
  /\ stream' = None
  /\ UNCHANGED <<proc, file, launched, dropped, boot, gateway, exited>>

\* In a development tree the start leaves a gateway that does not answer to
\* the user.
ManualStart(t) ==
  /\ At(t, {"startup"}, "ping") /\ ~(gateway /\ Serving)
  /\ gateway' = FALSE
  /\ Goto(t, "done")
  /\ UNCHANGED <<proc, file, launched, dropped, boot, stream, cancelled, asks, exited>>

\* Defective variant: the stream that still runs is left alone.
StartStreamBeside(t) ==
  /\ At(t, {"startup", "restart"}, "ready")
  /\ \E g \in Stream :
       /\ task[g].op = "none" /\ g = CHOOSE h \in Stream : task[h].op = "none"
       /\ stream' = g
       /\ task' = [task EXCEPT ![t] = Ended(t), ![g].op = "stream", ![g].at = "top"]
  /\ UNCHANGED <<proc, file, launched, dropped, boot, gateway, cancelled, asks, exited>>

\* startGatewayEventStream
StartStream(t) ==
  /\ At(t, {"startup", "restart"}, "ready")
  /\ \E g \in Stream :
       /\ task[g].op = "none" /\ g = CHOOSE h \in Stream : task[h].op = "none"
       /\ stream' = g
       /\ task' = [task EXCEPT ![t] = Ended(t), ![g].op = "stream", ![g].at = "top"]
  /\ cancelled' = cancelled \cup ({stream} \ {None})
  /\ UNCHANGED <<proc, file, launched, dropped, boot, gateway, asks, exited>>

\* An application whose start failed ends.
Failed(t) ==
  /\ At(t, {"startup"}, "failed")
  /\ Goto(t, "done")
  /\ exited' = TRUE
  /\ UNCHANGED <<proc, file, launched, dropped, boot, gateway, stream, cancelled, asks>>

Exit ==
  /\ ~exited
  /\ \E t \in Ui : task[t].op = "shutdown" /\ task[t].at = "done"
  /\ exited' = TRUE
  /\ UNCHANGED <<proc, file, launched, dropped, boot, gateway, stream, cancelled, task, asks>>

-----------------------------------------------------------------------------
(* streamGatewayEvents.                                                    *)

OneMore(n, most) == IF n < most THEN n + 1 ELSE n

\* After the backoff, which a cancellation ends.  Without a proxy, a gateway
\* is looked for in a context that is not the stream's.
Top(g) ==
  /\ At(g, {"stream"}, "top")
  /\ Goto(g, IF g \in cancelled THEN "done" ELSE IF gateway THEN "dial" ELSE "ping")
  /\ TaskOnly

Dial(g) ==
  /\ At(g, {"stream"}, "dial") /\ g \notin cancelled /\ Serving
  /\ \/ task' = [task EXCEPT ![g] = [@ EXCEPT !.at = "reading", !.pid = CHOOSE p \in AnyProc : proc[p] = "up"]]
     \/ task' = [task EXCEPT ![g] = [@ EXCEPT !.at = "refresh", !.auths = OneMore(task[g].auths, MaxAuth)]]
  /\ TaskOnly

\* An event: the failures so far are forgotten.
Event(g) ==
  /\ At(g, {"stream"}, "reading") /\ proc[task[g].pid] = "up"
  /\ task' = [task EXCEPT ![g] = [@ EXCEPT !.fails = 0, !.auths = 0]]
  /\ TaskOnly

\* The dial fails or the connection ends.  Nothing but that ends the reading:
\* the context is only looked at afterwards.
Broken(g) ==
  /\ \/ At(g, {"stream"}, "dial") /\ (g \in cancelled \/ ~Serving)
     \/ At(g, {"stream"}, "reading")
  /\ LET fails == OneMore(task[g].fails, MaxFailures)
     IN  task' = [task EXCEPT ![g] = IF g \in cancelled \/ fails >= MaxFailures THEN Ended(g)
                                    ELSE [@ EXCEPT !.at = "top", !.pid = None, !.fails = fails]]
  /\ TaskOnly

\* refreshGatewayProxy, and the hard restart after too many refusals.
Refresh(g) ==
  /\ At(g, {"stream"}, "refresh")
  /\ IF g \in cancelled \/ ~Discovered
       THEN Goto(g, "done") /\ UNCHANGED gateway
       ELSE /\ gateway' = TRUE
            /\ IF task[g].auths >= MaxAuth
                 THEN Goto(g, "take")
                 ELSE task' = [task EXCEPT ![g] = [@ EXCEPT !.at = "top", !.fails = OneMore(task[g].fails, MaxFailures)]]
  /\ UNCHANGED <<proc, file, launched, dropped, boot, stream, cancelled, asks, exited>>

\* A gateway was found or launched: for a stream without a proxy that is all,
\* after a hard restart it must also take a connection.
Recovered(g) ==
  /\ At(g, {"stream"}, "ready")
  /\ \/ task[g].auths < MaxAuth /\ Goto(g, "top")
     \/ task[g].auths >= MaxAuth /\ Goto(g, "done")
     \/ /\ task[g].auths >= MaxAuth
        /\ task' = [task EXCEPT ![g] = [@ EXCEPT !.at = "top", !.auths = 0, !.fails = OneMore(task[g].fails, MaxFailures)]]
  /\ TaskOnly

-----------------------------------------------------------------------------
Ensuring(t) ==
  \/ Ping(t) \/ Healthy(t) \/ Unhealthy(t) \/ Launch(t) \/ Adopt(t)
  \/ GiveUp(t) \/ Undo(t) \/ TakeToStop(t) \/ Kill(t) \/ Failed(t)

Next ==
  \/ \E p \in AnyProc : Listen(p) \/ Serve(p) \/ Crash(p)
  \/ \E t \in Ui \cup Stream : Ensuring(t)
  \/ \E t \in Ui :
       \/ \E op \in {"stop", "restart", "shutdown"} : Ask(t, op)
       \/ ManualStart(t) \/ StartStream(t)
  \/ \E g \in Stream :
       Top(g) \/ Dial(g) \/ Event(g) \/ Broken(g) \/ Refresh(g) \/ Recovered(g)
  \/ Exit

Spec == Init /\ [][Next]_vars

-----------------------------------------------------------------------------
TaskState ==
  [op : AnyOp \cup {"none"},
   at : {"idle", "ping", "find", "adopt", "giveup", "undo", "take", "kill", "ready", "failed",
         "top", "dial", "reading", "refresh", "done"},
   pid : AnyProc \cup {None}, hold : Proc \cup {None}, kill : SUBSET AnyProc,
   fails : 0..MaxFailures, auths : 0..MaxAuth]

TypeOK ==
  /\ proc \in [AnyProc -> {"none", "starting", "listening", "up", "dead"}]
  /\ file \in AnyProc \cup {None}
  /\ launched \subseteq Proc /\ dropped \subseteq launched
  /\ {managed, managedPid} \subseteq AnyProc \cup {None} /\ owned \in BOOLEAN
  /\ gateway \in BOOLEAN /\ exited \in BOOLEAN /\ asks \in 0..MaxAsks
  /\ stream \in Stream \cup {None} /\ cancelled \subseteq Stream
  /\ task \in [Ui \cup Stream -> TaskState]

(* A gateway the bridge launched that still runs is one the bridge will    *)
(* kill when it is told to stop: as its managed process or process id, or  *)
(* in the hands of the call that launched or is stopping it.  The one way  *)
(* to lose it is a second launch that overwrites its handle before its own *)
(* process id was discovered.                                              *)
NothingEscapes ==
  \A p \in launched \ dropped :
    Alive(p) =>
      \/ owned /\ p \in {managed, managedPid}
      \/ \E t \in Ui \cup Stream : task[t].at = "adopt" /\ task[t].hold = p
      \/ \E t \in Ui \cup Stream : p \in task[t].kill

(* However starts, restarts, stops and recoveries overlap, at most one     *)
(* stream goroutine is not cancelled, and it is the one stopping cancels.  *)
OneLiveStream ==
  \A g \in Stream : task[g].op = "stream" /\ task[g].at # "done" /\ g \notin cancelled => g = stream
=============================================================================
