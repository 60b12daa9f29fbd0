-------------------------- MODULE ChatBridgeProofs --------------------------
(***************************************************************************)
(* Proofs about the desktop chat's bridge, for every set of processes,     *)
(* stream goroutines, overlapping calls, sessions and agents.  Of the      *)
(* gateway (ChatInv): none the bridge launched escapes it, and one stream  *)
(* goroutine at most is live.  The first needs two facts beside itself:    *)
(* only one gateway has the port, so a process id that was discovered is   *)
(* overwritten only after that process died; and a call only carries       *)
(* processes to kill between taking them and killing them.  Of the         *)
(* sessions (SessionInv): requests stay with a session's agents, and       *)
(* nothing is left of a deleted one, which needs what each call knows of   *)
(* its session at each place it can be.                                    *)
(***************************************************************************)
EXTENDS MCGateway, GatewayEventsProofs, TLAPS

(* The gateway and the stream of its events.                               *)

Task == Ui \cup Stream

ChatTypes ==
  /\ proc \in [Gateway!AnyProc -> {"none", "starting", "listening", "up", "dead"}]
  /\ file \in Gateway!AnyProc \cup {None}
  /\ launched \subseteq Proc
  /\ managed \in Gateway!AnyProc \cup {None} /\ managedPid \in Gateway!AnyProc \cup {None}
  /\ task \in [Task -> Gateway!TaskState]

\* Who serves wrote the file, and a process that wrote it or was discovered
\* there had the port.
OnePort ==
  /\ \A p, q \in Gateway!AnyProc : proc[p] \in {"listening", "up"} /\ proc[q] \in {"listening", "up"} => p = q
  /\ \A p \in Gateway!AnyProc : proc[p] = "up" => file = p
  /\ \A p \in Proc : p \in {file, managedPid} => proc[p] \in {"up", "dead"}

Tidy(s) ==
  /\ s.kill # {} => s.at \in {"undo", "kill"}
  /\ s.op = "none" => s.at = "idle"

Live(s) == s.op = "stream" /\ s.at # "done"

ChatInv == ChatTypes /\ OnePort /\ (\A t \in Task : Tidy(task[t])) /\ Gateway!NothingEscapes /\ Gateway!OneLiveStream

-----------------------------------------------------------------------------
LEMMA ChatFresh ==
  Gateway!Fresh \in Gateway!TaskState /\ Tidy(Gateway!Fresh) /\ Gateway!Fresh.op = "none" /\ Gateway!Fresh.at = "idle"
    /\ Gateway!Fresh.kill = {}
  BY BridgeAssumption DEF Gateway!Fresh, Gateway!TaskState, Gateway!AnyOp, Tidy

\* What a task is when it ends.
LEMMA ChatEnded ==
  ASSUME NEW t
  PROVE  Gateway!Ended(t) \in Gateway!TaskState /\ Tidy(Gateway!Ended(t)) /\ ~Live(Gateway!Ended(t))
           /\ Gateway!Ended(t).kill = {} /\ Gateway!Ended(t).at # "adopt"
  <1>1. CASE task[t].op \in {"stream", "shutdown"}
      <2>1. Gateway!Ended(t) = [Gateway!Fresh EXCEPT !.op = task[t].op, !.at = "done"]
          BY <1>1 DEF Gateway!Ended
      <2>2. /\ Gateway!Ended(t) \in Gateway!TaskState /\ Gateway!Ended(t).op \in {"stream", "shutdown"}
            /\ Gateway!Ended(t).at = "done" /\ Gateway!Ended(t).kill = {}
          BY <1>1, <2>1, ChatFresh DEF Gateway!TaskState, Gateway!AnyOp
      <2> QED BY <2>2 DEF Tidy, Live
  <1>2. CASE task[t].op \notin {"stream", "shutdown"}
      BY <1>2, ChatFresh DEF Gateway!Ended, Live
  <1> QED BY <1>1, <1>2

\* One task changes: the others are what they were.
LEMMA ChatTask ==
  ASSUME ChatTypes, NEW t \in Task, NEW n \in Gateway!TaskState, task' = [task EXCEPT ![t] = n]
  PROVE  /\ task' \in [Task -> Gateway!TaskState]
         /\ \A u \in Task : task'[u] = IF u = t THEN n ELSE task[u]
  BY DEF ChatTypes

\* A task goes on, or ends, while it carries no process and launched none.
LEMMA ChatGoesOn ==
  ASSUME ChatInv, UNCHANGED <<proc, file, launched, replaced, Gateway!boot, stream, streamsCancelled>>,
         NEW t \in Task, NEW n \in Gateway!TaskState, task' = [task EXCEPT ![t] = n], Tidy(n),
         Live(n) => Live(task[t]),
         task[t].at \notin {"adopt", "undo", "kill"}
  PROVE  ChatInv'
  <1>1. /\ task' \in [Task -> Gateway!TaskState]
        /\ \A u \in Task : task'[u] = IF u = t THEN n ELSE task[u]
      BY ChatTask DEF ChatInv
  <1>2. task[t].kill = {}
      BY DEF ChatInv, Tidy
  <1>3. ChatTypes' /\ OnePort'
      BY <1>1 DEF ChatInv, ChatTypes, OnePort, Gateway!boot
  <1>4. (\A u \in Task : Tidy(task[u]))'
      BY <1>1 DEF ChatInv, Tidy
  <1>5. Gateway!NothingEscapes'
      BY <1>1, <1>2 DEF ChatInv, Gateway!NothingEscapes, Gateway!Alive, Gateway!boot, Task
  <1>6. Gateway!OneLiveStream'
      BY <1>1 DEF ChatInv, Gateway!OneLiveStream, Live, Task
  <1> QED BY <1>3, <1>4, <1>5, <1>6 DEF ChatInv

LEMMA ChatGoto ==
  ASSUME ChatInv, UNCHANGED <<proc, file, launched, replaced, Gateway!boot, stream, streamsCancelled>>,
         NEW t \in Task,
         NEW a \in {"ping", "find", "giveup", "take", "ready", "failed", "top", "dial", "done"}, Gateway!Goto(t, a),
         task[t].op # "none", task[t].at \notin {"adopt", "undo", "kill", "done"}
  PROVE  ChatInv'
  <1>1. task[t] \in Gateway!TaskState /\ task[t].kill = {}
      BY DEF ChatInv, ChatTypes, Tidy
  <1>2. CASE a = "done" \/ (a = "failed" /\ task[t].op # "startup")
      <2>1. task' = [task EXCEPT ![t] = Gateway!Ended(t)]
          BY <1>2 DEF Gateway!Goto, ChatInv, ChatTypes
      <2> QED BY <2>1, ChatEnded, ChatGoesOn
  <1>3. CASE ~(a = "done" \/ (a = "failed" /\ task[t].op # "startup"))
      <2> DEFINE n == [task[t] EXCEPT !.at = a, !.pid = None]
      <2>1. task' = [task EXCEPT ![t] = n]
          BY <1>3 DEF Gateway!Goto, ChatInv, ChatTypes
      <2>2. n \in Gateway!TaskState /\ n.op = task[t].op /\ n.at = a /\ n.kill = {}
          BY <1>1 DEF Gateway!TaskState
      <2>3. Tidy(n) /\ (Live(n) => Live(task[t]))
          BY <2>2 DEF Tidy, Live
      <2> HIDE DEF n
      <2> QED BY <2>1, <2>2, <2>3, ChatGoesOn
  <1> QED BY <1>2, <1>3

-----------------------------------------------------------------------------
(* The processes.                                                          *)

LEMMA ChatProcess ==
  ASSUME ChatInv, NEW p \in Gateway!AnyProc, Gateway!Listen(p) \/ Gateway!Serve(p) \/ Gateway!Crash(p)
  PROVE  ChatInv'
  <1>1. UNCHANGED <<launched, replaced, Gateway!boot, stream, streamsCancelled, task>>
      BY DEF Gateway!Listen, Gateway!Serve, Gateway!Crash
  <1>2. ChatTypes'
      <2>1. proc' \in [Gateway!AnyProc -> {"none", "starting", "listening", "up", "dead"}]
              /\ file' \in Gateway!AnyProc \cup {None}
          BY DEF Gateway!Listen, Gateway!Serve, Gateway!Crash, ChatInv, ChatTypes
      <2> QED BY <1>1, <2>1 DEF ChatInv, ChatTypes, Gateway!boot
  <1>3. OnePort'
      <2>1. CASE Gateway!Listen(p)
          BY <2>1 DEF Gateway!Listen, ChatInv, ChatTypes, OnePort, Gateway!boot
      <2>2. CASE Gateway!Serve(p)
          BY <2>2 DEF Gateway!Serve, ChatInv, ChatTypes, OnePort, Gateway!boot
      <2>3. CASE Gateway!Crash(p)
          BY <2>3 DEF Gateway!Crash, ChatInv, ChatTypes, OnePort, Gateway!boot
      <2> QED BY <2>1, <2>2, <2>3
  <1>4. \A q \in Gateway!AnyProc : Gateway!Alive(q)' => Gateway!Alive(q)
      BY DEF Gateway!Listen, Gateway!Serve, Gateway!Crash, ChatInv, ChatTypes, Gateway!Alive
  <1>5. Gateway!NothingEscapes'
      BY <1>1, <1>4 DEF ChatInv, Gateway!NothingEscapes, Gateway!boot, ChatTypes, Gateway!AnyProc
  <1> QED BY <1>1, <1>2, <1>3, <1>5 DEF ChatInv, Gateway!OneLiveStream

-----------------------------------------------------------------------------
(* Finding, launching and stopping a gateway.                              *)

LEMMA ChatHealthy == ASSUME ChatInv, NEW t \in Task, Gateway!Healthy(t) PROVE ChatInv'
  <1> DEFINE n == [task[t] EXCEPT !.at = "ready", !.hold = None]
  <1>1. task[t] \in Gateway!TaskState /\ task[t].kill = {} /\ task[t].at = "find" /\ task[t].op # "none"
      BY DEF Gateway!Healthy, Gateway!At, ChatInv, ChatTypes, Tidy, Gateway!AnyOp
  <1>2. task' = [task EXCEPT ![t] = n]
      BY DEF Gateway!Healthy, ChatInv, ChatTypes
  <1>3. n \in Gateway!TaskState /\ n.op = task[t].op /\ n.at = "ready" /\ n.kill = {}
      BY <1>1 DEF Gateway!TaskState
  <1> HIDE DEF n
  <1>4. /\ task' \in [Task -> Gateway!TaskState]
        /\ \A u \in Task : task'[u] = IF u = t THEN n ELSE task[u]
      BY <1>2, <1>3, ChatTask DEF ChatInv
  <1>5. UNCHANGED <<proc, file, launched, replaced, managed, owned, stream, streamsCancelled>>
      BY DEF Gateway!Healthy
  <1>6. managedPid' \in {managedPid, file} /\ file \in Gateway!AnyProc
      BY DEF Gateway!Healthy, Gateway!Discovered, ChatInv, ChatTypes
  <1>7. ChatTypes' /\ OnePort'
      BY <1>4, <1>5, <1>6 DEF ChatInv, ChatTypes, OnePort
  \* Who was known by its process id and still runs wrote the file.
  <1>8. \A p \in launched : Gateway!Alive(p) /\ p = managedPid => p = managedPid'
      BY <1>6 DEF ChatInv, ChatTypes, OnePort, Gateway!Alive, Gateway!AnyProc
  <1>9. Gateway!NothingEscapes'
      BY <1>1, <1>3, <1>4, <1>5, <1>8 DEF ChatInv, Gateway!NothingEscapes, Gateway!Alive, Task
  <1>10. (\A u \in Task : Tidy(task[u]))' /\ Gateway!OneLiveStream'
      BY <1>1, <1>3, <1>4, <1>5 DEF ChatInv, Tidy, Gateway!OneLiveStream, Task
  <1> QED BY <1>7, <1>9, <1>10 DEF ChatInv

LEMMA ChatLaunch == ASSUME ChatInv, NEW t \in Task, Gateway!Launch(t) PROVE ChatInv'
  <1>1. task[t] \in Gateway!TaskState /\ task[t].kill = {} /\ task[t].at = "find" /\ task[t].op # "none"
      BY DEF Gateway!Launch, Gateway!At, ChatInv, ChatTypes, Tidy, Gateway!AnyOp
  <1>2. UNCHANGED <<file, replaced, Gateway!boot, stream, streamsCancelled>>
      BY DEF Gateway!Launch
  <1>3. CASE Gateway!Goto(t, "failed") /\ UNCHANGED <<proc, launched>>
      BY <1>1, <1>2, <1>3, ChatGoto
  <1>4. CASE \E p \in Proc : /\ proc[p] = "none"
                             /\ proc' = [proc EXCEPT ![p] = "starting"]
                             /\ launched' = launched \cup {p}
                             /\ task' = [task EXCEPT ![t].hold = p, ![t].at = "adopt"]
      <2> PICK p \in Proc : /\ proc[p] = "none"
                            /\ proc' = [proc EXCEPT ![p] = "starting"]
                            /\ launched' = launched \cup {p}
                            /\ task' = [task EXCEPT ![t].hold = p, ![t].at = "adopt"]
          BY <1>4
      <2> DEFINE n == [[task[t] EXCEPT !.hold = p] EXCEPT !.at = "adopt"]
      <2>1. task' = [task EXCEPT ![t] = n]
          BY DEF ChatInv, ChatTypes
      <2>2. n \in Gateway!TaskState /\ n.op = task[t].op /\ n.at = "adopt" /\ n.kill = {} /\ n.hold = p
          BY <1>1 DEF Gateway!TaskState
      <2> HIDE DEF n
      <2>3. /\ task' \in [Task -> Gateway!TaskState]
            /\ \A u \in Task : task'[u] = IF u = t THEN n ELSE task[u]
          BY <2>1, <2>2, ChatTask DEF ChatInv
      <2>4. ChatTypes'
          BY <1>2, <2>3 DEF ChatInv, ChatTypes, Gateway!boot, Gateway!AnyProc
      <2>5. OnePort'
          BY <1>2 DEF ChatInv, ChatTypes, OnePort, Gateway!boot, Gateway!AnyProc
      <2>6. Gateway!NothingEscapes'
          BY <1>1, <1>2, <2>2, <2>3
             DEF ChatInv, ChatTypes, Gateway!NothingEscapes, Gateway!Alive, Gateway!boot, Task, Gateway!AnyProc
      <2>7. (\A u \in Task : Tidy(task[u]))' /\ Gateway!OneLiveStream'
          BY <1>1, <1>2, <2>2, <2>3 DEF ChatInv, Tidy, Gateway!OneLiveStream, Task
      <2> QED BY <2>4, <2>5, <2>6, <2>7 DEF ChatInv
  <1> QED BY <1>3, <1>4 DEF Gateway!Launch

LEMMA ChatAdopt == ASSUME ChatInv, NEW t \in Task, Gateway!Adopt(t) PROVE ChatInv'
  <1> DEFINE n == [task[t] EXCEPT !.at = "find", !.pid = None]
  <1>1. task[t] \in Gateway!TaskState /\ task[t].kill = {} /\ task[t].at = "adopt" /\ task[t].op # "none"
      BY DEF Gateway!Adopt, Gateway!At, ChatInv, ChatTypes, Tidy, Gateway!AnyOp
  <1>2. task' = [task EXCEPT ![t] = n]
      BY DEF Gateway!Adopt, Gateway!Goto, ChatInv, ChatTypes
  <1>3. n \in Gateway!TaskState /\ n.op = task[t].op /\ n.at = "find" /\ n.kill = {}
      BY <1>1 DEF Gateway!TaskState
  <1> HIDE DEF n
  <1>4. /\ task' \in [Task -> Gateway!TaskState]
        /\ \A u \in Task : task'[u] = IF u = t THEN n ELSE task[u]
      BY <1>2, <1>3, ChatTask DEF ChatInv
  <1>5. /\ UNCHANGED <<proc, file, launched, managedPid, stream, streamsCancelled>>
        /\ managed' = task[t].hold /\ owned' = TRUE
        /\ replaced' = IF managed \in {None, task[t].hold} THEN replaced ELSE replaced \cup {managed}
      BY DEF Gateway!Adopt
  <1>6. managed' \in Gateway!AnyProc \cup {None}
      BY <1>1, <1>5 DEF Gateway!TaskState, Gateway!AnyProc
  <1>7. ChatTypes' /\ OnePort'
      BY <1>4, <1>5, <1>6 DEF ChatInv, ChatTypes, OnePort
  <1>8. Gateway!NothingEscapes'
      <2> SUFFICES ASSUME NEW p \in launched, p \notin replaced', Gateway!Alive(p)
                   PROVE  \/ p \in {managed', managedPid}
                          \/ \E u \in Task : task'[u].at = "adopt" /\ task'[u].hold = p
                          \/ \E u \in Task : p \in task'[u].kill
          BY <1>5 DEF Gateway!NothingEscapes, Gateway!Alive, Task
      <2>1. p \in launched \ replaced /\ p # None
          BY <1>5, BridgeAssumption DEF ChatInv, ChatTypes
      <2>2. CASE owned /\ p = managed
          BY <2>1, <2>2, <1>5
      <2>3. CASE owned /\ p = managedPid
          BY <2>3
      <2>4. CASE \E u \in Task : task[u].at = "adopt" /\ task[u].hold = p
          BY <2>4, <1>4, <1>5
      <2>5. CASE \E u \in Task : p \in task[u].kill
          BY <2>5, <1>1, <1>4
      <2> QED BY <2>1, <2>2, <2>3, <2>4, <2>5 DEF ChatInv, Gateway!NothingEscapes, Task
  <1>9. (\A u \in Task : Tidy(task[u]))' /\ Gateway!OneLiveStream'
      BY <1>1, <1>3, <1>4, <1>5 DEF ChatInv, Tidy, Gateway!OneLiveStream, Task
  <1> QED BY <1>7, <1>8, <1>9 DEF ChatInv

LEMMA ChatTake ==
  ASSUME ChatInv, NEW t \in Task, NEW a \in {"undo", "kill"}, Gateway!Take(t, a),
         task[t].op # "none", task[t].at \in {"giveup", "take"}
  PROVE  ChatInv'
  <1> DEFINE k == IF owned THEN {managed, managedPid} \ {None} ELSE {}
  <1> DEFINE n == [task[t] EXCEPT !.at = a, !.hold = None, !.kill = k]
  <1>1. task[t] \in Gateway!TaskState /\ task[t].kill = {}
      BY DEF ChatInv, ChatTypes, Tidy
  <1>2. task' = [task EXCEPT ![t] = n]
      BY DEF Gateway!Take, ChatInv, ChatTypes
  <1>3. k \in SUBSET Gateway!AnyProc
      BY DEF ChatInv, ChatTypes
  <1> HIDE DEF k
  <1>4. n \in Gateway!TaskState /\ n.op = task[t].op /\ n.at = a /\ n.kill = k
      BY <1>1, <1>3 DEF Gateway!TaskState
  <1> HIDE DEF n
  <1>5. /\ task' \in [Task -> Gateway!TaskState]
        /\ \A u \in Task : task'[u] = IF u = t THEN n ELSE task[u]
      BY <1>2, <1>4, ChatTask DEF ChatInv
  <1>6. /\ UNCHANGED <<proc, file, launched, replaced, stream, streamsCancelled>>
        /\ managed' = None /\ managedPid' = None /\ owned' = FALSE
      BY DEF Gateway!Take
  <1>7. ChatTypes' /\ OnePort'
      BY <1>5, <1>6, BridgeAssumption DEF ChatInv, ChatTypes, OnePort
  <1>8. \A p \in launched : owned /\ p \in {managed, managedPid} => p \in k
      BY BridgeAssumption DEF k, ChatInv, ChatTypes
  <1>9. Gateway!NothingEscapes'
      BY <1>1, <1>4, <1>5, <1>6, <1>8 DEF ChatInv, Gateway!NothingEscapes, Gateway!Alive, Task
  <1>10. (\A u \in Task : Tidy(task[u]))' /\ Gateway!OneLiveStream'
      BY <1>1, <1>4, <1>5, <1>6 DEF ChatInv, Tidy, Gateway!OneLiveStream, Task
  <1> QED BY <1>7, <1>9, <1>10 DEF ChatInv

\* Whoever a call killed is gone, and the call no longer carries it.
LEMMA ChatKilled ==
  ASSUME ChatInv, NEW t \in Task, Gateway!Killed(t),
         NEW n \in Gateway!TaskState, task' = [task EXCEPT ![t] = n], Tidy(n), n.kill = {},
         Live(n) => Live(task[t]), task[t].at \in {"undo", "kill"}
  PROVE  ChatInv'
  <1>1. /\ task' \in [Task -> Gateway!TaskState]
        /\ \A u \in Task : task'[u] = IF u = t THEN n ELSE task[u]
      BY ChatTask DEF ChatInv
  <1>2. UNCHANGED <<file, launched, replaced, Gateway!boot, stream, streamsCancelled>>
      BY DEF Gateway!Killed
  <1>3. \A p \in Gateway!AnyProc : proc'[p] = IF p \in task[t].kill /\ Gateway!Alive(p) THEN "dead" ELSE proc[p]
      BY DEF Gateway!Killed
  <1>4. proc' \in [Gateway!AnyProc -> {"none", "starting", "listening", "up", "dead"}]
      BY DEF Gateway!Killed, ChatInv, ChatTypes
  <1>5. ChatTypes'
      BY <1>1, <1>2, <1>4 DEF ChatInv, ChatTypes, Gateway!boot
  <1>6. OnePort'
      BY <1>2, <1>3 DEF ChatInv, ChatTypes, OnePort, Gateway!boot, Gateway!AnyProc
  <1>7. \A p \in Gateway!AnyProc : Gateway!Alive(p)' => Gateway!Alive(p) /\ p \notin task[t].kill
      BY <1>3 DEF Gateway!Alive
  <1>8. Gateway!NothingEscapes'
      BY <1>1, <1>2, <1>7 DEF ChatInv, ChatTypes, Gateway!NothingEscapes, Task, Gateway!boot, Gateway!AnyProc
  <1>9. (\A u \in Task : Tidy(task[u]))' /\ Gateway!OneLiveStream'
      BY <1>1, <1>2 DEF ChatInv, Tidy, Live, Gateway!OneLiveStream, Task
  <1> QED BY <1>5, <1>6, <1>8, <1>9 DEF ChatInv

LEMMA ChatEnsuring == ASSUME ChatInv, NEW t \in Task, Gateway!Ensuring(t) PROVE ChatInv'
  <1> USE DEF Gateway!At, Gateway!AnyOp
  <1>1. task[t] \in Gateway!TaskState
      BY DEF ChatInv, ChatTypes
  <1>2. CASE Gateway!Ping(t)
      BY <1>2, ChatGoto DEF Gateway!Ping
  <1>3. CASE Gateway!Healthy(t)
      BY <1>3, ChatHealthy
  <1>4. CASE Gateway!Unhealthy(t)
      BY <1>4, ChatGoto DEF Gateway!Unhealthy, Gateway!TaskOnly
  <1>5. CASE Gateway!Launch(t)
      BY <1>5, ChatLaunch
  <1>6. CASE Gateway!Adopt(t)
      BY <1>6, ChatAdopt
  <1>7. CASE Gateway!GiveUp(t)
      BY <1>7, ChatTake DEF Gateway!GiveUp
  <1>8. CASE Gateway!TakeToStop(t)
      BY <1>8, ChatTake DEF Gateway!TakeToStop
  <1>9. CASE Gateway!Undo(t)
      <2>1. CASE task[t].op = "startup"
          <3> DEFINE n == [task[t] EXCEPT !.at = "failed", !.kill = {}]
          <3>1. task' = [task EXCEPT ![t] = n]
              BY <1>9, <2>1 DEF Gateway!Undo, ChatInv, ChatTypes
          <3>2. n \in Gateway!TaskState /\ n.op = "startup" /\ n.at = "failed" /\ n.kill = {}
              BY <1>1, <2>1 DEF Gateway!TaskState
          <3> HIDE DEF n
          <3>3. Tidy(n) /\ ~Live(n)
              BY <3>2 DEF Tidy, Live
          <3> QED BY <1>9, <3>1, <3>2, <3>3, ChatKilled DEF Gateway!Undo
      <2>2. CASE task[t].op # "startup"
          <3>1. task' = [task EXCEPT ![t] = Gateway!Ended(t)]
              BY <1>9, <2>2 DEF Gateway!Undo, ChatInv, ChatTypes
          <3> QED BY <1>9, <3>1, ChatEnded, ChatKilled DEF Gateway!Undo
      <2> QED BY <2>1, <2>2
  <1>10. CASE Gateway!Kill(t)
      <2>1. CASE task[t].op \notin {"stop", "shutdown"}
          <3> DEFINE n == [task[t] EXCEPT !.at = "ping", !.kill = {}]
          <3>1. task' = [task EXCEPT ![t] = n]
              BY <1>10, <2>1 DEF Gateway!Kill, ChatInv, ChatTypes
          <3>2. n \in Gateway!TaskState /\ n.op = task[t].op /\ n.at = "ping" /\ n.kill = {}
              BY <1>1 DEF Gateway!TaskState
          <3> HIDE DEF n
          <3>3. Tidy(n) /\ (Live(n) => Live(task[t]))
              BY <1>10, <3>2 DEF Tidy, Live, Gateway!Kill
          <3> QED BY <1>10, <3>1, <3>2, <3>3, ChatKilled DEF Gateway!Kill
      <2>2. CASE task[t].op \in {"stop", "shutdown"}
          <3>1. task' = [task EXCEPT ![t] = Gateway!Ended(t)]
              BY <1>10, <2>2 DEF Gateway!Kill, ChatInv, ChatTypes
          <3> QED BY <1>10, <3>1, ChatEnded, ChatKilled DEF Gateway!Kill
      <2> QED BY <2>1, <2>2
  <1>11. CASE Gateway!Failed(t)
      BY <1>11, ChatGoto DEF Gateway!Failed
  <1> QED BY <1>2, <1>3, <1>4, <1>5, <1>6, <1>7, <1>8, <1>9, <1>10, <1>11 DEF Gateway!Ensuring

-----------------------------------------------------------------------------
(* What is asked for, and the stream goroutines.                           *)

LEMMA ChatAsk ==
  ASSUME ChatInv, NEW t \in Ui, NEW op \in {"stop", "restart", "shutdown"}, Gateway!Ask(t, op)
  PROVE  ChatInv'
  <1> DEFINE n == [[task[t] EXCEPT !.op = op] EXCEPT !.at = "take"]
  <1>1. t \in Task /\ task[t] \in Gateway!TaskState /\ task[t].kill = {} /\ task[t].at = "idle"
      BY DEF Gateway!Ask, ChatInv, ChatTypes, Tidy, Task
  <1>2. task' = [task EXCEPT ![t] = n]
      BY <1>1 DEF Gateway!Ask, ChatInv, ChatTypes
  <1>3. n \in Gateway!TaskState /\ n.op = op /\ n.at = "take" /\ n.kill = {}
      BY <1>1 DEF Gateway!TaskState, Gateway!AnyOp
  <1> HIDE DEF n
  <1>4. /\ task' \in [Task -> Gateway!TaskState]
        /\ \A u \in Task : task'[u] = IF u = t THEN n ELSE task[u]
      BY <1>1, <1>2, <1>3, ChatTask DEF ChatInv
  <1>5. /\ UNCHANGED <<proc, file, launched, replaced, Gateway!boot>>
        /\ streamsCancelled' = streamsCancelled \cup ({stream} \ {None})
      BY DEF Gateway!Ask
  <1>6. ChatTypes' /\ OnePort' /\ Gateway!NothingEscapes'
      BY <1>1, <1>3, <1>4, <1>5
         DEF ChatInv, ChatTypes, OnePort, Gateway!NothingEscapes, Gateway!Alive, Gateway!boot, Task
  <1>7. (\A u \in Task : Tidy(task[u]))' /\ Gateway!OneLiveStream'
      BY <1>3, <1>4, <1>5, BridgeAssumption DEF ChatInv, Tidy, Gateway!OneLiveStream, Task
  <1> QED BY <1>6, <1>7 DEF ChatInv

LEMMA ChatStartStream == ASSUME ChatInv, NEW t \in Ui, Gateway!StartStream(t) PROVE ChatInv'
  <1> PICK g \in Stream : /\ task[g].op = "none" /\ stream' = g
                          /\ task' = [task EXCEPT ![t] = Gateway!Ended(t), ![g].op = "stream", ![g].at = "top"]
      BY DEF Gateway!StartStream
  <1> DEFINE n == [[task[g] EXCEPT !.op = "stream"] EXCEPT !.at = "top"]
  <1>1. /\ t \in Task /\ g \in Task /\ t # g /\ task[t].at = "ready" /\ task[t].kill = {}
        /\ task[g] \in Gateway!TaskState /\ task[g].at = "idle" /\ task[g].kill = {}
      BY DEF Gateway!StartStream, Gateway!At, ChatInv, ChatTypes, Tidy, Task
  <1>2. task' = [[task EXCEPT ![t] = Gateway!Ended(t)] EXCEPT ![g] = n]
      BY <1>1 DEF ChatInv, ChatTypes
  <1>3. n \in Gateway!TaskState /\ n.op = "stream" /\ n.at = "top" /\ n.kill = {}
      BY <1>1 DEF Gateway!TaskState, Gateway!AnyOp
  <1>4. Gateway!Ended(t) \in Gateway!TaskState /\ Tidy(Gateway!Ended(t)) /\ ~Live(Gateway!Ended(t))
      BY ChatEnded
  <1> HIDE DEF n
  <1>5. /\ task' \in [Task -> Gateway!TaskState]
        /\ \A u \in Task : task'[u] = IF u = g THEN n ELSE IF u = t THEN Gateway!Ended(t) ELSE task[u]
      <2> DEFINE f == [task EXCEPT ![t] = Gateway!Ended(t)]
      <2>1. task \in [Task -> Gateway!TaskState]
          BY DEF ChatInv, ChatTypes
      <2>2. /\ f \in [Task -> Gateway!TaskState]
            /\ \A u \in Task : f[u] = IF u = t THEN Gateway!Ended(t) ELSE task[u]
          BY <2>1, <1>1, <1>4
      <2>3. task' = [f EXCEPT ![g] = n]
          BY <1>2
      <2> HIDE DEF f
      <2> QED BY <2>2, <2>3, <1>1, <1>3
  <1>6. /\ UNCHANGED <<proc, file, launched, replaced, Gateway!boot>>
        /\ streamsCancelled' = streamsCancelled \cup ({stream} \ {None})
      BY DEF Gateway!StartStream
  <1>7. ChatTypes' /\ OnePort'
      BY <1>5, <1>6 DEF ChatInv, ChatTypes, OnePort, Gateway!boot
  <1>8. Gateway!NothingEscapes'
      BY <1>1, <1>5, <1>6 DEF ChatInv, Gateway!NothingEscapes, Gateway!Alive, Gateway!boot, Task
  <1>9. (\A u \in Task : Tidy(task[u]))'
      BY <1>3, <1>4, <1>5 DEF ChatInv, Tidy
  \* The stream that ran before is cancelled.
  <1>10. Gateway!OneLiveStream'
      BY <1>4, <1>5, <1>6, BridgeAssumption DEF ChatInv, Gateway!OneLiveStream, Live, Task
  <1> QED BY <1>7, <1>8, <1>9, <1>10 DEF ChatInv

LEMMA ChatStream ==
  ASSUME ChatInv, NEW g \in Stream,
         Gateway!Top(g) \/ Gateway!Dial(g) \/ Gateway!Event(g) \/ Gateway!Broken(g) \/ Gateway!Refresh(g)
           \/ Gateway!Recovered(g)
  PROVE  ChatInv'
  <1> USE DEF Gateway!At, Gateway!TaskOnly
  <1>1. g \in Task /\ task[g] \in Gateway!TaskState /\ task[g].op = "stream"
      BY DEF Task, ChatInv, ChatTypes, Gateway!Top, Gateway!Dial, Gateway!Event, Gateway!Broken, Gateway!Refresh,
         Gateway!Recovered
  <1>2. task[g].at \in {"top", "dial", "reading", "refresh", "ready"} /\ Live(task[g]) /\ task[g].kill = {}
      BY <1>1 DEF Live, ChatInv, Tidy, Gateway!Top, Gateway!Dial, Gateway!Event, Gateway!Broken, Gateway!Refresh,
         Gateway!Recovered
  <1>3. /\ UNCHANGED <<proc, file, launched, replaced, Gateway!boot, stream, streamsCancelled>>
      BY DEF Gateway!Top, Gateway!Dial, Gateway!Event, Gateway!Broken, Gateway!Refresh, Gateway!Recovered
  <1>4. ASSUME NEW n \in Gateway!TaskState, task' = [task EXCEPT ![g] = n], n.op = "stream", n.kill = {}
        PROVE  ChatInv'
      BY <1>1, <1>2, <1>3, <1>4, ChatGoesOn DEF Tidy
  <1>5. /\ 0 \in 0..MaxFailures /\ 0 \in 0..MaxAuth
        /\ \A k \in 0..MaxFailures : Gateway!OneMore(k, MaxFailures) \in 0..MaxFailures
        /\ \A k \in 0..MaxAuth : Gateway!OneMore(k, MaxAuth) \in 0..MaxAuth
      BY BridgeAssumption DEF Gateway!OneMore
  <1>6. CASE Gateway!Top(g)
      BY <1>1, <1>2, <1>3, <1>6, ChatGoto DEF Gateway!Top
  <1>7. CASE Gateway!Dial(g)
      <2> DEFINE p == CHOOSE p \in Gateway!AnyProc : proc[p] = "up"
      <2> DEFINE m == [task[g] EXCEPT !.at = "reading", !.pid = p]
      <2> DEFINE n == [task[g] EXCEPT !.at = "refresh", !.auths = Gateway!OneMore(task[g].auths, MaxAuth)]
      <2>1. p \in Gateway!AnyProc
          BY <1>7 DEF Gateway!Dial, Gateway!Serving
      <2>2. task' = [task EXCEPT ![g] = m] \/ task' = [task EXCEPT ![g] = n]
          BY <1>7 DEF Gateway!Dial
      <2> HIDE DEF p
      <2>3. m \in Gateway!TaskState /\ m.op = "stream" /\ m.kill = {}
          BY <1>1, <1>2, <2>1 DEF Gateway!TaskState
      <2>4. n \in Gateway!TaskState /\ n.op = "stream" /\ n.kill = {}
          BY <1>1, <1>2, <1>5 DEF Gateway!TaskState
      <2> HIDE DEF m, n
      <2>5. CASE task' = [task EXCEPT ![g] = m]
          BY <2>3, <2>5, <1>4
      <2>6. CASE task' = [task EXCEPT ![g] = n]
          BY <2>4, <2>6, <1>4
      <2> QED BY <2>2, <2>5, <2>6
  <1>8. CASE Gateway!Event(g)
      <2> DEFINE n == [task[g] EXCEPT !.fails = 0, !.auths = 0]
      <2>1. task' = [task EXCEPT ![g] = n]
          BY <1>8 DEF Gateway!Event
      <2>2. n \in Gateway!TaskState /\ n.op = "stream" /\ n.kill = {}
          BY <1>1, <1>2, <1>5 DEF Gateway!TaskState
      <2> HIDE DEF n
      <2> QED BY <2>1, <2>2, <1>4
  <1>9. CASE Gateway!Broken(g)
      <2> DEFINE fails == Gateway!OneMore(task[g].fails, MaxFailures)
      <2> DEFINE n == [task[g] EXCEPT !.at = "top", !.pid = None, !.fails = fails]
      <2>1. fails \in 0..MaxFailures
          BY <1>1, <1>5 DEF Gateway!TaskState
      <2>2. task' = [task EXCEPT ![g] = Gateway!Ended(g)] \/ task' = [task EXCEPT ![g] = n]
          BY <1>9, <1>1 DEF Gateway!Broken, ChatInv, ChatTypes
      <2> HIDE DEF fails
      <2>3. n \in Gateway!TaskState /\ n.op = "stream" /\ n.kill = {}
          BY <1>1, <1>2, <2>1 DEF Gateway!TaskState
      <2> HIDE DEF n
      <2>4. CASE task' = [task EXCEPT ![g] = Gateway!Ended(g)]
          BY <1>1, <1>2, <1>3, <2>4, ChatEnded, ChatGoesOn
      <2>5. CASE task' = [task EXCEPT ![g] = n]
          BY <2>5, <2>3, <1>4
      <2> QED BY <2>2, <2>4, <2>5
  <1>10. CASE Gateway!Refresh(g)
      <2> DEFINE n == [task[g] EXCEPT !.at = "top", !.fails = Gateway!OneMore(task[g].fails, MaxFailures)]
      <2>1. CASE Gateway!Goto(g, "done") \/ Gateway!Goto(g, "take")
          BY <1>1, <1>2, <1>3, <2>1, ChatGoto
      <2>2. n \in Gateway!TaskState /\ n.op = "stream" /\ n.kill = {}
          BY <1>1, <1>2, <1>5 DEF Gateway!TaskState
      <2>3. CASE task' = [task EXCEPT ![g] = n]
          BY <2>2, <2>3, <1>4
      <2>4. Gateway!Goto(g, "done") \/ Gateway!Goto(g, "take") \/ task' = [task EXCEPT ![g] = n]
          BY <1>10 DEF Gateway!Refresh
      <2> QED BY <2>1, <2>3, <2>4
  <1>11. CASE Gateway!Recovered(g)
      <2> DEFINE n == [task[g] EXCEPT !.at = "top", !.auths = 0, !.fails = Gateway!OneMore(task[g].fails, MaxFailures)]
      <2>1. CASE Gateway!Goto(g, "top") \/ Gateway!Goto(g, "done")
          BY <1>1, <1>2, <1>3, <2>1, ChatGoto
      <2>2. n \in Gateway!TaskState /\ n.op = "stream" /\ n.kill = {}
          BY <1>1, <1>2, <1>5 DEF Gateway!TaskState
      <2>3. CASE task' = [task EXCEPT ![g] = n]
          BY <2>2, <2>3, <1>4
      <2>4. Gateway!Goto(g, "top") \/ Gateway!Goto(g, "done") \/ task' = [task EXCEPT ![g] = n]
          BY <1>11 DEF Gateway!Recovered
      <2> QED BY <2>1, <2>3, <2>4
  <1> QED BY <1>6, <1>7, <1>8, <1>9, <1>10, <1>11

-----------------------------------------------------------------------------
LEMMA ChatInitInv == ASSUME Gateway!Init PROVE ChatInv
  <1>1. ChatTypes
      <2> SUFFICES ASSUME NEW t \in Task PROVE task[t] \in Gateway!TaskState
          BY DEF Gateway!Init, ChatTypes, Task, Gateway!AnyProc
      <2>1. [Gateway!Fresh EXCEPT !.op = "startup", !.at = "ping"] \in Gateway!TaskState
          BY ChatFresh DEF Gateway!TaskState, Gateway!AnyOp
      <2> QED BY <2>1, ChatFresh DEF Gateway!Init, Task
  <1>2. \A t \in Task : task[t].kill = {} /\ (task[t].op = "none" => task[t].at = "idle") /\ task[t].op # "stream"
      BY DEF Gateway!Init, Gateway!Fresh, Task
  <1>3. OnePort
      BY BridgeAssumption DEF Gateway!Init, OnePort, Gateway!AnyProc
  <1>4. Gateway!NothingEscapes /\ Gateway!OneLiveStream
      BY <1>2 DEF Gateway!Init, Gateway!NothingEscapes, Gateway!OneLiveStream, Task
  <1> QED BY <1>1, <1>2, <1>3, <1>4 DEF ChatInv, Tidy

LEMMA ChatNext == ASSUME ChatInv, [Gateway!Next]_(Gateway!vars) PROVE ChatInv'
  <1>1. CASE UNCHANGED Gateway!vars
      BY <1>1 DEF Gateway!vars, Gateway!boot, ChatInv, ChatTypes, OnePort, Tidy, Gateway!NothingEscapes, Gateway!Alive,
         Gateway!OneLiveStream
  <1>2. CASE \E p \in Gateway!AnyProc : Gateway!Listen(p) \/ Gateway!Serve(p) \/ Gateway!Crash(p)
      BY <1>2, ChatProcess
  <1>3. CASE \E t \in Ui \cup Stream : Gateway!Ensuring(t)
      BY <1>3, ChatEnsuring DEF Task
  <1>4. CASE \E t \in Ui : \E op \in {"stop", "restart", "shutdown"} : Gateway!Ask(t, op)
      BY <1>4, ChatAsk
  <1>5. CASE \E t \in Ui : Gateway!ManualStart(t)
      BY <1>5, ChatGoto DEF Gateway!ManualStart, Gateway!At, Task
  <1>6. CASE \E t \in Ui : Gateway!StartStream(t)
      BY <1>6, ChatStartStream
  <1>7. CASE \E g \in Stream : Gateway!Top(g) \/ Gateway!Dial(g) \/ Gateway!Event(g) \/ Gateway!Broken(g)
               \/ Gateway!Refresh(g) \/ Gateway!Recovered(g)
      BY <1>7, ChatStream
  <1>8. CASE Gateway!Exit
      BY <1>8 DEF Gateway!Exit, Gateway!boot, ChatInv, ChatTypes, OnePort, Tidy, Gateway!NothingEscapes, Gateway!Alive,
         Gateway!OneLiveStream
  <1> QED BY <1>1, <1>2, <1>3, <1>4, <1>5, <1>6, <1>7, <1>8 DEF Gateway!Next

-----------------------------------------------------------------------------
(* The sessions.                                                           *)

Asking == {"disconnect", "delete", "prompt", "cancel"}

SessionCalls ==
  [op : {"none", "new", "connect", "load", "list"} \cup Asking,
   at : {"idle", "resolve", "listed", "start", "request", "read", "remember", "look", "current", "forget"},
   session : Session \cup {None}, agent : Agent \cup {None}, mode : Agent \cup {None}]

SessionTypes ==
  /\ enabled \in Agent \cup {None}
  /\ sessionAgents \in [Session -> Agent \cup {None}]
  /\ shown \subseteq Session /\ forgotten \subseteq Session
  /\ created \in [Session -> Agent \cup {None}]
  /\ named \in [Session -> SUBSET Agent] /\ sent \in [Session -> SUBSET (Agent \cup {None})]
  /\ call \in [WindowCall -> SessionCalls]

\* What a call knows of its session, given the sessions the window has seen,
\* the agents they were created with and were named for them, and those that
\* were deleted.
CallKnows(n, listed, made, names, gone) ==
  /\ n.at = "idle" => n.session = None /\ n.op = "none"
  /\ n.at # "idle" /\ n.op # "new" => n.session \in listed
  /\ n.op \in Asking /\ n.mode # None => n.mode \in names[n.session]
  /\ n.op \in Asking /\ n.at = "listed" => n.session \in gone
  /\ n.op # "new" /\ n.at \in {"request", "remember"} =>
       n.session \in gone \/ n.agent \in {made[n.session]} \cup names[n.session]
  /\ n.op = "new" /\ n.at \in {"resolve", "listed", "start", "request"} => n.session = None
  /\ n.op = "new" /\ n.at \in {"start", "request"} => n.agent # None
  /\ n.op = "new" /\ n.at \in {"remember", "current"} =>
       n.session \in Session /\ made[n.session] = n.agent /\ n.agent # None
  /\ n.at = "resolve" => n.op = "new" \/ n.op \in Asking
  /\ n.at = "listed" => n.op = "new" \/ n.op \in Asking
  /\ n.at = "start" => n.op = "new"
  /\ n.at = "request" => n.op = "new" \/ n.op \in Asking
  /\ n.at = "read" => n.op = "connect"
  /\ n.at = "look" => n.op = "load"
  /\ n.at = "forget" => n.op = "delete"

\* A session that nobody deleted keeps to the agents meant for it.
KeepsAgents(s) ==
  /\ created[s] = None => sent[s] = {} /\ s \notin shown \cup forgotten
  /\ s \in shown \ forgotten => sessionAgents[s] # None
  /\ s \notin forgotten => /\ sessionAgents[s] \in {None, created[s]} \cup named[s]
                           /\ sent[s] \subseteq {created[s]} \cup named[s]

\* Of a deleted session that no call is about nothing is left.
Gone(s) ==
  /\ \A c \in WindowCall : call[c].session # s
  /\ s \notin conversations \cup activeSessions /\ currentSessionID # s /\ sessionAgents[s] = None

SessionInv ==
  /\ SessionTypes
  /\ \A c \in WindowCall : CallKnows(call[c], shown, created, named, forgotten)
  /\ \A s \in Session : KeepsAgents(s)
  /\ \A s \in forgotten \ touched : Gone(s)

-----------------------------------------------------------------------------
LEMMA SessionIdle ==
  ASSUME NEW listed, NEW made, NEW names, NEW gone
  PROVE  /\ Sessions!Idle \in SessionCalls
         /\ Sessions!Idle.at = "idle"
         /\ CallKnows(Sessions!Idle, listed, made, names, gone)
           /\ Sessions!Idle.session = None
  BY DEF Sessions!Idle, SessionCalls, CallKnows, Asking

LEMMA SessionInitInv == Sessions!Init => SessionInv
  <1> SUFFICES ASSUME Sessions!Init PROVE SessionInv
      OBVIOUS
  <1>1. SessionTypes
      BY SessionIdle DEF Sessions!Init, SessionTypes
  <1>2. \A s \in Session : KeepsAgents(s)
      BY DEF Sessions!Init, KeepsAgents
  <1>3. \A c \in WindowCall : CallKnows(call[c], shown, created, named, forgotten)
      BY SessionIdle DEF Sessions!Init
  <1> QED BY <1>1, <1>2, <1>3 DEF Sessions!Init, SessionInv

\* A call's record and what it knows.
LEMMA SessionFields ==
  ASSUME SessionInv, NEW c \in WindowCall
  PROVE  /\ call[c] \in SessionCalls /\ CallKnows(call[c], shown, created, named, forgotten)
         /\ call[c].session \in Session \cup {None} /\ call[c].agent \in Agent \cup {None}
         /\ call[c].mode \in Agent \cup {None}
         /\ call[c].at # "idle" /\ call[c].op # "new" =>
              call[c].session \in shown /\ call[c].session \in Session /\ created[call[c].session] # None
  <1>1. call[c] \in SessionCalls /\ CallKnows(call[c], shown, created, named, forgotten)
      BY DEF SessionInv, SessionTypes
  <1>2. /\ call[c].session \in Session \cup {None} /\ call[c].agent \in Agent \cup {None}
        /\ call[c].mode \in Agent \cup {None}
      BY <1>1 DEF SessionCalls
  <1>3. call[c].at # "idle" /\ call[c].op # "new" => call[c].session \in shown
      BY <1>1 DEF CallKnows
  <1>4. shown \subseteq Session /\ \A s \in shown : created[s] # None
      BY DEF SessionInv, SessionTypes, KeepsAgents
  <1> QED BY <1>1, <1>2, <1>3, <1>4

\* What calls know stays true while sessions are seen, named and deleted.
LEMMA SessionGrows ==
  ASSUME SessionInv, NEW d \in WindowCall, NEW listed, NEW made, NEW names, NEW gone,
         shown \subseteq listed, forgotten \subseteq gone, \A s \in Session : named[s] \subseteq names[s],
         \A s \in Session : created[s] # None => made[s] = created[s]
  PROVE  CallKnows(call[d], listed, made, names, gone)
  <1> DEFINE n == call[d]
  <1>1. /\ CallKnows(n, shown, created, named, forgotten)
        /\ n.at # "idle" /\ n.op # "new" => n.session \in Session /\ created[n.session] # None
      BY SessionFields
  <1>2. n.op \in Asking => n.op # "new"
      BY DEF Asking
  <1>3. n.op \in Asking => n.at # "idle"
      BY <1>1 DEF CallKnows, Asking
  <1> QED BY <1>1, <1>2, <1>3 DEF CallKnows

\* A step that moves one call on and leaves what is known as it is.
LEMMA SessionMoves ==
  ASSUME SessionInv, NEW c \in WindowCall, NEW n \in SessionCalls, call' = [call EXCEPT ![c] = n],
         CallKnows(n, shown, created, named, forgotten), n.session \in {None, call[c].session},
         UNCHANGED <<enabled, Sessions!known, Sessions!history>>
  PROVE  SessionInv'
  <1>1. \A d \in WindowCall : call'[d] = IF d = c THEN n ELSE call[d]
      BY DEF SessionInv, SessionTypes
  <1>2. SessionTypes'
      BY <1>1 DEF SessionInv, SessionTypes, Sessions!known, Sessions!history
  <1>3. \A d \in WindowCall : CallKnows(call[d], shown, created, named, forgotten)'
      BY <1>1, SessionFields DEF Sessions!known, Sessions!history
  <1>4. \A s \in Session : KeepsAgents(s)'
      BY DEF SessionInv, KeepsAgents, Sessions!known, Sessions!history
  <1>5. \A s \in forgotten \ touched : Gone(s)'
      BY <1>1, BridgeAssumption DEF SessionInv, SessionTypes, Gone, Sessions!known, Sessions!history
  <1> QED BY <1>2, <1>3, <1>4, <1>5 DEF SessionInv, Sessions!known, Sessions!history

\* A call that goes on to a place that asks nothing of it.
LEMMA SessionGoto ==
  ASSUME SessionInv, NEW c \in WindowCall, NEW at, Sessions!Goto(c, at),
         UNCHANGED <<enabled, Sessions!known, Sessions!history>>,
         \/ at = "done"
         \/ at = "forget" /\ call[c].op = "delete" /\ call[c].at # "idle"
         \/ at = "current" /\ call[c].op # "new" /\ call[c].at # "idle"
         \/ at = "request" /\ call[c].op = "new" /\ call[c].at = "start"
  PROVE  SessionInv'
  <1>1. CASE at = "done"
      <2>1. call' = [call EXCEPT ![c] = Sessions!Idle]
          BY <1>1 DEF Sessions!Goto
      <2> QED BY <2>1, SessionIdle, SessionMoves
  <1>2. CASE at # "done"
      <2> DEFINE n == [call[c] EXCEPT !.at = at]
      <2>1. call' = [call EXCEPT ![c] = n]
          BY <1>2 DEF Sessions!Goto
      <2>2. call[c] \in SessionCalls /\ CallKnows(call[c], shown, created, named, forgotten)
          BY SessionFields
      <2>3. n \in SessionCalls /\ n.session = call[c].session /\ n.op = call[c].op /\ n.at = at
            /\ n.agent = call[c].agent /\ n.mode = call[c].mode
          BY <1>2, <2>2 DEF SessionCalls
      <2> HIDE DEF n
      <2>4. CallKnows(n, shown, created, named, forgotten)
          BY <1>2, <2>2, <2>3 DEF CallKnows, Asking
      <2> QED BY <2>1, <2>3, <2>4, SessionMoves
  <1> QED BY <1>1, <1>2

LEMMA SessionFailed ==
  ASSUME SessionInv, NEW c \in WindowCall, call[c].at # "idle", Sessions!Failed(c),
         UNCHANGED <<enabled, Sessions!known, Sessions!history>>
  PROVE  SessionInv'
  BY SMTT(30), SessionGoto DEF Sessions!Failed

-----------------------------------------------------------------------------
\* A call that begins names its agent, and touches what was deleted.
LEMMA SessionBegin == ASSUME SessionInv, NEW c \in WindowCall, Sessions!Begin(c) PROVE SessionInv'
  <1>1. CASE /\ \E m \in Agent \cup {None} :
                  call' = [call EXCEPT ![c] = [Sessions!Idle EXCEPT !.op = "new", !.at = "resolve", !.mode = m]]
             /\ UNCHANGED <<named, touched>>
      <2>1. PICK m \in Agent \cup {None} :
              call' = [call EXCEPT ![c] = [Sessions!Idle EXCEPT !.op = "new", !.at = "resolve", !.mode = m]]
          BY <1>1
      <2> DEFINE n == [Sessions!Idle EXCEPT !.op = "new", !.at = "resolve", !.mode = m]
      <2>2. n = [op |-> "new", at |-> "resolve", session |-> None, agent |-> None, mode |-> m]
          <3> DEFINE first == [Sessions!Idle EXCEPT !.op = "new"]
                     second == [first EXCEPT !.at = "resolve"]
          <3>1. first = [op |-> "new", at |-> "idle", session |-> None, agent |-> None, mode |-> None]
              BY DEF Sessions!Idle
          <3>2. second = [op |-> "new", at |-> "resolve", session |-> None, agent |-> None, mode |-> None]
              <4> HIDE DEF first
              <4> QED BY <3>1
          <3>3. n = [second EXCEPT !.mode = m]
              OBVIOUS
          <3> HIDE DEF second, n
          <3> QED BY <3>2, <3>3
      <2>3. call' = [call EXCEPT ![c] = n]
          BY <2>1
      <2> HIDE DEF n
      <2>4. n \in SessionCalls /\ n.session = None
          BY <2>2 DEF SessionCalls
      <2>5. CallKnows(n, shown, created, named, forgotten)
          BY <2>2 DEF CallKnows, Asking
      <2> QED BY <1>1, <2>3, <2>4, <2>5, SessionMoves DEF Sessions!Begin, Sessions!history
  <1>2. CASE \E s \in Session, op \in {"connect", "disconnect", "delete", "load", "prompt", "cancel", "list"} :
               \E m \in IF op = "prompt" THEN Agent \cup {None} ELSE {None} :
                 /\ s \in shown
                 /\ call' = [call EXCEPT ![c] =
                      [Sessions!Idle EXCEPT !.op = op, !.session = s, !.mode = m,
                                   !.at = CASE op = "connect" -> "read" [] op = "load" -> "look"
                                            [] op = "list" -> "current" [] OTHER -> "resolve"]]
                 /\ named' = [named EXCEPT ![s] = @ \cup ({m} \ {None})]
                 /\ touched' = IF s \in forgotten THEN touched \cup {s} ELSE touched
      <2>1. PICK s \in Session, op \in {"connect", "disconnect", "delete", "load", "prompt", "cancel", "list"} :
              \E m \in IF op = "prompt" THEN Agent \cup {None} ELSE {None} :
                /\ s \in shown
                /\ call' = [call EXCEPT ![c] =
                     [Sessions!Idle EXCEPT !.op = op, !.session = s, !.mode = m,
                                  !.at = CASE op = "connect" -> "read" [] op = "load" -> "look"
                                           [] op = "list" -> "current" [] OTHER -> "resolve"]]
                /\ named' = [named EXCEPT ![s] = @ \cup ({m} \ {None})]
                /\ touched' = IF s \in forgotten THEN touched \cup {s} ELSE touched
          BY <1>2
      <2> DEFINE first == CASE op = "connect" -> "read" [] op = "load" -> "look"
                            [] op = "list" -> "current" [] OTHER -> "resolve"
      <2>2. PICK m \in Agent \cup {None} :
              /\ s \in shown
              /\ call' = [call EXCEPT ![c] = [Sessions!Idle EXCEPT !.op = op, !.session = s, !.mode = m, !.at = first]]
              /\ named' = [named EXCEPT ![s] = @ \cup ({m} \ {None})]
              /\ touched' = IF s \in forgotten THEN touched \cup {s} ELSE touched
          BY <2>1
      <2>3. /\ first \in {"read", "look", "current", "resolve"}
            /\ (first = "read" <=> op = "connect") /\ (first = "look" <=> op = "load")
            /\ (first = "resolve" => op \in Asking) /\ op # "new"
          BY DEF Asking
      <2> HIDE DEF first
      <2> DEFINE n == [Sessions!Idle EXCEPT !.op = op, !.session = s, !.mode = m, !.at = first]
      <2>4. n = [op |-> op, at |-> first, session |-> s, agent |-> None, mode |-> m] /\ call' = [call EXCEPT ![c] = n]
          <3> DEFINE n1 == [Sessions!Idle EXCEPT !.op = op]
                     n2 == [n1 EXCEPT !.session = s]
                     n3 == [n2 EXCEPT !.mode = m]
          <3>1. n1 = [op |-> op, at |-> "idle", session |-> None, agent |-> None, mode |-> None]
              BY DEF Sessions!Idle
          <3>2. n2 = [op |-> op, at |-> "idle", session |-> s, agent |-> None, mode |-> None]
              <4> HIDE DEF n1
              <4> QED BY <3>1
          <3>3. n3 = [op |-> op, at |-> "idle", session |-> s, agent |-> None, mode |-> m]
              <4> HIDE DEF n2
              <4> QED BY <3>2
          <3>4. n = [n3 EXCEPT !.at = first]
              OBVIOUS
          <3>5. call' = [call EXCEPT ![c] = n]
              BY <2>2
          <3> HIDE DEF n3, n
          <3> QED BY <3>3, <3>4, <3>5
      <2> HIDE DEF n
      <2>5. n \in SessionCalls /\ n.session = s
          BY SMTT(30), <2>3, <2>4 DEF SessionCalls, Asking
      <2>6. UNCHANGED <<enabled, Sessions!known, shown, created, sent, forgotten>>
          BY DEF Sessions!Begin
      <2>7. /\ named' \in [Session -> SUBSET Agent]
            /\ \A t \in Session : named[t] \subseteq named'[t] /\ named'[t] \subseteq named[t] \cup {m}
            /\ m # None => m \in named'[s]
          BY <2>2 DEF SessionInv, SessionTypes
      <2>8. \A d \in WindowCall : call'[d] = IF d = c THEN n ELSE call[d]
          BY <2>4 DEF SessionInv, SessionTypes
      <2>9. SessionTypes'
          BY <2>4, <2>5, <2>6, <2>7 DEF SessionInv, SessionTypes, Sessions!known
      <2>10. \A d \in WindowCall : CallKnows(call'[d], shown', created', named', forgotten')
          <3>1. CallKnows(n, shown', created', named', forgotten')
              BY <2>2, <2>3, <2>4, <2>6, <2>7 DEF CallKnows, Asking
          <3>2. \A d \in WindowCall : CallKnows(call[d], shown', created', named', forgotten')
              BY <2>6, <2>7, SessionGrows
          <3> QED BY <2>8, <3>1, <3>2
      <2>11. \A t \in Session : KeepsAgents(t)'
          BY <2>6, <2>7 DEF SessionInv, KeepsAgents, Sessions!known
      <2>12. \A t \in forgotten' \ touched' : Gone(t)'
          BY <2>2, <2>5, <2>6, <2>8 DEF SessionInv, Gone, Sessions!known
      <2> QED BY <2>9, <2>10, <2>11, <2>12 DEF SessionInv
  <1> QED BY <1>1, <1>2 DEF Sessions!Begin

\* The agent is the one the user named or the one the session has; it is not
\* known only of a deleted session.
LEMMA SessionResolve == ASSUME SessionInv, NEW c \in WindowCall, Sessions!Resolve(c) PROVE SessionInv'
  <1> DEFINE s == call[c].session
             m == call[c].mode
             a == IF m # None \/ ~Sessions!Asks(c) THEN m ELSE sessionAgents[s]
             next == IF a = None THEN "listed" ELSE IF Sessions!Asks(c) THEN "request" ELSE "start"
             n == [call[c] EXCEPT !.agent = a, !.at = next]
  <1>1. call[c].at = "resolve"
          /\ UNCHANGED <<enabled, conversations, activeSessions, currentSessionID, Sessions!history>>
      BY DEF Sessions!Resolve, Sessions!At
  <1>2. /\ call[c] \in SessionCalls /\ CallKnows(call[c], shown, created, named, forgotten)
        /\ m \in Agent \cup {None} /\ s \in Session \cup {None}
        /\ call[c].op # "new" => s \in shown /\ s \in Session
      BY <1>1, SessionFields
  <1>3. call' = [call EXCEPT ![c] = n]
      BY DEF Sessions!Resolve, SessionInv, SessionTypes
  <1>4. Sessions!Asks(c) <=> call[c].op \in Asking
      BY DEF Sessions!Asks, Asking
  <1>5. call[c].op = "new" \/ call[c].op \in Asking
      BY <1>1, <1>2 DEF CallKnows
  <1>6. a \in Agent \cup {None}
      <2>1. CASE m # None \/ ~Sessions!Asks(c)
          BY <1>2, <2>1
      <2>2. CASE ~(m # None \/ ~Sessions!Asks(c))
          <3>1. s \in Session
              BY <1>2, <1>4, <2>2 DEF Asking
          <3> QED BY <2>2, <3>1 DEF SessionInv, SessionTypes
      <2> QED BY <2>1, <2>2
  <1>7. next \in {"listed", "request", "start"}
      OBVIOUS
  <1>8. CASE call[c].op = "new"
      <2>1. ~Sessions!Asks(c) /\ a = m /\ next = IF m = None THEN "listed" ELSE "start"
          BY <1>4, <1>8 DEF Asking
      <2> HIDE DEF a, next
      <2>2. /\ n \in SessionCalls
            /\ n.op = call[c].op /\ n.session = s /\ n.agent = a /\ n.at = next /\ n.mode = m
          BY <1>2, <1>6, <1>7 DEF SessionCalls
      <2> HIDE DEF n
      <2>3. CallKnows(n, shown, created, named, forgotten)
          BY <1>1, <1>2, <1>8, <2>1, <2>2 DEF CallKnows, Asking
      <2>4. UNCHANGED Sessions!known
          BY <1>1, <2>1 DEF Sessions!Resolve, Sessions!known
      <2> QED BY <1>1, <1>3, <2>2, <2>3, <2>4, SessionMoves
  <1>9. CASE call[c].op \in Asking
      <2>0. Sessions!Asks(c) /\ call[c].op # "new" /\ s \in Session /\ s \in shown
          BY <1>2, <1>4, <1>9 DEF Asking
      <2>1. sessionAgents' = IF m # None THEN [sessionAgents EXCEPT ![s] = m] ELSE sessionAgents
          BY <2>0 DEF Sessions!Resolve
      <2>2. m # None => m \in named[s]
          BY <1>2, <1>9 DEF CallKnows
      <2>3. KeepsAgents(s)
          BY <2>0 DEF SessionInv
      <2>4. a = IF m # None THEN m ELSE sessionAgents[s]
          BY <2>0
      <2>5. s \in forgotten \/ (a # None /\ a \in {created[s]} \cup named[s])
          BY <2>0, <2>2, <2>3, <2>4 DEF KeepsAgents
      <2>6. next = IF a = None THEN "listed" ELSE "request"
          BY <2>0
      <2> HIDE DEF a, next
      <2>7. /\ n \in SessionCalls
            /\ n.op = call[c].op /\ n.session = s /\ n.agent = a /\ n.at = next /\ n.mode = m
          BY <1>2, <1>6, <1>7 DEF SessionCalls
      <2> HIDE DEF n
      <2>8. CallKnows(n, shown, created, named, forgotten)
          BY <1>9, <2>0, <2>2, <2>5, <2>6, <2>7 DEF CallKnows, Asking
      <2>9. \A d \in WindowCall : call'[d] = IF d = c THEN n ELSE call[d]
          BY <1>3 DEF SessionInv, SessionTypes
      <2>10. SessionTypes'
          BY <1>1, <1>2, <1>3, <2>1, <2>7 DEF SessionInv, SessionTypes, Sessions!history
      <2>11. \A d \in WindowCall : CallKnows(call'[d], shown', created', named', forgotten')
          BY <1>1, <2>8, <2>9, SessionFields DEF Sessions!history
      <2>12. \A t \in Session : KeepsAgents(t)'
          <3> SUFFICES ASSUME NEW t \in Session PROVE KeepsAgents(t)'
              OBVIOUS
          <3>1. KeepsAgents(t) /\ (sessionAgents'[t] = sessionAgents[t] \/ (t = s /\ m # None /\ sessionAgents'[t] = m))
              BY <2>1 DEF SessionInv, SessionTypes
          <3> QED BY <1>1, <2>2, <3>1 DEF KeepsAgents, Sessions!history
      <2>13. \A t \in forgotten \ touched : Gone(t)'
          <3> SUFFICES ASSUME NEW t \in forgotten \ touched PROVE Gone(t)'
              OBVIOUS
          <3>1. Gone(t) /\ t # s
              BY DEF SessionInv, Gone
          <3>2. sessionAgents'[t] = sessionAgents[t]
              BY <2>1, <3>1 DEF SessionInv, SessionTypes
          <3> QED BY <1>1, <2>7, <2>9, <3>1, <3>2 DEF Gone
      <2> QED BY <1>1, <2>10, <2>11, <2>12, <2>13 DEF SessionInv, Sessions!history
  <1> QED BY <1>5, <1>8, <1>9

LEMMA SessionListed == ASSUME SessionInv, NEW c \in WindowCall, Sessions!Listed(c) PROVE SessionInv'
  <1>1. call[c].at = "listed" /\ UNCHANGED <<enabled, Sessions!known, Sessions!history>>
      BY DEF Sessions!Listed, Sessions!At
  <1>2. CASE Sessions!Failed(c)
      BY <1>1, <1>2, SessionFailed
  <1>3. CASE /\ enabled # None
             /\ call' = [call EXCEPT ![c].agent = enabled, ![c].at = IF Sessions!Asks(c) THEN "request" ELSE "start"]
      <2> DEFINE next == IF Sessions!Asks(c) THEN "request" ELSE "start"
                 n == [call[c] EXCEPT !.agent = enabled, !.at = next]
      <2>1. next \in {"request", "start"} /\ (next = "request" <=> call[c].op \in Asking)
          BY DEF Sessions!Asks, Asking
      <2>2. call[c] \in SessionCalls /\ CallKnows(call[c], shown, created, named, forgotten)
          BY SessionFields
      <2>3. call' = [call EXCEPT ![c] = n]
          BY <1>3 DEF SessionInv, SessionTypes
      <2> HIDE DEF next
      <2>4. /\ n \in SessionCalls /\ n.op = call[c].op /\ n.session = call[c].session /\ n.agent = enabled
            /\ n.at = next /\ n.mode = call[c].mode
          BY <2>1, <2>2 DEF SessionCalls, SessionInv, SessionTypes
      <2> HIDE DEF n
      <2>5. CallKnows(n, shown, created, named, forgotten)
          BY <1>1, <1>3, <2>1, <2>2, <2>4 DEF CallKnows, Asking
      <2> QED BY <1>1, <2>3, <2>4, <2>5, SessionMoves
  <1> QED BY <1>2, <1>3 DEF Sessions!Listed

LEMMA SessionStart == ASSUME SessionInv, NEW c \in WindowCall, Sessions!StartAgent(c) PROVE SessionInv'
  <1>1. call[c].at = "start" /\ call[c].op = "new"
      BY SessionFields DEF Sessions!StartAgent, Sessions!At, CallKnows
  <1> QED BY <1>1, SessionGoto, SessionFailed DEF Sessions!StartAgent

\* A new session has the agent it is created with, and nobody knew it.
LEMMA SessionCreate == ASSUME SessionInv, NEW c \in WindowCall, Sessions!Create(c) PROVE SessionInv'
  <1>1. /\ call[c].at = "request" /\ call[c].op = "new"
        /\ UNCHANGED <<enabled, Sessions!known, shown, named, sent, forgotten, touched>>
      BY DEF Sessions!Create, Sessions!At
  <1>2. CASE Sessions!Failed(c) /\ UNCHANGED created
      BY <1>1, <1>2, SessionFailed DEF Sessions!history
  <1>3. CASE \E s \in Session :
               /\ created[s] = None /\ s = CHOOSE t \in Session : created[t] = None
               /\ created' = [created EXCEPT ![s] = call[c].agent]
               /\ call' = [call EXCEPT ![c].session = s, ![c].at = "remember"]
      <2>1. PICK s \in Session :
              /\ created[s] = None /\ created' = [created EXCEPT ![s] = call[c].agent]
              /\ call' = [call EXCEPT ![c].session = s, ![c].at = "remember"]
          BY <1>3
      <2> DEFINE n == [call[c] EXCEPT !.session = s, !.at = "remember"]
      <2>2. /\ call[c] \in SessionCalls /\ call[c].agent \in Agent \cup {None}
            /\ CallKnows(call[c], shown, created, named, forgotten)
          BY SessionFields
      <2>3. call' = [call EXCEPT ![c] = n]
          BY <2>1 DEF SessionInv, SessionTypes
      <2>4. /\ n \in SessionCalls /\ n.op = "new" /\ n.session = s /\ n.agent = call[c].agent
            /\ n.at = "remember" /\ n.mode = call[c].mode
          BY <1>1, <2>2 DEF SessionCalls
      <2> HIDE DEF n
      <2>5. \A d \in WindowCall : call'[d] = IF d = c THEN n ELSE call[d]
          BY <2>3 DEF SessionInv, SessionTypes
      <2>6. \A t \in Session : created'[t] = IF t = s THEN call[c].agent ELSE created[t]
          BY <2>1 DEF SessionInv, SessionTypes
      <2>7. call[c].agent # None
          BY <1>1, <2>2 DEF CallKnows
      <2>8. SessionTypes'
          BY <1>1, <2>1, <2>2, <2>3, <2>4 DEF SessionInv, SessionTypes, Sessions!known
      <2>9. \A d \in WindowCall : CallKnows(call'[d], shown', created', named', forgotten')
          <3>1. CallKnows(n, shown', created', named', forgotten')
              BY <2>4, <2>6, <2>7 DEF CallKnows, Asking
          <3>2. \A d \in WindowCall : CallKnows(call[d], shown', created', named', forgotten')
              BY <1>1, <2>1, <2>6, SessionGrows
          <3> QED BY <2>5, <3>1, <3>2
      <2>10. \A t \in Session : KeepsAgents(t)'
          <3> SUFFICES ASSUME NEW t \in Session PROVE KeepsAgents(t)'
              OBVIOUS
          <3>1. KeepsAgents(t)
              BY DEF SessionInv
          <3>2. CASE t = s
              BY <1>1, <2>1, <2>6, <2>7, <3>1, <3>2 DEF KeepsAgents, Sessions!known
          <3>3. CASE t # s
              BY <1>1, <2>6, <3>1, <3>3 DEF KeepsAgents, Sessions!known
          <3> QED BY <3>2, <3>3
      <2>11. \A t \in forgotten \ touched : Gone(t)'
          <3> SUFFICES ASSUME NEW t \in forgotten \ touched PROVE Gone(t)'
              OBVIOUS
          <3>1. Gone(t) /\ t \in Session
              BY DEF SessionInv, SessionTypes
          <3>2. t # s
              BY <2>1, <3>1 DEF SessionInv, KeepsAgents
          <3> QED BY <1>1, <2>4, <2>5, <3>1, <3>2 DEF Gone, Sessions!known
      <2> QED BY <1>1, <2>8, <2>9, <2>10, <2>11 DEF SessionInv
  <1> QED BY <1>2, <1>3 DEF Sessions!Create

\* A request goes to an agent meant for its session.
LEMMA SessionRequest == ASSUME SessionInv, NEW c \in WindowCall, Sessions!GatewayJSON(c) PROVE SessionInv'
  <1> DEFINE s == call[c].session
  <1>1. /\ call[c].at = "request" /\ call[c].op \in Asking /\ call[c].op # "new"
        /\ UNCHANGED <<enabled, Sessions!known, shown, created, named, forgotten, touched>>
        /\ sent' = [sent EXCEPT ![s] = @ \cup {call[c].agent}]
      BY DEF Sessions!GatewayJSON, Sessions!At, Sessions!Asks, Asking
  <1>2. /\ call[c] \in SessionCalls /\ CallKnows(call[c], shown, created, named, forgotten)
        /\ s \in shown /\ s \in Session /\ created[s] # None /\ call[c].agent \in Agent \cup {None}
      BY <1>1, SessionFields
  <1>3. s \in forgotten \/ call[c].agent \in {created[s]} \cup named[s]
      BY <1>1, <1>2 DEF CallKnows
  <1>4. PICK n \in SessionCalls :
          /\ call' = [call EXCEPT ![c] = n] /\ n.session \in {None, s}
          /\ CallKnows(n, shown, created, named, forgotten)
      <2>1. PICK at \in {"done", "forget", "remember", "current"} :
              Sessions!Goto(c, at) /\ (at = "forget" => call[c].op = "delete")
          BY DEF Sessions!GatewayJSON, Sessions!Failed
      <2>2. CASE at = "done"
          BY <2>1, <2>2, SessionIdle DEF Sessions!Goto
      <2>3. CASE at # "done"
          <3> DEFINE n == [call[c] EXCEPT !.at = at]
          <3>1. call' = [call EXCEPT ![c] = n]
              BY <2>1, <2>3 DEF Sessions!Goto
          <3>2. /\ n \in SessionCalls /\ n.op = call[c].op /\ n.session = s /\ n.agent = call[c].agent
                /\ n.at = at /\ n.mode = call[c].mode
              BY <1>2, <2>3 DEF SessionCalls
          <3> HIDE DEF n
          <3>3. CallKnows(n, shown, created, named, forgotten)
              BY <1>1, <1>2, <1>3, <2>1, <2>3, <3>2 DEF CallKnows, Asking
          <3> QED BY <3>1, <3>2, <3>3
      <2> QED BY <2>2, <2>3
  <1>5. \A d \in WindowCall : call'[d] = IF d = c THEN n ELSE call[d]
      BY <1>4 DEF SessionInv, SessionTypes
  <1>6. SessionTypes'
      BY <1>1, <1>2, <1>4 DEF SessionInv, SessionTypes, Sessions!known
  <1>7. \A d \in WindowCall : CallKnows(call'[d], shown', created', named', forgotten')
      BY <1>1, <1>4, <1>5, SessionFields
  <1>8. \A t \in Session : KeepsAgents(t)'
      <2> SUFFICES ASSUME NEW t \in Session PROVE KeepsAgents(t)'
          OBVIOUS
      <2>1. KeepsAgents(t) /\ sent'[t] = IF t = s THEN sent[t] \cup {call[c].agent} ELSE sent[t]
          BY <1>1, <1>2 DEF SessionInv, SessionTypes
      <2>2. CASE t = s
          BY <1>1, <1>2, <1>3, <2>1, <2>2 DEF KeepsAgents, Sessions!known
      <2>3. CASE t # s
          BY <1>1, <2>1, <2>3 DEF KeepsAgents, Sessions!known
      <2> QED BY <2>2, <2>3
  <1>9. \A t \in forgotten \ touched : Gone(t)'
      <2> SUFFICES ASSUME NEW t \in forgotten \ touched PROVE Gone(t)'
          OBVIOUS
      <2>1. Gone(t) /\ t # s /\ t # None
          BY BridgeAssumption DEF SessionInv, SessionTypes, Gone
      <2> QED BY <1>1, <1>4, <1>5, <2>1 DEF Gone, Sessions!known
  <1> QED BY <1>1, <1>6, <1>7, <1>8, <1>9 DEF SessionInv

LEMMA SessionRead == ASSUME SessionInv, NEW c \in WindowCall, Sessions!ReadAgent(c) PROVE SessionInv'
  <1> DEFINE s == call[c].session
             n == [call[c] EXCEPT !.agent = sessionAgents[s], !.at = "remember"]
  <1>1. call[c].at = "read" /\ UNCHANGED <<enabled, Sessions!known, Sessions!history>>
      BY DEF Sessions!ReadAgent, Sessions!At
  <1>2. call[c] \in SessionCalls /\ CallKnows(call[c], shown, created, named, forgotten) /\ call[c].op = "connect"
      BY <1>1, SessionFields DEF CallKnows
  <1>3. s \in shown /\ s \in Session
      BY <1>1, <1>2, SessionFields
  <1>4. KeepsAgents(s) /\ sessionAgents[s] \in Agent \cup {None}
      BY <1>3 DEF SessionInv, SessionTypes
  <1>5. call' = [call EXCEPT ![c] = n]
      BY DEF Sessions!ReadAgent, SessionInv, SessionTypes
  <1>6. /\ n \in SessionCalls /\ n.op = "connect" /\ n.session = s /\ n.agent = sessionAgents[s]
        /\ n.at = "remember" /\ n.mode = call[c].mode
      BY <1>2, <1>4 DEF SessionCalls
  <1> HIDE DEF n
  <1>7. CallKnows(n, shown, created, named, forgotten)
      BY <1>3, <1>4, <1>6 DEF CallKnows, KeepsAgents, Asking
  <1> QED BY <1>1, <1>5, <1>6, <1>7, SessionMoves

\* What a call remembers of its session is an agent meant for it.
LEMMA SessionRemember == ASSUME SessionInv, NEW c \in WindowCall, Sessions!Remember(c) PROVE SessionInv'
  <1> DEFINE s == call[c].session
             a == call[c].agent
             n == [call[c] EXCEPT !.at = "current"]
  <1>1. /\ call[c].at = "remember"
        /\ UNCHANGED <<enabled, currentSessionID, created, named, sent, forgotten, touched>>
        /\ conversations' = conversations \cup {s} /\ activeSessions' = activeSessions \cup {s}
        /\ sessionAgents' = IF a = None THEN sessionAgents ELSE [sessionAgents EXCEPT ![s] = a]
        /\ shown' = shown \cup {s}
      BY DEF Sessions!Remember, Sessions!At
  <1>2. call[c] \in SessionCalls /\ CallKnows(call[c], shown, created, named, forgotten) /\ a \in Agent \cup {None}
      BY SessionFields
  <1>3. s \in Session /\ created[s] # None /\ (s \in shown \/ a # None)
      <2>1. CASE call[c].op = "new"
          BY <1>1, <1>2, <2>1 DEF CallKnows
      <2>2. CASE call[c].op # "new"
          BY <1>1, <2>2, SessionFields
      <2> QED BY <2>1, <2>2
  <1>4. s \in forgotten \/ a \in {created[s]} \cup named[s]
      BY <1>1, <1>2 DEF CallKnows
  <1>5. call' = [call EXCEPT ![c] = n]
      BY DEF Sessions!Remember, Sessions!Goto
  <1>6. /\ n \in SessionCalls /\ n.op = call[c].op /\ n.session = s /\ n.agent = a
        /\ n.at = "current" /\ n.mode = call[c].mode
      BY <1>2 DEF SessionCalls
  <1> HIDE DEF n
  <1>7. CallKnows(n, shown', created', named', forgotten')
      BY <1>1, <1>2, <1>3, <1>6 DEF CallKnows, Asking
  <1>8. \A d \in WindowCall : call'[d] = IF d = c THEN n ELSE call[d]
      BY <1>5 DEF SessionInv, SessionTypes
  <1>9. \A d \in WindowCall : CallKnows(call'[d], shown', created', named', forgotten')
      <2>1. \A d \in WindowCall : CallKnows(call[d], shown', created', named', forgotten')
          BY <1>1, SessionGrows
      <2> QED BY <1>7, <1>8, <2>1
  <1>10. SessionTypes'
      BY <1>1, <1>2, <1>3, <1>5, <1>6 DEF SessionInv, SessionTypes
  <1>11. \A t \in Session : KeepsAgents(t)'
      <2> SUFFICES ASSUME NEW t \in Session PROVE KeepsAgents(t)'
          OBVIOUS
      <2>1. KeepsAgents(t) /\ sessionAgents'[t] = IF t = s /\ a # None THEN a ELSE sessionAgents[t]
          BY <1>1, <1>3 DEF SessionInv, SessionTypes
      <2>2. CASE t = s
          BY <1>1, <1>3, <1>4, <2>1, <2>2 DEF KeepsAgents
      <2>3. CASE t # s
          BY <1>1, <2>1, <2>3 DEF KeepsAgents
      <2> QED BY <2>2, <2>3
  <1>12. \A t \in forgotten \ touched : Gone(t)'
      <2> SUFFICES ASSUME NEW t \in forgotten \ touched PROVE Gone(t)'
          OBVIOUS
      <2>1. Gone(t) /\ t # s /\ t \in Session
          BY DEF SessionInv, SessionTypes, Gone
      <2>2. sessionAgents'[t] = sessionAgents[t]
          BY <1>1, <2>1 DEF SessionInv, SessionTypes
      <2> QED BY <1>1, <1>6, <1>8, <2>1, <2>2 DEF Gone
  <1> QED BY <1>1, <1>9, <1>10, <1>11, <1>12 DEF SessionInv

LEMMA SessionLook == ASSUME SessionInv, NEW c \in WindowCall, Sessions!Look(c) PROVE SessionInv'
  <1>1. call[c].at = "look" /\ call[c].op = "load"
      BY SessionFields DEF Sessions!Look, Sessions!At, CallKnows
  <1> QED BY <1>1, SessionGoto DEF Sessions!Look

LEMMA SessionCurrent == ASSUME SessionInv, NEW c \in WindowCall, Sessions!SetCurrent(c) PROVE SessionInv'
  <1> DEFINE s == call[c].session
             next == IF call[c].op = "delete" THEN "forget" ELSE "done"
  <1>1. /\ call[c].at = "current" /\ Sessions!Goto(c, next)
        /\ UNCHANGED <<enabled, conversations, sessionAgents, Sessions!history>>
        /\ currentSessionID' = s /\ activeSessions' = activeSessions \cup {s}
      BY DEF Sessions!SetCurrent, Sessions!At
  <1>2. call[c] \in SessionCalls /\ CallKnows(call[c], shown, created, named, forgotten)
      BY SessionFields
  <1>3. s \in Session
      <2>1. CASE call[c].op = "new"
          BY <1>1, <1>2, <2>1 DEF CallKnows
      <2>2. CASE call[c].op # "new"
          BY <1>1, <2>2, SessionFields
      <2> QED BY <2>1, <2>2
  <1>4. PICK n \in SessionCalls :
          /\ call' = [call EXCEPT ![c] = n] /\ n.session \in {None, s}
          /\ CallKnows(n, shown, created, named, forgotten)
      <2>1. CASE call[c].op # "delete"
          BY <1>1, <2>1, SessionIdle DEF Sessions!Goto
      <2>2. CASE call[c].op = "delete"
          <3> DEFINE n == [call[c] EXCEPT !.at = "forget"]
          <3>1. call' = [call EXCEPT ![c] = n]
              BY <1>1, <2>2 DEF Sessions!Goto
          <3>2. /\ n \in SessionCalls /\ n.op = "delete" /\ n.session = s /\ n.agent = call[c].agent
                /\ n.at = "forget" /\ n.mode = call[c].mode
              BY <1>2, <2>2 DEF SessionCalls
          <3> HIDE DEF n
          <3>3. CallKnows(n, shown, created, named, forgotten)
              BY <1>1, <1>2, <2>2, <3>2 DEF CallKnows, Asking
          <3> QED BY <3>1, <3>2, <3>3
      <2> QED BY <2>1, <2>2
  <1>5. \A d \in WindowCall : call'[d] = IF d = c THEN n ELSE call[d]
      BY <1>4 DEF SessionInv, SessionTypes
  <1>6. SessionTypes'
      BY <1>1, <1>4 DEF SessionInv, SessionTypes, Sessions!history
  <1>7. \A d \in WindowCall : CallKnows(call'[d], shown', created', named', forgotten')
      BY <1>1, <1>4, <1>5, SessionFields DEF Sessions!history
  <1>8. \A t \in Session : KeepsAgents(t)'
      BY <1>1 DEF SessionInv, KeepsAgents, Sessions!history
  <1>9. \A t \in forgotten \ touched : Gone(t)'
      <2> SUFFICES ASSUME NEW t \in forgotten \ touched PROVE Gone(t)'
          OBVIOUS
      <2>1. Gone(t) /\ t # s /\ t # None
          BY BridgeAssumption DEF SessionInv, SessionTypes, Gone
      <2> QED BY <1>1, <1>4, <1>5, <2>1 DEF Gone
  <1> QED BY <1>1, <1>6, <1>7, <1>8, <1>9 DEF SessionInv, Sessions!history

\* A deletion leaves nothing, unless another call is about the session.
LEMMA SessionForget == ASSUME SessionInv, NEW c \in WindowCall, Sessions!Forget(c) PROVE SessionInv'
  <1> DEFINE s == call[c].session
  <1>1. /\ call[c].at = "forget"
        /\ UNCHANGED <<enabled, shown, created, named, sent>>
        /\ conversations' = conversations \ {s} /\ activeSessions' = activeSessions \ {s}
        /\ sessionAgents' = [sessionAgents EXCEPT ![s] = None]
        /\ currentSessionID' = IF currentSessionID = s THEN None ELSE currentSessionID
        /\ forgotten' = forgotten \cup {s}
        /\ touched' = IF \E d \in WindowCall \ {c} : call[d].session = s THEN touched \cup {s} ELSE touched
        /\ call' = [call EXCEPT ![c] = Sessions!Idle]
      BY DEF Sessions!Forget, Sessions!Forgetting, Sessions!At, Sessions!Goto
  <1>2. call[c].op = "delete" /\ s \in Session /\ s \in shown /\ created[s] # None
      <2>1. call[c].op = "delete"
          BY <1>1, SessionFields DEF CallKnows
      <2> QED BY <1>1, <2>1, SessionFields
  <1>3. \A d \in WindowCall : call'[d] = IF d = c THEN Sessions!Idle ELSE call[d]
      BY <1>1 DEF SessionInv, SessionTypes
  <1>4. \A t \in Session : sessionAgents'[t] = IF t = s THEN None ELSE sessionAgents[t]
      BY <1>1 DEF SessionInv, SessionTypes
  <1>5. SessionTypes'
      BY <1>1, <1>2, SessionIdle DEF SessionInv, SessionTypes
  <1>6. \A d \in WindowCall : CallKnows(call'[d], shown', created', named', forgotten')
      <2>1. \A d \in WindowCall : CallKnows(call[d], shown', created', named', forgotten')
          BY <1>1, SessionGrows
      <2> QED BY <1>3, <2>1, SessionIdle
  <1>7. \A t \in Session : KeepsAgents(t)'
      <2> SUFFICES ASSUME NEW t \in Session PROVE KeepsAgents(t)'
          OBVIOUS
      <2>1. KeepsAgents(t)
          BY DEF SessionInv
      <2>2. CASE t = s
          BY <1>1, <1>2, <2>2 DEF KeepsAgents
      <2>3. CASE t # s
          BY <1>1, <1>4, <2>1, <2>3 DEF KeepsAgents
      <2> QED BY <2>2, <2>3
  <1>8. \A t \in forgotten' \ touched' : Gone(t)'
      <2> SUFFICES ASSUME NEW t \in forgotten' \ touched' PROVE Gone(t)'
          OBVIOUS
      <2>0. t \in Session /\ t # None
          BY <1>1, <1>2, BridgeAssumption DEF SessionInv, SessionTypes
      <2>1. CASE t = s
          <3>1. \A d \in WindowCall \ {c} : call[d].session # s
              BY <1>1, <2>1
          <3> QED BY <1>1, <1>3, <1>4, <2>0, <2>1, <3>1, SessionIdle DEF Gone
      <2>2. CASE t # s
          <3>1. t \in forgotten \ touched /\ Gone(t)
              BY <1>1, <2>2 DEF SessionInv
          <3> QED BY <1>1, <1>3, <1>4, <2>0, <2>2, <3>1, SessionIdle DEF Gone
      <2> QED BY <2>1, <2>2
  <1> QED BY <1>5, <1>6, <1>7, <1>8 DEF SessionInv

LEMMA SessionNext == SessionInv /\ [Sessions!Next]_(Sessions!vars) => SessionInv'
  <1> SUFFICES ASSUME SessionInv, [Sessions!Next]_(Sessions!vars) PROVE SessionInv'
      OBVIOUS
  <1>1. CASE UNCHANGED Sessions!vars
      BY <1>1 DEF Sessions!vars, Sessions!known, Sessions!history, SessionInv, SessionTypes, KeepsAgents, Gone
  <1>2. CASE Sessions!Administer
      BY <1>2 DEF Sessions!Administer, Sessions!known, Sessions!history, SessionInv, SessionTypes, KeepsAgents, Gone
  <1>3. CASE \E c \in WindowCall : \/ Sessions!Begin(c) \/ Sessions!Resolve(c) \/ Sessions!Listed(c)
                                   \/ Sessions!StartAgent(c) \/ Sessions!Create(c) \/ Sessions!GatewayJSON(c)
                                   \/ Sessions!ReadAgent(c) \/ Sessions!Remember(c) \/ Sessions!Look(c)
                                   \/ Sessions!SetCurrent(c) \/ Sessions!Forget(c)
      BY <1>3, SessionBegin, SessionResolve, SessionListed, SessionStart, SessionCreate, SessionRequest,
         SessionRead, SessionRemember, SessionLook, SessionCurrent, SessionForget
  <1> QED BY <1>1, <1>2, <1>3 DEF Sessions!Next

LEMMA SessionPromises == SessionInv => Sessions!RequestsStay /\ Sessions!DeletedIsGone
  BY DEF SessionInv, SessionTypes, KeepsAgents, Gone, Sessions!RequestsStay, Sessions!DeletedIsGone

-----------------------------------------------------------------------------
(* What else the types ask of the two parts: whoever holds a process       *)
(* launched it, so a handle that is replaced is a launched one's; and a    *)
(* call that remembers a session has one.                                  *)

ChatHolds ==
  /\ replaced \subseteq launched /\ managed \in launched \cup {None}
  /\ \A t \in Task : task[t].hold \in launched \cup {None}
  /\ owned \in BOOLEAN /\ gateway \in BOOLEAN /\ exited \in BOOLEAN /\ asks \in 0..MaxAsks
  /\ stream \in Stream \cup {None} /\ streamsCancelled \subseteq Stream

SessionLists ==
  /\ calls \in 0..MaxCalls
  /\ conversations \subseteq Session /\ activeSessions \subseteq Session
  /\ currentSessionID \in Session \cup {None}

LEMMA ChatHoldsInit == ASSUME Gateway!Init PROVE ChatHolds
  <1>1. ASSUME NEW t \in Task PROVE task[t].hold = None
      BY DEF Gateway!Init, Gateway!Fresh, Task
  <1>2. gateway \in BOOLEAN /\ owned \in BOOLEAN /\ exited \in BOOLEAN
      BY DEF Gateway!Init
  <1>3. asks \in 0..MaxAsks
      BY BridgeAssumption DEF Gateway!Init
  <1> QED BY <1>1, <1>2, <1>3 DEF Gateway!Init, ChatHolds

\* A task that moves on holds what it held, or nothing.
LEMMA ChatHolding ==
  ASSUME ChatInv, ChatHolds, NEW t \in Task, NEW n, task' = [task EXCEPT ![t] = n],
         n.hold \in launched \cup {None}, launched \subseteq launched'
  PROVE  \A u \in Task : task'[u].hold \in launched' \cup {None}
  BY DEF ChatInv, ChatTypes, ChatHolds

LEMMA ChatHoldsGoto ==
  ASSUME ChatInv, ChatHolds, NEW t \in Task, NEW a, Gateway!Goto(t, a), UNCHANGED launched
  PROVE  \A u \in Task : task'[u].hold \in launched' \cup {None}
  <1>1. task[t] \in Gateway!TaskState /\ task[t].hold \in launched \cup {None}
      BY DEF ChatInv, ChatTypes, ChatHolds
  <1>2. Gateway!Ended(t).hold = None
      BY DEF Gateway!Ended, Gateway!Fresh
  <1>3. CASE task' = [task EXCEPT ![t] = Gateway!Ended(t)]
      BY <1>2, <1>3, ChatHolding
  <1>4. CASE task' = [task EXCEPT ![t] = [task[t] EXCEPT !.at = a, !.pid = None]]
      <2>1. [task[t] EXCEPT !.at = a, !.pid = None].hold = task[t].hold
          BY <1>1 DEF Gateway!TaskState
      <2> QED BY <1>1, <1>4, <2>1, ChatHolding
  <1> QED BY <1>3, <1>4 DEF Gateway!Goto, ChatInv, ChatTypes

LEMMA ChatHoldsNext == ASSUME ChatInv, ChatHolds, [Gateway!Next]_(Gateway!vars) PROVE ChatHolds'
  <1> DEFINE Holding == \A u \in Task : task'[u].hold \in launched' \cup {None}
  <1>0. ASSUME NEW t \in Task
        PROVE  task[t] \in Gateway!TaskState /\ task[t].hold \in launched \cup {None} /\ Gateway!Ended(t).hold = None
      BY DEF ChatInv, ChatTypes, ChatHolds, Gateway!Ended, Gateway!Fresh
  <1>1. CASE UNCHANGED Gateway!vars
      BY <1>1 DEF Gateway!vars, Gateway!boot, ChatHolds
  <1>2. CASE \E p \in Gateway!AnyProc : Gateway!Listen(p) \/ Gateway!Serve(p) \/ Gateway!Crash(p)
      BY <1>2 DEF Gateway!Listen, Gateway!Serve, Gateway!Crash, Gateway!boot, ChatHolds
  <1>3. ASSUME NEW t \in Task, Gateway!Ensuring(t)
        PROVE  ChatHolds'
      <2>1. CASE Gateway!Ping(t)
          <3>1. Holding
              BY <2>1, ChatHoldsGoto DEF Gateway!Ping
          <3>2. gateway' \in BOOLEAN
              BY <2>1 DEF Gateway!Ping, ChatHolds
          <3> QED BY <2>1, <3>1, <3>2 DEF Gateway!Ping, Gateway!boot, ChatHolds
      <2>2. CASE Gateway!Healthy(t)
          <3> DEFINE n == [task[t] EXCEPT !.at = "ready", !.hold = None]
          <3>1. n.hold = None /\ task' = [task EXCEPT ![t] = n]
              BY <1>0, <2>2 DEF Gateway!Healthy, Gateway!TaskState, ChatInv, ChatTypes
          <3> HIDE DEF n
          <3>2. Holding
              BY <2>2, <3>1, ChatHolding DEF Gateway!Healthy
          <3> QED BY <2>2, <3>2 DEF Gateway!Healthy, ChatHolds
      <2>3. CASE Gateway!Unhealthy(t)
          <3>1. Holding
              BY <2>3, ChatHoldsGoto DEF Gateway!Unhealthy, Gateway!TaskOnly
          <3> QED BY <2>3, <3>1 DEF Gateway!Unhealthy, Gateway!TaskOnly, Gateway!boot, ChatHolds
      <2>4. CASE Gateway!Launch(t)
          <3>1. launched \subseteq launched'
              BY <2>4 DEF Gateway!Launch
          <3>2. Holding
              <4>1. CASE Gateway!Goto(t, "failed") /\ UNCHANGED launched
                  BY <4>1, ChatHoldsGoto
              <4>2. ASSUME NEW p \in Proc, launched' = launched \cup {p},
                           task' = [task EXCEPT ![t].hold = p, ![t].at = "adopt"]
                    PROVE  Holding
                  <5> DEFINE n == [task[t] EXCEPT !.hold = p, !.at = "adopt"]
                  <5>1. n.hold = p /\ task' = [task EXCEPT ![t] = n]
                      BY <1>0, <4>2 DEF Gateway!TaskState, ChatInv, ChatTypes
                  <5> HIDE DEF n
                  <5>2. n.hold \in launched' \cup {None}
                      BY <4>2, <5>1
                  <5> QED BY <4>2, <5>1, <5>2 DEF ChatInv, ChatTypes, ChatHolds
              <4> QED BY <2>4, <4>1, <4>2 DEF Gateway!Launch
          <3> QED BY <2>4, <3>1, <3>2 DEF Gateway!Launch, Gateway!boot, ChatHolds
      <2>5. CASE Gateway!Adopt(t)
          <3>1. Holding
              BY <2>5, ChatHoldsGoto DEF Gateway!Adopt
          <3>2. replaced' \subseteq launched /\ managed' \in launched \cup {None} /\ owned' \in BOOLEAN
              BY <1>0, <2>5 DEF Gateway!Adopt, ChatHolds
          <3> QED BY <2>5, <3>1, <3>2 DEF Gateway!Adopt, ChatHolds
      <2>6. CASE Gateway!GiveUp(t) \/ Gateway!TakeToStop(t)
          <3>1. PICK at \in {"undo", "kill"} : Gateway!Take(t, at)
              BY <2>6 DEF Gateway!GiveUp, Gateway!TakeToStop
          <3> DEFINE k == IF owned THEN {managed, managedPid} \ {None} ELSE {}
                     n == [task[t] EXCEPT !.at = at, !.hold = None, !.kill = k]
          <3>2. n.hold = None /\ task' = [task EXCEPT ![t] = n]
              BY <1>0, <3>1 DEF Gateway!Take, Gateway!TaskState, ChatInv, ChatTypes
          <3> HIDE DEF n
          <3>3. Holding
              BY <3>1, <3>2, ChatHolding DEF Gateway!Take
          <3> QED BY <3>1, <3>3 DEF Gateway!Take, ChatHolds
      <2>7. CASE Gateway!Undo(t) \/ Gateway!Kill(t)
          <3>1. PICK n : n.hold \in launched \cup {None} /\ task' = [task EXCEPT ![t] = n]
              <4>1. CASE task' = [task EXCEPT ![t] = Gateway!Ended(t)]
                  BY <1>0, <4>1
              <4>2. CASE task' = [task EXCEPT ![t] = [task[t] EXCEPT !.at = "failed", !.kill = {}]]
                  <5>1. [task[t] EXCEPT !.at = "failed", !.kill = {}].hold = task[t].hold
                      BY <1>0 DEF Gateway!TaskState
                  <5> QED BY <1>0, <4>2, <5>1
              <4>3. CASE task' = [task EXCEPT ![t] = [task[t] EXCEPT !.at = "ping", !.kill = {}]]
                  <5>1. [task[t] EXCEPT !.at = "ping", !.kill = {}].hold = task[t].hold
                      BY <1>0 DEF Gateway!TaskState
                  <5> QED BY <1>0, <4>3, <5>1
              <4> QED BY <2>7, <4>1, <4>2, <4>3 DEF Gateway!Undo, Gateway!Kill, ChatInv, ChatTypes
          <3>2. UNCHANGED <<launched, replaced, managed, managedPid, owned, stream, streamsCancelled, asks, exited>>
              BY <2>7 DEF Gateway!Undo, Gateway!Kill, Gateway!Killed, Gateway!boot
          <3>3. Holding
              BY <3>1, <3>2, ChatHolding
          <3>4. gateway' \in BOOLEAN
              BY <2>7 DEF Gateway!Undo, Gateway!Kill, ChatHolds
          <3> QED BY <3>2, <3>3, <3>4 DEF ChatHolds
      <2>8. CASE Gateway!Failed(t)
          <3>1. Holding
              BY <2>8, ChatHoldsGoto DEF Gateway!Failed
          <3> QED BY <2>8, <3>1 DEF Gateway!Failed, Gateway!boot, ChatHolds
      <2> QED BY <1>3, <2>1, <2>2, <2>3, <2>4, <2>5, <2>6, <2>7, <2>8 DEF Gateway!Ensuring
  <1>4. ASSUME NEW t \in Ui, NEW op \in {"stop", "restart", "shutdown"}, Gateway!Ask(t, op)
        PROVE  ChatHolds'
      <2> DEFINE n == [task[t] EXCEPT !.op = op, !.at = "take"]
      <2>1. n.hold = task[t].hold /\ task' = [task EXCEPT ![t] = n]
          BY <1>0, <1>4 DEF Gateway!Ask, Gateway!TaskState, ChatInv, ChatTypes, Task
      <2> HIDE DEF n
      <2>2. t \in Task /\ n.hold \in launched \cup {None} /\ launched' = launched
          BY <1>0, <1>4, <2>1 DEF Gateway!Ask, Task
      <2>3. Holding
          BY <2>1, <2>2, ChatHolding
      <2>4. asks' \in 0..MaxAsks
          BY <1>4, BridgeAssumption DEF Gateway!Ask, ChatHolds
      <2>5. streamsCancelled' \subseteq Stream
          BY <1>4 DEF Gateway!Ask, ChatHolds
      <2> QED BY <1>4, <2>3, <2>4, <2>5 DEF Gateway!Ask, Gateway!boot, ChatHolds
  <1>5. ASSUME NEW t \in Ui, Gateway!ManualStart(t)
        PROVE  ChatHolds'
      <2>1. Holding
          BY <1>5, ChatHoldsGoto DEF Gateway!ManualStart, Task
      <2> QED BY <1>5, <2>1 DEF Gateway!ManualStart, Gateway!boot, ChatHolds
  <1>6. ASSUME NEW t \in Ui, Gateway!StartStream(t)
        PROVE  ChatHolds'
      <2>1. PICK g \in Stream : /\ stream' = g
                                /\ task' = [task EXCEPT ![t] = Gateway!Ended(t), ![g].op = "stream", ![g].at = "top"]
          BY <1>6 DEF Gateway!StartStream
      <2>2. g # t
          BY BridgeAssumption
      <2>3. ASSUME NEW u \in Task PROVE task'[u].hold \in launched \cup {None}
          <3>1. CASE u = t
              BY <1>0, <2>1, <2>2, <3>1 DEF ChatInv, ChatTypes, Task
          <3>2. CASE u = g
              <4>1. task'[g] = [task[g] EXCEPT !.op = "stream", !.at = "top"]
                  BY <2>1, <2>2 DEF ChatInv, ChatTypes, Task
              <4>2. task'[g].hold = task[g].hold
                  BY <1>0, <4>1 DEF Gateway!TaskState, Task
              <4> QED BY <1>0, <3>2, <4>2 DEF Task
          <3>3. CASE u # t /\ u # g
              BY <1>0, <2>1, <3>3 DEF ChatInv, ChatTypes, Task
          <3> QED BY <3>1, <3>2, <3>3
      <2>4. streamsCancelled' \subseteq Stream
          BY <1>6 DEF Gateway!StartStream, ChatHolds
      <2> QED BY <1>6, <2>1, <2>3, <2>4 DEF Gateway!StartStream, Gateway!boot, ChatHolds
  <1>7. ASSUME NEW g \in Stream,
               Gateway!Top(g) \/ Gateway!Dial(g) \/ Gateway!Event(g) \/ Gateway!Broken(g) \/ Gateway!Refresh(g)
                 \/ Gateway!Recovered(g)
        PROVE  ChatHolds'
      <2> DEFINE Going(n) == n.hold \in launched \cup {None} /\ task' = [task EXCEPT ![g] = n]
      <2>0. g \in Task /\ task[g] \in Gateway!TaskState /\ task[g].hold \in launched \cup {None}
          BY <1>0 DEF Task
      <2>1. (\E a : Gateway!Goto(g, a)) \/ \E n : Going(n)
          <3>1. CASE Gateway!Top(g)
              BY <3>1 DEF Gateway!Top
          <3>2. CASE Gateway!Dial(g)
              <4> DEFINE p == CHOOSE p \in Gateway!AnyProc : proc[p] = "up"
              <4>1. /\ [task[g] EXCEPT !.at = "reading", !.pid = p].hold = task[g].hold
                    /\ [task[g] EXCEPT !.at = "refresh", !.auths = Gateway!OneMore(task[g].auths, MaxAuth)].hold
                         = task[g].hold
                  BY <2>0 DEF Gateway!TaskState
              <4> QED BY <2>0, <3>2, <4>1 DEF Gateway!Dial, ChatInv, ChatTypes
          <3>3. CASE Gateway!Event(g)
              <4>1. [task[g] EXCEPT !.fails = 0, !.auths = 0].hold = task[g].hold
                  BY <2>0 DEF Gateway!TaskState
              <4> QED BY <2>0, <3>3, <4>1 DEF Gateway!Event, ChatInv, ChatTypes
          <3>4. CASE Gateway!Broken(g)
              <4> DEFINE fails == Gateway!OneMore(task[g].fails, MaxFailures)
              <4>1. [task[g] EXCEPT !.at = "top", !.pid = None, !.fails = fails].hold = task[g].hold
                  BY <2>0 DEF Gateway!TaskState
              <4>2. \/ task' = [task EXCEPT ![g] = Gateway!Ended(g)]
                    \/ task' = [task EXCEPT ![g] = [task[g] EXCEPT !.at = "top", !.pid = None, !.fails = fails]]
                  BY <2>0, <3>4 DEF Gateway!Broken, ChatInv, ChatTypes
              <4> QED BY <1>0, <2>0, <4>1, <4>2
          <3>5. CASE Gateway!Refresh(g)
              <4> DEFINE fails == Gateway!OneMore(task[g].fails, MaxFailures)
              <4>1. [task[g] EXCEPT !.at = "top", !.fails = fails].hold = task[g].hold
                  BY <2>0 DEF Gateway!TaskState
              <4> QED BY <2>0, <3>5, <4>1 DEF Gateway!Refresh, ChatInv, ChatTypes
          <3>6. CASE Gateway!Recovered(g)
              <4> DEFINE fails == Gateway!OneMore(task[g].fails, MaxFailures)
              <4>1. [task[g] EXCEPT !.at = "top", !.auths = 0, !.fails = fails].hold = task[g].hold
                  BY <2>0 DEF Gateway!TaskState
              <4> QED BY <2>0, <3>6, <4>1 DEF Gateway!Recovered, ChatInv, ChatTypes
          <3> QED BY <1>7, <3>1, <3>2, <3>3, <3>4, <3>5, <3>6
      <2>2. UNCHANGED <<launched, replaced, managed, managedPid, owned, stream, streamsCancelled, asks, exited>>
          BY <1>7 DEF Gateway!Top, Gateway!Dial, Gateway!Event, Gateway!Broken, Gateway!Refresh, Gateway!Recovered,
             Gateway!TaskOnly, Gateway!boot
      <2>3. gateway' \in BOOLEAN
          BY <1>7 DEF Gateway!Top, Gateway!Dial, Gateway!Event, Gateway!Broken, Gateway!Refresh, Gateway!Recovered,
             Gateway!TaskOnly, ChatHolds
      <2>4. Holding
          BY <2>0, <2>1, <2>2, ChatHoldsGoto, ChatHolding
      <2> QED BY <2>2, <2>3, <2>4 DEF ChatHolds
  <1>8. CASE Gateway!Exit
      BY <1>8 DEF Gateway!Exit, Gateway!boot, ChatHolds
  <1> QED BY <1>1, <1>2, <1>3, <1>4, <1>5, <1>6, <1>7, <1>8 DEF Gateway!Next, Task

LEMMA ChatIsTyped == ChatInv /\ ChatHolds => Gateway!TypeOK
  BY DEF ChatInv, ChatTypes, ChatHolds, Gateway!TypeOK, Task

LEMMA SessionListsInit == Sessions!Init => SessionLists
  BY BridgeAssumption DEF Sessions!Init, SessionLists

LEMMA SessionListsNext == ASSUME SessionInv, SessionLists, [Sessions!Next]_(Sessions!vars) PROVE SessionLists'
  <1>1. CASE UNCHANGED Sessions!vars \/ Sessions!Administer
      BY SMTT(30), <1>1 DEF Sessions!vars, Sessions!known, Sessions!Administer, SessionLists
  <1>2. ASSUME NEW c \in WindowCall, Sessions!Begin(c)
        PROVE  SessionLists'
      <2>0. calls < MaxCalls /\ calls' = calls + 1
          BY <1>2 DEF Sessions!Begin
      <2>1. calls' \in 0..MaxCalls
          BY <2>0, BridgeAssumption DEF SessionLists
      <2> QED BY <1>2, <2>1 DEF Sessions!Begin, Sessions!known, SessionLists
  <1>3. ASSUME NEW c \in WindowCall, Sessions!Resolve(c) \/ Sessions!Listed(c) \/ Sessions!StartAgent(c)
                 \/ Sessions!Create(c) \/ Sessions!GatewayJSON(c) \/ Sessions!ReadAgent(c) \/ Sessions!Look(c)
        PROVE  SessionLists'
      BY <1>3 DEF Sessions!Resolve, Sessions!Listed, Sessions!StartAgent, Sessions!Create, Sessions!GatewayJSON,
         Sessions!ReadAgent, Sessions!Look, Sessions!known, SessionLists
  <1>4. ASSUME NEW c \in WindowCall, Sessions!Remember(c) \/ Sessions!SetCurrent(c)
        PROVE  SessionLists'
      <2>1. CallKnows(call[c], shown, created, named, forgotten)
          BY SessionFields
      <2>2. call[c].at \in {"remember", "current"}
          BY <1>4 DEF Sessions!Remember, Sessions!SetCurrent, Sessions!At
      <2>3. call[c].session \in Session
          BY <2>1, <2>2, SessionFields DEF CallKnows
      <2> QED BY <1>4, <2>3 DEF Sessions!Remember, Sessions!SetCurrent, SessionLists
  <1>5. ASSUME NEW c \in WindowCall, Sessions!Forget(c)
        PROVE  SessionLists'
      BY <1>5 DEF Sessions!Forget, Sessions!Forgetting, SessionLists
  <1> QED BY <1>1, <1>2, <1>3, <1>4, <1>5 DEF Sessions!Next

LEMMA SessionIsTyped == SessionInv /\ SessionLists => Sessions!TypeOK
  BY DEF SessionInv, SessionTypes, SessionCalls, Asking, SessionLists, Sessions!TypeOK

-----------------------------------------------------------------------------
(* The bridge.                                                             *)

\* A step of the bridge is a step of each part, or leaves it alone.
LEMMA BridgeSteps ==
  ASSUME [BridgeNext]_bridgeVars
  PROVE  [Gateway!Next]_(Gateway!vars) /\ [Sessions!Next]_(Sessions!vars)
  <1> USE DEF bridgeVars, chatVars, sessionVars, Gateway!vars, Gateway!boot,
              Sessions!vars, Sessions!known, Sessions!history
  <1>1. CASE UNCHANGED bridgeVars
      BY <1>1
  <1>2. CASE Gateway!Next /\ UNCHANGED sessionVars
      BY <1>2
  <1>3. CASE Sessions!Next /\ UNCHANGED chatVars
      BY <1>3
  <1> QED BY <1>1, <1>2, <1>3 DEF BridgeNext

LEMMA BridgeChat == (BridgeInit => ChatInv) /\ (ChatInv /\ [BridgeNext]_bridgeVars => ChatInv')
  BY ChatInitInv, ChatNext, BridgeSteps DEF BridgeInit

LEMMA BridgeSessions == (BridgeInit => SessionInv) /\ (SessionInv /\ [BridgeNext]_bridgeVars => SessionInv')
  BY SessionInitInv, SessionNext, BridgeSteps DEF BridgeInit

LEMMA BridgeHolds ==
  /\ BridgeInit => ChatHolds /\ SessionLists
  /\ ChatInv /\ SessionInv /\ ChatHolds /\ SessionLists /\ [BridgeNext]_bridgeVars => (ChatHolds /\ SessionLists)'
  BY ChatHoldsInit, ChatHoldsNext, SessionListsInit, SessionListsNext, BridgeSteps DEF BridgeInit

(* The bridge's fields, calls and goroutines are what ChatGateway and      *)
(* ChatSessions say they are.                                              *)
THEOREM BridgeIsTyped == BridgeSpec => []BridgeTypes
  <1>1. ChatInv /\ SessionInv /\ ChatHolds /\ SessionLists => BridgeTypes
      BY ChatIsTyped, SessionIsTyped DEF BridgeTypes
  <1> QED BY <1>1, BridgeChat, BridgeSessions, BridgeHolds, PTL DEF BridgeSpec

(* Whatever launches, restarts, stops and crashes do, a gateway the bridge *)
(* launched and still runs is one it can stop, or its handle was replaced  *)
(* by another launch (gateway_bootstrap.go).                               *)
THEOREM NoGatewayEscapes == BridgeSpec => []NothingEscapes
  <1>1. ChatInv => NothingEscapes
      BY DEF ChatInv, NothingEscapes
  <1> QED BY <1>1, BridgeChat, PTL DEF BridgeSpec

(* However starts, restarts, stops and recoveries overlap, at most one     *)
(* stream goroutine of the bridge is live (agent_service.go).              *)
THEOREM StreamsAreReplaced == BridgeSpec => []OneLiveStream
  <1>1. ChatInv => OneLiveStream
      BY DEF ChatInv, OneLiveStream
  <1> QED BY <1>1, BridgeChat, PTL DEF BridgeSpec

(* Whichever calls overlap and whichever agent is the gateway's first, a   *)
(* session's requests go to the agent it was created with or to one the    *)
(* user named for it (agent_service.go, resolveSessionAgentID).            *)
THEOREM SessionsKeepTheirAgents == BridgeSpec => []RequestsStay
  <1>1. SessionInv => RequestsStay
      BY SessionPromises DEF RequestsStay
  <1> QED BY <1>1, BridgeSessions, PTL DEF BridgeSpec

(* A session that was deleted while no other call was about it is never    *)
(* listed, bound to an agent or streamed again (forgetConversation).       *)
THEOREM DeletedStaysGone == BridgeSpec => []DeletedIsGone
  <1>1. SessionInv => DeletedIsGone
      BY SessionPromises DEF DeletedIsGone
  <1> QED BY <1>1, BridgeSessions, PTL DEF BridgeSpec

-----------------------------------------------------------------------------
(* The gateway and the chat together, as the model of MCGateway runs them: *)
(* a step is a step of one part, and the others stay where they are.  The  *)
(* bus alone is no step of the stream, whose connections then never begin. *)

StreamStill == StreamTypes /\ StreamBounds /\ replayed = [s \in Sub |-> 0]

GatewayInv ==
  /\ BrokerInv
  /\ StoreInv /\ StoreBounds
  /\ ChatInv /\ ChatHolds /\ SessionInv /\ SessionLists
  /\ BusInv /\ BusBounds
  /\ part = "bus" => StreamStill
  /\ part # "bus" => StreamInv /\ StreamBounds

LEMMA GatewaySteps ==
  ASSUME [GatewayNext]_<<hostVars, bridgeVars, storeVars>>
  PROVE  /\ UNCHANGED part
         /\ [Next]_vars /\ [StoreNext]_storeVars /\ [BridgeNext]_bridgeVars
         /\ \/ part # "bus" /\ [StreamNext]_streamAllVars
            \/ part = "bus" /\ [BusNext]_busVars /\ UNCHANGED streamVars
  <1>1. CASE UNCHANGED <<hostVars, bridgeVars, storeVars>>
      BY <1>1 DEF hostVars, streamAllVars
  <1>2. CASE part = "approvals" /\ Next /\ UNCHANGED <<part, streamAllVars, bridgeVars, storeVars>>
      BY <1>2 DEF streamAllVars
  <1>3. CASE part = "bus" /\ BusNext /\ UNCHANGED <<part, vars, streamVars, bridgeVars, storeVars>>
      BY <1>3
  <1>4. CASE part = "stream" /\ StreamNext /\ UNCHANGED <<part, vars, bridgeVars, storeVars>>
      BY <1>4
  <1>5. CASE Gateway!Next /\ UNCHANGED <<hostVars, sessionVars, storeVars>>
      BY <1>5 DEF hostVars, streamAllVars, BridgeNext
  <1>6. CASE part = "store" /\ StoreNext /\ UNCHANGED <<hostVars, bridgeVars>>
      BY <1>6 DEF hostVars, streamAllVars
  <1>7. CASE part = "sessions" /\ Sessions!Next /\ UNCHANGED <<hostVars, chatVars, storeVars>>
      BY <1>7 DEF hostVars, streamAllVars, BridgeNext
  <1> QED BY <1>1, <1>2, <1>3, <1>4, <1>5, <1>6, <1>7 DEF GatewayNext

LEMMA GatewayStart == ASSUME GatewayInit PROVE GatewayInv
  <1>1. BrokerInv /\ StoreInv /\ StoreBounds /\ ChatInv /\ ChatHolds /\ SessionInv /\ SessionLists
      BY BrokerInitInv, StoreStart, StoreBoundsInit, BridgeChat, BridgeSessions, BridgeHolds DEF GatewayInit
  <1>2. StreamInv /\ BusBounds /\ StreamBounds
      BY StreamInitInv, StreamBoundsInit DEF GatewayInit
  <1>3. replayed = [s \in Sub |-> 0]
      BY DEF GatewayInit, StreamInit
  <1> QED BY <1>1, <1>2, <1>3 DEF GatewayInv, StreamStill, StreamInv

LEMMA GatewayKeeps ==
  ASSUME GatewayInv, [GatewayNext]_<<hostVars, bridgeVars, storeVars>>
  PROVE  GatewayInv'
  <1>1. /\ UNCHANGED part
        /\ [Next]_vars /\ [StoreNext]_storeVars /\ [BridgeNext]_bridgeVars
        /\ \/ part # "bus" /\ [StreamNext]_streamAllVars
           \/ part = "bus" /\ [BusNext]_busVars /\ UNCHANGED streamVars
      BY GatewaySteps
  <1>2. BrokerInv' /\ StoreInv' /\ StoreBounds'
      BY <1>1, BrokerNextInv, StoreKeeps, StoreFits DEF GatewayInv
  <1>3. ChatInv' /\ ChatHolds' /\ SessionInv' /\ SessionLists'
      BY <1>1, BridgeChat, BridgeSessions, BridgeHolds DEF GatewayInv
  <1>4. CASE part # "bus"
      BY <1>1, <1>2, <1>3, <1>4, StreamKeeps, StreamFits DEF GatewayInv, StreamInv
  <1>5. CASE part = "bus" /\ [BusNext]_busVars /\ UNCHANGED streamVars
      <2>1. BusInv' /\ BusBounds'
          BY <1>5, BusKeeps, BusFits DEF GatewayInv
      <2>2. StreamStill'
          <3>1. UNCHANGED <<link, serve, replayed, forward, held, relay, stopped, cursor, seen>>
              BY <1>5 DEF streamVars
          <3>2. \A s \in Sub : Len(snapshot'[s]) \in Nat
              BY <2>1 DEF BusInv, BusTypeOK
          <3>3. \A s \in Sub : replayed'[s] <= Len(snapshot'[s])
              BY <1>5, <3>1, <3>2 DEF GatewayInv, StreamStill
          <3> QED BY <1>5, <3>1, <3>3 DEF GatewayInv, StreamStill, StreamTypes, StreamBounds
      <2> QED BY <1>1, <1>2, <1>3, <1>5, <2>1, <2>2 DEF GatewayInv
  <1> QED BY <1>1, <1>4, <1>5

(* Every variable of the gateway's and the chat's modules keeps its type,  *)
(* whichever part runs.                                                    *)
THEOREM GatewayIsTyped == GatewaySpec => []Types
  <1>1. GatewayInv => Types
      <2>1. GatewayInv => TypeOK /\ StoreTypeOK /\ Gateway!TypeOK /\ Sessions!TypeOK
          BY StoreIsTyped, ChatIsTyped, SessionIsTyped DEF GatewayInv, BrokerInv, StoreInv
      <2>2. GatewayInv => StreamTypeOK
          BY StreamIsTyped DEF GatewayInv, StreamStill, StreamInv, BusInv
      <2> QED BY <2>1, <2>2 DEF Types
  <1> QED BY <1>1, GatewayStart, GatewayKeeps, PTL DEF GatewaySpec
=============================================================================
