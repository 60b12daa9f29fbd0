-------------------------- MODULE AcpManagerProofs --------------------------
(***************************************************************************)
(* Proofs about AcpManager for every set of agents, callers, processes and *)
(* configurations.  IInv is the inductive invariant: it says what is known *)
(* of a process by where it is - in the table, in the hands of a call, or  *)
(* with its waitAgent - which the properties alone do not.                 *)
(***************************************************************************)
EXTENDS AcpManager, TLAPS

Held(c) == call[c].held

\* The places of a call at which it works on an agent.
Working == {"look", "claim", "launch", "connect", "abort", "takeout", "wait"}

CallOK(r) ==
  /\ r \in CallState
  /\ r.held # None <=> r.pc \in {"connect", "abort", "wait"}
  /\ r.pc \in Working => r.agent \in Agent

TableInv ==
  \A a \in Agent : table[a] # None =>
    /\ ~closed
    /\ proc[table[a]].agent = a /\ proc[table[a]].state # "unused" /\ ~proc[table[a]].killed
    /\ watch[table[a]] \in {"wait", "evict"}
    /\ \A c \in Caller : Held(c) # table[a]

HeldInv ==
  \A c \in Caller : Held(c) # None =>
    /\ proc[Held(c)].state # "unused"
    /\ \A d \in Caller : Held(d) = Held(c) => d = c
    /\ call[c].pc = "connect" =>
         proc[Held(c)].agent = call[c].agent /\ ~proc[Held(c)].killed /\ watch[Held(c)] = "none"

ProcInv ==
  \A p \in Proc :
    /\ watch[p] # "none" => proc[p].state # "unused"
    /\ watch[p] \in {"evict", "done"} => Dead(p)
    /\ proc[p].state # "unused" => proc[p].agent \in Agent

ClosingInv ==
  /\ closed \/ closing = {}
  /\ \A p \in closing : proc[p].state # "unused" /\ \A c \in Caller : Held(c) # p

IInv ==
  /\ TypeOK
  /\ \A c \in Caller : CallOK(call[c])
  /\ TableInv
  /\ HeldInv
  /\ ProcInv
  /\ ClosingInv
  /\ EveryProcessHasAnOwner

-----------------------------------------------------------------------------
(* Calls.                                                                  *)

\* The fields of a call.
LEMMA CallFields ==
  ASSUME NEW r \in CallState
  PROVE  /\ r.agent \in Agent \cup {NoAgent} /\ r.row \in Row /\ r.todo \subseteq Agent
         /\ r.listed \in [Agent -> Row] /\ r.held \in Proc \cup {None}
BY DEF CallState

\* A goroutine at rest is in no call.
LEMMA RestOK == CallOK(Rest) /\ Rest.held = None /\ Rest.pc = "idle"
BY ManagerAssumption DEF CallOK, Rest, CallState, Row, NoRow, Working

\* Caller c goes on, or back to rest, with no process in its hands.
Free(c) ==
  \E r : CallOK(r) /\ r.held = None /\ r.pc # "connect" /\ call' = [call EXCEPT ![c] = r]

\* What IInv says of one call.
LEMMA CallKnown ==
  ASSUME IInv, NEW c \in Caller
  PROVE  /\ call \in [Caller -> CallState] /\ call[c] \in CallState /\ CallOK(call[c])
         /\ call[c].pc \in Working => call[c].agent \in Agent
BY DEF IInv, TypeOK, CallOK

\* A call that is over.
LEMMA EndFrees ==
  ASSUME NEW c \in Caller, End(c)
  PROVE  Free(c)
BY RestOK DEF End, Free

\* The loop of SyncAgents goes on.
LEMMA ResumeFrees ==
  ASSUME IInv, NEW c \in Caller, NEW pc \in {"next", "prune"}, Resume(c, pc)
  PROVE  Free(c)
<1> DEFINE r == [call[c] EXCEPT !.pc = pc, !.why = "none", !.agent = NoAgent, !.row = NoRow,
                                !.held = None]
<1>1. call[c] \in CallState /\ NoRow \in Row
  BY CallKnown, ManagerAssumption DEF Row, NoRow
<1>2. r \in CallState
  BY <1>1 DEF CallState
<1>3. r.pc = pc /\ r.held = None
  BY <1>1 DEF CallState
<1>4. call' = [call EXCEPT ![c] = r]
  BY DEF Resume
<1> HIDE DEF r
<1> QED BY <1>2, <1>3, <1>4 DEF Free, CallOK, Working

\* A step to another place of the call, with empty hands.
LEMMA GotoFrees ==
  ASSUME IInv, NEW c \in Caller, NEW pc \in {"claim", "launch"}, call[c].pc \in Working,
         Held(c) = None, Goto(c, pc)
  PROVE  Free(c)
<1> DEFINE r == [call[c] EXCEPT !.pc = pc]
<1>1. call[c] \in CallState /\ call[c].agent \in Agent
  BY CallKnown
<1>2. r \in CallState
  BY <1>1 DEF CallState
<1>3. r.pc = pc /\ r.held = None /\ r.agent \in Agent
  BY <1>1 DEF CallState, Held
<1>4. call' = [call EXCEPT ![c] = r]
  BY DEF Goto
<1> HIDE DEF r
<1> QED BY <1>2, <1>3, <1>4 DEF Free, CallOK, Working

\* StartAgent returns, or SyncAgents goes on after it.
LEMMA StartReturnsFrees ==
  ASSUME IInv, NEW c \in Caller, StartReturns(c)
  PROVE  Free(c)
BY EndFrees, ResumeFrees DEF StartReturns

\* StopAgent returns to whoever called it.
LEMMA StopReturnsFrees ==
  ASSUME IInv, NEW c \in Caller, NEW ok \in BOOLEAN, call[c].pc \in Working, StopReturns(c, ok)
  PROVE  Free(c)
<1>1. CASE call' = [call EXCEPT ![c].pc = "launch", ![c].held = None]
  <2> DEFINE r == [call[c] EXCEPT !.pc = "launch", !.held = None]
  <2>1. call[c] \in CallState /\ call[c].agent \in Agent
    BY CallKnown
  <2>2. r \in CallState
    BY <2>1 DEF CallState
  <2>3. r.pc = "launch" /\ r.held = None /\ r.agent \in Agent
    BY <2>1 DEF CallState
  <2>4. call' = [call EXCEPT ![c] = r]
    BY <1>1
  <2> HIDE DEF r
  <2> QED BY <2>2, <2>3, <2>4 DEF Free, CallOK, Working
<1>2. CASE StartReturns(c)
  BY <1>2, StartReturnsFrees
<1>3. CASE Resume(c, "next") \/ Resume(c, "prune")
  BY <1>3, ResumeFrees
<1>4. CASE End(c)
  BY <1>4, EndFrees
<1> QED BY <1>1, <1>2, <1>3, <1>4 DEF StopReturns

\* The statuses stay those of agents.
LEMMA KnownType ==
  ASSUME IInv, NEW a \in Agent, Known(a)
  PROVE  known' \subseteq Agent
BY DEF IInv, TypeOK, Known

-----------------------------------------------------------------------------
(* The shapes of a step.                                                   *)

\* A caller's step that touches no process: it held none, or one that ended.
LEMMA FreeStep ==
  ASSUME IInv, NEW c \in Caller, Free(c), Held(c) = None \/ Dead(Held(c)),
         UNCHANGED <<config, table, closed, proc, watch, closing, edits, leaked>>,
         known' \subseteq Agent, calls' \in Nat
  PROVE  IInv'
<1>1. PICK r : CallOK(r) /\ r.held = None /\ r.pc # "connect" /\ call' = [call EXCEPT ![c] = r]
  BY DEF Free
<1>2. /\ call' \in [Caller -> CallState] /\ call'[c] = r
      /\ \A d \in Caller \ {c} : call'[d] = call[d]
  BY <1>1, CallKnown DEF CallOK
<1>3. \A d \in Caller : CallOK(call'[d])
  BY <1>1, <1>2, CallKnown
<1>4. TypeOK'
  BY <1>2, <1>3 DEF IInv, TypeOK, CallOK
<1>5. /\ Held(c)' = None
      /\ \A d \in Caller \ {c} : Held(d)' = Held(d)
  BY <1>1, <1>2 DEF Held
<1>6. TableInv'
  BY <1>5 DEF IInv, TableInv
<1>7. HeldInv'
  BY <1>2, <1>5 DEF IInv, HeldInv
<1>8. ProcInv' /\ ClosingInv'
  <2>1. \A p \in closing : p # None
    BY ManagerAssumption DEF IInv, TypeOK
  <2> QED BY <1>5, <2>1 DEF IInv, ProcInv, ClosingInv, Dead
<1>9. EveryProcessHasAnOwner'
  <2>1. ASSUME NEW p \in Proc, Alive(p), p \notin leaked
        PROVE  Owned(p)'
    <3>1. Owned(p)
      BY <2>1 DEF IInv, EveryProcessHasAnOwner
    <3>2. Held(c) # p
      BY <2>1, ManagerAssumption DEF Dead, Alive
    <3> QED BY <1>2, <3>1, <3>2 DEF Owned, Held
  <2> QED BY <2>1 DEF EveryProcessHasAnOwner, Alive
<1> QED BY <1>3, <1>4, <1>6, <1>7, <1>8, <1>9 DEF IInv

\* A kill changes nothing of a process but that it is killed.
LEMMA KillType ==
  ASSUME IInv, NEW p \in Proc, Kill(p)
  PROVE  /\ proc' \in [Proc -> Process]
         /\ \A q \in Proc : proc'[q].state = proc[q].state /\ proc'[q].agent = proc[q].agent
         /\ \A q \in Proc \ {p} : proc'[q] = proc[q]
<1> DEFINE killed == [proc[p] EXCEPT !.killed = TRUE]
<1>1. proc \in [Proc -> Process] /\ proc[p] \in Process
  BY DEF IInv, TypeOK
<1>2. killed \in Process /\ killed.state = proc[p].state /\ killed.agent = proc[p].agent
  BY <1>1 DEF Process
<1>3. proc' = [proc EXCEPT ![p] = killed]
  BY DEF Kill
<1> HIDE DEF killed
<1> QED BY <1>1, <1>2, <1>3

\* Caller c kills the process it holds and waits for its end; the process it
\* holds then is the one it held, or one it takes out of the table.
LEMMA KillStep ==
  ASSUME IInv, NEW c \in Caller, NEW p \in Proc, NEW r, CallOK(r), r.held = p, r.pc # "connect",
         call' = [call EXCEPT ![c] = r], Kill(p), proc[p].state # "unused",
         p \notin closing, \A d \in Caller \ {c} : Held(d) # p,
         \A a \in Agent : table'[a] = IF table[a] = p THEN None ELSE table[a],
         table' \in [Agent -> Proc \cup {None}], Held(c) \in {None, p}, known' = known,
         UNCHANGED <<config, closed, watch, closing, calls, edits, leaked>>
  PROVE  IInv'
<1>1. /\ call' \in [Caller -> CallState] /\ call'[c] = r
      /\ \A d \in Caller \ {c} : call'[d] = call[d]
  BY CallKnown DEF CallOK
<1>2. \A d \in Caller : CallOK(call'[d])
  BY <1>1, CallKnown
<1>3. /\ proc' \in [Proc -> Process]
      /\ \A q \in Proc : proc'[q].state = proc[q].state /\ proc'[q].agent = proc[q].agent
      /\ \A q \in Proc \ {p} : proc'[q] = proc[q]
  BY KillType
<1>4. TypeOK'
  BY <1>1, <1>2, <1>3 DEF IInv, TypeOK, CallOK
<1>5. /\ Held(c)' = p
      /\ \A d \in Caller \ {c} : Held(d)' = Held(d)
  BY <1>1 DEF Held
<1>6. TableInv'
  BY <1>3, <1>5 DEF IInv, TypeOK, TableInv
<1>7. HeldInv'
  <2>1. \A d \in Caller : Held(d) \in Proc \cup {None}
    BY CallKnown, CallFields DEF Held
  <2>2. ASSUME NEW d \in Caller, d # c, Held(d)' # None
        PROVE  /\ proc'[Held(d)'].state # "unused"
               /\ \A e \in Caller : Held(e)' = Held(d)' => e = d
               /\ call'[d].pc = "connect" =>
                    proc'[Held(d)'].agent = call'[d].agent /\ ~proc'[Held(d)'].killed
                      /\ watch'[Held(d)'] = "none"
    <3>1. Held(d)' = Held(d) /\ Held(d) # p /\ Held(d) \in Proc /\ call'[d] = call[d]
      BY <1>1, <1>5, <2>1, <2>2
    <3>2. proc'[Held(d)] = proc[Held(d)] /\ watch' = watch
      BY <1>3, <3>1
    <3>3. /\ proc[Held(d)].state # "unused"
          /\ \A e \in Caller : Held(e) = Held(d) => e = d
          /\ call[d].pc = "connect" =>
               proc[Held(d)].agent = call[d].agent /\ ~proc[Held(d)].killed /\ watch[Held(d)] = "none"
      BY <2>2, <3>1 DEF IInv, HeldInv
    <3> QED BY <1>5, <3>1, <3>2, <3>3
  <2>3. /\ proc'[p].state # "unused"
        /\ \A e \in Caller : Held(e)' = p => e = c
        /\ call'[c].pc # "connect"
    BY <1>1, <1>3, <1>5
  <2> QED BY <1>5, <2>2, <2>3 DEF HeldInv
<1>8. ProcInv' /\ ClosingInv'
  BY <1>3, <1>5 DEF IInv, TypeOK, ProcInv, ClosingInv, Dead
<1>9. EveryProcessHasAnOwner'
  <2>1. ASSUME NEW q \in Proc, Alive(q)', q \notin leaked
        PROVE  Owned(q)'
    <3>1. Owned(q)
      BY <1>3, <2>1 DEF IInv, EveryProcessHasAnOwner, Alive
    <3>2. CASE q = p
      BY <1>5, <3>2 DEF Owned, Held
    <3>3. CASE q # p
      <4>1. CASE \E a \in Agent : table[a] = q
        BY <3>3, <4>1 DEF Owned
      <4>2. CASE \E d \in Caller : call[d].held = q
        <5>1. PICK d \in Caller : Held(d) = q
          BY <4>2 DEF Held
        <5>2. d # c
          BY <3>3, <5>1, <2>1, ManagerAssumption
        <5> QED BY <1>5, <5>1, <5>2 DEF Owned, Held
      <4>3. CASE q \in closing
        BY <4>3 DEF Owned
      <4> QED BY <3>1, <4>1, <4>2, <4>3 DEF Owned
    <3> QED BY <3>2, <3>3
  <2> QED BY <2>1 DEF EveryProcessHasAnOwner
<1> QED BY <1>2, <1>4, <1>6, <1>7, <1>8, <1>9 DEF IInv

-----------------------------------------------------------------------------
(* Calls begin, and SyncAgents goes through its list.                      *)

\* A call of the manager begins.
LEMMA CallingStep ==
  ASSUME IInv, NEW c \in Caller, Calling(c)
  PROVE  IInv'
<1>1. CallOK(call[c]) /\ config \in [Agent -> Row]
  BY SMTT(30), CallKnown DEF IInv, TypeOK
<1>2. Begin(c)
  BY DEF Calling, BeginSync, BeginStart, BeginStop
<1>3. /\ Held(c) = None /\ calls' \in Nat /\ known' \subseteq Agent
      /\ UNCHANGED <<config, table, closed, proc, watch, closing, edits, leaked>>
  BY <1>1, <1>2 DEF Begin, Held, CallOK, IInv, TypeOK
<1>4. ASSUME NEW a \in Agent, BeginStart(c, a)
      PROVE  Free(c)
  <2> DEFINE r == [Rest EXCEPT !.pc = "look", !.job = "start", !.agent = a, !.row = config[a]]
  <2>1. call' = [call EXCEPT ![c] = r]
    BY <1>4 DEF BeginStart
  <2>2. CallOK(r) /\ r.held = None /\ r.pc # "connect"
    BY <1>1, RestOK DEF CallOK, CallState, Rest, Working
  <2> QED BY <2>1, <2>2 DEF Free
<1>5. ASSUME NEW a \in Agent, BeginStop(c, a)
      PROVE  Free(c)
  <2> DEFINE r == [Rest EXCEPT !.pc = "takeout", !.job = "stop", !.why = "stop", !.agent = a]
  <2>1. call' = [call EXCEPT ![c] = r]
    BY <1>5 DEF BeginStop
  <2>2. CallOK(r) /\ r.held = None /\ r.pc # "connect"
    BY RestOK DEF CallOK, CallState, Rest, Working
  <2> QED BY <2>1, <2>2 DEF Free
<1>6. ASSUME BeginSync(c)
      PROVE  Free(c)
  <2>1. PICK filter \in SUBSET Agent :
          call' = [call EXCEPT ![c] = [Rest EXCEPT !.pc = "next", !.job = "sync",
                     !.listed = [a \in Agent |-> IF a \in filter THEN config[a] ELSE NoRow],
                     !.todo = {a \in filter : config[a].present}]]
    BY <1>6 DEF BeginSync
  <2> DEFINE listed == [a \in Agent |-> IF a \in filter THEN config[a] ELSE NoRow]
             todo == {a \in filter : config[a].present}
             r == [Rest EXCEPT !.pc = "next", !.job = "sync", !.listed = listed, !.todo = todo]
  <2>2. listed \in [Agent -> Row] /\ todo \in SUBSET Agent
    BY <1>1, ManagerAssumption DEF Row, NoRow
  <2>3. call' = [call EXCEPT ![c] = r]
    BY <2>1
  <2> HIDE DEF listed, todo
  <2>4. CallOK(r) /\ r.held = None /\ r.pc # "connect"
    BY <2>2, RestOK DEF CallOK, CallState, Rest, Working
  <2> QED BY <2>3, <2>4 DEF Free
<1>7. Free(c)
  BY <1>4, <1>5, <1>6 DEF Calling
<1> QED BY <1>3, <1>7, FreeStep

\* The loops of SyncAgents.
LEMMA SyncingStep ==
  ASSUME IInv, NEW c \in Caller, Syncing(c)
  PROVE  IInv'
<1>1. /\ CallOK(call[c]) /\ call[c] \in CallState /\ call[c].pc \in {"next", "prune"}
      /\ UNCHANGED <<config, table, known, closed, proc, watch, closing, calls, edits, leaked>>
  BY CallKnown DEF Syncing, ListDone, EndSync, SyncAgent, Prune
<1>2. /\ Held(c) = None /\ calls' \in Nat /\ known' \subseteq Agent
      /\ call[c].todo \subseteq Agent /\ call[c].listed \in [Agent -> Row]
  BY <1>1, CallFields DEF CallOK, Held, IInv, TypeOK
<1>3. ASSUME NEW a \in Agent, SyncAgent(c, a)
      PROVE  Free(c)
  <2> DEFINE row == call[c].listed[a]
             pc == IF row.enabled THEN "look" ELSE "takeout"
             why == IF row.enabled THEN "none" ELSE "disable"
             r == [call[c] EXCEPT !.todo = @ \ {a}, !.agent = a, !.row = row, !.pc = pc, !.why = why]
  <2>1. call' = [call EXCEPT ![c] = r]
    BY <1>3 DEF SyncAgent
  <2>2. row \in Row /\ pc \in {"look", "takeout"} /\ why \in {"none", "disable"}
        /\ call[c].todo \ {a} \subseteq Agent
    BY <1>2
  <2> HIDE DEF row, pc, why
  <2>3. r \in CallState /\ r.pc = pc /\ r.held = None /\ r.agent = a
    BY <1>1, <1>2, <2>2 DEF CallState, Held
  <2> HIDE DEF r
  <2> QED BY <2>1, <2>2, <2>3 DEF Free, CallOK, Working
<1>4. ASSUME NEW a \in Agent, Prune(c, a)
      PROVE  Free(c)
  <2> DEFINE r == [call[c] EXCEPT !.todo = @ \ {a}, !.agent = a, !.pc = "takeout", !.why = "prune"]
  <2>1. call' = [call EXCEPT ![c] = r]
    BY <1>4 DEF Prune
  <2>2. call[c].todo \ {a} \subseteq Agent
    BY <1>2
  <2>3. r \in CallState /\ r.pc = "takeout" /\ r.held = None /\ r.agent = a
    BY <1>1, <1>2, <2>2 DEF CallState, Held
  <2> HIDE DEF r
  <2> QED BY <2>1, <2>3 DEF Free, CallOK, Working
<1>5. ASSUME ListDone(c)
      PROVE  Free(c)
  <2> DEFINE todo == {a \in known : ~call[c].listed[a].present}
             r == [call[c] EXCEPT !.pc = "prune", !.todo = todo]
  <2>1. call' = [call EXCEPT ![c] = r]
    BY <1>5 DEF ListDone
  <2>2. todo \subseteq Agent
    BY DEF IInv, TypeOK
  <2> HIDE DEF todo
  <2>3. r \in CallState /\ r.pc = "prune" /\ r.held = None
    BY <1>1, <1>2, <2>2 DEF CallState, Held
  <2> HIDE DEF r
  <2> QED BY <2>1, <2>3 DEF Free, CallOK, Working
<1>6. ASSUME EndSync(c)
      PROVE  Free(c)
  BY <1>6, EndFrees DEF EndSync, End
<1>7. Free(c)
  BY <1>3, <1>4, <1>5, <1>6 DEF Syncing
<1> QED BY <1>1, <1>2, <1>7, FreeStep

-----------------------------------------------------------------------------
(* StartAgent and StopAgent.                                               *)

\* Look.
LEMMA LookStep ==
  ASSUME IInv, NEW c \in Caller, Look(c)
  PROVE  IInv'
<1>1. /\ CallOK(call[c]) /\ call[c] \in CallState /\ call[c].pc = "look" /\ call[c].agent \in Agent
      /\ UNCHANGED <<config, table, closed, proc, watch, closing, calls, edits, leaked>>
  BY CallKnown DEF Look, Working
<1>2. Held(c) = None /\ calls' \in Nat /\ call[c].pc \in Working
  BY <1>1 DEF CallOK, Held, IInv, TypeOK, Working
<1>3. known' \subseteq Agent
  <2>1. Known(call[c].agent) \/ known' = known
    BY DEF Look
  <2> QED BY <1>1, <2>1, KnownType DEF IInv, TypeOK
<1>4. ASSUME StartReturns(c) PROVE Free(c)
  BY <1>4, StartReturnsFrees
<1>5. ASSUME Goto(c, "launch") \/ Goto(c, "claim") PROVE Free(c)
  BY <1>2, <1>5, GotoFrees
<1>6. ASSUME call' = [call EXCEPT ![c].pc = "takeout", ![c].why = "restart"]
      PROVE  Free(c)
  <2> DEFINE r == [call[c] EXCEPT !.pc = "takeout", !.why = "restart"]
  <2>1. r \in CallState
    BY <1>1 DEF CallState
  <2>2. r.pc = "takeout" /\ r.held = None /\ r.agent \in Agent
    BY <1>1, <1>2 DEF CallState, Held
  <2>3. call' = [call EXCEPT ![c] = r]
    BY <1>6
  <2> HIDE DEF r
  <2> QED BY <2>1, <2>2, <2>3 DEF Free, CallOK, Working
<1>7. Free(c)
  BY <1>4, <1>5, <1>6 DEF Look
<1> QED BY <1>1, <1>2, <1>3, <1>7, FreeStep

\* Claim and Abort: StartAgent returns.
LEMMA ReturnSteps ==
  ASSUME IInv, NEW c \in Caller, Claim(c) \/ Abort(c)
  PROVE  IInv'
<1>1. /\ CallOK(call[c]) /\ call[c].pc \in {"claim", "abort"} /\ call[c].agent \in Agent
      /\ Known(call[c].agent) /\ StartReturns(c)
      /\ UNCHANGED <<config, table, closed, proc, watch, closing, calls, edits, leaked>>
  BY CallKnown DEF Claim, Abort, Working
<1>2. Held(c) = None \/ Dead(Held(c))
  BY <1>1 DEF CallOK, Held, Claim, Abort
<1>3. known' \subseteq Agent /\ calls' \in Nat
  BY <1>1, KnownType DEF IInv, TypeOK
<1> QED BY <1>1, <1>2, <1>3, StartReturnsFrees, FreeStep

\* Launch.
LEMMA LaunchStep ==
  ASSUME IInv, NEW c \in Caller, Launch(c)
  PROVE  IInv'
<1>1. /\ CallOK(call[c]) /\ call[c] \in CallState /\ call[c].pc = "launch" /\ call[c].agent \in Agent
      /\ Known(call[c].agent)
      /\ UNCHANGED <<config, table, closed, watch, closing, calls, edits, leaked>>
  BY CallKnown DEF Launch, Working
<1>2. Held(c) = None /\ calls' \in Nat /\ known' \subseteq Agent
  BY <1>1, KnownType DEF CallOK, Held, IInv, TypeOK
<1>3. CASE StartReturns(c) /\ UNCHANGED proc
  BY <1>1, <1>2, <1>3, StartReturnsFrees, FreeStep
<1>4. ASSUME NEW p \in Proc, proc[p].state = "unused",
             proc' = [proc EXCEPT ![p] = [state |-> "alive", agent |-> call[c].agent,
                        key |-> call[c].row.key, killed |-> FALSE]],
             call' = [call EXCEPT ![c].pc = "connect", ![c].held = p]
      PROVE  IInv'
  <2> DEFINE r == [call[c] EXCEPT !.pc = "connect", !.held = p]
             new == [state |-> "alive", agent |-> call[c].agent, key |-> call[c].row.key,
                     killed |-> FALSE]
  <2>1. r \in CallState /\ new \in Process
    BY <1>1, CallFields DEF CallState, Process, Row
  <2>2. r.pc = "connect" /\ r.held = p /\ r.agent = call[c].agent
    BY <1>1 DEF CallState
  <2>3. call' = [call EXCEPT ![c] = r] /\ proc' = [proc EXCEPT ![p] = new]
    BY <1>4
  <2>4. new.state = "alive" /\ new.agent = call[c].agent /\ ~new.killed
    OBVIOUS
  <2> HIDE DEF r, new
  <2>5. /\ call' \in [Caller -> CallState] /\ call'[c] = r
        /\ \A d \in Caller \ {c} : call'[d] = call[d]
    BY <2>1, <2>3, CallKnown
  <2>6. CallOK(r)
    BY <1>1, <2>1, <2>2, ManagerAssumption DEF CallOK
  <2>7. \A d \in Caller : CallOK(call'[d])
    BY <2>5, <2>6, CallKnown
  <2>8. /\ proc' \in [Proc -> Process] /\ proc'[p] = new
        /\ \A q \in Proc \ {p} : proc'[q] = proc[q]
    BY <2>1, <2>3 DEF IInv, TypeOK
  <2>9. /\ Held(c)' = p
        /\ \A d \in Caller \ {c} : Held(d)' = Held(d)
        /\ \A d \in Caller : Held(d) \in Proc \cup {None}
    BY <2>2, <2>5, CallKnown, CallFields DEF Held
  <2>10. /\ watch[p] = "none"
         /\ \A a \in Agent : table[a] # p /\ table[a] \in Proc \cup {None}
         /\ \A d \in Caller : Held(d) # p
         /\ p \notin closing /\ closing \subseteq Proc
    BY <1>4, ManagerAssumption DEF IInv, TypeOK, ProcInv, TableInv, HeldInv, ClosingInv
  <2>11. TypeOK'
    BY <1>1, <1>2, <2>5, <2>7, <2>8 DEF IInv, TypeOK, CallOK
  <2>12. TableInv'
    BY <1>1, <2>8, <2>9, <2>10 DEF IInv, TableInv
  <2>13. HeldInv'
    BY <1>1, <2>2, <2>4, <2>5, <2>8, <2>9, <2>10 DEF IInv, HeldInv
  <2>14. ProcInv' /\ ClosingInv'
    BY <1>1, <2>4, <2>8, <2>9, <2>10 DEF IInv, ProcInv, ClosingInv, Dead
  <2>15. EveryProcessHasAnOwner'
    <3>1. ASSUME NEW q \in Proc, q # p, Alive(q)', q \notin leaked
          PROVE  Owned(q)'
      <4>1. Owned(q)
        BY <2>8, <3>1 DEF IInv, EveryProcessHasAnOwner, Alive
      <4>2. Held(c) # q
        BY <1>2, ManagerAssumption
      <4> QED BY <1>1, <2>5, <4>1, <4>2 DEF Owned, Held
    <3>2. Owned(p)'
      BY <2>9 DEF Owned, Held
    <3> QED BY <1>1, <3>1, <3>2 DEF EveryProcessHasAnOwner
  <2> QED BY <1>1, <2>7, <2>11, <2>12, <2>13, <2>14, <2>15 DEF IInv
<1> QED BY <1>3, <1>4 DEF Launch

\* ConnectFails, and Register at a closed manager: the process is killed.
LEMMA AbortStep ==
  ASSUME IInv, NEW c \in Caller, call[c].pc = "connect", Kill(call[c].held), Goto(c, "abort"),
         UNCHANGED <<config, table, known, closed, watch, closing, calls, edits, leaked>>
  PROVE  IInv'
<1> DEFINE p == call[c].held
           r == [call[c] EXCEPT !.pc = "abort"]
<1>1. /\ CallOK(call[c]) /\ call[c] \in CallState /\ p \in Proc /\ Held(c) = p /\ p # None
      /\ call[c].agent \in Agent
  BY CallKnown, CallFields DEF CallOK, Held, Working
<1>2. r \in CallState
  BY <1>1 DEF CallState
<1>3. r.pc = "abort" /\ r.held = p /\ r.agent = call[c].agent
  BY <1>1 DEF CallState
<1>4. call' = [call EXCEPT ![c] = r]
  BY DEF Goto
<1> HIDE DEF r
<1>5. CallOK(r)
  BY <1>1, <1>2, <1>3 DEF CallOK
<1>6. /\ proc[p].state # "unused"
      /\ \A d \in Caller \ {c} : Held(d) # p
      /\ \A a \in Agent : table[a] # p
      /\ p \notin closing
  BY <1>1 DEF IInv, HeldInv, TableInv, ClosingInv
<1>7. /\ table' \in [Agent -> Proc \cup {None}]
      /\ \A a \in Agent : table'[a] = IF table[a] = p THEN None ELSE table[a]
  BY <1>6 DEF IInv, TypeOK
<1> HIDE DEF p
<1> QED BY <1>1, <1>3, <1>4, <1>5, <1>6, <1>7, KillStep DEF p

\* TakeOut.
LEMMA TakeOutStep ==
  ASSUME IInv, NEW c \in Caller, TakeOut(c)
  PROVE  IInv'
<1> DEFINE a == call[c].agent
           p == table[a]
<1>1. /\ CallOK(call[c]) /\ call[c] \in CallState /\ call[c].pc = "takeout" /\ a \in Agent
      /\ UNCHANGED <<config, closed, watch, closing, calls, edits, leaked>>
  BY CallKnown DEF TakeOut, Working
<1>2. Held(c) = None /\ calls' \in Nat /\ call[c].pc \in Working /\ p \in Proc \cup {None}
  BY <1>1 DEF CallOK, Held, IInv, TypeOK, Working
<1>3. CASE p = None
  <2>1. /\ StopReturns(c, TRUE) /\ StopStatus(c, TRUE, FALSE)
        /\ UNCHANGED <<table, proc>>
    BY <1>3, ManagerAssumption DEF TakeOut
  <2>2. known' \subseteq Agent
    BY <1>1, <2>1, KnownType DEF StopStatus, IInv, TypeOK
  <2> QED BY <1>1, <1>2, <2>1, <2>2, StopReturnsFrees, FreeStep
<1>4. CASE p # None
  <2> DEFINE r == [call[c] EXCEPT !.pc = "wait", !.held = p]
  <2>1. /\ table' = [table EXCEPT ![a] = None] /\ Kill(p)
        /\ call' = [call EXCEPT ![c] = r]
        /\ known' = known
    BY <1>4 DEF TakeOut
  <2>2. p \in Proc /\ p # None
    BY <1>2, <1>4
  <2>3. r \in CallState
    BY <1>1, <2>2 DEF CallState
  <2>4. r.pc = "wait" /\ r.held = p /\ r.agent = a
    BY <1>1 DEF CallState
  <2> HIDE DEF r
  <2>5. CallOK(r)
    BY <1>1, <2>2, <2>3, <2>4 DEF CallOK
  <2>6. /\ proc[p].state # "unused" /\ \A d \in Caller : Held(d) # p
        /\ \A b \in Agent : table[b] = p => b = a
        /\ p \notin closing
    BY <1>1, <2>2 DEF IInv, TableInv, ClosingInv
  <2>7. /\ table' \in [Agent -> Proc \cup {None}]
        /\ \A b \in Agent : table'[b] = IF table[b] = p THEN None ELSE table[b]
    BY <1>1, <2>1, <2>6 DEF IInv, TypeOK
  <2> HIDE DEF p
  <2> QED BY <1>1, <1>2, <2>1, <2>2, <2>4, <2>5, <2>6, <2>7, KillStep
<1> QED BY <1>3, <1>4

\* Reap.
LEMMA ReapStep ==
  ASSUME IInv, NEW c \in Caller, Reap(c)
  PROVE  IInv'
<1>1. /\ CallOK(call[c]) /\ call[c].pc = "wait" /\ call[c].agent \in Agent /\ Dead(Held(c))
      /\ UNCHANGED <<config, table, closed, proc, watch, closing, calls, edits, leaked>>
  BY CallKnown DEF Reap, Working, Held
<1>2. PICK ok \in BOOLEAN : StopReturns(c, ok) /\ StopStatus(c, ok, TRUE)
  BY DEF Reap
<1>3. known' \subseteq Agent /\ calls' \in Nat
  BY <1>1, <1>2, KnownType DEF StopStatus, IInv, TypeOK
<1>4. Free(c)
  BY <1>1, <1>2, StopReturnsFrees DEF Working
<1> QED BY <1>1, <1>3, <1>4, FreeStep

-----------------------------------------------------------------------------
(* Processes, waitAgent and Close.                                         *)

\* Exit.
LEMMA ExitStep ==
  ASSUME IInv, NEW p \in Proc, Exit(p)
  PROVE  IInv'
<1> DEFINE dead == [proc[p] EXCEPT !.state = "dead"]
<1>1. /\ Alive(p) /\ proc' = [proc EXCEPT ![p] = dead]
      /\ UNCHANGED <<config, table, known, closed, watch, call, closing, calls, edits, leaked>>
  BY DEF Exit
<1>2. proc[p] \in Process /\ proc \in [Proc -> Process]
  BY DEF IInv, TypeOK
<1>3. dead \in Process /\ dead.state = "dead" /\ dead.agent = proc[p].agent /\ dead.killed = proc[p].killed
  BY <1>2 DEF Process
<1> HIDE DEF dead
<1>4. /\ proc' \in [Proc -> Process] /\ proc'[p].state = "dead"
      /\ \A q \in Proc : proc'[q].agent = proc[q].agent /\ proc'[q].killed = proc[q].killed
      /\ \A q \in Proc \ {p} : proc'[q] = proc[q]
  BY <1>1, <1>2, <1>3
<1>5. \A q \in Proc : proc[q].state # "unused" <=> proc'[q].state # "unused"
  BY <1>1, <1>4 DEF Alive
<1>6. TypeOK' /\ \A c \in Caller : CallOK(call[c])'
  BY <1>1, <1>4 DEF IInv, TypeOK
<1>7. \A a \in Agent : table[a] \in Proc \cup {None}
  BY DEF IInv, TypeOK
<1>8. \A c \in Caller : Held(c)' = Held(c) /\ Held(c) \in Proc \cup {None}
  BY <1>1, CallKnown, CallFields DEF Held
<1>9. TableInv'
  BY <1>1, <1>4, <1>5, <1>7, <1>8 DEF IInv, TableInv
<1>10. HeldInv'
  BY <1>1, <1>4, <1>5, <1>8 DEF IInv, HeldInv
<1>11. ProcInv' /\ ClosingInv'
  BY <1>1, <1>4, <1>5, <1>8 DEF IInv, TypeOK, ProcInv, ClosingInv, Dead
<1>12. EveryProcessHasAnOwner'
  BY <1>1, <1>4 DEF IInv, EveryProcessHasAnOwner, Owned, Alive
<1> QED BY <1>1, <1>6, <1>9, <1>10, <1>11, <1>12 DEF IInv

\* Watch.
LEMMA WatchStep ==
  ASSUME IInv, NEW p \in Proc, Watch(p)
  PROVE  IInv'
<1> DEFINE next == IF table[proc[p].agent] = p THEN "evict" ELSE "done"
<1>1. /\ watch[p] = "wait" /\ Dead(p) /\ watch' = [watch EXCEPT ![p] = next]
      /\ UNCHANGED <<config, table, known, closed, proc, call, closing, calls, edits, leaked>>
  BY DEF Watch
<1>2. /\ watch' \in [Proc -> {"none", "wait", "evict", "done"}]
      /\ watch'[p] = next /\ \A q \in Proc \ {p} : watch'[q] = watch[q]
  BY <1>1 DEF IInv, TypeOK
<1>3. TypeOK' /\ \A c \in Caller : CallOK(call[c])'
  BY <1>1, <1>2 DEF IInv, TypeOK
<1>4. \A a \in Agent : table[a] = p => next = "evict"
  BY ManagerAssumption DEF IInv, TableInv
<1>5. TableInv'
  BY <1>1, <1>2, <1>4 DEF IInv, TypeOK, TableInv, Held
<1>6. \A c \in Caller : Held(c)' = Held(c) /\ Held(c) \in Proc \cup {None}
  BY <1>1, CallKnown, CallFields DEF Held
<1>7. HeldInv'
  BY <1>1, <1>2, <1>6 DEF IInv, HeldInv
<1>8. ProcInv' /\ ClosingInv'
  BY <1>1, <1>2, <1>6 DEF IInv, ProcInv, ClosingInv, Dead
<1>9. EveryProcessHasAnOwner'
  BY <1>1 DEF IInv, EveryProcessHasAnOwner, Owned, Alive
<1> QED BY <1>1, <1>3, <1>5, <1>7, <1>8, <1>9 DEF IInv

\* Evict: what is in the table by then goes, and counts as leaked if it is
\* not the process that ended.
LEMMA EvictStep ==
  ASSUME IInv, NEW p \in Proc, Evict(p)
  PROVE  IInv'
<1> DEFINE a == proc[p].agent
<1>1. /\ watch[p] = "evict" /\ watch' = [watch EXCEPT ![p] = "done"]
      /\ Drop(IF table[a] = p THEN None ELSE table[a])
      /\ table' = [table EXCEPT ![a] = None] /\ known' = known \cup {a}
      /\ UNCHANGED <<config, closed, proc, call, closing, calls, edits>>
  BY DEF Evict
<1>2. a \in Agent /\ Dead(p)
  BY <1>1 DEF IInv, ProcInv
<1>3. /\ watch' \in [Proc -> {"none", "wait", "evict", "done"}]
      /\ watch'[p] = "done" /\ \A q \in Proc \ {p} : watch'[q] = watch[q]
  BY <1>1 DEF IInv, TypeOK
<1>4. /\ table' \in [Agent -> Proc \cup {None}] /\ table'[a] = None
      /\ \A b \in Agent \ {a} : table'[b] = table[b]
      /\ table \in [Agent -> Proc \cup {None}]
  BY <1>1, <1>2 DEF IInv, TypeOK
<1>5. /\ leaked' \subseteq Proc /\ leaked \subseteq leaked'
      /\ table[a] # None /\ table[a] # p => table[a] \in leaked'
  BY <1>1, <1>2, <1>4 DEF Drop, IInv, TypeOK
<1>6. TypeOK' /\ \A c \in Caller : CallOK(call[c])'
  BY <1>1, <1>2, <1>3, <1>4, <1>5 DEF IInv, TypeOK
<1>7. \A c \in Caller : Held(c)' = Held(c) /\ Held(c) \in Proc \cup {None}
  BY <1>1, CallKnown, CallFields DEF Held
<1>8. \A b \in Agent \ {a} : table[b] # p
  BY ManagerAssumption DEF IInv, TableInv
<1>9. TableInv'
  BY <1>1, <1>3, <1>4, <1>7, <1>8 DEF IInv, TableInv
<1>10. HeldInv'
  BY <1>1, <1>3, <1>7 DEF IInv, HeldInv
<1>11. ProcInv' /\ ClosingInv'
  BY <1>1, <1>2, <1>3, <1>7 DEF IInv, ProcInv, ClosingInv, Dead
<1>12. EveryProcessHasAnOwner'
  <2>1. ASSUME NEW q \in Proc, Alive(q), q \notin leaked'
        PROVE  Owned(q)'
    <3>1. Owned(q) /\ q # p
      BY <1>2, <1>5, <2>1 DEF IInv, EveryProcessHasAnOwner, Alive, Dead
    <3>2. table[a] # q
      BY <1>5, <2>1, <3>1, ManagerAssumption
    <3> QED BY <1>1, <1>4, <3>1, <3>2 DEF Owned
  <2> QED BY <1>1, <2>1 DEF EveryProcessHasAnOwner, Alive
<1> QED BY <1>1, <1>6, <1>9, <1>10, <1>11, <1>12 DEF IInv

\* Close takes every process of the table at once.
LEMMA CloseStep ==
  ASSUME IInv, Close
  PROVE  IInv'
<1>1. /\ ~closed /\ closed' /\ closing' = {table[a] : a \in Agent} \ {None}
      /\ table' = [a \in Agent |-> None]
      /\ UNCHANGED <<config, known, proc, watch, call, calls, edits, leaked>>
  BY DEF Close
<1>2. TypeOK' /\ \A c \in Caller : CallOK(call[c])'
  BY <1>1 DEF IInv, TypeOK, Close
<1>3. TableInv' /\ HeldInv' /\ ProcInv'
  BY <1>1 DEF IInv, TableInv, HeldInv, Held, ProcInv, Dead
<1>5. ClosingInv'
  BY <1>1 DEF IInv, TableInv, ClosingInv, Held
<1>4. EveryProcessHasAnOwner'
  <2>1. ASSUME NEW q \in Proc, Alive(q), q \notin leaked
        PROVE  Owned(q)'
    <3>1. Owned(q) /\ q # None /\ closing = {}
      BY <1>1, <2>1, ManagerAssumption DEF IInv, EveryProcessHasAnOwner, ClosingInv
    <3> QED BY <1>1, <3>1 DEF Owned
  <2> QED BY <1>1, <2>1 DEF EveryProcessHasAnOwner, Alive
<1> QED BY <1>1, <1>2, <1>3, <1>4, <1>5 DEF IInv

\* Close kills what it took.
LEMMA KillNextStep ==
  ASSUME IInv, NEW p \in Proc, KillNext(p)
  PROVE  IInv'
<1>1. /\ p \in closing /\ Kill(p)
      /\ UNCHANGED <<config, table, known, closed, watch, call, closing, calls, edits, leaked>>
  BY DEF KillNext
<1>2. /\ proc' \in [Proc -> Process]
      /\ \A q \in Proc : proc'[q].state = proc[q].state /\ proc'[q].agent = proc[q].agent
      /\ \A q \in Proc \ {p} : proc'[q] = proc[q]
  BY <1>1, KillType
<1>3. TypeOK' /\ \A c \in Caller : CallOK(call[c])'
  BY <1>1, <1>2 DEF IInv, TypeOK
<1>4. /\ closed /\ closing \subseteq Proc
      /\ \A a \in Agent : table[a] = None
      /\ \A c \in Caller : Held(c) # p
  BY <1>1 DEF IInv, TypeOK, TableInv, ClosingInv
<1>5. \A c \in Caller : Held(c)' = Held(c) /\ Held(c) \in Proc \cup {None}
  BY <1>1, CallKnown, CallFields DEF Held
<1>6. TableInv'
  BY <1>1, <1>4 DEF TableInv
<1>7. HeldInv'
  BY <1>1, <1>2, <1>4, <1>5 DEF IInv, HeldInv
<1>8. ProcInv' /\ ClosingInv'
  BY <1>1, <1>2, <1>4, <1>5 DEF IInv, ProcInv, ClosingInv, Dead
<1>9. EveryProcessHasAnOwner'
  BY <1>1, <1>2 DEF IInv, EveryProcessHasAnOwner, Owned, Alive
<1> QED BY <1>1, <1>3, <1>6, <1>7, <1>8, <1>9 DEF IInv

\* Register at an open manager: the process moves from its call into the
\* table, over whatever is there.
LEMMA RegisterStep ==
  ASSUME IInv, NEW c \in Caller, Register(c)
  PROVE  IInv'
<1> DEFINE a == call[c].agent
           p == call[c].held
<1>1. /\ CallOK(call[c]) /\ call[c] \in CallState /\ call[c].pc = "connect"
      /\ a \in Agent /\ p \in Proc /\ p # None
      /\ UNCHANGED <<config, closed, closing, calls, edits>>
  BY CallKnown, CallFields DEF Register, CallOK, Working
<1>2. CASE closed
  <2>1. /\ Kill(p) /\ Goto(c, "abort")
        /\ UNCHANGED <<table, known, watch, leaked>>
    BY <1>2 DEF Register
  <2> QED BY <1>1, <2>1, AbortStep
<1>3. CASE ~closed
  <2>1. /\ Drop(table[a]) /\ table' = [table EXCEPT ![a] = p] /\ Known(a)
        /\ watch' = [watch EXCEPT ![p] = "wait"] /\ StartReturns(c)
        /\ proc' = proc
    BY <1>3 DEF Register
  <2>2. PICK r : CallOK(r) /\ r.held = None /\ r.pc # "connect" /\ call' = [call EXCEPT ![c] = r]
    BY <2>1, StartReturnsFrees DEF Free
  <2>3. /\ call' \in [Caller -> CallState] /\ call'[c] = r
        /\ \A d \in Caller \ {c} : call'[d] = call[d]
    BY <2>2, CallKnown DEF CallOK
  <2>4. \A d \in Caller : CallOK(call'[d])
    BY <2>2, <2>3, CallKnown
  <2>5. /\ watch' \in [Proc -> {"none", "wait", "evict", "done"}]
        /\ watch'[p] = "wait" /\ \A q \in Proc \ {p} : watch'[q] = watch[q]
    BY <1>1, <2>1 DEF IInv, TypeOK
  <2>6. /\ table' \in [Agent -> Proc \cup {None}] /\ table'[a] = p
        /\ \A b \in Agent \ {a} : table'[b] = table[b]
        /\ table \in [Agent -> Proc \cup {None}]
    BY <1>1, <2>1 DEF IInv, TypeOK
  <2>7. /\ leaked' \subseteq Proc /\ leaked \subseteq leaked'
        /\ table[a] # None => table[a] \in leaked'
    BY <1>1, <2>1, <2>6 DEF Drop, IInv, TypeOK
  <2>8. known' \subseteq Agent
    BY <1>1, <2>1, KnownType
  <2> HIDE DEF a, p
  <2>9. TypeOK'
    BY <1>1, <2>1, <2>3, <2>4, <2>5, <2>6, <2>7, <2>8 DEF IInv, TypeOK, CallOK
  <2>10. /\ Held(c)' = None /\ Held(c) = p
         /\ \A d \in Caller \ {c} : Held(d)' = Held(d)
         /\ \A d \in Caller : Held(d) \in Proc \cup {None}
    BY <2>2, <2>3, CallKnown, CallFields DEF Held, p
  <2>11. /\ proc[p].agent = a /\ proc[p].state # "unused" /\ ~proc[p].killed /\ watch[p] = "none"
         /\ \A d \in Caller \ {c} : Held(d) # p
    BY <1>1, <2>10 DEF IInv, HeldInv, a
  <2>12. \A b \in Agent : table[b] # p
    BY <1>1, <2>10 DEF IInv, TableInv
  <2>13. TableInv'
    BY <1>1, <1>3, <2>1, <2>5, <2>6, <2>10, <2>11, <2>12 DEF IInv, TableInv
  <2>14. HeldInv'
    BY <1>1, <2>1, <2>2, <2>3, <2>5, <2>10, <2>11 DEF IInv, HeldInv
  <2>15. ProcInv'
    BY <1>1, <2>1, <2>5, <2>11 DEF IInv, ProcInv, Dead
  <2>16. ClosingInv'
    BY <1>1, <1>3, <2>1 DEF IInv, ClosingInv
  <2>17. EveryProcessHasAnOwner'
    <3>1. ASSUME NEW q \in Proc, Alive(q), q \notin leaked'
          PROVE  Owned(q)'
      <4>1. Owned(q) /\ table[a] # q
        BY <2>7, <3>1, ManagerAssumption DEF IInv, EveryProcessHasAnOwner
      <4>2. CASE q = p
        BY <1>1, <2>6, <4>2 DEF Owned
      <4>3. CASE q # p
        <5>1. CASE \E b \in Agent : table[b] = q
          BY <2>6, <4>1, <5>1 DEF Owned
        <5>2. CASE \E d \in Caller : call[d].held = q
          <6>1. PICK d \in Caller : Held(d) = q
            BY <5>2 DEF Held
          <6>2. d # c
            BY <2>10, <4>3, <6>1
          <6> QED BY <2>10, <6>1, <6>2 DEF Owned, Held
        <5>3. CASE q \in closing
          BY <1>1, <5>3 DEF Owned
        <5> QED BY <4>1, <5>1, <5>2, <5>3 DEF Owned
      <4> QED BY <4>2, <4>3
    <3> QED BY <2>1, <3>1 DEF EveryProcessHasAnOwner, Alive
  <2> QED BY <2>4, <2>9, <2>13, <2>14, <2>15, <2>16, <2>17 DEF IInv
<1> QED BY <1>2, <1>3

\* A change of the rows, or of nothing.
LEMMA RowsStep ==
  ASSUME IInv, UNCHANGED <<table, known, closed, proc, watch, call, closing, calls, leaked>>,
         config' \in [Agent -> Row], edits' \in Nat
  PROVE  IInv'
<1>1. TypeOK' /\ \A c \in Caller : CallOK(call[c])'
  BY DEF IInv, TypeOK
<1>2. TableInv' /\ HeldInv' /\ ProcInv' /\ ClosingInv'
  BY DEF IInv, TableInv, HeldInv, ProcInv, ClosingInv, Held, Dead
<1>3. EveryProcessHasAnOwner'
  BY DEF IInv, EveryProcessHasAnOwner, Owned, Alive
<1> QED BY <1>1, <1>2, <1>3 DEF IInv

-----------------------------------------------------------------------------
\* The manager starts with an empty table.
LEMMA InitIInv == Init => IInv
<1> SUFFICES ASSUME Init PROVE IInv
  OBVIOUS
<1>1. \A c \in Caller : call[c] = Rest /\ Held(c) = None
  BY RestOK DEF Init, Held
<1>2. \A p \in Proc : proc[p].state = "unused" /\ watch[p] = "none"
  BY DEF Init
<1>3. TypeOK
  <2>1. /\ config \in [Agent -> Row] /\ call \in [Caller -> CallState]
        /\ proc \in [Proc -> Process]
    BY ManagerAssumption, RestOK DEF Init, CallOK, Process
  <2>2. \A c \in Caller : call[c].held # None <=> call[c].pc \in {"connect", "abort", "wait"}
    BY <1>1, RestOK
  <2> QED BY <2>1, <2>2 DEF Init, TypeOK
<1>4. TableInv /\ HeldInv /\ ProcInv /\ ClosingInv
  BY <1>1, <1>2 DEF Init, TableInv, HeldInv, ProcInv, ClosingInv
<1>5. EveryProcessHasAnOwner
  BY <1>2 DEF EveryProcessHasAnOwner, Alive
<1> QED BY <1>1, <1>3, <1>4, <1>5, RestOK DEF IInv

\* The inductive invariant holds for ever.
THEOREM AcpInvariance == Spec => []IInv
<1>1. IInv /\ [Next]_vars => IInv'
  <2> SUFFICES ASSUME IInv, [Next]_vars PROVE IInv'
    OBVIOUS
  <2>1. ASSUME NEW a \in Agent, Configure(a) PROVE IInv'
    <3>1. PICK row \in Written : config' = [config EXCEPT ![a] = row]
      BY <2>1 DEF Configure
    <3>2. config' \in [Agent -> Row] /\ edits' \in Nat
      BY <2>1, <3>1, ManagerAssumption DEF Configure, IInv, TypeOK
    <3> QED BY <2>1, <3>2, RowsStep DEF Configure
  <2>2. ASSUME NEW c \in Caller, Calling(c) \/ Syncing(c) PROVE IInv'
    BY <2>2, CallingStep, SyncingStep
  <2>3. ASSUME NEW c \in Caller, Starting(c) PROVE IInv'
    BY <2>3, LookStep, ReturnSteps, LaunchStep DEF Starting
  <2>4. ASSUME NEW c \in Caller, Connecting(c) PROVE IInv'
    BY <2>4, AbortStep, RegisterStep DEF Connecting, ConnectFails
  <2>5. ASSUME NEW c \in Caller, Stopping(c) PROVE IInv'
    BY <2>5, TakeOutStep, ReapStep DEF Stopping
  <2>6. ASSUME NEW p \in Proc, Exit(p) \/ Watching(p) \/ KillNext(p) PROVE IInv'
    BY <2>6, ExitStep, WatchStep, EvictStep, KillNextStep DEF Watching
  <2>7. CASE UNCHANGED vars
    <3>1. config' \in [Agent -> Row] /\ edits' \in Nat
      BY <2>7 DEF vars, IInv, TypeOK
    <3> QED BY <2>7, <3>1, RowsStep DEF vars
  <2> QED BY <2>1, <2>2, <2>3, <2>4, <2>5, <2>6, <2>7, CloseStep DEF Next
<1> QED BY InitIInv, <1>1, PTL DEF Spec

\* The variables keep their types, and a caller holds a process just while it
\* connects to it or waits for its end.
THEOREM AcpTypes == Spec => []TypeOK
<1>1. IInv => TypeOK
  BY DEF IInv
<1> QED BY <1>1, AcpInvariance, PTL

\* Whatever starts, stops, deaths and synchronisations overlap, a running
\* process is somebody's to stop, or was leaked in one of the two ways.
THEOREM ProcessesAreOwned == Spec => []EveryProcessHasAnOwner
<1>1. IInv => EveryProcessHasAnOwner
  BY DEF IInv
<1> QED BY <1>1, AcpInvariance, PTL

\* The table holds registered processes of its agents, each with a waitAgent
\* and no second owner, and nothing once the manager is closed.
THEOREM TableStaysOwn == Spec => []TableIsOwn
<1>1. IInv => TableIsOwn
  BY DEF IInv, TableInv, TableIsOwn, Held
<1> QED BY <1>1, AcpInvariance, PTL
=============================================================================
