# TLA+ specifications of icoo_ai

icoo_ai is three programs: a desktop chat (`agent_chat`, a Wails application),
a local gateway (`agent_gateway`, an HTTP and websocket server that keeps the
settings in SQLite and runs the agents), and the agent itself (`agent_server`,
which speaks the Agent Client Protocol over stdio and calls the model and the
tools). This directory models all three: the gateway's approvals, events,
scheduled tasks, agent processes and MCP connections; the chat's hold on the
gateway and its sessions; the agent's prompts, permissions, tools, sub-agents
and configuration. TLC checks every module on small instances, and TLAPS
proves the safety properties of all of them for every value of the constants.

    tlc -workers 2 -config MCAgent.cfg MCAgent
    tlapm AgentRuntimeProofs.tla

Paths below are relative to the repository; `gw/` is `agent_gateway/internal/`,
`ch/` is `agent_chat/internal/` and `as/` is `agent_server/internal/`.

## 1. The system

| Component | State | Operations | Interacts with | Hard behaviour |
|---|---|---|---|---|
| Approval broker, `gw/runtime/acp/approval.go` | the records, one channel of capacity 1 per request | Request (blocks), Decide, Get, List | called by the agents' ACP callbacks and by HTTP handlers; publishes to the bus | a decision racing the end of the request's context; a send under a mutex; events published after the unlock |
| Event bus, `gw/events/bus.go` | a ring of 256 events, a channel of 32 per subscriber | Publish, Subscribe, Close | every component publishes; the websocket controller subscribes | delivery after the unlock, full channels, the ring that wraps, the join of replay and live events |
| Event stream, `gw/controllers/websocket_controller.go`, `agent_gateway/pkg/wshub/hub.go` | per connection: a forwarder, a reader and the Serve loop; in the chat: the last event id | connect, replay, forward, write, reconnect | bus on one side, chat on the other | broken links at any point, goroutines that must all end, resuming by last event id |
| Event projection and stores, `gw/projection`, `gw/store` | summaries in memory, three JSON-lines files | project, save, load | subscribes to the bus | a queue that drops, writes that are cut off, restart |
| Task scheduler, `gw/runtime/scheduler`, `gw/repositories`, `gw/services/admin/schedule_task_service.go` | the rows in SQLite, the loop's timer, a wake channel of capacity 1, running executions | Start/recover, RefreshNow, CheckDue, TryLock, Complete, the handlers' edits | handlers and agents edit the rows; an execution prompts an agent | stale lists, lost wake-ups, double runs, crash between lock and completion |
| ACP agent manager, `gw/runtime/acp/manager.go` | the table of processes, the statuses, `closed` | StartAgent, StopAgent, SyncAgents, waitAgent, Close | HTTP handlers, the gateway's start and end, processes | start, kill and wait run outside the mutex; processes die on their own |
| MCP manager, `gw/runtime/mcp/manager.go`, `gw/services/admin/mcp_server_service.go` | one connection per server, calls in flight, `closed` | RefreshTools, CallTool, CloseServer, Close | handlers and the agents' extension methods; third-party servers | connections made and closed outside the mutex; asynchronous refreshes; shutdown with calls in flight |
| Chat and gateway process, `ch/bridge/gateway_bootstrap.go`, `ch/bridge/agent_service.go`, `gw/runtime/server.go` | the managed process, its id, the stream goroutine, `endpoint.json` | EnsureRunning, stream with recovery, restart, stop | launches and kills gateways, reads their runtime files | two launches at once, recovery beside a restart, an old stream beside a new one |
| Chat sessions, `ch/bridge/agent_service.go` | conversations, the agent of each session, the current one | new, load, prompt, cancel, delete | asks the gateway without a lock | a deletion while other calls are out |
| Agent runtime, `as/agent`, `as/protocol/acp`, `as/session` | sessions, cancel functions, an unbuffered event channel per prompt, approvals given for always | Prompt, Cancel, the ReAct loop | the gateway over ACP, model, tools, hooks | prompts of one session at once, a consumer that goes away, cancellation |
| Policy, hooks and tools, `as/policy`, `as/hooks`, `as/tools`, `as/skilltools` | approvals; files on disk; kept connections | decide, ask, dispatch, run | the ReAct loop | rewritten calls, shared approvals, names that resolve anew, files that change between two steps |
| Model client, sub-agents, audit, configuration | a stream of events; a queue and places; log files; four layers of settings | one call, one log line, one load | the ReAct loop, the disk | events in pieces with missing fields, queue limits, rotation cut short, layers that override |
| Extension methods, gateway skills, CRUD, chat front end | rows, stores | one statement per call | | see section 6 |

What makes each of them correct:

- Approvals: one outcome per request, the one recorded, announced and told to
  the agent; a request that is settled never changes; nobody waits for ever.
- Events: nothing is lost but what a full channel drops, nothing is seen
  twice, replay and live events meet without a gap, a client sees its stream
  in order, a broken connection leaves no goroutine and no subscription; a
  stored run has the status of its last stored message, across restarts.
- Scheduled tasks: each time a task is armed for is executed once at most and
  only while the task is enabled and due; no wake-up is lost; an enabled
  recurring task stays armed across edits, crashes and restarts.
- Agent processes and gateways: each running one can be stopped by somebody
  who will be told to; the dead leave the table; Close ends them all.
- MCP connections: each is closed exactly once by its one owner, not by Close
  under a call.
- The chat: one event stream counts; a session's requests go to its agent, and
  a deleted session stays deleted.
- Prompts: the client hears what happened; a run can be cancelled, and then
  ends; what was reported is recorded before the answer.
- Permissions: each mode keeps its word for all that takes effect; an approval
  is for what was shown; no request reaches a refused address.
- Tools: files, tool calls, audit lines and settings are whole or absent; every
  place in the pool is given back.

## 2. The modules

Each module has one action per critical section (what the code does under one
lock, in one database statement or one system call), because that is where
goroutines interleave; what follows an unlock is an action of its own.
Operators keep the names of the functions. Operators under the words
"Defective variant" are plausible wrong versions of an action: nothing in
`Next` uses them; put in the action's place they break a property, which is
how each property was shown to have teeth.

### The gateway

**ApprovalBroker** (abstract: **ApprovalPromise**). `Insert`,
`PublishRequested`, `ReceiveDecision`, `ObserveCancel`, `CancelOwn` and
`PublishOwnCancel` are the stages of `Request`; `Decide` and `PublishDecided`
those of a handler; `EndContext` is the environment. `OptionIDFromDecision` is
the code's fallback from a word ("approved", "always_approved", ...) to an
offered option. ApprovalPromise has a decision that is written once and an
answer per request, without goroutines, channels or events; `Promise` is the
refinement mapping, and `PromiseSpec` includes its fairness.

**EventBus** (abstract: **FeedPromise**). `Publish` (push to the ring and copy
the subscribers), `Deliver` (offer to one of them), `Subscribe` (register and
snapshot in one section), `Close`, and `Take` for a reader. The ring is the
code's array with start and count. Events are numbered in the order they enter
the ring; ids are only ever compared in the code. `delivered`, `dropped`,
`joined` and `since` are history. FeedPromise has one history of events and
per subscription what it starts with, what it is owed and what it has not
read, without ring, mutex or publishers; `Feed` maps the events that
publishers still hold for a subscription to what it is owed.

**EventStream** EXTENDS EventBus with the three goroutines of a connection
(the forwarder, the reader of the socket, the Serve loop), the link, the
session filter and the client that reconnects with its last event id. A
subscription belongs to one connection.

**EventStore.** The projector's goroutine takes an event, `Apply` changes the
stores one file at a time, each write may fail or be cut off, `End` is a stop
or a crash, and `Start` loads the files. The memory is a set of records per kind, a file a
sequence of lines that may be torn, and messages carry the numbers of their
events. `behind` holds the runs whose last line was lost to a torn one before
it.

**Scheduler.** `Start` and `RecoverTask` are recover; `Compute`, `Sleep`,
`Woken`, `CheckDue`, `TryLock` and `EndCheck` the loop; `Complete`,
`CompleteFails` and `WakeAfterRun` an execution; the handlers' Create, Update,
SetStatus and Delete are split at each database call, with the values they
carry from one to the next. `Die` is a crash or the end of the process: the
rows stay, the rest goes. A recurring schedule's next run is some time later
(`Period`); the arithmetic of cron expressions is left out.

**AcpManager.** A caller goes through the places of `StartAgent`
(`Look`, `Claim`, `Launch`, `Register` or `ConnectFails`, `Abort`),
`StopAgent` (`TakeOut`, `Reap`) and `SyncAgents` (`SyncAgent`, `ListDone`,
`Prune`, `EndSync`); `Watch` and `Evict` are `waitAgent`, whose look at the
table and whose deletion are two critical sections; `Exit` is a process that
ends. `Wait` on a killed process may return an error, as `exec.Cmd` does.
`leaked` records the processes that somebody else's step dropped from the
table.

**McpManager** (abstract: **ConnectionPromise**). The service's calls (`Save`, `Delete`, `SetStatus`, `Refresh`,
`CallTool`) lead into the stages of `RefreshTools` (`Get`, `Resolve`,
`Connect`, `List`, `Replace`) and of `CloseServer`; `Close`, `EndWait` and
`CloseTaken` are the manager's Close. A handler that starts the asynchronous
refresh is done at that point, so its goroutine stands for the new one.
ConnectionPromise has the life of each connection, from its making over the
table to one closing, and the tool calls on it, without mutex, status or
retry; `LifeOf` reads a connection's life off the place where it is: the table
(serving), the hands of a refresh (new) or of a removal (retired), Close's
list (last).

### The chat

**ChatGateway.** Gateway processes (`Listen`, `Serve`, `Crash`) share one port
and one `endpoint.json`. A task is a call of the application or a stream
goroutine; `Ping`, `Healthy`, `Unhealthy`, `Launch`, `Adopt`, `GiveUp` and
`Undo` are EnsureRunning with its deadline, `TakeToStop` and `Kill` are
StopManagedProcess, whose fields are taken under the lock and killed after it.
`Top`, `Dial`, `Event`, `Broken`, `Refresh` and `Recovered` are the loop of
streamGatewayEvents with its counts of failures and of refused tokens.

**ChatSessions.** A call of the bridge reads the maps under the lock, asks the
gateway without it and stores what it learnt in lock sections of their own:
`Resolve`, `Listed`, `StartAgent`, `Create`, `GatewayJSON`, `Remember`,
`SetCurrent`, `Forget`. `touched` are the sessions that a call in flight stores again after their deletion.

### The agent

**AgentRuntime.** Four goroutines per prompt over unbuffered channels: the
loop (`BeforeRun` .. `RunApproved`), the forwarder that also writes the
session's record (`Forward`, `Collect`, `Record`, `Finish`, `Release`), the
request (`Ask`, `Register`, `Update`, `Answer`) and whoever cancels (`Cancel`,
`EndRequest`). A send is one step of both sides. `setup` says how the process
is wired: an ACP server, or the command line with an approver and hooks.

**ToolGuard** and **Policy.** A tool call from the loop's hooks through the
policy in the tool, the approver and the tool's own hooks to its effect; calls
overlap and share the approvals given for always. Commands are sets of word
groups and paths sets of what is known of them, which is what Policy's
assessments look at.

**NetworkTools.** Each lookup of a name may answer differently; `Dial` judges
what it resolved, `Redirect` authorises each hop, `Reuse` sends over a kept
connection, `Retried` starts again at the first URL.

**FileTools** (abstract: **FilePromise**). Names point to inodes; a write
makes a temporary file, fills it and renames it, and `Crash` comes between any
two steps, while other calls list, search, read and patch. FilePromise has
names that hold texts and calls that replace or tell one in a single step;
`Promise` maps a name to the text of its file, a reader to the text of the
file it opened, whatever the name is given since, and a writer to the text it
is about to give.

**ModelStream** (the answer of the model, piece by piece, to a loop that may
leave), **SubagentPool** (queue, places in the order of waiting), **AuditLog**
(rotation file by file, errors and restarts), **Skills** (discovery by source,
approval and deletion with directories that change by hand), **AgentConfig**
(the layers in order, each validated).

### Modules side by side

**AgentTools** (ToolGuard, NetworkTools, FileTools, Skills), **AgentServices**
(ModelStream, SubagentPool, AuditLog, AgentConfig) and **ChatBridge**
(ChatGateway, ChatSessions) put the parts of one process beside each other as
instances with variables of their own. A step is a step of one part and leaves
the others alone: in the code they share the permission mode, which nothing
changes, and otherwise only call each other through what the models already
take as inputs. These modules name the assumptions on the constants, restate
each part's properties, and are what the theorems are about (`ToolsSpec`,
`ServicesSpec`, `BridgeSpec`).

### The MC modules

`MCScheduler`, `MCAcpManager` and `MCMcpManager` give one module its values.
`MCGateway` EXTENDS ApprovalBroker, EventStream, EventStore and ChatBridge, and
`MCAgent` EXTENDS AgentRuntime, AgentTools and AgentServices, so each checks
several modules in one run: a variable `part` keeps its initial value and says
which module a behaviour is about; that module's Init and Next are used as they
are (the part *asked* and the part *shared* only bound ChatGateway's processes
and calls), and the variables of the others keep one initial value. The
fairness conditions hold in every part: in their initial state no step they
are fair to is enabled, so a module that does not take part is not forced to
move.

## 3. The runs

| Run | Instance | Distinct states | Question |
|---|---|---|---|
| `gateway` | see below | 491,098 | Approvals, events, stored runs, the chat's gateway and its sessions: is everything answered, delivered, stored and stoppable? |
| `scheduler` | a recurring and a one-shot task, 2 handlers, 3 edits, 1 crash, clock 1..2 | 809,819 | Is each due task executed once, and none forgotten? |
| `acp_manager` | 1 agent with 2 configurations, 2 callers, 2 processes, 3 calls, 1 edit | 362,052 | Can every process be stopped, and does Close end them all? |
| `mcp_manager` | 1 server, 3 callers, 3 connections, 4 calls | 354,587 | Is every connection closed once, by its owner? |
| `agent` | see below | 460,633 | Is the client told what happened, do tools stay within the mode and the approvals, and does everything come out whole? |
| `approval_race` | 2 requests, 2 handlers | violated | Does the agent's answer always agree with what a handler was told? |
| `event_replay` | 1 publisher, 2 connections | violated | Does a reconnecting client get what is buffered after its last event id? |
| `scheduler_recovery` | as `scheduler` | violated | Does recovery keep every enabled task scheduled? |
| `acp_restart` | as `acp_manager` | violated | Does a restart launch the new process? |
| `mcp_delete` | as `mcp_manager` | violated | Is a deleted server disconnected once everybody is done? |
| `local_proxy` | 1 call, a proxy on the loopback | violated | Is a call refused only because of a host it names? |
| `skill_delete` | 2 sources, 1 change by hand | violated | Is what is deleted what the user agreed to? |

The parts of `gateway`: *approvals*, 2 requests with different offers and 2
handlers; *bus* and *stream*, 2 publishers, 1 subscriber, a ring of 2, channels
of 1, 4 events of which the client wants 3; *asked*, ChatGateway with 1 process
and 2 wishes of the user; *shared*, 2 processes, one that somebody else starts,
1 wish, 2 stream goroutines, 1 failure and 1 refusal before each limit;
*store*, a queue of 1, 3 events of 4 kinds, 2 starts; *sessions*, 2 overlapping
calls, 3 in all, 2 sessions, 2 agents.

The parts of `agent`: *runtime*, an ACP agent with two prompts that may share
their session, the same with one prompt that calls two tools, a program with
approver and hooks; *guard*, 2 calls of 10 requests in every mode; *network*
and *sharing*, 1 call with 2 redirects and 2 attempts, and 2 calls that share
connections; *model*, 2 tool calls of 2 pieces, 2 attempts; *pool*, 3 calls, 1
place, a queue of 1; *audit*, 6 lines, one per file, 3 backups; *files*, 2
calls on a plain and a secret hidden file; *skills*, a built-in and a writable
source; *config*, 13 layers with one deviation each and 7 environments.

Bounds, and why they are enough. The races are between two actors and one
resource: two handlers (or a handler and a cancelled request), two publishers
and a subscriber that joins between them, two starts of one agent, two
refreshes and a close, two launches of a gateway, two prompts of a session,
two calls on a file. The ring of two slots wraps with the third event; the
channels of one drop with the second, and the stream needs four events to
wrap, skip an unwanted one and still deliver. The clock of two ticks lets a
task become due, be locked, be edited and be rearmed; one crash puts a
recovery between any two steps. One agent, one server, one place or one skill
name suffices because the entries of those tables do not influence each other.
A limit of one (failures, refusals, queue, places) is passed by the second.
Three backups let a rotation be cut short twice in the middle. The bounds on
calls, edits, lines and crashes only end the behaviours: they are guards
(`MaxOps`, `MaxCalls`, `MaxEdits`, `MaxCrashes`, `MaxEvents`, `MaxTime`,
`MaxAsks`, `MaxStarts`, `MaxLines`), and the proofs do not depend on their
values. Where the model takes "the first idle caller" or "the first unused
process" the members of the set are interchangeable.

Every run has `CHECK_DEADLOCK FALSE`: with the bounds used up, or once every
request is answered and every task done, the modelled system really stops.

Fairness. Weak fairness of the steps a runnable goroutine takes by itself: the
Go scheduler runs it in the end, and a mutex that is free is got. No fairness
of the environment: nobody owes a decision, a publication, a call, an edit, a
tick, a crash, a cancellation or the closing; an agent may leave the
Initialize handshake unanswered (`CloseEndsAll` of AcpManager excepts it), and
an MCP server may leave a connect, a listing or a call unanswered
(`CloseEndsAll` of McpManager excepts those). A process that was killed ends.
In the scheduler an execution may last for ever. The agent's goroutines are
fair in their own steps and in the tools they run; the model owes nothing
until the context of the run ends, when the provider closes the stream; the
user owes no approval. The modules of the parts without
liveness properties need no fairness.

## 4. What the violated runs show

Each checks a sentence of the repository's documents against the code.

- `approval_race`: Request's `select` may take the end of the context although
  a decision is recorded (`approval.go:86-92`); the agent hears "cancelled",
  the gateway has announced "selected".
  `docs/agent-chat-gateway-bootstrap-integration-plan.md:178` wants the three
  sides consistent.
- `event_replay`: `snapshotSince` returns nothing when the last event id is no
  longer in the ring (`bus.go:154`), though everything in the ring is newer;
  `pkg/wshub/README.md:42` promises the buffered events after it.
- `scheduler_recovery`: a one-shot task whose time passes while the gateway is
  down gets no next run from recovery and never runs, while still enabled
  (`scheduler.go:93`).
- `acp_restart`: `StopAgent` returns the error with which a killed process
  ends, and the restart gives up on it (`manager.go:186`), so changing an
  agent's configuration stops the agent.
- `mcp_delete`: a refresh under way when its server is deleted puts its
  connection into the table afterwards (`manager.go:279`).
- `local_proxy`: the dial judges the proxy's address as if it were the
  target's (`web_fetch.go`), so a proxy on the loopback, the example of
  `agent_server/README.md:127`, refuses every request.
- `skill_delete`: the name is looked up again after the approval
  (`skilltools/tools.go:308`), so another directory than the one shown may be
  deleted.

Some behaviours are recorded in history variables instead, because the code
does nothing to exclude them and no document speaks of them; the properties
say that these are the only ways: processes leaked by concurrent starts
(`leaked` in AcpManager), a next run erased by a stale SetStatus (`cleared` in
Scheduler), a gateway whose handle a second launch replaced (`dropped` in
ChatGateway), a deleted session stored again by a call in flight (`touched` in
ChatSessions), a line swallowed by a torn one (`behind` in EventStore), two
prompts that share a session (AgentRuntime's properties speak of the others).

## 5. What is proved

All theorems hold for every value of the constants that satisfies the
modules' named assumptions. Every safety property of the passing runs is
stated by one; the bounds are arbitrary naturals or not restricted at all.
Each theorem rests on an inductive invariant and the three facts Init => Inv,
Inv /\ [Next]_vars => Inv', Inv => property.

| Module | Theorems (properties) | Why the properties need strengthening |
|---|---|---|
| `GatewayEventsProofs`, the broker | BrokerTypeCorrect (TypeOK), AnswersAgree (AnswerAgrees), DecisionsAreFinal (DecisionIsFinal), KeepsPromise (the safety part of ApprovalPromise), DecisionsAreAnnounced (AnnouncedOnce) | `BrokerInv`: a channel's content must equal the recorded outcome, and the place a requester is at bounds what its record can be: without it the send under the mutex could find the channel full. `AnnounceInv`: the one decided event of a settled request is in somebody's hands or in the log, never both, never twice |
| the bus | BusTypeCorrect (BusTypeOK), RingStaysRecent (RingIsRecent), EveryEventAccounted (LiveExactlyOnce), SnapshotsMeetLive (SnapshotMeetsLive), FeedsArePromised (FeedsKeepPromise) | `BusInv`: what publishers hold after the unlock are events newer than the subscriber's joining, not offered to it yet, no two publishers with the same. `FeedInv` adds that the ring counts no slot that was never filled |
| the stream | StreamTypeCorrect (StreamTypeOK), ClientSeesInOrder (SeenInOrder), StreamKeepsPromises (the bus's three invariants, under StreamSpec), StreamsArePromised (FeedsKeepPromise under StreamSpec) | `StreamInv`: until the forwarder stops, the relay, the event in its hand and the queue are the end of what the bus delivered, in order; what the client has seen is the wanted part of what the Serve loop went through; hence the id it reconnects with was published |
| the store | StoreTypeCorrect (StoreTypeOK), RunsFollowMessages (RunFollowsMessages) | `StoreInv`: events are taken and written in the order of their numbers; a run is written right after its message; meanwhile that message is the newest in the memory and, unless the run is behind, a whole last line of its file; every other run that is not behind agrees with its messages both in the memory and in what the files would load |
| `SchedulerProofs` | SchedulerTypes (TypeOK), ArmingsRunOnce (EachArmingRunsOnce), WakeUpsAreKept (NoLostWakeup), RecurringTasksStayArmed (RecurringStaysArmed), RunsAreDue (RunsOnlyWhatIsDue) | what recovery has planned and handlers carry between two database calls, and that CheckDue's instant is not in the future |
| `AcpManagerProofs` | AcpTypes (TypeOK), ProcessesAreOwned (EveryProcessHasAnOwner), TableStaysOwn (TableIsOwn) | what is known of a process by its place: in a call's hands it is nobody else's and unwatched, a waitAgent that is about to evict has seen its process dead |
| `McpManagerProofs` | McpTypes (TypeOK), ClientsAreKept (NoClientLost), OneOwnerEach (OneOwner), CallsEndFirst (CallsEndBeforeClose), StatusIsTrue (StatusAgrees), ConnectionsArePromised (ConnectionsKeepPromise) | one invariant of places: every open connection is in exactly one of the table, a goroutine's hands and Close's list; the actions reduce to four moves (open, close, exchange, take all) |
| `AgentRuntimeProofs` | RuntimeTypes (TypeOK), RunsAreCancellable (RunningIsCancellable), GuardedToolsAreApproved (ApprovedBeforeRun), AnswersAreEarned (AnswerIsEarned), RunsAreRecorded (RecordedBeforeAnswer) | where the cancel function of a live run is from its registration to its release; the grant of the call a run is about to execute; an event on its way through the forwarder to the client is one the loop emitted; while a prompt has its session for itself, the copy its forwarder writes equals the stored record |
| `AgentToolsProofs` | ToolsAreTyped (the types of the four parts), ModesAreHonoured (ModeHonoured), TargetsAreAllowed (OnlyAllowedTargets), FilesStayWhole (FilesAreWhole), FilesAreAtomic (FilesKeepPromise), SkillsAreGuarded (SkillsGuarded) | `GuardInv`: what cleared a call that is past its policy, and that what is approved for always is what the user agreed to, which needs keys that tell requests apart. `NetInv`: a call that is past the authorisation was allowed its first URL and the one it is at, whichever redirect, retry or kept connection brought it there. `FileInv`: a name points to a whole file, a file being written has one writer and neither name nor reader. `SkillInv`: at each place behind the policy, that the call's target is none of the built-in ones and that what its mode requires was agreed to |
| `AgentServicesProofs` | ServicesAreTyped (the types of the four parts), AgentIsTyped (Types), AgentIsComposed, CallsStayWhole (CallsAreWhole), SlotsStayReturned (SlotsAreReturned), NewestStay (NewestAreKept), HighestSourceStands (HighestSourceWins) | `ModelInv`: per tool call, the pieces that came are a beginning of its arguments, and a call that was handed over is finished and remembered. `PoolInv`: the queue counts those who wait, each has one place in the line. `AuditInv`: a rename moves a file into a free place and only the oldest is overwritten. `ConfigInv`: after k layers each field has the value of the highest of these k that sets it, servers merged field by field |
| `ChatBridgeProofs` | BridgeIsTyped (the types of client and sessions), GatewayIsTyped (Types), NoGatewayEscapes (NothingEscapes), StreamsAreReplaced (OneLiveStream), SessionsKeepTheirAgents (RequestsStay), DeletedStaysGone (DeletedIsGone) | `ChatInv`: one gateway has the port, and who serves wrote the file, so a discovered process id is overwritten only when its process is dead; a call carries processes only between taking and killing them. `SessionInv`: what a call knows about its session at each place is what was listed, created or named, and no call but a recorded one is about a deleted session |

The last two processes are compositions. `AgentIsComposed` shows that a
behaviour of the agent process (AgentSpec of MCAgent) is a behaviour of its
runtime, of its tools and of its services, so that every theorem about one of
these holds of the process as the run `agent` explores it; `AgentIsTyped` puts
their types together. `GatewayIsTyped` is the same for `gateway`, with one
more thing to show: there the bus's events are also those the broker's steps
publish, so that the types of the bus and its streams are kept by steps of
another module.

Four refinements are proved: each step of the detailed module is shown to
be a step of the abstract one or a stutter, by a lemma per action that says
what the action does to the mapped variables and a lemma per abstract step
that says which changes make it up.

- `KeepsPromise`: the broker's steps under `Promise`, ApprovalPromise.
- `FeedsArePromised`, `StreamsArePromised`: the bus, alone and with everything
  a websocket connection adds. The wrapped ring must hold exactly the history
  FeedPromise replays (`SnapshotPromised`: what `snapshotSince` returns is
  `After` of the id, found, too old or absent), and a `Publish` between two
  deliveries of another must change what is owed by its one event (`Owed`),
  which is why no two publishers may hold the same one.
- `ConnectionsArePromised`: the mapping looks for a connection where the code
  keeps it, so it is total only because of the invariant of places: without it
  a life could be "lost", or a registration could overwrite a connection that
  somebody else is about to close.
- `FilesAreAtomic`: an opened file keeps its text though its name moves on, and
  a temporary file has one writer, so that the rename publishes the text the
  call was given; a crash leaves the mapped store as it is.

The MC runs check the same refinements on their instances, as the properties
`PromiseSpec` (with fairness), `FeedsKeepPromise`, `ConnectionsKeepPromise` and
`FilesKeepPromise`. The invariants RingIsRecent, NoClientLost and
FilesAreWhole, which these refinements rest on, are proved only; what they
exclude the refinements' runs would find as well. DecisionsAreFinal and
RunsAreDue are action properties.

What the named assumptions say. Most are types and disjointness: identifiers
are told apart from each other and from the value for "none"
(BrokerAssumption, ManagerAssumption, McpAssumption, BridgeAssumption,
RuntimeAssumption), sizes and limits that the code fixes at one or more are
(BusAssumption, StreamAssumption, SchedulerAssumption), bounds are naturals.
Some carry a fact of the code: a request is what its tool, directory and words
are (GuardAssumption; `ApprovalKey` is built from these); blocked things are
addresses, and the provider and the proxies are hosts (NetworkAssumption);
inodes are numbers above that of "no file", and there is room for the files
that exist at the start (FileAssumption); an event of the model that names a
call carries its id (ModelAssumption); the defaults set every field
(ConfigAssumption); there are finitely many delegations (PoolAssumption); the
store's channel has room for an event and its files are loaded at least once
(StoreAssumption); SkillAssumption and AuditAssumption are types. TLC
evaluates all of them on the instances of the runs.

Only model-checked: the liveness properties (RequestsReturn,
BrokenLinkReleases, DueTasksAreTaken, DeadAreForgotten, the two CloseEndsAll,
CancelEndsRun) and the fairness part of PromiseSpec, since TLAPS proves no
ENABLED and so no fairness. No module has a RECURSIVE operator.

## 6. What is not modelled

- HTTP and SQL details, parsing and formatting, the texts of messages, the
  user interface's layout, build scripts, generated bindings, and the wrappers
  of third-party SDKs (`gw/runtime/mcp/client.go`, `as/mcp`), which are pure
  I/O behind calls that succeed or fail.
- The gateway's extension methods and its CRUD: one statement per call, with
  no state of their own. The gateway's own skills: their scanner writes each
  row back with Enabled true (`gw/services/admin/skill_service.go:59`), which
  no document or test forbids.
- What a failed `Server.Start` leaves running inside its process
  (`gw/runtime/server.go:91`).
- The chat's front end: JavaScript stores that merge streamed events.
- Inside the modelled components: client requests over the websocket and its
  pings, cron arithmetic, sessions and prompts that pass through the ACP
  manager, the display state written back to MCP rows, session modes and
  options of the agent's ACP server, failing writes of the session file,
  symbolic links, output limits and time limits of tools, the text of web
  pages, token usage, redaction.

Smaller hazards, for which the code promises nothing a property could state: a
`decided` event may precede its `requested` one; `SyncAgents` gives up at the
first failed stop; `Connect` to an agent has no time limit; MCP status events
come in any order; a patch computed from a file that another call has since
written loses that write; closing the desktop need not end the gateway it
launched when two launches overlapped; `Policy.EvaluateMCP` is asked by
nobody; `gw/projection` is compiled but started by no bootstrap. The code of
each is in the model, so that these behaviours occur in the runs.

`PROJECT.json` lists every component with its status, and the hazards found in
the code with the properties that cover each or the reason none does.

## 7. Plan

Done, in this order: ApprovalPromise and ApprovalBroker; EventBus; Scheduler;
EventStream (composes the bus); AcpManager; McpManager; AgentRuntime;
ChatGateway, EventStore and ChatSessions; Policy, ToolGuard and the tools;
ModelStream, SubagentPool, AuditLog, Skills, AgentConfig; the proofs of the
safety properties of all of these; FilePromise, FeedPromise and
ConnectionPromise with their refinements.

Next:

1. AgentRuntime composed with ApprovalBroker through the ACP callback, so that
   cancellation is followed from the chat to the tool.
2. The gateway's skills scanner against its rows, the role patterns of the
   extension methods, NextRun of the schedule kinds with a reference
   definition.
3. Proofs: an abstract specification of the scheduler's armings and of the ACP
   manager's table with their refinements, and action properties of the
   scheduler's rows.
4. The merging of streamed events in the chat's front end.
