---------------------------- MODULE AgentRuntime ----------------------------
(***************************************************************************)
(* A prompt inside an agent's process.  Four goroutines share it: the one  *)
(* that answers the request (protocol/acp/server.go, or runPrompt of       *)
(* cmd/icoo-ai/main.go), the loop that talks to the model and calls the    *)
(* tools (agent/react_loop.go), the forwarder between the two, which also  *)
(* writes the session's record (agent/runtime.go, session/store.go), and   *)
(* whoever cancels.  Events pass over unbuffered channels: a send is a     *)
(* step of both sides.  Two prompts of one session are not kept apart.     *)
(* The disk does not fail.                                                 *)
(***************************************************************************)
EXTENDS Naturals, FiniteSets, Sequences

CONSTANTS
  Session,           \* session ids
  Prompt,            \* requests to prompt a session
  Tool,              \* names the model may call
  Key,               \* approval keys (what of the arguments an approval is for)
  NoKey,             \* a call whose arguments have no approval key
  Known,             \* the tools the loop was given
  Capable,           \* those that implement ApprovalCapable
  Calls,             \* the calls the model may make
  None,
  Setups,            \* the programs that embed the runtime
  MaxRounds,         \* ReactLoop.maxToolRounds
  MaxSessionEvents   \* maxSessionEvents (100)

\* A program: does it serve ACP, has it an approver and hooks; and bounds of
\* the model: its prompts, whether its client may go away, a run's pieces of
\* text and a run's tool calls.
Setup == [acp : BOOLEAN, approver : BOOLEAN, hooks : BOOLEAN, prompts : SUBSET Prompt,
          leaves : BOOLEAN, deltas : Nat, calls : Nat]
Call == [tool : Tool, key : Key \cup {NoKey}]

Terminal == {"completed", "failed", "cancelled"}
Event == {"started", "delta", "call", "result", "request", "decided"} \cup Terminal

Message == Prompt \X {"user", "reply"}
SessionRecord == [messages : Seq(Message), events : Seq(Event)]

ASSUME RuntimeAssumption ==
  /\ Capable \subseteq Known /\ Known \subseteq Tool
  /\ NoKey \notin Key
  /\ Calls \subseteq Call
  /\ \A c \in Calls : c.tool \notin Capable => c.key = NoKey
  /\ Setups \subseteq Setup
  /\ None \notin Session \cup Prompt /\ None \notin SessionRecord
  /\ MaxRounds \in Nat \ {0} /\ MaxSessionEvents \in Nat \ {0}

VARIABLES
  setup,     \* the program, chosen once
  exited,    \* has the command line program ended?
  stored,    \* the session files
  cancels,   \* DefaultRuntime.cancels
  approved,  \* ReactLoop.approved
  of,        \* the session of each prompt
  copy,      \* sess, the prompt's own copy of its session's record
  lost,      \* prompts whose request's context has ended
  stopped,   \* prompts whose run was cancelled
  srv,       \* the goroutine of the request
  fwd,       \* the forwarder
  loop,      \* the loop
  mixed,     \* history: prompts that shared their session with another writer
  heard,     \* history: the terminal event the request's goroutine received
  granted,   \* history: what the user approved, call by call
  ran        \* history: calls ExecuteApproved was used for, and how

shared == <<stored, cancels, approved>>
history == <<mixed, heard, granted, ran>>
vars == <<setup, exited, shared, of, copy, lost, stopped, srv, fwd, loop, history>>

NoRecord == [messages |-> <<>>, events |-> <<>>]
RunLive(p) == p \notin lost /\ p \notin stopped

\* A prompt's goroutines may still write its copy of the record.
Writing(p) == srv[p].at \in {"save", "register"} \/ fwd[p].at \notin {"none", "closed"}

-----------------------------------------------------------------------------
Init ==
  /\ setup \in Setups
  /\ exited = FALSE
  /\ stored = [s \in Session |-> None]
  /\ cancels = [s \in Session |-> None]
  /\ approved = {}
  /\ of = [p \in Prompt |-> None]
  /\ copy = [p \in Prompt |-> NoRecord]
  /\ lost = {} /\ stopped = {}
  /\ srv = [p \in Prompt |-> [at |-> "idle", event |-> "none", answer |-> "none", stop |-> "none"]]
  /\ fwd = [p \in Prompt |-> [at |-> "none", event |-> "none", spoke |-> FALSE]]
  /\ loop = [p \in Prompt |-> [at |-> "none", out |-> <<>>, round |-> 0, todo |-> <<>>,
                               said |-> 0, used |-> 0, grant |-> "none"]]
  /\ mixed = {}
  /\ heard = [p \in Prompt |-> "none"]
  /\ granted = {} /\ ran = {}

\* NewSession: a fresh id (the clock in nanoseconds) and an empty record.
NewSession(s) ==
  /\ ~exited
  /\ stored[s] = None
  /\ stored' = [stored EXCEPT ![s] = NoRecord]
  /\ UNCHANGED <<setup, exited, cancels, approved, of, copy, lost, stopped, srv, fwd, loop, history>>

-----------------------------------------------------------------------------
(* DefaultRuntime.Prompt                                                   *)

\* The record is read and the user's message appended to the copy.
\* (Prompts not yet made are alike.)
Ask(p, s) ==
  /\ ~exited
  /\ p \in setup.prompts /\ srv[p].at = "idle"
  /\ p = CHOOSE q \in setup.prompts : srv[q].at = "idle"
  /\ stored[s] # None
  /\ of' = [of EXCEPT ![p] = s]
  /\ copy' = [copy EXCEPT ![p] = [stored[s] EXCEPT !.messages = Append(@, <<p, "user">>)]]
  /\ srv' = [srv EXCEPT ![p].at = "save"]
  /\ LET others == {q \in Prompt : of[q] = s /\ Writing(q)}
     IN  mixed' = IF others = {} THEN mixed ELSE mixed \cup others \cup {p}
  /\ UNCHANGED <<setup, exited, shared, lost, stopped, fwd, loop, heard, granted, ran>>

\* store.Update refuses an ended context.
Save(p) ==
  /\ ~exited
  /\ srv[p].at = "save"
  /\ IF p \in lost
       THEN /\ srv' = [srv EXCEPT ![p].at = "answered", ![p].answer = "error"]
            /\ UNCHANGED stored
       ELSE /\ srv' = [srv EXCEPT ![p].at = "register"]
            /\ stored' = [stored EXCEPT ![of[p]] = copy[p]]
  /\ UNCHANGED <<setup, exited, cancels, approved, of, copy, lost, stopped, fwd, loop, history>>

\* Defective variant: the run starts and its cancel function is not kept.
RegisterUnkept(p) ==
  /\ ~exited
  /\ srv[p].at = "register"
  /\ srv' = [srv EXCEPT ![p].at = "read", ![p].stop = "end_turn"]
  /\ fwd' = [fwd EXCEPT ![p].at = "take"]
  /\ loop' = [loop EXCEPT ![p].at = "before"]
  /\ UNCHANGED <<setup, exited, shared, of, copy, lost, stopped, history>>

\* setCancel, and the loop and the forwarder start.
Register(p) ==
  /\ ~exited
  /\ srv[p].at = "register"
  /\ cancels' = [cancels EXCEPT ![of[p]] = p]
  /\ srv' = [srv EXCEPT ![p].at = "read", ![p].stop = "end_turn"]
  /\ fwd' = [fwd EXCEPT ![p].at = "take"]
  /\ loop' = [loop EXCEPT ![p].at = "before"]
  /\ UNCHANGED <<setup, exited, stored, approved, of, copy, lost, stopped, history>>

\* emit, the case in which the forwarder takes the event.
Emit(p) ==
  /\ ~exited
  /\ loop[p].out # <<>>
  /\ fwd[p].at = "take"
  /\ fwd' = [fwd EXCEPT ![p].at = "send", ![p].event = Head(loop[p].out)]
  /\ loop' = [loop EXCEPT ![p].out = Tail(@)]
  /\ UNCHANGED <<setup, exited, shared, of, copy, lost, stopped, srv, history>>

\* emit, the case of the run's context: the event is dropped.
Drop(p) ==
  /\ ~exited
  /\ loop[p].out # <<>>
  /\ ~RunLive(p)
  /\ loop' = [loop EXCEPT ![p].out = Tail(@)]
  /\ UNCHANGED <<setup, exited, shared, of, copy, lost, stopped, srv, fwd, history>>

\* out <- event
Forward(p) ==
  /\ ~exited
  /\ fwd[p].at = "send"
  /\ srv[p].at = "read"
  /\ fwd' = [fwd EXCEPT ![p].at = "record"]
  /\ srv' = [srv EXCEPT ![p].at = "got", ![p].event = fwd[p].event]
  /\ heard' = [heard EXCEPT ![p] = IF fwd[p].event \in Terminal THEN fwd[p].event ELSE @]
  /\ UNCHANGED <<setup, exited, shared, of, copy, lost, stopped, loop, mixed, granted, ran>>

\* Defective variant: the record grows without bound.
KeptAll(events, e) == Append(events, e)

\* appendSessionEvent keeps the newest events.
Kept(events, e) ==
  LET all == Append(events, e)
  IN  IF Len(all) > MaxSessionEvents THEN Tail(all) ELSE all

\* Text is collected; any other event goes into the record, which is saved.
Collect(p) ==
  /\ ~exited
  /\ fwd[p].at = "record" /\ fwd[p].event = "delta"
  /\ fwd' = [fwd EXCEPT ![p].at = "take", ![p].spoke = TRUE]
  /\ UNCHANGED <<setup, exited, shared, of, copy, lost, stopped, srv, loop, history>>

Record(p) ==
  /\ ~exited
  /\ fwd[p].at = "record" /\ fwd[p].event # "delta"
  /\ fwd' = [fwd EXCEPT ![p].at = "take"]
  /\ copy' = [copy EXCEPT ![p].events = Kept(@, fwd[p].event)]
  /\ stored' = [stored EXCEPT ![of[p]] = copy'[p]]
  /\ UNCHANGED <<setup, exited, cancels, approved, of, lost, stopped, srv, loop, history>>

\* The channel of the loop is closed and empty.
LoopEnded(p) == loop[p].at = "end" /\ loop[p].out = <<>> /\ fwd[p].at = "take"

\* Defective variant: the reply is left to the next prompt to save.
FinishUnsaved(p) ==
  /\ ~exited
  /\ LoopEnded(p)
  /\ fwd' = [fwd EXCEPT ![p].at = "release"]
  /\ IF fwd[p].spoke THEN copy' = [copy EXCEPT ![p].messages = Append(@, <<p, "reply">>)]
                     ELSE UNCHANGED copy
  /\ UNCHANGED <<setup, exited, shared, of, lost, stopped, srv, loop, history>>

\* The reply, if there is any text, becomes a message of the record.
Finish(p) ==
  /\ ~exited
  /\ LoopEnded(p)
  /\ fwd' = [fwd EXCEPT ![p].at = "release"]
  /\ IF fwd[p].spoke
       THEN /\ copy' = [copy EXCEPT ![p].messages = Append(@, <<p, "reply">>)]
            /\ stored' = [stored EXCEPT ![of[p]] = copy'[p]]
       ELSE UNCHANGED <<copy, stored>>
  /\ UNCHANGED <<setup, exited, cancels, approved, of, lost, stopped, srv, loop, history>>

\* Defective variant: once its context has ended the forwarder returns without
\* its deferred calls.
ReleaseWhileLive(p) ==
  /\ ~exited
  /\ fwd[p].at = "release" /\ RunLive(p)
  /\ fwd' = [fwd EXCEPT ![p].at = "closed"]
  /\ cancels' = [cancels EXCEPT ![of[p]] = None]
  /\ UNCHANGED <<setup, exited, stored, approved, of, copy, lost, stopped, srv, loop, history>>

\* The deferred calls: cancel(), which ends nothing that still runs,
\* clearCancel (whoever's entry it is) and close(out).
Release(p) ==
  /\ ~exited
  /\ fwd[p].at = "release"
  /\ fwd' = [fwd EXCEPT ![p].at = "closed"]
  /\ cancels' = [cancels EXCEPT ![of[p]] = None]
  /\ UNCHANGED <<setup, exited, stored, approved, of, copy, lost, stopped, srv, loop, history>>

-----------------------------------------------------------------------------
(* The goroutine of the request.                                           *)

StopReason(e, before) ==
  CASE e = "completed" -> "end_turn"
    [] e = "cancelled" -> "cancelled"
    [] e = "failed"    -> "refusal"
    [] OTHER           -> before

\* agentAdapter.Prompt: an event that has a mapping is sent to the client.
Update(p) ==
  /\ setup.acp
  /\ srv[p].at = "got"
  /\ srv' = [srv EXCEPT ![p].at = "read", ![p].stop = StopReason(srv[p].event, @)]
  /\ UNCHANGED <<setup, exited, shared, of, copy, lost, stopped, fwd, loop, history>>

\* The client is gone: Prompt returns, and nobody reads the channel any more.
UpdateFails(p) ==
  /\ setup.acp /\ setup.leaves
  /\ srv[p].at = "got"
  /\ srv[p].event # "decided"
  /\ srv' = [srv EXCEPT ![p].at = "answered", ![p].answer = "error"]
  /\ UNCHANGED <<setup, exited, shared, of, copy, lost, stopped, fwd, loop, history>>

\* The channel of events was closed.
Answer(p) ==
  /\ ~exited
  /\ srv[p].at = "read"
  /\ fwd[p].at = "closed"
  /\ srv' = [srv EXCEPT ![p].at = "answered",
               ![p].answer = IF setup.acp /\ p \in lost THEN "cancelled" ELSE srv[p].stop]
  /\ UNCHANGED <<setup, exited, shared, of, copy, lost, stopped, fwd, loop, history>>

\* runPrompt prints the event; a failed or cancelled run ends the program at
\* once.
Printed(p) ==
  /\ ~setup.acp /\ ~exited
  /\ srv[p].at = "got"
  /\ IF srv[p].event \in {"failed", "cancelled"}
       THEN /\ srv' = [srv EXCEPT ![p].at = "answered", ![p].answer = "error"]
            /\ exited' = TRUE
       ELSE /\ srv' = [srv EXCEPT ![p].at = "read"]
            /\ UNCHANGED exited
  /\ UNCHANGED <<setup, shared, of, copy, lost, stopped, fwd, loop, history>>

\* agentAdapter.Cancel, and CloseSession for a session that exists.
Cancel(s) ==
  /\ setup.acp
  /\ cancels[s] # None
  /\ stopped' = stopped \cup {cancels[s]}
  /\ UNCHANGED <<setup, exited, shared, of, copy, lost, srv, fwd, loop, history>>

\* The request's context ends: its caller gave up, or the connection closed.
EndRequest(p) ==
  /\ setup.acp /\ setup.leaves
  /\ srv[p].at # "idle" /\ fwd[p].at # "closed"
  /\ p \notin lost
  /\ lost' = lost \cup {p}
  /\ UNCHANGED <<setup, exited, shared, of, copy, stopped, srv, fwd, loop, history>>

-----------------------------------------------------------------------------
(* ReactLoop.run.  The events a step emits are queued in out; the next     *)
(* step waits until each of them was taken or dropped.                     *)

At(p, at) == ~exited /\ loop[p].at = at /\ loop[p].out = <<>>
Go(p, at, events) == loop' = [loop EXCEPT ![p].at = at, ![p].out = events]
LoopOnly == UNCHANGED <<setup, exited, shared, of, copy, lost, stopped, srv, fwd, history>>

\* beforeRun: a hook may block the run, and so does one that fails or asks
\* for an approval.
BeforeRun(p) ==
  /\ At(p, "before")
  /\ \/ Go(p, "open", <<"started">>)
     \/ setup.hooks /\ Go(p, "end", <<"failed">>)
  /\ LoopOnly

\* A round begins with a request to the model, which may fail and does so
\* when the context has ended; failRun also ends a run with too many rounds.
OpenStream(p) ==
  /\ At(p, "open")
  /\ \/ loop[p].round <= MaxRounds /\ RunLive(p) /\ Go(p, "stream", <<>>)
     \/ Go(p, "end", <<"failed">>)
  /\ LoopOnly

\* The model's answer, piece by piece.
StreamDelta(p) ==
  /\ At(p, "stream") /\ RunLive(p)
  /\ loop[p].said < setup.deltas
  /\ loop' = [loop EXCEPT ![p].out = <<"delta">>, ![p].said = @ + 1]
  /\ LoopOnly

StreamCall(p, c) ==
  /\ At(p, "stream") /\ RunLive(p)
  /\ loop[p].used < setup.calls
  /\ loop' = [loop EXCEPT ![p].todo = Append(@, c), ![p].used = @ + 1]
  /\ LoopOnly

\* Defective variant: failRun calls its hooks and forgets the event.
StreamFailsQuietly(p) ==
  /\ At(p, "stream") /\ RunLive(p)
  /\ Go(p, "end", <<>>)
  /\ LoopOnly

StreamFails(p) ==
  /\ At(p, "stream") /\ RunLive(p)
  /\ Go(p, "end", <<"failed">>)
  /\ LoopOnly

\* Something still comes, and the loop sees that its context has ended.
StreamCancelled(p) ==
  /\ At(p, "stream") /\ ~RunLive(p)
  /\ Go(p, "end", <<"cancelled">>)
  /\ LoopOnly

\* The stream is closed: by the model, or by a provider whose last event was
\* dropped because the context has ended, which the loop does not notice.
StreamEnd(p) ==
  /\ At(p, "stream")
  /\ IF loop[p].todo = <<>> THEN Go(p, "end", <<"completed">>) ELSE Go(p, "tools", <<>>)
  /\ LoopOnly

\* The calls of the round are done.
NextRound(p) ==
  /\ At(p, "tools") /\ loop[p].todo = <<>>
  /\ loop' = [loop EXCEPT ![p].at = "open", ![p].round = @ + 1]
  /\ LoopOnly

-----------------------------------------------------------------------------
(* executeTool.  The call at hand is the first of todo.                    *)

Current(p) == Head(loop[p].todo)
\* The call is done and its result goes to the model.
Done(p, events) ==
  loop' = [loop EXCEPT ![p].at = "tools", ![p].out = events, ![p].todo = Tail(@), ![p].grant = "none"]

\* beforeToolCall: a hook may change the call, block it (as does a hook that
\* fails, or one that asks for an approval nobody can give) or ask the user.
BeforeTool(p) ==
  /\ At(p, "tools") /\ loop[p].todo # <<>>
  /\ \/ Go(p, "execute", <<"call">>)
     \/ setup.hooks /\ Done(p, <<"result">>)
     \/ /\ setup.hooks
        /\ \E c \in Calls :
             loop' = [loop EXCEPT ![p].at = "execute", ![p].out = <<"call">>, ![p].todo[1] = c]
     \/ setup.hooks /\ setup.approver /\ Go(p, "hookask", <<"request">>)
  /\ LoopOnly

\* approveHookDecision; no decision is announced.
HookApproval(p) ==
  /\ At(p, "hookask")
  /\ \/ Go(p, "execute", <<"call">>)
     \/ Done(p, <<"result">>)
  /\ LoopOnly

Always(p) == Current(p).key # NoKey /\ Current(p) \in approved

\* executeWithApproval, up to the question: an unknown tool, a call with an
\* approval for always, a call that is carried out or fails, and one that
\* needs an approval (without an approver that is its result).
Unknown(p) ==
  /\ At(p, "execute") /\ Current(p).tool \notin Known
  /\ Done(p, <<"result">>)
  /\ LoopOnly

ExecuteAlways(p) ==
  /\ At(p, "execute") /\ Current(p).tool \in Capable /\ Always(p)
  /\ Done(p, <<"result">>)
  /\ ran' = ran \cup {[prompt |-> p, n |-> loop[p].used, call |-> Current(p), scope |-> "always"]}
  /\ UNCHANGED <<setup, exited, shared, of, copy, lost, stopped, srv, fwd, mixed, heard, granted>>

Execute(p) ==
  /\ At(p, "execute") /\ Current(p).tool \in Known /\ ~Always(p)
  /\ \/ Done(p, <<"result">>)
     \/ Current(p).tool \in Capable /\ setup.approver /\ Go(p, "ask", <<"request">>)
  /\ LoopOnly

\* Approver.Approve answers, or fails.  The decision is announced before the
\* tool runs.
Approve(p) ==
  /\ At(p, "ask")
  /\ \/ /\ Done(p, <<"decided", "result">>)
        /\ UNCHANGED granted
     \/ \E scope \in {"once", "always"} :
          /\ loop' = [loop EXCEPT ![p].at = "approved", ![p].out = <<"decided">>, ![p].grant = scope]
          /\ granted' = granted \cup {[prompt |-> p, n |-> loop[p].used, call |-> Current(p), scope |-> scope]}
  /\ UNCHANGED <<setup, exited, shared, of, copy, lost, stopped, srv, fwd, mixed, heard, ran>>

\* Defective variant: an approval for once is remembered too.
RunApprovedRemembering(p) ==
  /\ At(p, "approved")
  /\ approved' = IF Current(p).key # NoKey THEN approved \cup {Current(p)} ELSE approved
  /\ ran' = ran \cup {[prompt |-> p, n |-> loop[p].used, call |-> Current(p), scope |-> loop[p].grant]}
  /\ Done(p, <<"result">>)
  /\ UNCHANGED <<setup, exited, stored, cancels, of, copy, lost, stopped, srv, fwd, mixed, heard, granted>>

RunApproved(p) ==
  /\ At(p, "approved")
  /\ approved' = IF loop[p].grant = "always" /\ Current(p).key # NoKey
                 THEN approved \cup {Current(p)} ELSE approved
  /\ ran' = ran \cup {[prompt |-> p, n |-> loop[p].used, call |-> Current(p), scope |-> loop[p].grant]}
  /\ Done(p, <<"result">>)
  /\ UNCHANGED <<setup, exited, stored, cancels, of, copy, lost, stopped, srv, fwd, mixed, heard, granted>>

-----------------------------------------------------------------------------
Streaming(p) ==
  \/ StreamDelta(p) \/ StreamFails(p) \/ StreamCancelled(p) \/ StreamEnd(p)
  \/ \E c \in Calls : StreamCall(p, c)
Calling(p) ==
  \/ BeforeTool(p) \/ Unknown(p) \/ ExecuteAlways(p) \/ Execute(p) \/ RunApproved(p)
Asking(p) == HookApproval(p) \/ Approve(p)
Starting(p) == Save(p) \/ Register(p) \/ BeforeRun(p) \/ OpenStream(p) \/ NextRound(p)
Passing(p) == Emit(p) \/ Drop(p)
Forwarding(p) == Forward(p) \/ Collect(p) \/ Record(p) \/ Finish(p) \/ Release(p)
Answering(p) == Update(p) \/ UpdateFails(p) \/ Printed(p) \/ Answer(p)

Next ==
  \/ \E s \in Session :
       NewSession(s) \/ Cancel(s) \/ \E p \in Prompt : Ask(p, s)
  \/ \E p \in Prompt :
       \/ Starting(p) \/ Streaming(p) \/ Calling(p) \/ Asking(p)
       \/ Passing(p) \/ Forwarding(p) \/ Answering(p) \/ EndRequest(p)

\* Some goroutine of a prompt that can run does, a tool returns (shell and
\* network calls have timeouts) and an update is written or fails.  The
\* model owes nothing until the run's context ends, when the provider closes
\* the stream; the user owes nothing.
Running(p) ==
  \/ Starting(p) \/ Calling(p) \/ Passing(p) \/ Forwarding(p) \/ Answering(p)
  \/ ~RunLive(p) /\ (StreamEnd(p) \/ StreamCancelled(p))
Fairness == \A p \in Prompt : WF_vars(Running(p))

Spec == Init /\ [][Next]_vars /\ Fairness

-----------------------------------------------------------------------------
SrvState == [at : {"idle", "save", "register", "read", "got", "answered"},
             event : Event \cup {"none"},
             answer : {"none", "error", "end_turn", "cancelled", "refusal"},
             stop : {"none", "end_turn", "cancelled", "refusal"}]
FwdState == [at : {"none", "take", "send", "record", "release", "closed"},
             event : Event \cup {"none"}, spoke : BOOLEAN]
LoopState == [at : {"none", "before", "open", "stream", "tools", "execute", "hookask",
                    "ask", "approved", "end"},
              out : Seq(Event), round : Nat, todo : Seq(Calls), said : Nat, used : Nat,
              grant : {"none", "once", "always"}]
Grant == [prompt : Prompt, n : Nat, call : Call, scope : {"once", "always"}]

\* What the model bounds and the code: the length of a record's events, the
\* rounds of a run.
LoopBounded(p) ==
  /\ Len(loop[p].out) <= 2 /\ loop[p].round <= MaxRounds + 1
  /\ Len(loop[p].todo) <= loop[p].used
  /\ loop[p].said <= setup.deltas /\ loop[p].used <= setup.calls

TypeOK ==
  /\ setup \in Setups /\ exited \in BOOLEAN
  /\ stored \in [Session -> SessionRecord \cup {None}]
  /\ \A s \in Session : stored[s] # None => Len(stored[s].events) <= MaxSessionEvents
  /\ cancels \in [Session -> Prompt \cup {None}]
  /\ approved \subseteq Call
  /\ of \in [Prompt -> Session \cup {None}]
  /\ copy \in [Prompt -> SessionRecord]
  /\ \A p \in Prompt : Len(copy[p].events) <= MaxSessionEvents
  /\ lost \subseteq Prompt /\ stopped \subseteq Prompt
  /\ srv \in [Prompt -> SrvState]
  /\ fwd \in [Prompt -> FwdState]
  /\ loop \in [Prompt -> LoopState]
  /\ \A p \in Prompt : LoopBounded(p)
  /\ mixed \subseteq Prompt
  /\ heard \in [Prompt -> Terminal \cup {"none"}]
  /\ granted \subseteq Grant /\ ran \subseteq Grant

Answered(p) == srv[p].at = "answered" /\ srv[p].answer # "error"

(* What the client is told is what happened: "end_turn" and "refusal" only *)
(* after the run's own report of it, unless the run's context was ended,   *)
(* "cancelled" only if somebody ended it.  The report may be lost in emit, *)
(* which drops events once the context has ended, and the answer's default *)
(* is "end_turn".                                                          *)
AnswerIsEarned ==
  setup.acp =>
    \A p \in Prompt : Answered(p) =>
      CASE srv[p].answer = "end_turn"  -> heard[p] = "completed" \/ (p \in stopped /\ heard[p] = "none")
        [] srv[p].answer = "refusal"   -> heard[p] = "failed"
        [] srv[p].answer = "cancelled" -> heard[p] = "cancelled" \/ p \in lost

(* A guarded tool runs with ExecuteApproved only as the user allowed:      *)
(* once for that very call of that run, or always for the same tool and    *)
(* key, in whatever run that was said.                                     *)
ApprovedBeforeRun ==
  \A r \in ran :
    \E g \in granted :
      /\ g.scope = r.scope /\ g.call = r.call
      /\ g.scope = "once" => g.prompt = r.prompt /\ g.n = r.n

(* A prompt that had its session to itself is completely in the file when  *)
(* its channel closes, and so when the client is answered, and stays there *)
(* whatever later prompts write: the message, the reply if the model said  *)
(* anything, and, while the session had no other prompt, the outcome       *)
(* reported last.                                                          *)
RecordedBeforeAnswer ==
  \A p \in Prompt \ mixed : fwd[p].at = "closed" =>
    LET r == stored[of[p]]
        said == {r.messages[i] : i \in DOMAIN r.messages}
    IN  /\ <<p, "user">> \in said
        /\ fwd[p].spoke => <<p, "reply">> \in said
        /\ heard[p] # "none" /\ (\A q \in Prompt \ {p} : of[q] # of[p]) =>
             r.events # <<>> /\ r.events[Len(r.events)] = heard[p]

(* While a prompt that shares its session with no other runs, the          *)
(* session's cancel function is its own: a cancellation reaches it.        *)
RunningIsCancellable ==
  \A p \in Prompt \ mixed :
    fwd[p].at \notin {"none", "closed"} => cancels[of[p]] = p

(* A cancelled run ends: its forwarder releases the session, unless the    *)
(* client is gone in the middle of an update (then the forwarder holds an  *)
(* event nobody takes), the user has not answered an approval, or the      *)
(* program has ended.                                                      *)
CancelEndsRun ==
  \A p \in Prompt :
    (fwd[p].at # "none" /\ ~RunLive(p)) ~>
      \/ fwd[p].at = "closed"
      \/ fwd[p].at = "send" /\ srv[p].at = "answered"
      \/ loop[p].at \in {"ask", "hookask"}
      \/ exited
=============================================================================
