---------------------------- MODULE SubagentPool ----------------------------
(***************************************************************************)
(* Delegation to sub-agents (subagent/, and skill_execute of skilltools/): *)
(* a tool call enters the pool's queue, waits for one of its places, runs  *)
(* a loop of its own and collects the text the loop emits until the run    *)
(* ends.  Any number of calls may come at once, each may be given up by    *)
(* its caller.  Places are given in the order the calls began to wait, as  *)
(* a Go channel does.  A sub-agent has no tool to delegate further.        *)
(***************************************************************************)
EXTENDS Naturals, FiniteSets, Sequences, SequencesExt

CONSTANTS
  Call,          \* tool calls, each made once
  Concurrency,   \* PoolOptions.Concurrency
  QueueSize,     \* PoolOptions.QueueSize; 0: no queue, any number may wait
  Deltas         \* bound of the model: pieces of text of a run

VARIABLES
  queue,      \* how many slots of the queue are taken
  sem,        \* how many places are taken
  waiting,    \* the calls that wait for a place, first come first
  at,         \* each call: "new", "enter", "wait", "run", "closed" or how it ended
  cancelled,  \* calls whose context has ended
  said,       \* the text each run has emitted
  heard       \* Result.Content of each call

vars == <<queue, sem, waiting, at, cancelled, said, heard>>

Init ==
  /\ queue = 0 /\ sem = 0 /\ waiting = <<>>
  /\ at = [c \in Call |-> "new"]
  /\ cancelled = {}
  /\ said = [c \in Call |-> 0] /\ heard = [c \in Call |-> 0]

Goto(c, where) == at' = [at EXCEPT ![c] = where]

\* A tool without a runner, a task or a skill of that name ends at once.
Begin(c) ==
  /\ at[c] = "new"
  /\ \E where \in {"enter", "failed"} : Goto(c, where)
  /\ UNCHANGED <<queue, sem, waiting, cancelled, said, heard>>

\* The run's caller gives up: the parent's run is cancelled.
EndContext(c) ==
  /\ at[c] \in {"enter", "wait", "run"} /\ c \notin cancelled
  /\ cancelled' = cancelled \cup {c}
  /\ UNCHANGED <<queue, sem, waiting, at, said, heard>>

\* enterQueue; then the call waits in the select of Run.
EnterQueue(c) ==
  /\ at[c] = "enter"
  /\ \/ QueueSize = 0 /\ queue' = queue /\ Goto(c, "wait") /\ waiting' = Append(waiting, c)
     \/ QueueSize > queue /\ queue' = queue + 1 /\ Goto(c, "wait") /\ waiting' = Append(waiting, c)
     \/ QueueSize > 0 /\ QueueSize = queue /\ Goto(c, "failed") /\ UNCHANGED <<queue, waiting>>
     \/ QueueSize > 0 /\ c \in cancelled /\ Goto(c, "failed") /\ UNCHANGED <<queue, waiting>>
  /\ UNCHANGED <<sem, cancelled, said, heard>>

LeaveQueue == queue' = IF QueueSize = 0 THEN queue ELSE queue - 1

\* The first of the calls that wait gets the next free place.
Acquire(c) ==
  /\ at[c] = "wait" /\ Head(waiting) = c /\ sem < Concurrency
  /\ sem' = sem + 1
  /\ LeaveQueue
  /\ waiting' = Tail(waiting)
  /\ Goto(c, "run")
  /\ UNCHANGED <<cancelled, said, heard>>

\* Defective variant: whoever gives up keeps its slot.
GiveUpSlot == queue' = queue

\* leaveQueue of a call that gives up.
GiveUpQueue == LeaveQueue

GiveUp(c) ==
  /\ at[c] = "wait" /\ c \in cancelled
  /\ GiveUpQueue
  /\ \E n \in DOMAIN waiting : waiting[n] = c /\ waiting' = RemoveAt(waiting, n)
  /\ Goto(c, "failed")
  /\ UNCHANGED <<sem, cancelled, said, heard>>

\* The run's loop emits a piece; after its context ended it may be dropped.
Delta(c) ==
  /\ at[c] = "run" /\ said[c] < Deltas
  /\ said' = [said EXCEPT ![c] = @ + 1]
  /\ \/ heard' = [heard EXCEPT ![c] = @ + 1]
     \/ c \in cancelled /\ UNCHANGED heard
  /\ UNCHANGED <<queue, sem, waiting, at, cancelled>>

\* The terminal event ends the collection with an error, but one that was
\* dropped leaves a channel that is closed, which is no error.
EndRun(c) ==
  /\ at[c] = "run"
  /\ \/ Goto(c, "ok")
     \/ Goto(c, "failed")
  /\ sem' = sem - 1
  /\ UNCHANGED <<queue, waiting, cancelled, said, heard>>

Next ==
  \E c \in Call : \/ Begin(c) \/ EndContext(c) \/ EnterQueue(c) \/ Acquire(c) \/ GiveUp(c)
                  \/ Delta(c) \/ EndRun(c)

Spec == Init /\ [][Next]_vars

-----------------------------------------------------------------------------
In(where) == {c \in Call : at[c] = where}

TypeOK ==
  /\ at \in [Call -> {"new", "enter", "wait", "run", "ok", "failed"}]
  /\ cancelled \subseteq Call
  /\ queue \in 0..QueueSize /\ sem \in 0..Concurrency
  /\ waiting \in BoundedSeq(Call, Cardinality(Call))
  /\ said \in [Call -> 0..Deltas] /\ heard \in [Call -> 0..Deltas]

(* Whatever calls are given up and wherever they were: the slots and the   *)
(* places taken are those of the calls that wait and run, so that a pool   *)
(* nobody uses takes as many calls as at first; never more run than the    *)
(* configuration allows; and a result that is reported as good is all the  *)
(* sub-agent said, unless its caller had given it up.                      *)
SlotsAreReturned ==
  /\ queue = IF QueueSize = 0 THEN 0 ELSE Cardinality(In("wait"))
  /\ sem = Cardinality(In("run")) /\ sem <= Concurrency
  /\ ToSet(waiting) = In("wait")
  /\ \A c \in In("ok") : heard[c] = said[c] \/ c \in cancelled
=============================================================================
