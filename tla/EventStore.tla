----------------------------- MODULE EventStore -----------------------------
(***************************************************************************)
(* The gateway's event projection and its JSONL store: a goroutine takes   *)
(* the bus's events from its subscription (runtime/event_projection.go),   *)
(* builds from each a message, a run summary and an approval               *)
(* (projection/projector.go), and writes them one after the other, each to *)
(* the memory and then to a file of its own (store/memory.go, jsonl.go).   *)
(* A write may fail or be cut off, the process may stop or crash between   *)
(* any two of them, and the next start loads the files.  Conversations and *)
(* audit events are written the same way, by nothing yet; summaries,       *)
(* digests and times are left out.                                         *)
(***************************************************************************)
EXTENDS Naturals, Sequences, FiniteSets

CONSTANTS
  Envelopes,   \* the events that may be published: see Build for the fields
  NoText,      \* an empty string
  ChannelSize, \* capacity of the subscription's channel (32)
  MaxPublished, MaxStarts   \* bounds of the model

ASSUME StoreAssumption == ChannelSize \in Nat \ {0} /\ MaxPublished \in Nat /\ MaxStarts \in Nat \ {0}

VARIABLES
  up,         \* does the gateway run?
  cancelled,  \* eventProjector.Stop cancelled the context
  starts,
  count,      \* how many events were published
  channel,    \* the subscription's channel: <<number, envelope>>
  mem,        \* MemoryStore: messages, runs, approvals
  disk,       \* the lines of the three files
  todo,       \* the writes the Apply in progress has left
  behind      \* history: runs whose last projection did not reach the files

storeVars == <<up, cancelled, starts, count, channel, mem, disk, todo, behind>>

-----------------------------------------------------------------------------
(* Build.  The id of an event without one is made from its fields, and its *)
(* number stands for either.                                               *)

TerminalStatus(status) == status \in {"completed", "failed", "cancelled"}
DecidedStatus(status) == status \in {"approved", "rejected", "expired"}

Or(a, b) == IF a = NoText THEN b ELSE a

RunOf(n, e) == Or(e.run, Or(e.payloadRun, n))
Message(n, e) == [kind |-> "message", key |-> n, run |-> RunOf(n, e), status |-> e.status]
Run(n, e) == [kind |-> "run", key |-> RunOf(n, e), status |-> e.status, done |-> TerminalStatus(e.status)]

\* The type of an event tells the status of an approval that has none.
FromType == [requested |-> "pending", approved |-> "approved", rejected |-> "rejected", update |-> NoText]
Approval(e) ==
  LET status == Or(e.status, FromType[e.type])
  IN  [kind |-> "approval", key |-> e.approval, status |-> status, done |-> DecidedStatus(status)]

IsApproval(e) == e.type # "update" /\ e.approval # NoText /\ e.request /\ e.run # NoText

\* The writes of Apply, in its order.
Build(n, e) ==
  IF ~e.session THEN <<>>
  ELSE <<Message(n, e)>> \o (IF e.status = NoText THEN <<>> ELSE <<Run(n, e)>>)
                         \o (IF IsApproval(e) THEN <<Approval(e)>> ELSE <<>>)

-----------------------------------------------------------------------------
(* The memory keeps every message, which its number tells from the others  *)
(* and puts in order, and the last run or approval of an id.               *)

RecordKind == {"message", "run", "approval"}
NoRecords == [k \in RecordKind |-> {}]
NoLines == [k \in RecordKind |-> <<>>]

Put(s, x) == {y \in s : y.kind = "message" \/ y.key # x.key} \cup {x}

(* A file: a line may be whole, lack only its newline, be cut off before,  *)
(* or be spoilt by one that was appended to a line without newline.        *)
Line(x, state) == [item |-> x, state |-> state]
Readable(line) == line.state \in {"whole", "bare"}
Open(f) == f # <<>> /\ f[Len(f)].state \in {"bare", "torn"}

AppendLine(f, x, state) ==
  IF Open(f) THEN [f EXCEPT ![Len(f)].state = IF state = "whole" THEN "spoilt" ELSE "torn"]
  ELSE Append(f, Line(x, state))

Touched(x) == IF x.kind = "approval" THEN {} ELSE {IF x.kind = "run" THEN x.key ELSE x.run}
Spoilt(f) == IF Open(f) THEN Touched(f[Len(f)].item) ELSE {}

\* decodeJSONLLines: a line that does not parse is noted and skipped; the
\* lines are put into the memory in their order.
Load(f) ==
  LET parsed == {i \in DOMAIN f : Readable(f[i])}
      hidden == {i \in parsed : \E j \in parsed : j > i /\ f[j].item.key = f[i].item.key}
  IN  {f[i].item : i \in {i \in parsed : f[i].item.kind = "message" \/ i \notin hidden}}

-----------------------------------------------------------------------------
StoreInit ==
  /\ up = TRUE /\ cancelled = FALSE /\ starts = 1 /\ count = 0
  /\ channel = <<>> /\ mem = NoRecords /\ disk = NoLines /\ todo = <<>> /\ behind = {}

\* Bus.Publish: a full channel refuses the event.
Enqueue(e) ==
  /\ up /\ count < MaxPublished
  /\ count' = count + 1
  /\ channel' = IF Len(channel) < ChannelSize THEN Append(channel, <<count + 1, e>>) ELSE channel
  /\ UNCHANGED <<up, cancelled, starts, mem, disk, todo, behind>>

\* eventProjector.run takes an event, also one that is left after Stop.
TakeEvent ==
  /\ up /\ todo = <<>> /\ channel # <<>>
  /\ todo' = Build(channel[1][1], channel[1][2])
  /\ channel' = Tail(channel)
  /\ UNCHANGED <<up, cancelled, starts, count, mem, disk, behind>>

\* The message written just before a run is on a line of its own.
Kept(x) == disk["message"][Len(disk["message"])].state = "whole"

Late(x) == Touched(x) \cup UNION {Touched(todo[i]) : i \in DOMAIN todo}

\* Defective variant: the projection goes on after a write that failed.
ApplyOn ==
  /\ up /\ todo # <<>> /\ ~cancelled
  /\ LET x == todo[1] IN
       /\ mem' = [mem EXCEPT ![x.kind] = Put(@, x)]
       /\ \E state \in {"whole", "torn", "none"} :
            /\ disk' = IF state = "none" THEN disk ELSE [disk EXCEPT ![x.kind] = AppendLine(@, x, state)]
            /\ behind' = IF x.kind = "run" /\ state = "whole" THEN behind \ {x.key} ELSE behind
  /\ todo' = Tail(todo)
  /\ UNCHANGED <<up, cancelled, starts, count, channel>>

\* One write of Apply: the memory, then a line of the file.
Apply ==
  /\ up /\ todo # <<>> /\ ~cancelled
  /\ LET x == todo[1] IN
       /\ mem' = [mem EXCEPT ![x.kind] = Put(@, x)]
       /\ \/ /\ disk' = [disk EXCEPT ![x.kind] = AppendLine(@, x, "whole")]
             /\ todo' = Tail(todo)
             /\ behind' = IF Open(disk[x.kind]) THEN behind \cup Late(x) \cup Spoilt(disk[x.kind])
                          ELSE IF x.kind = "run" /\ Kept(x) THEN behind \ {x.key} ELSE behind
          \/ /\ \E state \in {"bare", "torn", "none"} :
                  disk' = IF state = "none" THEN disk ELSE [disk EXCEPT ![x.kind] = AppendLine(@, x, state)]
             /\ todo' = <<>>
             /\ behind' = behind \cup Late(x) \cup Spoilt(disk[x.kind])
  /\ UNCHANGED <<up, cancelled, starts, count, channel>>

\* A cancelled context refuses every further write.
Refuse ==
  /\ up /\ todo # <<>> /\ cancelled
  /\ behind' = behind \cup Late(todo[1])
  /\ todo' = <<>>
  /\ UNCHANGED <<up, cancelled, starts, count, channel, mem, disk>>

Stop == up /\ ~cancelled /\ cancelled' = TRUE
        /\ UNCHANGED <<up, starts, count, channel, mem, disk, todo, behind>>

\* The gateway ends: after a stop, or by a crash, which may cut a write off.
End ==
  /\ up
  /\ up' = FALSE
  /\ \/ UNCHANGED disk
     \/ /\ todo # <<>> /\ ~cancelled
        /\ \E state \in {"whole", "bare", "torn"} :
             disk' = [disk EXCEPT ![todo[1].kind] = AppendLine(@, todo[1], state)]
  /\ behind' = IF todo = <<>> THEN behind ELSE behind \cup Late(todo[1]) \cup Spoilt(disk[todo[1].kind])
  /\ mem' = NoRecords /\ todo' = <<>> /\ channel' = <<>>
  /\ UNCHANGED <<cancelled, starts, count>>

\* NewJSONLStore, and a projector on a new bus.
Start ==
  /\ ~up /\ starts < MaxStarts
  /\ up' = TRUE /\ cancelled' = FALSE /\ starts' = starts + 1
  /\ mem' = [k \in RecordKind |-> Load(disk[k])]
  /\ UNCHANGED <<count, channel, disk, todo, behind>>

StoreNext == (\E e \in Envelopes : Enqueue(e)) \/ TakeEvent \/ Apply \/ Refuse \/ Stop \/ End \/ Start

StoreSpec == StoreInit /\ [][StoreNext]_storeVars

-----------------------------------------------------------------------------
StoreTypeOK ==
  /\ {up, cancelled} \subseteq BOOLEAN /\ starts \in 1..MaxStarts /\ count \in 0..MaxPublished
  /\ Len(channel) <= ChannelSize
  /\ \A k \in RecordKind : \A x \in mem[k] : x.kind = k
  /\ \A k \in RecordKind : \A i \in DOMAIN disk[k] :
       disk[k][i].item.kind = k /\ disk[k][i].state \in {"whole", "bare", "torn", "spoilt"}

\* The status of the newest message of a run that has one; NoText if there is
\* none.
LastStatus(r) ==
  LET of == {m \in mem["message"] : m.run = r /\ m.status # NoText}
  IN  IF of = {} THEN NoText ELSE (CHOOSE m \in of : \A n \in of : n.key <= m.key).status

RunStatus(r) ==
  LET of == {x \in mem["run"] : x.key = r}
  IN  IF of = {} THEN NoText ELSE (CHOOSE x \in of : TRUE).status

Runs == {m.run : m \in mem["message"]} \cup {x.key : x \in mem["run"]}

(* Whatever was dropped, refused, cut off or lost in a crash, the status a *)
(* run has is that of its newest message with one, before and after every  *)
(* restart: only a run whose own projection was interrupted may differ,    *)
(* until an event is projected for it again.                               *)
RunFollowsMessages ==
  up => \A r \in Runs \ behind :
          (\E i \in DOMAIN todo : r \in Touched(todo[i])) \/ RunStatus(r) = LastStatus(r)
=============================================================================
