----------------------------- MODULE Scheduler -----------------------------
(***************************************************************************)
(* Scheduled tasks of the gateway: the rows of schedule_tasks              *)
(* (repositories/schedule_task_repository.go), the admin handlers that     *)
(* edit them (services/admin/schedule_task_service.go) and the scheduler   *)
(* that recovers, times, locks and executes them (runtime/scheduler).      *)
(* Handlers, the loop and the executions share nothing but the rows and    *)
(* the wake channel; each database call is one step, so whatever a         *)
(* goroutine read may be stale when it writes.  The rows survive a crash,  *)
(* everything else is lost.                                                *)
(***************************************************************************)
EXTENDS Naturals, FiniteSets

CONSTANTS
  Task,            \* row ids
  OneShot,         \* the tasks of kind "at"; the others ("every", "cron") recur
  Handler,         \* goroutines that serve the admin routes and agent extensions
  NoTask,          \* a handler works on no task
  Keep,            \* recover leaves the row alone
  Period,          \* time between two runs of a recurring task
  Hour,            \* how long the loop sleeps when no task is armed
  MaxTime,         \* bound of the model: the clock
  MaxEdits,        \* bound of the model: calls of the admin handlers
  MaxCrashes       \* bound of the model: stops and crashes of the gateway

ASSUME SchedulerAssumption ==
  /\ OneShot \subseteq Task
  /\ NoTask \notin Task
  /\ Keep \notin Nat
  /\ Period \in Nat \ {0}
  /\ Hour \in Nat \ {0}
  /\ MaxTime \in Nat /\ MaxEdits \in Nat /\ MaxCrashes \in Nat

NoTime == 0      \* next_run_at IS NULL; the clock starts at 1

VARIABLES
  row,         \* the rows: state, enabled, next (next_run_at)
  now,         \* the clock
  phase,       \* the gateway: "down", "recovering", "up" or "stopping"
  plan,        \* recover: what it has decided to write, from the rows it listed
  loop,        \* the loop: "off", "compute", "reset", "sleep" or "check"
  deadline,    \* when the loop's timer is to fire
  due,         \* CheckDue: candidates not tried yet
  checked,     \* CheckDue: its argument now
  wake,        \* the wake channel, of capacity 1
  runs,        \* executions in flight, per task
  waking,      \* executions that have still to call Wake
  op,          \* what each handler is doing
  edits, crashes,   \* how much of the bounds is used
  fresh,       \* history: tasks armed since their last execution started
  cleared      \* history: tasks whose next run a stale SetStatus has erased

vars == <<row, now, phase, plan, loop, deadline, due, checked, wake, runs, waking,
          op, edits, crashes, fresh, cleared>>
loopVars == <<loop, deadline, due, checked>>
execVars == <<runs, waking>>
history == <<fresh, cleared>>

Time == 1..MaxTime
Live(t) == row[t].state = "live"
Enabled(t) == Live(t) /\ row[t].enabled
Armed(t) == Enabled(t) /\ row[t].next # NoTime
DueAt(t, when) == Armed(t) /\ row[t].next <= when

Idle == [pc |-> "idle", task |-> NoTask, enabled |-> FALSE, next |-> NoTime]

\* NextRun of a recurring schedule: some time after the one given.
NextRun(after) == after + Period

\* Every write that leaves a next run time in a row arms its task.
Arming(t, next) == fresh' = IF next = NoTime THEN fresh ELSE fresh \cup {t}

-----------------------------------------------------------------------------
Init ==
  /\ row = [t \in Task |-> [state |-> "absent", enabled |-> FALSE, next |-> NoTime]]
  /\ now = 1
  /\ phase = "down"
  /\ plan = [t \in Task |-> Keep]
  /\ loop = "off" /\ deadline = NoTime /\ due = {} /\ checked = NoTime
  /\ wake = FALSE
  /\ runs = [t \in Task |-> 0]
  /\ waking = 0
  /\ op = [h \in Handler |-> Idle]
  /\ edits = 0 /\ crashes = 0
  /\ fresh = {}
  /\ cleared = {}

Tick ==
  /\ now < MaxTime
  /\ now' = now + 1
  /\ UNCHANGED <<row, phase, plan, loopVars, wake, execVars, op, edits, crashes, history>>

\* The loop is at a point where its local variables are dead.
Idling(pc) == loop' = pc /\ deadline' = NoTime /\ due' = {} /\ checked' = NoTime

-----------------------------------------------------------------------------
(* The life of the gateway process.                                        *)

\* Start, recover: the enabled tasks are listed, and those without a future
\* run get a new one.  A recurring task skips what it missed; a one-shot
\* task that is past due has no next run, and one without a time is an error
\* that recover logs and leaves.
Start ==
  /\ phase = "down"
  /\ phase' = "recovering"
  /\ plan' = [t \in Task |->
       IF ~Enabled(t) \/ row[t].next > now THEN Keep
       ELSE IF t \notin OneShot THEN NextRun(now)
       ELSE IF row[t].next = NoTime THEN Keep ELSE NoTime]
  /\ UNCHANGED <<row, now, loopVars, wake, execVars, op, edits, crashes, history>>

\* recover: UpdateNextRun of one task.  Agents started before the scheduler
\* may be editing tasks meanwhile.
RecoverTask(t) ==
  /\ phase = "recovering"
  /\ plan[t] # Keep
  /\ plan' = [plan EXCEPT ![t] = Keep]
  /\ IF Live(t)
     THEN row' = [row EXCEPT ![t].next = plan[t]] /\ Arming(t, plan[t])
     ELSE UNCHANGED <<row, fresh>>
  /\ UNCHANGED <<now, phase, loopVars, wake, execVars, op, edits, crashes, cleared>>

\* Start returns, and the loop runs.
Launch ==
  /\ phase = "recovering"
  /\ \A t \in Task : plan[t] = Keep
  /\ phase' = "up"
  /\ loop' = "compute"
  /\ UNCHANGED <<row, now, plan, deadline, due, checked, wake, execVars, op, edits, crashes, history>>

\* Scheduler.Stop: the context of the loop and of every execution is
\* cancelled; what the loop does after that has no effect.
Stop ==
  /\ phase = "up"
  /\ crashes < MaxCrashes
  /\ crashes' = crashes + 1
  /\ phase' = "stopping"
  /\ Idling("off")
  /\ UNCHANGED <<row, now, plan, wake, execVars, op, edits, history>>

\* The process ends, after Stop or by a crash.
Die ==
  /\ \/ phase = "stopping" /\ UNCHANGED crashes
     \/ phase \in {"recovering", "up"} /\ crashes < MaxCrashes /\ crashes' = crashes + 1
  /\ phase' = "down"
  /\ plan' = [t \in Task |-> Keep]
  /\ Idling("off")
  /\ wake' = FALSE
  /\ runs' = [t \in Task |-> 0]
  /\ waking' = 0
  /\ op' = [h \in Handler |-> Idle]
  /\ UNCHANGED <<row, now, edits, history>>

-----------------------------------------------------------------------------
(* The loop.                                                               *)

\* delayUntilNext.
Compute ==
  /\ loop = "compute"
  /\ LET times == {row[t].next : t \in {u \in Task : Armed(u)}}
     IN  \/ times = {} /\ deadline' = now + Hour
         \/ \E first \in times :
              /\ \A time \in times : first <= time
              /\ deadline' = IF first < now THEN now ELSE first
  /\ loop' = "reset"
  /\ UNCHANGED <<row, now, phase, plan, due, checked, wake, execVars, op, edits, crashes, history>>

\* timer.Reset and select.  (The delay is counted from when it was computed:
\* what passes until the timer is set is less than a tick.)
Sleep ==
  /\ loop = "reset"
  /\ loop' = "sleep"
  /\ UNCHANGED <<row, now, phase, plan, deadline, due, checked, wake, execVars, op, edits, crashes, history>>

Woken ==
  /\ loop = "sleep"
  /\ wake
  /\ wake' = FALSE
  /\ Idling("compute")
  /\ UNCHANGED <<row, now, phase, plan, execVars, op, edits, crashes, history>>

\* The timer fires: CheckDue lists the due tasks.
CheckDue ==
  /\ loop = "sleep"
  /\ now >= deadline
  /\ loop' = "check"
  /\ deadline' = NoTime
  /\ checked' = now
  /\ due' = {t \in Task : DueAt(t, now)}
  /\ UNCHANGED <<row, now, phase, plan, wake, execVars, op, edits, crashes, history>>

\* Defective variants of TryLock: the candidate is trusted, and the row keeps
\* its next run time.
TryLockTrusting(t) ==
  /\ loop = "check"
  /\ t \in due
  /\ due' = due \ {t}
  /\ row' = [row EXCEPT ![t].next = NoTime]
  /\ runs' = [runs EXCEPT ![t] = @ + 1]
  /\ fresh' = fresh \ {t}
  /\ UNCHANGED <<now, phase, plan, loop, deadline, checked, wake, waking, op, edits, crashes, cleared>>

TryLockKeeping(t) ==
  /\ loop = "check"
  /\ t \in due
  /\ due' = due \ {t}
  /\ IF DueAt(t, checked)
     THEN runs' = [runs EXCEPT ![t] = @ + 1] /\ fresh' = fresh \ {t}
     ELSE UNCHANGED <<runs, fresh>>
  /\ UNCHANGED <<row, now, phase, plan, loop, deadline, checked, wake, waking, op, edits, crashes, cleared>>

\* CheckDue, one candidate: TryLock clears next_run_at of a row that is still
\* due, and the execution starts.
TryLock(t) ==
  /\ loop = "check"
  /\ t \in due
  /\ due' = due \ {t}
  /\ IF DueAt(t, checked)
     THEN /\ row' = [row EXCEPT ![t].next = NoTime]
          /\ runs' = [runs EXCEPT ![t] = @ + 1]
          /\ fresh' = fresh \ {t}
     ELSE UNCHANGED <<row, runs, fresh>>
  /\ UNCHANGED <<now, phase, plan, loop, deadline, checked, wake, waking, op, edits, crashes, cleared>>

EndCheck ==
  /\ loop = "check"
  /\ due = {}
  /\ Idling("compute")
  /\ UNCHANGED <<row, now, phase, plan, wake, execVars, op, edits, crashes, history>>

-----------------------------------------------------------------------------
(* execute(): the run of the agent's prompt ends, well or not, Complete    *)
(* writes its outcome, Wake follows.                                       *)

\* Defective variant: a recurring task gets no next run after a failed run.
CompleteForgetting(t) ==
  /\ phase = "up"
  /\ runs[t] > 0
  /\ runs' = [runs EXCEPT ![t] = @ - 1]
  /\ waking' = waking + 1
  /\ \E next \in {NoTime, NextRun(now)} :
       IF Live(t)
       THEN row' = [row EXCEPT ![t].next = next] /\ Arming(t, next)
       ELSE UNCHANGED <<row, fresh>>
  /\ UNCHANGED <<now, phase, plan, loopVars, wake, op, edits, crashes, cleared>>

\* A one-shot task is deleted or disabled, as its row said when it was locked.
Complete(t) ==
  /\ phase = "up"
  /\ runs[t] > 0
  /\ runs' = [runs EXCEPT ![t] = @ - 1]
  /\ waking' = waking + 1
  /\ \/ /\ ~Live(t)
        /\ UNCHANGED <<row, fresh>>
     \/ /\ Live(t) /\ t \in OneShot
        /\ row' = [row EXCEPT ![t].state = "deleted"]
        /\ UNCHANGED fresh
     \/ /\ Live(t) /\ t \in OneShot
        /\ row' = [row EXCEPT ![t].enabled = FALSE, ![t].next = NoTime]
        /\ UNCHANGED fresh
     \/ /\ Live(t) /\ t \notin OneShot
        /\ row' = [row EXCEPT ![t].next = NextRun(now)]
        /\ Arming(t, NextRun(now))
  /\ UNCHANGED <<now, phase, plan, loopVars, wake, op, edits, crashes, cleared>>

\* After Stop the cancelled context makes Complete fail: nothing is written.
CompleteFails(t) ==
  /\ phase = "stopping"
  /\ runs[t] > 0
  /\ runs' = [runs EXCEPT ![t] = @ - 1]
  /\ waking' = waking + 1
  /\ UNCHANGED <<row, now, phase, plan, loopVars, wake, op, edits, crashes, history>>

WakeAfterRun ==
  /\ waking > 0
  /\ waking' = waking - 1
  /\ wake' = TRUE
  /\ UNCHANGED <<row, now, phase, plan, loopVars, runs, op, edits, crashes, history>>

-----------------------------------------------------------------------------
(* The admin handlers.                                                     *)

\* setInitialNextRun: an enabled recurring task without a time gets one; a
\* one-shot task without a time has none to get.
InitialNext(t, enabled, next) ==
  IF enabled /\ next = NoTime /\ t \notin OneShot THEN NextRun(now) ELSE next

Begin(h) ==
  /\ phase # "down"
  /\ op[h].pc = "idle"
  /\ edits < MaxEdits
  /\ edits' = edits + 1

Goto(h, pc) == op' = [op EXCEPT ![h] = [Idle EXCEPT !.pc = pc]]

Create(h, t) ==
  /\ Begin(h)
  /\ row[t].state = "absent"
  /\ \E enabled \in BOOLEAN, next \in Time \cup {NoTime} :
       LET first == InitialNext(t, enabled, next)
       IN  /\ row' = [row EXCEPT ![t] = [state |-> "live", enabled |-> enabled, next |-> first]]
           /\ Arming(t, first)
  /\ Goto(h, "notify")
  /\ UNCHANGED <<now, phase, plan, loopVars, wake, execVars, crashes, cleared>>

\* Update: the next run is computed and the row found ...
BeginUpdate(h, t) ==
  /\ Begin(h)
  /\ Live(t)
  /\ \E enabled \in BOOLEAN, next \in Time \cup {NoTime} :
       op' = [op EXCEPT ![h] = [pc |-> "save", task |-> t, enabled |-> enabled,
                                next |-> InitialNext(t, enabled, next)]]
  /\ UNCHANGED <<row, now, phase, plan, loopVars, wake, execVars, crashes, history>>

\* ... and saved whole, which inserts it again if it is gone.
SaveUpdate(h) ==
  /\ op[h].pc = "save"
  /\ LET t == op[h].task
     IN  /\ row' = [row EXCEPT ![t] = [state |-> "live", enabled |-> op[h].enabled, next |-> op[h].next]]
         /\ Arming(t, op[h].next)
  /\ Goto(h, "notify")
  /\ UNCHANGED <<now, phase, plan, loopVars, wake, execVars, edits, crashes, cleared>>

Delete(h, t) ==
  /\ Begin(h)
  /\ Live(t)
  /\ row' = [row EXCEPT ![t].state = "deleted"]
  /\ Goto(h, "notify")
  /\ UNCHANGED <<now, phase, plan, loopVars, wake, execVars, crashes, history>>

\* SetStatus: enabled is written, and after enabling the row is read back;
\* if it has no next run, the one computed from what was read is written.
SetStatus(h, t) ==
  /\ Begin(h)
  /\ Live(t)
  /\ \E enabled \in BOOLEAN :
       /\ row' = [row EXCEPT ![t].enabled = enabled]
       /\ op' = [op EXCEPT ![h] = [Idle EXCEPT !.pc = IF enabled THEN "read" ELSE "notify",
                                              !.task = t]]
  /\ UNCHANGED <<now, phase, plan, loopVars, wake, execVars, crashes, history>>

ReadBack(h) ==
  /\ op[h].pc = "read"
  /\ LET t == op[h].task
     IN  IF Live(t) /\ row[t].next = NoTime
         THEN op' = [op EXCEPT ![h].pc = "arm",
                               ![h].next = InitialNext(t, row[t].enabled, NoTime)]
         ELSE Goto(h, "notify")
  /\ UNCHANGED <<row, now, phase, plan, loopVars, wake, execVars, edits, crashes, history>>

Arm(h) ==
  /\ op[h].pc = "arm"
  /\ LET t == op[h].task
     IN  IF Live(t)
         THEN /\ row' = [row EXCEPT ![t].next = op[h].next]
              /\ Arming(t, op[h].next)
              /\ cleared' = IF op[h].next = NoTime /\ row[t].next # NoTime
                            THEN cleared \cup {t} ELSE cleared
         ELSE UNCHANGED <<row, fresh, cleared>>
  /\ Goto(h, "notify")
  /\ UNCHANGED <<now, phase, plan, loopVars, wake, execVars, edits, crashes>>

\* Defective variant: the channel has no buffer, so a Wake while the loop is
\* busy is lost.
NotifyUnbuffered(h) ==
  /\ op[h].pc = "notify"
  /\ wake' = (wake \/ loop = "sleep")
  /\ Goto(h, "idle")
  /\ UNCHANGED <<row, now, phase, plan, loopVars, execVars, edits, crashes, history>>

\* notifyChanged, bound to Scheduler.Wake.
Notify(h) ==
  /\ op[h].pc = "notify"
  /\ wake' = TRUE
  /\ Goto(h, "idle")
  /\ UNCHANGED <<row, now, phase, plan, loopVars, execVars, edits, crashes, history>>

-----------------------------------------------------------------------------
Process == Start \/ Launch \/ Stop \/ Die \/ \E t \in Task : RecoverTask(t)
Loop == Compute \/ Sleep \/ Woken \/ CheckDue \/ EndCheck \/ \E t \in Task : TryLock(t)
Execution == WakeAfterRun \/ \E t \in Task : Complete(t) \/ CompleteFails(t)
Request(h) == \E t \in Task : Create(h, t) \/ BeginUpdate(h, t) \/ Delete(h, t) \/ SetStatus(h, t)
Handling(h) == SaveUpdate(h) \/ ReadBack(h) \/ Arm(h) \/ Notify(h)

Next ==
  \/ Tick
  \/ Process
  \/ Loop
  \/ Execution
  \/ \E h \in Handler : Request(h) \/ Handling(h)

\* The loop and the handlers run; an agent may work on its prompt for ever,
\* and neither time nor the operator owes a step.
Fairness ==
  /\ WF_vars(Loop)
  /\ WF_vars(WakeAfterRun)
  /\ \A h \in Handler : WF_vars(Handling(h))

Spec == Init /\ [][Next]_vars /\ Fairness

-----------------------------------------------------------------------------
Row == [state : {"absent", "live", "deleted"}, enabled : BOOLEAN, next : Nat]
Call == [pc : {"idle", "save", "read", "arm", "notify"}, task : Task \cup {NoTask},
         enabled : BOOLEAN, next : Nat]

TypeOK ==
  /\ row \in [Task -> Row]
  /\ now \in Nat
  /\ phase \in {"down", "recovering", "up", "stopping"}
  /\ plan \in [Task -> Nat \cup {Keep}]
  /\ loop \in {"off", "compute", "reset", "sleep", "check"}
  /\ deadline \in Nat /\ checked \in Nat
  /\ due \subseteq Task
  /\ wake \in BOOLEAN
  /\ runs \in [Task -> Nat]
  /\ waking \in Nat
  /\ op \in [Handler -> Call]
  /\ edits \in Nat /\ crashes \in Nat
  /\ fresh \subseteq Task
  /\ cleared \subseteq Task

(* Each next run time written to a row is executed at most once, across    *)
(* edits, restarts and executions that overlap: the lock consumes it, so a *)
(* time found in a row was written after the task's last execution began.  *)
EachArmingRunsOnce == \A t \in Task : row[t].next # NoTime => t \in fresh

(* No wake-up is lost: when the loop sleeps past the next run of an        *)
(* enabled task, a token is in the wake channel or whoever armed the task  *)
(* has still to send one.                                                  *)
NoLostWakeup ==
  loop = "sleep" /\ now < deadline =>
    \A t \in Task : Armed(t) /\ row[t].next < deadline =>
      \/ wake
      \/ waking > 0
      \/ \E h \in Handler : op[h].pc \in {"read", "arm", "notify"}

\* Handler h has enabled task t and will give it a next run if it has none.
WillArm(h, t) ==
  /\ op[h].task = t
  /\ op[h].pc = "read" \/ (op[h].pc = "arm" /\ op[h].next # NoTime)

(* While the scheduler is up an enabled recurring task is armed, or being  *)
(* executed, or about to be armed by the handler that enabled it.  The one *)
(* way to lose it is a SetStatus that writes back the empty next run it    *)
(* read while the task was disabled over one written since (cleared).      *)
RecurringStaysArmed ==
  phase = "up" =>
    \A t \in Task \ OneShot : Enabled(t) =>
      \/ row[t].next # NoTime
      \/ runs[t] > 0
      \/ \E h \in Handler : WillArm(h, t)
      \/ t \in cleared

(* An execution starts only for a row that is live, enabled and due at     *)
(* that very moment, however stale the list CheckDue works through is.     *)
RunsOnlyWhatIsDue ==
  [][\A t \in Task : runs'[t] > runs[t] => DueAt(t, now)]_vars

(* A due task does not stay due: the running scheduler takes it, unless it *)
(* is edited or the gateway stops.                                         *)
DueTasksAreTaken ==
  \A t \in Task : phase = "up" /\ DueAt(t, now) ~> ~DueAt(t, now) \/ phase # "up"

(* The plan of the refactoring: enabled tasks are restored from SQLite     *)
(* when the gateway restarts.  So recovery takes no enabled task off the   *)
(* schedule.                                                               *)
RecoveryKeepsTasks ==
  [][phase = "recovering" /\ op' = op => \A t \in Task : Armed(t) => Armed(t)']_vars
=============================================================================
