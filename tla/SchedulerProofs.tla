-------------------------- MODULE SchedulerProofs --------------------------
(***************************************************************************)
(* Proofs about Scheduler for every set of tasks and handlers and every    *)
(* bound.  IInv is the inductive invariant: what recovery has planned,     *)
(* what a handler carries between two database calls, and the instant      *)
(* CheckDue works with are tied to the rows they will be written to.       *)
(***************************************************************************)
EXTENDS Scheduler, TLAPS

Waker(h) == op[h].pc \in {"read", "arm", "notify"}

LoopInv ==
  /\ phase # "up" => loop = "off"
  /\ checked <= now
  /\ phase # "recovering" => \A t \in Task : plan[t] = Keep

PlanInv(t) == plan[t] # Keep /\ t \notin OneShot => plan[t] # NoTime

OpInv(h) ==
  /\ op[h].pc \in {"save", "read", "arm"} => op[h].task \in Task
  /\ op[h].pc = "save" /\ op[h].enabled /\ op[h].task \notin OneShot => op[h].next # NoTime

ArmingInv(t) == row[t].next # NoTime => t \in fresh

WakeInv(t) ==
  loop \in {"reset", "sleep"} /\ now < deadline /\ Armed(t) /\ row[t].next < deadline =>
    wake \/ waking > 0 \/ \E h \in Handler : Waker(h)

RecurringInv(t) ==
  phase \in {"recovering", "up"} /\ t \notin OneShot /\ Enabled(t) =>
    \/ row[t].next # NoTime
    \/ runs[t] > 0
    \/ plan[t] # Keep
    \/ \E h \in Handler : WillArm(h, t)
    \/ t \in cleared

IInv ==
  /\ TypeOK
  /\ LoopInv
  /\ \A t \in Task : PlanInv(t) /\ ArmingInv(t) /\ WakeInv(t) /\ RecurringInv(t)
  /\ \A h \in Handler : OpInv(h)

-----------------------------------------------------------------------------
\* Writing one column of a row, or one field of a call, keeps its type.
LEMMA RowColumns ==
  ASSUME NEW r \in Row
  PROVE  /\ [r EXCEPT !.state = "deleted"] \in Row
         /\ \A e \in BOOLEAN : [r EXCEPT !.enabled = e] \in Row
         /\ \A n \in Nat : [r EXCEPT !.next = n] \in Row
         /\ \A e \in BOOLEAN, n \in Nat : [r EXCEPT !.enabled = e, !.next = n] \in Row
         /\ r.next \in Nat /\ r.enabled \in BOOLEAN
         /\ r.state \in {"absent", "live", "deleted"}
         /\ \A e \in BOOLEAN, n \in Nat : [state |-> "live", enabled |-> e, next |-> n] \in Row
  BY DEF Row

\* The columns of a row.
LEMMA RowFields == \A r \in Row : r.next \in Nat /\ r.enabled \in BOOLEAN
  BY DEF Row

\* A row written as a whole keeps the type of the table.
LEMMA WriteRow ==
  ASSUME NEW f \in [Task -> Row], NEW t \in Task, NEW r \in Row
  PROVE  [f EXCEPT ![t] = r] \in [Task -> Row]
  OBVIOUS

\* A call written as a whole keeps the type of the calls.
LEMMA WriteCall ==
  ASSUME NEW f \in [Handler -> Call], NEW h \in Handler, NEW c \in Call
  PROVE  [f EXCEPT ![h] = c] \in [Handler -> Call]
  OBVIOUS

\* The fields of a call, and the calls the handlers step to.
LEMMA CallFields ==
  /\ Idle \in Call
  /\ \A pc \in {"idle", "notify"} : [Idle EXCEPT !.pc = pc] \in Call
  /\ \A pc \in {"read", "notify"}, t \in Task : [Idle EXCEPT !.pc = pc, !.task = t] \in Call
  /\ \A c \in Call, n \in Nat : [c EXCEPT !.pc = "arm", !.next = n] \in Call
  /\ \A c \in Call : c.next \in Nat /\ c.enabled \in BOOLEAN
  /\ \A e \in BOOLEAN, n \in Nat, t \in Task : [pc |-> "save", task |-> t, enabled |-> e, next |-> n] \in Call
  BY DEF Call, Idle, NoTime

\* A next run that a handler computes is a time, or none.
LEMMA InitialNextType ==
  ASSUME NEW t \in Task, NEW e \in BOOLEAN, NEW n \in Nat, now \in Nat
  PROVE  InitialNext(t, e, n) \in Nat
  BY SchedulerAssumption DEF InitialNext, NextRun

-----------------------------------------------------------------------------
\* Time moves away from the instant CheckDue works with.
LEMMA TickStep ==
  ASSUME IInv, Tick
  PROVE  IInv'
<1> USE SchedulerAssumption DEF IInv, TypeOK, LoopInv, Tick, NoTime, loopVars, execVars, history
<1>1. TypeOK'
  OBVIOUS
<1>2. LoopInv'
  OBVIOUS
<1>3. \A t \in Task : PlanInv(t)'
  BY DEF PlanInv, Row, Call
<1>4. \A t \in Task : ArmingInv(t)'
  BY DEF ArmingInv, Row, Call
<1>5. \A t \in Task : WakeInv(t)'
  BY DEF WakeInv, Armed, Enabled, Live, Waker, Row, Call
<1>6. \A t \in Task : RecurringInv(t)'
  BY DEF RecurringInv, PlanInv, OpInv, Enabled, Live, WillArm, Row, Call
<1>7. \A h \in Handler : OpInv(h)'
  BY DEF OpInv, Row, Call
<1>8. QED
  BY <1>1, <1>2, <1>3, <1>4, <1>5, <1>6, <1>7

\* Recovery plans a next run for every enabled recurring task without one.
LEMMA StartStep ==
  ASSUME IInv, Start
  PROVE  IInv'
<1> USE SchedulerAssumption DEF IInv, TypeOK, LoopInv, Start, NextRun, NoTime, loopVars, execVars, history
<1>1. TypeOK'
  OBVIOUS
<1>2. LoopInv'
  OBVIOUS
<1>3. \A t \in Task : PlanInv(t)'
  BY DEF PlanInv, Row, Call
<1>4. \A t \in Task : ArmingInv(t)'
  BY DEF ArmingInv, Row, Call
<1>5. \A t \in Task : WakeInv(t)'
  BY DEF WakeInv, Armed, Enabled, Live, Waker, Row, Call
<1>6. \A t \in Task : RecurringInv(t)'
  BY DEF RecurringInv, PlanInv, OpInv, Enabled, Live, WillArm, Row, Call
<1>7. \A h \in Handler : OpInv(h)'
  BY DEF OpInv, Row, Call
<1>8. QED
  BY <1>1, <1>2, <1>3, <1>4, <1>5, <1>6, <1>7

\* A planned next run is written, and arms a recurring task.
LEMMA RecoverTaskStep ==
  ASSUME IInv, NEW u \in Task, RecoverTask(u)
  PROVE  IInv'
<1> USE SchedulerAssumption DEF IInv, TypeOK, LoopInv, RecoverTask, Arming, NoTime, loopVars, execVars, history
<1>1. TypeOK'
  <2>1. [row[u] EXCEPT !.next = plan[u]] \in Row
    BY RowColumns, CallFields DEF OpInv, NextRun, NoTime
  <2>2. \/ row' = row
        \/ row' = [row EXCEPT ![u] = [row[u] EXCEPT !.next = plan[u]]]
    OBVIOUS
  <2>3. row' \in [Task -> Row]
    BY <2>1, <2>2 DEF OpInv
  <2>4. QED
    BY <2>3
<1>2. LoopInv'
  OBVIOUS
<1>3. \A t \in Task : PlanInv(t)'
  BY DEF PlanInv, Row, Call
<1>4. \A t \in Task : ArmingInv(t)'
  BY DEF ArmingInv, Row, Call
<1>5. \A t \in Task : WakeInv(t)'
  BY DEF WakeInv, Armed, Enabled, Live, Waker, Row, Call
<1>6. \A t \in Task : RecurringInv(t)'
  BY DEF RecurringInv, PlanInv, OpInv, Enabled, Live, WillArm, Row, Call
<1>7. \A h \in Handler : OpInv(h)'
  BY DEF OpInv, Row, Call
<1>8. QED
  BY <1>1, <1>2, <1>3, <1>4, <1>5, <1>6, <1>7

\* The loop starts when nothing is left to recover.
LEMMA LaunchStep ==
  ASSUME IInv, Launch
  PROVE  IInv'
<1> USE SchedulerAssumption DEF IInv, TypeOK, LoopInv, Launch, NoTime, loopVars, execVars, history
<1>1. TypeOK'
  OBVIOUS
<1>2. LoopInv'
  OBVIOUS
<1>3. \A t \in Task : PlanInv(t)'
  BY DEF PlanInv, Row, Call
<1>4. \A t \in Task : ArmingInv(t)'
  BY DEF ArmingInv, Row, Call
<1>5. \A t \in Task : WakeInv(t)'
  BY DEF WakeInv, Armed, Enabled, Live, Waker, Row, Call
<1>6. \A t \in Task : RecurringInv(t)'
  BY DEF RecurringInv, PlanInv, OpInv, Enabled, Live, WillArm, Row, Call
<1>7. \A h \in Handler : OpInv(h)'
  BY DEF OpInv, Row, Call
<1>8. QED
  BY <1>1, <1>2, <1>3, <1>4, <1>5, <1>6, <1>7

\* Stopping ends the loop.
LEMMA StopStep ==
  ASSUME IInv, Stop
  PROVE  IInv'
<1> USE SchedulerAssumption DEF IInv, TypeOK, LoopInv, Stop, Idling, NoTime, loopVars, execVars, history
<1>1. TypeOK'
  OBVIOUS
<1>2. LoopInv'
  OBVIOUS
<1>3. \A t \in Task : PlanInv(t)'
  BY DEF PlanInv, Row, Call
<1>4. \A t \in Task : ArmingInv(t)'
  BY DEF ArmingInv, Row, Call
<1>5. \A t \in Task : WakeInv(t)'
  BY DEF WakeInv, Armed, Enabled, Live, Waker, Row, Call
<1>6. \A t \in Task : RecurringInv(t)'
  BY DEF RecurringInv, PlanInv, OpInv, Enabled, Live, WillArm, Row, Call
<1>7. \A h \in Handler : OpInv(h)'
  BY DEF OpInv, Row, Call
<1>8. QED
  BY <1>1, <1>2, <1>3, <1>4, <1>5, <1>6, <1>7

\* A crash forgets all but the rows.
LEMMA DieStep ==
  ASSUME IInv, Die
  PROVE  IInv'
<1> USE SchedulerAssumption DEF IInv, TypeOK, LoopInv, Die, Idling, NoTime, loopVars, execVars, history
<1>1. TypeOK'
  <2>1. op' \in [Handler -> Call]
    BY CallFields
  <2>2. plan' \in [Task -> Nat \cup {Keep}] /\ runs' \in [Task -> Nat]
    OBVIOUS
  <2>3. crashes' \in Nat
    OBVIOUS
  <2>4. QED
    BY <2>1, <2>2, <2>3
<1>2. LoopInv'
  OBVIOUS
<1>3. \A t \in Task : PlanInv(t)'
  BY DEF PlanInv, Row, Call
<1>4. \A t \in Task : ArmingInv(t)'
  BY DEF ArmingInv, Row, Call
<1>5. \A t \in Task : WakeInv(t)'
  BY DEF WakeInv, Armed, Enabled, Live, Waker, Row, Call
<1>6. \A t \in Task : RecurringInv(t)'
  BY DEF RecurringInv
<1>7. \A h \in Handler : OpInv(h)'
  BY DEF OpInv, Idle
<1>8. QED
  BY <1>1, <1>2, <1>3, <1>4, <1>5, <1>6, <1>7

\* The deadline is no later than the next run of an armed task, unless it is now.
LEMMA ComputeStep ==
  ASSUME IInv, Compute
  PROVE  IInv'
<1> USE SchedulerAssumption DEF IInv, TypeOK, LoopInv, Compute, NoTime, loopVars, execVars, history
<1>1. TypeOK'
  <2>1. \A t \in Task : row[t].next \in Nat
    BY RowFields
  <2>2. deadline' \in Nat
    BY <2>1
  <2>3. QED
    BY <2>2
<1>2. LoopInv'
  OBVIOUS
<1>3. \A t \in Task : PlanInv(t)'
  BY DEF PlanInv, Row, Call
<1>4. \A t \in Task : ArmingInv(t)'
  BY DEF ArmingInv, Row, Call
<1>5. \A t \in Task : WakeInv(t)'
  <2>1. \A t \in Task : row[t].next \in Nat
    BY RowFields
  <2>2. now < deadline' => \A t \in Task : Armed(t) => deadline' <= row[t].next
    <3>1. CASE \E t \in Task : Armed(t)
      <4> DEFINE times == {row[t].next : t \in {v \in Task : Armed(v)}}
      <4>1. times # {} /\ \A t \in Task : Armed(t) => row[t].next \in times
        BY <3>1
      <4>2. PICK first \in times : /\ \A time \in times : first <= time
                                  /\ deadline' = IF first < now THEN now ELSE first
        BY <4>1
      <4>3. QED
        BY <2>1, <4>1, <4>2
    <3>2. CASE ~\E t \in Task : Armed(t)
      BY <3>2
    <3>3. QED
      BY <3>1, <3>2
  <2>3. row' = row /\ now' = now
    OBVIOUS
  <2>4. QED
    BY <2>1, <2>2, <2>3, <1>1 DEF WakeInv, Armed, Enabled, Live
<1>6. \A t \in Task : RecurringInv(t)'
  BY DEF RecurringInv, PlanInv, OpInv, Enabled, Live, WillArm, Row, Call
<1>7. \A h \in Handler : OpInv(h)'
  BY DEF OpInv, Row, Call
<1>8. QED
  BY <1>1, <1>2, <1>3, <1>4, <1>5, <1>6, <1>7

\* Going to sleep changes nothing the invariant tells apart.
LEMMA SleepStep ==
  ASSUME IInv, Sleep
  PROVE  IInv'
<1> USE SchedulerAssumption DEF IInv, TypeOK, LoopInv, Sleep, NoTime, loopVars, execVars, history
<1>1. TypeOK'
  OBVIOUS
<1>2. LoopInv'
  OBVIOUS
<1>3. \A t \in Task : PlanInv(t)'
  BY DEF PlanInv, Row, Call
<1>4. \A t \in Task : ArmingInv(t)'
  BY DEF ArmingInv, Row, Call
<1>5. \A t \in Task : WakeInv(t)'
  BY DEF WakeInv, Armed, Enabled, Live, Waker, Row, Call
<1>6. \A t \in Task : RecurringInv(t)'
  BY DEF RecurringInv, PlanInv, OpInv, Enabled, Live, WillArm, Row, Call
<1>7. \A h \in Handler : OpInv(h)'
  BY DEF OpInv, Row, Call
<1>8. QED
  BY <1>1, <1>2, <1>3, <1>4, <1>5, <1>6, <1>7

\* Taking the token leads to a new deadline.
LEMMA WokenStep ==
  ASSUME IInv, Woken
  PROVE  IInv'
<1> USE SchedulerAssumption DEF IInv, TypeOK, LoopInv, Woken, Idling, NoTime, loopVars, execVars, history
<1>1. TypeOK'
  OBVIOUS
<1>2. LoopInv'
  OBVIOUS
<1>3. \A t \in Task : PlanInv(t)'
  BY DEF PlanInv, Row, Call
<1>4. \A t \in Task : ArmingInv(t)'
  BY DEF ArmingInv, Row, Call
<1>5. \A t \in Task : WakeInv(t)'
  BY DEF WakeInv, Armed, Enabled, Live, Waker, Row, Call
<1>6. \A t \in Task : RecurringInv(t)'
  BY DEF RecurringInv, PlanInv, OpInv, Enabled, Live, WillArm, Row, Call
<1>7. \A h \in Handler : OpInv(h)'
  BY DEF OpInv, Row, Call
<1>8. QED
  BY <1>1, <1>2, <1>3, <1>4, <1>5, <1>6, <1>7

\* CheckDue works with the present instant.
LEMMA CheckDueStep ==
  ASSUME IInv, CheckDue
  PROVE  IInv'
<1> USE SchedulerAssumption DEF IInv, TypeOK, LoopInv, CheckDue, NoTime, loopVars, execVars, history
<1>1. TypeOK'
  OBVIOUS
<1>2. LoopInv'
  OBVIOUS
<1>3. \A t \in Task : PlanInv(t)'
  BY DEF PlanInv, Row, Call
<1>4. \A t \in Task : ArmingInv(t)'
  BY DEF ArmingInv, Row, Call
<1>5. \A t \in Task : WakeInv(t)'
  BY DEF WakeInv, Armed, Enabled, Live, Waker, Row, Call
<1>6. \A t \in Task : RecurringInv(t)'
  BY DEF RecurringInv, PlanInv, OpInv, Enabled, Live, WillArm, Row, Call
<1>7. \A h \in Handler : OpInv(h)'
  BY DEF OpInv, Row, Call
<1>8. QED
  BY <1>1, <1>2, <1>3, <1>4, <1>5, <1>6, <1>7

\* The lock takes the next run out of the row it executes.
LEMMA TryLockStep ==
  ASSUME IInv, NEW u \in Task, TryLock(u)
  PROVE  IInv'
<1> USE SchedulerAssumption DEF IInv, TypeOK, LoopInv, TryLock, NoTime, loopVars, execVars, history
<1>1. TypeOK'
  <2>1. [row[u] EXCEPT !.next = NoTime] \in Row
    BY RowColumns, CallFields DEF OpInv, NextRun, NoTime
  <2>2. \/ row' = row
        \/ row' = [row EXCEPT ![u] = [row[u] EXCEPT !.next = NoTime]]
    OBVIOUS
  <2>3. row' \in [Task -> Row]
    BY <2>1, <2>2 DEF OpInv
  <2>4. QED
    BY <2>3
<1>2. LoopInv'
  OBVIOUS
<1>3. \A t \in Task : PlanInv(t)'
  BY DEF PlanInv, Row, Call
<1>4. \A t \in Task : ArmingInv(t)'
  BY DEF ArmingInv, Row, Call
<1>5. \A t \in Task : WakeInv(t)'
  <2>1. loop' = "check"
    OBVIOUS
  <2>2. QED
    BY <2>1 DEF WakeInv
<1>6. \A t \in Task : RecurringInv(t)'
  <2>1. runs'[u] > 0 \/ row' = row
    OBVIOUS
  <2>2. \A t \in Task : t # u => row'[t] = row[t] /\ runs'[t] = runs[t]
    OBVIOUS
  <2>3. runs'[u] = runs[u] \/ runs'[u] = runs[u] + 1
    OBVIOUS
  <2>4. QED
    BY <2>1, <2>2, <2>3 DEF RecurringInv, Enabled, Live, WillArm
<1>7. \A h \in Handler : OpInv(h)'
  BY DEF OpInv, Row, Call
<1>8. QED
  BY <1>1, <1>2, <1>3, <1>4, <1>5, <1>6, <1>7

\* The end of CheckDue leads to a new deadline.
LEMMA EndCheckStep ==
  ASSUME IInv, EndCheck
  PROVE  IInv'
<1> USE SchedulerAssumption DEF IInv, TypeOK, LoopInv, EndCheck, Idling, NoTime, loopVars, execVars, history
<1>1. TypeOK'
  OBVIOUS
<1>2. LoopInv'
  OBVIOUS
<1>3. \A t \in Task : PlanInv(t)'
  BY DEF PlanInv, Row, Call
<1>4. \A t \in Task : ArmingInv(t)'
  BY DEF ArmingInv, Row, Call
<1>5. \A t \in Task : WakeInv(t)'
  BY DEF WakeInv, Armed, Enabled, Live, Waker, Row, Call
<1>6. \A t \in Task : RecurringInv(t)'
  BY DEF RecurringInv, PlanInv, OpInv, Enabled, Live, WillArm, Row, Call
<1>7. \A h \in Handler : OpInv(h)'
  BY DEF OpInv, Row, Call
<1>8. QED
  BY <1>1, <1>2, <1>3, <1>4, <1>5, <1>6, <1>7

\* An execution that completes has still to wake the loop.
LEMMA CompleteStep ==
  ASSUME IInv, NEW u \in Task, Complete(u)
  PROVE  IInv'
<1> USE SchedulerAssumption DEF IInv, TypeOK, LoopInv, Complete, Arming, NextRun, NoTime, loopVars, execVars, history
<1>1. TypeOK'
  <2>1. row[u] \in Row /\ NextRun(now) \in Nat
    BY DEF NextRun
  <2>2. row' \in [Task -> Row]
    <3>1. CASE row' = row
      BY <3>1
    <3>2. CASE row' = [row EXCEPT ![u].state = "deleted"]
      BY <2>1, <3>2, RowColumns, WriteRow
    <3>3. CASE row' = [row EXCEPT ![u].enabled = FALSE, ![u].next = NoTime]
      <4>1. [row[u] EXCEPT !.enabled = FALSE, !.next = NoTime] \in Row
        BY <2>1 DEF Row
      <4>2. row' = [row EXCEPT ![u] = [row[u] EXCEPT !.enabled = FALSE, !.next = NoTime]]
        BY <3>3
      <4>3. QED
        BY <4>1, <4>2, WriteRow
    <3>4. CASE row' = [row EXCEPT ![u].next = NextRun(now)]
      BY <2>1, <3>4, RowColumns, WriteRow
    <3>5. QED
      BY <3>1, <3>2, <3>3, <3>4
  <2>3. runs' \in [Task -> Nat] /\ waking' \in Nat
    OBVIOUS
  <2>4. fresh' \subseteq Task
    OBVIOUS
  <2>5. QED
    BY <2>2, <2>3, <2>4
<1>2. LoopInv'
  OBVIOUS
<1>3. \A t \in Task : PlanInv(t)'
  BY DEF PlanInv, Row, Call
<1>4. \A t \in Task : ArmingInv(t)'
  BY DEF ArmingInv, Row, Call
<1>5. \A t \in Task : WakeInv(t)'
  BY DEF WakeInv, Armed, Enabled, Live, Waker, Row, Call
<1>6. \A t \in Task : RecurringInv(t)'
  BY DEF RecurringInv, PlanInv, OpInv, Enabled, Live, WillArm, Row, Call
<1>7. \A h \in Handler : OpInv(h)'
  BY DEF OpInv, Row, Call
<1>8. QED
  BY <1>1, <1>2, <1>3, <1>4, <1>5, <1>6, <1>7

\* After Stop nothing is written.
LEMMA CompleteFailsStep ==
  ASSUME IInv, NEW u \in Task, CompleteFails(u)
  PROVE  IInv'
<1> USE SchedulerAssumption DEF IInv, TypeOK, LoopInv, CompleteFails, NoTime, loopVars, execVars, history
<1>1. TypeOK'
  OBVIOUS
<1>2. LoopInv'
  OBVIOUS
<1>3. \A t \in Task : PlanInv(t)'
  BY DEF PlanInv, Row, Call
<1>4. \A t \in Task : ArmingInv(t)'
  BY DEF ArmingInv, Row, Call
<1>5. \A t \in Task : WakeInv(t)'
  BY DEF WakeInv, Armed, Enabled, Live, Waker, Row, Call
<1>6. \A t \in Task : RecurringInv(t)'
  BY DEF RecurringInv, PlanInv, OpInv, Enabled, Live, WillArm, Row, Call
<1>7. \A h \in Handler : OpInv(h)'
  BY DEF OpInv, Row, Call
<1>8. QED
  BY <1>1, <1>2, <1>3, <1>4, <1>5, <1>6, <1>7

\* The token replaces the execution that owed it.
LEMMA WakeAfterRunStep ==
  ASSUME IInv, WakeAfterRun
  PROVE  IInv'
<1> USE SchedulerAssumption DEF IInv, TypeOK, LoopInv, WakeAfterRun, NoTime, loopVars, execVars, history
<1>1. TypeOK'
  OBVIOUS
<1>2. LoopInv'
  OBVIOUS
<1>3. \A t \in Task : PlanInv(t)'
  BY DEF PlanInv, Row, Call
<1>4. \A t \in Task : ArmingInv(t)'
  BY DEF ArmingInv, Row, Call
<1>5. \A t \in Task : WakeInv(t)'
  BY DEF WakeInv, Armed, Enabled, Live, Waker, Row, Call
<1>6. \A t \in Task : RecurringInv(t)'
  BY DEF RecurringInv, PlanInv, OpInv, Enabled, Live, WillArm, Row, Call
<1>7. \A h \in Handler : OpInv(h)'
  BY DEF OpInv, Row, Call
<1>8. QED
  BY <1>1, <1>2, <1>3, <1>4, <1>5, <1>6, <1>7

\* A row is written whole, by a handler that has still to notify.
LEMMA CreateStep ==
  ASSUME IInv, NEW g \in Handler, NEW u \in Task, Create(g, u)
  PROVE  IInv'
<1> USE SchedulerAssumption DEF IInv, TypeOK, LoopInv, Create, Begin, Goto, Arming, NoTime, loopVars, execVars, history
<1>1. TypeOK'
  <2>1. PICK e \in BOOLEAN, n \in Time \cup {NoTime} :
          /\ row' = [row EXCEPT ![u] = [state |-> "live", enabled |-> e, next |-> InitialNext(u, e, n)]]
          /\ fresh' \in {fresh, fresh \cup {u}}
    OBVIOUS
  <2>2. InitialNext(u, e, n) \in Nat
    BY InitialNextType DEF Time
  <2>3. row' \in [Task -> Row]
    BY <2>1, <2>2, RowColumns
  <2>4. op' \in [Handler -> Call]
    BY CallFields
  <2>5. QED
    BY <2>1, <2>3, <2>4
<1>2. LoopInv'
  OBVIOUS
<1>3. \A t \in Task : PlanInv(t)'
  BY DEF PlanInv, Row, Call
<1>4. \A t \in Task : ArmingInv(t)'
  BY DEF ArmingInv, Row, Call, InitialNext
<1>5. \A t \in Task : WakeInv(t)'
  BY DEF WakeInv, Armed, Enabled, Live, Waker, Row, Call
<1>6. \A t \in Task : RecurringInv(t)'
  BY DEF RecurringInv, PlanInv, OpInv, Enabled, Live, WillArm, Row, Call, InitialNext, NextRun
<1>7. \A h \in Handler : OpInv(h)'
  BY DEF OpInv, Row, Call, InitialNext, NextRun
<1>8. QED
  BY <1>1, <1>2, <1>3, <1>4, <1>5, <1>6, <1>7

\* An enabled recurring task is never saved without a next run.
LEMMA BeginUpdateStep ==
  ASSUME IInv, NEW g \in Handler, NEW u \in Task, BeginUpdate(g, u)
  PROVE  IInv'
<1> USE SchedulerAssumption DEF IInv, TypeOK, LoopInv, BeginUpdate, Begin, NoTime, loopVars, execVars, history
<1>1. TypeOK'
  <2>1. PICK e \in BOOLEAN, n \in Time \cup {NoTime} :
          op' = [op EXCEPT ![g] = [pc |-> "save", task |-> u, enabled |-> e, next |-> InitialNext(u, e, n)]]
    OBVIOUS
  <2>2. InitialNext(u, e, n) \in Nat
    BY InitialNextType DEF Time
  <2>3. op' \in [Handler -> Call]
    BY <2>1, <2>2, CallFields
  <2>4. QED
    BY <2>3
<1>2. LoopInv'
  OBVIOUS
<1>3. \A t \in Task : PlanInv(t)'
  BY DEF PlanInv, Row, Call
<1>4. \A t \in Task : ArmingInv(t)'
  BY DEF ArmingInv, Row, Call
<1>5. \A t \in Task : WakeInv(t)'
  BY DEF WakeInv, Armed, Enabled, Live, Waker, Row, Call
<1>6. \A t \in Task : RecurringInv(t)'
  BY DEF RecurringInv, PlanInv, OpInv, Enabled, Live, WillArm, Row, Call, InitialNext, NextRun
<1>7. \A h \in Handler : OpInv(h)'
  BY DEF OpInv, Row, Call, InitialNext, NextRun
<1>8. QED
  BY <1>1, <1>2, <1>3, <1>4, <1>5, <1>6, <1>7

\* The row saved is armed, by a handler that has still to notify.
LEMMA SaveUpdateStep ==
  ASSUME IInv, NEW g \in Handler, SaveUpdate(g)
  PROVE  IInv'
<1> USE SchedulerAssumption DEF IInv, TypeOK, LoopInv, SaveUpdate, Goto, Arming, NoTime, loopVars, execVars, history
<1>1. TypeOK'
  <2>1. [state |-> "live", enabled |-> op[g].enabled, next |-> op[g].next] \in Row
    BY RowColumns, CallFields DEF OpInv, NextRun, NoTime
  <2>2. \/ row' = row
        \/ row' = [row EXCEPT ![op[g].task] = [state |-> "live", enabled |-> op[g].enabled, next |-> op[g].next]]
    OBVIOUS
  <2>3. row' \in [Task -> Row]
    BY <2>1, <2>2 DEF OpInv
  <2>4. [Idle EXCEPT !.pc = "notify"] \in Call
    BY CallFields
  <2>5. op' \in [Handler -> Call]
    BY <2>4
  <2>6. QED
    BY <2>3, <2>5
<1>2. LoopInv'
  OBVIOUS
<1>3. \A t \in Task : PlanInv(t)'
  BY DEF PlanInv, Row, Call
<1>4. \A t \in Task : ArmingInv(t)'
  BY DEF ArmingInv, Row, Call
<1>5. \A t \in Task : WakeInv(t)'
  BY DEF WakeInv, Armed, Enabled, Live, Waker, Row, Call
<1>6. \A t \in Task : RecurringInv(t)'
  BY DEF RecurringInv, PlanInv, OpInv, Enabled, Live, WillArm, Row, Call
<1>7. \A h \in Handler : OpInv(h)'
  BY DEF OpInv, Row, Call
<1>8. QED
  BY <1>1, <1>2, <1>3, <1>4, <1>5, <1>6, <1>7

\* A deleted row asks for nothing.
LEMMA DeleteStep ==
  ASSUME IInv, NEW g \in Handler, NEW u \in Task, Delete(g, u)
  PROVE  IInv'
<1> USE SchedulerAssumption DEF IInv, TypeOK, LoopInv, Delete, Begin, Goto, NoTime, loopVars, execVars, history
<1>1. TypeOK'
  <2>1. [row[u] EXCEPT !.state = "deleted"] \in Row
    BY RowColumns, CallFields DEF OpInv, NextRun, NoTime
  <2>2. \/ row' = row
        \/ row' = [row EXCEPT ![u] = [row[u] EXCEPT !.state = "deleted"]]
    OBVIOUS
  <2>3. row' \in [Task -> Row]
    BY <2>1, <2>2 DEF OpInv
  <2>4. [Idle EXCEPT !.pc = "notify"] \in Call
    BY CallFields
  <2>5. op' \in [Handler -> Call]
    BY <2>4
  <2>6. QED
    BY <2>3, <2>5
<1>2. LoopInv'
  OBVIOUS
<1>3. \A t \in Task : PlanInv(t)'
  BY DEF PlanInv, Row, Call
<1>4. \A t \in Task : ArmingInv(t)'
  BY DEF ArmingInv, Row, Call
<1>5. \A t \in Task : WakeInv(t)'
  BY DEF WakeInv, Armed, Enabled, Live, Waker, Row, Call
<1>6. \A t \in Task : RecurringInv(t)'
  BY DEF RecurringInv, PlanInv, OpInv, Enabled, Live, WillArm, Row, Call
<1>7. \A h \in Handler : OpInv(h)'
  BY DEF OpInv, Row, Call
<1>8. QED
  BY <1>1, <1>2, <1>3, <1>4, <1>5, <1>6, <1>7

\* Who enables a task will look at its next run.
LEMMA SetStatusStep ==
  ASSUME IInv, NEW g \in Handler, NEW u \in Task, SetStatus(g, u)
  PROVE  IInv'
<1> USE SchedulerAssumption DEF IInv, TypeOK, LoopInv, SetStatus, Begin, NoTime, loopVars, execVars, history
<1>1. TypeOK'
  <2>1. PICK e \in BOOLEAN :
          /\ row' = [row EXCEPT ![u] = [row[u] EXCEPT !.enabled = e]]
          /\ op' = [op EXCEPT ![g] = [Idle EXCEPT !.pc = IF e THEN "read" ELSE "notify", !.task = u]]
    OBVIOUS
  <2>2. [row[u] EXCEPT !.enabled = e] \in Row
    BY RowColumns
  <2>3. row' \in [Task -> Row]
    BY <2>1, <2>2
  <2>4. [Idle EXCEPT !.pc = IF e THEN "read" ELSE "notify", !.task = u] \in Call
    BY DEF Call, Idle
  <2>5. op' \in [Handler -> Call]
    BY <2>1, <2>4
  <2>6. QED
    BY <2>3, <2>5
<1>2. LoopInv'
  OBVIOUS
<1>3. \A t \in Task : PlanInv(t)'
  BY DEF PlanInv, Row, Call
<1>4. \A t \in Task : ArmingInv(t)'
  BY DEF ArmingInv, Row, Call
<1>5. \A t \in Task : WakeInv(t)'
  BY DEF WakeInv, Armed, Enabled, Live, Waker, Row, Call
<1>6. \A t \in Task : RecurringInv(t)'
  BY DEF RecurringInv, PlanInv, OpInv, Enabled, Live, WillArm, Row, Call
<1>7. \A h \in Handler : OpInv(h)'
  BY DEF OpInv, Row, Call
<1>8. QED
  BY <1>1, <1>2, <1>3, <1>4, <1>5, <1>6, <1>7

\* What is read of an enabled recurring task leads to a next run.
LEMMA ReadBackStep ==
  ASSUME IInv, NEW g \in Handler, ReadBack(g)
  PROVE  IInv'
<1> USE SchedulerAssumption DEF IInv, TypeOK, LoopInv, ReadBack, Goto, NoTime, loopVars, execVars, history
<1>1. TypeOK'
  <2> DEFINE t == op[g].task
  <2>1. CASE Live(t) /\ row[t].next = NoTime
    <3>1. row[t].enabled \in BOOLEAN /\ t \in Task
      BY RowColumns DEF OpInv
    <3>2. InitialNext(t, row[t].enabled, NoTime) \in Nat
      BY <3>1, InitialNextType
    <3>3. [op[g] EXCEPT !.pc = "arm", !.next = InitialNext(t, row[t].enabled, NoTime)] \in Call
      BY <3>2, CallFields
    <3>4. op' = [op EXCEPT ![g] = [op[g] EXCEPT !.pc = "arm", !.next = InitialNext(t, row[t].enabled, NoTime)]]
      BY <2>1
    <3>5. QED
      BY <3>3, <3>4
  <2>2. CASE ~(Live(t) /\ row[t].next = NoTime)
    BY <2>2, CallFields
  <2>3. QED
    BY <2>1, <2>2
<1>2. LoopInv'
  OBVIOUS
<1>3. UNCHANGED <<row, now, phase, plan, loopVars, wake, execVars, fresh, cleared>>
  OBVIOUS
<1>4. \A t \in Task : PlanInv(t)' /\ ArmingInv(t)'
  BY ONLY <1>3, IInv DEF IInv, PlanInv, ArmingInv
<1>5. \A t \in Task : WakeInv(t)'
  <2>1. \A h \in Handler : Waker(h) => Waker(h)'
    <3>1. \A h \in Handler : h # g => op'[h] = op[h]
      OBVIOUS
    <3>2. op'[g].pc \in {"arm", "notify"}
      BY DEF Call, Idle
    <3>3. QED
      BY <3>1, <3>2 DEF Waker
  <2>2. QED
    BY ONLY <1>3, <2>1, IInv DEF IInv, WakeInv, Armed, Enabled, Live, loopVars, execVars
<1>6. \A t \in Task : RecurringInv(t)'
  <2> SUFFICES ASSUME NEW t \in Task, t \notin OneShot, Enabled(t), row[t].next = NoTime,
                      NEW h \in Handler, WillArm(h, t)
               PROVE  WillArm(h, t)'
    BY <1>3 DEF RecurringInv, Enabled, Live
  <2>1. CASE h = g
    BY <2>1 DEF WillArm, Enabled, Live, InitialNext, NextRun, Call
  <2>2. CASE h # g
    BY <2>2 DEF WillArm
  <2>3. QED
    BY <2>1, <2>2
<1>7. \A h \in Handler : OpInv(h)'
  BY DEF OpInv, Call, Idle
<1>8. QED
  BY <1>1, <1>2, <1>3, <1>4, <1>5, <1>6, <1>7

\* The next run is written, or a stale absence of one is.
LEMMA ArmStep ==
  ASSUME IInv, NEW g \in Handler, Arm(g)
  PROVE  IInv'
<1> USE SchedulerAssumption DEF IInv, TypeOK, LoopInv, Arm, Goto, Arming, NoTime, loopVars, execVars, history
<1>1. TypeOK'
  <2>1. [row[op[g].task] EXCEPT !.next = op[g].next] \in Row
    BY RowColumns, CallFields DEF OpInv, NextRun, NoTime
  <2>2. \/ row' = row
        \/ row' = [row EXCEPT ![op[g].task] = [row[op[g].task] EXCEPT !.next = op[g].next]]
    OBVIOUS
  <2>3. row' \in [Task -> Row]
    BY <2>1, <2>2 DEF OpInv
  <2>4. [Idle EXCEPT !.pc = "notify"] \in Call
    BY CallFields
  <2>5. op' \in [Handler -> Call]
    BY <2>4, WriteCall DEF Goto
  <2>6. fresh' \subseteq Task /\ cleared' \subseteq Task
    BY DEF OpInv
  <2>7. QED
    BY <2>3, <2>5, <2>6
<1>2. LoopInv'
  OBVIOUS
<1>3. \A t \in Task : PlanInv(t)'
  BY DEF PlanInv, Row, Call
<1>4. \A t \in Task : ArmingInv(t)'
  BY DEF ArmingInv, Row, Call
<1>5. \A t \in Task : WakeInv(t)'
  BY DEF WakeInv, Armed, Enabled, Live, Waker, Row, Call
<1>6. \A t \in Task : RecurringInv(t)'
  BY DEF RecurringInv, PlanInv, OpInv, Enabled, Live, WillArm, Row, Call
<1>7. \A h \in Handler : OpInv(h)'
  BY DEF OpInv, Row, Call
<1>8. QED
  BY <1>1, <1>2, <1>3, <1>4, <1>5, <1>6, <1>7

\* The token replaces the handler that owed it.
LEMMA NotifyStep ==
  ASSUME IInv, NEW g \in Handler, Notify(g)
  PROVE  IInv'
<1> USE SchedulerAssumption DEF IInv, TypeOK, LoopInv, Notify, Goto, NoTime, loopVars, execVars, history
<1>1. TypeOK'
  <2>1. [Idle EXCEPT !.pc = "idle"] \in Call
    BY CallFields
  <2>2. op' \in [Handler -> Call]
    BY <2>1
  <2>3. QED
    BY <2>2
<1>2. LoopInv'
  OBVIOUS
<1>3. \A t \in Task : PlanInv(t)'
  BY DEF PlanInv, Row, Call
<1>4. \A t \in Task : ArmingInv(t)'
  BY DEF ArmingInv, Row, Call
<1>5. \A t \in Task : WakeInv(t)'
  BY DEF WakeInv, Armed, Enabled, Live, Waker, Row, Call
<1>6. \A t \in Task : RecurringInv(t)'
  BY DEF RecurringInv, PlanInv, OpInv, Enabled, Live, WillArm, Row, Call
<1>7. \A h \in Handler : OpInv(h)'
  BY DEF OpInv, Row, Call
<1>8. QED
  BY <1>1, <1>2, <1>3, <1>4, <1>5, <1>6, <1>7
\* A step that changes nothing.
LEMMA StutterStep ==
  ASSUME IInv, UNCHANGED vars
  PROVE  IInv'
  BY DEF IInv, TypeOK, LoopInv, PlanInv, ArmingInv, WakeInv, RecurringInv, OpInv, Waker, WillArm,
         Armed, Enabled, Live, vars, loopVars, execVars, history

\* The initial state satisfies the inductive invariant.
LEMMA InitIInv == Init => IInv
<1> SUFFICES ASSUME Init PROVE IInv
  OBVIOUS
<1> USE SchedulerAssumption DEF Init, NoTime
<1>1. Idle \in Call /\ Idle.pc = "idle"
  BY CallFields DEF Idle
<1>2. [state |-> "absent", enabled |-> FALSE, next |-> NoTime] \in Row
  BY DEF Row
<1>3. TypeOK
  BY <1>1, <1>2 DEF TypeOK
<1>4. \A t \in Task : PlanInv(t) /\ ArmingInv(t) /\ WakeInv(t) /\ RecurringInv(t)
  BY DEF PlanInv, ArmingInv, WakeInv, RecurringInv
<1>5. \A h \in Handler : OpInv(h)
  BY <1>1 DEF OpInv
<1>6. LoopInv
  BY DEF LoopInv
<1>7. QED
  BY <1>3, <1>4, <1>5, <1>6 DEF IInv

-----------------------------------------------------------------------------
(* IInv is inductive: every step of the process, the loop, the executions  *)
(* and the handlers keeps it.                                              *)
THEOREM SchedulerInvariance == Spec => []IInv
<1>1. IInv /\ [Next]_vars => IInv'
  <2> SUFFICES ASSUME IInv, [Next]_vars PROVE IInv'
    OBVIOUS
  <2>1. CASE Tick
    BY <2>1, TickStep
  <2>2. CASE Process
    BY <2>2, StartStep, LaunchStep, StopStep, DieStep, RecoverTaskStep DEF Process
  <2>3. CASE Loop
    BY <2>3, ComputeStep, SleepStep, WokenStep, CheckDueStep, EndCheckStep, TryLockStep DEF Loop
  <2>4. CASE Execution
    BY <2>4, WakeAfterRunStep, CompleteStep, CompleteFailsStep DEF Execution
  <2>5. CASE \E h \in Handler : Request(h)
    BY <2>5, CreateStep, BeginUpdateStep, DeleteStep, SetStatusStep DEF Request
  <2>6. CASE \E h \in Handler : Handling(h)
    BY <2>6, SaveUpdateStep, ReadBackStep, ArmStep, NotifyStep DEF Handling
  <2>7. CASE UNCHANGED vars
    BY <2>7, StutterStep
  <2>8. QED
    BY <2>1, <2>2, <2>3, <2>4, <2>5, <2>6, <2>7 DEF Next
<1>2. QED
  BY InitIInv, <1>1, PTL DEF Spec

(* The rows, the loop and the handlers keep their types: in particular no  *)
(* execution completes that was not started.                               *)
THEOREM SchedulerTypes == Spec => []TypeOK
<1>1. IInv => TypeOK
  BY DEF IInv
<1>2. QED
  BY <1>1, SchedulerInvariance, PTL

(* A next run time found in a row was written after the last execution of  *)
(* the task began, so each is executed at most once.                       *)
THEOREM ArmingsRunOnce == Spec => []EachArmingRunsOnce
<1>1. IInv => EachArmingRunsOnce
  BY DEF IInv, ArmingInv, EachArmingRunsOnce
<1>2. QED
  BY <1>1, SchedulerInvariance, PTL

(* The loop never sleeps past an armed task without a wake-up to come.     *)
THEOREM WakeUpsAreKept == Spec => []NoLostWakeup
<1>1. IInv => NoLostWakeup
  BY DEF IInv, WakeInv, NoLostWakeup, Waker
<1>2. QED
  BY <1>1, SchedulerInvariance, PTL

(* An enabled recurring task is not forgotten while the scheduler is up,   *)
(* but for the stale write of SetStatus.                                   *)
THEOREM RecurringTasksStayArmed == Spec => []RecurringStaysArmed
<1>1. IInv => RecurringStaysArmed
  BY DEF IInv, LoopInv, RecurringInv, RecurringStaysArmed
<1>2. QED
  BY <1>1, SchedulerInvariance, PTL

(* Only a live, enabled and due row is executed, however stale the list    *)
(* CheckDue works through: the instant it works with is not after now, and *)
(* the lock looks at the row again.                                        *)
THEOREM RunsAreDue == Spec => RunsOnlyWhatIsDue
<1>1. IInv /\ [Next]_vars => [\A t \in Task : runs'[t] > runs[t] => DueAt(t, now)]_vars
  <2> SUFFICES ASSUME IInv, Next, NEW t \in Task, runs'[t] > runs[t] PROVE DueAt(t, now)
    BY DEF vars, execVars
  <2> USE DEF IInv, TypeOK
  <2>1. \E u \in Task : TryLock(u)
    <3>1. runs' = runs => FALSE
      OBVIOUS
    <3>2. ~Tick /\ ~Process
      BY <3>1 DEF Tick, Process, Start, Launch, Stop, Die, RecoverTask, execVars
    <3>3. ~Execution
      <4>1. ASSUME NEW u \in Task, runs' = [runs EXCEPT ![u] = @ - 1] PROVE FALSE
        BY <4>1
      <4>2. ~WakeAfterRun
        BY <3>1 DEF WakeAfterRun
      <4>3. ~\E u \in Task : Complete(u) \/ CompleteFails(u)
        BY <4>1 DEF Complete, CompleteFails
      <4>4. QED
        BY <4>2, <4>3 DEF Execution
    <3>4. ~\E h \in Handler : Request(h) \/ Handling(h)
      BY <3>1 DEF Request, Handling, Create, BeginUpdate, Delete, SetStatus, SaveUpdate, ReadBack,
                  Arm, Notify, execVars
    <3>5. ~(Compute \/ Sleep \/ Woken \/ CheckDue \/ EndCheck)
      BY <3>1 DEF Compute, Sleep, Woken, CheckDue, EndCheck, execVars
    <3>6. QED
      BY <3>2, <3>3, <3>4, <3>5 DEF Next, Loop
  <2>2. PICK u \in Task : TryLock(u)
    BY <2>1
  <2>3. t = u /\ DueAt(t, checked)
    BY <2>2 DEF TryLock
  <2>4. row[t].next \in Nat
    BY RowFields
  <2>5. QED
    BY <2>3, <2>4 DEF DueAt, LoopInv
<1>2. QED
  BY <1>1, SchedulerInvariance, PTL DEF Spec, RunsOnlyWhatIsDue
=============================================================================
