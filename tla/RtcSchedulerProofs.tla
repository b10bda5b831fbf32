------------------------- MODULE RtcSchedulerProofs -------------------------
(***************************************************************************)
(* Safety of RtcScheduler for every number of jobs, every set of periods,  *)
(* every bound on the clock and on the stall, and every wiring.            *)
(***************************************************************************)
EXTENDS RtcScheduler, TLAPS

USE MaxJobsAssumption, PeriodsAssumption, ClockAssumption, FlagsAssumption

-----------------------------------------------------------------------------
(* Arithmetic of the clock *)

\* A remainder lies below its modulus, and is the number itself below it.
LEMMA Remainder ==
  ASSUME NEW a \in Int, NEW m \in Nat \ {0}
  PROVE  a % m \in 0 .. (m - 1) /\ (a \in 0 .. (m - 1) => a % m = a)
  OBVIOUS

-----------------------------------------------------------------------------
(* Types *)

\* TypeOK alone is not inductive: the loop increments its index after the callback.
CursorInTable == \A c \in Contexts : pc[c] = "clear" => cursor[c] < numOfJobs

LEMMA TypeInit == Init => TypeOK
<1> SUFFICES ASSUME Init PROVE TypeOK
  OBVIOUS
<1>1. now \in 0 .. MaxNow /\ stall \in 0 .. MaxStall
  BY DEF Init
<1>2. /\ alrae \in BOOLEAN /\ alraie \in BOOLEAN /\ alraf \in BOOLEAN /\ exti \in BOOLEAN /\ extiOn \in BOOLEAN
      /\ halLock \in BOOLEAN /\ isRunning \in BOOLEAN
  BY DEF Init
<1>3. /\ alrmar \in 0 .. (Month - 1) /\ startTime \in 0 .. MaxNow
      /\ numOfJobs \in 0 .. MaxJobs
  BY DEF Init
<1>4. period \in [Indices -> 0 .. (W - 1)] /\ remainingTime \in [Indices -> 0 .. (W - 1)]
  BY DEF Init
<1>5. isPending \in [Indices -> BOOLEAN] /\ owed \in [Indices -> BOOLEAN]
  BY DEF Init
<1>6. pc \in [Contexts -> Labels]
  BY DEF Init, Labels
<1>7. elapsed \in [Contexts -> 0 .. (W - 1)] /\ epoch \in [Contexts -> 0 .. (W - 1)]
  BY DEF Init
<1>8. job \in [Contexts -> Indices] /\ cursor \in [Contexts -> 0 .. MaxJobs]
  BY DEF Init, Indices
<1>9. lastMark \in [Indices -> 0 .. MaxNow]
  BY DEF Init
<1> QED BY <1>1, <1>2, <1>3, <1>4, <1>5, <1>6, <1>7, <1>8, <1>9 DEF TypeOK

\* What the steps compute stays inside the type it is stored in.
LEMMA ElapsedType == TypeOK => ElapsedTime \in 0 .. (W - 1)
  BY Remainder DEF TypeOK, ElapsedTime

LEMMA EpochType ==
  ASSUME TypeOK, NEW c \in Contexts
  PROVE  (now + remainingTime[job[c]]) % W \in 0 .. (W - 1)
<1>1. job[c] \in Indices
  BY DEF TypeOK
<1>2. now \in Int /\ remainingTime[job[c]] \in Int
  BY <1>1 DEF TypeOK
<1>3. now + remainingTime[job[c]] \in Int
  BY <1>2
<1> QED BY <1>3, Remainder

LEMMA StampType ==
  ASSUME NEW t \in 0 .. (W - 1) PROVE AlarmStamp(t) \in 0 .. (Month - 1)
  BY Remainder DEF AlarmStamp

LEMMA LabelMembers ==
  /\ \A l \in {"idle", "execute", "clear"} : l \in Labels
  /\ \A l \in {"process", "elapsed", "age", "search", "start", "check", "lock", "disable",
               "write", "unlock", "timedOut", "running"} : l \in Labels
  /\ \A l \in {"stop", "stopLock", "stopDisable", "stopUnlock",
               "stopElapsed", "stopAge", "stopped"} : l \in Labels
  /\ \A c \in Contexts : AfterProcess(c) \in {"execute", "idle"} /\ AfterProcess(c) \in Labels
  BY DEF Labels, ProcessPcs, ArmingPcs, StopPcs, ExecutePcs, AfterProcess

LEMMA GotoType ==
  ASSUME TypeOK, NEW c \in Contexts, NEW l \in Labels, Goto(c, l)
  PROVE  pc' \in [Contexts -> Labels]
  BY DEF Goto, TypeOK

LEMMA TypeProcess ==
  ASSUME TypeOK, NEW c \in Contexts, SchedulerProcess(c)
  PROVE  TypeOK'
<1> USE DEF clock, alarm, control, table, locals, history
<1>1. CASE ProcessEnter(c)
  BY <1>1, GotoType, LabelMembers DEF TypeOK, ProcessEnter
<1>2. CASE ReadElapsed(c)
  BY <1>2, ElapsedType, GotoType, LabelMembers DEF TypeOK, ReadElapsed
<1>3. CASE ProcessAge(c)
  <2>1. remainingTime' \in [Indices -> 0 .. (W - 1)] /\ lastMark' \in [Indices -> 0 .. MaxNow]
    BY <1>3 DEF TypeOK, ProcessAge, ProcessRemainingTime, Due, Configured
  <2>2. isPending' \in [Indices -> BOOLEAN] /\ owed' \in [Indices -> BOOLEAN]
    BY <1>3 DEF TypeOK, ProcessAge, ProcessRemainingTime
  <2>3. elapsed' \in [Contexts -> 0 .. (W - 1)]
    BY <1>3 DEF TypeOK, ProcessAge, ProcessRemainingTime
  <2> QED BY <1>3, <2>1, <2>2, <2>3, GotoType, LabelMembers
          DEF TypeOK, ProcessAge, ProcessRemainingTime
<1>4. CASE SearchNextJob(c)
  <2>1. PICK i \in Configured \union {0} :
          IF remainingTime[i] > 0
          THEN job' = [job EXCEPT ![c] = i] /\ Goto(c, "start")
          ELSE UNCHANGED job /\ Goto(c, AfterProcess(c))
    BY <1>4 DEF SearchNextJob
  <2>2. i \in Indices
    BY DEF Configured, Indices
  <2> QED BY <1>4, <2>1, <2>2, GotoType, LabelMembers DEF TypeOK, SearchNextJob
<1>5. CASE ReadStart(c)
  <2>1. 0 \in Indices
    BY DEF Indices
  <2> QED BY <1>5, <2>1, EpochType, GotoType, LabelMembers DEF TypeOK, ReadStart
<1>6. CASE CheckFuture(c)
  BY <1>6, GotoType, LabelMembers DEF TypeOK, CheckFuture, NotArmed
<1>7. CASE LockHal(c)
  BY <1>7, GotoType, LabelMembers DEF TypeOK, LockHal, NotArmed
<1>8. CASE DisableAlarm(c)
  BY <1>8, GotoType, LabelMembers DEF TypeOK, DisableAlarm
<1>9. CASE WriteAlarm(c)
  <2>1. AlarmStamp(epoch[c]) \in 0 .. (Month - 1)
    BY StampType DEF TypeOK
  <2> QED BY <1>9, <2>1, GotoType, LabelMembers DEF TypeOK, WriteAlarm
<1>10. CASE GiveUp(c)
  <2>1. epoch' \in [Contexts -> 0 .. (W - 1)]
    BY <1>10 DEF TypeOK, GiveUp, NotArmed
  <2>3. halLock' \in BOOLEAN
    BY <1>10 DEF GiveUp
  <2>2. pc' \in [Contexts -> Labels]
    BY <1>10, GotoType, LabelMembers DEF GiveUp, NotArmed
  <2> QED BY <1>10, <2>1, <2>2, <2>3 DEF TypeOK, GiveUp
<1>11. CASE UnlockHal(c)
  BY <1>11, GotoType, LabelMembers DEF TypeOK, UnlockHal
<1>12. CASE SetRunning(c)
  BY <1>12, GotoType, LabelMembers DEF TypeOK, SetRunning
<1> QED
  BY <1>1, <1>2, <1>3, <1>4, <1>5, <1>6, <1>7, <1>8, <1>9, <1>10, <1>11, <1>12
  DEF SchedulerProcess

LEMMA TypeExecute ==
  ASSUME TypeOK, CursorInTable, NEW c \in Contexts, SchedulerExecutePendingJobs(c)
  PROVE  TypeOK'
<1> USE DEF clock, alarm, control, table, locals, history
<1>1. CASE ExecuteReturns(c)
  BY <1>1, GotoType, LabelMembers DEF TypeOK, ExecuteReturns
<1>2. CASE SkipJob(c)
  <2>1. cursor' \in [Contexts -> 0 .. MaxJobs]
    BY <1>2 DEF TypeOK, SkipJob
  <2> QED BY <1>2, <2>1 DEF TypeOK, SkipJob
<1>3. CASE CallCallback(c)
  <2>1. owed' \in [Indices -> BOOLEAN]
    BY <1>3 DEF TypeOK, CallCallback
  <2> QED BY <1>3, <2>1, GotoType, LabelMembers DEF TypeOK, CallCallback
<1>4. CASE ClearPending(c)
  <2>1. isPending' \in [Indices -> BOOLEAN]
    BY <1>4 DEF TypeOK, ClearPending, Cleared
  <2>2. cursor' \in [Contexts -> 0 .. MaxJobs]
    BY <1>4 DEF TypeOK, CursorInTable, ClearPending, At
  <2> QED BY <1>4, <2>1, <2>2, GotoType, LabelMembers DEF TypeOK, ClearPending
<1> QED BY <1>1, <1>2, <1>3, <1>4 DEF SchedulerExecutePendingJobs

LEMMA TypeStop ==
  ASSUME TypeOK, SchedulerStop
  PROVE  TypeOK'
<1> USE DEF clock, alarm, control, table, locals, history
<1>0. "task" \in Contexts
  BY DEF Contexts
<1>1. CASE StopEnter
  BY <1>0, <1>1, GotoType, LabelMembers DEF TypeOK, StopEnter
<1>2. CASE StopLock
  BY <1>0, <1>2, GotoType, LabelMembers DEF TypeOK, StopLock
<1>3. CASE StopDisable
  BY <1>0, <1>3, GotoType, LabelMembers DEF TypeOK, StopDisable
<1>4. CASE StopUnlock
  BY <1>0, <1>4, GotoType, LabelMembers DEF TypeOK, StopUnlock
<1>5. CASE StopReadElapsed
  BY <1>0, <1>5, ElapsedType, GotoType, LabelMembers DEF TypeOK, StopReadElapsed
<1>6. CASE StopAge
  <2>1. remainingTime' \in [Indices -> 0 .. (W - 1)] /\ lastMark' \in [Indices -> 0 .. MaxNow]
    BY <1>0, <1>6 DEF TypeOK, StopAge, ProcessRemainingTime, Due, Configured
  <2>2. isPending' \in [Indices -> BOOLEAN] /\ owed' \in [Indices -> BOOLEAN]
    BY <1>6 DEF TypeOK, StopAge, ProcessRemainingTime
  <2>3. elapsed' \in [Contexts -> 0 .. (W - 1)]
    BY <1>0, <1>6 DEF TypeOK, StopAge, ProcessRemainingTime
  <2> QED BY <1>0, <1>6, <2>1, <2>2, <2>3, GotoType, LabelMembers
          DEF TypeOK, StopAge, ProcessRemainingTime
<1>7. CASE Stopped
  BY <1>0, <1>7, GotoType, LabelMembers DEF TypeOK, Stopped
<1> QED BY <1>1, <1>2, <1>3, <1>4, <1>5, <1>6, <1>7 DEF SchedulerStop

LEMMA TypeClient ==
  ASSUME TypeOK, Client
  PROVE  TypeOK'
<1> USE DEF clock, alarm, control, table, locals, history
<1>0. "task" \in Contexts
  BY DEF Contexts
<1>1. CASE SchedulerInit
  <2>1. isRunning' \in BOOLEAN
    BY <1>1 DEF SchedulerInit
  <2>2. startTime' \in 0 .. MaxNow /\ numOfJobs' \in 0 .. MaxJobs
    BY <1>1 DEF SchedulerInit
  <2> QED BY <1>1, <2>1, <2>2 DEF TypeOK, SchedulerInit
<1>2. CASE CallProcess
  BY <1>0, <1>2, GotoType, LabelMembers DEF TypeOK, CallProcess
<1>3. CASE CallStop
  BY <1>0, <1>3, GotoType, LabelMembers DEF TypeOK, CallStop
<1>4. CASE CallExecute
  BY <1>0, <1>4, GotoType, LabelMembers DEF TypeOK, CallExecute
<1>5. ASSUME NEW p \in Periods, SchedulerAddJob(p) PROVE TypeOK'
  <2>1. p \in 0 .. (W - 1)
    OBVIOUS
  <2>2. CASE Accepts
    <3>1. numOfJobs' \in 0 .. MaxJobs
      BY <1>5, <2>2 DEF TypeOK, SchedulerAddJob, Accepts
    <3>2. period' \in [Indices -> 0 .. (W - 1)] /\ remainingTime' \in [Indices -> 0 .. (W - 1)]
      BY <1>5, <2>1, <2>2 DEF TypeOK, SchedulerAddJob
    <3>3. isPending' \in [Indices -> BOOLEAN] /\ owed' \in [Indices -> BOOLEAN]
      BY <1>5, <2>2 DEF TypeOK, SchedulerAddJob
    <3>4. lastMark' \in [Indices -> 0 .. MaxNow]
      BY <1>5, <2>2 DEF TypeOK, SchedulerAddJob
    <3> QED BY <1>5, <3>1, <3>2, <3>3, <3>4 DEF TypeOK, SchedulerAddJob
  <2>3. CASE ~Accepts
    BY <1>5, <2>3 DEF TypeOK, SchedulerAddJob
  <2> QED BY <2>2, <2>3
<1> QED BY <1>1, <1>2, <1>3, <1>4, <1>5 DEF Client

LEMMA TypeStep == TypeOK /\ CursorInTable /\ [Next]_vars => TypeOK'
<1> SUFFICES ASSUME TypeOK, CursorInTable, [Next]_vars PROVE TypeOK'
  OBVIOUS
<1> USE DEF clock, alarm, control, table, locals, history
<1>1. CASE Tick
  <2>1. now' \in 0 .. MaxNow /\ stall' \in 0 .. MaxStall
    BY <1>1 DEF TypeOK, Tick
  <2>2. alraf' \in BOOLEAN /\ exti' \in BOOLEAN
    BY <1>1 DEF TypeOK, Tick
  <2> QED BY <1>1, <2>1, <2>2 DEF TypeOK, Tick
<1>2. CASE AlarmIRQHandler
  <2>1. "isr" \in Contexts
    BY DEF Contexts
  <2>2. alraf' \in BOOLEAN
    BY <1>2 DEF TypeOK, AlarmIRQHandler
  <2> QED BY <1>2, <2>1, <2>2, GotoType, LabelMembers DEF TypeOK, AlarmIRQHandler
<1>3. ASSUME NEW c \in Contexts, Running(c) PROVE TypeOK'
  BY <1>3, TypeProcess, TypeExecute DEF Running
<1>4. CASE SchedulerStop
  BY <1>4, TypeStop
<1>5. CASE Client
  BY <1>5, TypeClient
<1>6. CASE UNCHANGED vars
  BY <1>6 DEF TypeOK, vars
<1> QED BY <1>1, <1>2, <1>3, <1>4, <1>5, <1>6 DEF Next

-----------------------------------------------------------------------------
(* Where a step can go *)

\* A step of SchedulerProcess leaves the loop indices and the length of the table
\* alone and stays in SchedulerProcess or leaves it.
LEMMA ProcessFrame ==
  ASSUME NEW c \in Contexts, SchedulerProcess(c)
  PROVE  /\ pc[c] \in ProcessPcs
         /\ c = "task" => IsrIdle
         /\ \E l \in (ProcessPcs \ {"process"}) \union {AfterProcess(c)} : Goto(c, l)
         /\ UNCHANGED <<now, stall, numOfJobs, period, cursor>>
<1> USE DEF clock, alarm, control, table, locals, history, At, ProcessPcs, ArmingPcs
<1>1. CASE ProcessEnter(c) \/ ReadElapsed(c) \/ SearchNextJob(c) \/ ReadStart(c)
  BY <1>1 DEF ProcessEnter, ReadElapsed, SearchNextJob, ReadStart
<1>2. CASE CheckFuture(c) \/ LockHal(c) \/ GiveUp(c) \/ SetRunning(c)
  BY <1>2 DEF CheckFuture, LockHal, GiveUp, SetRunning, NotArmed
<1>3. CASE DisableAlarm(c) \/ WriteAlarm(c) \/ UnlockHal(c)
  BY <1>3 DEF DisableAlarm, WriteAlarm, UnlockHal
<1>4. CASE ProcessAge(c)
  BY <1>4 DEF ProcessAge, ProcessRemainingTime
<1> QED BY <1>1, <1>2, <1>3, <1>4 DEF SchedulerProcess

LEMMA StopFrame ==
  ASSUME SchedulerStop
  PROVE  /\ pc["task"] \in StopPcs
         /\ IsrIdle
         /\ \E l \in (StopPcs \ {"stop"}) \union {"idle"} : Goto("task", l)
         /\ UNCHANGED <<now, stall, numOfJobs, period, cursor>>
  BY DEF SchedulerStop, StopEnter, StopLock, StopDisable, StopUnlock, StopReadElapsed, StopAge,
     Stopped, ProcessRemainingTime, clock, alarm, control, table, locals, history, At, StopPcs

LEMMA ExecuteFrame ==
  ASSUME NEW c \in Contexts, SchedulerExecutePendingJobs(c)
  PROVE  /\ pc[c] \in ExecutePcs
         /\ c = "task" => IsrIdle
         /\ (\E l \in ExecutePcs \union {"idle"} : Goto(c, l)) \/ UNCHANGED pc
         /\ UNCHANGED <<clock, alarm, halLock, control, numOfJobs, period, remainingTime,
                        elapsed, job, epoch, lastMark>>
  BY DEF SchedulerExecutePendingJobs, ExecuteReturns, SkipJob, CallCallback, ClearPending,
     clock, alarm, control, table, locals, history, At, ExecutePcs

LEMMA ClientFrame ==
  ASSUME TypeOK, Client
  PROVE  /\ pc["task"] = "idle" /\ IsrIdle
         /\ (\E l \in {"process", "stop", "execute"} : Goto("task", l)) \/ UNCHANGED pc
         /\ UNCHANGED <<clock, alarm, halLock, isRunning, elapsed, job, epoch, cursor>>
<1> USE DEF clock, alarm, control, table, locals, history, At
<1>1. CASE SchedulerInit
  <2>1. UNCHANGED isRunning
    BY <1>1 DEF SchedulerInit, TypeOK
  <2> QED BY <1>1, <2>1 DEF SchedulerInit
<1>2. CASE CallProcess \/ CallStop \/ CallExecute
  BY <1>2 DEF CallProcess, CallStop, CallExecute
<1>3. ASSUME NEW p \in Periods, SchedulerAddJob(p)
      PROVE  /\ pc["task"] = "idle" /\ IsrIdle /\ UNCHANGED pc
             /\ UNCHANGED <<clock, alarm, halLock, isRunning, elapsed, job, epoch, cursor>>
  BY <1>3 DEF SchedulerAddJob
<1> QED BY <1>1, <1>2, <1>3 DEF Client

-----------------------------------------------------------------------------
(* The cursor of SchedulerExecutePendingJobs *)

LEMMA CursorStep == TypeOK /\ CursorInTable /\ [Next]_vars => CursorInTable'
<1> SUFFICES ASSUME TypeOK, CursorInTable, [Next]_vars PROVE CursorInTable'
  OBVIOUS
<1> USE DEF CursorInTable, Goto, TypeOK
<1>1. CASE Tick
  BY <1>1 DEF Tick, control, table, locals
<1>2. CASE AlarmIRQHandler
  BY <1>2 DEF AlarmIRQHandler, control, table, locals
<1>3. ASSUME NEW c \in Contexts, SchedulerProcess(c) PROVE CursorInTable'
  BY <1>3, ProcessFrame DEF ProcessPcs, ArmingPcs, AfterProcess
<1>4. ASSUME NEW c \in Contexts, SchedulerExecutePendingJobs(c) PROVE CursorInTable'
  BY <1>4 DEF SchedulerExecutePendingJobs, ExecuteReturns, SkipJob, CallCallback, ClearPending,
     At, table, locals
<1>5. CASE SchedulerStop
  BY <1>5, StopFrame DEF StopPcs
<1>6. CASE Client
  <2>1. \A c \in Contexts : pc[c] # "clear"
    BY <1>6, ClientFrame DEF IsrIdle, Contexts
  <2> QED BY <1>6, <2>1, ClientFrame
<1>7. CASE UNCHANGED vars
  BY <1>7 DEF vars, table, locals
<1> QED BY <1>1, <1>2, <1>3, <1>4, <1>5, <1>6, <1>7 DEF Next, Running

LEMMA Typed == Spec => [](TypeOK /\ CursorInTable)
<1>1. Init => CursorInTable
  BY DEF Init, CursorInTable
<1> QED BY <1>1, TypeInit, TypeStep, CursorStep, PTL DEF Spec

\* Every variable keeps its type: in particular no table entry is written past
\* the end of the array, and no unsigned subtraction wraps below zero.
THEOREM TypeCorrect == Spec => []TypeOK
  BY Typed, PTL

-----------------------------------------------------------------------------
(* Who may be active together.  Nothing but the state of the alarm keeps the *)
(* interrupt handler out of the task's way.                                  *)

HoldPcs    == {"disable", "write", "unlock", "timedOut", "stopDisable", "stopUnlock"}
SilentPcs  == {"stopUnlock", "stopElapsed", "stopAge", "stopped"}
StartPcs   == {"process", "timedOut"} \union ArmingPcs
ArmedPcs   == {"unlock", "running"}

\* An alarm left over from before a reset is enabled, but EXTI does not pass it on.
AlarmOff == IsrIdle /\ ~(alrae /\ extiOn)

LockHeld      == halLock => \E c \in Contexts : pc[c] \in HoldPcs
SilentInStop  == pc["task"] \in SilentPcs => AlarmOff
SilentStopped == ~isRunning /\ pc["task"] \notin ArmedPcs => AlarmOff
StartsStopped == pc["task"] \in StartPcs => ~isRunning
StopsRunning  == pc["task"] \in StopPcs \ {"stop"} => isRunning
IsrAges       == pc["isr"] \in {"elapsed", "age"} => isRunning
Roles         == pc["task"] \notin {"elapsed", "age"} /\ pc["isr"] \notin StopPcs
TaskExecutes  == ~Deferred /\ pc["task"] \in ExecutePcs => ~isRunning

Exclusion ==
  /\ LockHeld /\ SilentInStop /\ SilentStopped /\ StartsStopped
  /\ StopsRunning /\ IsrAges /\ Roles /\ TaskExecutes

LEMMA ExclusionInit == Init => Exclusion
  BY DEF Init, Exclusion, LockHeld, SilentInStop, SilentStopped, StartsStopped, StopsRunning,
     IsrAges, Roles, TaskExecutes, AlarmOff, IsrIdle, SilentPcs, StartPcs, StopPcs, ArmingPcs,
     ExecutePcs, Contexts

LEMMA ExclusionProcess ==
  ASSUME TypeOK, Exclusion, NEW c \in Contexts, SchedulerProcess(c)
  PROVE  Exclusion'
<1> USE DEF Exclusion, LockHeld, SilentInStop, SilentStopped, StartsStopped, StopsRunning, IsrAges,
            Roles, TaskExecutes, AlarmOff, IsrIdle, HoldPcs, SilentPcs, StartPcs, ArmedPcs, StopPcs,
            ArmingPcs, ExecutePcs, Contexts, clock, alarm, control, At, Goto, TypeOK
<1>1. CASE ProcessEnter(c)
  BY <1>1 DEF ProcessEnter
<1>2. CASE ReadElapsed(c)
  BY <1>2 DEF ReadElapsed, AfterProcess
<1>3. CASE ProcessAge(c)
  BY <1>3 DEF ProcessAge
<1>4. CASE SearchNextJob(c)
  BY <1>4 DEF SearchNextJob, AfterProcess
<1>5. CASE ReadStart(c)
  BY <1>5 DEF ReadStart
<1>6. CASE CheckFuture(c)
  BY <1>6 DEF CheckFuture, NotArmed, AfterProcess
<1>7. CASE LockHal(c)
  BY <1>7 DEF LockHal, NotArmed, AfterProcess
<1>8. CASE DisableAlarm(c)
  BY <1>8 DEF DisableAlarm
<1>9. CASE WriteAlarm(c)
  BY <1>9 DEF WriteAlarm
<1>10. CASE GiveUp(c)
  BY <1>10 DEF GiveUp, NotArmed, AfterProcess
<1>11. CASE UnlockHal(c)
  BY <1>11 DEF UnlockHal
<1>12. CASE SetRunning(c)
  BY <1>12 DEF SetRunning, AfterProcess
<1> QED
  BY <1>1, <1>2, <1>3, <1>4, <1>5, <1>6, <1>7, <1>8, <1>9, <1>10, <1>11, <1>12
  DEF SchedulerProcess

LEMMA ExclusionStop ==
  ASSUME TypeOK, Exclusion, SchedulerStop
  PROVE  Exclusion'
<1> USE DEF Exclusion, LockHeld, SilentInStop, SilentStopped, StartsStopped, StopsRunning, IsrAges,
            Roles, TaskExecutes, AlarmOff, IsrIdle, HoldPcs, SilentPcs, StartPcs, ArmedPcs, StopPcs,
            ArmingPcs, ExecutePcs, Contexts, clock, alarm, control, At, Goto, TypeOK
<1>1. CASE StopEnter
  BY <1>1 DEF StopEnter
<1>2. CASE StopLock
  BY <1>2 DEF StopLock
<1>3. CASE StopDisable
  BY <1>3 DEF StopDisable
<1>4. CASE StopUnlock
  BY <1>4 DEF StopUnlock
<1>5. CASE StopReadElapsed
  BY <1>5 DEF StopReadElapsed
<1>6. CASE StopAge
  BY <1>6 DEF StopAge
<1>7. CASE Stopped
  BY <1>7 DEF Stopped
<1> QED BY <1>1, <1>2, <1>3, <1>4, <1>5, <1>6, <1>7 DEF SchedulerStop

LEMMA ExclusionStep == TypeOK /\ Exclusion /\ [Next]_vars => Exclusion'
<1> SUFFICES ASSUME TypeOK, Exclusion, [Next]_vars PROVE Exclusion'
  OBVIOUS
<1> USE DEF Exclusion, LockHeld, SilentInStop, SilentStopped, StartsStopped, StopsRunning, IsrAges,
            Roles, TaskExecutes, AlarmOff, IsrIdle, HoldPcs, SilentPcs, StartPcs, ArmedPcs, StopPcs,
            ArmingPcs, ExecutePcs, Contexts, clock, alarm, control, At, Goto, TypeOK
<1>1. CASE Tick
  BY <1>1 DEF Tick
<1>2. CASE AlarmIRQHandler
  BY <1>2 DEF AlarmIRQHandler
<1>3. ASSUME NEW c \in Contexts, SchedulerProcess(c) PROVE Exclusion'
  BY <1>3, ExclusionProcess
<1>4. ASSUME NEW c \in Contexts, SchedulerExecutePendingJobs(c) PROVE Exclusion'
  BY <1>4, ExecuteFrame
<1>5. CASE SchedulerStop
  BY <1>5, ExclusionStop
<1>6. CASE CallExecute
  BY <1>6 DEF CallExecute
<1>7. CASE CallProcess \/ CallStop
  BY <1>7 DEF CallProcess, CallStop
<1>8. CASE SchedulerInit
  BY <1>8 DEF SchedulerInit
<1>9. ASSUME NEW p \in Periods, SchedulerAddJob(p) PROVE Exclusion'
  BY <1>9 DEF SchedulerAddJob
<1>10. CASE UNCHANGED vars
  BY <1>10 DEF vars
<1> QED BY <1>1, <1>2, <1>3, <1>4, <1>5, <1>6, <1>7, <1>8, <1>9, <1>10 DEF Next, Running, Client

LEMMA Excluded == Spec => []Exclusion
  BY Typed, ExclusionInit, ExclusionStep, PTL DEF Spec

\* A stopped scheduler is not disturbed: SchedulerStop leaves no alarm interrupt
\* behind, enabled, pending or under way.
THEOREM StopSilences == Spec => []StoppedIsSilent
<1>1. Exclusion => StoppedIsSilent
  BY DEF Exclusion, SilentStopped, AlarmOff, StoppedIsSilent, ArmedPcs, ProcessPcs
<1> QED BY <1>1, Excluded, PTL

\* The job table has one user at a time, although no lock protects it.
THEOREM TableIsExclusive == Spec => []TableExclusive
<1>1. Exclusion => TableExclusive
  BY DEF Exclusion, SilentInStop, SilentStopped, StartsStopped, Roles, AlarmOff, TableExclusive,
     SilentPcs, StartPcs, ArmedPcs, ArmingPcs
<1> QED BY <1>1, Excluded, PTL

-----------------------------------------------------------------------------
(* How much of its period a job has been credited with, against the seconds *)
(* that have really passed since it was marked.                             *)

Credit(i) == period[i] - remainingTime[i]

\* The isr has aged the table and not yet moved startTime.
IsrHasAged == isRunning /\ pc["isr"] \in {"search", "start"}
\* The task has moved startTime and is about to set isRunning.
TaskHasStarted == pc["task"] \in {"check", "lock", "disable", "write", "unlock", "running"}

StartInPast == startTime <= now
CreditByNow == \A i \in Configured : Credit(i) <= now - lastMark[i]
CreditByStart ==
  (isRunning \/ TaskHasStarted) /\ ~IsrHasAged /\ pc["task"] # "stopped" =>
    \A i \in Configured : Credit(i) <= startTime - lastMark[i]
ElapsedBound ==
  /\ pc["isr"] = "age" => elapsed["isr"] <= now - startTime
  /\ pc["task"] = "stopAge" => elapsed["task"] <= now - startTime

Timing == StartInPast /\ JobsInRange /\ CreditByNow /\ CreditByStart /\ ElapsedBound

LEMMA TimingInit == Init => Timing
<1> SUFFICES ASSUME Init PROVE Timing
  OBVIOUS
<1>1. Configured = {}
  BY DEF Init, Configured, Indices
<1>2. StartInPast /\ ElapsedBound
  BY DEF Init, StartInPast, ElapsedBound, Contexts
<1> QED BY <1>1, <1>2 DEF Timing, JobsInRange, CreditByNow, CreditByStart

LEMMA TimingTick ==
  ASSUME TypeOK, Timing, Tick
  PROVE  Timing'
  BY DEF Timing, StartInPast, JobsInRange, CreditByNow, CreditByStart, ElapsedBound, Credit,
     IsrHasAged, TaskHasStarted, Configured, Contexts, TypeOK, Tick, control, table, locals, history

LEMMA TimingProcess ==
  ASSUME TypeOK, Exclusion, Timing, NEW c \in Contexts, SchedulerProcess(c)
  PROVE  Timing'
<1> USE DEF Timing, StartInPast, JobsInRange, CreditByNow, CreditByStart, ElapsedBound, Credit,
            IsrHasAged, TaskHasStarted, Configured, Contexts, TypeOK,
            clock, control, table, locals, history, At, Goto
<1>0. /\ c = "task" => pc["task"] \notin {"elapsed", "age"} /\ pc["isr"] = "idle"
      /\ pc["task"] \in StartPcs => ~isRunning
      /\ pc["isr"] \in {"elapsed", "age"} => isRunning
      /\ ~isRunning /\ pc["isr"] # "idle" => pc["task"] \in ArmedPcs
  BY ProcessFrame DEF Exclusion, Roles, StartsStopped, IsrAges, SilentStopped, AlarmOff, IsrIdle
<1>00. pc["isr"] # "idle" => pc["task"] \notin SilentPcs
  BY DEF Exclusion, SilentInStop, AlarmOff, IsrIdle
<1>1. CASE ProcessEnter(c)
  BY <1>0, <1>1 DEF ProcessEnter, StartPcs
<1>2. CASE ReadElapsed(c)
  BY <1>0, <1>2 DEF ReadElapsed, ElapsedTime, AfterProcess
<1>3. CASE ProcessAge(c)
  BY <1>0, <1>00, <1>3 DEF ProcessAge, ProcessRemainingTime, Due, SilentPcs
<1>4. CASE SearchNextJob(c)
  <2>1. UNCHANGED <<now, startTime, isRunning, numOfJobs, period, remainingTime, lastMark, elapsed>>
    BY <1>4 DEF SearchNextJob
  <2>2. StartInPast' /\ JobsInRange' /\ CreditByNow'
    BY <2>1
  <2>3. PICK i \in Configured \union {0} :
          IF remainingTime[i] > 0
          THEN job' = [job EXCEPT ![c] = i] /\ Goto(c, "start")
          ELSE UNCHANGED job /\ Goto(c, AfterProcess(c))
    BY <1>4 DEF SearchNextJob
  <2>4. ElapsedBound'
    BY <2>1, <2>3 DEF AfterProcess
  <2>5. CASE remainingTime[i] > 0
    BY <1>0, <1>4, <2>1, <2>2, <2>3, <2>4, <2>5 DEF SearchNextJob
  <2>6. CASE ~(remainingTime[i] > 0)
    <3>1. 0 \notin Configured
      BY <2>6
    <3>2. Configured = {}
      BY <3>1 DEF Indices
    <3> QED BY <2>1, <2>2, <2>4, <3>2
  <2> QED BY <2>5, <2>6
<1>5. CASE ReadStart(c)
  <2>1. startTime' = now /\ now' = now
    BY <1>5 DEF ReadStart
  <2>2. UNCHANGED <<numOfJobs, period, remainingTime, lastMark>>
    BY <1>5 DEF ReadStart
  <2>3. pc'["isr"] # "age" /\ pc'["task"] # "stopAge"
    BY <1>0, <1>00, <1>5 DEF ReadStart, StopPcs, SilentPcs
  <2>4. StartInPast' /\ JobsInRange' /\ ElapsedBound'
    BY <2>1, <2>2, <2>3
  <2>5. CreditByNow'
    BY <2>1, <2>2
  <2>6. CreditByStart'
    BY <2>1, <2>2
  <2> QED BY <2>4, <2>5, <2>6
<1>6. CASE CheckFuture(c)
  BY <1>0, <1>6 DEF CheckFuture, NotArmed, AfterProcess
<1>7. CASE LockHal(c)
  BY <1>0, <1>7 DEF LockHal, NotArmed, AfterProcess
<1>8. CASE DisableAlarm(c)
  BY <1>0, <1>8 DEF DisableAlarm
<1>9. CASE WriteAlarm(c)
  BY <1>0, <1>9 DEF WriteAlarm
<1>10. CASE GiveUp(c)
  BY <1>0, <1>10 DEF GiveUp, NotArmed, AfterProcess
<1>11. CASE UnlockHal(c)
  BY <1>0, <1>11 DEF UnlockHal
<1>12. CASE SetRunning(c)
  BY <1>0, <1>12 DEF SetRunning, AfterProcess, ArmedPcs
<1> QED
  BY <1>1, <1>2, <1>3, <1>4, <1>5, <1>6, <1>7, <1>8, <1>9, <1>10, <1>11, <1>12
  DEF SchedulerProcess

LEMMA TimingStop ==
  ASSUME TypeOK, Exclusion, Timing, SchedulerStop
  PROVE  Timing'
<1> USE DEF Timing, StartInPast, JobsInRange, CreditByNow, CreditByStart, ElapsedBound, Credit,
            IsrHasAged, TaskHasStarted, Configured, Contexts, TypeOK,
            clock, control, table, locals, history, At, Goto
<1>0. pc["isr"] = "idle" /\ (pc["task"] \in StopPcs \ {"stop"} => isRunning)
  BY StopFrame DEF Exclusion, StopsRunning, IsrIdle
<1>1. CASE StopEnter
  BY <1>0, <1>1 DEF StopEnter
<1>2. CASE StopLock
  BY <1>0, <1>2 DEF StopLock
<1>3. CASE StopDisable
  BY <1>0, <1>3 DEF StopDisable
<1>4. CASE StopUnlock
  BY <1>0, <1>4 DEF StopUnlock
<1>5. CASE StopReadElapsed
  BY <1>0, <1>5 DEF StopReadElapsed, ElapsedTime, StopPcs
<1>6. CASE StopAge
  BY <1>0, <1>6 DEF StopAge, ProcessRemainingTime, Due, StopPcs
<1>7. CASE Stopped
  BY <1>0, <1>7 DEF Stopped
<1> QED BY <1>1, <1>2, <1>3, <1>4, <1>5, <1>6, <1>7 DEF SchedulerStop

LEMMA TimingClient ==
  ASSUME TypeOK, Timing, Client
  PROVE  Timing'
<1> USE DEF Timing, StartInPast, JobsInRange, CreditByNow, CreditByStart, ElapsedBound, Credit,
            IsrHasAged, TaskHasStarted, Configured, Contexts, TypeOK,
            clock, control, table, locals, history, At, Goto
<1>0. pc["task"] = "idle" /\ pc["isr"] = "idle"
  BY ClientFrame DEF IsrIdle
<1>1. CASE CallProcess \/ CallStop \/ CallExecute
  BY <1>0, <1>1 DEF CallProcess, CallStop, CallExecute
<1>2. CASE SchedulerInit
  <2>1. Configured' = {}
    BY <1>2 DEF SchedulerInit, Indices
  <2> QED BY <1>0, <1>2, <2>1 DEF SchedulerInit
<1>3. ASSUME NEW p \in Periods, SchedulerAddJob(p) PROVE Timing'
  <2>1. UNCHANGED <<now, startTime, isRunning, pc, elapsed>>
    BY <1>3 DEF SchedulerAddJob
  <2>2. CASE Accepts
    <3>1. p \in 1 .. (W - 1)
      OBVIOUS
    <3>2. \A i \in Configured' : i \in Configured \/ i = numOfJobs
      BY <1>3, <2>2 DEF SchedulerAddJob, Indices
    <3>3. ASSUME NEW i \in Configured
          PROVE  period'[i] = period[i] /\ remainingTime'[i] = remainingTime[i] /\ lastMark'[i] = lastMark[i]
      <4>1. i \in Indices /\ i # numOfJobs
        OBVIOUS
      <4> QED BY <1>3, <2>2, <4>1 DEF SchedulerAddJob
    <3>4. numOfJobs \in Indices
      BY <2>2 DEF Accepts, Indices
    <3>5. period'[numOfJobs] = p /\ remainingTime'[numOfJobs] = p /\ lastMark'[numOfJobs] = now
      BY <1>3, <2>2, <3>4 DEF SchedulerAddJob
    <3>6. JobsInRange'
      BY <3>1, <3>2, <3>3, <3>5
    <3>7. CreditByNow'
      BY <2>1, <3>1, <3>2, <3>3, <3>5
    <3>8. StartInPast' /\ ElapsedBound' /\ CreditByStart'
      BY <1>0, <2>1, <2>2 DEF Accepts
    <3> QED BY <3>6, <3>7, <3>8
  <2>3. CASE ~Accepts
    BY <1>3, <2>1, <2>3 DEF SchedulerAddJob
  <2> QED BY <2>2, <2>3
<1> QED BY <1>1, <1>2, <1>3 DEF Client

LEMMA TimingStep == TypeOK /\ Exclusion /\ Timing /\ [Next]_vars => Timing'
<1> SUFFICES ASSUME TypeOK, Exclusion, Timing, [Next]_vars PROVE Timing'
  OBVIOUS
<1> USE DEF Timing, StartInPast, JobsInRange, CreditByNow, CreditByStart, ElapsedBound, Credit,
            IsrHasAged, TaskHasStarted, Configured, Contexts, TypeOK,
            clock, control, table, locals, history, At, Goto
<1>1. CASE Tick
  BY <1>1, TimingTick
<1>2. CASE AlarmIRQHandler
  BY <1>2 DEF AlarmIRQHandler
<1>3. ASSUME NEW c \in Contexts, SchedulerProcess(c) PROVE Timing'
  BY <1>3, TimingProcess
<1>4. ASSUME NEW c \in Contexts, SchedulerExecutePendingJobs(c) PROVE Timing'
  BY <1>4, ExecuteFrame DEF ExecutePcs
<1>5. CASE SchedulerStop
  BY <1>5, TimingStop
<1>6. CASE Client
  BY <1>6, TimingClient
<1>7. CASE UNCHANGED vars
  BY <1>7 DEF vars
<1> QED BY <1>1, <1>2, <1>3, <1>4, <1>5, <1>6, <1>7 DEF Next, Running

LEMMA Timed == Spec => []Timing
  BY Typed, Excluded, TimingInit, TimingStep, PTL DEF Spec

\* What remains of a job stays between one second and its period.
THEOREM RemainingInRange == Spec => []JobsInRange
  BY Timed, PTL DEF Timing

\* No job is marked before a whole period has passed since it was last marked or
\* added: not by a late or an early alarm, not by stops and restarts, not by an
\* interrupt in the middle of either, and not after the alarm failed to be set.
THEOREM NoJobIsEarly == Spec => []NeverEarly
<1>1. TypeOK /\ Exclusion /\ Timing => NeverEarly
  <2> SUFFICES ASSUME TypeOK, Exclusion, Timing,
                      NEW c \in Contexts, pc[c] \in {"age", "stopAge"},
                      NEW i \in Due(c)
               PROVE  now - lastMark[i] >= period[i]
    BY DEF NeverEarly
  <2>1. i \in Configured /\ i \in Indices /\ elapsed[c] >= remainingTime[i]
    BY DEF Due, Configured
  <2>2. elapsed[c] <= now - startTime
    BY DEF Timing, ElapsedBound, Contexts, Exclusion, Roles, StopPcs
  <2>3. isRunning /\ ~IsrHasAged /\ pc["task"] # "stopped"
    BY DEF Contexts, Exclusion, Roles, StopsRunning, IsrAges, SilentInStop, AlarmOff, IsrIdle,
       StopPcs, SilentPcs, IsrHasAged
  <2>4. Credit(i) <= startTime - lastMark[i]
    BY <2>1, <2>3 DEF Timing, CreditByStart
  <2> QED BY <2>1, <2>2, <2>4 DEF Credit, TypeOK
<1> QED BY <1>1, Typed, Excluded, Timed, PTL

-----------------------------------------------------------------------------
(* Markings and callbacks *)

LEMMA NoSpuriousStep == TypeOK /\ NoSpuriousRun /\ [Next]_vars => NoSpuriousRun'
<1> SUFFICES ASSUME TypeOK, NoSpuriousRun, [Next]_vars PROVE NoSpuriousRun'
  OBVIOUS
<1> USE DEF NoSpuriousRun, Configured, Contexts, TypeOK, At, Goto
<1>1. CASE Tick
  BY <1>1 DEF Tick, table, locals, history
<1>2. CASE AlarmIRQHandler
  BY <1>2 DEF AlarmIRQHandler, table, locals, history
<1>3. ASSUME NEW c \in Contexts, SchedulerProcess(c) PROVE NoSpuriousRun'
  <2>1. CASE ProcessAge(c)
    BY <2>1 DEF ProcessAge, ProcessRemainingTime
  <2>2. CASE ~ProcessAge(c)
    <3>1. UNCHANGED <<isPending, owed>>
      BY <1>3, <2>2 DEF SchedulerProcess, ProcessEnter, ReadElapsed, SearchNextJob, ReadStart,
         CheckFuture, LockHal, DisableAlarm, WriteAlarm, GiveUp, UnlockHal, SetRunning, table, history
    <3>2. \A d \in Contexts : pc[d] = "clear" => pc'[d] = "clear"
      BY <1>3, ProcessFrame DEF ProcessPcs, ArmingPcs
    <3> QED BY <1>3, <3>1, <3>2, ProcessFrame
  <2> QED BY <2>1, <2>2
<1>4. ASSUME NEW c \in Contexts, SchedulerExecutePendingJobs(c) PROVE NoSpuriousRun'
  <2>1. CASE ExecuteReturns(c) \/ SkipJob(c)
    BY <2>1 DEF ExecuteReturns, SkipJob, table, history
  <2>2. CASE CallCallback(c)
    BY <2>2 DEF CallCallback, table, locals
  <2>3. CASE ClearPending(c)
    BY <2>3 DEF ClearPending, Cleared, history
  <2> QED BY <1>4, <2>1, <2>2, <2>3 DEF SchedulerExecutePendingJobs
<1>5. CASE SchedulerStop
  <2>1. CASE StopAge
    BY <2>1 DEF StopAge, ProcessRemainingTime
  <2>2. CASE ~StopAge
    <3>1. UNCHANGED <<isPending, owed>>
      BY <1>5, <2>2 DEF SchedulerStop, StopEnter, StopLock, StopDisable, StopUnlock,
         StopReadElapsed, Stopped, table, history
    <3>2. \A d \in Contexts : pc[d] = "clear" => pc'[d] = "clear"
      BY <1>5, StopFrame DEF StopPcs
    <3> QED BY <1>5, <3>1, <3>2, StopFrame
  <2> QED BY <2>1, <2>2
<1>6. CASE Client
  <2>1. \A d \in Contexts : pc[d] # "clear"
    BY <1>6, ClientFrame DEF IsrIdle
  <2>2. CASE SchedulerInit
    BY <2>2 DEF SchedulerInit, Indices
  <2>3. CASE CallProcess \/ CallStop \/ CallExecute
    BY <2>1, <2>3 DEF CallProcess, CallStop, CallExecute, table, history
  <2>4. ASSUME NEW p \in Periods, SchedulerAddJob(p) PROVE NoSpuriousRun'
    <3>1. CASE Accepts
      <4>0. numOfJobs \in Indices /\ numOfJobs' = numOfJobs + 1
        BY <2>4, <3>1 DEF SchedulerAddJob, Accepts, Indices
      <4>1. ASSUME NEW i \in Configured', isPending'[i] PROVE i \in Configured
        <5>1. i # numOfJobs
          BY <2>4, <3>1, <4>0, <4>1 DEF SchedulerAddJob
        <5> QED BY <4>0, <5>1 DEF Indices
      <4>2. \A i \in Configured : isPending'[i] = isPending[i] /\ owed'[i] = owed[i]
        <5> TAKE i \in Configured
        <5>1. i \in Indices /\ i # numOfJobs
          OBVIOUS
        <5> QED BY <2>4, <3>1, <5>1 DEF SchedulerAddJob
      <4> QED BY <2>1, <4>1, <4>2
    <3>2. CASE ~Accepts
      BY <2>1, <2>4, <3>2 DEF SchedulerAddJob, history
    <3> QED BY <3>1, <3>2
  <2> QED BY <1>6, <2>2, <2>3, <2>4 DEF Client
<1>7. CASE UNCHANGED vars
  BY <1>7 DEF vars, table, locals, history
<1> QED BY <1>1, <1>2, <1>3, <1>4, <1>5, <1>6, <1>7 DEF Next, Running

\* No callback is called twice for one marking, also when a task executes the
\* jobs while the interrupt handler marks them.
THEOREM NoJobRunsTwice == Spec => []NoSpuriousRun
<1>1. Init => NoSpuriousRun
  BY DEF Init, NoSpuriousRun, Configured
<1> QED BY <1>1, Typed, NoSpuriousStep, PTL DEF Spec

\* At the reset of a flag nothing has been marked since the callback was called.
ClearsOnlyCalled == \A c \in Contexts : pc[c] = "clear" => ~owed[cursor[c]]

LEMMA CursorIndex ==
  ASSUME TypeOK, NEW c \in Contexts, cursor[c] < numOfJobs
  PROVE  cursor[c] \in Indices
  BY DEF TypeOK, Indices

Kept == NoLostJob /\ ClearsOnlyCalled

LEMMA KeptStep ==
  ASSUME Deferred = FALSE
  PROVE  TypeOK /\ CursorInTable /\ Exclusion /\ Kept /\ [Next]_vars => Kept'
<1> SUFFICES ASSUME TypeOK, CursorInTable, Exclusion, Kept, [Next]_vars PROVE Kept'
  OBVIOUS
<1> USE DEF Kept, NoLostJob, ClearsOnlyCalled, Configured, Contexts, TypeOK, At, Goto
<1>0. pc["isr"] # "idle" => pc["task"] # "clear"
  BY DEF Exclusion, TaskExecutes, SilentStopped, AlarmOff, IsrIdle, ExecutePcs, ArmedPcs
<1>1. CASE Tick
  BY <1>1 DEF Tick, table, locals, history
<1>2. CASE AlarmIRQHandler
  BY <1>2 DEF AlarmIRQHandler, table, locals, history
<1>3. ASSUME NEW c \in Contexts, SchedulerProcess(c) PROVE Kept'
  <2>0. \A d \in Contexts : pc[d] # "clear" /\ pc'[d] # "clear"
    BY <1>0, <1>3, ProcessFrame DEF ProcessPcs, ArmingPcs, AfterProcess, IsrIdle
  <2>1. CASE ProcessAge(c)
    BY <2>0, <2>1 DEF ProcessAge, ProcessRemainingTime
  <2>2. CASE ~ProcessAge(c)
    <3>1. UNCHANGED <<isPending, owed>>
      BY <1>3, <2>2 DEF SchedulerProcess, ProcessEnter, ReadElapsed, SearchNextJob, ReadStart,
         CheckFuture, LockHal, DisableAlarm, WriteAlarm, GiveUp, UnlockHal, SetRunning, table, history
    <3> QED BY <1>3, <2>0, <3>1, ProcessFrame
  <2> QED BY <2>1, <2>2
<1>4. ASSUME NEW c \in Contexts, SchedulerExecutePendingJobs(c) PROVE Kept'
  <2>0. \A d \in Contexts \ {c} : pc[d] # "clear" /\ pc'[d] # "clear"
    BY <1>0, <1>4, ExecuteFrame DEF ExecutePcs, IsrIdle
  <2>1. CASE ExecuteReturns(c) \/ SkipJob(c)
    BY <2>0, <2>1 DEF ExecuteReturns, SkipJob, table, history
  <2>2. CASE CallCallback(c)
    <3>1. cursor[c] \in Indices
      BY <2>2, CursorIndex DEF CallCallback
    <3>2. owed' = [owed EXCEPT ![cursor[c]] = FALSE] /\ UNCHANGED <<isPending, numOfJobs, cursor>>
      BY <2>2 DEF CallCallback, table, locals
    <3>3. NoLostJob'
      BY <3>2
    <3> QED BY <2>0, <3>1, <3>2, <3>3
  <2>3. CASE ClearPending(c)
    <3>1. pc[c] = "clear" /\ cursor[c] \in Indices
      BY <2>3, CursorIndex DEF ClearPending, CursorInTable
    <3>2. isPending' = [isPending EXCEPT ![cursor[c]] = FALSE] /\ UNCHANGED <<owed, numOfJobs>>
      BY <2>3 DEF ClearPending, Cleared, history
    <3>3. pc'[c] # "clear"
      BY <2>3 DEF ClearPending
    <3> QED BY <2>0, <3>1, <3>2, <3>3
  <2> QED BY <1>4, <2>1, <2>2, <2>3 DEF SchedulerExecutePendingJobs
<1>5. CASE SchedulerStop
  <2>0. \A d \in Contexts : pc[d] # "clear" /\ pc'[d] # "clear"
    BY <1>5, StopFrame DEF StopPcs, IsrIdle
  <2>1. CASE StopAge
    BY <2>0, <2>1 DEF StopAge, ProcessRemainingTime
  <2>2. CASE ~StopAge
    <3>1. UNCHANGED <<isPending, owed>>
      BY <1>5, <2>2 DEF SchedulerStop, StopEnter, StopLock, StopDisable, StopUnlock,
         StopReadElapsed, Stopped, table, history
    <3> QED BY <1>5, <2>0, <3>1, StopFrame
  <2> QED BY <2>1, <2>2
<1>6. CASE Client
  <2>0. \A d \in Contexts : pc[d] # "clear" /\ pc'[d] # "clear"
    BY <1>6, ClientFrame DEF IsrIdle
  <2>1. CASE SchedulerInit
    BY <2>0, <2>1 DEF SchedulerInit, Indices, history
  <2>2. CASE CallProcess \/ CallStop \/ CallExecute
    BY <2>0, <2>2 DEF CallProcess, CallStop, CallExecute, table, history
  <2>3. ASSUME NEW p \in Periods, SchedulerAddJob(p) PROVE Kept'
    <3>1. CASE Accepts
      <4>0. numOfJobs \in Indices /\ numOfJobs' = numOfJobs + 1
        BY <2>3, <3>1 DEF SchedulerAddJob, Accepts, Indices
      <4>1. ASSUME NEW i \in Configured', owed'[i] PROVE i \in Configured
        <5>1. i # numOfJobs
          BY <2>3, <3>1, <4>0, <4>1 DEF SchedulerAddJob
        <5> QED BY <4>0, <5>1 DEF Indices
      <4>2. \A i \in Configured : isPending'[i] = isPending[i] /\ owed'[i] = owed[i]
        <5> TAKE i \in Configured
        <5>1. i \in Indices /\ i # numOfJobs
          OBVIOUS
        <5> QED BY <2>3, <3>1, <5>1 DEF SchedulerAddJob
      <4> QED BY <2>0, <4>1, <4>2
    <3>2. CASE ~Accepts
      BY <2>0, <2>3, <3>2 DEF SchedulerAddJob, history
    <3> QED BY <3>1, <3>2
  <2> QED BY <1>6, <2>1, <2>2, <2>3 DEF Client
<1>7. CASE UNCHANGED vars
  BY <1>7 DEF vars, table, locals, history
<1> QED BY <1>1, <1>2, <1>3, <1>4, <1>5, <1>6, <1>7 DEF Next, Running

\* Wired as the repository wires it, with the interrupt handler executing the
\* jobs, the scheduler loses no marking.
THEOREM NoJobIsLost ==
  ASSUME Deferred = FALSE
  PROVE  Spec => []NoLostJob
<1>1. Init => Kept
  BY DEF Init, Kept, NoLostJob, ClearsOnlyCalled, Configured
<1>2. TypeOK /\ CursorInTable /\ Exclusion /\ Kept /\ [Next]_vars => Kept'
  BY KeptStep
<1>3. Kept => NoLostJob
  BY DEF Kept
<1> QED BY <1>1, <1>2, <1>3, Typed, Excluded, PTL DEF Spec
=============================================================================
