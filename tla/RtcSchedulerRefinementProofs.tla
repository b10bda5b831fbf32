-------------------- MODULE RtcSchedulerRefinementProofs --------------------
(***************************************************************************)
(* The safety part of ImplementsCountdown: every step of the scheduler is  *)
(* a step of Countdown or leaves the countdowns as they are, for every     *)
(* number of jobs and every set of periods.  As in sched_prompt, no second *)
(* passes inside a call, the interrupt handler executes the jobs, the HAL  *)
(* does not time out and no due time overflows.                            *)
(***************************************************************************)
EXTENDS RtcSchedulerRefinement, RtcSchedulerArmingProofs

USE MaxJobsAssumption, PeriodsAssumption, ClockAssumption, FlagsAssumption

-----------------------------------------------------------------------------
(* What holds because no second passes inside a call *)

CallPcs == ProcessPcs \union StopPcs

\* The handler has aged the table, and has not executed the jobs yet.
MarkedPcs == ArmingPcs \union {"unlock", "timedOut", "running"}

\* No alarm matches inside a call: neither a task's nor the handler's.
NoPreemption ==
  /\ pc["task"] \in CallPcs => IsrIdle
  /\ pc["isr"] # "idle" => ~exti

\* The elapsed time is still what it was when it was read.
ElapsedIsExact ==
  /\ pc["isr"] = "age" => elapsed["isr"] = now - startTime
  /\ pc["task"] = "stopAge" => elapsed["task"] = now - startTime

\* A scheduler is stopped before any of its jobs is due.
StopIsAhead == numOfJobs > 0 /\ pc["task"] \in StopsPcs \ {"stopped"} => Ahead

\* The handler leaves no job behind: what it has marked it executes.
OwedInHandler ==
  /\ pc["isr"] \notin ExecutePcs => cursor["isr"] = 0
  /\ \A i \in Configured : owed[i] =>
       \/ pc["isr"] \in MarkedPcs
       \/ pc["isr"] = "execute" /\ cursor["isr"] <= i
       \/ pc["isr"] = "clear" /\ cursor["isr"] < i

Prompt == NoPreemption /\ ElapsedIsExact /\ StopIsAhead /\ OwedInHandler

LEMMA PromptInit == Init => Prompt
  BY DEF Init, Prompt, NoPreemption, ElapsedIsExact, StopIsAhead, OwedInHandler, CallPcs, ProcessPcs,
     StopPcs, StopsPcs, SilentPcs, ArmingPcs, MarkedPcs, ExecutePcs, Contexts, Indices, IsrIdle, Configured

\* The clock stands still while a call is under way.
LEMMA CallsAreInstant ==
  ASSUME MaxStall = 0, TypeOK, Tick
  PROVE  /\ IsrIdle /\ pc["task"] \notin CallPcs
         /\ now' = now + 1
         /\ UNCHANGED <<pc, isRunning, startTime, table, owed, cursor, elapsed>>
  BY DEF Tick, Busy, TypeOK, CallPcs, control, history, locals

LEMMA NoPreemptionStep ==
  ASSUME MaxStall = 0, TypeOK, NoPreemption, [Next]_vars
  PROVE  NoPreemption'
<1> USE DEF NoPreemption, IsrIdle
<1>1. CASE Tick
  BY <1>1, CallsAreInstant
<1>2. CASE AlarmIRQHandler
  BY <1>2 DEF AlarmIRQHandler, Goto, TypeOK, Contexts
<1>3. ASSUME NEW c \in Contexts, SchedulerProcess(c) PROVE NoPreemption'
  <2>1. UNCHANGED exti
    BY <1>3 DEF SchedulerProcess, ProcessEnter, ReadElapsed, ProcessAge, SearchNextJob, ReadStart,
       CheckFuture, LockHal, DisableAlarm, WriteAlarm, GiveUp, UnlockHal, SetRunning, alarm
  <2> QED BY <1>3, <2>1, ProcessFrame DEF Goto, TypeOK, Contexts, ProcessPcs, ArmingPcs
<1>4. ASSUME NEW c \in Contexts, SchedulerExecutePendingJobs(c) PROVE NoPreemption'
  BY <1>4, ExecuteFrame DEF Goto, TypeOK, Contexts, ExecutePcs, CallPcs, ProcessPcs, ArmingPcs,
     StopPcs, alarm
<1>5. CASE SchedulerStop
  <2>1. UNCHANGED exti
    BY <1>5 DEF SchedulerStop, StopEnter, StopLock, StopDisable, StopUnlock, StopReadElapsed,
       StopAge, Stopped, alarm
  <2> QED BY <1>5, <2>1, StopFrame DEF Goto, TypeOK, Contexts
<1>6. CASE Client
  BY <1>6, ClientFrame DEF Goto, TypeOK, Contexts, alarm
<1>7. CASE UNCHANGED vars
  BY <1>7 DEF vars, alarm
<1> QED BY <1>1, <1>2, <1>3, <1>4, <1>5, <1>6, <1>7 DEF Next, Running

LEMMA ElapsedIsExactStep ==
  ASSUME MaxStall = 0, TypeOK, Exclusion, Timing, NoPreemption, ElapsedIsExact, [Next]_vars
  PROVE  ElapsedIsExact'
<1> USE DEF ElapsedIsExact, Goto, TypeOK, Contexts
<1>0. now - startTime \in 0 .. (W - 1) /\ ElapsedTime = now - startTime
  <2>1. now - startTime \in Int /\ now - startTime \in 0 .. (W - 1)
    BY DEF Timing, StartInPast
  <2> QED BY <2>1, Remainder DEF ElapsedTime
<1>1. CASE Tick
  BY <1>1, CallsAreInstant DEF IsrIdle, CallPcs, StopPcs
<1>2. CASE AlarmIRQHandler
  BY <1>2 DEF AlarmIRQHandler, clock, control, locals
<1>3. ASSUME NEW c \in Contexts, SchedulerProcess(c) PROVE ElapsedIsExact'
  <2>1. CASE ReadElapsed(c)
    BY <1>0, <2>1 DEF ReadElapsed, AfterProcess, At, clock, control, Exclusion, Roles, NoPreemption,
       CallPcs, StopPcs, IsrIdle
  <2>2. CASE ~ReadElapsed(c)
    <3>1. pc'["isr"] # "age" /\ pc'["task"] # "stopAge"
      <4>1. pc["isr"] = "age" => c = "isr" /\ ProcessAge(c)
        BY <1>3, <2>2, ProcessFrame DEF SchedulerProcess, ProcessEnter, SearchNextJob, ReadStart, CheckFuture,
           LockHal, DisableAlarm, WriteAlarm, GiveUp, UnlockHal, SetRunning, At, IsrIdle
      <4>2. pc["task"] = "stopAge" => c = "task"
        BY <1>3, ProcessFrame DEF NoPreemption, CallPcs, StopPcs, IsrIdle, ProcessPcs, ArmingPcs
      <4> QED BY <1>3, <2>2, <4>1, <4>2, ProcessFrame
              DEF SchedulerProcess, ProcessEnter, ProcessAge, SearchNextJob, ReadStart, CheckFuture,
              LockHal, DisableAlarm, WriteAlarm, GiveUp, UnlockHal, SetRunning, At, NotArmed,
              AfterProcess, ProcessPcs, ArmingPcs
    <3> QED BY <3>1
  <2> QED BY <2>1, <2>2
<1>4. ASSUME NEW c \in Contexts, SchedulerExecutePendingJobs(c) PROVE ElapsedIsExact'
  BY <1>4, ExecuteFrame DEF ExecutePcs, clock, control
<1>5. CASE SchedulerStop
  <2>1. pc["isr"] = "idle" /\ pc'["isr"] = "idle"
    BY <1>5, StopFrame DEF IsrIdle
  <2>2. CASE StopReadElapsed
    BY <1>0, <2>1, <2>2 DEF StopReadElapsed, clock, control
  <2>3. CASE ~StopReadElapsed
    BY <1>5, <2>1, <2>3 DEF SchedulerStop, StopEnter, StopLock, StopDisable, StopUnlock, StopAge, Stopped
  <2> QED BY <2>2, <2>3
<1>6. CASE Client
  BY <1>6, ClientFrame DEF IsrIdle
<1>7. CASE UNCHANGED vars
  BY <1>7 DEF vars, clock, control, locals
<1> QED BY <1>1, <1>2, <1>3, <1>4, <1>5, <1>6, <1>7 DEF Next, Running

\* Between calls, and while the handler is past the table, no job is due.
LEMMA NothingDue ==
  ASSUME MaxStall = 0, Arming, NoPreemption, StopIsAhead, isRunning, numOfJobs > 0,
         pc["task"] # "stopped",
         IsrIdle \/ pc["isr"] \in {"unlock", "timedOut", "running", "execute", "clear"}
  PROVE  Ahead
<1>1. CASE pc["task"] \in StopsPcs
  BY <1>1 DEF StopIsAhead
<1>2. CASE pc["task"] \notin StopsPcs
  <2>1. ~Handles /\ pc["isr"] # "write"
    BY DEF Handles, BeforeWrite, NoPreemption, IsrIdle
  <2> QED BY <1>2, <2>1 DEF Arming, StaysArmed, Roomy
<1> QED BY <1>1, <1>2

LEMMA StopIsAheadStep ==
  ASSUME MaxStall = 0, TypeOK, Exclusion, Arming, NoPreemption, StopIsAhead, [Next]_vars
  PROVE  StopIsAhead'
<1> USE DEF StopIsAhead, Goto, TypeOK, Contexts, StopsPcs, SilentPcs
<1>0. pc["task"] \in CallPcs => pc["isr"] = "idle"
  BY DEF NoPreemption, IsrIdle
<1>1. CASE Tick
  BY <1>1, CallsAreInstant DEF CallPcs, StopPcs
<1>2. CASE AlarmIRQHandler
  BY <1>0, <1>2 DEF AlarmIRQHandler, NoPreemption, IsrIdle, CallPcs, StopPcs
<1>3. ASSUME NEW c \in Contexts, SchedulerProcess(c) PROVE StopIsAhead'
  <2>1. pc'["task"] \notin StopsPcs
    BY <1>0, <1>3, ProcessFrame DEF ProcessPcs, ArmingPcs, AfterProcess, CallPcs, StopPcs
  <2> QED BY <2>1
<1>4. ASSUME NEW c \in Contexts, SchedulerExecutePendingJobs(c) PROVE StopIsAhead'
  <2>1. pc'["task"] \notin StopsPcs
    BY <1>0, <1>4, ExecuteFrame DEF ExecutePcs, CallPcs, StopPcs
  <2> QED BY <2>1
<1>5. CASE SchedulerStop
  <2>1. CASE StopEnter \/ StopAge \/ Stopped
    BY <2>1 DEF StopEnter, StopAge, Stopped
  <2>2. CASE StopLock \/ StopDisable \/ StopUnlock \/ StopReadElapsed
    <3>1. UNCHANGED <<now, startTime, numOfJobs, remainingTime>>
      BY <2>2 DEF StopLock, StopDisable, StopUnlock, StopReadElapsed, clock, control, table
    <3>2. isRunning /\ IsrIdle /\ pc["task"] # "stopped"
      BY <2>2 DEF StopLock, StopDisable, StopUnlock, StopReadElapsed, At, Exclusion, StopsRunning, StopPcs
    <3>3. numOfJobs > 0 => Ahead
      BY <3>2, NothingDue
    <3> QED BY <3>1, <3>3, TableFrame DEF Ahead, NextDue
  <2> QED BY <1>5, <2>1, <2>2 DEF SchedulerStop
<1>6. CASE Client
  <2>1. pc'["task"] \notin StopsPcs
    BY <1>6, ClientFrame
  <2> QED BY <2>1
<1>7. CASE UNCHANGED vars
  BY <1>7, TableFrame DEF vars, clock, control, table, Ahead, NextDue
<1> QED BY <1>1, <1>2, <1>3, <1>4, <1>5, <1>6, <1>7 DEF Next, Running

\* The aging at a stop finds no job due.
LEMMA StopFindsNoneDue ==
  ASSUME TypeOK, Exclusion, ElapsedIsExact, StopIsAhead, pc["task"] = "stopAge"
  PROVE  Due("task") = {}
<1> SUFFICES ASSUME NEW i \in Configured PROVE ~(elapsed["task"] >= remainingTime[i])
  BY DEF Due
<1>1. numOfJobs > 0 /\ i \in Indices
  BY DEF Configured, Indices, TypeOK
<1>2. now < startTime + remainingTime[i]
  BY <1>1 DEF StopIsAhead, Ahead, NextDue, StopsPcs, SilentPcs
<1> QED BY <1>1, <1>2 DEF ElapsedIsExact, TypeOK

LEMMA OwedInHandlerStep ==
  ASSUME MaxStall = 0, Deferred = FALSE, TypeOK, Exclusion, NoLostJob, NoPreemption, ElapsedIsExact,
         StopIsAhead, OwedInHandler, [Next]_vars
  PROVE  OwedInHandler'
<1> USE DEF OwedInHandler, Goto, TypeOK, Contexts
<1>0. IsrIdle => \A i \in Configured : ~owed[i]
  BY DEF IsrIdle, MarkedPcs, ArmingPcs
<1>1. CASE Tick
  BY <1>1, CallsAreInstant DEF table, Configured
<1>2. CASE AlarmIRQHandler
  BY <1>0, <1>2 DEF AlarmIRQHandler, table, locals, history, Configured, MarkedPcs, ArmingPcs, ExecutePcs
<1>3. ASSUME NEW c \in Contexts, SchedulerProcess(c) PROVE OwedInHandler'
  <2>0. UNCHANGED <<numOfJobs, cursor>> /\ Configured' = Configured
    BY <1>3, ProcessFrame DEF Configured
  <2>1. CASE c = "task"
    <3>1. IsrIdle /\ pc'["isr"] = pc["isr"] /\ ~ProcessAge("task")
      BY <1>3, <2>1, ProcessFrame DEF ProcessAge, At, Exclusion, Roles
    <3>2. UNCHANGED owed
      BY <1>3, <2>1, <3>1 DEF SchedulerProcess, ProcessEnter, ReadElapsed, SearchNextJob, ReadStart,
         CheckFuture, LockHal, DisableAlarm, WriteAlarm, GiveUp, UnlockHal, SetRunning, history
    <3> QED BY <1>0, <2>0, <3>1, <3>2
  <2>2. CASE c = "isr"
    <3>1. pc["isr"] \in ProcessPcs /\ cursor["isr"] = 0
      BY <1>3, <2>2, ProcessFrame DEF ProcessPcs, ArmingPcs, ExecutePcs
    <3>2. CASE pc["isr"] \in MarkedPcs \union {"age"}
      <4>1. pc'["isr"] \in MarkedPcs \union {"execute"}
        BY <1>3, <2>2, <3>2 DEF SchedulerProcess, ProcessEnter, ReadElapsed, ProcessAge, SearchNextJob, ReadStart,
           CheckFuture, LockHal, DisableAlarm, WriteAlarm, GiveUp, UnlockHal, SetRunning, NotArmed,
           At, AfterProcess, MarkedPcs, ArmingPcs
      <4>2. \A i \in Configured : 0 <= i
        BY DEF Configured, Indices
      <4> QED BY <2>0, <3>1, <4>1, <4>2 DEF MarkedPcs, ArmingPcs, ExecutePcs
    <3>3. CASE pc["isr"] \in {"process", "elapsed"}
      <4>1. ProcessEnter(c) \/ ReadElapsed(c)
        BY <1>3, <2>2, <3>3 DEF SchedulerProcess, ProcessAge, SearchNextJob, ReadStart,
           CheckFuture, LockHal, DisableAlarm, WriteAlarm, GiveUp, UnlockHal, SetRunning, At
      <4>2. UNCHANGED owed /\ \A i \in Configured : ~owed[i]
        BY <3>3, <4>1 DEF ProcessEnter, ReadElapsed, history, MarkedPcs, ArmingPcs
      <4>3. pc'["isr"] # "clear"
        BY <2>2, <4>1 DEF ProcessEnter, ReadElapsed, AfterProcess
      <4> QED BY <2>0, <3>1, <4>2, <4>3
    <3> QED BY <3>1, <3>2, <3>3 DEF ProcessPcs, MarkedPcs
  <2> QED BY <2>1, <2>2
<1>4. ASSUME NEW c \in Contexts, SchedulerExecutePendingJobs(c) PROVE OwedInHandler'
  <2>0. Configured' = Configured /\ \A i \in Configured : i \in Int
    <3>1. UNCHANGED numOfJobs
      BY <1>4, ExecuteFrame
    <3> QED BY <3>1 DEF Configured, Indices
  <2>1. CASE c = "task"
    <3>1. IsrIdle /\ pc'["isr"] = pc["isr"] /\ cursor'["isr"] = cursor["isr"]
      BY <1>4, <2>1 DEF SchedulerExecutePendingJobs, ExecuteReturns, SkipJob, CallCallback, ClearPending,
         At, locals
    <3>2. \A i \in Configured : owed'[i] => owed[i]
      BY <1>4 DEF SchedulerExecutePendingJobs, ExecuteReturns, SkipJob, CallCallback, ClearPending,
         history, Configured
    <3> QED BY <1>0, <2>0, <3>1, <3>2
  <2>2. CASE c = "isr"
    <3>1. CASE ExecuteReturns(c)
      <4>1. \A i \in Configured : ~owed'[i]
        BY <2>0, <2>2, <3>1 DEF ExecuteReturns, At, MarkedPcs, ArmingPcs, Configured, history
      <4>2. pc'["isr"] = "idle" /\ cursor'["isr"] = 0
        BY <2>2, <3>1 DEF ExecuteReturns
      <4> QED BY <2>0, <4>1, <4>2
    <3>2. CASE SkipJob(c)
      <4>1. /\ pc["isr"] = "execute" /\ pc'["isr"] = "execute" /\ cursor'["isr"] = cursor["isr"] + 1
            /\ UNCHANGED owed /\ ~isPending[cursor["isr"]]
        BY <2>2, <3>2 DEF SkipJob, At, history
      <4>2. \A i \in Configured : owed[i] => i # cursor["isr"] /\ cursor["isr"] <= i
        BY <4>1 DEF NoLostJob, MarkedPcs, ArmingPcs
      <4> QED BY <2>0, <4>1, <4>2 DEF ExecutePcs
    <3>3. CASE CallCallback(c)
      <4>1. /\ pc["isr"] = "execute" /\ pc'["isr"] = "clear" /\ UNCHANGED cursor
            /\ owed' = [owed EXCEPT ![cursor["isr"]] = FALSE]
        BY <2>2, <3>3 DEF CallCallback, At, locals
      <4>2. \A i \in Configured : owed'[i] => owed[i] /\ i # cursor["isr"]
        BY <4>1 DEF Configured
      <4>3. \A i \in Configured : owed[i] => cursor["isr"] <= i
        BY <4>1 DEF MarkedPcs, ArmingPcs
      <4> QED BY <2>0, <4>1, <4>2, <4>3 DEF ExecutePcs
    <3>4. CASE ClearPending(c)
      <4>1. /\ pc["isr"] = "clear" /\ pc'["isr"] = "execute" /\ cursor'["isr"] = cursor["isr"] + 1
            /\ UNCHANGED owed
        BY <2>2, <3>4 DEF ClearPending, At, history
      <4>2. \A i \in Configured : owed[i] => cursor["isr"] < i
        BY <4>1 DEF MarkedPcs, ArmingPcs
      <4> QED BY <2>0, <4>1, <4>2 DEF ExecutePcs
    <3> QED BY <1>4, <3>1, <3>2, <3>3, <3>4 DEF SchedulerExecutePendingJobs
  <2> QED BY <2>1, <2>2
<1>5. CASE SchedulerStop
  <2>0. /\ IsrIdle /\ pc'["isr"] = pc["isr"] /\ UNCHANGED cursor /\ Configured' = Configured
    BY <1>5, StopFrame DEF Configured
  <2>1. \A i \in Configured : owed'[i] = owed[i]
    <3>1. CASE StopAge
      <4>1. Due("task") = {}
        BY <3>1, StopFindsNoneDue DEF StopAge, At
      <4> QED BY <3>1, <4>1 DEF StopAge, ProcessRemainingTime, Configured
    <3>2. CASE ~StopAge
      BY <1>5, <3>2 DEF SchedulerStop, StopEnter, StopLock, StopDisable, StopUnlock,
         StopReadElapsed, Stopped, history
    <3> QED BY <3>1, <3>2
  <2> QED BY <1>0, <2>0, <2>1
<1>6. CASE Client
  <2>0. IsrIdle /\ pc'["isr"] = pc["isr"] /\ UNCHANGED cursor
    BY <1>6, ClientFrame
  <2>1. \A i \in Configured' : ~owed'[i]
    <3>1. CASE SchedulerInit
      BY <3>1 DEF SchedulerInit, Configured, Indices
    <3>2. CASE CallProcess \/ CallStop \/ CallExecute
      BY <1>0, <2>0, <3>2 DEF CallProcess, CallStop, CallExecute, table, history, Configured
    <3>3. ASSUME NEW p \in Periods, SchedulerAddJob(p) PROVE \A i \in Configured' : ~owed'[i]
      <4>1. CASE Accepts
        <5>1. numOfJobs' = numOfJobs + 1 /\ owed' = [owed EXCEPT ![numOfJobs] = FALSE]
          BY <3>3, <4>1 DEF SchedulerAddJob
        <5>2. \A i \in Configured' : i \in Indices /\ (i \in Configured \/ i = numOfJobs)
          BY <5>1 DEF Configured, Indices
        <5> QED BY <1>0, <2>0, <5>1, <5>2
      <4>2. CASE ~Accepts
        BY <1>0, <2>0, <3>3, <4>2 DEF SchedulerAddJob, history, Configured
      <4> QED BY <4>1, <4>2
    <3> QED BY <1>6, <3>1, <3>2, <3>3 DEF Client
  <2> QED BY <2>0, <2>1
<1>7. CASE UNCHANGED vars
  BY <1>7 DEF vars, table, locals, history, Configured
<1> QED BY <1>1, <1>2, <1>3, <1>4, <1>5, <1>6, <1>7 DEF Next, Running

LEMMA PromptStep ==
  ASSUME MaxStall = 0, Deferred = FALSE, TypeOK, Exclusion, Timing, Arming, NoLostJob, Prompt, [Next]_vars
  PROVE  Prompt'
  BY NoPreemptionStep, ElapsedIsExactStep, StopIsAheadStep, OwedInHandlerStep DEF Prompt

-----------------------------------------------------------------------------
(* The countdowns *)

Lefts == [i \in Configured |-> IF TimeLeft(i) > 0 THEN TimeLeft(i) ELSE period[i]]
DueNow == {i \in Configured : TimeLeft(i) <= 0 \/ owed[i]}
Spans == [i \in Configured |-> period[i]]

\* A step that changes no countdown.
LEMMA Stutters ==
  ASSUME UNCHANGED <<isRunning, numOfJobs, period>>,
         \A i \in Configured : TimeLeft(i)' = TimeLeft(i) /\ owed'[i] = owed[i]
  PROVE  UNCHANGED Promise!vars
<1>1. Configured' = Configured
  BY DEF Configured
<1>2. Lefts' = Lefts /\ DueNow' = DueNow /\ Spans' = Spans
  BY <1>1 DEF Lefts, DueNow, Spans
<1> QED BY <1>2 DEF Promise!vars, Lefts, DueNow, Spans

\* The time that is left is known, from the table or from the start time.
LEMMA TimeLeftType ==
  ASSUME TypeOK, NEW i \in Configured
  PROVE  TimeLeft(i) \in Int /\ remainingTime[i] \in Int /\ NextDue(i) \in Int
  BY DEF TypeOK, Configured, TimeLeft, NextDue

\* A second: every countdown of a running scheduler goes on by one.
LEMMA TickCounts ==
  ASSUME MaxStall = 0, TypeOK, Exclusion, Timing, Arming, Prompt, Tick
  PROVE  Promise!Second \/ UNCHANGED Promise!vars
<1>0. /\ IsrIdle /\ pc["task"] \notin CallPcs /\ now' = now + 1
      /\ UNCHANGED <<pc, isRunning, startTime, numOfJobs, period, remainingTime, owed>>
  BY CallsAreInstant DEF table
<1>1. CASE ~isRunning
  BY <1>0, <1>1, Stutters DEF TimeLeft, UpToDate
<1>2. CASE isRunning
  <2>1. Configured' = Configured /\ numOfJobs' = numOfJobs
    BY <1>0 DEF Configured
  <2>2. ~UpToDate /\ ~UpToDate'
    BY <1>0, <1>2 DEF UpToDate, IsrIdle, CallPcs, StopPcs
  <2>3. \A i \in Configured : TimeLeft(i) \in Int /\ TimeLeft(i) > 0 /\ ~owed[i] /\ TimeLeft(i)' = TimeLeft(i) - 1
    <3> SUFFICES ASSUME NEW i \in Configured
                 PROVE  TimeLeft(i) \in Int /\ TimeLeft(i) > 0 /\ ~owed[i] /\ TimeLeft(i)' = TimeLeft(i) - 1
      OBVIOUS
    <3>1. numOfJobs > 0 /\ NextDue(i) \in Int /\ now \in Int /\ NextDue(i)' = NextDue(i)
      BY <1>0, TimeLeftType DEF Configured, Indices, TypeOK, NextDue
    <3>2. Ahead
      BY <1>0, <1>2, <3>1, NothingDue DEF Prompt, CallPcs, StopPcs
    <3>3. NextDue(i) > now
      BY <3>1, <3>2 DEF Ahead
    <3>4. ~owed[i]
      BY <1>0 DEF Prompt, OwedInHandler, IsrIdle, MarkedPcs, ArmingPcs
    <3> QED BY <1>0, <2>2, <3>1, <3>3, <3>4 DEF TimeLeft
  <2>4. DueNow = {} /\ Lefts = [i \in Configured |-> TimeLeft(i)]
    BY <2>3 DEF DueNow, Lefts
  <2>5. Lefts' = [i \in Configured |-> IF Lefts[i] = 1 THEN Spans[i] ELSE Lefts[i] - 1]
    BY <1>0, <2>1, <2>3, <2>4 DEF Lefts, Spans
  <2>6. DueNow' = {i \in Configured : Lefts[i] = 1}
    BY <1>0, <2>1, <2>3, <2>4 DEF DueNow
  <2>7. Spans' = Spans /\ DOMAIN Spans = Configured
    BY <1>0, <2>1 DEF Spans
  <2> QED BY <1>0, <1>2, <2>4, <2>5, <2>6, <2>7
          DEF Promise!Second, Promise!Jobs, Lefts, DueNow, Spans
<1> QED BY <1>1, <1>2

\* The handler: it ages the table, moves the start time, and sets the alarm, and
\* every countdown is where it was.
LEMMA HandlerCounts ==
  ASSUME MaxStall = 0, TypeOK, Exclusion, Timing, Recent, Arming, Prompt, SchedulerProcess("isr")
  PROVE  UNCHANGED Promise!vars
<1>0. /\ pc["isr"] \in ProcessPcs /\ pc["isr"] # "idle" /\ "isr" \in Contexts
      /\ pc'["task"] = pc["task"] /\ UNCHANGED <<now, numOfJobs, period>>
  BY ProcessFrame DEF ProcessPcs, ArmingPcs, Contexts, Goto, TypeOK
<1>1. pc["task"] \notin CallPcs /\ isRunning
  BY <1>0 DEF Prompt, NoPreemption, IsrIdle, Exclusion, SilentStopped, AlarmOff, CallPcs, ProcessPcs, ArmedPcs
<1>2. isRunning' = TRUE
  BY <1>1 DEF SchedulerProcess, ProcessEnter, ReadElapsed, ProcessAge, SearchNextJob, ReadStart, CheckFuture,
     LockHal, DisableAlarm, WriteAlarm, GiveUp, UnlockHal, SetRunning, control
<1>3. /\ UpToDate = (pc["isr"] \in {"search", "start"})
      /\ UpToDate' = (pc'["isr"] \in {"search", "start"})
  BY <1>0, <1>1, <1>2 DEF UpToDate, CallPcs, StopPcs
<1>4. CASE ProcessAge("isr")
  <2>0. Configured' = Configured /\ pc["isr"] = "age" /\ pc'["isr"] = "search"
    BY <1>0, <1>4 DEF Configured, ProcessAge, At, Goto, TypeOK
  <2>1. ~UpToDate /\ UpToDate'
    BY <1>3, <2>0
  <2>2. ASSUME NEW i \in Configured
        PROVE  /\ (TimeLeft(i)' <= 0 \/ owed'[i]) <=> (TimeLeft(i) <= 0 \/ owed[i])
               /\ (IF TimeLeft(i)' > 0 THEN TimeLeft(i)' ELSE period[i]) =
                    (IF TimeLeft(i) > 0 THEN TimeLeft(i) ELSE period[i])
    <3>1. i \in Indices /\ elapsed["isr"] = now - startTime /\ elapsed["isr"] \in Int
      BY <2>0 DEF Configured, Prompt, ElapsedIsExact, TypeOK, Contexts
    <3>2. TimeLeft(i) = remainingTime[i] - elapsed["isr"] /\ remainingTime[i] \in Int
      BY <2>1, <3>1, TimeLeftType DEF TimeLeft, NextDue, TypeOK
    <3>3. TimeLeft(i)' = remainingTime'[i]
      BY <2>1 DEF TimeLeft
    <3>4. period[i] \in Int /\ period[i] > 0
      BY <3>1 DEF TypeOK, Timing, JobsInRange
    <3>5. CASE i \in Due("isr")
      <4>1. remainingTime'[i] = period[i] /\ owed'[i] /\ elapsed["isr"] >= remainingTime[i]
        BY <1>4, <3>1, <3>5 DEF ProcessAge, ProcessRemainingTime, Due
      <4>2. TimeLeft(i) <= 0 /\ ~(TimeLeft(i) > 0) /\ TimeLeft(i)' = period[i]
        BY <3>1, <3>2, <3>3, <4>1
      <4>3. TimeLeft(i)' > 0
        BY <3>4, <4>2
      <4> QED BY <4>1, <4>2, <4>3
    <3>6. CASE i \notin Due("isr")
      <4>1. /\ remainingTime'[i] = remainingTime[i] - elapsed["isr"] /\ owed'[i] = owed[i]
            /\ elapsed["isr"] < remainingTime[i]
        BY <1>4, <3>1, <3>2, <3>6 DEF ProcessAge, ProcessRemainingTime, Due, TypeOK
      <4> QED BY <3>2, <3>3, <4>1
    <3> QED BY <3>5, <3>6
  <2>3. Lefts' = Lefts
    BY <1>0, <2>0, <2>2 DEF Lefts
  <2>4. DueNow' = DueNow
    BY <2>0, <2>2 DEF DueNow
  <2>5. Spans' = Spans
    BY <1>0, <2>0 DEF Spans
  <2> QED BY <1>1, <1>2, <2>3, <2>4, <2>5 DEF Promise!vars, Lefts, DueNow, Spans
<1>5. CASE ReadStart("isr")
  <2>1. /\ UpToDate /\ ~UpToDate' /\ startTime' = now
        /\ UNCHANGED <<remainingTime, owed>>
    BY <1>0, <1>3, <1>5 DEF ReadStart, At, Goto, TypeOK, table, history
  <2>2. \A i \in Configured : TimeLeft(i)' = TimeLeft(i)
    BY <1>0, <2>1, TimeLeftType DEF TimeLeft, NextDue, TypeOK
  <2> QED BY <1>0, <1>1, <1>2, <2>1, <2>2, Stutters
<1>6. CASE SearchNextJob("isr")
  <2>1. pc["isr"] = "search" /\ UNCHANGED <<remainingTime, startTime, owed>>
    BY <1>6 DEF SearchNextJob, At, table, control, history
  <2>2. numOfJobs > 0 => pc'["isr"] = "start"
    <3> SUFFICES ASSUME numOfJobs > 0 PROVE pc'["isr"] = "start"
      OBVIOUS
    <3>1. PICK i \in Configured \union {0} :
            IF remainingTime[i] > 0
            THEN job' = [job EXCEPT !["isr"] = i] /\ Goto("isr", "start")
            ELSE UNCHANGED job /\ Goto("isr", AfterProcess("isr"))
      BY <1>6 DEF SearchNextJob
    <3>2. i \in Configured
      BY DEF Configured, Indices
    <3>3. remainingTime[i] \in 1 .. period[i] /\ period[i] \in Nat
      BY <3>2 DEF Timing, JobsInRange, TypeOK, Configured
    <3> QED BY <1>0, <3>1, <3>3 DEF Goto, TypeOK
  <2>3. \A i \in Configured : numOfJobs > 0
    BY DEF Configured, Indices, TypeOK
  <2>4. \A i \in Configured : TimeLeft(i)' = TimeLeft(i)
    BY <1>3, <2>1, <2>2, <2>3 DEF TimeLeft
  <2> QED BY <1>0, <1>1, <1>2, <2>1, <2>4, Stutters
<1>7. ASSUME ~ProcessAge("isr"), ~ReadStart("isr"), ~SearchNextJob("isr")
      PROVE  UNCHANGED Promise!vars
  <2>1. UNCHANGED <<startTime, remainingTime, owed>>
    BY <1>7 DEF SchedulerProcess, ProcessEnter, ReadElapsed, CheckFuture, LockHal, DisableAlarm,
       WriteAlarm, GiveUp, UnlockHal, SetRunning, table, history, control
  <2>2. pc["isr"] \notin {"search", "start"} /\ pc'["isr"] \notin {"search", "start"}
    BY <1>0, <1>1, <1>7 DEF SchedulerProcess, ProcessEnter, ReadElapsed, CheckFuture, LockHal, DisableAlarm,
       WriteAlarm, GiveUp, UnlockHal, SetRunning, NotArmed, AfterProcess, At, Goto, TypeOK
  <2>3. \A i \in Configured : TimeLeft(i)' = TimeLeft(i)
    BY <1>0, <1>3, <2>1, <2>2 DEF TimeLeft, NextDue
  <2> QED BY <1>0, <1>1, <1>2, <2>1, <2>3, Stutters
<1> QED BY <1>4, <1>5, <1>6, <1>7

\* The task starts the scheduler in its last step.
LEMMA StartCounts ==
  ASSUME MaxStall = 0, TypeOK, Exclusion, Timing, Recent, Prompt, SchedulerProcess("task")
  PROVE  Promise!Start \/ UNCHANGED Promise!vars
<1>0. /\ IsrIdle /\ pc'["isr"] = pc["isr"] /\ pc["task"] \in ProcessPcs /\ "task" \in Contexts
      /\ UNCHANGED <<now, stall, numOfJobs, period>>
  BY ProcessFrame DEF Goto, TypeOK, Contexts
<1>1. pc["task"] \notin {"elapsed", "age"} /\ (pc["task"] # "running" => ~isRunning)
  BY <1>0 DEF Exclusion, StartsStopped, Roles, StartPcs, Recent, OneOwner, ProcessPcs
<1>2. UNCHANGED <<remainingTime, owed>>
  BY <1>1 DEF SchedulerProcess, ProcessEnter, ReadElapsed, ProcessAge, SearchNextJob, ReadStart, CheckFuture,
     LockHal, DisableAlarm, WriteAlarm, GiveUp, UnlockHal, SetRunning, At, table, history
<1>3. CASE SetRunning("task")
  <2>0. pc["task"] = "running" /\ pc'["task"] = "idle" /\ isRunning' = TRUE /\ UNCHANGED startTime
    BY <1>0, <1>3 DEF SetRunning, AfterProcess, At, Goto, TypeOK
  <2>1. ~(pc["isr"] \in {"search", "start"}) /\ UpToDate = ~isRunning /\ ~UpToDate'
    BY <1>0, <2>0 DEF UpToDate, IsrIdle, TypeOK
  <2>2. startTime = now
    BY <1>0, <2>0 DEF Recent, StartIsRecent, HoldsStart, Timing, StartInPast, TypeOK
  <2>3. \A i \in Configured : TimeLeft(i)' = TimeLeft(i)
    BY <1>0, <1>2, <2>0, <2>1, <2>2, TimeLeftType DEF TimeLeft, NextDue, TypeOK
  <2>4. CASE isRunning
    <3>1. UNCHANGED isRunning
      BY <2>0, <2>4 DEF TypeOK
    <3> QED BY <1>0, <1>2, <2>3, <3>1, Stutters
  <2>5. CASE ~isRunning
    <3>1. Configured' = Configured
      BY <1>0 DEF Configured
    <3>2. Lefts' = Lefts /\ DueNow' = DueNow /\ Spans' = Spans
      BY <1>0, <1>2, <2>3, <3>1 DEF Lefts, DueNow, Spans
    <3> QED BY <2>0, <2>5, <3>2 DEF Promise!Start, Lefts, DueNow, Spans
  <2> QED BY <2>4, <2>5
<1>4. ASSUME ~SetRunning("task") PROVE UNCHANGED Promise!vars
  <2>1. ~isRunning /\ ~isRunning' /\ UNCHANGED isRunning
    BY <1>1, <1>4 DEF SchedulerProcess, ProcessEnter, ReadElapsed, ProcessAge, SearchNextJob, ReadStart, CheckFuture,
       LockHal, DisableAlarm, WriteAlarm, GiveUp, UnlockHal, At, control
  <2>2. \A i \in Configured : TimeLeft(i)' = TimeLeft(i)
    BY <1>2, <2>1 DEF TimeLeft, UpToDate
  <2> QED BY <1>0, <1>2, <2>1, <2>2, Stutters
<1> QED BY <1>3, <1>4

\* A stop brings the table up to date and stops the countdowns where they are.
LEMMA StopCounts ==
  ASSUME MaxStall = 0, TypeOK, Exclusion, Timing, Prompt, SchedulerStop
  PROVE  Promise!Stop \/ UNCHANGED Promise!vars
<1>0. /\ IsrIdle /\ pc'["isr"] = "idle" /\ pc["isr"] = "idle" /\ pc["task"] \in StopPcs /\ "task" \in Contexts
      /\ UNCHANGED <<now, numOfJobs, period>>
  BY StopFrame DEF Goto, TypeOK, Contexts, IsrIdle
<1>1. \A i \in Configured : ~owed[i]
  BY <1>0 DEF Prompt, OwedInHandler, MarkedPcs, ArmingPcs
<1>2. /\ UpToDate = (~isRunning \/ pc["task"] = "stopped")
      /\ UpToDate' = (~isRunning' \/ pc'["task"] = "stopped")
  BY <1>0 DEF UpToDate
<1>3. CASE StopEnter \/ StopLock \/ StopDisable \/ StopUnlock
  <2>1. /\ UNCHANGED <<isRunning, startTime, remainingTime, owed>>
        /\ pc["task"] # "stopped" /\ pc'["task"] # "stopped"
    BY <1>0, <1>3 DEF StopEnter, StopLock, StopDisable, StopUnlock, At, Goto, TypeOK, control, table, history
  <2>2. \A i \in Configured : TimeLeft(i)' = TimeLeft(i)
    BY <1>0, <1>2, <2>1 DEF TimeLeft, NextDue
  <2> QED BY <1>0, <2>1, <2>2, Stutters
<1>4. CASE StopReadElapsed
  <2>1. /\ UNCHANGED <<isRunning, startTime, remainingTime, owed>> /\ isRunning
        /\ pc["task"] # "stopped"
        /\ pc'["task"] = (IF ElapsedTime > 0 THEN "stopAge" ELSE "stopped")
    BY <1>0, <1>4 DEF StopReadElapsed, At, Goto, TypeOK, control, table, history, Exclusion, StopsRunning
  <2>2. CASE ElapsedTime > 0
    <3>1. ~UpToDate /\ ~UpToDate'
      BY <1>2, <2>1, <2>2
    <3>2. \A i \in Configured : TimeLeft(i)' = TimeLeft(i)
      BY <1>0, <2>1, <3>1 DEF TimeLeft, NextDue
    <3> QED BY <1>0, <2>1, <3>2, Stutters
  <2>3. CASE ~(ElapsedTime > 0)
    <3>1. now = startTime
      <4>1. now - startTime \in 0 .. (W - 1) /\ now - startTime \in Int
        BY DEF Timing, StartInPast, TypeOK
      <4>2. ElapsedTime = now - startTime
        BY <4>1, Remainder DEF ElapsedTime
      <4> QED BY <2>3, <4>1, <4>2 DEF TypeOK
    <3>2. ~UpToDate /\ UpToDate'
      BY <1>2, <2>1, <2>3
    <3>3. \A i \in Configured : TimeLeft(i)' = TimeLeft(i)
      BY <1>0, <2>1, <3>1, <3>2, TimeLeftType DEF TimeLeft, NextDue, TypeOK
    <3> QED BY <1>0, <2>1, <3>3, Stutters
  <2> QED BY <2>2, <2>3
<1>5. CASE StopAge
  <2>1. /\ UNCHANGED isRunning /\ isRunning /\ pc["task"] = "stopAge" /\ pc'["task"] = "stopped"
        /\ ProcessRemainingTime("task")
    BY <1>0, <1>5 DEF StopAge, At, Goto, TypeOK, control, Exclusion, StopsRunning, StopPcs
  <2>2. Due("task") = {}
    BY <2>1, StopFindsNoneDue DEF Prompt
  <2>3. ~UpToDate /\ UpToDate'
    BY <1>2, <2>1
  <2>4. ASSUME NEW i \in Configured PROVE TimeLeft(i)' = TimeLeft(i) /\ owed'[i] = owed[i]
    <3>1. i \in Indices
      BY DEF Configured
    <3>2. remainingTime'[i] = remainingTime[i] - elapsed["task"] /\ owed'[i] = owed[i]
      BY <2>1, <2>2, <3>1 DEF ProcessRemainingTime, TypeOK
    <3>3. elapsed["task"] = now - startTime
      BY <2>1 DEF Prompt, ElapsedIsExact
    <3>4. TimeLeft(i)' = remainingTime'[i]
      BY <2>3 DEF TimeLeft
    <3>5. TimeLeft(i) = NextDue(i) - now
      BY <2>3 DEF TimeLeft
    <3> QED BY <3>2, <3>3, <3>4, <3>5, TimeLeftType DEF NextDue, TypeOK
  <2> QED BY <1>0, <2>1, <2>4, Stutters
<1>6. CASE Stopped
  <2>1. /\ pc["task"] = "stopped" /\ isRunning /\ isRunning' = FALSE
        /\ UNCHANGED <<startTime, remainingTime, owed>>
    BY <1>6 DEF Stopped, At, table, history, Exclusion, StopsRunning, StopPcs
  <2>2. UpToDate /\ UpToDate' /\ Configured' = Configured
    BY <1>0, <1>2, <2>1 DEF Configured
  <2>3. \A i \in Configured : remainingTime[i] > 0 /\ remainingTime[i] \in Int
    BY DEF Timing, JobsInRange, TypeOK, Configured
  <2>4. DueNow = {} /\ DueNow' = {}
    BY <1>1, <2>1, <2>2, <2>3 DEF DueNow, TimeLeft
  <2>5. Lefts' = Lefts /\ Spans' = Spans
    BY <1>0, <2>1, <2>2 DEF Lefts, Spans, TimeLeft
  <2> QED BY <2>1, <2>4, <2>5 DEF Promise!Stop, Lefts, DueNow, Spans
<1> QED BY <1>3, <1>4, <1>5, <1>6 DEF SchedulerStop

\* A callback takes its job off those that are due.
LEMMA ExecuteCounts ==
  ASSUME MaxStall = 0, TypeOK, Exclusion, Arming, Prompt, NEW c \in Contexts,
         SchedulerExecutePendingJobs(c)
  PROVE  (\E S \in SUBSET DueNow : Promise!Run(S)) \/ UNCHANGED Promise!vars
<1>0. /\ UNCHANGED <<isRunning, startTime, now, numOfJobs, period, remainingTime>>
      /\ c = "task" => IsrIdle
      /\ pc[c] \in ExecutePcs
  BY ExecuteFrame DEF clock, control
<1>1. Configured' = Configured
  BY <1>0 DEF Configured
<1>2. UpToDate' = UpToDate
  <2>1. pc'["isr"] \in {"search", "start"} <=> pc["isr"] \in {"search", "start"}
    BY <1>0, ExecuteFrame DEF Goto, TypeOK, Contexts, ExecutePcs
  <2>2. pc'["task"] = "stopped" <=> pc["task"] = "stopped"
    BY <1>0, ExecuteFrame DEF Goto, TypeOK, Contexts, ExecutePcs
  <2> QED BY <1>0, <2>1, <2>2 DEF UpToDate
<1>3. \A i \in Configured : TimeLeft(i)' = TimeLeft(i)
  BY <1>0, <1>2 DEF TimeLeft, NextDue
<1>4. CASE ~CallCallback(c)
  <2>1. UNCHANGED owed
    BY <1>4 DEF SchedulerExecutePendingJobs, ExecuteReturns, SkipJob, ClearPending, history
  <2> QED BY <1>0, <1>3, <2>1, Stutters
<1>5. CASE CallCallback(c)
  <2>1. cursor[c] \in Configured /\ owed' = [owed EXCEPT ![cursor[c]] = FALSE]
    BY <1>5, CursorIndex DEF CallCallback, Configured
  <2>2. CASE ~owed[cursor[c]]
    <3>1. \A i \in Configured : owed'[i] = owed[i]
      BY <2>1, <2>2 DEF TypeOK, Configured
    <3> QED BY <1>0, <1>3, <3>1, Stutters
  <2>3. CASE owed[cursor[c]]
    <3>1. c = "isr" /\ pc["isr"] = "execute"
      BY <1>0, <1>5, <2>1, <2>3 DEF CallCallback, At, Prompt, OwedInHandler, IsrIdle, MarkedPcs, ArmingPcs, Contexts
    <3>2. pc["task"] \notin CallPcs /\ isRunning
      <4>1. ~IsrIdle
        BY <3>1 DEF IsrIdle
      <4>2. pc["task"] \notin CallPcs
        BY <4>1 DEF Prompt, NoPreemption, CallPcs
      <4>3. isRunning
        BY <3>1, <4>1, <4>2 DEF Exclusion, SilentStopped, AlarmOff, CallPcs, ProcessPcs, ArmedPcs
      <4> QED BY <4>2, <4>3
    <3>3. ~UpToDate /\ numOfJobs > 0
      BY <2>1, <3>1, <3>2 DEF UpToDate, CallPcs, StopPcs, Configured, Indices, TypeOK
    <3>4. Ahead
      BY <3>1, <3>2, <3>3, NothingDue DEF Prompt, CallPcs, StopPcs
    <3>5. ~(TimeLeft(cursor[c]) <= 0)
      <4> SUFFICES ASSUME NEW i \in Configured PROVE ~(TimeLeft(i) <= 0)
        BY <2>1
      <4>1. now < NextDue(i) /\ TimeLeft(i) = NextDue(i) - now /\ NextDue(i) \in Int /\ now \in Int
        BY <3>3, <3>4, TimeLeftType DEF Ahead, TimeLeft, TypeOK
      <4> QED BY <4>1
    <3>6. cursor[c] \in DueNow
      BY <2>1, <2>3 DEF DueNow
    <3>7. \A i \in Configured : owed'[i] <=> (owed[i] /\ i # cursor[c])
      BY <2>1 DEF TypeOK, Configured
    <3>8. DueNow' = DueNow \ {cursor[c]}
      <4>1. \A i \in Configured : (TimeLeft(i)' <= 0 \/ owed'[i]) <=> (TimeLeft(i) <= 0 \/ owed[i]) /\ i # cursor[c]
        BY <1>3, <3>5, <3>7
      <4> QED BY <1>1, <4>1 DEF DueNow
    <3>9. Lefts' = Lefts /\ Spans' = Spans
      BY <1>0, <1>1, <1>3 DEF Lefts, Spans
    <3>10. PICK i \in DueNow : i = cursor[c]
      BY <3>6
    <3>11. {i} \in SUBSET DueNow /\ Promise!Run({i})
      BY <1>0, <3>8, <3>9, <3>10 DEF Promise!Run, Lefts, Spans, DueNow
    <3> QED BY <3>11
  <2> QED BY <2>2, <2>3
<1> QED BY <1>4, <1>5

\* The calls of the client: a new job has its whole period left.
LEMMA ClientCounts ==
  ASSUME MaxStall = 0, TypeOK, Exclusion, Timing, Prompt, Client
  PROVE  Promise!Forget \/ (\E p \in Periods : Promise!Add(p)) \/ UNCHANGED Promise!vars
<1>0. /\ IsrIdle /\ pc["task"] = "idle" /\ pc'["isr"] = pc["isr"] /\ UNCHANGED <<now, isRunning>>
      /\ pc'["task"] # "stopped"
  BY ClientFrame DEF clock, Goto, TypeOK, Contexts
<1>1. UpToDate = ~isRunning /\ UpToDate' = ~isRunning
  BY <1>0 DEF UpToDate, IsrIdle, TypeOK
<1>2. \A i \in Configured : ~owed[i]
  BY <1>0 DEF Prompt, OwedInHandler, IsrIdle, MarkedPcs, ArmingPcs
<1>3. CASE CallProcess \/ CallStop \/ CallExecute
  <2>1. UNCHANGED <<startTime, numOfJobs, period, remainingTime, owed>>
    BY <1>3 DEF CallProcess, CallStop, CallExecute, control, table, history
  <2>2. \A i \in Configured : TimeLeft(i)' = TimeLeft(i)
    BY <1>0, <1>1, <2>1 DEF TimeLeft, NextDue
  <2> QED BY <1>0, <2>1, <2>2, Stutters
<1>4. ~isRunning => /\ DueNow = {}
                    /\ \A i \in Configured : TimeLeft(i) = remainingTime[i] /\ remainingTime[i] > 0
  <2>1. \A i \in Configured : remainingTime[i] > 0 /\ remainingTime[i] \in Int
    BY DEF Timing, JobsInRange, TypeOK, Configured
  <2>2. ~isRunning => \A i \in Configured : TimeLeft(i) = remainingTime[i]
    BY <1>1 DEF TimeLeft
  <2> QED BY <1>2, <2>1, <2>2 DEF DueNow
<1>5. CASE SchedulerInit
  <2>1. ~isRunning /\ Configured' = {}
    BY <1>5 DEF SchedulerInit, Configured, Indices
  <2>2. Spans' = Promise!NoJobs /\ Lefts' = Promise!NoJobs /\ DueNow' = {}
    BY <2>1 DEF Spans, Lefts, DueNow, Promise!NoJobs
  <2> QED BY <1>0, <1>4, <2>1, <2>2 DEF Promise!Forget, Spans, Lefts, DueNow
<1>6. ASSUME NEW p \in Periods, SchedulerAddJob(p)
      PROVE  Promise!Add(p) \/ UNCHANGED Promise!vars
  <2>1. CASE ~Accepts
    <3>1. UNCHANGED <<startTime, numOfJobs, period, remainingTime, owed>>
      BY <1>6, <2>1 DEF SchedulerAddJob, control, history
    <3>2. \A i \in Configured : TimeLeft(i)' = TimeLeft(i)
      BY <1>0, <1>1, <3>1 DEF TimeLeft, NextDue
    <3> QED BY <1>0, <3>1, <3>2, Stutters
  <2>2. CASE Accepts
    <3> DEFINE n == numOfJobs
    <3>1. /\ ~isRunning /\ n \in Indices /\ numOfJobs' = n + 1 /\ p > 0
          /\ period' = [period EXCEPT ![n] = p]
          /\ remainingTime' = [remainingTime EXCEPT ![n] = p]
          /\ owed' = [owed EXCEPT ![n] = FALSE]
      BY <1>6, <2>2 DEF SchedulerAddJob, Accepts, Indices, TypeOK
    <3>2. Configured = 0 .. (n - 1) /\ n \notin Configured /\ Configured' = Configured \union {n}
      BY <3>1 DEF Configured, Indices
    <3>3. {m \in 0 .. (MaxJobs - 1) : Configured = 0 .. (m - 1)} = {n}
      <4>1. \A m \in Indices : Configured = 0 .. (m - 1) => m = n
        <5> SUFFICES ASSUME NEW m \in Indices, Configured = 0 .. (m - 1) PROVE m = n
          OBVIOUS
        <5>1. m \notin Configured /\ n \notin 0 .. (m - 1)
          BY <3>2 DEF Indices
        <5> QED BY <3>1, <5>1 DEF Configured, Indices
      <4> QED BY <3>1, <3>2, <4>1 DEF Indices
    <3>4. \A i \in Configured : /\ i # n /\ i \in Indices
                                /\ period'[i] = period[i] /\ remainingTime'[i] = remainingTime[i]
                                /\ owed'[i] = owed[i]
      BY <3>1, <3>2 DEF Configured, TypeOK
    <3>5. period'[n] = p /\ remainingTime'[n] = p /\ ~owed'[n]
      BY <3>1 DEF TypeOK
    <3>6. \A i \in Configured' : TimeLeft(i)' = remainingTime'[i] /\ remainingTime'[i] > 0 /\ ~owed'[i]
      <4>1. \A i \in Configured' : TimeLeft(i)' = remainingTime'[i]
        BY <1>1, <3>1 DEF TimeLeft
      <4> QED BY <1>2, <1>4, <3>1, <3>2, <3>4, <3>5, <4>1
    <3>7. DueNow' = {}
      <4>1. \A i \in Configured' : remainingTime'[i] \in Int
        BY <1>4, <3>2, <3>4, <3>5 DEF TypeOK
      <4> QED BY <3>6, <4>1 DEF DueNow
    <3>8. Spans' = [i \in Configured \union {n} |-> IF i \in Configured THEN Spans[i] ELSE p]
      BY <3>2, <3>4, <3>5 DEF Spans
    <3>9. Lefts' = [i \in Configured \union {n} |-> IF i \in Configured THEN Lefts[i] ELSE p]
      <4>1. \A i \in Configured : Lefts[i] = remainingTime[i]
        BY <1>4, <3>1 DEF Lefts
      <4>2. Lefts' = [i \in Configured' |-> remainingTime'[i]]
        BY <3>6 DEF Lefts
      <4> QED BY <3>2, <3>4, <3>5, <4>1, <4>2
    <3>10. DOMAIN Spans = Configured /\ Configured # 0 .. (MaxJobs - 1)
      BY <3>1, <3>2 DEF Spans, Indices
    <3>11. /\ Spans' = Promise!Added(Spans, p) /\ Lefts' = Promise!Added(Lefts, p)
      BY <3>3, <3>8, <3>9, <3>10 DEF Promise!Added, Promise!Jobs, Spans
    <3> QED BY <1>0, <1>4, <3>1, <3>7, <3>10, <3>11
            DEF Promise!Add, Promise!Jobs, Spans, Lefts, DueNow
  <2> QED BY <2>1, <2>2
<1> QED BY <1>3, <1>5, <1>6 DEF Client

-----------------------------------------------------------------------------
(* The theorem *)

LEMMA Counts ==
  ASSUME MaxStall = 0, TypeOK, Exclusion, Timing, Recent, Arming, Prompt, [Next]_vars
  PROVE  [Promise!Next]_(Promise!vars)
<1>1. CASE Tick
  BY <1>1, TickCounts DEF Promise!Next
<1>2. CASE AlarmIRQHandler
  <2>1. /\ pc["isr"] = "idle" /\ pc'["isr"] = "process" /\ pc'["task"] = pc["task"]
        /\ UNCHANGED <<now, startTime, isRunning, numOfJobs, period, remainingTime, owed>>
    BY <1>2 DEF AlarmIRQHandler, Goto, TypeOK, Contexts, clock, control, table, history
  <2>2. \A i \in Configured : TimeLeft(i)' = TimeLeft(i)
    BY <2>1 DEF TimeLeft, NextDue, UpToDate
  <2> QED BY <2>1, <2>2, Stutters
<1>3. ASSUME NEW c \in Contexts, SchedulerProcess(c) PROVE [Promise!Next]_(Promise!vars)
  BY <1>3, HandlerCounts, StartCounts DEF Contexts, Promise!Next
<1>4. ASSUME NEW c \in Contexts, SchedulerExecutePendingJobs(c) PROVE [Promise!Next]_(Promise!vars)
  BY <1>4, ExecuteCounts DEF Promise!Next, DueNow
<1>5. CASE SchedulerStop
  BY <1>5, StopCounts DEF Promise!Next
<1>6. CASE Client
  BY <1>6, ClientCounts DEF Promise!Next
<1>7. CASE UNCHANGED vars
  <2>1. UNCHANGED <<pc, now, startTime, isRunning, numOfJobs, period, remainingTime, owed>>
    BY <1>7 DEF vars, clock, control, table, history
  <2>2. \A i \in Configured : TimeLeft(i)' = TimeLeft(i)
    BY <2>1 DEF TimeLeft, NextDue, UpToDate
  <2> QED BY <2>1, <2>2, Stutters
<1> QED BY <1>1, <1>2, <1>3, <1>4, <1>5, <1>6, <1>7 DEF Next, Running

LEMMA CountsFromZero == Init => Promise!Init
<1> SUFFICES ASSUME Init PROVE Promise!Init
  OBVIOUS
<1>1. Configured = {} /\ isRunning = FALSE
  BY DEF Init, Configured, Indices
<1>2. Spans = Promise!NoJobs /\ Lefts = Promise!NoJobs /\ DueNow = {}
  BY <1>1 DEF Spans, Lefts, DueNow, Promise!NoJobs
<1> QED BY <1>1, <1>2 DEF Promise!Init, Spans, Lefts, DueNow

\* One alarm at a time, SchedulerProcess keeps a countdown for every job: each job
\* is marked and executed in the very second its countdown reaches zero, at its
\* own period, with the time the scheduler was stopped left out, through any
\* sequence of starts, stops, additions and initialisations.  This is the safety
\* part of ImplementsCountdown, without the fairness of Countdown.
THEOREM KeepsEveryCountdown ==
  ASSUME MaxStall = 0, Deferred = FALSE, HalMayTimeOut = FALSE, NoOverflow
  PROVE  Spec => Promise!Init /\ [][Promise!Next]_(Promise!vars)
<1>1. MaxStall < Month
  OBVIOUS
<1>2. TypeOK /\ Exclusion /\ Timing /\ Readiness /\ NoLostJob /\ Prompt /\ [Next]_vars => Prompt'
  BY <1>1, PromptStep DEF Readiness
<1>3. TypeOK /\ Exclusion /\ Timing /\ Readiness /\ Prompt /\ [Next]_vars => [Promise!Next]_(Promise!vars)
  BY <1>1, Counts DEF Readiness
<1> QED BY <1>2, <1>3, CountsFromZero, PromptInit, Typed, Excluded, Timed, Readied, NoJobIsLost, PTL DEF Spec
=============================================================================
