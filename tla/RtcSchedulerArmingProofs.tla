---------------------- MODULE RtcSchedulerArmingProofs ----------------------
(***************************************************************************)
(* When a running scheduler is sure to have its alarm set: ArmedWithSlack  *)
(* for every number of jobs, every set of periods and every stall, provided*)
(* that no due time overflows and that the HAL does not time out.          *)
(***************************************************************************)
EXTENDS RtcSchedulerProofs

USE MaxJobsAssumption, PeriodsAssumption, ClockAssumption, FlagsAssumption

-----------------------------------------------------------------------------
(* Readings of the clock that are still good *)

\* Past the reading of startTime, and not done yet.
HoldsStart == {"check", "lock", "disable", "write", "unlock", "running"}

\* The handler has not yet replaced the alarm that has brought it.
BeforeWrite == {"process", "elapsed", "age", "search", "start", "check", "lock", "disable"}

StartIsRecent == \A c \in Contexts : pc[c] \in HoldsStart => now - startTime <= stall

\* The handler finds that time has passed.
ElapsedIsPositive == exti \/ pc["isr"] \in {"process", "elapsed"} => startTime < now

\* The lock has one owner, and only the task that holds it can be at "unlock"
\* of a scheduler that is not running yet.
OneOwner ==
  /\ \A c \in Contexts : pc[c] \in HoldPcs => halLock
  /\ pc["task"] \in HoldPcs => pc["isr"] \notin HoldPcs \union {"running"}
  /\ pc["task"] = "unlock" => ~isRunning

OffBeforeWrite == \A c \in Contexts : pc[c] = "write" => ~alrae /\ ~alraf

\* The match that has brought the handler is as recent as the handler's call, so
\* that the same alarm does not match a second time.
Handles == exti \/ pc["isr"] \in BeforeWrite
MatchIsRecent == Handles /\ alrae => \E m \in 0 .. now : now - m <= stall /\ alrmar = AlarmStamp(m)
OneMatch == pc["isr"] \in BeforeWrite \union {"write"} => ~exti

Recent == StartIsRecent /\ ElapsedIsPositive /\ OneOwner /\ OffBeforeWrite /\ MatchIsRecent /\ OneMatch

\* Two moments less than a month apart have different stamps.
LEMMA StampsDiffer ==
  ASSUME NEW a \in Nat, NEW b \in Nat, a < b, b - a < Month
  PROVE  AlarmStamp(a) # AlarmStamp(b)
<1> SUFFICES ASSUME a % Month = b % Month PROVE FALSE
  BY DEF AlarmStamp
<1> DEFINE d == (b \div Month) - (a \div Month)
<1>1. a = Month * (a \div Month) + (a % Month) /\ b = Month * (b \div Month) + (b % Month)
  OBVIOUS
<1>2. d \in Int /\ b - a = Month * d
  BY <1>1
<1>3. CASE d <= 0
  <2>1. Month * d <= 0
    BY <1>2, <1>3
  <2> QED BY <1>2, <2>1
<1>4. CASE d >= 1
  <2>1. Month * d >= Month
    BY <1>2, <1>4
  <2> QED BY <1>2, <2>1
<1> QED BY <1>2, <1>3, <1>4

LEMMA RecentInit == Init => Recent
  BY DEF Init, Recent, StartIsRecent, ElapsedIsPositive, OneOwner, OffBeforeWrite, MatchIsRecent,
     OneMatch, Handles, HoldsStart, BeforeWrite, HoldPcs, Contexts

LEMMA RecentTick ==
  ASSUME MaxStall < Month, TypeOK, Exclusion, Timing, Recent, Tick
  PROVE  Recent'
<1> USE DEF Contexts, Goto, TypeOK, control, table, locals, history
<1>0. UNCHANGED <<pc, startTime, isRunning, halLock, alrae, alrmar>> /\ now' = now + 1
  BY DEF Tick
<1>1. exti \/ pc["isr"] # "idle" \/ pc["task"] \in ProcessPcs \union StopPcs =>
        stall' = stall + 1 /\ stall < MaxStall
  BY DEF Tick, Busy, IsrIdle
<1>2. StartIsRecent'
  BY <1>0, <1>1 DEF Recent, StartIsRecent, HoldsStart, ProcessPcs, ArmingPcs
<1>3. ElapsedIsPositive'
  BY <1>0 DEF Timing, StartInPast, ElapsedIsPositive
<1>4. OneOwner'
  BY <1>0 DEF Recent, OneOwner
<1>5. OffBeforeWrite'
  BY <1>0 DEF Recent, OffBeforeWrite, Tick
<1>6. CASE Handles
  <2>1. alrae => \E m \in 0 .. now : now - m <= stall /\ alrmar = AlarmStamp(m)
    BY <1>6 DEF Recent, MatchIsRecent
  <2>2. stall' = stall + 1 /\ stall < MaxStall
    BY <1>1, <1>6 DEF Handles, BeforeWrite
  <2>3. MatchIsRecent'
    BY <1>0, <2>1, <2>2 DEF MatchIsRecent
  <2>4. alrae => AlarmStamp(now + 1) # alrmar
    <3> SUFFICES ASSUME alrae PROVE AlarmStamp(now + 1) # alrmar
      OBVIOUS
    <3>1. PICK m \in 0 .. now : now - m <= stall /\ alrmar = AlarmStamp(m)
      BY <2>1
    <3>2. m \in Nat /\ m < now + 1 /\ now + 1 - m < Month
      BY <2>2, <3>1
    <3> QED BY <3>1, <3>2, StampsDiffer
  <2>5. exti' = exti
    BY <2>4 DEF Tick
  <2>6. OneMatch'
    BY <1>0, <2>5 DEF Recent, OneMatch
  <2> QED BY <1>2, <1>3, <1>4, <1>5, <2>3, <2>6 DEF Recent
<1>7. CASE ~Handles
  <2>1. exti' => alrae /\ AlarmStamp(now + 1) = alrmar
    BY <1>7 DEF Tick, Handles
  <2>2. MatchIsRecent'
    <3> SUFFICES ASSUME Handles', alrae' PROVE \E m \in 0 .. now' : now' - m <= stall' /\ alrmar' = AlarmStamp(m)
      BY DEF MatchIsRecent
    <3>1. exti'
      BY <1>0, <1>7 DEF Handles
    <3>2. stall' \in Nat
      BY DEF Tick
    <3> QED BY <1>0, <2>1, <3>1, <3>2
  <2>3. OneMatch'
    BY <1>0, <1>7, <2>1 DEF Recent, OneMatch, OffBeforeWrite, Handles
  <2> QED BY <1>2, <1>3, <1>4, <1>5, <2>2, <2>3 DEF Recent
<1> QED BY <1>6, <1>7

LEMMA RecentHandler ==
  ASSUME TypeOK, Exclusion, Timing, Recent, SchedulerProcess("isr")
  PROVE  Recent'
<1> USE DEF Recent, StartIsRecent, ElapsedIsPositive, OneOwner, OffBeforeWrite, MatchIsRecent, OneMatch,
            Handles, HoldsStart, BeforeWrite, HoldPcs, Contexts, clock, alarm, control, At, Goto, TypeOK
<1>0. /\ ~halLock => pc["task"] \notin HoldPcs
      /\ pc["task"] \notin {"elapsed", "age"}
  BY DEF Exclusion, Roles
<1>00. pc["task"] = "write" => pc["isr"] = "idle"
  BY DEF Exclusion, SilentStopped, StartsStopped, AlarmOff, IsrIdle, StartPcs, ArmedPcs, ArmingPcs
<1>1. CASE ProcessEnter("isr")
  BY <1>1 DEF ProcessEnter
<1>2. CASE ReadElapsed("isr")
  BY <1>2 DEF ReadElapsed, AfterProcess
<1>3. CASE ProcessAge("isr")
  BY <1>3 DEF ProcessAge
<1>4. CASE SearchNextJob("isr")
  BY <1>4 DEF SearchNextJob, AfterProcess
<1>5. CASE ReadStart("isr")
  BY <1>5 DEF ReadStart
<1>6. CASE CheckFuture("isr")
  BY <1>6 DEF CheckFuture, NotArmed, AfterProcess
<1>7. CASE LockHal("isr")
  BY <1>0, <1>7 DEF LockHal, NotArmed, AfterProcess
<1>8. CASE DisableAlarm("isr")
  BY <1>8 DEF DisableAlarm
<1>9. CASE WriteAlarm("isr")
  BY <1>00, <1>9 DEF WriteAlarm
<1>10. CASE GiveUp("isr")
  BY <1>10 DEF GiveUp, NotArmed, AfterProcess
<1>11. CASE UnlockHal("isr")
  BY <1>11 DEF UnlockHal
<1>12. CASE SetRunning("isr")
  BY <1>12 DEF SetRunning, AfterProcess
<1> QED
  BY <1>1, <1>2, <1>3, <1>4, <1>5, <1>6, <1>7, <1>8, <1>9, <1>10, <1>11, <1>12
  DEF SchedulerProcess

LEMMA RecentTask ==
  ASSUME TypeOK, Exclusion, Timing, Recent, SchedulerProcess("task")
  PROVE  Recent'
<1> USE DEF Recent, StartIsRecent, ElapsedIsPositive, OneOwner, OffBeforeWrite, MatchIsRecent, OneMatch,
            Handles, HoldsStart, BeforeWrite, HoldPcs, Contexts, clock, alarm, control, At, Goto, TypeOK
<1>0. /\ IsrIdle
      /\ pc["task"] \in {"start", "check", "lock", "disable", "write"} => ~isRunning
      /\ halLock => pc["task"] \in HoldPcs
  BY ProcessFrame DEF Exclusion, StartsStopped, LockHeld, IsrIdle, StartPcs, ArmingPcs
<1>1. CASE ProcessEnter("task")
  BY <1>0, <1>1 DEF ProcessEnter, IsrIdle
<1>2. CASE ReadElapsed("task") \/ ProcessAge("task")
  BY <1>0, <1>2 DEF ReadElapsed, ProcessAge, Exclusion, Roles
<1>4. CASE SearchNextJob("task")
  BY <1>0, <1>4 DEF SearchNextJob, AfterProcess, IsrIdle
<1>5. CASE ReadStart("task")
  BY <1>0, <1>5 DEF ReadStart, IsrIdle
<1>6. CASE CheckFuture("task")
  BY <1>0, <1>6 DEF CheckFuture, NotArmed, AfterProcess, IsrIdle
<1>7. CASE LockHal("task")
  BY <1>0, <1>7 DEF LockHal, NotArmed, AfterProcess, IsrIdle
<1>8. CASE DisableAlarm("task")
  BY <1>0, <1>8 DEF DisableAlarm, IsrIdle
<1>9. CASE WriteAlarm("task")
  BY <1>0, <1>9 DEF WriteAlarm, IsrIdle
<1>10. CASE GiveUp("task")
  BY <1>0, <1>10 DEF GiveUp, NotArmed, AfterProcess, IsrIdle
<1>11. CASE UnlockHal("task")
  BY <1>0, <1>11 DEF UnlockHal, IsrIdle
<1>12. CASE SetRunning("task")
  BY <1>0, <1>12 DEF SetRunning, AfterProcess, IsrIdle
<1> QED
  BY <1>1, <1>2, <1>4, <1>5, <1>6, <1>7, <1>8, <1>9, <1>10, <1>11, <1>12
  DEF SchedulerProcess

LEMMA RecentStop ==
  ASSUME TypeOK, Exclusion, Recent, SchedulerStop
  PROVE  Recent'
<1> USE DEF Recent, StartIsRecent, ElapsedIsPositive, OneOwner, OffBeforeWrite, MatchIsRecent, OneMatch,
            Handles, HoldsStart, BeforeWrite, HoldPcs, Contexts, clock, alarm, control, At, Goto, TypeOK
<1>0. IsrIdle
  BY StopFrame
<1>1. CASE StopEnter
  BY <1>0, <1>1 DEF StopEnter, IsrIdle
<1>2. CASE StopLock
  BY <1>0, <1>2 DEF StopLock, IsrIdle
<1>3. CASE StopDisable
  BY <1>0, <1>3 DEF StopDisable, IsrIdle
<1>4. CASE StopUnlock
  BY <1>0, <1>4 DEF StopUnlock, IsrIdle
<1>5. CASE StopReadElapsed
  BY <1>0, <1>5 DEF StopReadElapsed, IsrIdle
<1>6. CASE StopAge
  BY <1>0, <1>6 DEF StopAge, IsrIdle
<1>7. CASE Stopped
  BY <1>0, <1>7 DEF Stopped, IsrIdle
<1> QED BY <1>1, <1>2, <1>3, <1>4, <1>5, <1>6, <1>7 DEF SchedulerStop

LEMMA RecentStep ==
  ASSUME MaxStall < Month, TypeOK, Exclusion, Timing, Recent, [Next]_vars
  PROVE  Recent'
<1> USE DEF Recent, StartIsRecent, ElapsedIsPositive, OneOwner, OffBeforeWrite, MatchIsRecent, OneMatch,
            Handles, HoldsStart, BeforeWrite, HoldPcs, Contexts, clock, alarm, control, At, Goto, TypeOK
<1>1. CASE Tick
  BY <1>1, RecentTick
<1>2. CASE AlarmIRQHandler
  BY <1>2 DEF AlarmIRQHandler
<1>3. ASSUME NEW c \in Contexts, SchedulerProcess(c) PROVE Recent'
  BY <1>3, RecentHandler, RecentTask
<1>4. ASSUME NEW c \in Contexts, SchedulerExecutePendingJobs(c) PROVE Recent'
  BY <1>4, ExecuteFrame DEF ExecutePcs
<1>5. CASE SchedulerStop
  BY <1>5, RecentStop
<1>6. CASE Client
  BY <1>6, ClientFrame DEF IsrIdle
<1>7. CASE UNCHANGED vars
  BY <1>7 DEF vars
<1> QED BY <1>1, <1>2, <1>3, <1>4, <1>5, <1>6, <1>7 DEF Next, Running

-----------------------------------------------------------------------------
(* The job and the moment the alarm is set for *)

\* No due time overflows: the clock's bound and a period fit into uint32_t.
NoOverflow == \A p \in Periods : MaxNow + p < W

PeriodsFit == \A i \in Configured : MaxNow + period[i] < W

JobIsNext ==
  \A c \in Contexts : pc[c] = "start" /\ numOfJobs > 0 => job[c] \in Configured /\ IsNextJob(job[c])

EpochIsNextDue ==
  \A c \in Contexts : pc[c] \in {"check", "lock", "disable", "write"} /\ numOfJobs > 0 =>
    \E i \in Configured : IsNextJob(i) /\ epoch[c] = NextDue(i)

Chosen == PeriodsFit /\ JobIsNext /\ EpochIsNextDue

LEMMA ChosenInit == Init => Chosen
  BY DEF Init, Chosen, PeriodsFit, JobIsNext, EpochIsNextDue, Configured, Indices, Contexts

\* What is left of a job can be added to the clock.
LEMMA SumFits ==
  ASSUME TypeOK, JobsInRange, PeriodsFit, NEW i \in Configured
  PROVE  /\ remainingTime[i] \in Nat /\ period[i] \in Nat
         /\ (now + remainingTime[i]) % W = now + remainingTime[i]
<1>1. i \in Indices
  BY DEF Configured
<1>2. remainingTime[i] \in Nat /\ period[i] \in Nat /\ remainingTime[i] <= period[i]
  BY <1>1 DEF TypeOK, JobsInRange
<1>3. now + remainingTime[i] \in 0 .. (W - 1)
  BY <1>2 DEF TypeOK, PeriodsFit
<1>4. (now + remainingTime[i]) % W = now + remainingTime[i]
  BY <1>3
<1> QED BY <1>2, <1>4

\* A step that leaves the table and the times of the contexts alone, and does not
\* bring a context to the setting of the alarm.
LEMMA ChosenFrame ==
  ASSUME Chosen, UNCHANGED <<numOfJobs, period, remainingTime, startTime>>,
         \A c \in Contexts : pc'[c] \in {"start", "check", "lock", "disable", "write"} =>
           /\ pc'[c] = pc[c] \/ (pc[c] \in {"check", "lock", "disable"} /\ pc'[c] # "start")
           /\ job'[c] = job[c] /\ epoch'[c] = epoch[c]
  PROVE  Chosen'
<1>1. Configured' = Configured
  BY DEF Configured
<1>2. PeriodsFit'
  BY <1>1 DEF Chosen, PeriodsFit
<1>3. \A i \in Configured : (IsNextJob(i) <=> IsNextJob(i)') /\ NextDue(i)' = NextDue(i)
  BY <1>1 DEF IsNextJob, NextDue
<1>4. JobIsNext'
  BY <1>1, <1>3 DEF Chosen, JobIsNext, IsNextJob
<1>5. EpochIsNextDue'
  <2> SUFFICES ASSUME NEW c \in Contexts, pc'[c] \in {"check", "lock", "disable", "write"}, numOfJobs > 0
               PROVE  \E i \in Configured' : IsNextJob(i)' /\ epoch'[c] = NextDue(i)'
    BY DEF EpochIsNextDue
  <2>1. pc[c] \in {"check", "lock", "disable", "write"} /\ epoch'[c] = epoch[c]
    OBVIOUS
  <2>2. PICK i \in Configured : IsNextJob(i) /\ epoch[c] = NextDue(i)
    BY <2>1 DEF Chosen, EpochIsNextDue
  <2> QED BY <1>1, <1>3, <2>1, <2>2
<1> QED BY <1>2, <1>4, <1>5 DEF Chosen

LEMMA ChosenProcess ==
  ASSUME TypeOK, Exclusion, Timing, Chosen, NEW c \in Contexts, SchedulerProcess(c)
  PROVE  Chosen'
<1> USE DEF Contexts, clock, alarm, control, table, locals, history, At, Goto
<1>0. \A d \in Contexts : d # c => pc[d] \notin {"start", "check", "lock", "disable", "write"} /\ pc'[d] = pc[d]
  BY ProcessFrame DEF Exclusion, SilentStopped, StartsStopped, AlarmOff, IsrIdle, StartPcs, ArmedPcs,
     ArmingPcs, ProcessPcs, TypeOK
<1>00. Configured' = Configured /\ PeriodsFit'
  BY ProcessFrame DEF Configured, Chosen, PeriodsFit
<1>1. CASE ProcessEnter(c)
  BY <1>0, <1>1, ChosenFrame DEF ProcessEnter, TypeOK
<1>2. CASE ReadElapsed(c)
  BY <1>0, <1>2, ChosenFrame DEF ReadElapsed, AfterProcess, TypeOK
<1>3. CASE ProcessAge(c)
  <2>1. \A d \in Contexts : pc'[d] \notin {"start", "check", "lock", "disable", "write"}
    BY <1>0, <1>3 DEF ProcessAge, TypeOK
  <2> QED BY <1>00, <2>1 DEF Chosen, JobIsNext, EpochIsNextDue
<1>4. CASE SearchNextJob(c)
  <2>0. UNCHANGED <<numOfJobs, remainingTime>>
    BY <1>4 DEF SearchNextJob
  <2>1. PICK i \in Configured \union {0} :
          /\ IsNextJob(i)
          /\ IF remainingTime[i] > 0
             THEN job' = [job EXCEPT ![c] = i] /\ Goto(c, "start")
             ELSE UNCHANGED job /\ Goto(c, AfterProcess(c))
    BY <1>4 DEF SearchNextJob
  <2>2. \A d \in Contexts : pc'[d] \notin {"check", "lock", "disable", "write"}
    BY <1>0, <2>1 DEF AfterProcess, TypeOK
  <2>3. numOfJobs > 0 => i \in Configured
    BY <2>1 DEF Configured, Indices
  <2>4. IsNextJob(i)'
    BY <1>00, <2>0, <2>1 DEF IsNextJob
  <2>5. \A d \in Contexts : pc'[d] = "start" => d = c /\ job'[d] = i
    BY <1>0, <2>1 DEF AfterProcess, TypeOK
  <2>6. JobIsNext'
    BY <1>00, <2>0, <2>3, <2>4, <2>5 DEF JobIsNext
  <2> QED BY <1>00, <2>2, <2>6 DEF Chosen, EpochIsNextDue
<1>5. CASE ReadStart(c)
  <2>0. /\ UNCHANGED <<now, numOfJobs, remainingTime>> /\ startTime' = now
        /\ epoch' = [epoch EXCEPT ![c] = (now + remainingTime[job[c]]) % W]
        /\ pc[c] = "start" /\ pc' = [pc EXCEPT ![c] = "check"]
    BY <1>5 DEF ReadStart
  <2>1. \A d \in Contexts : pc'[d] # "start" /\ (pc'[d] \in {"check", "lock", "disable", "write"} => d = c)
    BY <1>0, <2>0 DEF TypeOK
  <2>2. EpochIsNextDue'
    <3> SUFFICES ASSUME numOfJobs > 0
                 PROVE  \E i \in Configured' : IsNextJob(i)' /\ epoch'[c] = NextDue(i)'
      BY <2>0, <2>1 DEF EpochIsNextDue
    <3>1. PICK i \in Configured : i = job[c] /\ IsNextJob(i)
      BY <2>0 DEF Chosen, JobIsNext
    <3>2. IsNextJob(i)'
      BY <1>00, <2>0, <3>1 DEF IsNextJob
    <3>3. epoch'[c] = now + remainingTime[i]
      BY <2>0, <3>1, SumFits DEF TypeOK, Timing, Chosen
    <3> QED BY <1>00, <2>0, <3>1, <3>2, <3>3 DEF NextDue
  <2> QED BY <1>00, <2>1, <2>2 DEF Chosen, JobIsNext
<1>6. CASE CheckFuture(c) \/ LockHal(c)
  BY <1>0, <1>6, ChosenFrame DEF CheckFuture, LockHal, NotArmed, AfterProcess, TypeOK
<1>8. CASE DisableAlarm(c) \/ WriteAlarm(c)
  BY <1>0, <1>8, ChosenFrame DEF DisableAlarm, WriteAlarm, TypeOK
<1>10. CASE GiveUp(c)
  BY <1>0, <1>10, ChosenFrame DEF GiveUp, NotArmed, AfterProcess, TypeOK
<1>11. CASE UnlockHal(c) \/ SetRunning(c)
  BY <1>0, <1>11, ChosenFrame DEF UnlockHal, SetRunning, AfterProcess, TypeOK
<1> QED
  BY <1>1, <1>2, <1>3, <1>4, <1>5, <1>6, <1>8, <1>10, <1>11
  DEF SchedulerProcess

LEMMA ChosenClient ==
  ASSUME NoOverflow, TypeOK, Chosen, Client
  PROVE  Chosen'
<1>0. \A c \in Contexts : pc'[c] \notin {"start", "check", "lock", "disable", "write"}
  BY ClientFrame DEF IsrIdle, Contexts, Goto, TypeOK
<1>1. PeriodsFit'
  <2>1. CASE SchedulerInit
    BY <2>1 DEF SchedulerInit, PeriodsFit, Configured, Indices
  <2>2. CASE CallProcess \/ CallStop \/ CallExecute
    BY <2>2 DEF CallProcess, CallStop, CallExecute, table, Chosen, PeriodsFit, Configured
  <2>3. ASSUME NEW p \in Periods, SchedulerAddJob(p) PROVE PeriodsFit'
    <3>1. CASE Accepts
      <4>1. numOfJobs' = numOfJobs + 1 /\ period' = [period EXCEPT ![numOfJobs] = p]
        BY <2>3, <3>1 DEF SchedulerAddJob
      <4>2. \A i \in Configured' : i \in Indices /\ (i \in Configured \/ i = numOfJobs)
        BY <4>1 DEF Configured, Indices, TypeOK
      <4>3. \A i \in Indices : period'[i] = IF i = numOfJobs THEN p ELSE period[i]
        BY <4>1 DEF TypeOK
      <4> QED BY <4>2, <4>3 DEF NoOverflow, Chosen, PeriodsFit
    <3>2. CASE ~Accepts
      BY <2>3, <3>2 DEF SchedulerAddJob, Chosen, PeriodsFit, Configured
    <3> QED BY <3>1, <3>2
  <2> QED BY <2>1, <2>2, <2>3 DEF Client
<1> QED BY <1>0, <1>1 DEF Chosen, JobIsNext, EpochIsNextDue

LEMMA ChosenStep ==
  ASSUME NoOverflow, TypeOK, Exclusion, Timing, Chosen, [Next]_vars
  PROVE  Chosen'
<1> USE DEF clock, control, table, locals
<1>1. CASE Tick
  BY <1>1, ChosenFrame DEF Tick
<1>2. CASE AlarmIRQHandler
  BY <1>2, ChosenFrame DEF AlarmIRQHandler, Goto, Contexts, TypeOK
<1>3. ASSUME NEW c \in Contexts, SchedulerProcess(c) PROVE Chosen'
  BY <1>3, ChosenProcess
<1>4. ASSUME NEW c \in Contexts, SchedulerExecutePendingJobs(c) PROVE Chosen'
  BY <1>4, ExecuteFrame, ChosenFrame DEF ExecutePcs, Goto, Contexts, TypeOK
<1>5. CASE SchedulerStop
  <2>1. \A c \in Contexts : pc'[c] \notin {"start", "check", "lock", "disable", "write"}
    BY <1>5, StopFrame DEF StopPcs, IsrIdle, Goto, Contexts, TypeOK
  <2>2. PeriodsFit'
    BY <1>5, StopFrame DEF Chosen, PeriodsFit, Configured
  <2> QED BY <2>1, <2>2 DEF Chosen, JobIsNext, EpochIsNextDue
<1>6. CASE Client
  BY <1>6, ChosenClient
<1>7. CASE UNCHANGED vars
  BY <1>7, ChosenFrame DEF vars
<1> QED BY <1>1, <1>2, <1>3, <1>4, <1>5, <1>6, <1>7 DEF Next, Running

-----------------------------------------------------------------------------
(* The alarm *)

\* Every job has more time left than a call can take, or no second passes in one.
Roomy ==
  /\ numOfJobs > 0
  /\ MaxStall = 0 \/ \A i \in Configured : AlarmStamp(remainingTime[i]) > MaxStall

AlarmSet ==
  /\ alrae /\ alraie /\ ~alraf
  /\ \E i \in Configured : IsNextJob(i) /\ alrmar = AlarmStamp(NextDue(i))

Ahead == \A i \in Configured : now < NextDue(i)

\* The stop of the scheduler has gone past the point where it matters.
StopsPcs == SilentPcs \union {"stopDisable"}

\* A start succeeds, and no interrupt gets in before the scheduler runs.
StartsArmed ==
  Roomy /\ pc["task"] \in ArmedPcs /\ ~isRunning =>
    IsrIdle /\ AlarmSet /\ (pc["task"] = "running" => extiOn)

\* Either the handler is on its way to set the alarm, or the alarm is set.
StaysArmed ==
  Roomy /\ isRunning /\ pc["task"] \notin StopsPcs =>
    \/ Handles \/ pc["isr"] = "write"
    \/ AlarmSet /\ (extiOn \/ pc["isr"] = "unlock") /\ Ahead

Arming == StartsArmed /\ StaysArmed

\* d seconds and r seconds after s have different stamps when d is less than the
\* stamp of r.
LEMMA StampsAfter ==
  ASSUME NEW s \in Nat, NEW d \in Nat, NEW r \in Nat, d < AlarmStamp(r)
  PROVE  AlarmStamp(s + d) # AlarmStamp(s + r)
<1> SUFFICES ASSUME (s + d) % Month = (s + r) % Month PROVE FALSE
  BY DEF AlarmStamp
<1> DEFINE e == ((s + r) \div Month) - ((s + d) \div Month) - (r \div Month)
<1>1. /\ s + d = Month * ((s + d) \div Month) + ((s + d) % Month)
      /\ s + r = Month * ((s + r) \div Month) + ((s + r) % Month)
      /\ r = Month * (r \div Month) + (r % Month)
  OBVIOUS
<1>2. e \in Int /\ (r % Month) - d = Month * e
  BY <1>1
<1>3. r % Month \in 0 .. (Month - 1) /\ d < r % Month
  BY Remainder DEF AlarmStamp
<1>4. CASE e <= 0
  <2>1. Month * e <= 0
    BY <1>2, <1>4
  <2> QED BY <1>2, <1>3, <2>1
<1>5. CASE e >= 1
  <2>1. Month * e >= Month
    BY <1>2, <1>5
  <2> QED BY <1>2, <1>3, <2>1
<1> QED BY <1>2, <1>4, <1>5

LEMMA StampBelow ==
  ASSUME NEW r \in Nat PROVE AlarmStamp(r) <= r
  BY DEF AlarmStamp

\* As long as startTime is recent no job is due, and none of the next jobs' alarms
\* matches at the next second.
LEMMA RoomAhead ==
  ASSUME TypeOK, Timing, Roomy, now - startTime <= stall
  PROVE  /\ Ahead
         /\ stall < MaxStall => \A i \in Configured : AlarmStamp(now + 1) # AlarmStamp(NextDue(i))
<1>1. startTime \in Nat /\ now \in Nat /\ startTime <= now /\ stall \in 0 .. MaxStall
  BY DEF TypeOK, Timing, StartInPast
<1>2. CASE MaxStall = 0
  <2>1. startTime = now /\ ~(stall < MaxStall)
    BY <1>1, <1>2
  <2>2. \A i \in Configured : remainingTime[i] >= 1 /\ remainingTime[i] \in Int
    BY DEF Timing, JobsInRange, TypeOK, Configured
  <2> QED BY <1>1, <2>1, <2>2 DEF Ahead, NextDue
<1> SUFFICES ASSUME MaxStall # 0
             PROVE  /\ Ahead
                    /\ stall < MaxStall => \A i \in Configured : AlarmStamp(now + 1) # AlarmStamp(NextDue(i))
  BY <1>2
<1>3. ASSUME NEW i \in Configured
      PROVE  remainingTime[i] \in Nat /\ AlarmStamp(remainingTime[i]) > MaxStall /\ AlarmStamp(remainingTime[i]) \in Nat
  <2>1. remainingTime[i] \in 0 .. (W - 1)
    BY DEF Configured, TypeOK
  <2> QED BY <2>1, StampType DEF Roomy
<1>4. Ahead
  <2> SUFFICES ASSUME NEW i \in Configured PROVE now < NextDue(i)
    BY DEF Ahead
  <2>1. AlarmStamp(remainingTime[i]) <= remainingTime[i]
    BY <1>3, StampBelow
  <2> QED BY <1>1, <1>3, <2>1 DEF NextDue
<1>5. ASSUME stall < MaxStall, NEW i \in Configured
      PROVE  AlarmStamp(now + 1) # AlarmStamp(NextDue(i))
  <2> DEFINE d == now + 1 - startTime
  <2>1. d \in Nat /\ now + 1 = startTime + d
    BY <1>1
  <2>2. d < AlarmStamp(remainingTime[i])
    BY <1>1, <1>3, <1>5
  <2>3. AlarmStamp(startTime + d) # AlarmStamp(startTime + remainingTime[i])
    BY <1>1, <1>3, <2>1, <2>2, StampsAfter
  <2> QED BY <2>1, <2>3 DEF NextDue
<1> QED BY <1>4, <1>5

\* What depends on the table only.
LEMMA TableFrame ==
  ASSUME UNCHANGED <<numOfJobs, remainingTime>>
  PROVE  /\ Configured' = Configured /\ Roomy' = Roomy
         /\ \A i : IsNextJob(i)' = IsNextJob(i)
  BY DEF Configured, Roomy, IsNextJob

LEMMA AlarmFrame ==
  ASSUME UNCHANGED <<numOfJobs, remainingTime, startTime, alrae, alraie, alraf, alrmar>>
  PROVE  AlarmSet' = AlarmSet
  BY TableFrame DEF AlarmSet, NextDue

\* With room, the handler is only at work while the scheduler runs.
LEMMA HandlerRuns ==
  ASSUME TypeOK, Exclusion, Arming, Roomy, ~IsrIdle
  PROVE  isRunning
  BY DEF Exclusion, SilentStopped, AlarmOff, Arming, StartsArmed

LEMMA ArmingTick ==
  ASSUME TypeOK, Exclusion, Timing, Recent, Arming, Tick
  PROVE  Arming'
<1>0. UNCHANGED <<pc, numOfJobs, remainingTime, startTime, isRunning, alrae, alraie, alrmar, extiOn>> /\ now' = now + 1
  BY DEF Tick, table, control
<1>00. exti => exti'
  BY DEF Tick
<1> SUFFICES ASSUME Roomy PROVE Arming'
  BY <1>0, TableFrame DEF Arming, StartsArmed, StaysArmed
<1>1. Configured' = Configured /\ \A i \in Configured : NextDue(i)' = NextDue(i)
  BY <1>0, TableFrame DEF NextDue
<1>2. ~(alrae /\ AlarmStamp(now + 1) = alrmar) => alraf' = alraf /\ exti' = exti
  BY DEF Tick, TypeOK
<1>3. alraf' = alraf => AlarmSet' = AlarmSet
  BY <1>0, AlarmFrame
<1>4. ASSUME AlarmSet, NEW c \in Contexts, pc[c] \in ArmedPcs
      PROVE  AlarmStamp(now + 1) # alrmar
  <2>1. now - startTime <= stall
    BY <1>4 DEF Recent, StartIsRecent, HoldsStart, ArmedPcs
  <2>2. Busy
    BY <1>4 DEF Busy, IsrIdle, Contexts, ArmedPcs, ProcessPcs
  <2>3. stall < MaxStall
    BY <2>2 DEF Tick
  <2> QED BY <1>4, <2>1, <2>3, RoomAhead DEF AlarmSet
<1>5. StartsArmed'
  BY <1>0, <1>2, <1>3, <1>4 DEF Arming, StartsArmed, IsrIdle, Contexts
<1>6. StaysArmed'
  <2> SUFFICES ASSUME isRunning, pc["task"] \notin StopsPcs, ~Handles, pc["isr"] # "write"
               PROVE  \/ exti'
                      \/ AlarmSet' /\ (extiOn \/ pc["isr"] = "unlock") /\ Ahead'
    BY <1>0, <1>00 DEF StaysArmed, Handles
  <2>1. AlarmSet /\ (extiOn \/ pc["isr"] = "unlock") /\ Ahead
    BY DEF Arming, StaysArmed
  <2>2. CASE AlarmStamp(now + 1) = alrmar
    <3>1. pc["isr"] # "unlock"
      BY <1>4, <2>1, <2>2 DEF Contexts, ArmedPcs
    <3> QED BY <2>1, <2>2, <3>1 DEF AlarmSet, Tick
  <2>3. CASE AlarmStamp(now + 1) # alrmar
    <3>1. AlarmSet'
      BY <1>2, <1>3, <2>1, <2>3
    <3>2. PICK i \in Configured : IsNextJob(i) /\ alrmar = AlarmStamp(NextDue(i))
      BY <2>1 DEF AlarmSet
    <3>3. now + 1 # NextDue(i) /\ now < NextDue(i)
      BY <2>1, <2>3, <3>2 DEF Ahead
    <3>4. \A k \in Configured : remainingTime[k] \in Nat /\ remainingTime[i] <= remainingTime[k]
      BY <3>2 DEF IsNextJob, Configured, TypeOK
    <3>5. Ahead'
      BY <1>0, <1>1, <3>3, <3>4 DEF Ahead, NextDue, TypeOK
    <3> QED BY <2>1, <3>1, <3>5
  <2> QED BY <2>2, <2>3
<1> QED BY <1>5, <1>6 DEF Arming

\* A step that leaves the table, the alarm and the state of the scheduler alone,
\* takes no handler off its way to the alarm and no stop back.
LEMMA ArmingFrame ==
  ASSUME Arming, TypeOK, Exclusion,
         UNCHANGED <<numOfJobs, remainingTime, startTime, now, isRunning,
                     alrae, alraie, alraf, alrmar, extiOn, exti>>,
         pc'["isr"] = pc["isr"] \/ (pc["isr"] \notin BeforeWrite \union {"write", "unlock", "idle"}
                                    /\ pc'["isr"] \notin {"unlock"}),
         pc'["task"] \in ArmedPcs => pc'["task"] = pc["task"] /\ pc'["isr"] = pc["isr"],
         pc["task"] \in StopsPcs => pc'["task"] \in StopsPcs
  PROVE  Arming'
<1>1. Roomy' = Roomy /\ AlarmSet' = AlarmSet /\ Ahead' = Ahead
  BY TableFrame, AlarmFrame DEF Ahead, NextDue
<1>2. StartsArmed'
  BY <1>1 DEF Arming, StartsArmed, IsrIdle
<1>3. StaysArmed'
  BY <1>1 DEF Arming, StaysArmed, Handles
<1> QED BY <1>2, <1>3 DEF Arming

\* What the handler finds while it works for a scheduler that has room.
LEMMA HandlerFacts ==
  ASSUME TypeOK, Exclusion, Timing, Recent, Chosen, Arming, Roomy, pc["isr"] # "idle"
  PROVE  /\ isRunning /\ ~IsrIdle
         /\ pc["task"] \notin {"disable", "write", "unlock", "timedOut"}
         /\ pc["isr"] \in HoldsStart => Ahead
<1>1. ~IsrIdle
  BY DEF IsrIdle
<1>2. isRunning
  BY <1>1, HandlerRuns
<1>3. pc["task"] \notin {"disable", "write", "unlock", "timedOut"}
  BY <1>2 DEF Exclusion, StartsStopped, StartPcs, ArmingPcs, Recent, OneOwner
<1>4. pc["isr"] \in HoldsStart => now - startTime <= stall
  BY DEF Recent, StartIsRecent, Contexts
<1> QED BY <1>1, <1>2, <1>3, <1>4, RoomAhead

LEMMA ArmingHandler ==
  ASSUME HalMayTimeOut = FALSE,
         TypeOK, Exclusion, Timing, Recent, Chosen, Arming, SchedulerProcess("isr")
  PROVE  Arming'
<1> USE DEF clock, alarm, control, table, locals, history, At, Goto
<1>0. /\ pc["isr"] \in ProcessPcs /\ pc["isr"] # "idle" /\ "isr" \in Contexts
      /\ pc'["task"] = pc["task"] /\ UNCHANGED <<now, stall, numOfJobs>>
  BY ProcessFrame DEF ProcessPcs, ArmingPcs, Contexts, TypeOK
<1>1. CASE ProcessAge("isr")
  <2>1. isRunning /\ UNCHANGED isRunning
    BY <1>0, <1>1 DEF ProcessAge, Exclusion, IsrAges
  <2>2. pc'["isr"] = "search"
    BY <1>0, <1>1 DEF ProcessAge, TypeOK
  <2> QED BY <2>1, <2>2 DEF Arming, StartsArmed, StaysArmed, Handles, BeforeWrite
<1> SUFFICES ASSUME ~ProcessAge("isr") PROVE Arming'
  BY <1>1
<1>2. UNCHANGED <<remainingTime, extiOn>> \/ pc["isr"] = "unlock"
  BY DEF SchedulerProcess, ProcessEnter, ReadElapsed, SearchNextJob, ReadStart, CheckFuture,
     LockHal, DisableAlarm, WriteAlarm, GiveUp, UnlockHal, SetRunning
<1>3. UNCHANGED remainingTime
  BY DEF SchedulerProcess, ProcessEnter, ReadElapsed, SearchNextJob, ReadStart, CheckFuture,
     LockHal, DisableAlarm, WriteAlarm, GiveUp, UnlockHal, SetRunning
<1> SUFFICES ASSUME Roomy PROVE Arming'
  BY <1>0, <1>3, TableFrame DEF Arming, StartsArmed, StaysArmed
<1>4. /\ isRunning /\ pc["task"] \notin {"disable", "write", "unlock", "timedOut"}
      /\ pc["isr"] \in HoldsStart => Ahead
  BY <1>0, HandlerFacts
<1>5. isRunning' = TRUE
  BY <1>4 DEF SchedulerProcess, ProcessEnter, ReadElapsed, SearchNextJob, ReadStart, CheckFuture,
     LockHal, DisableAlarm, WriteAlarm, GiveUp, UnlockHal, SetRunning
<1>6. StartsArmed'
  BY <1>5 DEF StartsArmed
<1> SUFFICES ASSUME pc["task"] \notin StopsPcs PROVE StaysArmed'
  BY <1>0, <1>6 DEF Arming, StaysArmed
<1> USE DEF StaysArmed, Handles, BeforeWrite
<1>7. CASE ProcessEnter("isr")
  <2>1. pc'["isr"] \in {"elapsed", "search"}
    BY <1>0, <1>7 DEF ProcessEnter, TypeOK
  <2> QED BY <2>1
<1>8. CASE ReadElapsed("isr")
  <2>1. now - startTime \in 1 .. (W - 1)
    BY <1>8 DEF ReadElapsed, Recent, ElapsedIsPositive, TypeOK
  <2>2. (now - startTime) % W = now - startTime
    <3>1. now - startTime \in Int /\ now - startTime \in 0 .. (W - 1)
      BY <2>1
    <3> QED BY <3>1, Remainder
  <2>3. pc'["isr"] = "age"
    BY <1>0, <1>8, <2>1, <2>2 DEF ReadElapsed, ElapsedTime, TypeOK
  <2> QED BY <2>3
<1>9. CASE SearchNextJob("isr")
  <2>1. PICK i \in Configured \union {0} :
          IF remainingTime[i] > 0
          THEN job' = [job EXCEPT !["isr"] = i] /\ Goto("isr", "start")
          ELSE UNCHANGED job /\ Goto("isr", AfterProcess("isr"))
    BY <1>9 DEF SearchNextJob
  <2>2. i \in Configured
    BY DEF Roomy, Configured, Indices
  <2>3. remainingTime[i] \in 1 .. period[i] /\ period[i] \in Nat
    BY <2>2 DEF Timing, JobsInRange, TypeOK, Configured
  <2>4. pc'["isr"] = "start"
    BY <1>0, <2>1, <2>3 DEF TypeOK
  <2> QED BY <2>4
<1>10. CASE ReadStart("isr")
  <2>1. pc'["isr"] = "check"
    BY <1>0, <1>10 DEF ReadStart, TypeOK
  <2> QED BY <2>1
<1>11. CASE CheckFuture("isr")
  <2>1. PICK i \in Configured : epoch["isr"] = NextDue(i)
    BY <1>0, <1>11 DEF CheckFuture, Chosen, EpochIsNextDue, Roomy
  <2>2. epoch["isr"] > now
    BY <1>4, <1>11, <2>1 DEF CheckFuture, HoldsStart, Ahead
  <2>3. pc'["isr"] = "lock"
    BY <1>0, <1>11, <2>2 DEF CheckFuture, TypeOK
  <2> QED BY <2>3
<1>12. CASE LockHal("isr")
  <2>1. ~halLock
    BY <1>4, <1>12 DEF LockHal, Exclusion, LockHeld, HoldPcs, Contexts, StopsPcs, SilentPcs
  <2>2. pc'["isr"] = "disable"
    BY <1>0, <1>12, <2>1 DEF LockHal, TypeOK
  <2> QED BY <2>2
<1>13. CASE DisableAlarm("isr")
  <2>1. pc'["isr"] = "write"
    BY <1>0, <1>13 DEF DisableAlarm, TypeOK
  <2> QED BY <2>1
<1>14. CASE WriteAlarm("isr")
  <2>1. PICK i \in Configured : IsNextJob(i) /\ epoch["isr"] = NextDue(i)
    BY <1>0, <1>14 DEF WriteAlarm, Chosen, EpochIsNextDue, Roomy
  <2>2. pc'["isr"] = "unlock" /\ alrae' /\ alraie' /\ ~alraf'
    BY <1>0, <1>14 DEF WriteAlarm, TypeOK, Recent, OffBeforeWrite
  <2>3. alrmar' = AlarmStamp(NextDue(i)) /\ UNCHANGED startTime
    BY <1>14, <2>1 DEF WriteAlarm
  <2>4. Configured' = Configured /\ IsNextJob(i)' /\ UNCHANGED <<startTime, remainingTime>>
    BY <1>0, <1>3, <2>1, <2>3, TableFrame
  <2>5. AlarmSet'
    <3>1. NextDue(i)' = NextDue(i)
      BY <2>4 DEF NextDue
    <3> QED BY <2>2, <2>3, <2>4, <3>1 DEF AlarmSet
  <2>6. Ahead'
    BY <1>0, <1>4, <1>14, <2>4 DEF WriteAlarm, HoldsStart, Ahead, NextDue
  <2> QED BY <2>2, <2>5, <2>6
<1>15. CASE UnlockHal("isr") \/ SetRunning("isr") \/ GiveUp("isr")
  <2>1. /\ UNCHANGED <<startTime, alrae, alraie, alraf, alrmar, exti>>
        /\ pc["isr"] \in {"unlock", "running", "timedOut"}
    BY <1>15 DEF UnlockHal, SetRunning, GiveUp, NotArmed
  <2>2. extiOn' \/ (pc["isr"] # "unlock" /\ extiOn' = extiOn)
    BY <1>15 DEF UnlockHal, SetRunning, GiveUp, NotArmed
  <2>3. AlarmSet' = AlarmSet /\ Ahead' = Ahead
    BY <1>0, <1>3, <2>1, TableFrame, AlarmFrame DEF Ahead, NextDue
  <2> QED BY <1>4, <2>1, <2>2, <2>3 DEF Arming
<1> QED
  BY <1>7, <1>8, <1>9, <1>10, <1>11, <1>12, <1>13, <1>14, <1>15 DEF SchedulerProcess

LEMMA ArmingTask ==
  ASSUME TypeOK, Exclusion, Timing, Recent, Chosen, Arming, SchedulerProcess("task")
  PROVE  Arming'
<1> USE DEF clock, alarm, control, table, locals, history, At, Goto
<1>0. /\ pc["task"] \in ProcessPcs /\ "task" \in Contexts /\ IsrIdle
      /\ pc'["isr"] = pc["isr"] /\ UNCHANGED <<now, stall, numOfJobs>>
  BY ProcessFrame DEF ProcessPcs, ArmingPcs, Contexts, TypeOK
<1>1. /\ pc["task"] # "running" => ~isRunning
      /\ pc["task"] \notin {"elapsed", "age"}
  BY <1>0 DEF Exclusion, StartsStopped, Roles, StartPcs, Recent, OneOwner, ProcessPcs
<1>2. UNCHANGED <<exti, remainingTime>> /\ (pc["task"] # "running" => UNCHANGED isRunning)
  BY <1>1 DEF SchedulerProcess, ProcessEnter, ReadElapsed, ProcessAge, SearchNextJob, ReadStart,
     CheckFuture, LockHal, DisableAlarm, WriteAlarm, GiveUp, UnlockHal, SetRunning
<1>3. IsrIdle'
  BY <1>0, <1>2 DEF IsrIdle
<1> SUFFICES ASSUME Roomy PROVE Arming'
  BY <1>0, <1>2, TableFrame DEF Arming, StartsArmed, StaysArmed
<1>4. CASE WriteAlarm("task")
  <2>1. PICK i \in Configured : IsNextJob(i) /\ epoch["task"] = NextDue(i)
    BY <1>0, <1>4 DEF WriteAlarm, Chosen, EpochIsNextDue, Roomy
  <2>2. pc'["task"] = "unlock" /\ alrae' /\ alraie' /\ ~alraf' /\ ~isRunning'
    BY <1>0, <1>1, <1>2, <1>4 DEF WriteAlarm, TypeOK, Recent, OffBeforeWrite
  <2>3. alrmar' = AlarmStamp(NextDue(i)) /\ UNCHANGED startTime
    BY <1>4, <2>1 DEF WriteAlarm
  <2>4. Configured' = Configured /\ IsNextJob(i)' /\ UNCHANGED <<startTime, remainingTime>>
    BY <1>0, <1>2, <2>1, <2>3, TableFrame
  <2>5. AlarmSet'
    <3>1. NextDue(i)' = NextDue(i)
      BY <2>4 DEF NextDue
    <3> QED BY <2>2, <2>3, <2>4, <3>1 DEF AlarmSet
  <2> QED BY <1>3, <2>2, <2>5 DEF Arming, StartsArmed, StaysArmed
<1>5. CASE UnlockHal("task")
  <2>1. /\ pc["task"] = "unlock" /\ pc'["task"] = "running" /\ extiOn' /\ ~isRunning /\ ~isRunning'
        /\ UNCHANGED <<startTime, alrae, alraie, alraf, alrmar>>
    BY <1>0, <1>1, <1>2, <1>5 DEF UnlockHal, TypeOK
  <2>2. AlarmSet'
    BY <1>0, <1>2, <2>1, AlarmFrame DEF Arming, StartsArmed, ArmedPcs
  <2> QED BY <1>3, <2>1, <2>2 DEF Arming, StartsArmed, StaysArmed
<1>6. CASE SetRunning("task")
  <2>1. /\ pc["task"] = "running" /\ pc'["task"] = "idle" /\ isRunning'
        /\ UNCHANGED <<startTime, alrae, alraie, alraf, alrmar, extiOn>>
    BY <1>0, <1>6 DEF SetRunning, AfterProcess, TypeOK
  <2>2. CASE isRunning
    <3>1. isRunning' = isRunning
      BY <1>6, <2>2 DEF SetRunning, TypeOK
    <3> QED BY <1>0, <1>2, <2>1, <3>1, ArmingFrame DEF ArmedPcs, StopsPcs, SilentPcs
  <2>3. CASE ~isRunning
    <3>1. AlarmSet /\ extiOn
      BY <2>1, <2>3 DEF Arming, StartsArmed, ArmedPcs
    <3>2. Ahead
      BY <1>0, <2>1, RoomAhead DEF Recent, StartIsRecent, HoldsStart
    <3>3. AlarmSet' /\ extiOn' /\ Ahead'
      BY <1>0, <1>2, <2>1, <3>1, <3>2, AlarmFrame, TableFrame DEF Ahead, NextDue
    <3> QED BY <2>1, <3>3 DEF Arming, StartsArmed, StaysArmed
  <2> QED BY <2>2, <2>3
<1>7. ASSUME ~WriteAlarm("task"), ~UnlockHal("task"), ~SetRunning("task") PROVE Arming'
  <2>1. pc["task"] # "running" /\ pc'["task"] \notin ArmedPcs
    BY <1>0, <1>1, <1>7 DEF SchedulerProcess, ProcessEnter, ReadElapsed, ProcessAge, SearchNextJob,
       ReadStart, CheckFuture, LockHal, DisableAlarm, GiveUp, NotArmed, AfterProcess, ArmedPcs, TypeOK
  <2>2. ~isRunning'
    BY <1>1, <1>2, <2>1
  <2> QED BY <2>1, <2>2 DEF Arming, StartsArmed, StaysArmed
<1> QED BY <1>4, <1>5, <1>6, <1>7

LEMMA ArmingStop ==
  ASSUME TypeOK, Exclusion, Arming, SchedulerStop
  PROVE  Arming'
<1> USE DEF clock, alarm, control, table, locals, history, At, Goto
<1>1. CASE StopEnter
  <2>1. pc'["task"] \in {"stopLock", "idle"} /\ pc'["isr"] = pc["isr"] /\ pc["task"] = "stop"
    BY <1>1 DEF StopEnter, TypeOK, Contexts
  <2> QED BY <1>1, <2>1, ArmingFrame DEF StopEnter, ArmedPcs, StopsPcs, SilentPcs
<1>2. CASE Stopped
  <2>1. pc'["task"] = "idle" /\ ~isRunning'
    BY <1>2 DEF Stopped, TypeOK, Contexts
  <2> QED BY <2>1 DEF Arming, StartsArmed, StaysArmed, ArmedPcs
<1>3. ASSUME ~StopEnter, ~Stopped PROVE Arming'
  <2>1. pc'["task"] \in StopsPcs
    BY <1>3 DEF SchedulerStop, StopLock, StopDisable, StopUnlock, StopReadElapsed, StopAge,
       StopsPcs, SilentPcs, TypeOK, Contexts
  <2> QED BY <2>1 DEF Arming, StartsArmed, StaysArmed, ArmedPcs, StopsPcs, SilentPcs
<1> QED BY <1>1, <1>2, <1>3

LEMMA ArmingClient ==
  ASSUME TypeOK, Exclusion, Arming, Client
  PROVE  Arming'
<1>0. /\ pc["task"] = "idle" /\ IsrIdle
      /\ pc'["task"] \in {"idle", "process", "stop", "execute"} /\ pc'["isr"] = pc["isr"]
      /\ UNCHANGED <<clock, alarm, halLock, isRunning>>
  BY ClientFrame DEF Goto, TypeOK, Contexts
<1>1. CASE ~isRunning
  BY <1>0, <1>1 DEF Arming, StartsArmed, StaysArmed, ArmedPcs
<1>2. CASE isRunning
  <2>1. UNCHANGED <<numOfJobs, remainingTime, startTime>>
    BY <1>2 DEF Client, SchedulerInit, CallProcess, CallStop, CallExecute, SchedulerAddJob, Accepts,
       control, table
  <2> QED BY <1>0, <2>1, ArmingFrame DEF clock, alarm, ArmedPcs, StopsPcs, SilentPcs
<1> QED BY <1>1, <1>2

LEMMA ArmingStep ==
  ASSUME HalMayTimeOut = FALSE,
         TypeOK, Exclusion, Timing, Recent, Chosen, Arming, [Next]_vars
  PROVE  Arming'
<1>1. CASE Tick
  BY <1>1, ArmingTick
<1>2. CASE AlarmIRQHandler
  <2>1. /\ pc'["isr"] = "process" /\ pc'["task"] = pc["task"] /\ ~IsrIdle
        /\ UNCHANGED <<numOfJobs, remainingTime, startTime, isRunning>>
    BY <1>2 DEF AlarmIRQHandler, Goto, IsrIdle, TypeOK, Contexts, table, control
  <2>2. StaysArmed'
    BY <2>1 DEF StaysArmed, Handles, BeforeWrite
  <2>3. StartsArmed'
    BY <2>1, TableFrame DEF Arming, StartsArmed
  <2> QED BY <2>2, <2>3 DEF Arming
<1>3. ASSUME NEW c \in Contexts, SchedulerProcess(c) PROVE Arming'
  BY <1>3, ArmingHandler, ArmingTask DEF Contexts
<1>4. ASSUME NEW c \in Contexts, SchedulerExecutePendingJobs(c) PROVE Arming'
  <2>1. CASE UNCHANGED pc
    BY <1>4, <2>1, ExecuteFrame, ArmingFrame DEF clock, alarm, control
  <2>2. ASSUME NEW l \in ExecutePcs \union {"idle"}, Goto(c, l) PROVE Arming'
    <3>1. /\ c = "task" => pc'["isr"] = pc["isr"] /\ pc'["task"] \in ExecutePcs \union {"idle"} /\ pc["task"] \in ExecutePcs
          /\ c = "isr" => pc'["task"] = pc["task"] /\ pc'["isr"] \in ExecutePcs \union {"idle"} /\ pc["isr"] \in ExecutePcs
      BY <1>4, <2>2, ExecuteFrame DEF Goto, TypeOK, Contexts
    <3>2. CASE c = "task"
      BY <1>4, <3>1, <3>2, ExecuteFrame, ArmingFrame
      DEF clock, alarm, control, ExecutePcs, ArmedPcs, StopsPcs, SilentPcs
    <3>3. CASE c = "isr"
      <4>1. pc["task"] \in ArmedPcs => isRunning \/ ~Roomy
        BY <3>1, <3>3 DEF Arming, StartsArmed, IsrIdle, ExecutePcs
      <4>2. UNCHANGED <<numOfJobs, remainingTime, startTime, now, isRunning,
                        alrae, alraie, alraf, alrmar, extiOn, exti>>
        BY <1>4, ExecuteFrame DEF clock, alarm, control
      <4>3. Roomy' = Roomy /\ AlarmSet' = AlarmSet /\ Ahead' = Ahead
        BY <4>2, TableFrame, AlarmFrame DEF Ahead, NextDue
      <4>4. StartsArmed'
        BY <3>1, <3>3, <4>1, <4>2, <4>3 DEF StartsArmed
      <4>5. StaysArmed'
        BY <3>1, <3>3, <4>2, <4>3 DEF Arming, StaysArmed, Handles, BeforeWrite, ExecutePcs
      <4> QED BY <4>4, <4>5 DEF Arming
    <3> QED BY <3>2, <3>3 DEF Contexts
  <2> QED BY <1>4, <2>1, <2>2, ExecuteFrame
<1>5. CASE SchedulerStop
  BY <1>5, ArmingStop
<1>6. CASE Client
  BY <1>6, ArmingClient
<1>7. CASE UNCHANGED vars
  BY <1>7, ArmingFrame DEF vars, clock, alarm, control, table
<1> QED BY <1>1, <1>2, <1>3, <1>4, <1>5, <1>6, <1>7 DEF Next, Running

LEMMA ArmingInit == Init => Arming
  BY DEF Init, Arming, StartsArmed, StaysArmed, Roomy

-----------------------------------------------------------------------------
(* The theorem *)

\* A stall of a month or more leaves no job with room.
LEMMA NoRoom == TypeOK /\ MaxStall >= Month => ~Roomy
<1> SUFFICES ASSUME TypeOK, MaxStall >= Month, Roomy PROVE FALSE
  OBVIOUS
<1>1. 0 \in Configured /\ 0 \in Indices
  BY DEF Roomy, Configured, Indices, TypeOK
<1>2. AlarmStamp(remainingTime[0]) \in 0 .. (Month - 1)
  BY <1>1, StampType DEF TypeOK
<1>3. AlarmStamp(remainingTime[0]) > MaxStall
  BY <1>1 DEF Roomy
<1> QED BY <1>2, <1>3

LEMMA ArmingArms ==
  ASSUME TypeOK, Arming, isRunning, ~Busy, Roomy
  PROVE  Armed
<1>1. AlarmSet /\ extiOn /\ Ahead
  BY DEF Arming, StaysArmed, Busy, IsrIdle, Handles, BeforeWrite, StopsPcs, SilentPcs, StopPcs
<1>2. PICK i \in Configured : IsNextJob(i) /\ alrmar = AlarmStamp(NextDue(i))
  BY <1>1 DEF AlarmSet
<1>3. \A k \in Configured : NextDue(i) <= NextDue(k)
  <2> SUFFICES ASSUME NEW k \in Configured PROVE NextDue(i) <= NextDue(k)
    OBVIOUS
  <2>1. remainingTime[i] <= remainingTime[k] /\ remainingTime[i] \in Int /\ remainingTime[k] \in Int
    BY <1>2 DEF IsNextJob, Configured, TypeOK
  <2> QED BY <2>1 DEF NextDue, TypeOK
<1> QED BY <1>1, <1>2, <1>3 DEF Armed, AlarmSet, Ahead

Readiness == MaxStall < Month => Recent /\ Chosen /\ Arming

LEMMA ReadinessStep ==
  ASSUME HalMayTimeOut = FALSE, NoOverflow
  PROVE  TypeOK /\ Exclusion /\ Timing /\ Readiness /\ [Next]_vars => Readiness'
  BY RecentStep, ChosenStep, ArmingStep DEF Readiness

LEMMA Readied ==
  ASSUME HalMayTimeOut = FALSE, NoOverflow
  PROVE  Spec => []Readiness
<1>1. Init => Readiness
  BY RecentInit, ChosenInit, ArmingInit DEF Readiness
<1>2. TypeOK /\ Exclusion /\ Timing /\ Readiness /\ [Next]_vars => Readiness'
  BY ReadinessStep
<1> QED BY <1>1, <1>2, Typed, Excluded, Timed, PTL DEF Spec

\* Where every job has more time left than a call can take, a running scheduler is
\* armed for the earliest of them: for every number of jobs, every set of periods,
\* every stall, every wiring of the callbacks, and a backup domain left behind by
\* any earlier program, provided that no due time overflows uint32_t and that the
\* HAL does not time out while it sets the alarm.
THEOREM SlackKeepsArmed ==
  ASSUME HalMayTimeOut = FALSE, NoOverflow
  PROVE  Spec => []ArmedWithSlack
<1>1. TypeOK /\ Readiness => ArmedWithSlack
  <2> SUFFICES ASSUME TypeOK, Readiness, isRunning, ~Busy, Roomy PROVE Armed
    BY DEF ArmedWithSlack, Roomy
  <2>1. MaxStall < Month
    BY NoRoom
  <2> QED BY <2>1, ArmingArms DEF Readiness
<1> QED BY <1>1, Readied, Typed, PTL

\* The alarm is lost only by a second that passes inside a call (and by a time-out):
\* without one, a running scheduler is armed between all calls, whatever is left.
THEOREM PromptKeepsArmed ==
  ASSUME MaxStall = 0, HalMayTimeOut = FALSE, NoOverflow
  PROVE  Spec => []ArmedWhileRunning
<1>1. TypeOK /\ Readiness => ArmedWhileRunning
  BY ArmingArms DEF Readiness, ArmedWhileRunning, Roomy
<1> QED BY <1>1, Readied, Typed, PTL
=============================================================================
