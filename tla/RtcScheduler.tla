---------------------------- MODULE RtcScheduler ----------------------------
(***************************************************************************)
(* The job scheduler of source/scheduler.c, the alarm half of source/rtc.c *)
(* and the alarm functions of the RTC HAL it is built on, as two contexts  *)
(* share them: "task" is the thread of the program that adds jobs, starts, *)
(* stops and (if Deferred) executes; "isr" is RTC_Alarm_IRQHandler, which  *)
(* preempts it whenever the alarm interrupt is pending.                    *)
(*                                                                         *)
(* A step is the code between two accesses to what the contexts share: the *)
(* clock, the alarm registers, the HAL lock, the job table.  The loops of  *)
(* Scheduler_ProcessRemainingTime and of the search for the next job are   *)
(* one step each: TableExclusive, checked and proved below, says that the  *)
(* other context is never inside the table at the same time.  A local      *)
(* variable is zeroed at its last use, so that no dead value is carried.   *)
(*                                                                         *)
(* A definition named Name_Slip is no part of the model: it is Name with a *)
(* slip a programmer could make, and PROJECT.json says which property      *)
(* finds the slip.                                                         *)
(***************************************************************************)
EXTENDS Integers

CONSTANTS
  MaxJobs,        \* MAX_NUM_OF_JOBS
  Periods,        \* the periods a client asks for, in seconds
  W,              \* uint32_t wraps at W
  Month,          \* the alarm registers hold a day of the month: they match again after Month
  MaxNow,         \* bound on the clock
  MaxStall,       \* how many seconds may pass while a call is under way
  Deferred,       \* pending jobs are executed by the task, not by the ISR
  HalMayTimeOut,  \* ALRAWF may stay low for longer than RTC_TIMEOUT_VALUE
  Reinit          \* a client may call SchedulerInit again

ASSUME MaxJobsAssumption == MaxJobs \in Nat \ {0}
ASSUME PeriodsAssumption == W \in Nat \ {0} /\ Periods \subseteq 1 .. (W - 1)
ASSUME ClockAssumption == MaxNow \in Nat \ {0} /\ MaxNow < W /\ Month \in Nat \ {0} /\ MaxStall \in Nat
ASSUME FlagsAssumption == {Deferred, HalMayTimeOut, Reinit} \subseteq BOOLEAN

Contexts == {"isr", "task"}
Indices  == 0 .. (MaxJobs - 1)

VARIABLES
  now,            \* the calendar of the RTC, as the epoch RtcGetEpoch computes from it
  stall,          \* seconds passed since a call or an interrupt was last not under way
  alrae, alraie,  \* CR.ALRAE and CR.ALRAIE: alarm A enabled, its interrupt enabled
  alraf,          \* ISR.ALRAF: alarm A has matched
  alrmar,         \* ALRMAR: what alarm A is compared with
  extiOn,         \* EXTI detects the rising edge of the alarm line and passes it on
  exti,           \* the alarm interrupt is pending at EXTI and NVIC
  halLock,        \* hrtc->Lock
  startTime, isRunning, numOfJobs,    \* Scheduler_t
  period, remainingTime, isPending,   \* Job_t, as functions of the index
  pc,             \* where each context is
  elapsed,        \* elapsedTime of SchedulerProcess and SchedulerStop
  job,            \* indexOfNextJob of SchedulerProcess
  epoch,          \* argument of RtcSetAlarmFromEpoch
  cursor,         \* loop index of SchedulerExecutePendingJobs
  lastMark,       \* history: when job i was last marked as pending, or added
  owed            \* history: job i was marked, and its callback has not been called since

clock   == <<now, stall>>
alarm   == <<alrae, alraie, alraf, alrmar, extiOn, exti>>
control == <<startTime, isRunning>>
table   == <<numOfJobs, period, remainingTime, isPending>>
locals  == <<elapsed, job, epoch, cursor>>
history == <<lastMark, owed>>
vars == <<clock, alarm, halLock, control, table, pc, locals, history>>

Configured == {i \in Indices : i < numOfJobs}

\* After a reset of the core.  RtcInit sets the calendar; nobody initialises the alarm,
\* whose registers are in the backup domain and keep what the program before the reset
\* has left in them.  EXTI is reset.
Init ==
  /\ now = 1 /\ stall = 0
  /\ alrae \in BOOLEAN /\ alraie \in BOOLEAN /\ alraf \in BOOLEAN /\ (alrae => alraie)
  /\ alrmar \in (IF alrae THEN 0 .. (Month - 1) ELSE {0})
  /\ extiOn = FALSE /\ exti = FALSE
  /\ halLock = FALSE
  /\ startTime = 0 /\ isRunning = FALSE /\ numOfJobs = 0
  /\ period = [i \in Indices |-> 0]
  /\ remainingTime = [i \in Indices |-> 0]
  /\ isPending = [i \in Indices |-> FALSE]
  /\ pc = [c \in Contexts |-> "idle"]
  /\ elapsed = [c \in Contexts |-> 0]
  /\ job = [c \in Contexts |-> 0]
  /\ epoch = [c \in Contexts |-> 0]
  /\ cursor = [c \in Contexts |-> 0]
  /\ lastMark = [i \in Indices |-> 0]
  /\ owed = [i \in Indices |-> FALSE]

-----------------------------------------------------------------------------
(* Where a context can be. *)

ArmingPcs == {"search", "start", "check", "lock", "disable", "write"}
ProcessPcs == {"process", "elapsed", "age"} \union ArmingPcs
                \union {"unlock", "timedOut", "running"}
StopPcs == {"stop", "stopLock", "stopDisable", "stopUnlock",
            "stopElapsed", "stopAge", "stopped"}
ExecutePcs == {"execute", "clear"}
Labels == {"idle"} \union ProcessPcs \union StopPcs \union ExecutePcs

IsrIdle == pc["isr"] = "idle" /\ ~exti

At(c, l)   == pc[c] = l /\ (c = "task" => IsrIdle)
Goto(c, l) == pc' = [pc EXCEPT ![c] = l]

\* SchedulerProcess returns: RTC_Alarm_IRQHandler goes on to execute the jobs.
AfterProcess_Ends(c) == "idle"
AfterProcess(c) == IF c = "isr" /\ ~Deferred THEN "execute" ELSE "idle"

-----------------------------------------------------------------------------
(* The clock and the alarm comparator. *)

AlarmStamp(t) == t % Month

Busy == ~IsrIdle \/ pc["task"] \in ProcessPcs \union StopPcs

Tick ==
  LET match == alrae /\ AlarmStamp(now + 1) = alrmar
  IN  /\ now < MaxNow
      /\ Busy => stall < MaxStall
      /\ now' = now + 1
      /\ stall' = IF Busy THEN stall + 1 ELSE 0
      /\ alraf' = (alraf \/ match)
      /\ exti' = (exti \/ (match /\ alraie /\ ~alraf /\ extiOn))
      /\ UNCHANGED <<alrae, alraie, alrmar, extiOn, halLock, control, table, pc, locals, history>>

\* The interrupt is taken, and HAL_RTC_AlarmIRQHandler acknowledges it.
AlarmIRQHandler ==
  /\ exti /\ pc["isr"] = "idle"
  /\ exti' = FALSE
  /\ alraf' = (alraf /\ ~alraie)
  /\ Goto("isr", "process")
  /\ UNCHANGED <<clock, alrae, alraie, alrmar, extiOn, halLock, control, table, locals, history>>

-----------------------------------------------------------------------------
(* SchedulerProcess *)

ProcessEnter(c) ==
  /\ At(c, "process")
  /\ Goto(c, IF isRunning THEN "elapsed" ELSE "search")
  /\ UNCHANGED <<clock, alarm, halLock, control, table, locals, history>>

ElapsedTime_RoundedUp == (now - startTime + 1) % W
ElapsedTime == (now - startTime) % W

ReadElapsed(c) ==
  /\ At(c, "elapsed")
  /\ elapsed' = [elapsed EXCEPT ![c] = ElapsedTime]
  /\ Goto(c, IF ElapsedTime > 0 THEN "age" ELSE AfterProcess(c))
  /\ UNCHANGED <<clock, alarm, halLock, control, table, job, epoch, cursor, history>>

Due_Late(c) == {i \in Configured : elapsed[c] > remainingTime[i]}
Due(c) == {i \in Configured : elapsed[c] >= remainingTime[i]}

\* Scheduler_ProcessRemainingTime(elapsed[c])
ProcessRemainingTime(c) ==
  /\ remainingTime' = [i \in Indices |->
        IF i \in Due(c) THEN period[i]
        ELSE IF i \in Configured THEN remainingTime[i] - elapsed[c]
        ELSE remainingTime[i]]
  /\ isPending' = [i \in Indices |-> i \in Due(c) \/ isPending[i]]
  /\ lastMark' = [i \in Indices |-> IF i \in Due(c) THEN now ELSE lastMark[i]]
  /\ owed' = [i \in Indices |-> i \in Due(c) \/ owed[i]]
  /\ elapsed' = [elapsed EXCEPT ![c] = 0]
  /\ UNCHANGED <<numOfJobs, period>>

ProcessAge(c) ==
  /\ At(c, "age")
  /\ ProcessRemainingTime(c)
  /\ Goto(c, "search")
  /\ UNCHANGED <<clock, alarm, halLock, control, job, epoch, cursor>>

\* The first of the lowest remaining times; jobs[0] if there is no job.
IsNextJob_Longest(i) ==
  \A k \in Configured : \/ remainingTime[i] > remainingTime[k]
                        \/ remainingTime[i] = remainingTime[k] /\ i <= k
IsNextJob(i) ==
  \A k \in Configured : \/ remainingTime[i] < remainingTime[k]
                        \/ remainingTime[i] = remainingTime[k] /\ i <= k

SearchNextJob(c) ==
  /\ At(c, "search")
  /\ \E i \in Configured \union {0} :
       /\ IsNextJob(i)
       /\ IF remainingTime[i] > 0
          THEN job' = [job EXCEPT ![c] = i] /\ Goto(c, "start")
          ELSE UNCHANGED job /\ Goto(c, AfterProcess(c))
  /\ UNCHANGED <<clock, alarm, halLock, control, table, elapsed, epoch, cursor, history>>

ReadStart(c) ==
  /\ At(c, "start")
  /\ startTime' = now
  /\ epoch' = [epoch EXCEPT ![c] = (now + remainingTime[job[c]]) % W]
  /\ job' = [job EXCEPT ![c] = 0]
  /\ Goto(c, "check")
  /\ UNCHANGED <<clock, alarm, halLock, isRunning, table, elapsed, cursor, history>>

\* RtcSetAlarmFromEpoch returns 0.
NotArmed(c) ==
  /\ epoch' = [epoch EXCEPT ![c] = 0]
  /\ Goto(c, AfterProcess(c))

\* RtcSetAlarmFromEpoch: alarms are set only in the future
CheckFuture(c) ==
  /\ At(c, "check")
  /\ IF epoch[c] > now THEN Goto(c, "lock") /\ UNCHANGED epoch ELSE NotArmed(c)
  /\ UNCHANGED <<clock, alarm, halLock, control, table, elapsed, job, cursor, history>>

\* HAL_RTC_SetAlarm_IT: HAL_BUSY if the other context is inside the HAL
LockHal(c) ==
  /\ At(c, "lock")
  /\ halLock' = TRUE
  /\ IF halLock THEN NotArmed(c) ELSE Goto(c, "disable") /\ UNCHANGED epoch
  /\ UNCHANGED <<clock, alarm, control, table, elapsed, job, cursor, history>>

DisableAlarm_KeepsFlag(c) ==
  /\ At(c, "disable")
  /\ alrae' = FALSE
  /\ \/ Goto(c, "write")
     \/ HalMayTimeOut /\ Goto(c, "timedOut")
  /\ UNCHANGED <<clock, alraie, alraf, alrmar, extiOn, exti, halLock, control, table, locals, history>>

DisableAlarm(c) ==
  /\ At(c, "disable")
  /\ alrae' = FALSE
  /\ alraf' = FALSE
  /\ \/ Goto(c, "write")
     \/ HalMayTimeOut /\ Goto(c, "timedOut")
  /\ UNCHANGED <<clock, alraie, alrmar, extiOn, exti, halLock, control, table, locals, history>>

WriteAlarm(c) ==
  /\ At(c, "write")
  /\ alrmar' = AlarmStamp(epoch[c])
  /\ alrae' = TRUE
  /\ alraie' = TRUE
  /\ epoch' = [epoch EXCEPT ![c] = 0]
  /\ Goto(c, "unlock")
  /\ UNCHANGED <<clock, alraf, extiOn, exti, halLock, control, table, elapsed, job, cursor, history>>

\* HAL_TIMEOUT: the alarm stays off, RtcSetAlarmFromEpoch returns 0
GiveUp(c) ==
  /\ At(c, "timedOut")
  /\ halLock' = FALSE
  /\ NotArmed(c)
  /\ UNCHANGED <<clock, alarm, control, table, elapsed, job, cursor, history>>

\* EXTI is configured last, when the alarm has been enabled already.
UnlockHal(c) ==
  /\ At(c, "unlock")
  /\ extiOn' = TRUE
  /\ halLock' = FALSE
  /\ Goto(c, "running")
  /\ UNCHANGED <<clock, alrae, alraie, alraf, alrmar, exti, control, table, locals, history>>

SetRunning(c) ==
  /\ At(c, "running")
  /\ isRunning' = TRUE
  /\ Goto(c, AfterProcess(c))
  /\ UNCHANGED <<clock, alarm, halLock, startTime, table, locals, history>>

SchedulerProcess(c) ==
  \/ ProcessEnter(c) \/ ReadElapsed(c) \/ ProcessAge(c) \/ SearchNextJob(c)
  \/ ReadStart(c) \/ CheckFuture(c) \/ LockHal(c) \/ DisableAlarm(c)
  \/ WriteAlarm(c) \/ GiveUp(c) \/ UnlockHal(c) \/ SetRunning(c)

-----------------------------------------------------------------------------
(* SchedulerExecutePendingJobs *)

ExecuteReturns(c) ==
  /\ At(c, "execute") /\ cursor[c] >= numOfJobs
  /\ cursor' = [cursor EXCEPT ![c] = 0]
  /\ Goto(c, "idle")
  /\ UNCHANGED <<clock, alarm, halLock, control, table, elapsed, job, epoch, history>>

SkipJob(c) ==
  /\ At(c, "execute") /\ cursor[c] < numOfJobs /\ ~isPending[cursor[c]]
  /\ cursor' = [cursor EXCEPT ![c] = @ + 1]
  /\ UNCHANGED <<clock, alarm, halLock, control, table, pc, elapsed, job, epoch, history>>

CallCallback(c) ==
  /\ At(c, "execute") /\ cursor[c] < numOfJobs /\ isPending[cursor[c]]
  /\ owed' = [owed EXCEPT ![cursor[c]] = FALSE]
  /\ Goto(c, "clear")
  /\ UNCHANGED <<clock, alarm, halLock, control, table, locals, lastMark>>

Cleared_All(c) == [i \in Indices |-> FALSE]
Cleared_None(c) == isPending
Cleared(c) == [isPending EXCEPT ![cursor[c]] = FALSE]

ClearPending(c) ==
  /\ At(c, "clear")
  /\ isPending' = Cleared(c)
  /\ cursor' = [cursor EXCEPT ![c] = @ + 1]
  /\ Goto(c, "execute")
  /\ UNCHANGED <<clock, alarm, halLock, control, numOfJobs, period, remainingTime,
                 elapsed, job, epoch, history>>

SchedulerExecutePendingJobs(c) ==
  ExecuteReturns(c) \/ SkipJob(c) \/ CallCallback(c) \/ ClearPending(c)

-----------------------------------------------------------------------------
(* SchedulerStop, called by the task *)

StopEnter_KeepsAlarm ==
  /\ At("task", "stop")
  /\ Goto("task", IF isRunning THEN "stopElapsed" ELSE "idle")
  /\ UNCHANGED <<clock, alarm, halLock, control, table, locals, history>>

StopEnter ==
  /\ At("task", "stop")
  /\ Goto("task", IF isRunning THEN "stopLock" ELSE "idle")
  /\ UNCHANGED <<clock, alarm, halLock, control, table, locals, history>>

\* HAL_RTC_DeactivateAlarm; RtcDeactivateAlarm ignores its result
StopLock ==
  /\ At("task", "stopLock")
  /\ halLock' = TRUE
  /\ Goto("task", IF halLock THEN "stopElapsed" ELSE "stopDisable")
  /\ UNCHANGED <<clock, alarm, control, table, locals, history>>

StopDisable_FlagOnly ==
  /\ At("task", "stopDisable")
  /\ alraf' = FALSE
  /\ Goto("task", "stopUnlock")
  /\ UNCHANGED <<clock, alrae, alraie, alrmar, extiOn, exti, halLock, control, table, locals, history>>

StopDisable ==
  /\ At("task", "stopDisable")
  /\ alrae' = FALSE
  /\ alraie' = FALSE
  /\ Goto("task", "stopUnlock")
  /\ UNCHANGED <<clock, alraf, alrmar, extiOn, exti, halLock, control, table, locals, history>>

StopUnlock ==
  /\ At("task", "stopUnlock")
  /\ halLock' = FALSE
  /\ Goto("task", "stopElapsed")
  /\ UNCHANGED <<clock, alarm, control, table, locals, history>>

StopReadElapsed ==
  /\ At("task", "stopElapsed")
  /\ elapsed' = [elapsed EXCEPT !["task"] = ElapsedTime]
  /\ Goto("task", IF ElapsedTime > 0 THEN "stopAge" ELSE "stopped")
  /\ UNCHANGED <<clock, alarm, halLock, control, table, job, epoch, cursor, history>>

StopAge ==
  /\ At("task", "stopAge")
  /\ ProcessRemainingTime("task")
  /\ Goto("task", "stopped")
  /\ UNCHANGED <<clock, alarm, halLock, control, job, epoch, cursor>>

Stopped ==
  /\ At("task", "stopped")
  /\ isRunning' = FALSE
  /\ Goto("task", "idle")
  /\ UNCHANGED <<clock, alarm, halLock, startTime, table, locals, history>>

SchedulerStop ==
  \/ StopEnter \/ StopLock \/ StopDisable \/ StopUnlock
  \/ StopReadElapsed \/ StopAge \/ Stopped

-----------------------------------------------------------------------------
(* What the task calls when it is between calls. *)

SchedulerInit ==
  /\ Reinit /\ ~isRunning
  /\ At("task", "idle")
  /\ startTime' = 0
  /\ isRunning' = FALSE
  /\ numOfJobs' = 0
  /\ UNCHANGED <<clock, alarm, halLock, period, remainingTime, isPending,
                 pc, locals, history>>

Accepts_OneTooMany == ~isRunning /\ numOfJobs <= MaxJobs
Accepts == ~isRunning /\ numOfJobs < MaxJobs

SchedulerAddJob(p) ==
  /\ At("task", "idle")
  /\ IF Accepts
     THEN /\ period' = [period EXCEPT ![numOfJobs] = p]
          /\ remainingTime' = [remainingTime EXCEPT ![numOfJobs] = p]
          /\ isPending' = [isPending EXCEPT ![numOfJobs] = FALSE]
          /\ lastMark' = [lastMark EXCEPT ![numOfJobs] = now]
          /\ owed' = [owed EXCEPT ![numOfJobs] = FALSE]
          /\ numOfJobs' = numOfJobs + 1
     ELSE UNCHANGED <<period, remainingTime, isPending, numOfJobs, history>>
  /\ UNCHANGED <<clock, alarm, halLock, control, pc, locals>>

\* Starting the scheduler.  Only the ISR calls SchedulerProcess while it runs.
CallProcess ==
  /\ At("task", "idle") /\ ~isRunning
  /\ Goto("task", "process")
  /\ UNCHANGED <<clock, alarm, halLock, control, table, locals, history>>

CallStop ==
  /\ At("task", "idle")
  /\ Goto("task", "stop")
  /\ UNCHANGED <<clock, alarm, halLock, control, table, locals, history>>

\* The jobs a stop left pending; every pending job if the ISR executes none.
CallExecute ==
  /\ At("task", "idle") /\ (Deferred \/ ~isRunning)
  /\ Goto("task", "execute")
  /\ UNCHANGED <<clock, alarm, halLock, control, table, locals, history>>

Client ==
  \/ SchedulerInit \/ CallProcess \/ CallStop \/ CallExecute
  \/ \E p \in Periods : SchedulerAddJob(p)

Running(c) == SchedulerProcess(c) \/ SchedulerExecutePendingJobs(c)

Next ==
  \/ Tick \/ AlarmIRQHandler
  \/ \E c \in Contexts : Running(c)
  \/ SchedulerStop
  \/ Client

\* The processor executes: an interrupt is taken and a call that has begun goes on.
Fairness ==
  /\ WF_vars(AlarmIRQHandler)
  /\ \A c \in Contexts : WF_vars(Running(c))
  /\ WF_vars(SchedulerStop)

Spec == Init /\ [][Next]_vars /\ Fairness

-----------------------------------------------------------------------------
(* Properties *)

\* Every variable keeps its C type, and an index stays inside its array.
TypeOK ==
  /\ now \in 0 .. MaxNow /\ stall \in 0 .. MaxStall
  /\ alrae \in BOOLEAN /\ alraie \in BOOLEAN /\ alraf \in BOOLEAN
  /\ extiOn \in BOOLEAN /\ exti \in BOOLEAN
  /\ alrmar \in 0 .. (Month - 1)
  /\ halLock \in BOOLEAN
  /\ startTime \in 0 .. MaxNow /\ isRunning \in BOOLEAN /\ numOfJobs \in 0 .. MaxJobs
  /\ period \in [Indices -> 0 .. (W - 1)]
  /\ remainingTime \in [Indices -> 0 .. (W - 1)]
  /\ isPending \in [Indices -> BOOLEAN]
  /\ pc \in [Contexts -> Labels]
  /\ elapsed \in [Contexts -> 0 .. (W - 1)]
  /\ job \in [Contexts -> Indices]
  /\ epoch \in [Contexts -> 0 .. (W - 1)]
  /\ cursor \in [Contexts -> 0 .. MaxJobs]
  /\ lastMark \in [Indices -> 0 .. MaxNow]
  /\ owed \in [Indices -> BOOLEAN]

\* What remains of a job is never zero, wrapped below zero or more than its
\* period, however late Scheduler_ProcessRemainingTime is called.
JobsInRange ==
  \A i \in Configured : remainingTime[i] \in 1 .. period[i]

\* Scheduler_ProcessRemainingTime marks no job before a whole period has passed
\* since it was last marked or added, through any mixture of late interrupts,
\* early alarms, stops, restarts and failures to arm the alarm.
NeverEarly ==
  \A c \in Contexts : pc[c] \in {"age", "stopAge"} =>
    \A i \in Due(c) : now - lastMark[i] >= period[i]

\* A job that was marked stays pending until its callback is called: neither a
\* stop, a restart, a later interrupt nor the reset of the flag loses it.
NoLostJob == \A i \in Configured : owed[i] => isPending[i]

\* A job is pending only because it was marked and has not run: no callback is
\* called twice for one marking (isPending outlives the call until "clear").
NoSpuriousRun ==
  \A i \in Configured :
    isPending[i] => \/ owed[i]
                    \/ \E c \in Contexts : pc[c] = "clear" /\ cursor[c] = i

\* Once SchedulerStop has returned no alarm interrupt comes, pending or under
\* way: nothing touches the jobs of a stopped scheduler behind the client's back.
\* Nor does an alarm that was set before a reset, which nobody has disabled.
StoppedIsSilent ==
  ~isRunning /\ pc["task"] \notin ProcessPcs
    => IsrIdle /\ ~(alrae /\ alraie /\ extiOn)

\* While the task ages, searches or arms, the interrupt handler is not active:
\* the job table, and the static variables of RtcSetAlarmFromEpoch and
\* RtcGetEpoch, have one user at a time although nothing locks them.
TableExclusive ==
  pc["task"] \in ArmingPcs \union {"age", "stopElapsed", "stopAge", "stopped"} => IsrIdle

\* Alarm A is set for the earliest of the jobs, that moment is still to come, and
\* the match will be a rising edge.
NextDue(i) == startTime + remainingTime[i]
Armed ==
  /\ alrae /\ alraie /\ ~alraf /\ extiOn
  /\ \A i \in Configured : NextDue(i) > now
  /\ \E i \in Configured : /\ alrmar = AlarmStamp(NextDue(i))
                           /\ \A k \in Configured : NextDue(i) <= NextDue(k)

\* Between calls, a running scheduler is armed (README.md:51-53: it "schedules
\* the next job [...] by configuring and setting the RTC alarm").
ArmedWhileRunning == isRunning /\ ~Busy /\ numOfJobs > 0 => Armed

\* A running scheduler is armed, whatever came before, when every job has more
\* time left than a call can take, the last one before a match of the alarm
\* registers counted too: a second boundary inside SchedulerProcess or
\* RtcSetAlarmFromEpoch costs the alarm of no other job.
ArmedWithSlack ==
  /\ isRunning /\ ~Busy /\ numOfJobs > 0
  /\ \A i \in Configured : AlarmStamp(remainingTime[i]) > MaxStall
  => Armed

\* A marked job is executed, late or not: whether SchedulerProcess re-arms the
\* alarm, returns early or is refused by the HAL, RTC_Alarm_IRQHandler goes on to
\* the callbacks of all the jobs that were marked.
OwedJobRuns ==
  \A i \in Indices :
    (owed[i] /\ i < numOfJobs /\ pc["isr"] \in ProcessPcs) ~> ~owed[i]
=============================================================================
