------------------------------- MODULE RtcApp -------------------------------
(***************************************************************************)
(* The whole application: the scheduler, the clock it reads and the alarm   *)
(* it sets, on the core that stops and resumes.                             *)
(*                                                                         *)
(* CoreStop leaves open when an alarm comes and which jobs are due; here    *)
(* SchedulerProcess decides.  It runs in the alarm interrupt, which is one  *)
(* step, so that no second passes in it: RtcScheduler shows what happens    *)
(* when one does.  What RtcScheduler leaves out is the copy of the calendar *)
(* that RtcGetEpoch reads: it stands still while the core is stopped, and   *)
(* ResumeFromStop2Mode has to wait until it is copied again.                *)
(*                                                                         *)
(* Times are relative, so that the model is finite without a last second:   *)
(* all of them count from the startTime of the scheduler.                   *)
(***************************************************************************)
EXTENDS CoreStop

CONSTANTS
  ShortPeriod, LongPeriod,   \* the periods main gives to its two jobs, in seconds
  BeatsPerSecond,  \* the beats of the core that may make a second of the RTC, on its own oscillator
  SynchroWaits,    \* the calendar is copied when RtcWaitForClockSynchronization returns
  MaxAge           \* bound on the seconds since startTime: more are as many

ASSUME AppAssumption ==
  /\ ShortPeriod \in Nat \ {0} /\ LongPeriod \in Nat \ {0}
  /\ BeatsPerSecond \subseteq Nat \ {0} /\ BeatsPerSecond # {}
  /\ SynchroWaits \in BOOLEAN
  /\ MaxAge \in Nat /\ MaxAge > ShortPeriod /\ MaxAge > LongPeriod

VARIABLES
  phase,       \* the beats since the last second
  age,         \* the calendar, in seconds since startTime
  lag,         \* the seconds by which the registers TR and DR are behind the calendar
  remaining,   \* remainingTime of the job that notifies each task
  alarmAge     \* the age for which alarm A is set, 0 if it is set for none

schedule == <<remaining, alarmAge>>
appVars == <<phase, age, lag, schedule>>
allVars == <<vars, appVars>>

Period(t) == IF t = "blink" THEN ShortPeriod ELSE LongPeriod

Shortest(time) == CHOOSE n \in {time[t] : t \in Tasks} : \A t \in Tasks : n <= time[t]

\* main adds the jobs, and the start hook of the daemon task, which has the highest
\* priority, starts the scheduler.
AppInit ==
  /\ Init
  /\ phase = 0 /\ age = 0 /\ lag = 0
  /\ remaining = [t \in Tasks |-> Period(t)]
  /\ alarmAge = Shortest(remaining)

-----------------------------------------------------------------------------
SecondMayEnd == phase + 1 \in BeatsPerSecond
SecondMayLast == \E n \in BeatsPerSecond : phase + 1 < n

AppBeat ==
  \E second \in BOOLEAN :
    /\ IF second THEN SecondMayEnd ELSE SecondMayLast
    /\ phase' = IF second THEN 0 ELSE phase + 1
    /\ age' = IF second /\ age < MaxAge THEN age + 1 ELSE age
    /\ lag' = IF ~stopped THEN 0 ELSE IF second /\ lag < MaxAge THEN lag + 1 ELSE lag
    /\ Beat(second /\ age + 1 = alarmAge)
    /\ UNCHANGED schedule

\* How far the registers may be behind after RtcWaitForClockSynchronization.
LagAfterWait_NoWait == {0, lag}

LagAfterWait == IF SynchroWaits THEN {0} ELSE {0, lag}

\* How far they may be behind when the handler comes to read them; a core that
\* runs has them copied within two cycles of the RTC clock.
LagInHandler == IF isCoreStopped THEN LagAfterWait ELSE {0, lag}

Aged_Strict(elapsed) ==
  [t \in Tasks |-> IF elapsed > remaining[t] THEN Period(t) ELSE remaining[t] - elapsed]

Aged(elapsed) ==
  [t \in Tasks |-> IF elapsed >= remaining[t] THEN Period(t) ELSE remaining[t] - elapsed]

Due(elapsed) == {t \in Tasks : elapsed >= remaining[t]}

\* RtcSetAlarmFromEpoch for the next job: not armed unless the epoch is later than
\* the one the clock shows.
AlarmFor(left, start, shown) == IF Shortest(left) > start - shown THEN Shortest(left) ELSE 0

\* RTC_Alarm_IRQHandler.  SchedulerProcess reads the clock three times: for the
\* elapsed time, for startTime, and to check that the alarm is in the future.
\* The copy may be made before each of them.
AppAlarm ==
  \E first \in LagInHandler :
    LET elapsed == age - first
    IN  IF elapsed > 0
        THEN \E second \in {0, first} : \E third \in {0, second} :
               /\ AlarmIRQHandler(Due(elapsed))
               /\ remaining' = Aged(elapsed)
               /\ age' = second
               /\ alarmAge' = AlarmFor(Aged(elapsed), second, third)
               /\ lag' \in {0, third}
               /\ UNCHANGED phase
        ELSE /\ AlarmIRQHandler({})
             /\ lag' \in {0, first}
             /\ UNCHANGED <<phase, age, schedule>>

AppIdle ==
  /\ IdleTask
  /\ IF pc = "restore" THEN lag' \in LagAfterWait ELSE lag' = lag
  /\ UNCHANGED <<phase, age, schedule>>

AppOther ==
  /\ Wake \/ SysTickHandler
  /\ UNCHANGED appVars

AppTask(t) == TaskCode(t) /\ UNCHANGED appVars

AppNext == AppBeat \/ AppAlarm \/ AppIdle \/ AppOther \/ \E t \in Tasks : AppTask(t)

AppFairness ==
  /\ SF_allVars(AppBeat)
  /\ WF_allVars(stopped /\ alarmPending /\ Wake /\ UNCHANGED appVars)
  /\ WF_allVars(SysTickHandler /\ UNCHANGED appVars)
  /\ WF_allVars(AppAlarm) /\ WF_allVars(AppIdle)
  /\ \A t \in Tasks : WF_allVars(AppTask(t))

AppSpec == AppInit /\ [][AppNext]_allVars /\ AppFairness

-----------------------------------------------------------------------------
(* Properties *)

AppTypeOK ==
  /\ TypeOK
  /\ phase \in Nat /\ (\E n \in BeatsPerSecond : phase < n)
  /\ age \in 0 .. MaxAge /\ lag \in 0 .. MaxAge
  /\ remaining \in [Tasks -> 1 .. MaxAge] /\ alarmAge \in 0 .. MaxAge

\* The jobs as the scheduler numbers them.
TaskOf(i) == IF i = 0 THEN "blink" ELSE "steady"

TimeLeft(t) == remaining[t] - age

Promise == INSTANCE Countdown WITH
  MaxJobs  <- 2,
  Periods  <- {ShortPeriod, LongPeriod},
  counting <- TRUE,
  span <- [i \in 0 .. 1 |-> Period(TaskOf(i))],
  left <- [i \in 0 .. 1 |-> IF TimeLeft(TaskOf(i)) > 0 THEN TimeLeft(TaskOf(i)) ELSE Period(TaskOf(i))],
  due  <- {i \in 0 .. 1 : TimeLeft(TaskOf(i)) <= 0}

\* Stopping and resuming, the tolerance of the oscillators and the copy of the
\* calendar cost the jobs nothing: with the core stopped most of the time, the
\* scheduler is one countdown per job, no second is lost between two readings of
\* the clock and each job is handled in the second it falls due.
KeepsCountdowns == [][Promise!Next]_(Promise!vars)

\* From the alarm over the resume and the notification to the task: both tasks
\* begin to work and finish it, again and again (README.md:108-115).
WorkGoesOn == \A t \in Tasks : []<>(round[t] > 0) /\ []<>(round[t] = 0)
=============================================================================
