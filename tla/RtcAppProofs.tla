---------------------------- MODULE RtcAppProofs ----------------------------
(***************************************************************************)
(* The application only does what CoreStop allows, so that what holds of    *)
(* the core with any alarms at any time holds of it with the alarms the     *)
(* scheduler sets; and its times keep their range.                          *)
(*                                                                         *)
(* More holds of it than of the core with any alarms, if its periods leave  *)
(* the core the time to come back to STOP2 before the next alarm.           *)
(***************************************************************************)
EXTENDS RtcApp, CoreStopProofs

USE AppAssumption, CoreAssumption

-----------------------------------------------------------------------------
(* Every step of the application is a step of the core *)

LEMMA AppStepIsCoreStep == [AppNext]_allVars => [Next]_vars
<1> SUFFICES ASSUME [AppNext]_allVars PROVE [Next]_vars
  OBVIOUS
<1>1. CASE AppBeat
  <2>1. PICK second \in BOOLEAN : Beat(second /\ age + 1 = alarmAge)
    BY <1>1 DEF AppBeat
  <2>2. (second /\ age + 1 = alarmAge) \in BOOLEAN
    OBVIOUS
  <2>3. \E alarm \in BOOLEAN : Beat(alarm)
    BY <2>1, <2>2, Zenon
  <2> QED BY <2>3 DEF Next
<1>2. CASE AppAlarm
  <2>1. \A elapsed : Due(elapsed) \in SUBSET Tasks
    BY DEF Due
  <2>2. \/ AlarmIRQHandler({})
        \/ \E first \in LagInHandler : AlarmIRQHandler(Due(age - first))
    BY <1>2 DEF AppAlarm
  <2>3. \E due \in SUBSET Tasks : AlarmIRQHandler(due)
    BY <2>1, <2>2
  <2> QED BY <2>3 DEF Next, Interrupts
<1>3. CASE AppIdle
  BY <1>3 DEF AppIdle, Next
<1>4. CASE AppOther
  BY <1>4 DEF AppOther, Next, Interrupts
<1>5. ASSUME NEW t \in Tasks, AppTask(t) PROVE [Next]_vars
  BY <1>5 DEF AppTask, Next
<1>6. CASE UNCHANGED allVars
  BY <1>6 DEF allVars
<1> QED BY <1>1, <1>2, <1>3, <1>4, <1>5, <1>6 DEF AppNext

\* The scheduler, its clock and its alarms narrow down what the core may do and
\* add nothing to it: a behaviour of the application is one of the core.
THEOREM AppRunsTheCore == AppSpec => Init /\ [][Next]_vars
<1>1. AppInit => Init
  BY DEF AppInit
<1> QED BY <1>1, AppStepIsCoreStep, PTL DEF AppSpec

\* ResumeFromStop2Mode, called by RTC_Alarm_IRQHandler at whatever step of the
\* stop the alarm of the scheduler comes, is told the truth by isCoreStopped.
THEOREM AppFlagIsReliable == AppSpec => []FlagMatchesServices
<1>1. CoreInv => FlagMatchesServices
  BY DEF CoreInv, MaskedPlaces, Teardown, FlagMatchesServices
<1> QED BY <1>1, CoreInit, CoreStep, AppRunsTheCore, PTL

-----------------------------------------------------------------------------
(* Types *)

TimesOK ==
  /\ phase \in Nat /\ (\E n \in BeatsPerSecond : phase < n)
  /\ age \in 0 .. MaxAge /\ lag \in 0 .. MaxAge
  /\ remaining \in [Tasks -> 1 .. MaxAge] /\ alarmAge \in 0 .. MaxAge

LEMMA SecondsLast == \E n \in BeatsPerSecond : 0 < n
<1>1. PICK n : n \in BeatsPerSecond
  BY AppAssumption, Zenon
<1>2. n \in Nat \ {0}
  BY <1>1, AppAssumption
<1> QED BY <1>1, <1>2

LEMMA PeriodTypes == \A t \in Tasks : Period(t) \in 1 .. MaxAge
  BY DEF Period

\* The search for the next job finds the time one of them has left.
LEMMA ShortestType ==
  ASSUME NEW time \in [Tasks -> 1 .. MaxAge]
  PROVE  Shortest(time) \in 1 .. MaxAge
<1>1. "blink" \in Tasks /\ "steady" \in Tasks
  BY DEF Tasks
<1>2. \E n \in {time[t] : t \in Tasks} : \A t \in Tasks : n <= time[t]
  <2>1. CASE time["blink"] <= time["steady"]
    BY <1>1, <2>1 DEF Tasks
  <2>2. CASE time["steady"] <= time["blink"]
    BY <1>1, <2>2 DEF Tasks
  <2> QED BY <1>1, <2>1, <2>2
<1>3. Shortest(time) \in {time[t] : t \in Tasks}
  BY <1>2, Zenon DEF Shortest
<1> QED BY <1>3

LEMMA TimesInit == AppInit => TimesOK
<1> SUFFICES ASSUME AppInit PROVE TimesOK
  OBVIOUS
<1>1. remaining \in [Tasks -> 1 .. MaxAge]
  BY PeriodTypes DEF AppInit
<1>2. alarmAge \in 0 .. MaxAge
  BY <1>1, ShortestType DEF AppInit
<1> QED BY <1>1, <1>2, SecondsLast DEF AppInit, TimesOK

LEMMA TimesBeat ==
  ASSUME TimesOK, AppBeat
  PROVE  TimesOK'
<1>1. PICK second \in BOOLEAN :
        /\ IF second THEN SecondMayEnd ELSE SecondMayLast
        /\ phase' = IF second THEN 0 ELSE phase + 1
        /\ age' = IF second /\ age < MaxAge THEN age + 1 ELSE age
        /\ lag' = IF ~stopped THEN 0 ELSE IF second /\ lag < MaxAge THEN lag + 1 ELSE lag
        /\ UNCHANGED schedule
  BY DEF AppBeat
<1>2. phase' \in Nat /\ \E n \in BeatsPerSecond : phase' < n
  <2>1. CASE second
    BY <1>1, <2>1, SecondsLast
  <2>2. CASE ~second
    BY <1>1, <2>2 DEF SecondMayLast, TimesOK
  <2> QED BY <2>1, <2>2
<1>3. age' \in 0 .. MaxAge /\ lag' \in 0 .. MaxAge
  BY <1>1 DEF TimesOK
<1> QED BY <1>1, <1>2, <1>3 DEF TimesOK, schedule

\* What the interrupt handler stores, however stale the registers it reads.
LEMMA TimesAlarm ==
  ASSUME TimesOK, AppAlarm
  PROVE  TimesOK'
<1>1. PICK first \in LagInHandler :
        LET elapsed == age - first
        IN  IF elapsed > 0
            THEN \E second \in {0, first} : \E third \in {0, second} :
                   /\ remaining' = Aged(elapsed)
                   /\ age' = second
                   /\ alarmAge' = AlarmFor(Aged(elapsed), second, third)
                   /\ lag' \in {0, third}
                   /\ UNCHANGED phase
            ELSE lag' \in {0, first} /\ UNCHANGED <<phase, age, schedule>>
  BY DEF AppAlarm
<1>2. first \in 0 .. MaxAge
  BY DEF LagInHandler, LagAfterWait, TimesOK
<1>3. CASE age - first > 0
  <2>1. PICK second \in {0, first} : \E third \in {0, second} :
          /\ remaining' = Aged(age - first)
          /\ age' = second
          /\ alarmAge' = AlarmFor(Aged(age - first), second, third)
          /\ lag' \in {0, third}
          /\ UNCHANGED phase
    BY <1>1, <1>3
  <2>0. PICK third \in {0, second} :
          /\ alarmAge' = AlarmFor(Aged(age - first), second, third)
          /\ lag' \in {0, third}
    BY <2>1
  <2>2. Aged(age - first) \in [Tasks -> 1 .. MaxAge]
    BY <1>2, <1>3, PeriodTypes DEF Aged, TimesOK
  <2>3. AlarmFor(Aged(age - first), second, third) \in 0 .. MaxAge
    BY <2>2, ShortestType DEF AlarmFor
  <2> QED BY <1>2, <2>0, <2>1, <2>2, <2>3 DEF TimesOK
<1>4. CASE ~(age - first > 0)
  BY <1>1, <1>2, <1>4 DEF TimesOK, schedule
<1> QED BY <1>3, <1>4

LEMMA TimesStep == TimesOK /\ [AppNext]_allVars => TimesOK'
<1> SUFFICES ASSUME TimesOK, [AppNext]_allVars PROVE TimesOK'
  OBVIOUS
<1>1. CASE AppBeat
  BY <1>1, TimesBeat
<1>2. CASE AppAlarm
  BY <1>2, TimesAlarm
<1>3. CASE AppIdle
  BY <1>3 DEF AppIdle, LagAfterWait, TimesOK, schedule
<1>4. CASE AppOther
  BY <1>4 DEF AppOther, appVars, schedule, TimesOK
<1>5. ASSUME NEW t \in Tasks, AppTask(t) PROVE TimesOK'
  BY <1>5 DEF AppTask, appVars, schedule, TimesOK
<1>6. CASE UNCHANGED allVars
  BY <1>6 DEF allVars, appVars, schedule, TimesOK
<1> QED BY <1>1, <1>2, <1>3, <1>4, <1>5, <1>6 DEF AppNext

\* What remains of a job never becomes zero and no countdown wraps, even when
\* the handler reads registers the core has not copied since it stopped.
THEOREM AppTypes == AppSpec => []AppTypeOK
<1>1. TypeOK /\ TimesOK => AppTypeOK
  BY DEF TimesOK, AppTypeOK
<1>2. AppSpec => []TypeOK
  BY TypeInit, TypeStep, AppRunsTheCore, PTL
<1>3. AppSpec => []TimesOK
  BY TimesInit, TimesStep, PTL DEF AppSpec
<1> QED BY <1>1, <1>2, <1>3, PTL
-----------------------------------------------------------------------------
(* A schedule that leaves the core enough time                               *)
(*                                                                         *)
(* Alarms come only in STOP2, because what is left to do before the core is  *)
(* there again always takes fewer beats than there are to the next alarm.    *)

DelayOf(t) == IF t = "blink" THEN BlinkDelay ELSE SteadyDelay

\* What the demo's numbers satisfy: the jobs fall due together or a short period
\* apart; a short period is longer than the work of either task, the longest the
\* wrap of the tick count may keep the core awake, and the slips; the threshold
\* covers a delay and the slips; and code is overtaken by one beat at most.
Schedulable(least) ==
  /\ \A n \in BeatsPerSecond : least <= n
  /\ MaxSlip <= 1 /\ MaxSlip < least
  /\ WakesOtherwise = FALSE /\ SynchroWaits = TRUE
  /\ \E k \in Nat : LongPeriod = k * ShortPeriod
  /\ IdleTicks + MaxSlip < MaxTick
  /\ \A t \in Tasks : /\ DelayOf(t) + MaxSlip <= IdleTicks + 1
                      /\ least * ShortPeriod > MaxSlip + Rounds(t) * DelayOf(t) + IdleTicks + 1

Asleep(t) == place[t] \in {"delayed", "overflow"}

AllIdle == \A t \in Tasks : place[t] = "suspended"

\* What a task has been notified of and begun goes with where it is.
Tasked ==
  \A t \in Tasks :
    /\ place[t] = "suspended" => round[t] = 0 /\ ~notified[t]
    /\ notified[t] => place[t] = "ready" /\ round[t] = 0 /\ led[t] = FALSE
    /\ Asleep(t) => round[t] >= 1
    /\ TicksLeft(t) <= DelayOf(t)
    /\ round[t] >= 1 => led[t] = (round[t] % 2 = 1)

\* Alarms come while the core is stopped and nobody has anything to do, and the
\* resume is theirs.
Modes ==
  /\ pc \notin {"resume", "restore"}
  /\ pc \in {"deinit", "unmask", "wfi"} => isCoreStopped
  /\ isCoreStopped => pc \in {"deinit", "unmask", "wfi", "woken"}
  /\ stopped => isCoreStopped
  /\ pc \in {"enter", "suspend"} \/ isCoreStopped => AllIdle
  /\ pc = "woken" /\ isCoreStopped => stopped \/ alarmPending
  /\ alarmPending => pc = "woken" /\ isCoreStopped
  /\ ~isCoreStopped => clock = "pll"

\* The answer of GetExpectedIdleTime was not older than the slips.
AnsweredInTime ==
  pc \in {"list", "enter"} => MaxTick - tick > IdleTicks - (slip - TicksDue)

\* The short job is due a short period after startTime, for the alarm set for it.
OnSchedule ==
  /\ remaining["blink"] = ShortPeriod /\ alarmAge = ShortPeriod
  /\ \E k \in Nat \ {0} : remaining["steady"] = k * ShortPeriod
  /\ IF alarmPending THEN age = ShortPeriod /\ phase <= slip ELSE age < ShortPeriod

\* The beats that pass at least before the next alarm.
BeatsLeft(least) == least * (ShortPeriod - age) - phase

\* The ticks of the delays a task has not begun.
ToDo(t) == IF notified[t] \/ round[t] > 0 THEN (Rounds(t) - round[t]) * DelayOf(t) ELSE 0

Work(t) == TicksLeft(t) + ToDo(t)

\* The ticks that have to come for it, one that is pending left out.
Owing(t) == IF Asleep(t) THEN Work(t) - TicksDue ELSE Work(t)

\* The ticks to the wrap of the tick count, likewise.
ToWrap == MaxTick + 1 - tick - TicksDue

\* An awake core will be at rest in STOP2 before the alarm: after the work, after
\* the wrap if it may be so near that the idle hook waits for it, and the slips.
EnoughTime(least) ==
  ~stopped /\ ~alarmPending =>
    /\ BeatsLeft(least) > MaxSlip - slip
    /\ ~isCoreStopped =>
         /\ \A t \in Tasks : Work(t) > 0 => BeatsLeft(least) > MaxSlip - slip + Owing(t) + IdleTicks + 1
         /\ ToWrap <= IdleTicks + 1 => BeatsLeft(least) > MaxSlip - slip + ToWrap
         /\ ToWrap > IdleTicks + 1 /\ ToWrap <= IdleTicks + 1 + (MaxSlip - slip)
              => BeatsLeft(least) > MaxSlip - slip + IdleTicks + 1

InTime(least) == Tasked /\ Modes /\ AnsweredInTime /\ OnSchedule /\ EnoughTime(least)

AppInv(least) == Whole /\ TimesOK /\ InTime(least)

\* The periods of main.c:59-60, the delays of main.c:148-151 and 178, the
\* threshold of main.h:26 and a tick counter of 16 bits or more (TickType_t has 32)
\* leave the core enough time, on an oscillator that makes more than 400 of the
\* nominal 1000 ticks in a second, if the calendar has been copied when the
\* interrupt handler reads it.
THEOREM DemoIsSchedulable ==
  ASSUME ShortPeriod = 5, LongPeriod = 10, Toggles = 4, BlinkDelay = 250, SteadyDelay = 1000,
         IdleTicks = 1000, MaxTick >= 65535, MaxSlip <= 1, WakesOtherwise = FALSE, SynchroWaits = TRUE,
         \A n \in BeatsPerSecond : n > 400
  PROVE  Schedulable(401)
<1>1. \A n \in BeatsPerSecond : 401 <= n
  OBVIOUS
<1>2. LongPeriod = 2 * ShortPeriod
  OBVIOUS
<1>3. \A t \in Tasks : Rounds(t) * DelayOf(t) = 1000 /\ DelayOf(t) <= 1000 /\ DelayOf(t) \in Nat
  BY DEF Tasks, Rounds, DelayOf
<1> QED BY <1>1, <1>2, <1>3 DEF Schedulable

LEMMA SlipsAreFew == ASSUME NEW least \in Nat, Schedulable(least) PROVE FewSlips
  BY DEF Schedulable, FewSlips, Tasks, DelayOf

LEMMA RoundFacts ==
  ASSUME TypeOK, NEW t \in Tasks
  PROVE  /\ round[t] \in Nat /\ Rounds(t) \in Nat /\ round[t] <= Rounds(t) /\ Rounds(t) >= 1
         /\ DelayOf(t) \in Nat /\ DelayOf(t) >= 1 /\ DelayOf(t) <= MaxTick
  BY DEF TypeOK, Tasks, Rounds, DelayOf

LEMMA ProductNat == ASSUME NEW a \in Nat, NEW b \in Nat PROVE a * b \in Nat
  OBVIOUS

LEMMA WorkType ==
  ASSUME Whole, NEW t \in Tasks
  PROVE  /\ TicksLeft(t) \in Nat /\ ToDo(t) \in Nat /\ Work(t) \in Nat
         /\ Asleep(t) <=> TicksLeft(t) > 0
         /\ Asleep(t) => Work(t) > 0
<1>1. TicksLeft(t) \in Nat /\ (Asleep(t) <=> TicksLeft(t) > 0)
  BY LeftType DEF Whole, SlipInv, Asleep
<1>2. ToDo(t) \in Nat
  <2>1. Rounds(t) - round[t] \in Nat /\ DelayOf(t) \in Nat
    BY RoundFacts DEF Whole
  <2>2. (Rounds(t) - round[t]) * DelayOf(t) \in Nat
    BY <2>1, ProductNat
  <2> QED BY <2>2 DEF ToDo
<1> QED BY <1>1, <1>2 DEF Work

\* Where the idle hook is at rest without stopping, someone sleeps or the wrap is near.
LEMMA RestReasons ==
  ASSUME Whole, IdleAt("hook"), ~(Kernel!ExpectsIdle /\ Kernel!IsDelayedTaskListEmpty)
  PROVE  /\ ~masked /\ ~tickPending /\ ~alarmPending /\ Ready = {} /\ ~isCoreStopped /\ ~stopped
         /\ (\E t \in Tasks : Asleep(t)) \/ MaxTick + 1 - tick <= IdleTicks + 1
<1> USE DEF Whole
<1>1. ~masked /\ ~tickPending /\ ~alarmPending /\ Ready = {} /\ ~isCoreStopped /\ ~stopped
  BY DEF IdleAt, TasksMayRun, CoreInv, MaskedPlaces, Teardown
<1>2. CASE Kernel!On("delayed") # {}
  BY <1>1, <1>2 DEF Kernel!On, Asleep
<1>3. CASE Kernel!On("delayed") = {}
  <2>1. nextUnblock = MaxTick
    BY <1>3 DEF SlipInv, KernelKnows, NextUnblockKnown, Kernel!IsHead
  <2>2. ~((MaxTick - tick) % (MaxTick + 1) > IdleTicks)
    BY <1>1, <1>3, <2>1 DEF Kernel!IsDelayedTaskListEmpty, Kernel!ExpectsIdle, Kernel!LongEnough,
                           Kernel!GetExpectedIdleTime, Kernel!TimeFrom, Ready
  <2>3. tick \in 0 .. MaxTick
    BY SlipTypes
  <2>4. (MaxTick - tick) % (MaxTick + 1) = MaxTick - tick
    BY <2>3
  <2> QED BY <1>1, <2>2, <2>3, <2>4
<1> QED BY <1>2, <1>3

LEMMA ShortestFirst ==
  ASSUME NEW time \in [Tasks -> Int], time["blink"] <= time["steady"]
  PROVE  Shortest(time) = time["blink"]
<1> DEFINE times == {time[t] : t \in Tasks}
           Least(n) == n \in times /\ \A t \in Tasks : n <= time[t]
<1>1. Tasks = {"blink", "steady"}
  BY DEF Tasks
<1>2. Least(time["blink"])
  BY <1>1
<1>3. \A n : Least(n) => n = time["blink"]
  BY <1>1
<1>4. Shortest(time) = CHOOSE n : Least(n)
  BY Zenon DEF Shortest
<1> QED BY <1>2, <1>3, <1>4, Zenon

\* The times of the schedule are multiples of the short period.
LEMMA PeriodsAgree ==
  ASSUME NEW least \in Nat, Schedulable(least)
  PROVE  /\ Period("blink") = ShortPeriod
         /\ \E k \in Nat \ {0} : Period("steady") = k * ShortPeriod
<1>1. PICK k \in Nat : LongPeriod = k * ShortPeriod
  BY DEF Schedulable
<1>2. k # 0
  BY <1>1
<1> QED BY <1>1, <1>2 DEF Period

LEMMA MultipleIsLater == ASSUME NEW k \in Nat \ {0}, NEW p \in Nat PROVE p <= k * p
<1>1. k * p = p + (k - 1) * p
  OBVIOUS
<1>2. (k - 1) * p \in Nat
  BY ProductNat
<1> QED BY <1>1, <1>2

LEMMA InTimeInit ==
  ASSUME NEW least \in Nat, Schedulable(least), AppInit
  PROVE  InTime(least)
<1>1. \A t \in Tasks : TicksLeft(t) = 0 /\ DelayOf(t) >= 0 /\ ~Asleep(t) /\ ToDo(t) = 0 /\ Work(t) = 0
  BY DEF AppInit, Init, Kernel!Init, TicksLeft, Kernel!TicksLeft, DelayOf, Asleep, ToDo, Work
<1>2. Tasked
  BY <1>1 DEF AppInit, Init, Kernel!Init, Tasked
<1>3. Modes /\ AnsweredInTime
  BY DEF AppInit, Init, Modes, AnsweredInTime
<1>4. OnSchedule
  <2>1. remaining["blink"] = ShortPeriod /\ \E k \in Nat \ {0} : remaining["steady"] = k * ShortPeriod
    BY PeriodsAgree DEF AppInit, Tasks
  <2>2. remaining["blink"] <= remaining["steady"]
    BY <2>1, MultipleIsLater
  <2>3. alarmAge = ShortPeriod
    BY <2>1, <2>2, ShortestFirst, PeriodTypes DEF AppInit
  <2> QED BY <2>1, <2>3 DEF AppInit, Init, OnSchedule
<1>5. EnoughTime(least)
  <2>1. /\ slip = 0 /\ age = 0 /\ phase = 0 /\ tick = 0 /\ TicksDue = 0
    BY DEF AppInit, Init, Kernel!Init, TicksDue, One
  <2>2. ToWrap > IdleTicks + 1 + (MaxSlip - slip)
    BY <2>1 DEF ToWrap, Schedulable
  <2>3. BeatsLeft(least) > MaxSlip - slip
    <3>1. Rounds("blink") * DelayOf("blink") \in Nat
      BY ProductNat DEF Rounds, DelayOf
    <3>2. least * ShortPeriod > MaxSlip + Rounds("blink") * DelayOf("blink") + IdleTicks + 1
      BY DEF Schedulable, Tasks
    <3>3. BeatsLeft(least) = least * ShortPeriod
      BY <2>1 DEF BeatsLeft
    <3> QED BY <2>1, <3>1, <3>2, <3>3
  <2>4. ToWrap \in Int
    BY <2>1 DEF ToWrap
  <2> QED BY <1>1, <2>1, <2>2, <2>3, <2>4 DEF EnoughTime
<1> QED BY <1>2, <1>3, <1>4, <1>5 DEF InTime

-----------------------------------------------------------------------------
(* A beat *)

LEMMA TimeTypes ==
  ASSUME NEW least \in Nat, Whole, TimesOK
  PROVE  /\ slip \in Nat /\ slip <= MaxSlip /\ tick \in Nat /\ tick <= MaxTick /\ phase \in Nat
         /\ TicksDue \in Nat /\ TicksDue <= 1 /\ ToWrap \in Int
         /\ age \in Nat /\ BeatsLeft(least) \in Int
         /\ stopped \in BOOLEAN /\ alarmPending \in BOOLEAN /\ isCoreStopped \in BOOLEAN
<1>1. /\ slip \in Nat /\ slip <= MaxSlip /\ tick \in Nat /\ tick <= MaxTick
      /\ TicksDue \in Nat /\ TicksDue <= 1
  BY SlipTypes DEF Whole
<1>2. ToWrap \in Int
  BY <1>1 DEF ToWrap
<1>3. phase \in Nat /\ age \in Nat
  BY DEF TimesOK
<1>4. least * (ShortPeriod - age) \in Int
  BY <1>3
<1>5. BeatsLeft(least) \in Int
  BY <1>3, <1>4 DEF BeatsLeft
<1> QED BY <1>1, <1>2, <1>3, <1>5 DEF Whole, TypeOK

\* An awake core has two beats or more before the alarm whenever one may pass.
LEMMA TwoBeatsLeft ==
  ASSUME NEW least \in Nat, Schedulable(least), AppInv(least), ~stopped, ~alarmPending, AtRest \/ slip < MaxSlip
  PROVE  BeatsLeft(least) >= 2
<1>1. Whole /\ TimesOK /\ EnoughTime(least)
  BY DEF AppInv, InTime
<1>2. BeatsLeft(least) > MaxSlip - slip
  BY <1>1 DEF EnoughTime
<1>3. slip \in Nat /\ slip <= MaxSlip /\ BeatsLeft(least) \in Int
  BY <1>1, TimeTypes
<1>4. CASE AtRest
  <2>1. IdleAt("hook") /\ ~(Kernel!ExpectsIdle /\ Kernel!IsDelayedTaskListEmpty)
    BY <1>4 DEF AtRest
  <2>2. ~tickPending /\ ~isCoreStopped
    BY <1>1, <2>1, RestReasons
  <2>3. TicksDue = 0
    BY <2>2 DEF TicksDue, One
  <2>4. CASE \E t \in Tasks : Asleep(t)
    <3>1. PICK t \in Tasks : Asleep(t)
      BY <2>4
    <3>2. Work(t) \in Nat /\ Work(t) > 0
      BY <1>1, <3>1, WorkType
    <3>3. BeatsLeft(least) > MaxSlip - slip + Owing(t) + IdleTicks + 1
      BY <1>1, <2>2, <3>2 DEF EnoughTime
    <3>4. Owing(t) = Work(t)
      BY <2>3, <3>1, <3>2 DEF Owing
    <3> QED BY <1>3, <3>2, <3>3, <3>4
  <2>5. CASE MaxTick + 1 - tick <= IdleTicks + 1
    <3>1. tick \in Nat /\ tick <= MaxTick
      BY <1>1, TimeTypes
    <3>2. ToWrap = MaxTick + 1 - tick
      BY <2>3, <3>1 DEF ToWrap
    <3>3. BeatsLeft(least) > MaxSlip - slip + ToWrap
      BY <1>1, <2>2, <2>5, <3>1, <3>2 DEF EnoughTime
    <3> QED BY <1>3, <3>1, <3>2, <3>3
  <2> QED BY <1>1, <2>1, <2>4, <2>5, RestReasons
<1>5. CASE ~AtRest
  BY <1>2, <1>3, <1>5
<1> QED BY <1>4, <1>5

\* The last second before the alarm does not end while the core is awake.
LEMMA BeatOfSecond ==
  ASSUME NEW least \in Nat, Schedulable(least), AppInv(least), ~stopped, ~alarmPending, AtRest \/ slip < MaxSlip,
         NEW second \in BOOLEAN, IF second THEN SecondMayEnd ELSE SecondMayLast,
         phase' = IF second THEN 0 ELSE phase + 1,
         age' = IF second /\ age < MaxAge THEN age + 1 ELSE age
  PROVE  /\ ~(second /\ age + 1 = alarmAge)
         /\ age' \in Nat /\ age' < ShortPeriod
         /\ BeatsLeft(least)' \in Int /\ BeatsLeft(least)' >= BeatsLeft(least) - 1
<1>1. /\ phase \in Nat /\ age \in Nat /\ BeatsLeft(least) \in Int /\ BeatsLeft(least) >= 2
      /\ age < ShortPeriod /\ alarmAge = ShortPeriod
  BY TimeTypes, TwoBeatsLeft DEF AppInv, InTime, OnSchedule
<1>2. BeatsLeft(least) = least * (ShortPeriod - age) - phase
  BY DEF BeatsLeft
<1>3. CASE second
  <2>1. least <= phase + 1
    BY <1>3 DEF SecondMayEnd, Schedulable
  <2>2. age + 1 # ShortPeriod
    <3>1. SUFFICES ASSUME age + 1 = ShortPeriod PROVE FALSE
      OBVIOUS
    <3>2. ShortPeriod - age = 1
      BY <1>1, <3>1
    <3>3. least * (ShortPeriod - age) = least
      BY <3>2
    <3> QED BY <1>1, <1>2, <2>1, <3>3
  <2>3. age' = age + 1 /\ phase' = 0
    BY <1>1, <1>3
  <2>4. least * (ShortPeriod - age') = least * (ShortPeriod - age) - least
    BY <1>1, <2>3
  <2>5. BeatsLeft(least)' = BeatsLeft(least) + phase - least
    <3>1. least * (ShortPeriod - age) \in Int
      BY <1>1
    <3>2. BeatsLeft(least)' = least * (ShortPeriod - age') - phase'
      BY DEF BeatsLeft
    <3> QED BY <1>1, <1>2, <2>3, <2>4, <3>1, <3>2
  <2> QED BY <1>1, <2>1, <2>2, <2>3, <2>5
<1>4. CASE ~second
  <2>1. age' = age /\ phase' = phase + 1
    BY <1>4
  <2>2. BeatsLeft(least)' = BeatsLeft(least) - 1
    <3>1. least * (ShortPeriod - age) \in Int
      BY <1>1
    <3>2. BeatsLeft(least)' = least * (ShortPeriod - age') - phase'
      BY DEF BeatsLeft
    <3> QED BY <1>1, <1>2, <2>1, <3>1, <3>2
  <2> QED BY <1>1, <1>4, <2>1, <2>2
<1> QED BY <1>3, <1>4

LEMMA BeatKeepsPlaces ==
  ASSUME Whole, NEW alarm \in BOOLEAN, Beat(alarm)
  PROVE  /\ UNCHANGED <<kernelVars, taskVars, coreVars>>
         /\ UNCHANGED <<tick, place, notified, round, led, isCoreStopped, clock, stopped, pc>>
         /\ \A t \in Tasks : /\ TicksLeft(t)' = TicksLeft(t) /\ Work(t)' = Work(t)
                             /\ Asleep(t)' <=> Asleep(t)
         /\ AllIdle' <=> AllIdle
         /\ Tasked => Tasked'
<1>1. UNCHANGED <<kernelVars, taskVars, coreVars>>
  BY DEF Beat
<1>2. UNCHANGED <<tick, place, wake, notified, round, led, isCoreStopped, clock, stopped, pc>>
  BY <1>1 DEF kernelVars, taskVars, coreVars, servicesVars
<1>3. \A t \in Tasks : TicksLeft(t)' = TicksLeft(t)
  BY <1>2 DEF TicksLeft, Kernel!TicksLeft
<1>4. \A t \in Tasks : ToDo(t)' = ToDo(t)
  BY <1>2 DEF ToDo
<1>5. \A t \in Tasks : Asleep(t)' <=> Asleep(t)
  BY <1>2 DEF Asleep
<1>6. AllIdle' <=> AllIdle
  BY <1>2 DEF AllIdle
<1>7. Tasked => Tasked'
  BY <1>2, <1>3, <1>5 DEF Tasked
<1> QED BY <1>1, <1>2, <1>3, <1>4, <1>5, <1>6, <1>7 DEF Work

\* A beat that overtakes code costs one of the slips; one at rest brings the end
\* of what the core rests for nearer.
LEMMA BeatLeavesTime ==
  ASSUME NEW least \in Nat, Schedulable(least), AppInv(least), ~stopped, ~alarmPending,
         NEW alarm \in BOOLEAN, Beat(alarm),
         BeatsLeft(least)' \in Int, BeatsLeft(least)' >= BeatsLeft(least) - 1
  PROVE  EnoughTime(least)'
<1>1. Whole /\ TimesOK /\ EnoughTime(least) /\ Tasked /\ Modes
  BY DEF AppInv, InTime
<1>2. /\ slip \in Nat /\ slip <= MaxSlip /\ BeatsLeft(least) \in Int /\ BeatsLeft(least) >= 2
      /\ tick \in Nat /\ tick <= MaxTick /\ TicksDue \in Nat /\ TicksDue <= 1 /\ ToWrap \in Int
  BY <1>1, TimeTypes, TwoBeatsLeft DEF Beat
<1>3. \A t \in Tasks : Work(t) \in Nat /\ (Asleep(t) => Work(t) > 0)
  BY <1>1, WorkType
<1>4. /\ UNCHANGED <<tick, isCoreStopped>>
      /\ \A t \in Tasks : Work(t)' = Work(t) /\ (Asleep(t)' <=> Asleep(t))
  BY <1>1, BeatKeepsPlaces
<1>5. ~isCoreStopped => TicksDue' = 1
  <2>1. ~isCoreStopped => TickFalls
    BY <1>1 DEF TickFalls, Modes, Whole, CoreInv, Teardown
  <2>2. ~isCoreStopped => tickPending' = TRUE
    BY <2>1 DEF Beat
  <2> QED BY <2>2 DEF TicksDue, One
<1>6. \A t \in Tasks : Owing(t) = IF Asleep(t) THEN Work(t) - TicksDue ELSE Work(t)
  BY DEF Owing
<1>7. ~isCoreStopped => \A t \in Tasks : Owing(t)' = IF Asleep(t) THEN Work(t) - 1 ELSE Work(t)
  BY <1>4, <1>5 DEF Owing
<1>8. ToWrap = MaxTick + 1 - tick - TicksDue /\ (~isCoreStopped => ToWrap' = MaxTick + 1 - tick - 1)
  BY <1>4, <1>5 DEF ToWrap
<1>9. /\ BeatsLeft(least) > MaxSlip - slip
      /\ ~isCoreStopped =>
           /\ \A t \in Tasks : Work(t) > 0 => BeatsLeft(least) > MaxSlip - slip + Owing(t) + IdleTicks + 1
           /\ ToWrap <= IdleTicks + 1 => BeatsLeft(least) > MaxSlip - slip + ToWrap
           /\ ToWrap > IdleTicks + 1 /\ ToWrap <= IdleTicks + 1 + (MaxSlip - slip)
                => BeatsLeft(least) > MaxSlip - slip + IdleTicks + 1
  BY <1>1 DEF EnoughTime
<1>10. CASE ~AtRest
  <2>1. slip' = slip + 1 /\ slip + 1 <= MaxSlip
    BY <1>2, <1>10 DEF Beat
  <2>2. BeatsLeft(least)' > MaxSlip - slip'
    BY <1>2, <1>9, <2>1
  <2>3. ASSUME ~isCoreStopped, NEW t \in Tasks, Work(t)' > 0
        PROVE  BeatsLeft(least)' > MaxSlip - slip' + Owing(t)' + IdleTicks + 1
    <3>1. Work(t) > 0 /\ Owing(t)' <= Owing(t) /\ Owing(t) \in Int /\ Owing(t)' \in Int
      BY <1>2, <1>3, <1>4, <1>6, <1>7, <2>3
    <3>2. BeatsLeft(least) > MaxSlip - slip + Owing(t) + IdleTicks + 1
      BY <1>9, <2>3, <3>1
    <3> QED BY <1>2, <2>1, <3>1, <3>2
  <2>4. ASSUME ~isCoreStopped
        PROVE  /\ ToWrap' <= IdleTicks + 1 => BeatsLeft(least)' > MaxSlip - slip' + ToWrap'
               /\ ToWrap' > IdleTicks + 1 /\ ToWrap' <= IdleTicks + 1 + (MaxSlip - slip')
                    => BeatsLeft(least)' > MaxSlip - slip' + IdleTicks + 1
    BY <1>2, <1>8, <1>9, <2>1, <2>4
  <2> QED BY <1>4, <2>2, <2>3, <2>4 DEF EnoughTime
<1>11. CASE AtRest
  <2>1. IdleAt("hook") /\ ~(Kernel!ExpectsIdle /\ Kernel!IsDelayedTaskListEmpty)
    BY <1>11 DEF AtRest
  <2>2. /\ ~tickPending /\ Ready = {} /\ ~isCoreStopped
        /\ (\E t \in Tasks : Asleep(t)) \/ MaxTick + 1 - tick <= IdleTicks + 1
    BY <1>1, <2>1, RestReasons
  <2>3. slip' = slip /\ TicksDue = 0
    BY <1>11, <2>2 DEF Beat, TicksDue, One
  <2>4. \A t \in Tasks : Work(t) > 0 => Asleep(t)
    <3> SUFFICES ASSUME NEW t \in Tasks, ~Asleep(t) PROVE Work(t) = 0
      BY <1>3
    <3>1. place[t] = "suspended"
      BY <1>1, <2>2 DEF Asleep, Ready, Kernel!On, Whole, TypeOK, Kernel!TypeOK, Kernel!Places
    <3>2. TicksLeft(t) = 0 /\ ToDo(t) = 0
      BY <1>1, <3>1 DEF Tasked, TicksLeft, Kernel!TicksLeft, ToDo
    <3> QED BY <3>2 DEF Work
  <2>5. ASSUME NEW t \in Tasks, Work(t)' > 0
        PROVE  BeatsLeft(least)' > MaxSlip - slip' + Owing(t)' + IdleTicks + 1
    <3>1. Work(t) > 0 /\ Owing(t) = Work(t) /\ Owing(t)' = Work(t) - 1
      BY <1>3, <1>4, <1>6, <1>7, <2>2, <2>3, <2>4, <2>5
    <3>2. BeatsLeft(least) > MaxSlip - slip + Work(t) + IdleTicks + 1
      BY <1>9, <2>2, <3>1
    <3> QED BY <1>2, <1>3, <2>3, <3>1, <3>2
  <2>6. \/ BeatsLeft(least) > MaxSlip - slip + IdleTicks + 2
        \/ ToWrap <= IdleTicks + 1 /\ BeatsLeft(least) > MaxSlip - slip + ToWrap
    <3>1. CASE \E t \in Tasks : Asleep(t)
      <4>1. PICK t \in Tasks : Asleep(t)
        BY <3>1
      <4>2. Work(t) \in Nat /\ Work(t) > 0 /\ Owing(t) = Work(t)
        BY <1>3, <1>6, <2>3, <4>1
      <4>3. BeatsLeft(least) > MaxSlip - slip + Work(t) + IdleTicks + 1
        BY <1>9, <2>2, <4>2
      <4> QED BY <1>2, <4>2, <4>3
    <3>2. CASE MaxTick + 1 - tick <= IdleTicks + 1
      BY <1>2, <1>8, <1>9, <2>2, <2>3, <3>2
    <3> QED BY <2>2, <3>1, <3>2
  <2>7. /\ ToWrap' = ToWrap - 1
        /\ BeatsLeft(least)' > MaxSlip - slip'
        /\ ToWrap' <= IdleTicks + 1 => BeatsLeft(least)' > MaxSlip - slip' + ToWrap'
        /\ ToWrap' > IdleTicks + 1 /\ ToWrap' <= IdleTicks + 1 + (MaxSlip - slip')
             => BeatsLeft(least)' > MaxSlip - slip' + IdleTicks + 1
    <3>1. ToWrap' = ToWrap - 1 /\ ToWrap >= 1
      BY <1>2, <1>8, <2>2, <2>3
    <3> QED BY <1>2, <2>3, <2>6, <3>1
  <2> QED BY <2>5, <2>7 DEF EnoughTime
<1> QED BY <1>10, <1>11

LEMMA InTimeBeat ==
  ASSUME NEW least \in Nat, Schedulable(least), AppInv(least), AppBeat
  PROVE  InTime(least)'
<1>1. PICK second \in BOOLEAN :
        /\ IF second THEN SecondMayEnd ELSE SecondMayLast
        /\ phase' = IF second THEN 0 ELSE phase + 1
        /\ age' = IF second /\ age < MaxAge THEN age + 1 ELSE age
        /\ Beat(second /\ age + 1 = alarmAge)
        /\ UNCHANGED <<remaining, alarmAge>>
  BY DEF AppBeat, schedule
<1> DEFINE alarm == second /\ age + 1 = alarmAge
<1>2. alarm \in BOOLEAN /\ Beat(alarm) /\ alarmPending' = (alarmPending \/ alarm)
  BY <1>1 DEF Beat
<1>3. Whole /\ TimesOK /\ Tasked /\ Modes /\ AnsweredInTime /\ OnSchedule
  BY DEF AppInv, InTime
<1>4. /\ slip \in Nat /\ slip <= MaxSlip /\ phase \in Nat /\ age \in Nat
      /\ TicksDue \in Nat /\ TicksDue <= 1 /\ TicksDue' \in Nat /\ TicksDue' <= 1
      /\ alarmPending \in BOOLEAN /\ alarmAge = ShortPeriod
      /\ IF alarmPending THEN age = ShortPeriod /\ phase <= slip ELSE age < ShortPeriod
  BY <1>3, TimeTypes DEF OnSchedule, TicksDue, One
<1>5. /\ UNCHANGED <<tick, isCoreStopped, clock, stopped, pc>>
      /\ AllIdle' <=> AllIdle
  BY <1>2, <1>3, BeatKeepsPlaces
<1>6. Tasked'
  BY <1>2, <1>3, BeatKeepsPlaces
<1> HIDE DEF alarm
<1>7. AnsweredInTime'
  <2> SUFFICES ASSUME pc \in {"list", "enter"} PROVE AnsweredInTime'
    BY <1>5 DEF AnsweredInTime
  <2>1. ~AtRest
    BY <1>3 DEF AtRest, IdleAt, Whole, SlipInv, StoppedInWfi
  <2>2. slip' = slip + 1
    BY <1>2, <2>1 DEF Beat
  <2>3. MaxTick - tick > IdleTicks - (slip - TicksDue) /\ tick \in Nat
    BY <1>3, TimeTypes DEF AnsweredInTime
  <2>4. MaxTick - tick' > IdleTicks - (slip' - TicksDue')
    BY <1>4, <1>5, <2>2, <2>3 DEF TicksDue
  <2> QED BY <2>4 DEF AnsweredInTime
<1>8. /\ remaining'["blink"] = ShortPeriod /\ alarmAge' = ShortPeriod
      /\ \E k \in Nat \ {0} : remaining'["steady"] = k * ShortPeriod
  BY <1>1, <1>3 DEF OnSchedule
<1>9. CASE alarmPending
  <2>1. pc = "woken" /\ isCoreStopped
    BY <1>3, <1>9 DEF Modes
  <2>2. ~AtRest
    BY <1>9, <2>1 DEF AtRest, IdleAt
  <2>3. slip' = slip + 1 /\ slip + 1 <= MaxSlip
    BY <1>2, <1>4, <2>2 DEF Beat
  <2>4. ~second
    <3> SUFFICES ASSUME second PROVE FALSE
      OBVIOUS
    <3>1. least <= phase + 1
      BY <1>1 DEF SecondMayEnd, Schedulable
    <3> QED BY <1>4, <1>9, <2>3, <3>1 DEF Schedulable
  <2>5. alarmPending' /\ age' = age /\ phase' = phase + 1
    BY <1>1, <1>2, <1>9, <2>4
  <2>6. OnSchedule'
    BY <1>4, <1>8, <1>9, <2>3, <2>5 DEF OnSchedule
  <2>7. Modes'
    BY <1>3, <1>5, <1>9, <2>1, <2>5 DEF Modes
  <2>8. EnoughTime(least)'
    BY <2>5 DEF EnoughTime
  <2> QED BY <1>6, <1>7, <2>6, <2>7, <2>8 DEF InTime
<1>10. CASE ~alarmPending /\ stopped
  <2>1. AtRest /\ slip' = 0
    BY <1>2, <1>10 DEF AtRest, Beat
  <2>2. pc = "woken" /\ isCoreStopped
    BY <1>3, <1>10 DEF Modes, Whole, SlipInv, StoppedInWfi
  <2>3. alarmPending' = alarm
    BY <1>2, <1>10
  <2>4. ASSUME alarm PROVE OnSchedule'
    <3>1. second /\ age + 1 = ShortPeriod
      BY <1>4, <2>4 DEF alarm
    <3>2. age' = ShortPeriod /\ phase' = 0
      BY <1>1, <1>4, <1>10, <3>1
    <3>3. alarmPending' /\ age' = ShortPeriod /\ phase' <= slip'
      BY <2>1, <2>3, <2>4, <3>2
    <3> QED BY <1>8, <3>3 DEF OnSchedule
  <2>5. ASSUME ~alarm PROVE OnSchedule'
    <3>1. age' < ShortPeriod
      <4>1. ~(second /\ age + 1 = ShortPeriod)
        BY <1>4, <2>5 DEF alarm
      <4> QED BY <1>1, <1>4, <1>10, <4>1
    <3>2. ~alarmPending' /\ age' < ShortPeriod
      BY <2>3, <2>5, <3>1
    <3> QED BY <1>8, <3>2 DEF OnSchedule
  <2>6. Modes'
    BY <1>3, <1>5, <1>10, <2>2 DEF Modes
  <2>7. EnoughTime(least)'
    BY <1>5, <1>10 DEF EnoughTime
  <2> QED BY <1>6, <1>7, <2>4, <2>5, <2>6, <2>7 DEF InTime
<1>11. CASE ~alarmPending /\ ~stopped
  <2>1. AtRest \/ slip < MaxSlip
    BY <1>2 DEF Beat
  <2>2. /\ ~alarm
        /\ age' \in Nat /\ age' < ShortPeriod
        /\ BeatsLeft(least)' \in Int /\ BeatsLeft(least)' >= BeatsLeft(least) - 1
    BY <1>1, <1>11, <2>1, BeatOfSecond DEF alarm
  <2>3. ~alarmPending'
    BY <1>2, <1>11, <2>2
  <2>4. EnoughTime(least)'
    BY <1>2, <1>11, <2>2, BeatLeavesTime
  <2>5. Modes'
    BY <1>3, <1>5, <1>11, <2>3 DEF Modes
  <2>6. OnSchedule'
    BY <1>8, <2>2, <2>3 DEF OnSchedule
  <2> QED BY <1>6, <1>7, <2>4, <2>5, <2>6 DEF InTime
<1> QED BY <1>9, <1>10, <1>11

-----------------------------------------------------------------------------
(* The alarm *)

\* The alarm finds the calendar a short period after startTime, and copied: what
\* the scheduler stores is the schedule of the next one.
LEMMA AlarmOnTime ==
  ASSUME NEW least \in Nat, Schedulable(least), AppInv(least), AppAlarm
  PROVE  /\ pc = "woken" /\ isCoreStopped /\ ~stopped /\ AllIdle /\ phase <= slip
         /\ age = ShortPeriod /\ AlarmIRQHandler(Due(age))
         /\ age' = 0 /\ phase' = phase /\ lag' = 0 /\ remaining' = Aged(age)
         /\ remaining'["blink"] = ShortPeriod /\ alarmAge' = ShortPeriod
         /\ \E k \in Nat \ {0} : remaining'["steady"] = k * ShortPeriod
<1>1. TimesOK /\ Modes /\ OnSchedule /\ Whole
  BY DEF AppInv, InTime
<1>2. alarmPending /\ ~stopped
  BY DEF AppAlarm, AlarmIRQHandler, InterruptsOn
<1>3. pc = "woken" /\ isCoreStopped /\ AllIdle /\ age = ShortPeriod /\ phase <= slip
  BY <1>1, <1>2 DEF Modes, OnSchedule
<1>4. LagInHandler = {0}
  BY <1>3 DEF LagInHandler, LagAfterWait, Schedulable
<1>5. /\ AlarmIRQHandler(Due(age)) /\ age' = 0 /\ phase' = phase /\ lag' = 0 /\ remaining' = Aged(age)
      /\ alarmAge' = AlarmFor(Aged(age), 0, 0)
  <2>1. age - 0 = age /\ age > 0
    BY <1>1, <1>3
  <2> QED BY <1>4, <2>1 DEF AppAlarm
<1>6. PICK k \in Nat \ {0} : remaining["steady"] = k * ShortPeriod
  BY <1>1 DEF OnSchedule
<1>7. Aged(age)["blink"] = ShortPeriod
  BY <1>1, <1>3 DEF Aged, OnSchedule, Tasks, Period
<1>8. \E n \in Nat \ {0} : Aged(age)["steady"] = n * ShortPeriod
  <2>1. CASE ShortPeriod >= remaining["steady"]
    BY <1>3, <2>1, PeriodsAgree DEF Aged, Tasks
  <2>2. CASE ~(ShortPeriod >= remaining["steady"])
    <3>1. k # 1
      BY <1>6, <2>2
    <3>2. k * ShortPeriod - ShortPeriod = (k - 1) * ShortPeriod
      OBVIOUS
    <3>3. Aged(age)["steady"] = (k - 1) * ShortPeriod
      BY <1>3, <1>6, <2>2, <3>2 DEF Aged, Tasks
    <3> QED BY <3>1, <3>3
  <2> QED BY <2>1, <2>2
<1>9. Aged(age) \in [Tasks -> Int]
  BY <1>1, <1>3, PeriodTypes DEF Aged, TimesOK
<1>10. Shortest(Aged(age)) = ShortPeriod
  BY <1>7, <1>8, <1>9, MultipleIsLater, ShortestFirst
<1>11. alarmAge' = ShortPeriod
  BY <1>5, <1>10 DEF AlarmFor
<1> QED BY <1>2, <1>3, <1>5, <1>7, <1>8, <1>11

LEMMA InTimeAlarm ==
  ASSUME NEW least \in Nat, Schedulable(least), AppInv(least), AppAlarm, Whole'
  PROVE  InTime(least)'
<1>1. Whole /\ Tasked /\ Modes
  BY DEF AppInv, InTime
<1>2. /\ pc = "woken" /\ isCoreStopped /\ ~stopped /\ AllIdle /\ phase <= slip
      /\ age = ShortPeriod /\ AlarmIRQHandler(Due(age))
      /\ age' = 0 /\ phase' = phase
  BY AlarmOnTime
<1>3. /\ UNCHANGED <<tick, pc, stopped, slip, tickPending, round>>
      /\ alarmPending' = FALSE /\ isCoreStopped' = FALSE /\ clock' = "pll"
      /\ led' = [t \in Tasks |-> FALSE]
      /\ notified' = [t \in Tasks |-> notified[t] \/ t \in Due(age)]
      /\ place' = Kernel!Unblocked(Due(age))
  BY <1>2 DEF AlarmIRQHandler, ResumeFromStop2Mode, Restore
<1>4. ASSUME NEW t \in Tasks
      PROVE  /\ round'[t] = 0 /\ led'[t] = FALSE /\ place'[t] \in {"ready", "suspended"}
             /\ place'[t] = "suspended" => ~notified'[t]
             /\ notified'[t] => place'[t] = "ready"
  BY <1>1, <1>2, <1>3 DEF AllIdle, Tasked, Kernel!Unblocked
<1>5. \A t \in Tasks : ~Asleep(t)' /\ TicksLeft(t)' = 0
  BY <1>4 DEF Asleep, TicksLeft, Kernel!TicksLeft
<1>6. Tasked'
  <2> SUFFICES ASSUME NEW t \in Tasks
               PROVE  /\ place'[t] = "suspended" => round'[t] = 0 /\ ~notified'[t]
                      /\ notified'[t] => place'[t] = "ready" /\ round'[t] = 0 /\ led'[t] = FALSE
                      /\ Asleep(t)' => round'[t] >= 1
                      /\ TicksLeft(t)' <= DelayOf(t)'
                      /\ round'[t] >= 1 => led'[t] = (round'[t] % 2 = 1)
    BY DEF Tasked
  <2>1. TicksLeft(t)' <= DelayOf(t)'
    BY <1>5 DEF DelayOf
  <2>2. round'[t] = 0
    BY <1>4, Zenon
  <2>3. ~(round'[t] >= 1)
    BY <2>2
  <2> QED BY <1>4, <1>5, <2>1, <2>3
<1>7. Modes' /\ AnsweredInTime'
  BY <1>1, <1>2, <1>3 DEF Modes, AnsweredInTime
<1>8. OnSchedule'
  BY <1>2, <1>3, AlarmOnTime DEF OnSchedule
<1>9. EnoughTime(least)'
  <2>1. /\ slip \in Nat /\ slip <= MaxSlip /\ phase \in Nat /\ tick' \in 0 .. MaxTick
        /\ TicksDue' \in Nat
    <3>1. slip \in Nat /\ slip <= MaxSlip /\ phase \in Nat
      BY <1>1, TimeTypes DEF AppInv
    <3> QED BY <3>1 DEF Whole, TypeOK, Kernel!TypeOK, TicksDue, One
  <2>2. ToWrap' \in Int
    BY <2>1 DEF ToWrap
  <2>3. /\ BeatsLeft(least)' = least * ShortPeriod - phase /\ least * ShortPeriod \in Nat
        /\ BeatsLeft(least)' \in Int
    <3>1. least * ShortPeriod \in Nat
      BY ProductNat
    <3>2. least * (ShortPeriod - age') = least * ShortPeriod
      BY <1>2
    <3>3. BeatsLeft(least)' = least * (ShortPeriod - age') - phase'
      BY DEF BeatsLeft
    <3> QED BY <1>2, <2>1, <3>1, <3>2, <3>3
  <2>4. ASSUME NEW t \in Tasks
        PROVE  /\ Owing(t)' \in Nat
               /\ BeatsLeft(least)' > MaxSlip - slip + Owing(t)' + IdleTicks + 1
    <3>1. Rounds(t) \in Nat /\ DelayOf(t) \in Nat
      BY <1>1, RoundFacts DEF Whole
    <3>2. Rounds(t) * DelayOf(t) \in Nat
      BY <3>1, ProductNat
    <3>3. ToDo(t)' \in Nat /\ ToDo(t)' <= Rounds(t) * DelayOf(t)
      <4>1. ToDo(t)' = IF notified'[t] \/ round'[t] > 0 THEN (Rounds(t) - round'[t]) * DelayOf(t) ELSE 0
        BY DEF ToDo
      <4>2. (Rounds(t) - round'[t]) * DelayOf(t) = Rounds(t) * DelayOf(t)
        <5>1. round'[t] = 0
          BY <1>4, Zenon
        <5>2. Rounds(t) - round'[t] = Rounds(t)
          BY <3>1, <5>1
        <5> QED BY <5>2
      <4> QED BY <3>2, <4>1, <4>2
    <3>4. Owing(t)' = ToDo(t)'
      BY <1>5, <3>3 DEF Owing, Work
    <3>5. least * ShortPeriod > MaxSlip + Rounds(t) * DelayOf(t) + IdleTicks + 1
      BY DEF Schedulable
    <3> QED BY <1>2, <2>1, <2>3, <3>2, <3>3, <3>4, <3>5
  <2>5. BeatsLeft(least)' > MaxSlip - slip + IdleTicks + 1
    <3>1. "blink" \in Tasks
      BY DEF Tasks
    <3> QED BY <2>1, <2>3, <2>4, <3>1
  <2>6. /\ BeatsLeft(least)' > MaxSlip - slip'
        /\ \A t \in Tasks : BeatsLeft(least)' > MaxSlip - slip' + Owing(t)' + IdleTicks + 1
        /\ ToWrap' <= IdleTicks + 1 => BeatsLeft(least)' > MaxSlip - slip' + ToWrap'
        /\ BeatsLeft(least)' > MaxSlip - slip' + IdleTicks + 1
    <3>1. slip' = slip
      BY <1>3
    <3>2. \A t \in Tasks : BeatsLeft(least)' > MaxSlip - slip' + Owing(t)' + IdleTicks + 1
      BY <2>4, <3>1
    <3>3. BeatsLeft(least)' > MaxSlip - slip' + IdleTicks + 1
      BY <2>5, <3>1
    <3>4. BeatsLeft(least)' > MaxSlip - slip'
      BY <2>1, <2>3, <2>5, <3>1
    <3>5. ToWrap' <= IdleTicks + 1 => BeatsLeft(least)' > MaxSlip - slip' + ToWrap'
      <4>1. \A w \in Int : w <= IdleTicks + 1 => BeatsLeft(least)' > MaxSlip - slip' + w
        BY <2>1, <2>3, <2>5, <3>1
      <4> QED BY <2>2, <4>1, Zenon
    <3> QED BY <3>2, <3>3, <3>4, <3>5
  <2> QED BY <2>6 DEF EnoughTime
<1> QED BY <1>6, <1>7, <1>8, <1>9 DEF InTime

-----------------------------------------------------------------------------
(* The idle task *)

\* The answer that lets the idle hook go on is a tick older than the count at most.
LEMMA IdleAnswer ==
  ASSUME NEW least \in Nat, Schedulable(least), Whole,
         IdleAt("tick") \/ IdleAt("unblock"), Kernel!LongEnough(IdleTime)
  PROVE  MaxTick - tick > IdleTicks - (slip - TicksDue)
<1> USE DEF Whole
<1>1. pc \in {"tick", "unblock"} /\ ~tickPending
  BY DEF IdleAt, TasksMayRun, CoreInv, MaskedPlaces
<1>2. TicksDue = 0
  BY <1>1 DEF TicksDue, One
<1>3. /\ slip \in 0 .. MaxSlip /\ loaded \in 0 .. MaxTick /\ tick \in 0 .. MaxTick
      /\ nextUnblock \in 0 .. MaxTick /\ MaxSlip <= 1
  BY SlipTypes DEF TypeOK, Kernel!TypeOK, Schedulable
<1>4. SUFFICES MaxTick - tick > IdleTicks - slip
  BY <1>2, <1>3
<1>5. CASE pc = "tick"
  <2>1. (loaded - tick) % (MaxTick + 1) > IdleTicks
    BY <1>5 DEF Kernel!LongEnough, IdleTime, Kernel!TimeFrom
  <2>2. loaded >= tick
    <3>1. loaded < tick => slip - TicksDue >= 2
      BY <1>5 DEF SlipInv, UnblockLoaded
    <3> QED BY <1>2, <1>3, <3>1
  <2>3. (loaded - tick) % (MaxTick + 1) = loaded - tick
    BY <1>3, <2>2
  <2> QED BY <1>3, <2>1, <2>3
<1>6. CASE pc = "unblock"
  <2>1. (nextUnblock - loaded) % (MaxTick + 1) > IdleTicks
    BY <1>6 DEF Kernel!LongEnough, IdleTime, Kernel!TimeFrom
  <2>2. IF loaded <= tick THEN tick - loaded <= slip - TicksDue
        ELSE tick + MaxTick + 1 - loaded <= slip - TicksDue
    BY <1>6 DEF SlipInv, TickLoaded
  <2>3. CASE loaded <= tick
    <3>1. nextUnblock >= tick
      <4>1. nextUnblock = MaxTick \/ \E u \in Kernel!On("delayed") : nextUnblock = wake[u]
        BY DEF SlipInv, KernelKnows, NextUnblockKnown, Kernel!IsHead
      <4>2. \A u \in Kernel!On("delayed") : wake[u] > tick
        BY DEF SlipInv, KernelKnows, SleepersAhead, Kernel!On
      <4> QED BY <1>3, <4>1, <4>2
    <3>2. (nextUnblock - loaded) % (MaxTick + 1) = nextUnblock - loaded
      BY <1>3, <2>3, <3>1
    <3>3. tick - loaded <= slip
      BY <1>2, <1>3, <2>2, <2>3
    <3> QED BY <1>3, <2>1, <3>2, <3>3
  <2>4. CASE ~(loaded <= tick)
    <3>1. tick + MaxTick + 1 - loaded <= slip
      BY <1>2, <1>3, <2>2, <2>4
    <3>2. tick = 0
      BY <1>3, <3>1
    <3> QED BY <1>3, <3>2 DEF Schedulable
  <2> QED BY <2>3, <2>4
<1> QED BY <1>1, <1>5, <1>6

\* Both answers together mean that every task waits for a notification: who wakes
\* after the wrap has a longer delay than any of the application.
LEMMA BothAnswers ==
  ASSUME NEW least \in Nat, Schedulable(least), AppInv(least), IdleAt("list"), MayStop
  PROVE  AllIdle
<1>1. Whole /\ Tasked /\ AnsweredInTime
  BY DEF AppInv, InTime
<1>2. pc = "list" /\ ~tickPending /\ Ready = {}
  BY <1>1 DEF IdleAt, TasksMayRun, Whole, CoreInv, MaskedPlaces
<1> SUFFICES ASSUME NEW t \in Tasks, place[t] # "suspended" PROVE FALSE
  BY DEF AllIdle
<1>3. place[t] = "overflow"
  BY <1>1, <1>2 DEF MayStop, Kernel!IsDelayedTaskListEmpty, Ready, Kernel!On, Whole, TypeOK, Kernel!TypeOK, Kernel!Places
<1>4. TicksLeft(t) \in Int /\ TicksLeft(t) > MaxTick - tick /\ TicksLeft(t) <= DelayOf(t)
  BY <1>1, <1>3, LeftType DEF Whole, SlipInv, Tasked
<1>5. MaxTick - tick > IdleTicks - (slip - TicksDue) /\ TicksDue = 0
  BY <1>1, <1>2 DEF AnsweredInTime, TicksDue, One
<1>6. slip \in Nat /\ slip <= MaxSlip /\ tick \in Nat
  BY <1>1, SlipTypes DEF Whole
<1>7. DelayOf(t) + MaxSlip <= IdleTicks + 1 /\ DelayOf(t) \in Nat
  BY <1>1, RoundFacts DEF Schedulable, Whole
<1> QED BY <1>4, <1>5, <1>6, <1>7

LEMMA InTimeIdle ==
  ASSUME NEW least \in Nat, Schedulable(least), AppInv(least), AppIdle
  PROVE  InTime(least)'
<1>1. Whole /\ TimesOK /\ Tasked /\ Modes /\ AnsweredInTime /\ OnSchedule /\ EnoughTime(least)
  BY DEF AppInv, InTime
<1>2. UNCHANGED <<tick, place, wake, nextUnblock, notified, round, slip, tickPending, alarmPending,
                  phase, age, remaining, alarmAge>>
  BY DEF AppIdle, schedule, IdleTask, LoadFirst, AskIdleTime, AskDelayedList, MaskInterrupts, SuspendTick, Deinit,
         UnmaskInterrupts, WaitForInterrupt, CheckStopped, RestoreInIdle, kernelVars, taskVars, timeVars
<1>3. \A l : IdleAt(l) => /\ ~stopped /\ pc = l
                          /\ ~masked => ~alarmPending
  BY DEF IdleAt, TasksMayRun
<1>4. pc \notin {"suspend", "deinit", "unmask", "restore"} => ~masked
  BY <1>1 DEF Whole, CoreInv, MaskedPlaces
<1>5. pc \in {"hook", "tick", "unblock", "list", "enter", "suspend"} => ~isCoreStopped
  BY <1>1 DEF Whole, CoreInv, Teardown
<1>6. \A t \in Tasks : /\ TicksLeft(t)' = TicksLeft(t) /\ Work(t)' = Work(t)
                       /\ Asleep(t)' <=> Asleep(t)
                       /\ Owing(t)' = Owing(t)
  BY <1>2 DEF TicksLeft, Kernel!TicksLeft, Work, ToDo, Asleep, Owing, TicksDue, One
<1>7. AllIdle' <=> AllIdle
  BY <1>2 DEF AllIdle
<1>8. Tasked'
  <2>1. CASE led' = led
    BY <1>1, <1>2, <1>6, <2>1 DEF Tasked
  <2>2. CASE pc = "deinit" /\ led' = [t \in Tasks |-> FALSE]
    <3>1. AllIdle
      BY <1>1, <2>2 DEF Modes
    <3>2. \A t \in Tasks : place[t] = "suspended" /\ round[t] = 0 /\ ~notified[t] /\ ~Asleep(t)
      BY <1>1, <3>1 DEF AllIdle, Tasked, Asleep
    <3>3. \A t \in Tasks : ~(round[t] >= 1) /\ TicksLeft(t) <= DelayOf(t)
      BY <1>1, <3>2 DEF Tasked
    <3> QED BY <1>2, <1>6, <3>2, <3>3 DEF Tasked
  <2>3. pc # "restore"
    BY <1>1 DEF Modes
  <2>4. led' = led \/ (pc = "deinit" /\ led' = [t \in Tasks |-> FALSE])
    BY <1>3, <2>3 DEF AppIdle, IdleTask, LoadFirst, AskIdleTime, AskDelayedList, MaskInterrupts, SuspendTick, Deinit,
                      UnmaskInterrupts, WaitForInterrupt, CheckStopped, RestoreInIdle, taskVars
  <2> QED BY <2>1, <2>2, <2>4
<1>9. OnSchedule'
  BY <1>1, <1>2 DEF OnSchedule
<1>10. stopped /\ ~stopped' => FALSE
  BY <1>3 DEF AppIdle, IdleTask, LoadFirst, AskIdleTime, AskDelayedList, MaskInterrupts, SuspendTick, Deinit,
              UnmaskInterrupts, WaitForInterrupt, CheckStopped, RestoreInIdle
<1>11. isCoreStopped /\ ~isCoreStopped' => pc = "restore"
  BY <1>3 DEF AppIdle, IdleTask, LoadFirst, AskIdleTime, AskDelayedList, MaskInterrupts, SuspendTick, Deinit,
              UnmaskInterrupts, WaitForInterrupt, CheckStopped, RestoreInIdle, servicesVars
<1>12. EnoughTime(least)'
  <2>1. BeatsLeft(least)' = BeatsLeft(least) /\ ToWrap' = ToWrap
    BY <1>2 DEF BeatsLeft, ToWrap, TicksDue, One
  <2>2. ~isCoreStopped' => ~isCoreStopped
    BY <1>1, <1>11 DEF Modes
  <2> QED BY <1>1, <1>2, <1>6, <1>10, <2>1, <2>2 DEF EnoughTime
<1>13. CASE LoadFirst
  <2>1. pc = "hook" /\ pc' \in {"tick", "unblock"} /\ UNCHANGED <<isCoreStopped, clock, stopped>> /\ ~isCoreStopped /\ ~stopped /\ ~alarmPending
    BY <1>3, <1>4, <1>5, <1>13 DEF LoadFirst, servicesVars
  <2>2. Modes' /\ AnsweredInTime'
    BY <1>1, <1>2, <2>1 DEF Modes, AnsweredInTime
  <2> QED BY <1>8, <1>9, <1>12, <2>2 DEF InTime
<1>14. CASE AskIdleTime
  <2>1. /\ pc \in {"tick", "unblock"} /\ pc' = IF Kernel!LongEnough(IdleTime) THEN "list" ELSE "hook"
        /\ UNCHANGED <<isCoreStopped, clock, stopped>> /\ ~isCoreStopped /\ ~stopped /\ ~alarmPending
    BY <1>3, <1>4, <1>5, <1>14 DEF AskIdleTime, servicesVars
  <2>2. Kernel!LongEnough(IdleTime) => MaxTick - tick > IdleTicks - (slip - TicksDue)
    BY <1>1, <1>14, IdleAnswer DEF AskIdleTime
  <2>3. Modes'
    BY <1>1, <1>2, <2>1 DEF Modes
  <2>4. AnsweredInTime'
    BY <1>2, <2>1, <2>2 DEF AnsweredInTime, TicksDue, One
  <2> QED BY <1>8, <1>9, <1>12, <2>3, <2>4 DEF InTime
<1>15. CASE AskDelayedList
  <2>1. /\ pc = "list" /\ pc' = IF MayStop THEN "enter" ELSE "hook"
        /\ UNCHANGED <<isCoreStopped, clock, stopped>> /\ ~isCoreStopped /\ ~stopped /\ ~alarmPending
    BY <1>3, <1>4, <1>5, <1>15 DEF AskDelayedList, servicesVars
  <2>2. MayStop => AllIdle
    BY <1>15, BothAnswers DEF AskDelayedList
  <2>3. Modes'
    BY <1>1, <1>2, <1>7, <2>1, <2>2 DEF Modes
  <2>4. AnsweredInTime'
    BY <1>1, <1>2, <2>1 DEF AnsweredInTime, TicksDue, One
  <2> QED BY <1>8, <1>9, <1>12, <2>3, <2>4 DEF InTime
<1>16. CASE MaskInterrupts \/ SuspendTick \/ Deinit \/ UnmaskInterrupts
  <2>1. /\ ~stopped /\ ~stopped'
        /\ \/ /\ pc = "enter" /\ pc' = "suspend" /\ ~isCoreStopped /\ UNCHANGED <<isCoreStopped, clock>>
           \/ pc = "suspend" /\ pc' = "deinit" /\ isCoreStopped'
           \/ pc = "deinit" /\ pc' = "unmask" /\ UNCHANGED isCoreStopped
           \/ pc = "unmask" /\ pc' = "wfi" /\ UNCHANGED isCoreStopped
    <3>1. pc # "resume"
      BY <1>1 DEF Modes
    <3> QED BY <1>3, <1>5, <1>16, <3>1 DEF MaskInterrupts, SuspendTick, Deinit, UnmaskInterrupts, servicesVars
  <2>2. AllIdle
    BY <1>1, <2>1 DEF Modes
  <2>3. pc \in {"deinit", "unmask"} => isCoreStopped
    BY <1>1 DEF Modes
  <2>4. ~alarmPending
    BY <1>1, <2>1 DEF Modes
  <2>5. Modes'
    BY <1>1, <1>2, <1>7, <2>1, <2>2, <2>3, <2>4 DEF Modes
  <2>6. AnsweredInTime'
    BY <2>1 DEF AnsweredInTime
  <2> QED BY <1>8, <1>9, <1>12, <2>5, <2>6 DEF InTime
<1>17. CASE WaitForInterrupt
  <2>1. pc = "wfi" /\ pc' = "woken" /\ stopped' /\ UNCHANGED isCoreStopped
    BY <1>3, <1>17 DEF WaitForInterrupt
  <2>2. Modes' /\ AnsweredInTime'
    BY <1>1, <1>2, <1>7, <2>1 DEF Modes, AnsweredInTime
  <2> QED BY <1>8, <1>9, <1>12, <2>2 DEF InTime
<1>18. CASE CheckStopped
  <2>1. /\ pc = "woken" /\ pc' = (IF isCoreStopped THEN "resume" ELSE "hook")
        /\ UNCHANGED <<isCoreStopped, clock, stopped>> /\ ~stopped /\ ~alarmPending
    BY <1>3, <1>4, <1>18 DEF CheckStopped, servicesVars
  <2>2. ~isCoreStopped
    BY <1>1, <2>1 DEF Modes
  <2>3. Modes' /\ AnsweredInTime'
    BY <1>1, <1>2, <2>1, <2>2 DEF Modes, AnsweredInTime
  <2> QED BY <1>8, <1>9, <1>12, <2>3 DEF InTime
<1>19. ~RestoreInIdle
  BY <1>1, <1>3 DEF RestoreInIdle, Modes
<1> QED BY <1>13, <1>14, <1>15, <1>16, <1>17, <1>18, <1>19 DEF AppIdle, IdleTask

-----------------------------------------------------------------------------
(* The tick, and the end of STOP2 *)

LEMMA InTimeTick ==
  ASSUME NEW least \in Nat, Schedulable(least), AppInv(least), SysTickHandler, UNCHANGED appVars
  PROVE  InTime(least)'
<1>1. Whole /\ TimesOK /\ Tasked /\ Modes /\ AnsweredInTime /\ OnSchedule /\ EnoughTime(least)
  BY DEF AppInv, InTime
<1>2. /\ UNCHANGED <<notified, round, led, isCoreStopped, clock, stopped, pc, slip, alarmPending,
                     phase, age, remaining, alarmAge>>
      /\ tickPending /\ tickPending' = FALSE /\ ~stopped /\ ~alarmPending /\ Kernel!IncrementTick
  BY DEF SysTickHandler, InterruptsOn, taskVars, coreVars, servicesVars, appVars, schedule
<1>3. TicksDue = 1 /\ TicksDue' = 0
  BY <1>2 DEF TicksDue, One
<1>4. /\ slip \in Nat /\ slip <= MaxSlip /\ tick \in Nat /\ tick <= MaxTick /\ BeatsLeft(least) \in Int
  BY <1>1, TimeTypes
<1>5. /\ KernelKnows' /\ tick' = IF tick = MaxTick THEN 0 ELSE tick + 1
  BY <1>1, <1>2, TickEffect DEF Whole, SlipInv
<1>6. ASSUME NEW t \in Tasks
      PROVE  /\ TicksLeft(t)' = IF Asleep(t) THEN TicksLeft(t) - 1 ELSE 0
             /\ TicksLeft(t) \in Int /\ TicksLeft(t) >= 0
             /\ Asleep(t)' => Asleep(t)
             /\ place'[t] = "suspended" <=> place[t] = "suspended"
             /\ place[t] = "ready" => place'[t] = "ready"
  <2>1. /\ TicksLeft(t)' = IF TicksLeft(t) > 0 THEN TicksLeft(t) - 1 ELSE 0
        /\ place'[t] = "suspended" <=> place[t] = "suspended"
        /\ place[t] = "ready" => place'[t] = "ready"
    BY <1>1, <1>2, TickEffect DEF Whole, SlipInv
  <2>2. TicksLeft(t) \in Nat /\ (Asleep(t) <=> TicksLeft(t) > 0)
    BY <1>1, WorkType
  <2>3. Asleep(t)' <=> TicksLeft(t)' > 0
    BY <1>5, LeftType DEF KernelKnows, SleepersAhead, Kernel!TypeOK, TicksLeft, Kernel!TicksLeft, Asleep
  <2> QED BY <2>1, <2>2, <2>3
<1>7. Tasked'
  <2> SUFFICES ASSUME NEW t \in Tasks
               PROVE  /\ place'[t] = "suspended" => round'[t] = 0 /\ ~notified'[t]
                      /\ notified'[t] => place'[t] = "ready" /\ round'[t] = 0 /\ led'[t] = FALSE
                      /\ Asleep(t)' => round'[t] >= 1
                      /\ TicksLeft(t)' <= DelayOf(t)'
                      /\ round'[t] >= 1 => led'[t] = (round'[t] % 2 = 1)
    BY DEF Tasked
  <2>1. /\ place[t] = "suspended" => round[t] = 0 /\ ~notified[t]
        /\ notified[t] => place[t] = "ready" /\ round[t] = 0 /\ led[t] = FALSE
        /\ Asleep(t) => round[t] >= 1
        /\ round[t] >= 1 => led[t] = (round[t] % 2 = 1)
    BY <1>1 DEF Tasked
  <2>2. TicksLeft(t)' <= DelayOf(t)'
    <3>1. TicksLeft(t) <= DelayOf(t) /\ DelayOf(t) \in Nat
      BY <1>1, RoundFacts DEF Tasked, Whole
    <3>2. DelayOf(t)' = DelayOf(t)
      BY DEF DelayOf
    <3> QED BY <1>6, <3>1, <3>2
  <2> QED BY <1>2, <1>6, <2>1, <2>2
<1>8. AllIdle => AllIdle'
  BY <1>6 DEF AllIdle
<1>9. Modes' /\ OnSchedule'
  BY <1>1, <1>2, <1>8 DEF Modes, OnSchedule
<1>10. AnsweredInTime'
  <2> SUFFICES ASSUME pc \in {"list", "enter"} PROVE MaxTick - tick' > IdleTicks - (slip' - TicksDue')
    BY <1>2 DEF AnsweredInTime
  <2>1. MaxTick - tick > IdleTicks - (slip - 1)
    BY <1>1, <1>3 DEF AnsweredInTime
  <2>2. MaxTick - tick' > IdleTicks - slip
    BY <1>4, <1>5, <2>1 DEF Schedulable
  <2> QED BY <1>2, <1>3, <1>4, <2>2
<1>11. ASSUME NEW t \in Tasks
       PROVE  Owing(t)' = Owing(t) /\ (Work(t)' > 0 => Work(t) > 0)
  <2>1. ToDo(t)' = ToDo(t) /\ ToDo(t) \in Nat
    BY <1>1, <1>2, WorkType DEF ToDo
  <2>2. Work(t) = TicksLeft(t) + ToDo(t) /\ Work(t)' = TicksLeft(t)' + ToDo(t)
    BY <2>1 DEF Work
  <2>3. Work(t)' = IF Asleep(t) THEN Work(t) - 1 ELSE Work(t)
    <3>1. ~Asleep(t) => TicksLeft(t) = 0
      BY <1>1, WorkType
    <3> QED BY <1>6, <2>1, <2>2, <3>1
  <2>4. Work(t) \in Nat
    BY <1>1, WorkType
  <2>5. Owing(t) = IF Asleep(t) THEN Work(t) - 1 ELSE Work(t)
    BY <1>3 DEF Owing
  <2>6. Owing(t)' = Work(t)'
    BY <1>3, <2>3, <2>4 DEF Owing
  <2> QED BY <2>3, <2>4, <2>5, <2>6
<1>12. /\ ToWrap \in Int /\ ToWrap' \in Int
       /\ ToWrap' = ToWrap \/ ToWrap' > IdleTicks + 1 + MaxSlip
  BY <1>3, <1>4, <1>5 DEF ToWrap, Schedulable
<1>13. EnoughTime(least)'
  <2>1. BeatsLeft(least)' = BeatsLeft(least)
    BY <1>2 DEF BeatsLeft
  <2>2. BeatsLeft(least) > MaxSlip - slip
    BY <1>1, <1>2 DEF EnoughTime
  <2>3. ASSUME ~isCoreStopped
        PROVE  /\ ToWrap' <= IdleTicks + 1 => BeatsLeft(least) > MaxSlip - slip + ToWrap'
               /\ ToWrap' > IdleTicks + 1 /\ ToWrap' <= IdleTicks + 1 + (MaxSlip - slip)
                    => BeatsLeft(least) > MaxSlip - slip + IdleTicks + 1
    <3>1. CASE ToWrap' = ToWrap
      BY <1>1, <1>2, <2>3, <3>1 DEF EnoughTime
    <3>2. CASE ToWrap' > IdleTicks + 1 + MaxSlip
      BY <1>4, <1>12, <3>2
    <3> QED BY <1>12, <3>1, <3>2
  <2>4. ASSUME ~isCoreStopped, NEW t \in Tasks, Work(t)' > 0
        PROVE  BeatsLeft(least) > MaxSlip - slip + Owing(t)' + IdleTicks + 1
    BY <1>1, <1>2, <1>11, <2>4 DEF EnoughTime
  <2> QED BY <1>2, <2>1, <2>2, <2>3, <2>4 DEF EnoughTime
<1> QED BY <1>7, <1>9, <1>10, <1>13 DEF InTime

LEMMA InTimeWake ==
  ASSUME NEW least \in Nat, Schedulable(least), AppInv(least), Wake, UNCHANGED appVars
  PROVE  InTime(least)'
<1>1. Tasked /\ Modes /\ AnsweredInTime /\ OnSchedule
  BY DEF AppInv, InTime
<1>2. alarmPending /\ stopped
  BY DEF Wake, Schedulable
<1>3. /\ UNCHANGED <<tick, place, wake, notified, round, led, isCoreStopped, clock, pc, slip, alarmPending, tickPending,
                     phase, age, remaining, alarmAge>>
      /\ ~stopped'
  BY DEF Wake, kernelVars, taskVars, servicesVars, timeVars, appVars, schedule
<1>4. Tasked'
  BY <1>1, <1>3 DEF Tasked, Asleep, TicksLeft, Kernel!TicksLeft, DelayOf
<1>5. Modes'
  BY <1>1, <1>2, <1>3 DEF Modes, AllIdle
<1>6. AnsweredInTime' /\ OnSchedule'
  BY <1>1, <1>3 DEF AnsweredInTime, OnSchedule, TicksDue, One
<1>7. EnoughTime(least)'
  BY <1>2, <1>3 DEF EnoughTime
<1> QED BY <1>4, <1>5, <1>6, <1>7 DEF InTime

-----------------------------------------------------------------------------
(* The tasks *)

LEMMA NextOdd == ASSUME NEW n \in Nat PROVE ((n + 1) % 2 = 1) <=> ~(n % 2 = 1)
  OBVIOUS

\* Beginning a delay turns a part of what is to do into ticks left, and no more.
LEMMA DelayKeepsWork ==
  ASSUME NEW rounds \in Nat, NEW n \in Nat, n < rounds, NEW d \in Nat
  PROVE  d + (rounds - (n + 1)) * d = (rounds - n) * d
  OBVIOUS

\* A task does what it has been notified of and has begun, and adds nothing.
LEMMA TaskEffect ==
  ASSUME Whole, Tasked, NEW t \in Tasks, TaskCode(t)
  PROVE  /\ UNCHANGED <<tick, isCoreStopped, clock, stopped, pc, alarmPending, slip>>
         /\ tickPending = FALSE /\ tickPending' = FALSE /\ place[t] = "ready" /\ ~isCoreStopped
         /\ \A u \in Tasks \ {t} : /\ TicksLeft(u)' = TicksLeft(u) /\ place'[u] = place[u]
                                   /\ notified'[u] = notified[u] /\ round'[u] = round[u] /\ led'[u] = led[u]
         /\ place'[t] = "suspended" => round'[t] = 0 /\ ~notified'[t]
         /\ ~notified'[t]
         /\ Asleep(t)' => round'[t] >= 1
         /\ TicksLeft(t)' \in Nat /\ TicksLeft(t)' <= DelayOf(t)
         /\ round'[t] >= 1 => led'[t] = (round'[t] % 2 = 1)
         /\ Work(t)' \in {0, Work(t)} /\ (Work(t)' > 0 => Asleep(t)')
<1> USE DEF Whole
<1>1. /\ UNCHANGED <<tick, isCoreStopped, clock, stopped, pc, alarmPending, slip, tickPending>>
      /\ tickPending = FALSE /\ place[t] = "ready"
  <2>1. /\ UNCHANGED <<isCoreStopped, clock, stopped, pc, alarmPending, slip, tickPending>>
        /\ ~tickPending /\ t \in Ready
    BY DEF TaskCode, TakeNotification, NextRound, FinishWork, Scheduled, TasksMayRun, coreVars, servicesVars, timeVars
  <2>2. UNCHANGED tick
    BY DEF TaskCode, TakeNotification, NextRound, FinishWork, BeginDelay, Kernel!TaskDelay, Kernel!BlockIndefinitely,
           kernelVars
  <2> QED BY <2>1, <2>2 DEF Ready, Kernel!On, TypeOK
<1>2. ~isCoreStopped
  BY <1>1 DEF SlipInv, NobodyWakes, Ready, Kernel!On
<1>3. /\ round[t] \in Nat /\ Rounds(t) \in Nat /\ round[t] <= Rounds(t) /\ Rounds(t) >= 1
      /\ DelayOf(t) \in Nat /\ DelayOf(t) >= 1 /\ DelayOf(t) <= MaxTick
  BY RoundFacts
<1>4. TicksLeft(t) = 0 /\ ~Asleep(t)
  BY <1>1 DEF TicksLeft, Kernel!TicksLeft, Asleep
<1>5. /\ notified[t] => round[t] = 0 /\ led[t] = FALSE
      /\ round[t] >= 1 => led[t] = (round[t] % 2 = 1)
  BY DEF Tasked
<1>6. notified \in [Tasks -> BOOLEAN] /\ round \in [Tasks -> Nat] /\ led \in [Tasks -> BOOLEAN]
  BY DEF TypeOK
<1>7. CASE \/ TakeNotification(t) /\ notified[t]
           \/ NextRound(t)
  <2>1. /\ BeginDelay(t) /\ round[t] < Rounds(t)
        /\ (notified[t] /\ round[t] = 0 /\ led[t] = FALSE) \/ (t = "blink" /\ round[t] >= 1)
        /\ notified[t] \/ round[t] > 0
        /\ \A u \in Tasks \ {t} : notified'[u] = notified[u]
        /\ ~notified'[t]
    <3>1. CASE TakeNotification(t) /\ notified[t]
      BY <1>3, <1>5, <1>6, <3>1 DEF TakeNotification
    <3>2. CASE NextRound(t)
      <4>1. BeginDelay(t) /\ round[t] \in 1 .. (Rounds(t) - 1) /\ UNCHANGED notified
        BY <3>2 DEF NextRound
      <4>2. t = "blink" /\ round[t] >= 1 /\ round[t] < Rounds(t)
        BY <1>3, <4>1 DEF Rounds, Tasks
      <4>3. ~notified[t]
        BY <1>3, <1>5, <4>2
      <4> QED BY <1>3, <4>1, <4>2, <4>3
    <3> QED BY <1>7, <3>1, <3>2
  <2>2. /\ led' = [led EXCEPT ![t] = Lights(t)] /\ round' = [round EXCEPT ![t] = @ + 1]
        /\ Kernel!TaskDelay(t, DelayOf(t))
    BY <2>1 DEF BeginDelay, DelayOf
  <2>3. DelayOf(t) \in 1 .. MaxTick
    BY <1>3
  <2>4. /\ TicksLeft(t)' = DelayOf(t) /\ place'[t] \in {"delayed", "overflow"}
        /\ \A u \in Tasks \ {t} : TicksLeft(u)' = TicksLeft(u) /\ place'[u] = place[u]
    BY <2>2, <2>3, DelayEffect DEF SlipInv
  <2>5. /\ round'[t] = round[t] + 1 /\ led'[t] = Lights(t)
        /\ \A u \in Tasks \ {t} : round'[u] = round[u] /\ led'[u] = led[u]
    BY <1>6, <2>2
  <2>6. led'[t] = (round'[t] % 2 = 1)
    <3>1. CASE round[t] = 0 /\ led[t] = FALSE
      <4>1. round'[t] % 2 = 1
        BY <2>5, <3>1
      <4>2. led'[t] = TRUE
        BY <2>5, <3>1 DEF Lights
      <4> QED BY <4>1, <4>2
    <3>2. CASE t = "blink" /\ round[t] >= 1
      <4>1. (round'[t] % 2 = 1) <=> ~(round[t] % 2 = 1)
        BY <1>3, <2>5, NextOdd
      <4>2. led'[t] = ~led[t]
        BY <2>5, <3>2 DEF Lights
      <4>3. led[t] = (round[t] % 2 = 1)
        BY <1>5, <3>2
      <4> QED BY <4>1, <4>2, <4>3
    <3> QED BY <2>1, <3>1, <3>2
  <2>7. Work(t)' = Work(t)
    <3>1. ToDo(t) = (Rounds(t) - round[t]) * DelayOf(t)
      BY <2>1 DEF ToDo
    <3>2. round'[t] > 0 /\ Rounds(t)' = Rounds(t) /\ DelayOf(t)' = DelayOf(t)
      BY <1>3, <2>5 DEF Rounds, DelayOf
    <3>3. ToDo(t)' = (Rounds(t) - (round[t] + 1)) * DelayOf(t)
      BY <2>5, <3>2 DEF ToDo
    <3>4. TicksLeft(t)' + ToDo(t)' = ToDo(t)
      BY <1>3, <2>1, <2>4, <3>1, <3>3, DelayKeepsWork
    <3>5. Work(t)' = TicksLeft(t)' + ToDo(t)' /\ Work(t) = 0 + ToDo(t) /\ ToDo(t) \in Nat
      BY <1>4, WorkType DEF Work
    <3> QED BY <3>4, <3>5
  <2>8. Asleep(t)'
    BY <2>4 DEF Asleep
  <2>9. round'[t] >= 1
    BY <1>3, <2>5
  <2> QED BY <1>1, <1>2, <1>3, <2>1, <2>4, <2>5, <2>6, <2>7, <2>8, <2>9
<1>8. CASE \/ TakeNotification(t) /\ ~notified[t]
           \/ FinishWork(t)
  <2>1. /\ UNCHANGED <<tick, wake, nextUnblock, notified>>
        /\ round'[t] = 0 /\ ~notified[t] /\ place'[t] \in {"ready", "suspended"}
        /\ \A u \in Tasks \ {t} : place'[u] = place[u] /\ round'[u] = round[u] /\ led'[u] = led[u]
    <3>1. CASE TakeNotification(t) /\ ~notified[t]
      BY <1>6, <3>1 DEF TakeNotification, Kernel!BlockIndefinitely, taskVars, TypeOK, Kernel!TypeOK
    <3>2. CASE FinishWork(t)
      <4>1. ~notified[t]
        BY <1>3, <1>5, <3>2 DEF FinishWork
      <4> QED BY <1>1, <1>6, <3>2, <4>1 DEF FinishWork, kernelVars
    <3> QED BY <1>8, <3>1, <3>2
  <2>2. \A u \in Tasks \ {t} : TicksLeft(u)' = TicksLeft(u)
    BY <2>1 DEF TicksLeft, Kernel!TicksLeft
  <2>3. TicksLeft(t)' = 0 /\ ~Asleep(t)'
    BY <2>1 DEF TicksLeft, Kernel!TicksLeft, Asleep
  <2>4. Work(t)' = 0
    <3>1. ToDo(t)' = 0
      BY <2>1 DEF ToDo
    <3> QED BY <2>3, <3>1 DEF Work
  <2>5. ~(round'[t] >= 1)
    BY <2>1
  <2> QED BY <1>1, <1>2, <1>3, <2>1, <2>2, <2>3, <2>4, <2>5
<1> QED BY <1>7, <1>8 DEF TaskCode

LEMMA InTimeTask ==
  ASSUME NEW least \in Nat, Schedulable(least), AppInv(least), NEW t \in Tasks, AppTask(t)
  PROVE  InTime(least)'
<1>1. Whole /\ TimesOK /\ Tasked /\ Modes /\ AnsweredInTime /\ OnSchedule /\ EnoughTime(least)
  BY DEF AppInv, InTime
<1>2. /\ TaskCode(t) /\ UNCHANGED <<phase, age, remaining, alarmAge>>
  BY DEF AppTask, appVars, schedule
<1>3. /\ UNCHANGED <<tick, isCoreStopped, clock, stopped, pc, alarmPending, slip>>
      /\ tickPending = FALSE /\ tickPending' = FALSE /\ place[t] = "ready" /\ ~isCoreStopped
  BY <1>1, <1>2, TaskEffect
<1>4. TicksDue = 0 /\ TicksDue' = 0
  BY <1>3 DEF TicksDue, One
<1>5. ~AllIdle
  BY <1>3 DEF AllIdle
<1>6. Modes' /\ OnSchedule'
  BY <1>1, <1>2, <1>3, <1>5 DEF Modes, OnSchedule
<1>7. AnsweredInTime'
  BY <1>1, <1>3 DEF AnsweredInTime, TicksDue, One
<1>8. Tasked'
  <2> SUFFICES ASSUME NEW u \in Tasks
               PROVE  /\ place'[u] = "suspended" => round'[u] = 0 /\ ~notified'[u]
                      /\ notified'[u] => place'[u] = "ready" /\ round'[u] = 0 /\ led'[u] = FALSE
                      /\ Asleep(u)' => round'[u] >= 1
                      /\ TicksLeft(u)' <= DelayOf(u)'
                      /\ round'[u] >= 1 => led'[u] = (round'[u] % 2 = 1)
    BY DEF Tasked
  <2>1. DelayOf(u)' = DelayOf(u)
    BY DEF DelayOf
  <2>2. CASE u = t
    BY <1>1, <1>2, <2>1, <2>2, TaskEffect
  <2>3. CASE u # t
    <3>1. /\ TicksLeft(u)' = TicksLeft(u) /\ place'[u] = place[u]
          /\ notified'[u] = notified[u] /\ round'[u] = round[u] /\ led'[u] = led[u]
      BY <1>1, <1>2, <2>3, TaskEffect
    <3> QED BY <1>1, <2>1, <3>1 DEF Tasked, Asleep
  <2> QED BY <2>2, <2>3
<1>9. ASSUME NEW u \in Tasks
      PROVE  Work(u)' > 0 => Work(u) > 0 /\ Owing(u)' = Owing(u)
  <2>1. Work(u) \in Nat
    BY <1>1, WorkType
  <2>2. Work(u)' = 0 \/ Work(u)' = Work(u)
    <3>1. CASE u = t
      <4>1. Work(t)' \in {0, Work(t)}
        BY <1>1, <1>2, TaskEffect
      <4> QED BY <3>1, <4>1
    <3>2. CASE u # t
      <4>1. TicksLeft(u)' = TicksLeft(u) /\ notified'[u] = notified[u] /\ round'[u] = round[u]
        BY <1>1, <1>2, <3>2, TaskEffect
      <4>2. ToDo(u)' = ToDo(u)
        BY <4>1 DEF ToDo
      <4> QED BY <4>1, <4>2 DEF Work
    <3> QED BY <3>1, <3>2
  <2>3. Owing(u) = Work(u) /\ Owing(u)' = Work(u)'
    <3>1. Work(u)' \in Nat
      BY <2>1, <2>2
    <3> QED BY <1>4, <2>1, <3>1 DEF Owing
  <2> QED BY <2>1, <2>2, <2>3
<1>10. EnoughTime(least)'
  <2>1. BeatsLeft(least)' = BeatsLeft(least) /\ ToWrap' = ToWrap
    BY <1>2, <1>3, <1>4 DEF BeatsLeft, ToWrap
  <2> QED BY <1>1, <1>3, <1>9, <2>1 DEF EnoughTime
<1> QED BY <1>6, <1>7, <1>8, <1>10 DEF InTime

-----------------------------------------------------------------------------
(* What holds of a schedule that leaves the core enough time *)

LEMMA AppInvInit == ASSUME NEW least \in Nat, Schedulable(least) PROVE AppInit => AppInv(least)
<1> SUFFICES ASSUME AppInit PROVE AppInv(least)
  OBVIOUS
<1>1. Whole
  BY CoreInit, TypeInit, SlipInit DEF AppInit, Whole
<1> QED BY <1>1, TimesInit, InTimeInit DEF AppInv

LEMMA AppInvStep ==
  ASSUME NEW least \in Nat, Schedulable(least)
  PROVE  AppInv(least) /\ [AppNext]_allVars => AppInv(least)'
<1> SUFFICES ASSUME AppInv(least), [AppNext]_allVars PROVE AppInv(least)'
  OBVIOUS
<1>1. Whole'
  BY AppStepIsCoreStep, SlipsAreFew, CoreStep, TypeStep, SlipStep DEF AppInv, Whole
<1>2. TimesOK'
  BY TimesStep DEF AppInv
<1>3. CASE AppBeat
  BY <1>1, <1>2, <1>3, InTimeBeat DEF AppInv
<1>4. CASE AppAlarm
  BY <1>1, <1>2, <1>4, InTimeAlarm DEF AppInv
<1>5. CASE AppIdle
  BY <1>1, <1>2, <1>5, InTimeIdle DEF AppInv
<1>6. CASE AppOther
  BY <1>1, <1>2, <1>6, InTimeTick, InTimeWake DEF AppInv, AppOther
<1>7. ASSUME NEW t \in Tasks, AppTask(t) PROVE AppInv(least)'
  BY <1>1, <1>2, <1>7, InTimeTask DEF AppInv
<1>8. CASE UNCHANGED allVars
  <2>1. UNCHANGED <<tick, place, wake, notified, round, led, isCoreStopped, clock, stopped, pc, slip, alarmPending,
                    tickPending, phase, age, remaining, alarmAge>>
    BY <1>8 DEF allVars, vars, kernelVars, taskVars, coreVars, servicesVars, timeVars, appVars, schedule
  <2>2. InTime(least)'
    BY <2>1 DEF AppInv, InTime, Tasked, Modes, AnsweredInTime, OnSchedule, EnoughTime, Asleep, AllIdle, TicksLeft,
                Kernel!TicksLeft, DelayOf, BeatsLeft, ToWrap, Work, ToDo, Owing, TicksDue, One
  <2> QED BY <1>1, <1>2, <2>2 DEF AppInv
<1> QED BY <1>3, <1>4, <1>5, <1>6, <1>7, <1>8 DEF AppNext

LEMMA ScheduleKept ==
  ASSUME NEW least \in Nat, Schedulable(least)
  PROVE  AppSpec => []AppInv(least)
<1>1. AppInit => AppInv(least)
  BY AppInvInit
<1>2. AppInv(least) /\ [AppNext]_allVars => AppInv(least)'
  BY AppInvStep
<1> QED BY <1>1, <1>2, PTL DEF AppSpec

\* STOP2 finds nobody ready or asleep and no notification waiting: the answers
\* of the idle hook, given one after the other while time passes, are right
\* together when the core stops.
THEOREM StopsWhenIdle ==
  ASSUME NEW least \in Nat, Schedulable(least)
  PROVE  AppSpec => []StopsOnlyWhenIdle
<1>1. AppInv(least) => StopsOnlyWhenIdle
  BY DEF AppInv, InTime, Modes, AllIdle, Tasked, StopsOnlyWhenIdle, Kernel!On
<1> QED BY <1>1, ScheduleKept, PTL

\* No task runs on the clock the core woke up with: the alarm interrupt, which
\* restores the clocks, is the only one to come before the tasks do.
THEOREM TasksRunAtFullSpeed ==
  ASSUME NEW least \in Nat, Schedulable(least)
  PROVE  AppSpec => []TasksAtFullSpeed
<1>1. AppInv(least) => TasksAtFullSpeed
  BY DEF AppInv, InTime, Modes, AllIdle, TasksAtFullSpeed, Ready, Kernel!On
<1> QED BY <1>1, ScheduleKept, PTL

\* Neither GpioDeinit nor GpioInit comes in the middle of a delay: an LED that
\* shows a task at work is not turned off by a stop or a resume.
THEOREM LedsAreKept ==
  ASSUME NEW least \in Nat, Schedulable(least)
  PROVE  AppSpec => []LedsShowWork
<1>1. AppInv(least) => LedsShowWork
  BY DEF AppInv, InTime, Tasked, Asleep, LedsShowWork
<1> QED BY <1>1, ScheduleKept, PTL

-----------------------------------------------------------------------------
(* The countdowns *)

Span == [i \in 0 .. 1 |-> Period(TaskOf(i))]

Left == [i \in 0 .. 1 |-> IF TimeLeft(TaskOf(i)) > 0 THEN TimeLeft(TaskOf(i)) ELSE Period(TaskOf(i))]

DueJobs == {i \in 0 .. 1 : TimeLeft(TaskOf(i)) <= 0}

LEMMA JobTasks == \A i \in 0 .. 1 : TaskOf(i) \in Tasks
  BY DEF TaskOf, Tasks

LEMMA LeftTypes ==
  ASSUME TimesOK, NEW i \in 0 .. 1
  PROVE  /\ TimeLeft(TaskOf(i)) = remaining[TaskOf(i)] - age
         /\ remaining[TaskOf(i)] \in Nat /\ age \in Nat /\ Period(TaskOf(i)) \in Nat \ {0}
  BY JobTasks, PeriodTypes DEF TimesOK, TimeLeft

LEMMA CountdownsKeep ==
  ASSUME UNCHANGED <<age, remaining>>
  PROVE  UNCHANGED Promise!vars
  BY DEF Promise!vars, TimeLeft, Period

LEMMA PromiseSecond ==
  ASSUME DueJobs = {}, Span' = Span,
         Left' = [i \in 0 .. 1 |-> IF Left[i] = 1 THEN Span[i] ELSE Left[i] - 1],
         DueJobs' = {i \in 0 .. 1 : Left[i] = 1}
  PROVE  Promise!Next
  BY DEF Span, Left, DueJobs, Promise!Next, Promise!Second, Promise!Jobs

LEMMA PromiseRun ==
  ASSUME DueJobs # {}, DueJobs' = {}, Span' = Span, Left' = Left
  PROVE  Promise!Next
<1>1. Promise!Run(DueJobs)
  BY DEF Span, Left, DueJobs, Promise!Run
<1> QED BY <1>1 DEF Promise!Next, DueJobs

\* A second takes one off each countdown, and finds the jobs due that have reached
\* the time of the alarm or have passed it.
LEMMA SecondIsPromised ==
  ASSUME TimesOK, OnSchedule, ~alarmPending, age' = age + 1, remaining' = remaining
  PROVE  Promise!Next
<1>1. age \in Nat /\ age < ShortPeriod
  BY DEF TimesOK, OnSchedule
<1>2. \A t \in Tasks : remaining[t] >= ShortPeriod
  <2>1. PICK k \in Nat \ {0} : remaining["steady"] = k * ShortPeriod
    BY DEF OnSchedule
  <2>2. remaining["steady"] >= ShortPeriod
    BY <2>1, MultipleIsLater
  <2> QED BY <2>2 DEF OnSchedule, Tasks
<1>3. ASSUME NEW i \in 0 .. 1
      PROVE  /\ TimeLeft(TaskOf(i)) \in Nat \ {0} /\ TimeLeft(TaskOf(i))' = TimeLeft(TaskOf(i)) - 1
             /\ Period(TaskOf(i)) \in Nat \ {0}
  BY <1>1, <1>2, JobTasks, LeftTypes DEF TimeLeft
<1>4. DueJobs = {}
  BY <1>3 DEF DueJobs
<1>5. \A i \in 0 .. 1 : Left[i] = TimeLeft(TaskOf(i)) /\ Span[i] = Period(TaskOf(i))
  BY <1>3 DEF Left, Span
<1>6. Span' = Span
  BY DEF Span, Period
<1>7. Left' = [i \in 0 .. 1 |-> IF Left[i] = 1 THEN Span[i] ELSE Left[i] - 1]
  <2>1. Left' = [i \in 0 .. 1 |-> IF TimeLeft(TaskOf(i))' > 0 THEN TimeLeft(TaskOf(i))' ELSE Period(TaskOf(i))]
    BY DEF Left, Period
  <2>2. \A i \in 0 .. 1 : (IF TimeLeft(TaskOf(i))' > 0 THEN TimeLeft(TaskOf(i))' ELSE Period(TaskOf(i)))
                            = IF Left[i] = 1 THEN Span[i] ELSE Left[i] - 1
    BY <1>3, <1>5
  <2> QED BY <2>1, <2>2
<1>8. DueJobs' = {i \in 0 .. 1 : Left[i] = 1}
  <2>1. DueJobs' = {i \in 0 .. 1 : TimeLeft(TaskOf(i))' <= 0}
    BY DEF DueJobs
  <2>2. \A i \in 0 .. 1 : TimeLeft(TaskOf(i))' <= 0 <=> Left[i] = 1
    BY <1>3, <1>5
  <2> QED BY <2>1, <2>2
<1> QED BY <1>4, <1>6, <1>7, <1>8, PromiseSecond

\* The alarm runs the callbacks of all the jobs that are due, and of no others.
LEMMA AlarmIsPromised ==
  ASSUME NEW least \in Nat, Schedulable(least), AppInv(least), AppAlarm
  PROVE  Promise!Next
<1>1. age = ShortPeriod /\ age' = 0 /\ remaining' = Aged(age) /\ TimesOK /\ TimesOK' /\ OnSchedule
  BY AlarmOnTime, TimesAlarm DEF AppInv, InTime
<1>2. ASSUME NEW i \in 0 .. 1
      PROVE  /\ TimeLeft(TaskOf(i)) \in Int /\ Period(TaskOf(i)) \in Nat \ {0}
             /\ TimeLeft(TaskOf(i))' = IF TimeLeft(TaskOf(i)) > 0 THEN TimeLeft(TaskOf(i)) ELSE Period(TaskOf(i))
  <2> DEFINE t == TaskOf(i)
  <2>1. t \in Tasks /\ TimeLeft(t) = remaining[t] - age /\ remaining[t] \in Nat /\ age \in Nat
        /\ Period(t) \in Nat \ {0}
    BY <1>1, JobTasks, LeftTypes
  <2>2. TimeLeft(t)' = remaining'[t] - age'
    BY DEF TimeLeft, TaskOf
  <2> HIDE DEF t
  <2>3. remaining'[t] = IF age >= remaining[t] THEN Period(t) ELSE remaining[t] - age
    BY <1>1, <2>1 DEF Aged
  <2>4. TimeLeft(t)' = IF TimeLeft(t) > 0 THEN TimeLeft(t) ELSE Period(t)
    BY <1>1, <2>1, <2>2, <2>3
  <2> QED BY <2>1, <2>4 DEF t
<1>3. 0 \in DueJobs
  BY <1>1 DEF DueJobs, TaskOf, TimeLeft, OnSchedule
<1>4. DueJobs' = {}
  <2>1. \A i \in 0 .. 1 : ~(TimeLeft(TaskOf(i))' <= 0)
    BY <1>2
  <2> QED BY <2>1 DEF DueJobs
<1>5. Span' = Span
  BY DEF Span, Period
<1>6. Left' = Left
  <2>1. Left' = [i \in 0 .. 1 |-> IF TimeLeft(TaskOf(i))' > 0 THEN TimeLeft(TaskOf(i))' ELSE Period(TaskOf(i))]
    BY DEF Left, Period
  <2>2. \A i \in 0 .. 1 : (IF TimeLeft(TaskOf(i))' > 0 THEN TimeLeft(TaskOf(i))' ELSE Period(TaskOf(i)))
                            = IF TimeLeft(TaskOf(i)) > 0 THEN TimeLeft(TaskOf(i)) ELSE Period(TaskOf(i))
    BY <1>2
  <2> QED BY <2>1, <2>2 DEF Left
<1> QED BY <1>3, <1>4, <1>5, <1>6, PromiseRun

LEMMA BeatIsPromised ==
  ASSUME NEW least \in Nat, Schedulable(least), AppInv(least), AppBeat, AppInv(least)'
  PROVE  [Promise!Next]_(Promise!vars)
<1>1. PICK second \in BOOLEAN :
        /\ IF second THEN SecondMayEnd ELSE SecondMayLast
        /\ phase' = IF second THEN 0 ELSE phase + 1
        /\ age' = IF second /\ age < MaxAge THEN age + 1 ELSE age
        /\ alarmPending' = (alarmPending \/ (second /\ age + 1 = alarmAge))
        /\ remaining' = remaining
  BY DEF AppBeat, Beat, schedule
<1>2. TimesOK /\ OnSchedule /\ OnSchedule' /\ age \in Nat
  BY DEF AppInv, InTime, TimesOK
<1>3. CASE second /\ ~alarmPending
  <2>1. age' = age + 1
    BY <1>1, <1>2, <1>3 DEF OnSchedule
  <2> QED BY <1>1, <1>2, <1>3, <2>1, SecondIsPromised
<1>4. CASE second /\ alarmPending
  <2>1. age = ShortPeriod
    BY <1>2, <1>4 DEF OnSchedule
  <2>2. alarmPending' /\ age' = ShortPeriod + 1
    BY <1>1, <1>4, <2>1
  <2>3. age' = ShortPeriod
    BY <1>2, <2>2 DEF OnSchedule
  <2> QED BY <2>2, <2>3
<1>5. CASE ~second
  BY <1>1, <1>5, CountdownsKeep
<1> QED BY <1>3, <1>4, <1>5

\* For every schedule that leaves the core enough time, and every second its
\* oscillators may make, stopping and resuming cost the jobs nothing, as long as the
\* calendar is copied before the interrupt handler reads it.  The steps of a
\* countdown per job are all the scheduler can be seen to do.
THEOREM CountdownsAreKept ==
  ASSUME NEW least \in Nat, Schedulable(least)
  PROVE  AppSpec => KeepsCountdowns
<1>1. AppInv(least) /\ AppInv(least)' /\ [AppNext]_allVars => [Promise!Next]_(Promise!vars)
  <2> SUFFICES ASSUME AppInv(least), AppInv(least)', [AppNext]_allVars PROVE [Promise!Next]_(Promise!vars)
    OBVIOUS
  <2>1. CASE AppBeat
    BY <2>1, BeatIsPromised
  <2>2. CASE AppAlarm
    BY <2>2, AlarmIsPromised
  <2>3. CASE UNCHANGED <<age, remaining>>
    BY <2>3, CountdownsKeep
  <2>4. AppIdle \/ AppOther \/ (\E t \in Tasks : AppTask(t)) \/ UNCHANGED allVars => UNCHANGED <<age, remaining>>
    BY DEF AppIdle, AppOther, AppTask, allVars, appVars, schedule
  <2> QED BY <2>1, <2>2, <2>3, <2>4 DEF AppNext
<1>2. AppSpec => []AppInv(least)
  BY ScheduleKept
<1> QED BY <1>1, <1>2, PTL DEF AppSpec, KeepsCountdowns
=============================================================================
