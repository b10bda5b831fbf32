# A TLA+ verification of stm32-rtc-scheduler

The program wakes an STM32L4 from its deepest useful sleep just when a job is
due. A job scheduler keeps one countdown per job and sets the alarm of the
real-time clock (RTC) for the shortest; the alarm interrupt ages the table, sets
the next alarm and runs the jobs; the jobs notify two FreeRTOS tasks; and when
the tasks have gone back to sleep the idle hook stops the core until the next
alarm. Little of that can be tested on a desk: what goes wrong goes wrong when
an interrupt or a second boundary falls between two particular statements.

Paths are relative to the repository. `PROJECT.json` says line by line which
code each definition stands for.

Contents: [the system](#the-system) · [the modules](#the-modules) ·
[runs and bounds](#what-the-runs-show) · [fairness](#fairness) ·
[proofs](#what-is-proved) · [findings](#what-was-found) ·
[limits](#what-is-not-modelled) · [plan](#plan)

## The system

| Part | State | Operations |
| --- | --- | --- |
| Job scheduler, `source/scheduler.c` | `startTime`, `isRunning`, `numOfJobs`, `jobs[]` (period, remaining time, pending flag, callback) | `SchedulerInit`, `SchedulerAddJob`, `SchedulerProcess`, `SchedulerExecutePendingJobs`, `SchedulerStop` |
| RTC driver, `source/rtc.c` | the HAL handle, static time, date and alarm structures | `RtcInit`, `RtcGetEpoch`, `RtcSetAlarmFromEpoch`, `RtcDeactivateAlarm`, `RtcWaitForClockSynchronization`, conversions between epoch and date |
| RTC HAL (vendored) | the handle's lock; registers CR, ISR, ALRMAR, EXTI | `HAL_RTC_SetAlarm_IT`, `HAL_RTC_DeactivateAlarm`, `HAL_RTC_AlarmIRQHandler`, get and set of time and date |
| Interrupt handlers, `source/stm32l4xx_it.c` | none | `RTC_Alarm_IRQHandler`: acknowledge, resume, process, execute |
| Stop mode, `source/core_stop.c` | `isCoreStopped`; BASEPRI, SysTick, clocks, pins | `EnterStop2Mode`, `ResumeFromStop2Mode` |
| Application, `source/main.c` | two tasks and their notifications, two LEDs | `main`, the two job callbacks, `TaskLedBlink`, `TaskLedSteady`, the start-up and idle hooks |
| Idle-time queries, `include/freertos_tasks_c_additions.h` | reads the kernel's | `GetExpectedIdleTime`, `IsDelayedTaskListEmpty` |
| FreeRTOS kernel (vendored) | tick count, next unblock time, ready, delayed, overflow and suspended lists | `vTaskDelay`, `ulTaskNotifyTake`, `vTaskNotifyGiveFromISR`, `xTaskIncrementTick` |
| Clocks, pins and HAL time base, `source/hardware.c` and others | hardware registers | `SystemClockConfig`, `GpioInit`, `GpioDeinit`, time base on TIM17 |
| Error handling, formatting scripts | none | endless loops; clang-format wrappers |

How they interact. `main` and the daemon start hook call the scheduler from a
task; from then on `RTC_Alarm_IRQHandler` calls it, preempting every task. There
is no lock and no critical section in the scheduler: what keeps the two callers
apart is that the alarm is not enabled while the task is in the table. The
callbacks run in the interrupt and wake tasks through notifications. The idle
task, the lowest priority of all, asks the kernel two questions and stops the
core; BASEPRI keeps interrupts out for parts of that, and the flag
`isCoreStopped` tells the interrupt handler what it has to restore.

What is hard, and what makes each part correct:

* **Scheduler.** The clock moves between any two statements; the alarm may fire
  during a start or a stop; an alarm can be refused (not in the future, handle
  locked, time-out); the alarm registers know no month; unsigned arithmetic
  wraps. Correct: every job runs once per period, never early; nothing marked is
  lost or run twice; a running scheduler is armed; a stopped one is silent; the
  table has one user at a time.
* **Stop mode.** The alarm may come before, between and after the steps that
  take the services down, and the flag is read outside the mask. Correct: the
  core stops only when no task has anything to do; after an alarm the tasks find
  clock, tick and pins restored; it always stops again.
* **Idle queries.** They read two words of the kernel without a critical section
  and look at one of two lists. Correct: no sleeping task is missed, also around
  the wrap of the tick count.
* **Kernel delays.** Correct: a delay of d ticks ends at the d-th tick, wrap or no wrap.
* **Calendar.** Conversions between epoch and date; registers that are read in two
  parts and that stand still while the core is stopped. Correct: the difference
  of two epochs is the seconds between them; conversions are inverse to each
  other; the alarm registers, which hold a day of the month, tell the next 28
  days apart; a reading is one moment; and after a stop it is the present one.
* **Reset.** Memory and EXTI are cleared, the alarm's registers, in the backup
  domain, are not, and no code initialises them. Correct: a fresh scheduler is
  silent and arms its first alarm all the same.
* **All together.** Everything depends on each alarm's interrupt leaving the
  next alarm behind, on a core that stands still in between. Correct: the
  countdowns go on over stops and the tasks do their work for ever.

## The modules

| Module | What it is |
| --- | --- |
| `RtcScheduler` | the scheduler, the alarm half of the RTC driver and the HAL under it |
| `Countdown` | abstract: one countdown per job, no alarm, no start time |
| `RtcSchedulerRefinement` | the mapping from the first to the second |
| `SchedulerSearch` | the two loops of the scheduler, index by index |
| `SchedulerSearchProofs` | three theorems about the loops |
| `MCRtcScheduler` | instances for TLC |
| `RtcSchedulerProofs` | seven theorems about `RtcScheduler` |
| `RtcSchedulerArmingProofs` | two more: when a running scheduler is sure to be armed |
| `RtcSchedulerRefinementProofs` | one: every step of the scheduler is a step of `Countdown` |
| `TickIdle` | the kernel's tick and delayed lists, and the idle queries |
| `Sleepers` | abstract: one countdown per sleeping task, no tick count |
| `TickIdleProofs` | four theorems about `TickIdle` |
| `CoreStop` | stop, resume, idle hook and tasks, on an instance of `TickIdle` |
| `CoreStopProofs` | three theorems about `CoreStop` |
| `RtcApp` | the application: `CoreStop` with the scheduler and the copy of the calendar |
| `RtcAppProofs` | eight theorems about `RtcApp` |
| `RtcCalendar` | dates, epochs, BCD, the shadow registers and their two readers |
| `RtcCalendarProofs` | five theorems about `RtcCalendar` |

A definition called `Name_Slip` is `Name` with a mistake a programmer could
make. None is part of a model; each shows that a property notices the mistake.

### RtcScheduler

Two contexts run the code. `"task"` is the thread that adds jobs, starts and
stops; `"isr"` is `RTC_Alarm_IRQHandler`. Each has a program counter and the
locals of the call it is in. The task takes a step only when no interrupt is
pending or running (`At`). A step is the code between two accesses to what the
contexts share: the clock, the alarm registers, the HAL lock, the table.
`SchedulerProcess` is twelve actions, from the test of `isRunning`
(`ProcessEnter`) over the reading of the clock, the aging of the table, the
search, the reading of `startTime`, the three stages of setting the alarm and
its failures to the setting of `isRunning`; `SchedulerStop` is seven;
`SchedulerExecutePendingJobs` is four, with the callback and the reset of the
flag apart, because a marking can come in between.

The two loops over the table are single steps. That is sound because the other
context is never inside the table then (`TableExclusive`, proved) and because
the single steps compute what the loops do (`SchedulerSearch`).

`Init` is the state after a reset: `alrae`, `alraie`, `alraf` and `alrmar` are
whatever the program before it has left, `extiOn`, which `HAL_RTC_SetAlarm_IT`
sets last (`UnlockHal`), is FALSE. That is what makes a leftover alarm harmless
until the scheduler starts, and the flag of a leftover match would swallow the
first alarm if the HAL did not clear it (`DisableAlarm`).

`now` is the clock as `RtcGetEpoch` computes it. The alarm registers hold a day
of the month, so the comparator sees time modulo `Month`. `stall` counts the
seconds that pass while a call is under way. Two history variables, `lastMark`
and `owed`, only serve properties. Three switches say what the environment does:
`Deferred` (a task executes the pending jobs, README.md:120), `HalMayTimeOut`,
`Reinit` (a stopped scheduler may be initialised again).

A client starts the scheduler only when it does not run, and executes jobs only
when the interrupt handler does not: the repository does both, and a task that
called `SchedulerProcess` on a running scheduler would race with the handler.

`Countdown` is what README.md:36-56 promises: `Second` lowers every countdown,
`Run` runs a due job, and the clock does not move on before that. The mapping
counts from `startTime` except between the two steps that bring `remainingTime`
and `startTime` up to date.

### TickIdle

Every task is on one of the lists ready, delayed, overflow and suspended
(`place`) with a wake time (`wake`). `IncrementTick` is `xTaskIncrementTick`: it
exchanges the lists at the wrap, wakes the tasks whose time has come, but looks
only when the count has reached `xNextTaskUnblockTime`, and recomputes that.
`Sleepers` forgets lists and counter; `SleepsExactly` is the refinement.

### CoreStop

The alarm interrupt is one action here: its inner steps are the subject of
`RtcScheduler`, it runs to completion, and nothing of the stop mode can come in
between. The idle task is twelve labels, one for each statement an interrupt may
follow: the two loads of `GetExpectedIdleTime` in either order (C does not fix
it), the comparison, the question about the list, mask, flag and SysTick, clocks
and pins, unmask, WFI, and the resume after it. The tasks run from one blocking
call to the next.

Time passes in beats. A beat brings, if SysTick runs, a tick; on the clock the
core wakes up with, a tick takes `Slow` beats. Code takes no time, but `MaxSlip`
beats may overtake it between one stop and the next. `Wake` ends STOP2; with
`WakesOtherwise` it may come without an alarm, as a debugger or another EXTI
line would have it.

Alarms are open: `Beat(alarm)` brings one or not, `AlarmIRQHandler(due)` runs the
callbacks of any set of jobs. `Spec` allows every choice; `RtcApp` makes it.

### RtcApp

`RtcApp` EXTENDS `CoreStop` and conjoins to each of its actions what happens to
the scheduler: `AppBeat` advances the calendar and lets the comparator raise the
alarm, `AppAlarm` is `RTC_Alarm_IRQHandler` with `SchedulerProcess` in it. Hence
every behaviour of `AppSpec` is one of `CoreStop` (`AppRunsTheCore`, proved).

* Times count from `startTime`, so the model has no last second and liveness is
  about infinite behaviours. They saturate at `MaxAge`, beyond both periods.
* A second is any number of beats in `BeatsPerSecond`: the RTC and SysTick have
  oscillators of their own.
* `lag` is how far the registers `RtcGetEpoch` reads are behind the calendar. It
  grows while the core is stopped. `SchedulerProcess` reads the clock three times,
  and the copy may be made before each of them.
* `SynchroWaits` says whether `RtcWaitForClockSynchronization` does what its comment
  says. `app_demo` assumes it, `stale_clock` does not; finding 4 says why the code's wait is
  no wait, and that the copy is in fact made during `SystemClockConfig`, which
  takes longer than two cycles of the RTC clock. `app_demo` stands for that case.
* The two jobs are in the table and running from the start, as the daemon start
  hook, in the task of the highest priority, leaves them.

The properties are stated over both halves. `KeepsCountdowns` is the safety part of
`Countdown`, the specification `RtcScheduler` implements too.

### RtcCalendar

The counters of the RTC (`time`, `date`), the registers TR and DR that show
them in BCD, and two readers: `GetTime` freezes the registers, `GetDate` releases
them. `began`, `stall` and `disturbed` are history. `Mktime` and `Localtime` are the
C library's, without time zones, over Unix days; each is checked against the
counters of the hardware and they against each other.

Years, months and days are the real ones; a day has 2 hours of 2 minutes of 2
seconds in the run, since what can go wrong goes wrong where days end, and any
length in the theorems. `SubSeconds` and the 12-hour format are not used.

## What the runs show

| Run | Question | States |
| --- | --- | --- |
| `sched_prompt` | Is the scheduler one countdown per job when no second passes inside a call? (`ImplementsCountdown`: safety and liveness) | 0.9 M |
| `sched_stall` | What holds however late the processor is? (types, six safety invariants, and `OwedJobRuns`: each marked job reaches its callback on each return path) | 1.1 M |
| `sched_slack` | When can a running scheduler lose its alarm? Only when a job is due within the stall (`ArmedWithSlack`) | 0.7 M |
| `search_loops` | Do the loops compute what the single steps do? | 19 k |
| `tick_idle` | Are delays exact, and do the idle queries miss nobody? | 200 |
| `stop_any` | Alarms at any step and spurious wake-ups: the flag is right, tasks find tick and pins, notified tasks run unless the core stops for good | 0.2 M |
| `app_demo` | The demo: does every second count over the stops, do the tasks work at full speed and for ever, does the core stop only when idle, and always again? | 8 k |
| `calendar` | Every second of 2021 to 2099: epochs, dates, alarms and the two readers | 2.5 M |
| `lost_deferred`, `dead_alarm`, `slow_clock`, `stale_clock` | the findings below | |

Bounds, and why they are enough:

* Two jobs, with periods of 2 and 6 (or 5) seconds: the demo has two jobs, and
  with two every relation occurs, equal times, one due while the other is not,
  one due several times over. The loops, which a third job could tell apart, are
  checked with three in `search_loops`; the theorems hold for any number.
* `MaxNow` 5 to 8 seconds: two periods of the short job and one of the long, with a
  stop and a restart in between. The clock is the only unbounded counter of
  `RtcScheduler`.
* `Month` 4 or 5: shorter than a long period, so that a long job's alarm matches a month
  early, and a missed alarm a month late, as jobs of more than a month
  would have it.
* `W` 8 in `sched_stall`: due times overflow. In the others `W` 32: they do not.
* `MaxStall` 0 is the assumption of the refinement; 1 in the runs about arming,
  2 in `sched_stall`, where a job falls due more than once before it is aged.
  The stall is counted over one stretch of busy time, not over the behaviour.
* `search_loops` starts from every table of up to three jobs, takes one step and
  ends there; it is the one run in which a deadlock is expected.
* `tick_idle`: the tick count wraps at 8 again and again, delays of 1 and of
  `IdleTicks + 1`, the longest the margin allows.
* `app_demo`: one beat is 250 ms, the demo's numbers: jobs every 5 and 10 seconds,
  four beats to a second, one more or less for the oscillators, four delays of one
  beat, one of four, a threshold of four, 20 beats per tick at 4 MHz. The tick
  count wraps at 16, so that the wrap comes in every phase of the work. The
  reachable states are finite without a bound on time.
* `stop_any`: any alarm at any beat; delays of 2 and 3 ticks.
* `calendar`: all 28 800 days, so each month's end in each year of the cycle; one second of delay in a
  reading, which is enough for midnight to fall into it. The year 2100, which
  the hardware takes for a leap year after `Year` 99 wraps to 2000, is outside.
* `MaxSlip`, 1 in `app_demo` and 2 in `stop_any`: so many alarms or ticks may come
  at any step of the code. The bound matters in two places.
  `GetExpectedIdleTime` reads two words, and if *two*
  ticks pass between its loads, or between the hook's two questions, shortly
  before the wrap of the tick count, with a task waking and going to sleep
  again beyond the wrap, both questions let the core stop with that task
  asleep. With `MaxSlip` 2 and delays of a single tick TLC shows it. And if the idle
  task, after the answers and before the mask, is overtaken by a whole delay of a
  task an alarm has woken, the tick that ends the delay is pending when tick and
  pins are taken down: `TasksFindServices` fails in `stop_any` with `MaxSlip` 3. On the target the
  idle task would have to be kept from running for two milliseconds between two
  instructions, once in 49 days, or for 250 milliseconds; `StopsOnlyWhenIdle` and
  `TasksFindServices` hold on the condition that it is not, and the theorems about them
  (`StopsWhenIdle`, `TasksHaveServices`) name it.

Two things the runs tell about the idle hook. Its second question never changes
the answer at one moment, since the threshold covers every delay; it matters
because the first answer may be out of date. And in the last second before
the wrap the expected idle time is too short for a stop, though nobody
sleeps: the application idles at full speed for that second, and `StopsAgain`
says that it gets over it.

## Fairness

* `RtcScheduler`: weak fairness of taking the pending interrupt, of a call that
  has begun, in each context, and of the stop. The processor does execute.
  Nothing is assumed of the client or of the clock.
* `Countdown` promises weak fairness of `Run`, which `ImplementsCountdown` shows
  the code to provide.
* `CoreStop`: weak fairness of the interrupt handlers, the idle task, each
  task's code and of waking when the alarm is pending. Strong fairness of
  the beats of a core that runs: the idle loop goes round, and between the beats it may be
  at a step where the bound on slips forbids one; real time passes all the same. Each of
  these beats may bring an alarm or none, and a core in STOP2 may stay there: no alarm is
  promised. Hence the exception in `NotifiedTaskRuns`, "or the core stops for good". With an alarm at
  any step it is needed: a second alarm just before the WFI finds the task at work on the
  first, the core stops with the task asleep and notified, and only the next alarm goes
  on. In the demo no alarm comes there (`StopsOnlyWhenIdle`), and each sets the next.
* `RtcApp`: the same, of the same actions with the scheduler's part in them
  (`AppFairness`), and the beats go on in STOP2, where the RTC runs. They promise no alarm either:
  one comes when the calendar reaches what the scheduler has set (`alarmAge`), and none after an
  interrupt that has set none. Nothing is assumed of the length of a second, of the order of
  tick and second or of the moment the calendar is copied. `WorkGoesOn` and `StopsAgain` are
  about this specification.

## What is proved

TLAPS checks these for every value of the constants. Most need no more than the
named assumptions of the modules: at least one job, periods that fit `uint32_t`, a
clock that stays below `W` (2^32 seconds); for `TickIdle` that no delay is longer than
the threshold and one tick (`DelaysAssumption`: 1000 ticks against 1000); for
`CoreStop` that delays fit the tick count; for `RtcApp` that the periods are below
`MaxAge`; for `RtcCalendar` that no part of a day has more than 60 units, BCD's two digits.

Some are true under a condition only, which is then a hypothesis of the theorem:

* `SlackKeepsArmed`, `PromptKeepsArmed`, `KeepsEveryCountdown`: every due time stays below
  `W` (`NoOverflow`) and the HAL does not time out; for the last also that the handler
  executes the jobs, as the repository wires it.
* `TasksHaveServices`: `FewSlips`, at most two beats overtake code from one stop to the
  next, and no more than either delay lasts or the threshold covers.
* The theorems about `RtcApp` marked * below: `Schedulable(least)`. `least` is a number of beats
  that every second has. The periods are multiples of the short one; a short period
  is longer than the work of either task, the longest the wrap of the tick count keeps
  the core awake, and the slips together; a delay is covered by the threshold; one
  beat at most overtakes code; the WFI ends with an interrupt only; and the calendar
  is copied when the handler reads it. `DemoIsSchedulable` proves that the numbers
  of `main.c` and `main.h` and a tick count of 16 bits or more (it has 32) satisfy it with `least` = 401
  of the nominal 1000 ticks of a second; `app_demo` satisfies it with `least` = 3. `slow_clock` and
  `stale_clock` are what happens without it: a job each second, and a calendar
  that is not copied.

| Theorem | Says |
| --- | --- |
| `TypeCorrect` | no index leaves the table, no subtraction wraps |
| `StopSilences` | a stopped scheduler has no alarm interrupt enabled, pending or under way |
| `TableIsExclusive` | task and handler are never in the table together |
| `RemainingInRange` | what remains of a job is between 1 and its period |
| `NoJobIsEarly` | no job is marked before a whole period has passed |
| `NoJobRunsTwice` | one call per marking, in either wiring |
| `NoJobIsLost` | with the handler executing the jobs, no marking is lost |
| `SlackKeepsArmed` | with no job due within the stall, a running scheduler is armed for its earliest job |
| `PromptKeepsArmed` | with no second inside a call, a running scheduler is armed, whatever is left |
| `KeepsEveryCountdown` | with no second inside a call, the scheduler's steps are steps of `Countdown` |
| `KernelTypes`, `ListsSwitchEmpty`, `IdleQuestionsAreSafe` | types; FreeRTOS's own assertion; the two questions miss nobody |
| `DelaysAreExact` | the kernel's lists implement `Sleepers` |
| `FlagIsReliable` | the flag tells the truth whenever an interrupt can look |
| `TasksHaveServices` | no task runs with tick or pins down, whatever alarms and jobs |
| `CoreTypes`, `AppTypes` | types of the stop mode; of the application, however old the registers it reads |
| `AppRunsTheCore` | the application is a case of `CoreStop` with alarms at any time |
| `AppFlagIsReliable` | hence its flag tells the truth |
| `DemoIsSchedulable` | the repository's numbers leave the core enough time |
| `StopsWhenIdle`* | STOP2 finds no task ready or asleep, and no notification waiting |
| `TasksRunAtFullSpeed`* | no task runs on the clock the core woke up with |
| `LedsAreKept`* | no stop or resume turns an LED off during a delay |
| `CountdownsAreKept`* | the application's steps are steps of `Countdown`, over all stops |
| `SearchTakesNextJob` | the search loop ends at the job the search step takes |
| `TableAgesByLoop`, `AgingTakesLoop` | the aging loop leaves what the single step leaves |
| `EpochCounts` | the epochs of successive seconds differ by one |
| `ReadsAreRight` | `RtcGetEpoch` returns the moment of its call; in a task that is interrupted in it at midnight, that time with the new date |
| `CalendarTypes` | the calendar's dates exist, and the registers show decimal digits |
| `ConversionInverts` | `RtcConvertEpochToDatetime` undoes `RtcGetEpoch`, weekday included |
| `AlarmsStayApart` | the alarm registers tell the next 28 days apart |

The arguments:

* **Types.** `TypeOK` is not inductive: the loop increments its index after the
  callback. `CursorInTable` adds that a context at the reset of a flag has its index
  inside the table.
* **Exclusion.** Nothing locks the table. The invariant `Exclusion` says why
  nothing has to: while the task starts or stops and is past the point where the
  alarm is off, no interrupt is enabled, pending or running (`SilentInStop`, `StartsStopped`); the
  HAL lock is taken only while a context is inside the HAL (`LockHeld`), which is
  what makes the ignored result of `HAL_RTC_DeactivateAlarm` harmless: a task
  that stops never finds the lock taken. The rest ties the program counters to
  `isRunning`.
* **Timing.** "Never early" is about a difference between two moments, and the
  table stores only what remains. The invariant is a credit: for every job,
  the time since it was last marked is at least what has been used up of its
  period, plus the time since `startTime` that is not accounted for yet
  (`CreditByNow`, `CreditByStart`). Each step that reads the clock moves time
  from one of the terms to another.
* **Markings.** A pending flag is owed or its callback has just been called
  (`NoSpuriousRun`, inductive with types), and, when the handler executes the
  jobs, flags are cleared only for jobs already called (`Kept`): the handler
  cannot be interrupted by itself.
* **Arming.** The handler is brought by an alarm and sets the next, and between the two
  the same alarm must not match again, nor the new one before EXTI passes it on.
  `Recent` says how old the readings are on which that depends: the start time, and
  the match that brought the handler, lie within the stall (`StartIsRecent`,
  `MatchIsRecent`), so that the comparator's stamp of either is not due in this
  month again. `Chosen` ties the job and the epoch that the contexts carry to the
  table: the earliest job, and the moment it is due, without overflow. `Arming`
  then says, label by label, that either the handler is on its way to write the
  alarm or the alarm is set, ahead, and will be seen (`StaysArmed`), and that the
  same holds of a start before it sets `isRunning` (`StartsArmed`). A stall of a
  month leaves no job with room, so the theorem needs no bound on it.
* **Countdowns.** `remainingTime` counts from `startTime`, and `SchedulerProcess` brings
  the one up to date two steps before the other: the mapping takes the table where
  it is up to date (`UpToDate`) and the due time where it is not. With no second
  inside a call, the elapsed time is still exact when the table is aged
  (`ElapsedIsExact`), no interrupt comes inside a call of the task (`NoPreemption`), no
  job falls due inside a stop (`StopIsAhead`), and the handler leaves no marked job
  behind (`OwedInHandler`). Only `Tick` moves the countdowns, and it finds none at
  zero, because the scheduler is armed (`NothingDue`, from `Arming`).
* **Kernel.** `KernelInv`: a task on the delayed list wakes after the current
  tick, one on the overflow list before it in the next turn; none sleeps longer
  than the longest delay; the next unblock time is the least wake time of the
  delayed list, or the largest tick. Hence the list is empty at the wrap, and
  hence the margin: with a sleeper on the overflow list the count is within one
  delay of the wrap, so the expected idle time is not above the threshold.
* **Flag.** Only between the steps that are masked do flag and services differ;
  the theorem needs nothing about time.

* **Loops.** A loop is a recursive function of its index. That one of
  any length ends where it should is an induction over the index; the prover cannot
  instantiate the library's, so `LoopInduction` gets it from the cardinality of finite
  sets. The invariant of the search is that the candidate
  is the first with least time among the indices seen.
* **Services.** Beats are free while the core rests; every other beat is a slip,
  and `MaxSlip - slip` are left. A sleeper with more ticks left than that (`Safe`) is
  not woken before the mask. The invariant says at each label what the answers have
  established: after the first every sleeper of the overflow list is safe, after the second
  of either list (`Answered`), and how far the operand loaded first can be out of date
  (`UnblockLoaded`, `TickLoaded`). Who becomes ready meanwhile has cost a slip (`SlipsFirst`), and
  a delay that begins then outlasts those that remain. Hence a tick that is pending when
  SysTick is taken down wakes nobody (`NobodyWakes`). Each hypothesis is needed: with `MaxSlip` 3 two ticks
  between the loads and a third after them bring a stale answer through, and with a delay of
  one tick and two slips the delay is over before the mask; TLC shows both.
* **Application.** `AppRunsTheCore` maps each action to one of `CoreStop`, which
  carries the theorems about the core over: no invariant is proved twice.
* **Schedule.** That alarms come in STOP2 only is an invariant about time. `BeatsLeft` is the
  least number of beats before the next alarm, `Work` the ticks of the delays that
  the tasks have begun and have still to begin, `ToWrap` the ticks to the wrap of the tick count, near which the
  idle hook waits. `EnoughTime` says that the beats left exceed what is still to be
  waited for and the slips. A beat takes one from both sides, because on the PLL each
  beat is a tick (`BeatLeavesTime`); at rest there is someone asleep or the wrap is near
  (`RestReasons`), so that the right side does get smaller; a task that begins a delay moves
  work to ticks left (`TaskEffect`). So an awake core has two beats or more left whenever one may
  pass, and the alarm is none of them (`TwoBeatsLeft`, `BeatOfSecond`). Then the alarm finds the
  calendar exactly a short period after `startTime`, and the schedule repeats (`AlarmOnTime`,
  `OnSchedule`). The four theorems follow from who may be where (`Tasked`, `Modes`), and `CountdownsAreKept`
  because `age` passes no due time. A consequence: the resume at the end of
  `EnterStop2Mode` is never executed in the demo (`Modes`); the interrupt handler is always first.
* **Calendar.** `EpochCounts` compares the carry of the counters with the day
  numbers of `Mktime`, case by case: within a day, within a month, at the end of a month, of
  February in leap and common years, of the year. `ReadsAreRight` rests on
  `CalendarInv`: registers that are not frozen show the present, frozen ones
  belong to a call under way and show the moment it began (`HandlerCall`, `TaskCall`), or the handler has
  released them within the task's call, which is then `disturbed`. `ConversionInverts` finds the year
  and the month of `Localtime` unique, since each begins where the one before ends; the weekday follows
  the days by an invariant of its own (`WeekDayCounts`). `AlarmsStayApart`: two days with the same day of the
  month are in different months, and then 28 days apart or more, since no month is shorter.

Only model-checked: all liveness, which TLAPS does not prove under fairness: the
fairness part of `ImplementsCountdown`, `OwedJobRuns`, `NotifiedTaskRuns`, `StopsAgain` and `WorkGoesOn`. Every safety
property of a passing run is stated by a theorem.

## What was found

1. **A deferred job can be lost** (`lost_deferred`, `scheduler.c:172`). The flag
   is reset after the callback, so a marking made meanwhile is erased.
   scheduler.c:150 allows a task context. The demo, with everything in the
   interrupt, is not affected (`NoJobIsLost`).
2. **The scheduler can lose its alarm** (`dead_alarm`, `scheduler.c:130`). A
   second boundary between the reading of the start time and the check or the
   arming makes the alarm refused or late; nothing tries again. `sched_slack`
   shows how far that reaches: only jobs due within the stall are affected
   (`SlackKeepsArmed`), and without a second inside a call none are (`PromptKeepsArmed`).
3. **The core can go on at 4 MHz** (`slow_clock`, `core_stop.c:72`). Between the
   unmasking of interrupts and the WFI an alarm restores everything and resets
   the flag; the core stops all the same, and the next alarm finds the flag at 0
   and restores nothing. Ticks are then 20 times as long until the next clean
   stop, and nothing waits for the calendar either. `StopsOnlyWhenIdle` fails in this
   configuration as well: both tasks are asleep in the stopped core. It takes an
   alarm while the idle task is on its way from the mask to the WFI; with a job
   each second that happens, with the demo's 5 seconds it does not: the tasks are
   done after one second, and `app_demo` shows both properties to hold.
4. **The wait for the calendar is no wait** (`stale_clock`, `rtc.c:201`). The flag RSF
   is write protected, and `RtcWaitForClockSynchronization` calls the HAL with the
   protection on, against the HAL's note (stm32l4xx_hal_rtc.c:2410). The flag
   stays set from before the stop and the loop ends at once. With registers from before the
   stop the elapsed time is zero, and `SchedulerProcess` returns without setting
   an alarm: nothing would wake the core again. What prevents it is that
   `SystemClockConfig`, called just before, waits for the PLL, and the copy is
   made meanwhile.

A remark that is no finding: `SchedulerInit` leaves the rows of the table as they
are, and a scheduler started without jobs arms an alarm for `jobs[0]`, whatever
its remaining time. `sched_prompt` and `sched_stall` include such starts; no
job is marked by them, since aging looks at the first `numOfJobs` rows.

## What is not modelled

* The result of `SchedulerAddJob`. It is 0 whether the job is accepted or not
  (`result` is never set, scheduler.c:45), against the comment at scheduler.c:40;
  `main` ignores it.
* `RtcScheduler` takes the clock as one number, and its calls of `RtcGetEpoch` as
  single reads. `RtcCalendar` justifies that: a reading is the moment of its call,
  except for a task disturbed at midnight, which the scheduler's callers, that
  read in a task only with the alarm off, are not.
* The end of the century, and `time_t` in 2038: `mktime` is modelled on unbounded
  integers, `RtcGetEpoch` casts to 32 unsigned bits.
* The handler's inner steps and the stop mode at once: `AppAlarm` is one step, so that no
  second passes in the handler in `RtcApp`. What happens when one does is `RtcScheduler`'s subject.
* The write protection and the initialisation mode of the RTC as such; `RtcInit`'s HAL
  functions time out only if the RTC has no clock, and the program then ends in
  `ErrorHandler`.
* `HAL_RTC_AlarmIRQHandler` on other events, the second alarm, the sub-second part
  of the alarm: not used.
* Kernel: queues, timers, the suspension of the scheduler inside `vTaskDelay`
  (its effect is that of one step), the context switch itself. The daemon task
  blocks for ever after the start hook, and has no part in `CoreStop`.
* Values of clock, pin and power registers; a failing `HAL_RCC_DeInit` or
  `SystemClockConfig` ends in an endless loop by design.
* Error handlers and the formatting scripts.

## Plan

Done, in this order: `RtcScheduler` with its abstract specification, runs and
proofs, because it is the program's own logic; `TickIdle`, on which the stop
rests; `CoreStop`; `RtcCalendar`; `RtcApp`, the composition.

Left, and what stands in the way:

1. `KeepsEveryCountdown` for `MaxStall > 0`. It is not true as it stands: a job is then
   marked up to a stall late, and `Countdown` would have to allow that.
2. `Schedulable` for periods that are not multiples of each other: with 4 and 6 seconds of
   six beats the properties hold in TLC, and `BeatsLeft` would have to count to the
   next multiple of a common divisor. The other hypothesis that looks too strong, one slip, is
   needed: with two, `BlinkDelay` 2, `IdleTicks` 6 and five beats a second TLC
   finds a state that violates `LedsShowWork`.
3. One model of `RtcScheduler`'s steps on `CoreStop`: the product is beyond TLC
   with the demo's numbers.

The repository's own code is a few small files in `source/` and `include/`, and
the control of all but the fault handlers is modelled. By far the most lines beside it are the vendor's
register definitions for other microcontrollers (`drivers/CMSIS`), which are no
behaviour, HAL drivers that the program does not call, and parts of FreeRTOS that
it does not use.
