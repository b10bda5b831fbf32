------------------------------ MODULE CoreStop ------------------------------
(***************************************************************************)
(* How the application stops and resumes the core (source/core_stop.c, the  *)
(* idle hook, the tasks and the callbacks of source/main.c).                *)
(*                                                                         *)
(* Three levels of priority share the processor: the alarm interrupt, which *)
(* runs to completion and is one action; the tick interrupt and the tasks;  *)
(* and the idle task, whose hook decides to stop the core and can be        *)
(* preempted after each step unless it masks the interrupts.  The tick, the *)
(* sleeping tasks and the questions of the hook are those of TickIdle.      *)
(*                                                                         *)
(* Real time passes in beats, one beat being one tick of the model at full  *)
(* speed; code takes no time of its own but may be overtaken by MaxSlip     *)
(* beats in all between one stop and the next.                              *)
(*                                                                         *)
(* When alarms come and which jobs they find due is left open here: any at  *)
(* any time, in Spec.  RtcApp puts the scheduler in.                        *)
(*                                                                         *)
(* A definition Name_Slip is no part of the model: it is Name with a slip   *)
(* a programmer could make, for which the properties are seen to fail.      *)
(***************************************************************************)
EXTENDS Integers

CONSTANTS
  Toggles,        \* the LED changes of TaskLedBlink (4), one delay after each
  BlinkDelay,     \* the ticks of each of its delays
  SteadyDelay,    \* the ticks TaskLedSteady leaves its LED on
  Slow,           \* the beats a tick takes on the clock the core wakes up with
  MaxSlip,        \* bound on the beats that overtake running code
  WakesOtherwise, \* the WFI may end without an interrupt
  MaxTick, IdleTicks

ASSUME CoreAssumption ==
  /\ Toggles \in Nat \ {0} /\ Slow \in Nat \ {0} /\ MaxSlip \in Nat
  /\ WakesOtherwise \in BOOLEAN
  /\ MaxTick \in Nat /\ IdleTicks \in Nat /\ BlinkDelay \in 1 .. MaxTick /\ SteadyDelay \in 1 .. MaxTick

Tasks == {"blink", "steady"}
Delays == {BlinkDelay, SteadyDelay}

VARIABLES
  tick, place, wake, nextUnblock,   \* the kernel, see TickIdle
  notified,        \* ulNotifiedValue # 0, for each task
  round,           \* the delays a task has begun since it took its notification
  led,             \* the LED of each task is lit
  isCoreStopped,   \* core_stop.c:22
  masked,          \* BASEPRI masks the alarm, the tick and the context switch
  sysTick,         \* SysTick->CTRL, ENABLE
  clock,           \* the system clock: "pll" (80 MHz) or "msi" (4 MHz)
  pins,            \* the LED pins are configured as outputs
  stopped,         \* the core is in STOP2
  pc,              \* the next statement of the idle task
  loaded,          \* the operand GetExpectedIdleTime has loaded first
  alarmPending, tickPending,
  subTick,         \* beats since the last tick, on the slow clock
  slip             \* beats that have overtaken running code since the last stop

Kernel == INSTANCE TickIdle

kernelVars == <<tick, place, wake, nextUnblock>>
taskVars == <<notified, round, led>>
servicesVars == <<isCoreStopped, sysTick, clock, pins>>
coreVars == <<servicesVars, masked, stopped, pc, loaded>>
timeVars == <<alarmPending, tickPending, subTick, slip>>
vars == <<kernelVars, taskVars, coreVars, timeVars>>

Init ==
  /\ Kernel!Init
  /\ notified = [t \in Tasks |-> FALSE]
  /\ round = [t \in Tasks |-> 0]
  /\ led = [t \in Tasks |-> FALSE]
  /\ isCoreStopped = FALSE /\ masked = FALSE
  /\ sysTick = TRUE /\ clock = "pll" /\ pins = TRUE
  /\ stopped = FALSE /\ pc = "hook" /\ loaded = 0
  /\ alarmPending = FALSE /\ tickPending = FALSE /\ subTick = 0 /\ slip = 0

-----------------------------------------------------------------------------
(* Who may run *)

Ready == Kernel!On("ready")

InterruptsOn == ~masked /\ ~stopped

TasksMayRun == InterruptsOn /\ ~alarmPending /\ ~tickPending

\* TaskLedBlink has the higher priority (main.c:66, 76).
Scheduled(t) == TasksMayRun /\ t \in Ready /\ (t = "steady" => "blink" \notin Ready)

IdleAt(l) == ~stopped /\ pc = l /\ (masked \/ (TasksMayRun /\ Ready = {}))

\* Nothing is left to do but to go round the idle loop, or the core is stopped.
AtRest ==
  IF stopped THEN ~alarmPending
  ELSE IdleAt("hook") /\ ~(Kernel!ExpectsIdle /\ Kernel!IsDelayedTaskListEmpty)

-----------------------------------------------------------------------------
(* Time, and the clocks that show it *)

TickFalls == sysTick /\ ~stopped /\ (clock = "pll" \/ subTick = Slow - 1)

\* A beat passes, and brings an alarm or not.
Beat(alarm) ==
  /\ AtRest \/ slip < MaxSlip
  /\ slip' = IF ~AtRest THEN slip + 1 ELSE IF stopped THEN 0 ELSE slip
  /\ alarmPending' = (alarmPending \/ alarm)
  /\ tickPending' = (tickPending \/ TickFalls)
  /\ subTick' = IF clock = "msi" /\ sysTick /\ ~stopped THEN (subTick + 1) % Slow ELSE subTick
  /\ UNCHANGED <<kernelVars, taskVars, coreVars>>

\* An EXTI line that becomes pending ends STOP2; the core runs on the MSI.
Wake ==
  /\ stopped /\ (alarmPending \/ WakesOtherwise)
  /\ stopped' = FALSE
  /\ UNCHANGED <<kernelVars, taskVars, servicesVars, masked, pc, loaded, timeVars>>

-----------------------------------------------------------------------------
(* Interrupt handlers *)

Restore_KeepsFlag ==
  /\ clock' = "pll" /\ pins' = TRUE /\ sysTick' = TRUE /\ UNCHANGED isCoreStopped
  /\ led' = [t \in Tasks |-> FALSE]
  /\ subTick' = 0

Restore_NoTick ==
  /\ clock' = "pll" /\ pins' = TRUE /\ isCoreStopped' = FALSE /\ UNCHANGED sysTick
  /\ led' = [t \in Tasks |-> FALSE]
  /\ subTick' = 0

\* The body of ResumeFromStop2Mode.  GpioInit also turns the LEDs off.
Restore ==
  /\ clock' = "pll" /\ pins' = TRUE /\ sysTick' = TRUE /\ isCoreStopped' = FALSE
  /\ led' = [t \in Tasks |-> FALSE]
  /\ subTick' = 0

ResumeFromStop2Mode_InIdleOnly == UNCHANGED <<isCoreStopped, sysTick, clock, pins, led, subTick>>

ResumeFromStop2Mode ==
  IF isCoreStopped THEN Restore
  ELSE UNCHANGED <<isCoreStopped, sysTick, clock, pins, led, subTick>>

\* The callbacks of the jobs that are due notify their tasks.
AlarmIRQHandler(due) ==
  /\ alarmPending /\ InterruptsOn
  /\ alarmPending' = FALSE
  /\ ResumeFromStop2Mode
  /\ notified' = [t \in Tasks |-> notified[t] \/ t \in due]
  /\ place' = Kernel!Unblocked(due)
  /\ UNCHANGED <<tick, wake, nextUnblock, round, masked, stopped, pc, loaded, tickPending, slip>>

SysTickHandler ==
  /\ tickPending /\ InterruptsOn /\ ~alarmPending
  /\ tickPending' = FALSE
  /\ Kernel!IncrementTick
  /\ UNCHANGED <<taskVars, coreVars, alarmPending, subTick, slip>>

-----------------------------------------------------------------------------
(* The tasks, from one blocking call to the next *)

Lights(t) == IF t = "blink" THEN ~led["blink"] ELSE TRUE

BeginDelay(t) ==
  /\ led' = [led EXCEPT ![t] = Lights(t)]
  /\ round' = [round EXCEPT ![t] = @ + 1]
  /\ Kernel!TaskDelay(t, IF t = "blink" THEN BlinkDelay ELSE SteadyDelay)

TakeNotification(t) ==
  /\ Scheduled(t) /\ round[t] = 0
  /\ IF notified[t]
     THEN BeginDelay(t) /\ notified' = [notified EXCEPT ![t] = FALSE]
     ELSE Kernel!BlockIndefinitely(t) /\ UNCHANGED taskVars
  /\ UNCHANGED <<coreVars, timeVars>>

Rounds_OneMore(t) == IF t = "blink" THEN Toggles + 1 ELSE 1

Rounds(t) == IF t = "blink" THEN Toggles ELSE 1

NextRound(t) ==
  /\ Scheduled(t) /\ round[t] \in 1 .. (Rounds(t) - 1)
  /\ BeginDelay(t)
  /\ UNCHANGED <<notified, coreVars, timeVars>>

\* LedLd2Off, or the end of the loop, and back to ulTaskNotifyTake.
FinishWork(t) ==
  /\ Scheduled(t) /\ round[t] = Rounds(t)
  /\ round' = [round EXCEPT ![t] = 0]
  /\ led' = IF t = "steady" THEN [led EXCEPT ![t] = FALSE] ELSE led
  /\ UNCHANGED <<kernelVars, notified, coreVars, timeVars>>

-----------------------------------------------------------------------------
(* The idle hook *)

\* GetExpectedIdleTime loads xNextTaskUnblockTime and xTickCount one after the
\* other, in the order the compiler chooses.
LoadFirst ==
  /\ IdleAt("hook")
  /\ \/ pc' = "tick" /\ loaded' = nextUnblock
     \/ pc' = "unblock" /\ loaded' = tick
  /\ UNCHANGED <<kernelVars, taskVars, servicesVars, masked, stopped, timeVars>>

IdleTime == IF pc = "tick" THEN Kernel!TimeFrom(loaded, tick) ELSE Kernel!TimeFrom(nextUnblock, loaded)

AskIdleTime ==
  /\ IdleAt("tick") \/ IdleAt("unblock")
  /\ pc' = IF Kernel!LongEnough(IdleTime) THEN "list" ELSE "hook"
  /\ loaded' = 0
  /\ UNCHANGED <<kernelVars, taskVars, servicesVars, masked, stopped, timeVars>>

MayStop == Kernel!IsDelayedTaskListEmpty

AskDelayedList ==
  /\ IdleAt("list")
  /\ pc' = IF MayStop THEN "enter" ELSE "hook"
  /\ UNCHANGED <<kernelVars, taskVars, servicesVars, masked, stopped, loaded, timeVars>>

MaskInterrupts_NotAtAll ==
  /\ \/ IdleAt("enter") /\ pc' = "suspend"
     \/ IdleAt("resume") /\ pc' = "restore"
  /\ UNCHANGED <<kernelVars, taskVars, servicesVars, masked, stopped, loaded, timeVars>>

MaskInterrupts ==
  /\ \/ IdleAt("enter") /\ pc' = "suspend"
     \/ IdleAt("resume") /\ pc' = "restore"
  /\ masked' = TRUE
  /\ UNCHANGED <<kernelVars, taskVars, servicesVars, stopped, loaded, timeVars>>

SuspendTick ==
  /\ IdleAt("suspend")
  /\ isCoreStopped' = TRUE /\ sysTick' = FALSE
  /\ pc' = "deinit"
  /\ UNCHANGED <<kernelVars, taskVars, masked, clock, pins, stopped, loaded, timeVars>>

\* HAL_RCC_DeInit, HAL_SuspendTick and GpioDeinit, which turns the LEDs off.
Deinit ==
  /\ IdleAt("deinit")
  /\ clock' = "msi" /\ pins' = FALSE
  /\ led' = [t \in Tasks |-> FALSE]
  /\ pc' = "unmask"
  /\ UNCHANGED <<kernelVars, notified, round, isCoreStopped, masked, sysTick, stopped, loaded, timeVars>>

UnmaskInterrupts ==
  /\ IdleAt("unmask")
  /\ masked' = FALSE
  /\ pc' = "wfi"
  /\ UNCHANGED <<kernelVars, taskVars, servicesVars, stopped, loaded, timeVars>>

WaitForInterrupt ==
  /\ IdleAt("wfi")
  /\ stopped' = TRUE /\ clock' = "msi"
  /\ pc' = "woken"
  /\ UNCHANGED <<kernelVars, taskVars, isCoreStopped, masked, sysTick, pins, loaded, timeVars>>

CheckStopped ==
  /\ IdleAt("woken")
  /\ pc' = IF isCoreStopped THEN "resume" ELSE "hook"
  /\ UNCHANGED <<kernelVars, taskVars, servicesVars, masked, stopped, loaded, timeVars>>

RestoreInIdle ==
  /\ IdleAt("restore")
  /\ Restore
  /\ masked' = FALSE
  /\ pc' = "hook"
  /\ UNCHANGED <<kernelVars, notified, round, stopped, loaded, alarmPending, tickPending, slip>>

IdleTask ==
  \/ LoadFirst \/ AskIdleTime \/ AskDelayedList \/ MaskInterrupts \/ SuspendTick \/ Deinit \/ UnmaskInterrupts
  \/ WaitForInterrupt \/ CheckStopped \/ RestoreInIdle

-----------------------------------------------------------------------------
TaskCode(t) == TakeNotification(t) \/ NextRound(t) \/ FinishWork(t)

Interrupts == SysTickHandler \/ \E due \in SUBSET Tasks : AlarmIRQHandler(due)

Next ==
  \/ \E alarm \in BOOLEAN : Beat(alarm)
  \/ Wake \/ Interrupts \/ IdleTask
  \/ \E t \in Tasks : TaskCode(t)

\* The processor executes what it has to, and code does not keep time from
\* passing: while the core runs, a beat that is possible again and again happens.
\* No alarm is promised.  Each of these beats may pass without one, for it counts
\* on the clock or as a slip; and a core in STOP2 may stay there for ever.
Fairness ==
  /\ SF_vars(~stopped /\ \E alarm \in BOOLEAN : Beat(alarm))
  /\ WF_vars(stopped /\ alarmPending /\ Wake)
  /\ WF_vars(\E due \in SUBSET Tasks : AlarmIRQHandler(due))
  /\ WF_vars(SysTickHandler) /\ WF_vars(IdleTask)
  /\ \A t \in Tasks : WF_vars(TaskCode(t))

Spec == Init /\ [][Next]_vars /\ Fairness

-----------------------------------------------------------------------------
(* Properties *)

IdleLabels ==
  {"hook", "tick", "unblock", "list", "enter", "suspend", "deinit", "unmask", "wfi", "woken", "resume", "restore"}

TypeOK ==
  /\ Kernel!TypeOK
  /\ notified \in [Tasks -> BOOLEAN] /\ led \in [Tasks -> BOOLEAN]
  /\ round \in [Tasks -> Nat] /\ round["blink"] \in 0 .. Toggles /\ round["steady"] \in 0 .. 1
  /\ {isCoreStopped, masked, sysTick, pins, stopped, alarmPending, tickPending} \subseteq BOOLEAN
  /\ clock \in {"pll", "msi"} /\ pc \in IdleLabels /\ loaded \in 0 .. MaxTick
  /\ subTick \in 0 .. (Slow - 1) /\ slip \in 0 .. MaxSlip

\* The core stops only when nothing else is to be done (README.md:68-70): no
\* task is ready or asleep when the core is in STOP2, and no notification waits.
StopsOnlyWhenIdle == stopped => Kernel!On("suspended") = Tasks /\ \A t \in Tasks : ~notified[t]

\* After an alarm the application runs on the configured clocks (README.md:108-110):
\* no task runs on the clock the core woke up with, where its delays would be
\* twenty times as long.
TasksAtFullSpeed == TasksMayRun /\ Ready # {} => clock = "pll"

\* isCoreStopped tells what the interrupt handler has to restore: whenever an
\* interrupt can be taken, tick and pins are down exactly if the flag is set,
\* whatever the idle task was doing (core_stop.c:87).
FlagMatchesServices == ~masked => (sysTick <=> ~isCoreStopped) /\ (pins <=> ~isCoreStopped)

\* Whenever a task runs, the tick that ends its delays counts and the pins of
\* its LED are outputs, wherever in the stop or the resume it has interrupted
\* the idle task.
TasksFindServices == TasksMayRun /\ Ready # {} => sysTick /\ pins

\* The LEDs show the work of the tasks: stopping and resuming, which turn the
\* LEDs off, do not come in the middle of a delay (main.c:132, 160).
LedsShowWork ==
  \A t \in Tasks : place[t] \in {"delayed", "overflow"} => led[t] = (round[t] % 2 = 1)

\* A job whose callback has run is taken up by its task, though the callback may
\* come at any step of the stop and the resume, and while the task still works on
\* the one before; unless the core stops and no alarm comes any more.
NotifiedTaskRuns == \A t \in Tasks : notified[t] ~> (~notified[t] \/ []stopped)

\* The application always gets back to STOP2 (README.md:127-130): neither the wrap of
\* the tick count nor the flag that decides about the resume keeps it awake.
StopsAgain == []<>stopped
=============================================================================
