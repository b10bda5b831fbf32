--------------------------- MODULE CoreStopProofs ---------------------------
(***************************************************************************)
(* Types, and the flag of core_stop.c against the services it stands for,   *)
(* for every timing of alarms and ticks, every choice of due jobs, and      *)
(* wake-ups without an interrupt.                                           *)
(***************************************************************************)
EXTENDS CoreStop, TLAPS

-----------------------------------------------------------------------------
(* The inductive invariant *)

Flags == {isCoreStopped, masked, sysTick, pins} \subseteq BOOLEAN

\* The interrupts are masked in these places of the idle task only.
MaskedPlaces == masked <=> pc \in {"suspend", "deinit", "unmask", "restore"}

\* How far the idle task has got with taking the services down while nobody
\* can look; only up to there do the flag and the services disagree.
Teardown ==
  /\ pc \in {"hook", "tick", "unblock", "list", "enter", "suspend"} => ~isCoreStopped
  /\ pc \in {"deinit", "unmask"} => isCoreStopped
  /\ sysTick <=> ~isCoreStopped
  /\ IF pc = "deinit" THEN pins ELSE pins <=> ~isCoreStopped

CoreInv == Flags /\ MaskedPlaces /\ Teardown

-----------------------------------------------------------------------------
LEMMA CoreInit == Init => CoreInv
  BY DEF Init, CoreInv, Flags, MaskedPlaces, Teardown

\* The interrupt handlers come only when the interrupts are not masked.
LEMMA InterruptsKeep ==
  ASSUME CoreInv, Interrupts
  PROVE  CoreInv'
<1>1. ASSUME NEW due \in SUBSET Tasks, AlarmIRQHandler(due) PROVE CoreInv'
  <2>1. ~masked /\ UNCHANGED <<masked, pc>> /\ ResumeFromStop2Mode
    BY <1>1 DEF AlarmIRQHandler, InterruptsOn
  <2>2. CASE isCoreStopped
    BY <2>1, <2>2 DEF ResumeFromStop2Mode, Restore, CoreInv, Flags, MaskedPlaces, Teardown
  <2>3. CASE ~isCoreStopped
    BY <2>1, <2>3 DEF ResumeFromStop2Mode, CoreInv, Flags, MaskedPlaces, Teardown
  <2> QED BY <2>2, <2>3
<1>2. CASE SysTickHandler
  BY <1>2 DEF SysTickHandler, coreVars, servicesVars, CoreInv, Flags, MaskedPlaces, Teardown
<1> QED BY <1>1, <1>2 DEF Interrupts

LEMMA IdleKeeps ==
  ASSUME CoreInv, IdleTask
  PROVE  CoreInv'
<1> USE DEF CoreInv, Flags, MaskedPlaces, Teardown, IdleAt
<1>0. CASE LoadFirst
  BY <1>0 DEF LoadFirst, servicesVars
<1>1. CASE AskIdleTime
  BY <1>1 DEF AskIdleTime, servicesVars
<1>2. CASE AskDelayedList
  BY <1>2 DEF AskDelayedList, servicesVars
<1>3. CASE MaskInterrupts
  BY <1>3 DEF MaskInterrupts, servicesVars
<1>4. CASE SuspendTick
  BY <1>4 DEF SuspendTick
<1>5. CASE Deinit
  BY <1>5 DEF Deinit
<1>6. CASE UnmaskInterrupts
  BY <1>6 DEF UnmaskInterrupts, servicesVars
<1>7. CASE WaitForInterrupt
  BY <1>7 DEF WaitForInterrupt
<1>8. CASE CheckStopped
  BY <1>8 DEF CheckStopped, servicesVars
<1>9. CASE RestoreInIdle
  BY <1>9 DEF RestoreInIdle, Restore
<1> QED BY <1>0, <1>1, <1>2, <1>3, <1>4, <1>5, <1>6, <1>7, <1>8, <1>9 DEF IdleTask

LEMMA CoreStep == CoreInv /\ [Next]_vars => CoreInv'
<1> SUFFICES ASSUME CoreInv, [Next]_vars PROVE CoreInv'
  OBVIOUS
<1>1. CASE Interrupts
  BY <1>1, InterruptsKeep
<1>2. CASE IdleTask
  BY <1>2, IdleKeeps
<1>3. CASE Wake \/ \E alarm \in BOOLEAN : Beat(alarm)
  BY <1>3 DEF Beat, Wake, coreVars, servicesVars, CoreInv, Flags, MaskedPlaces, Teardown
<1>4. ASSUME NEW t \in Tasks, TaskCode(t) PROVE CoreInv'
  BY <1>4 DEF TaskCode, TakeNotification, NextRound, FinishWork, coreVars, servicesVars,
              CoreInv, Flags, MaskedPlaces, Teardown
<1>5. CASE UNCHANGED vars
  BY <1>5 DEF vars, coreVars, servicesVars, CoreInv, Flags, MaskedPlaces, Teardown
<1> QED BY <1>1, <1>2, <1>3, <1>4, <1>5 DEF Next

\* An interrupt handler that looks at isCoreStopped is told the truth, at every
\* step of EnterStop2Mode and ResumeFromStop2Mode at which it can run: the mask
\* covers all the steps in between, and nothing but the mask is needed.
THEOREM FlagIsReliable == Spec => []FlagMatchesServices
<1>1. CoreInv => FlagMatchesServices
  BY DEF CoreInv, MaskedPlaces, Teardown, FlagMatchesServices
<1> QED BY <1>1, CoreInit, CoreStep, PTL DEF Spec

-----------------------------------------------------------------------------
(* Types *)

USE CoreAssumption

LEMMA RemainderType == ASSUME NEW a \in Int, NEW m \in Nat \ {0} PROVE a % m \in 0 .. (m - 1)
  OBVIOUS

KernelOK == Kernel!TypeOK

TasksOK ==
  /\ notified \in [Tasks -> BOOLEAN] /\ led \in [Tasks -> BOOLEAN]
  /\ round \in [Tasks -> Nat] /\ round["blink"] \in 0 .. Toggles /\ round["steady"] \in 0 .. 1

FlagsOK == {isCoreStopped, masked, sysTick, pins, stopped, alarmPending, tickPending} \subseteq BOOLEAN

CoreOK ==
  /\ FlagsOK
  /\ clock \in {"pll", "msi"} /\ pc \in IdleLabels /\ loaded \in 0 .. MaxTick
  /\ subTick \in 0 .. (Slow - 1) /\ slip \in 0 .. MaxSlip

LEMMA TypeInit == Init => TypeOK
<1> SUFFICES ASSUME Init PROVE TypeOK
  OBVIOUS
<1>1. KernelOK
  BY DEF Init, KernelOK, Kernel!Init, Kernel!TypeOK, Kernel!Places
<1>2. TasksOK
  BY DEF Init, TasksOK, Tasks
<1>3. CoreOK
  <2>1. FlagsOK
    BY DEF Init, FlagsOK
  <2>2. subTick \in 0 .. (Slow - 1) /\ slip \in 0 .. MaxSlip /\ loaded \in 0 .. MaxTick
    BY DEF Init
  <2> QED BY <2>1, <2>2 DEF Init, CoreOK, IdleLabels
<1> QED BY <1>1, <1>2, <1>3 DEF TypeOK, KernelOK, TasksOK, CoreOK, FlagsOK

LEMMA DelayTypes ==
  ASSUME TypeOK, NEW t \in Tasks, BeginDelay(t), round[t] < (IF t = "blink" THEN Toggles ELSE 1)
  PROVE  /\ KernelOK'
         /\ led' \in [Tasks -> BOOLEAN] /\ round' \in [Tasks -> Nat]
         /\ round'["blink"] \in 0 .. Toggles /\ round'["steady"] \in 0 .. 1
<1> DEFINE d == IF t = "blink" THEN BlinkDelay ELSE SteadyDelay
<1>1. tick \in 0 .. MaxTick /\ d \in 1 .. MaxTick
  BY DEF TypeOK, Kernel!TypeOK
<1>2. tick + d \in Int /\ MaxTick + 1 \in Nat \ {0}
  BY <1>1
<1>3. Kernel!WakeTime(d) \in 0 .. MaxTick
  <2>1. (tick + d) % (MaxTick + 1) \in 0 .. ((MaxTick + 1) - 1)
    BY <1>2, RemainderType, Zenon
  <2> QED BY <2>1 DEF Kernel!WakeTime
<1>4. Kernel!TaskDelay(t, d)
  BY DEF BeginDelay
<1> HIDE DEF d
<1>5. KernelOK'
  BY <1>3, <1>4 DEF TypeOK, KernelOK, Kernel!TypeOK, Kernel!TaskDelay, Kernel!ListFor, Kernel!Places
<1>6. led' \in [Tasks -> BOOLEAN]
  <2>1. Lights(t) \in BOOLEAN
    BY DEF TypeOK, Lights, Tasks
  <2> QED BY <2>1 DEF BeginDelay, TypeOK
<1>7. /\ round' \in [Tasks -> Nat] /\ round'["blink"] \in 0 .. Toggles
      /\ round'["steady"] \in 0 .. 1
  BY DEF BeginDelay, TypeOK, Tasks
<1> QED BY <1>5, <1>6, <1>7

LEMMA TypeTask ==
  ASSUME TypeOK, NEW t \in Tasks, TaskCode(t)
  PROVE  TypeOK'
<1>1. CoreOK'
  BY DEF TaskCode, TakeNotification, NextRound, FinishWork, TypeOK, CoreOK, FlagsOK, coreVars, servicesVars, timeVars
<1>2. CASE TakeNotification(t) /\ notified[t]
  <2>1. BeginDelay(t) /\ round[t] < (IF t = "blink" THEN Toggles ELSE 1)
    BY <1>2 DEF TakeNotification
  <2>2. notified' \in [Tasks -> BOOLEAN]
    BY <1>2 DEF TakeNotification, TypeOK
  <2>3. TasksOK' /\ KernelOK'
    BY <2>1, <2>2, DelayTypes DEF TasksOK
  <2> QED BY <1>1, <2>3 DEF TypeOK, KernelOK, TasksOK, CoreOK, FlagsOK
<1>3. CASE TakeNotification(t) /\ ~notified[t]
  <2>1. Kernel!BlockIndefinitely(t) /\ UNCHANGED taskVars
    BY <1>3 DEF TakeNotification
  <2>2. KernelOK'
    BY <2>1 DEF TypeOK, KernelOK, Kernel!TypeOK, Kernel!BlockIndefinitely, Kernel!Places
  <2>3. TasksOK'
    BY <2>1 DEF TypeOK, TasksOK, taskVars
  <2> QED BY <1>1, <2>2, <2>3 DEF TypeOK, KernelOK, TasksOK, CoreOK, FlagsOK
<1>4. CASE NextRound(t)
  <2>1. BeginDelay(t) /\ round[t] < (IF t = "blink" THEN Toggles ELSE 1)
    BY <1>4 DEF NextRound, Rounds, TypeOK
  <2>2. notified' \in [Tasks -> BOOLEAN]
    BY <1>4 DEF NextRound, TypeOK
  <2>3. TasksOK' /\ KernelOK'
    BY <2>1, <2>2, DelayTypes DEF TasksOK
  <2> QED BY <1>1, <2>3 DEF TypeOK, KernelOK, TasksOK, CoreOK, FlagsOK
<1>5. CASE FinishWork(t)
  <2>1. KernelOK'
    BY <1>5 DEF FinishWork, kernelVars, TypeOK, KernelOK, Kernel!TypeOK
  <2>2. led' \in [Tasks -> BOOLEAN]
    BY <1>5 DEF FinishWork, TypeOK
  <2>3. TasksOK'
    BY <1>5, <2>2 DEF FinishWork, TypeOK, TasksOK, Tasks
  <2> QED BY <1>1, <2>1, <2>3 DEF TypeOK, KernelOK, TasksOK, CoreOK, FlagsOK
<1> QED BY <1>2, <1>3, <1>4, <1>5 DEF TaskCode

LEMMA TypeInterrupts ==
  ASSUME TypeOK, Interrupts
  PROVE  TypeOK'
<1>1. ASSUME NEW due \in SUBSET Tasks, AlarmIRQHandler(due) PROVE TypeOK'
  <2>1. KernelOK'
    BY <1>1 DEF AlarmIRQHandler, TypeOK, KernelOK, Kernel!TypeOK, Kernel!Unblocked, Kernel!Places
  <2>2. notified' \in [Tasks -> BOOLEAN] /\ UNCHANGED round
    BY <1>1 DEF AlarmIRQHandler, TypeOK
  <2>3. led' \in [Tasks -> BOOLEAN]
    BY <1>1 DEF AlarmIRQHandler, ResumeFromStop2Mode, Restore, TypeOK
  <2>4. FlagsOK'
    BY <1>1 DEF AlarmIRQHandler, ResumeFromStop2Mode, Restore, TypeOK, FlagsOK
  <2>5. subTick' \in 0 .. (Slow - 1)
    BY <1>1 DEF AlarmIRQHandler, ResumeFromStop2Mode, Restore, TypeOK
  <2>6. clock' \in {"pll", "msi"} /\ UNCHANGED <<pc, loaded, slip>>
    BY <1>1 DEF AlarmIRQHandler, ResumeFromStop2Mode, Restore, TypeOK
  <2> QED BY <2>1, <2>2, <2>3, <2>4, <2>5, <2>6 DEF TypeOK, KernelOK, TasksOK, CoreOK, FlagsOK
<1>2. CASE SysTickHandler
  <2>1. Kernel!NextTick \in 0 .. MaxTick
    <3>1. tick + 1 \in Int /\ MaxTick + 1 \in Nat \ {0}
      BY DEF TypeOK, Kernel!TypeOK
    <3>2. (tick + 1) % (MaxTick + 1) \in 0 .. ((MaxTick + 1) - 1)
      BY <3>1, RemainderType, Zenon
    <3> QED BY <3>2 DEF Kernel!NextTick
  <2>2. Kernel!IncrementTick
    BY <1>2 DEF SysTickHandler
  <2>3. tick' \in 0 .. MaxTick /\ nextUnblock' \in 0 .. MaxTick
    BY <2>1, <2>2 DEF Kernel!IncrementTick
  <2>4. place' \in [Tasks -> Kernel!Places]
    BY <2>2 DEF Kernel!IncrementTick, Kernel!Switched, Kernel!Places, TypeOK, Kernel!TypeOK
  <2>5. wake' \in [Tasks -> 0 .. MaxTick]
    BY <2>2 DEF Kernel!IncrementTick, TypeOK, Kernel!TypeOK
  <2>6. KernelOK'
    BY <2>3, <2>4, <2>5 DEF KernelOK, Kernel!TypeOK
  <2>7. TasksOK' /\ CoreOK'
    BY <1>2 DEF SysTickHandler, taskVars, coreVars, servicesVars, TypeOK, TasksOK, CoreOK, FlagsOK
  <2> QED BY <2>6, <2>7 DEF TypeOK, KernelOK, TasksOK, CoreOK, FlagsOK
<1> QED BY <1>1, <1>2 DEF Interrupts

LEMMA TypeIdle ==
  ASSUME TypeOK, IdleTask
  PROVE  TypeOK'
<1> USE DEF TypeOK, Kernel!TypeOK, IdleLabels, kernelVars, taskVars, servicesVars, timeVars
<1>0. CASE LoadFirst
  BY <1>0 DEF LoadFirst
<1>1. CASE AskIdleTime
  BY <1>1 DEF AskIdleTime
<1>2. CASE AskDelayedList
  BY <1>2 DEF AskDelayedList
<1>3. CASE MaskInterrupts \/ UnmaskInterrupts \/ CheckStopped
  BY <1>3 DEF MaskInterrupts, UnmaskInterrupts, CheckStopped
<1>4. CASE SuspendTick
  BY <1>4 DEF SuspendTick
<1>5. CASE Deinit
  BY <1>5 DEF Deinit
<1>6. CASE WaitForInterrupt
  BY <1>6 DEF WaitForInterrupt
<1>7. CASE RestoreInIdle
  <2>1. subTick' \in 0 .. (Slow - 1)
    BY <1>7 DEF RestoreInIdle, Restore
  <2>2. led' \in [Tasks -> BOOLEAN]
    BY <1>7 DEF RestoreInIdle, Restore
  <2> QED BY <1>7, <2>1, <2>2 DEF RestoreInIdle, Restore
<1> QED BY <1>0, <1>1, <1>2, <1>3, <1>4, <1>5, <1>6, <1>7 DEF IdleTask

LEMMA TypeBeat ==
  ASSUME TypeOK, NEW alarm \in BOOLEAN, Beat(alarm)
  PROVE  TypeOK'
<1>1. KernelOK' /\ TasksOK'
  BY DEF Beat, kernelVars, taskVars, TypeOK, Kernel!TypeOK, KernelOK, TasksOK
<1>2. slip' \in 0 .. MaxSlip
  BY DEF Beat, TypeOK
<1>3. subTick' \in 0 .. (Slow - 1)
  <2>1. subTick \in 0 .. (Slow - 1) /\ subTick + 1 \in Int /\ Slow \in Nat \ {0}
    BY DEF TypeOK
  <2>2. (subTick + 1) % Slow \in 0 .. (Slow - 1)
    BY <2>1, RemainderType, Zenon
  <2> QED BY <2>1, <2>2 DEF Beat
<1>4. alarmPending' \in BOOLEAN /\ tickPending' \in BOOLEAN
  BY DEF Beat
<1>5. UNCHANGED coreVars
  BY DEF Beat
<1>6. CoreOK'
  BY <1>2, <1>3, <1>4, <1>5 DEF coreVars, servicesVars, TypeOK, CoreOK, FlagsOK
<1> QED BY <1>1, <1>6 DEF TypeOK, KernelOK, TasksOK, CoreOK, FlagsOK

LEMMA TypeStep == TypeOK /\ [Next]_vars => TypeOK'
<1> SUFFICES ASSUME TypeOK, [Next]_vars PROVE TypeOK'
  OBVIOUS
<1>1. ASSUME NEW alarm \in BOOLEAN, Beat(alarm) PROVE TypeOK'
  BY <1>1, TypeBeat
<1>2. CASE Wake
  BY <1>2 DEF Wake, TypeOK, Kernel!TypeOK, kernelVars, taskVars, servicesVars, timeVars
<1>3. CASE Interrupts
  BY <1>3, TypeInterrupts
<1>4. CASE IdleTask
  BY <1>4, TypeIdle
<1>5. ASSUME NEW t \in Tasks, TaskCode(t) PROVE TypeOK'
  BY <1>5, TypeTask
<1>6. CASE UNCHANGED vars
  BY <1>6 DEF vars, kernelVars, taskVars, coreVars, servicesVars, timeVars, TypeOK, Kernel!TypeOK
<1> QED BY <1>1, <1>2, <1>3, <1>4, <1>5, <1>6 DEF Next

\* No task begins more delays than its loop has, the bookkeeping of the kernel
\* stays within TickType_t whatever the idle task is in the middle of, and code
\* is overtaken only as often as the bound allows.
THEOREM CoreTypes == Spec => []TypeOK
  BY TypeInit, TypeStep, PTL DEF Spec
-----------------------------------------------------------------------------
(* The kernel under the tasks of the application, as in TickIdleProofs, with *)
(* what its steps do to the lists and the ticks that are left.               *)

SleepersAhead ==
  \A t \in Tasks : /\ place[t] = "delayed" => wake[t] > tick
                   /\ place[t] = "overflow" => wake[t] < tick

NextUnblockKnown == Kernel!IsHead(nextUnblock, Kernel!On("delayed"))

KernelKnows == Kernel!TypeOK /\ SleepersAhead /\ NextUnblockKnown

TicksLeft(t) == Kernel!TicksLeft(t)

LEMMA LeftType ==
  ASSUME KernelKnows, NEW t \in Tasks
  PROVE  /\ TicksLeft(t) \in Int
         /\ place[t] \in {"delayed", "overflow"} <=> TicksLeft(t) > 0
         /\ place[t] \notin {"delayed", "overflow"} <=> TicksLeft(t) = 0
         /\ place[t] = "overflow" => TicksLeft(t) > MaxTick - tick
         /\ place[t] = "delayed" => TicksLeft(t) = wake[t] - tick
<1>1. tick \in 0 .. MaxTick /\ wake[t] \in 0 .. MaxTick
  BY DEF KernelKnows, Kernel!TypeOK
<1>2. CASE place[t] = "delayed"
  <2>1. wake[t] > tick
    BY <1>2 DEF KernelKnows, SleepersAhead
  <2>2. TicksLeft(t) = wake[t] - tick
    BY <1>2, <2>1 DEF TicksLeft, Kernel!TicksLeft
  <2> QED BY <1>1, <1>2, <2>1, <2>2
<1>3. CASE place[t] = "overflow"
  <2>1. wake[t] < tick
    BY <1>3 DEF KernelKnows, SleepersAhead
  <2>2. TicksLeft(t) = wake[t] - tick + MaxTick + 1
    BY <1>1, <1>3, <2>1 DEF TicksLeft, Kernel!TicksLeft
  <2> QED BY <1>1, <1>3, <2>1, <2>2
<1>4. CASE place[t] \notin {"delayed", "overflow"}
  <2>1. TicksLeft(t) = 0
    BY <1>4 DEF TicksLeft, Kernel!TicksLeft
  <2> QED BY <1>4, <2>1
<1> QED BY <1>2, <1>3, <1>4

\* A number below twice the modulus wraps at most once.
LEMMA WrapsOnce ==
  ASSUME NEW a \in Nat, NEW m \in Nat \ {0}, a < 2 * m
  PROVE  a % m = IF a < m THEN a ELSE a - m
<1>1. CASE a < m
  BY <1>1
<1>2. CASE ~(a < m)
  <2>1. a - m \in 0 .. (m - 1)
    BY <1>2
  <2>2. a = m * 1 + (a - m)
    OBVIOUS
  <2> QED BY <1>2, <2>1, <2>2
<1> QED BY <1>1, <1>2

\* A task that delays itself for d ticks has d left, on whichever list.
LEMMA DelayEffect ==
  ASSUME KernelKnows, NEW t \in Tasks, NEW d \in 1 .. MaxTick, Kernel!TaskDelay(t, d)
  PROVE  /\ KernelKnows' /\ UNCHANGED tick
         /\ TicksLeft(t)' = d /\ place'[t] \in {"delayed", "overflow"}
         /\ \A u \in Tasks \ {t} : TicksLeft(u)' = TicksLeft(u) /\ place'[u] = place[u]
<1> USE DEF KernelKnows
<1> DEFINE w == Kernel!WakeTime(d)
<1>1. tick \in 0 .. MaxTick
  BY DEF Kernel!TypeOK
<1>2. w = IF tick + d <= MaxTick THEN tick + d ELSE tick + d - MaxTick - 1
  <2>1. tick + d \in Nat /\ tick + d < 2 * (MaxTick + 1) /\ MaxTick + 1 \in Nat \ {0}
    BY <1>1
  <2>2. (tick + d) % (MaxTick + 1)
          = IF tick + d < MaxTick + 1 THEN tick + d ELSE (tick + d) - (MaxTick + 1)
    BY <2>1, WrapsOnce, Zenon
  <2> QED BY <1>1, <2>2 DEF Kernel!WakeTime
<1>3. w \in 0 .. MaxTick /\ w # tick
  BY <1>1, <1>2
<1>4. Kernel!ListFor(w) \in {"delayed", "overflow"} /\ (Kernel!ListFor(w) = "overflow" <=> w < tick)
  BY DEF Kernel!ListFor
<1> HIDE DEF w
<1>5. /\ place' = [place EXCEPT ![t] = Kernel!ListFor(w)] /\ wake' = [wake EXCEPT ![t] = w]
      /\ tick' = tick /\ place[t] = "ready"
      /\ nextUnblock' = IF place'[t] = "delayed" /\ w < nextUnblock THEN w ELSE nextUnblock
  BY DEF Kernel!TaskDelay, w
<1>6. Kernel!TypeOK'
  <2>1. place' \in [Tasks -> Kernel!Places]
    BY <1>4, <1>5 DEF Kernel!TypeOK, Kernel!Places
  <2> QED BY <1>3, <1>5, <2>1 DEF Kernel!TypeOK
<1>7. /\ place'[t] = Kernel!ListFor(w) /\ wake'[t] = w
      /\ \A u \in Tasks \ {t} : place'[u] = place[u] /\ wake'[u] = wake[u]
  BY <1>5 DEF Kernel!TypeOK
<1>8. SleepersAhead'
  BY <1>1, <1>3, <1>4, <1>5, <1>7 DEF SleepersAhead
<1>9. NextUnblockKnown'
  <2>1. nextUnblock \in 0 .. MaxTick /\ \A u \in Tasks : wake[u] \in 0 .. MaxTick
    BY DEF Kernel!TypeOK
  <2>2. CASE place'[t] # "delayed"
    <3>1. Kernel!On("delayed")' = Kernel!On("delayed") /\ t \notin Kernel!On("delayed")
      BY <1>5, <1>7, <2>2 DEF Kernel!On
    <3> QED BY <1>5, <1>7, <2>2, <3>1 DEF NextUnblockKnown, Kernel!IsHead, Kernel!On
  <2>3. CASE place'[t] = "delayed"
    <3>1. Kernel!On("delayed")' = Kernel!On("delayed") \union {t} /\ t \notin Kernel!On("delayed")
      BY <1>5, <1>7, <2>3 DEF Kernel!On
    <3>2. \A u \in Kernel!On("delayed") : wake'[u] = wake[u] /\ u \in Tasks
      BY <1>7, <3>1 DEF Kernel!On
    <3>3. nextUnblock' = IF w < nextUnblock THEN w ELSE nextUnblock
      BY <1>5, <2>3
    <3>4. nextUnblock' \in {MaxTick} \union {wake'[u] : u \in Kernel!On("delayed")'}
      BY <1>7, <3>1, <3>2, <3>3 DEF NextUnblockKnown, Kernel!IsHead
    <3>5. \A u \in Kernel!On("delayed")' : nextUnblock' <= wake'[u]
      BY <1>3, <1>7, <2>1, <3>1, <3>2, <3>3 DEF NextUnblockKnown, Kernel!IsHead
    <3> QED BY <3>4, <3>5 DEF NextUnblockKnown, Kernel!IsHead
  <2> QED BY <2>2, <2>3
<1>10. TicksLeft(t)' = d
  BY <1>1, <1>2, <1>4, <1>5, <1>7 DEF TicksLeft, Kernel!TicksLeft
<1>11. \A u \in Tasks \ {t} : TicksLeft(u)' = TicksLeft(u)
  BY <1>5, <1>7 DEF TicksLeft, Kernel!TicksLeft
<1> QED BY <1>4, <1>5, <1>6, <1>7, <1>8, <1>9, <1>10, <1>11

\* Nobody who sleeps is touched by a task that waits, or is notified.
LEMMA WaitEffect ==
  ASSUME KernelKnows, UNCHANGED <<tick, wake, nextUnblock>>, place' \in [Tasks -> Kernel!Places],
         \A u \in Tasks : \/ place'[u] = place[u]
                          \/ {place[u], place'[u]} \subseteq {"ready", "suspended"}
  PROVE  KernelKnows' /\ \A u \in Tasks : TicksLeft(u)' = TicksLeft(u)
<1> USE DEF KernelKnows
<1>1. Kernel!TypeOK'
  BY DEF Kernel!TypeOK
<1>2. Kernel!On("delayed")' = Kernel!On("delayed")
  BY DEF Kernel!On
<1>3. SleepersAhead' /\ \A u \in Tasks : TicksLeft(u)' = TicksLeft(u)
  BY DEF SleepersAhead, TicksLeft, Kernel!TicksLeft
<1>4. NextUnblockKnown'
  BY <1>2 DEF NextUnblockKnown, Kernel!IsHead
<1> QED BY <1>1, <1>3, <1>4

\* What a tick does to the lists, when the count goes on and when it wraps.
LEMMA TickLists ==
  ASSUME KernelKnows
  PROVE  /\ tick # MaxTick => Kernel!NextTick = tick + 1 /\ Kernel!Current = Kernel!On("delayed") /\ Kernel!Switched = place
         /\ tick = MaxTick => /\ Kernel!NextTick = 0 /\ Kernel!On("delayed") = {} /\ Kernel!Current = Kernel!On("overflow")
                              /\ \A t \in Tasks : Kernel!Switched[t] \notin {"overflow"}
         /\ Kernel!Switched \in [Tasks -> Kernel!Places]
         /\ \A t \in Tasks : place[t] \in {"ready", "suspended"} \/ Kernel!Switched[t] \in {"ready", "suspended"}
                               => Kernel!Switched[t] = place[t]
<1> USE DEF KernelKnows
<1>0. Kernel!NextTick = IF tick = MaxTick THEN 0 ELSE tick + 1
  <2>1. tick \in 0 .. MaxTick
    BY DEF Kernel!TypeOK
  <2>2. tick + 1 \in Nat /\ tick + 1 < 2 * (MaxTick + 1) /\ MaxTick + 1 \in Nat \ {0}
    BY <2>1
  <2>3. (tick + 1) % (MaxTick + 1)
          = IF tick + 1 < MaxTick + 1 THEN tick + 1 ELSE (tick + 1) - (MaxTick + 1)
    BY <2>2, WrapsOnce, Zenon
  <2> QED BY <2>1, <2>3 DEF Kernel!NextTick
<1>1. tick # MaxTick => Kernel!NextTick = tick + 1 /\ Kernel!NextTick # 0
  BY <1>0 DEF Kernel!TypeOK
<1>2. tick = MaxTick => Kernel!NextTick = 0 /\ Kernel!On("delayed") = {}
  BY <1>0 DEF Kernel!TypeOK, SleepersAhead, Kernel!On
<1>3. tick # MaxTick => Kernel!Switched = place /\ Kernel!Current = Kernel!On("delayed")
  BY <1>1 DEF Kernel!Switched, Kernel!Current, Kernel!On, Kernel!TypeOK
<1>4. tick = MaxTick => /\ Kernel!Current = Kernel!On("overflow")
                        /\ \A t \in Tasks : Kernel!Switched[t] \notin {"overflow"}
  BY <1>2 DEF Kernel!Switched, Kernel!Current, Kernel!On, Kernel!TypeOK, Kernel!Places
<1>5. Kernel!Switched \in [Tasks -> Kernel!Places]
  BY DEF Kernel!Switched, Kernel!TypeOK, Kernel!Places
<1>6. \A t \in Tasks : place[t] \in {"ready", "suspended"} \/ Kernel!Switched[t] \in {"ready", "suspended"}
                         => Kernel!Switched[t] = place[t]
  BY DEF Kernel!Switched, Kernel!TypeOK, Kernel!Places
<1> QED BY <1>1, <1>2, <1>3, <1>4, <1>5, <1>6

\* A tick brings every sleeper one tick nearer and wakes those that have none left.
LEMMA TickEffect ==
  ASSUME KernelKnows, Kernel!IncrementTick
  PROVE  /\ KernelKnows'
         /\ tick' = IF tick = MaxTick THEN 0 ELSE tick + 1
         /\ tick = MaxTick => \A t \in Tasks : place'[t] # "overflow"
         /\ \A t \in Tasks : /\ TicksLeft(t)' = IF TicksLeft(t) > 0 THEN TicksLeft(t) - 1 ELSE 0
                             /\ place'[t] = "overflow" => place[t] = "overflow"
                             /\ place'[t] = "suspended" <=> place[t] = "suspended"
                             /\ place[t] = "ready" => place'[t] = "ready"
                             /\ place'[t] = "delayed" /\ tick # MaxTick => place[t] = "delayed"
<1> USE DEF KernelKnows
<1>1. PICK n \in 0 .. MaxTick :
        /\ IF Kernel!NextTick = 0 THEN Kernel!IsHead(n, Kernel!Current) ELSE n = nextUnblock
        /\ tick' = Kernel!NextTick
        /\ place' = [t \in Tasks |-> IF t \in Kernel!Expired(n) THEN "ready" ELSE Kernel!Switched[t]]
        /\ wake' = [t \in Tasks |-> IF t \in Kernel!Expired(n) THEN 0 ELSE wake[t]]
        /\ nextUnblock' \in 0 .. MaxTick
        /\ IF Kernel!NextTick >= n THEN Kernel!IsHead(nextUnblock', Kernel!Current \ Kernel!Expired(n)) ELSE nextUnblock' = n
  BY DEF Kernel!IncrementTick
<1>2. /\ tick \in 0 .. MaxTick /\ wake \in [Tasks -> 0 .. MaxTick]
      /\ Kernel!NextTick \in 0 .. MaxTick /\ Kernel!Current \subseteq Tasks
  BY TickLists, MaxTick \in Nat DEF Kernel!TypeOK, Kernel!Current
<1>3. Kernel!IsHead(n, Kernel!Current)
  BY <1>1, TickLists DEF NextUnblockKnown
<1>4. \A t \in Kernel!Current : t \in Kernel!Expired(n) <=> wake[t] <= Kernel!NextTick
  BY <1>2, <1>3 DEF Kernel!Expired, Kernel!IsHead
<1>5. Kernel!Expired(n) \subseteq Kernel!Current
  BY DEF Kernel!Expired
<1>6. \A t \in Tasks : /\ t \in Kernel!Expired(n) => place'[t] = "ready" /\ wake'[t] = 0
                       /\ t \notin Kernel!Expired(n) => place'[t] = Kernel!Switched[t] /\ wake'[t] = wake[t]
  BY <1>1
<1>7. Kernel!TypeOK'
  <2>1. place' \in [Tasks -> Kernel!Places]
    BY <1>1, TickLists DEF Kernel!Places
  <2> QED BY <1>1, <1>2, <2>1 DEF Kernel!TypeOK
<1>9. Kernel!On("delayed")' = Kernel!Current \ Kernel!Expired(n)
  BY <1>6 DEF Kernel!On, Kernel!Current
<1>10. NextUnblockKnown'
  <2>1. Kernel!IsHead(nextUnblock', Kernel!Current \ Kernel!Expired(n))
    BY <1>1, <1>3 DEF Kernel!Expired
  <2>2. \A t \in Kernel!Current \ Kernel!Expired(n) : wake'[t] = wake[t]
    BY <1>2, <1>6
  <2> QED BY <1>9, <2>1, <2>2 DEF NextUnblockKnown, Kernel!IsHead
<1>11. ASSUME NEW t \in Tasks
       PROVE  /\ place'[t] = "delayed" => wake'[t] > tick'
              /\ place'[t] = "overflow" => wake'[t] < tick' /\ place[t] = "overflow"
              /\ TicksLeft(t)' = IF TicksLeft(t) > 0 THEN TicksLeft(t) - 1 ELSE 0
              /\ place'[t] = "suspended" <=> place[t] = "suspended"
              /\ place[t] = "ready" => place'[t] = "ready"
              /\ place'[t] = "delayed" /\ tick # MaxTick => place[t] = "delayed"
  <2>1. wake[t] \in 0 .. MaxTick /\ tick \in 0 .. MaxTick /\ tick' = Kernel!NextTick
    BY <1>1, <1>2
  <2>2. CASE tick # MaxTick
    <3>1. /\ Kernel!NextTick = tick + 1 /\ Kernel!Switched = place
          /\ t \in Kernel!Current <=> place[t] = "delayed"
      BY <2>2, TickLists DEF Kernel!On
    <3>2. place[t] = "delayed" => wake[t] > tick
      BY DEF SleepersAhead
    <3>3. place[t] = "overflow" => wake[t] < tick
      BY DEF SleepersAhead
    <3>4. CASE place[t] = "delayed"
      BY <1>4, <1>6, <2>1, <3>1, <3>2, <3>4 DEF TicksLeft, Kernel!TicksLeft
    <3>5. CASE place[t] # "delayed"
      BY <1>5, <1>6, <2>1, <3>1, <3>3, <3>5 DEF TicksLeft, Kernel!TicksLeft
    <3> QED BY <2>2, <3>4, <3>5
  <2>3. CASE tick = MaxTick
    <3>1. /\ Kernel!NextTick = 0 /\ Kernel!Switched[t] # "overflow" /\ place[t] # "delayed"
          /\ t \in Kernel!Current <=> place[t] = "overflow"
          /\ t \in Kernel!Current <=> Kernel!Switched[t] = "delayed"
          /\ place[t] \in {"ready", "suspended"} \/ Kernel!Switched[t] \in {"ready", "suspended"}
               => Kernel!Switched[t] = place[t]
      BY <2>3, TickLists DEF Kernel!On, Kernel!Current
    <3>2. CASE place[t] = "overflow"
      BY <1>4, <1>6, <2>1, <2>3, <3>1, <3>2 DEF TicksLeft, Kernel!TicksLeft
    <3>3. CASE place[t] # "overflow"
      <4>1. place[t] \in {"ready", "suspended"}
        BY <3>1, <3>3 DEF Kernel!TypeOK, Kernel!Places
      <4> QED BY <1>5, <1>6, <2>1, <2>3, <3>1, <3>3, <4>1 DEF TicksLeft, Kernel!TicksLeft
    <3> QED BY <3>2, <3>3
  <2> QED BY <2>2, <2>3
<1>12. SleepersAhead'
  BY <1>11 DEF SleepersAhead
<1>13. tick = MaxTick => \A t \in Tasks : place'[t] # "overflow"
  BY <1>6, TickLists
<1>14. tick' = IF tick = MaxTick THEN 0 ELSE tick + 1
  BY <1>1, TickLists
<1> QED BY <1>7, <1>10, <1>11, <1>12, <1>13, <1>14
-----------------------------------------------------------------------------
(* Who may be asleep when the tick is taken down                             *)
(*                                                                         *)
(* At rest the beats are free, and elsewhere each beat is a slip, of which   *)
(* MaxSlip - slip are left.  A sleeper with more ticks left than that is not *)
(* woken before the core rests again.                                        *)

\* The slips the argument can bear: the answers of the idle hook, and no delay
\* passes as a whole while the idle task is between them and the mask; and of two
\* ticks between the loads of GetExpectedIdleTime none may be followed by a third.
FewSlips ==
  /\ MaxSlip <= 2 /\ MaxSlip <= IdleTicks + 1
  /\ MaxSlip <= BlinkDelay /\ MaxSlip <= SteadyDelay

Questions == {"tick", "unblock", "list", "enter"}

One(pending) == IF pending THEN 1 ELSE 0

TicksDue == One(tickPending)

Safe(t) == TicksLeft(t) - TicksDue > MaxSlip - slip

Spared(list) == \A t \in Tasks : place[t] = list => Safe(t)

\* The idle task begins its questions with nobody ready and nothing pending;
\* that changes with a slip.
SlipsFirst ==
  pc \in Questions => /\ TicksDue <= slip
                      /\ slip = 0 => Ready = {} /\ ~alarmPending

\* A wake time that has been loaded and has passed was two ticks ahead of the
\* count, one of which woke its task.
UnblockLoaded ==
  pc = "tick" => /\ loaded < MaxTick /\ loaded <= tick => slip - TicksDue >= 1
                 /\ loaded < tick => slip - TicksDue >= 2

\* A tick count that has been loaded is as old as the slips allow.  If it has
\* wrapped since, who is on the overflow list went to sleep after that.
TickLoaded ==
  pc = "unblock" => IF loaded <= tick THEN tick - loaded <= slip - TicksDue
                    ELSE Spared("overflow") /\ tick + MaxTick + 1 - loaded <= slip - TicksDue

\* The first answer is about the list the idle hook does not look at, the second
\* about the other.
Answered ==
  /\ pc \in {"list", "enter", "suspend"} => Spared("overflow")
  /\ pc \in {"enter", "suspend"} => Spared("delayed")
  /\ pc = "suspend" => Ready = {}

\* While tick and pins are down nobody is ready, and a tick that is still
\* pending wakes nobody.
NobodyWakes ==
  isCoreStopped => /\ Ready = {}
                   /\ tickPending => \A t \in Tasks : TicksLeft(t) # 1

StoppedInWfi == stopped => pc = "woken"

SlipInv ==
  /\ KernelKnows /\ SlipsFirst /\ UnblockLoaded /\ TickLoaded /\ Answered
  /\ NobodyWakes /\ StoppedInWfi

Whole == TypeOK /\ CoreInv /\ SlipInv

LEMMA SlipInit == Init => SlipInv
<1> SUFFICES ASSUME Init PROVE SlipInv
  OBVIOUS
<1>1. KernelKnows
  <2>1. Kernel!TypeOK
    BY TypeInit DEF TypeOK
  <2>2. SleepersAhead
    BY DEF Init, Kernel!Init, SleepersAhead
  <2>3. NextUnblockKnown
    BY DEF Init, Kernel!Init, NextUnblockKnown, Kernel!IsHead, Kernel!On
  <2> QED BY <2>1, <2>2, <2>3 DEF KernelKnows
<1> QED BY <1>1 DEF Init, SlipInv, SlipsFirst, UnblockLoaded, TickLoaded, Answered, NobodyWakes,
                    StoppedInWfi, Questions

LEMMA SlipTypes ==
  ASSUME TypeOK
  PROVE  /\ slip \in 0 .. MaxSlip /\ loaded \in 0 .. MaxTick /\ tick \in 0 .. MaxTick
         /\ tickPending \in BOOLEAN /\ TicksDue \in Nat /\ TicksDue <= 1
  BY DEF TypeOK, Kernel!TypeOK, TicksDue, One

LEMMA SlipBeat ==
  ASSUME Whole, NEW alarm \in BOOLEAN, Beat(alarm)
  PROVE  SlipInv'
<1> USE DEF Whole, TicksDue
<1>1. UNCHANGED <<tick, place, wake, nextUnblock, pc, loaded, isCoreStopped, stopped>>
  BY DEF Beat, kernelVars, coreVars, servicesVars
<1>2. KernelKnows' /\ Ready' = Ready /\ \A t \in Tasks : TicksLeft(t)' = TicksLeft(t)
  BY <1>1 DEF SlipInv, KernelKnows, SleepersAhead, NextUnblockKnown, Kernel!TypeOK, Kernel!IsHead,
              Kernel!On, TicksLeft, Kernel!TicksLeft, Ready
<1>3. \A t \in Tasks : TicksLeft(t) \in Int
  BY LeftType DEF SlipInv
<1>4. /\ slip \in 0 .. MaxSlip /\ slip' \in Int /\ loaded \in 0 .. MaxTick /\ tick \in 0 .. MaxTick
      /\ TicksDue \in Nat /\ TicksDue <= 1 /\ TicksDue' \in Nat /\ TicksDue' <= 1
  BY SlipTypes DEF Beat, One
<1>5. CASE pc \in Questions \union {"suspend"}
  <2>1. ~AtRest
    BY <1>5 DEF AtRest, IdleAt, SlipInv, StoppedInWfi, Questions
  <2>2. slip' = slip + 1
    BY <2>1 DEF Beat
  <2>3. TicksDue' <= TicksDue + 1
    BY <1>4
  <2>4. \A t \in Tasks : Safe(t) => Safe(t)'
    BY <1>2, <1>3, <1>4, <2>2, <2>3 DEF Safe
  <2>5. /\ Spared("overflow") => Spared("overflow")'
        /\ Spared("delayed") => Spared("delayed")'
    BY <1>1, <2>4 DEF Spared
  <2>0. slip' - TicksDue' >= slip - TicksDue /\ slip' > 0
    BY <1>4, <2>2, <2>3
  <2>6. SlipsFirst'
    <3>1. pc \in Questions => TicksDue <= slip
      BY DEF SlipInv, SlipsFirst
    <3>2. pc \in Questions => TicksDue' <= slip' /\ slip' # 0
      BY <1>4, <2>2, <2>3, <3>1
    <3> QED BY <1>1, <3>2 DEF SlipsFirst
  <2>10. UnblockLoaded' /\ StoppedInWfi'
    <3>1. UnblockLoaded /\ StoppedInWfi
      BY DEF SlipInv
    <3>2. StoppedInWfi'
      BY <1>1, <3>1, Zenon DEF StoppedInWfi
    <3>3. /\ loaded' = loaded /\ tick' = tick /\ pc' = pc
          /\ slip - TicksDue >= 1 => slip' - TicksDue' >= 1
          /\ slip - TicksDue >= 2 => slip' - TicksDue' >= 2
      BY <1>1, <1>4, <2>0
    <3>4. UnblockLoaded'
      BY <3>1, <3>3, Zenon DEF UnblockLoaded
    <3> QED BY <3>2, <3>4
  <2>7. TickLoaded'
    <3>1. TickLoaded
      BY DEF SlipInv
    <3>2. /\ loaded' = loaded /\ tick' = tick /\ pc' = pc
          /\ tick - loaded <= slip - TicksDue => tick - loaded <= slip' - TicksDue'
          /\ tick + MaxTick + 1 - loaded <= slip - TicksDue => tick + MaxTick + 1 - loaded <= slip' - TicksDue'
      BY <1>1, <1>4, <2>0
    <3> QED BY <2>5, <3>1, <3>2, Zenon DEF TickLoaded
  <2>8. Answered'
    BY <1>1, <1>2, <2>5 DEF SlipInv, Answered
  <2>9. NobodyWakes'
    BY <1>1, <1>5 DEF CoreInv, Teardown, NobodyWakes, Questions
  <2> QED BY <1>2, <2>6, <2>7, <2>8, <2>9, <2>10 DEF SlipInv
<1>6. CASE pc \notin Questions \union {"suspend"}
  <2>1. NobodyWakes'
    <3>1. isCoreStopped => tickPending' = tickPending
      BY DEF Beat, TickFalls, CoreInv, Teardown, TypeOK
    <3> QED BY <1>1, <1>2, <3>1 DEF SlipInv, NobodyWakes
  <2> QED BY <1>1, <1>2, <1>6, <2>1 DEF SlipInv, SlipsFirst, UnblockLoaded, TickLoaded, Answered,
                                       StoppedInWfi, Questions
<1> QED BY <1>5, <1>6

LEMMA SlipTick ==
  ASSUME FewSlips, Whole, SysTickHandler
  PROVE  SlipInv'
<1> USE DEF Whole, TicksDue
<1>1. /\ UNCHANGED <<pc, loaded, isCoreStopped, stopped, slip, alarmPending>>
      /\ tickPending /\ ~tickPending' /\ ~masked /\ ~stopped /\ Kernel!IncrementTick
  BY DEF SysTickHandler, InterruptsOn, coreVars, servicesVars, TypeOK
<1>2. TicksDue = 1 /\ TicksDue' = 0
  BY <1>1 DEF One
<1>3. /\ slip \in 0 .. MaxSlip /\ loaded \in 0 .. MaxTick /\ tick \in 0 .. MaxTick
  BY SlipTypes
<1>4. /\ KernelKnows'
      /\ tick' = IF tick = MaxTick THEN 0 ELSE tick + 1
      /\ tick = MaxTick => \A t \in Tasks : place'[t] # "overflow"
  BY <1>1, TickEffect DEF SlipInv
<1>5. ASSUME NEW t \in Tasks
      PROVE  /\ place'[t] = "overflow" => place[t] = "overflow"
             /\ place'[t] = "delayed" => place[t] \in {"delayed", "overflow"}
             /\ place'[t] \in {"delayed", "overflow"} /\ Safe(t) => Safe(t)'
             /\ place'[t] = "ready" => place[t] = "ready" \/ TicksLeft(t) = 1
  <2>1. /\ TicksLeft(t) \in Int /\ TicksLeft(t) >= 0
        /\ place[t] \in {"delayed", "overflow"} <=> TicksLeft(t) > 0
    BY LeftType DEF SlipInv
  <2>2. /\ TicksLeft(t)' = IF TicksLeft(t) > 0 THEN TicksLeft(t) - 1 ELSE 0
        /\ place'[t] = "overflow" => place[t] = "overflow"
        /\ place'[t] = "suspended" <=> place[t] = "suspended"
        /\ place[t] = "ready" => place'[t] = "ready"
    BY <1>1, TickEffect DEF SlipInv
  <2>3. place'[t] \in {"delayed", "overflow"} <=> TicksLeft(t)' > 0
    BY <1>4, LeftType DEF KernelKnows, SleepersAhead, Kernel!TypeOK, TicksLeft, Kernel!TicksLeft
  <2>4. place'[t] = "delayed" => place[t] \in {"delayed", "overflow"}
    BY <2>1, <2>2, <2>3
  <2>5. place'[t] \in {"delayed", "overflow"} /\ Safe(t) => Safe(t)'
    <3> SUFFICES ASSUME place'[t] \in {"delayed", "overflow"}, Safe(t) PROVE Safe(t)'
      OBVIOUS
    <3>1. TicksLeft(t) - 1 > MaxSlip - slip
      BY <1>2 DEF Safe
    <3>2. TicksLeft(t)' = TicksLeft(t) - 1
      BY <2>1, <2>2, <2>3
    <3>3. TicksLeft(t)' - 0 > MaxSlip - slip'
      BY <1>1, <1>3, <2>1, <3>1, <3>2
    <3> QED BY <1>2, <3>3 DEF Safe
  <2>6. place'[t] = "ready" => place[t] = "ready" \/ TicksLeft(t) = 1
    <3>1. place[t] \in {"ready", "suspended", "delayed", "overflow"}
      BY DEF TypeOK, Kernel!TypeOK, Kernel!Places
    <3> QED BY <2>1, <2>2, <2>3, <3>1
  <2> QED BY <2>2, <2>4, <2>5, <2>6
<1>6. pc # "suspend"
  BY <1>1 DEF CoreInv, MaskedPlaces
<1>7. Spared("overflow") => Spared("overflow")'
  BY <1>5 DEF Spared
<1>8. Spared("overflow") /\ Spared("delayed") => Spared("delayed")'
  BY <1>5 DEF Spared
<1>9. SlipsFirst'
  <2>1. pc \in Questions => slip >= 1
    BY <1>2 DEF SlipInv, SlipsFirst
  <2>2. pc' \in Questions => One(tickPending)' <= slip' /\ slip' # 0
    BY <1>1, <1>2, <1>3, <2>1
  <2> QED BY <2>2 DEF SlipsFirst
<1>10. UnblockLoaded'
  <2> SUFFICES ASSUME pc = "tick" PROVE UnblockLoaded'
    BY <1>1 DEF UnblockLoaded
  <2>1. slip >= 1
    BY <1>2 DEF SlipInv, SlipsFirst, Questions
  <2>2. /\ loaded < MaxTick /\ loaded <= tick => slip - 1 >= 1
        /\ loaded < tick => slip - 1 >= 2
    BY <1>2 DEF SlipInv, UnblockLoaded
  <2>3. /\ loaded < MaxTick /\ loaded <= tick' => slip >= 1
        /\ loaded < tick' => slip >= 2
    BY <1>3, <1>4, <2>1, <2>2
  <2> QED BY <1>1, <1>2, <1>3, <2>3 DEF UnblockLoaded
<1>11. TickLoaded'
  <2> SUFFICES ASSUME pc = "unblock" PROVE TickLoaded'
    BY <1>1 DEF TickLoaded
  <2>1. MaxSlip <= MaxTick
    BY DEF FewSlips
  <2>2. IF loaded <= tick THEN tick - loaded <= slip - 1
        ELSE Spared("overflow") /\ tick + MaxTick + 1 - loaded <= slip - 1
    BY <1>2 DEF SlipInv, TickLoaded
  <2>3. tick = MaxTick => Spared("overflow")'
    BY <1>4 DEF Spared
  <2>4. CASE loaded <= tick /\ tick # MaxTick
    BY <1>1, <1>2, <1>3, <1>4, <2>2, <2>4 DEF TickLoaded
  <2>5. CASE loaded <= tick /\ tick = MaxTick
    <3>1. loaded > 0 /\ tick' = 0
      BY <1>3, <1>4, <2>1, <2>2, <2>5
    <3>2. tick' + MaxTick + 1 - loaded <= slip
      BY <1>3, <2>2, <2>5, <3>1
    <3> QED BY <1>1, <1>2, <1>3, <2>3, <2>5, <3>1, <3>2 DEF TickLoaded
  <2>6. CASE ~(loaded <= tick)
    <3>1. tick' = tick + 1 /\ tick + 1 < loaded
      BY <1>3, <1>4, <2>1, <2>2, <2>6
    <3> QED BY <1>1, <1>2, <1>3, <1>7, <2>2, <2>6, <3>1 DEF TickLoaded
  <2> QED BY <2>4, <2>5, <2>6
<1>12. Answered'
  BY <1>1, <1>6, <1>7, <1>8 DEF SlipInv, Answered
<1>13. NobodyWakes'
  BY <1>1, <1>5 DEF SlipInv, NobodyWakes, Ready, Kernel!On
<1>14. StoppedInWfi'
  BY <1>1 DEF SlipInv, StoppedInWfi
<1> QED BY <1>4, <1>9, <1>10, <1>11, <1>12, <1>13, <1>14 DEF SlipInv
LEMMA SlipAlarm ==
  ASSUME Whole, NEW due \in SUBSET Tasks, AlarmIRQHandler(due)
  PROVE  SlipInv'
<1> USE DEF Whole, TicksDue
<1>1. /\ UNCHANGED <<tick, wake, nextUnblock, pc, loaded, stopped, slip, tickPending>>
      /\ alarmPending /\ ~masked /\ ~stopped
      /\ place' = Kernel!Unblocked(due) /\ ResumeFromStop2Mode
  BY DEF AlarmIRQHandler, InterruptsOn
<1>2. /\ place' \in [Tasks -> Kernel!Places]
      /\ \A u \in Tasks : \/ place'[u] = place[u]
                          \/ {place[u], place'[u]} \subseteq {"ready", "suspended"}
  BY <1>1 DEF Kernel!Unblocked, TypeOK, Kernel!TypeOK, Kernel!Places
<1>3. KernelKnows' /\ \A u \in Tasks : TicksLeft(u)' = TicksLeft(u)
  BY <1>1, <1>2, WaitEffect DEF SlipInv
<1>4. \A t \in Tasks : Safe(t)' <=> Safe(t)
  BY <1>1, <1>3 DEF Safe
<1>5. /\ Spared("overflow") => Spared("overflow")'
      /\ Spared("delayed") => Spared("delayed")'
  BY <1>2, <1>4 DEF Spared
<1>6. pc # "suspend"
  BY <1>1 DEF CoreInv, MaskedPlaces
<1>7. isCoreStopped' = FALSE
  BY <1>1 DEF ResumeFromStop2Mode, Restore, TypeOK
<1>8. SlipsFirst'
  BY <1>1 DEF SlipInv, SlipsFirst
<1>9. UnblockLoaded'
  BY <1>1 DEF SlipInv, UnblockLoaded
<1>10. TickLoaded'
  <2>1. TickLoaded
    BY DEF SlipInv
  <2> QED BY <1>1, <1>5, <2>1, Zenon DEF TickLoaded
<1>11. Answered'
  BY <1>1, <1>5, <1>6 DEF SlipInv, Answered
<1>12. NobodyWakes' /\ StoppedInWfi'
  BY <1>1, <1>7 DEF NobodyWakes, StoppedInWfi
<1> QED BY <1>3, <1>8, <1>9, <1>10, <1>11, <1>12 DEF SlipInv

\* A task that delays itself during the questions of the idle hook has been made
\* ready by a slip, and its delay outlasts the others.
LEMMA SlipTask ==
  ASSUME FewSlips, Whole, NEW t \in Tasks, TaskCode(t)
  PROVE  SlipInv'
<1> USE DEF Whole, TicksDue
<1>1. /\ UNCHANGED <<pc, loaded, stopped, slip, tickPending, alarmPending, isCoreStopped, tick>>
      /\ ~masked /\ ~stopped /\ ~tickPending /\ ~alarmPending /\ t \in Ready
  BY DEF TaskCode, TakeNotification, NextRound, FinishWork, Scheduled, TasksMayRun, InterruptsOn,
         coreVars, servicesVars, timeVars, kernelVars, BeginDelay, Kernel!TaskDelay, Kernel!BlockIndefinitely
<1>2. pc # "suspend" /\ ~isCoreStopped
  BY <1>1 DEF CoreInv, MaskedPlaces, SlipInv, NobodyWakes
<1>3. /\ slip \in 0 .. MaxSlip /\ MaxSlip \in Nat
      /\ pc \in Questions => slip >= 1
  <2>1. pc \in Questions => slip # 0
    BY <1>1 DEF SlipInv, SlipsFirst
  <2> QED BY <2>1, SlipTypes
<1>4. One(tickPending) = 0
  BY <1>1 DEF One
<1>5. /\ KernelKnows'
      /\ \A u \in Tasks :
           \/ TicksLeft(u)' = TicksLeft(u) /\ place'[u] = place[u]
           \/ place'[u] \notin {"delayed", "overflow"}
           \/ TicksLeft(u)' \in Int /\ TicksLeft(u)' >= MaxSlip
  <2>1. CASE BeginDelay(t)
    <3> DEFINE d == IF t = "blink" THEN BlinkDelay ELSE SteadyDelay
    <3>1. Kernel!TaskDelay(t, d)
      BY <2>1 DEF BeginDelay
    <3>2. d \in 1 .. MaxTick /\ d >= MaxSlip
      BY DEF FewSlips
    <3> HIDE DEF d
    <3>3. /\ KernelKnows' /\ TicksLeft(t)' = d
          /\ \A u \in Tasks \ {t} : TicksLeft(u)' = TicksLeft(u) /\ place'[u] = place[u]
      BY <3>1, <3>2, DelayEffect DEF SlipInv
    <3> QED BY <3>2, <3>3
  <2>2. CASE Kernel!BlockIndefinitely(t)
    <3>1. /\ UNCHANGED <<tick, wake, nextUnblock>> /\ place' \in [Tasks -> Kernel!Places]
          /\ \A u \in Tasks : \/ place'[u] = place[u]
                              \/ {place[u], place'[u]} \subseteq {"ready", "suspended"}
      BY <2>2 DEF Kernel!BlockIndefinitely, TypeOK, Kernel!TypeOK, Kernel!Places
    <3>2. KernelKnows' /\ \A u \in Tasks : TicksLeft(u)' = TicksLeft(u)
      BY <3>1, WaitEffect DEF SlipInv
    <3> QED BY <3>1, <3>2
  <2>3. CASE UNCHANGED kernelVars
    <3>1. UNCHANGED <<tick, wake, nextUnblock, place>>
      BY <2>3 DEF kernelVars
    <3>2. place' \in [Tasks -> Kernel!Places]
      BY <3>1 DEF TypeOK, Kernel!TypeOK
    <3>3. KernelKnows' /\ \A u \in Tasks : TicksLeft(u)' = TicksLeft(u)
      BY <3>1, <3>2, WaitEffect DEF SlipInv
    <3> QED BY <3>1, <3>3
  <2> QED BY <2>1, <2>2, <2>3 DEF TaskCode, TakeNotification, NextRound, FinishWork
<1>6. ASSUME NEW u \in Tasks, pc \in Questions, place'[u] \in {"delayed", "overflow"},
             place[u] = place'[u] => Safe(u)
      PROVE  Safe(u)'
  <2>1. CASE TicksLeft(u)' = TicksLeft(u) /\ place'[u] = place[u]
    BY <1>1, <1>6, <2>1 DEF Safe
  <2>2. CASE TicksLeft(u)' \in Int /\ TicksLeft(u)' >= MaxSlip
    <3>1. TicksLeft(u)' - 0 > MaxSlip - slip'
      BY <1>1, <1>3, <1>6, <2>2
    <3> QED BY <1>1, <1>4, <3>1 DEF Safe
  <2> QED BY <1>5, <1>6, <2>1, <2>2
<1>7. pc \in Questions => /\ Spared("overflow") => Spared("overflow")'
                          /\ Spared("delayed") => Spared("delayed")'
  BY <1>6 DEF Spared
<1>8. SlipsFirst'
  <2>1. pc' \in Questions => One(tickPending)' <= slip' /\ slip' # 0
    BY <1>1, <1>3, <1>4
  <2> QED BY <2>1 DEF SlipsFirst
<1>9. UnblockLoaded'
  BY <1>1 DEF SlipInv, UnblockLoaded
<1>10. TickLoaded'
  <2>1. TickLoaded
    BY DEF SlipInv
  <2> QED BY <1>1, <1>7, <2>1, Zenon DEF TickLoaded, Questions
<1>11. Answered'
  BY <1>1, <1>2, <1>7 DEF SlipInv, Answered, Questions
<1>12. NobodyWakes' /\ StoppedInWfi'
  BY <1>1, <1>2 DEF NobodyWakes, StoppedInWfi
<1> QED BY <1>5, <1>8, <1>9, <1>10, <1>11, <1>12 DEF SlipInv

\* Either answer that lets the idle hook go on was given by a reading of which no
\* sleeper of the overflow list can be woken any more.
LEMMA SlipAnswer ==
  ASSUME FewSlips, Whole, IdleAt("tick") \/ IdleAt("unblock"), Kernel!LongEnough(IdleTime)
  PROVE  Spared("overflow")
<1> USE DEF Whole, TicksDue
<1> SUFFICES ASSUME NEW t \in Tasks, place[t] = "overflow" PROVE Safe(t)
  BY DEF Spared
<1>1. pc \in {"tick", "unblock"} /\ ~tickPending
  BY DEF IdleAt, TasksMayRun, CoreInv, MaskedPlaces
<1>2. One(tickPending) = 0
  BY <1>1 DEF One
<1>3. /\ slip \in 0 .. MaxSlip /\ loaded \in 0 .. MaxTick /\ tick \in 0 .. MaxTick
      /\ nextUnblock \in 0 .. MaxTick /\ MaxSlip \in Nat /\ MaxTick \in Nat
  BY SlipTypes DEF TypeOK, Kernel!TypeOK
<1>4. TicksLeft(t) \in Int /\ TicksLeft(t) > MaxTick - tick /\ TicksLeft(t) > 0
  BY LeftType DEF SlipInv
<1>5. CASE MaxTick - tick > IdleTicks - slip
  BY <1>2, <1>3, <1>4, <1>5 DEF Safe, FewSlips
<1>6. CASE slip >= 2
  BY <1>2, <1>3, <1>4, <1>6 DEF Safe, FewSlips
<1>7. CASE pc = "tick"
  <2>1. (loaded - tick) % (MaxTick + 1) > IdleTicks
    BY <1>7 DEF Kernel!LongEnough, IdleTime, Kernel!TimeFrom
  <2>2. CASE loaded < tick
    <3>1. slip - 0 >= 2
      BY <1>2, <1>7, <2>2 DEF SlipInv, UnblockLoaded
    <3> QED BY <1>3, <1>6, <3>1
  <2>3. CASE ~(loaded < tick)
    <3>1. (loaded - tick) % (MaxTick + 1) = loaded - tick
      BY <1>3, <2>3
    <3> QED BY <1>3, <1>5, <2>1, <3>1
  <2> QED BY <2>2, <2>3
<1>8. CASE pc = "unblock"
  <2>1. (nextUnblock - loaded) % (MaxTick + 1) > IdleTicks
    BY <1>8 DEF Kernel!LongEnough, IdleTime, Kernel!TimeFrom
  <2>2. IF loaded <= tick THEN tick - loaded <= slip - 0
        ELSE Spared("overflow") /\ tick + MaxTick + 1 - loaded <= slip - 0
    BY <1>2, <1>8 DEF SlipInv, TickLoaded
  <2>3. CASE loaded <= tick
    <3>1. nextUnblock >= tick
      <4>1. nextUnblock = MaxTick \/ \E u \in Kernel!On("delayed") : nextUnblock = wake[u]
        BY DEF SlipInv, KernelKnows, NextUnblockKnown, Kernel!IsHead
      <4>2. \A u \in Kernel!On("delayed") : wake[u] > tick
        BY DEF SlipInv, KernelKnows, SleepersAhead, Kernel!On
      <4> QED BY <1>3, <4>1, <4>2
    <3>2. (nextUnblock - loaded) % (MaxTick + 1) = nextUnblock - loaded
      BY <1>3, <2>3, <3>1
    <3>3. MaxTick - tick > IdleTicks - slip
      BY <1>3, <2>1, <2>2, <2>3, <3>2
    <3> QED BY <1>5, <3>3
  <2>4. CASE ~(loaded <= tick)
    BY <2>2, <2>4 DEF Spared
  <2> QED BY <2>3, <2>4
<1> QED BY <1>1, <1>7, <1>8
LEMMA SlipIdle ==
  ASSUME FewSlips, Whole, IdleTask
  PROVE  SlipInv'
<1> USE DEF Whole, TicksDue
<1>1. UNCHANGED <<tick, place, wake, nextUnblock, slip, tickPending, alarmPending>>
  BY DEF IdleTask, LoadFirst, AskIdleTime, AskDelayedList, MaskInterrupts, SuspendTick, Deinit, UnmaskInterrupts,
         WaitForInterrupt, CheckStopped, RestoreInIdle, kernelVars, timeVars
<1>2. KernelKnows' /\ Ready' = Ready /\ \A t \in Tasks : TicksLeft(t)' = TicksLeft(t)
  BY <1>1 DEF SlipInv, KernelKnows, SleepersAhead, NextUnblockKnown, Kernel!TypeOK, Kernel!IsHead,
              Kernel!On, TicksLeft, Kernel!TicksLeft, Ready
<1>3. \A t \in Tasks : Safe(t)' <=> Safe(t)
  BY <1>1, <1>2 DEF Safe
<1>4. /\ Spared("overflow") => Spared("overflow")'
      /\ Spared("delayed") => Spared("delayed")'
  BY <1>1, <1>3 DEF Spared
<1>5. \A l : IdleAt(l) => /\ ~stopped /\ pc = l
                          /\ ~masked => Ready = {} /\ ~tickPending /\ ~alarmPending
  BY DEF IdleAt, TasksMayRun
<1>6. /\ slip \in 0 .. MaxSlip /\ loaded \in 0 .. MaxTick /\ tick \in 0 .. MaxTick
      /\ nextUnblock \in 0 .. MaxTick /\ MaxSlip \in Nat /\ MaxTick \in Nat
  BY SlipTypes DEF TypeOK, Kernel!TypeOK
<1>7. CASE LoadFirst
  <2>1. pc = "hook" /\ ~masked /\ Ready = {} /\ ~tickPending /\ ~alarmPending /\ ~isCoreStopped /\ ~stopped
    BY <1>5, <1>7 DEF LoadFirst, CoreInv, MaskedPlaces, Teardown
  <2>2. One(tickPending) = 0 /\ One(tickPending)' = 0
    BY <1>1, <2>1 DEF One
  <2>3. SlipsFirst'
    <3>1. One(tickPending)' <= slip'
      BY <1>1, <1>6, <2>2
    <3> QED BY <1>1, <1>2, <2>1, <3>1 DEF SlipsFirst
  <2>4. Answered' /\ NobodyWakes' /\ StoppedInWfi'
    BY <1>7, <2>1 DEF LoadFirst, servicesVars, Answered, NobodyWakes, StoppedInWfi
  <2>5. CASE pc' = "tick" /\ loaded' = nextUnblock
    <3>1. nextUnblock > tick \/ nextUnblock = MaxTick
      <4>1. nextUnblock = MaxTick \/ \E u \in Kernel!On("delayed") : nextUnblock = wake[u]
        BY DEF SlipInv, KernelKnows, NextUnblockKnown, Kernel!IsHead
      <4>2. \A u \in Kernel!On("delayed") : wake[u] > tick
        BY DEF SlipInv, KernelKnows, SleepersAhead, Kernel!On
      <4> QED BY <1>6, <4>1, <4>2
    <3>2. ~(loaded' < tick') /\ ~(loaded' < MaxTick /\ loaded' <= tick')
      BY <1>1, <1>6, <2>5, <3>1
    <3>3. UnblockLoaded' /\ TickLoaded'
      BY <2>5, <3>2 DEF UnblockLoaded, TickLoaded
    <3> QED BY <1>2, <2>3, <2>4, <3>3 DEF SlipInv
  <2>6. CASE pc' = "unblock" /\ loaded' = tick
    <3>1. loaded' <= tick' /\ tick' - loaded' <= slip' - One(tickPending)'
      BY <1>1, <1>6, <2>2, <2>6
    <3>2. UnblockLoaded' /\ TickLoaded'
      BY <2>6, <3>1 DEF UnblockLoaded, TickLoaded
    <3> QED BY <1>2, <2>3, <2>4, <3>2 DEF SlipInv
  <2> QED BY <1>7, <2>5, <2>6 DEF LoadFirst
<1>8. CASE AskIdleTime
  <2>1. /\ pc \in {"tick", "unblock"} /\ ~stopped
        /\ pc' = IF Kernel!LongEnough(IdleTime) THEN "list" ELSE "hook"
        /\ UNCHANGED <<isCoreStopped, stopped>>
    BY <1>5, <1>8 DEF AskIdleTime, servicesVars
  <2>2. pc' = "list" => Spared("overflow")'
    BY <1>4, <1>8, <2>1, SlipAnswer DEF AskIdleTime
  <2>3. SlipsFirst'
    BY <1>1, <1>2, <2>1 DEF SlipInv, SlipsFirst, Questions
  <2>4. UnblockLoaded' /\ TickLoaded'
    BY <2>1 DEF UnblockLoaded, TickLoaded
  <2>5. Answered'
    BY <2>1, <2>2 DEF Answered
  <2>6. NobodyWakes' /\ StoppedInWfi'
    BY <1>1, <1>2, <2>1 DEF SlipInv, NobodyWakes, StoppedInWfi
  <2> QED BY <1>2, <2>3, <2>4, <2>5, <2>6 DEF SlipInv
<1>9. CASE AskDelayedList
  <2>1. /\ pc = "list" /\ ~stopped
        /\ pc' = IF MayStop THEN "enter" ELSE "hook"
        /\ UNCHANGED <<isCoreStopped, stopped>>
    BY <1>5, <1>9 DEF AskDelayedList, servicesVars
  <2>2. MayStop => Spared("delayed")
    BY DEF MayStop, Kernel!IsDelayedTaskListEmpty, Kernel!On, Spared
  <2>3. SlipsFirst'
    BY <1>1, <1>2, <2>1 DEF SlipInv, SlipsFirst, Questions
  <2>4. UnblockLoaded' /\ TickLoaded'
    BY <2>1 DEF UnblockLoaded, TickLoaded
  <2>5. Answered'
    BY <1>4, <2>1, <2>2 DEF SlipInv, Answered
  <2>6. NobodyWakes' /\ StoppedInWfi'
    BY <1>1, <1>2, <2>1 DEF SlipInv, NobodyWakes, StoppedInWfi
  <2> QED BY <1>2, <2>3, <2>4, <2>5, <2>6 DEF SlipInv
<1>10. CASE MaskInterrupts
  <2>1. /\ (pc = "enter" /\ pc' = "suspend") \/ pc' = "restore"
        /\ ~masked \/ pc \notin {"enter", "suspend"}
        /\ Ready = {} \/ pc' = "restore"
        /\ UNCHANGED <<isCoreStopped, stopped>> /\ ~stopped
    BY <1>5, <1>10 DEF MaskInterrupts, servicesVars, CoreInv, MaskedPlaces
  <2>2. SlipsFirst' /\ UnblockLoaded' /\ TickLoaded'
    BY <2>1 DEF SlipsFirst, UnblockLoaded, TickLoaded, Questions
  <2>3. Answered'
    BY <1>2, <1>4, <2>1 DEF SlipInv, Answered
  <2>4. NobodyWakes' /\ StoppedInWfi'
    BY <1>1, <1>2, <2>1 DEF SlipInv, NobodyWakes, StoppedInWfi
  <2> QED BY <1>2, <2>2, <2>3, <2>4 DEF SlipInv
<1>11. CASE SuspendTick
  <2>1. pc = "suspend" /\ pc' = "deinit" /\ UNCHANGED stopped /\ ~stopped
    BY <1>5, <1>11 DEF SuspendTick
  <2>2. Ready = {} /\ Spared("overflow") /\ Spared("delayed")
    BY <2>1 DEF SlipInv, Answered
  <2>3. ASSUME tickPending, NEW t \in Tasks PROVE TicksLeft(t) # 1
    <3> SUFFICES ASSUME TicksLeft(t) = 1 PROVE FALSE
      OBVIOUS
    <3>1. Safe(t)
      BY <2>2, LeftType DEF SlipInv, Spared
    <3>2. TicksLeft(t) - 1 > MaxSlip - slip
      BY <2>3, <3>1 DEF Safe, One
    <3> QED BY <1>6, <3>2
  <2>4. NobodyWakes'
    BY <1>1, <1>2, <2>2, <2>3 DEF NobodyWakes
  <2>5. SlipsFirst' /\ UnblockLoaded' /\ TickLoaded' /\ Answered' /\ StoppedInWfi'
    BY <2>1 DEF SlipsFirst, UnblockLoaded, TickLoaded, Answered, StoppedInWfi, Questions
  <2> QED BY <1>2, <2>4, <2>5 DEF SlipInv
<1>12. CASE Deinit \/ UnmaskInterrupts \/ WaitForInterrupt \/ CheckStopped \/ RestoreInIdle
  <2>1. /\ pc' \in {"unmask", "wfi", "woken", "resume", "hook"}
        /\ isCoreStopped' => isCoreStopped
        /\ stopped' => pc' = "woken"
    BY <1>5, <1>12 DEF Deinit, UnmaskInterrupts, WaitForInterrupt, CheckStopped, RestoreInIdle, Restore, servicesVars
  <2>2. SlipsFirst' /\ UnblockLoaded' /\ TickLoaded' /\ Answered' /\ StoppedInWfi'
    BY <2>1 DEF SlipsFirst, UnblockLoaded, TickLoaded, Answered, StoppedInWfi, Questions
  <2>3. NobodyWakes'
    BY <1>1, <1>2, <2>1 DEF SlipInv, NobodyWakes
  <2> QED BY <1>2, <2>2, <2>3 DEF SlipInv
<1> QED BY <1>7, <1>8, <1>9, <1>10, <1>11, <1>12 DEF IdleTask

LEMMA SlipStep == FewSlips /\ Whole /\ [Next]_vars => SlipInv'
<1> SUFFICES ASSUME FewSlips, Whole, [Next]_vars PROVE SlipInv'
  OBVIOUS
<1>1. ASSUME NEW alarm \in BOOLEAN, Beat(alarm) PROVE SlipInv'
  BY <1>1, SlipBeat
<1>2. CASE Interrupts
  BY <1>2, SlipTick, SlipAlarm DEF Interrupts
<1>3. CASE IdleTask
  BY <1>3, SlipIdle
<1>4. ASSUME NEW t \in Tasks, TaskCode(t) PROVE SlipInv'
  BY <1>4, SlipTask
<1>5. CASE Wake \/ UNCHANGED vars
  <2>1. UNCHANGED <<tick, place, wake, nextUnblock, pc, loaded, isCoreStopped, slip, alarmPending, tickPending>>
    BY <1>5 DEF Wake, vars, kernelVars, coreVars, servicesVars, timeVars
  <2>2. stopped' => stopped
    BY <1>5 DEF Wake, vars, coreVars
  <2> QED BY <2>1, <2>2
          DEF Whole, SlipInv, KernelKnows, SleepersAhead, NextUnblockKnown, Kernel!TypeOK, Kernel!IsHead, Kernel!On,
              SlipsFirst, UnblockLoaded, TickLoaded, Answered, NobodyWakes, StoppedInWfi, Spared, Safe,
              TicksLeft, Kernel!TicksLeft, Ready, TicksDue, One
<1> QED BY <1>1, <1>2, <1>3, <1>4, <1>5 DEF Next

LEMMA SlipsBounded ==
  ASSUME FewSlips
  PROVE  Init /\ [][Next]_vars => []Whole
<1>1. Init => Whole
  BY CoreInit, TypeInit, SlipInit DEF Whole
<1>2. Whole /\ [Next]_vars => Whole'
  BY CoreStep, TypeStep, SlipStep DEF Whole
<1> QED BY <1>1, <1>2, PTL

\* If code is overtaken by few beats, no task runs with the tick or the pins
\* down, whenever the alarms come and whatever jobs they find due: no tick that is
\* taken down with the services wakes a task.
THEOREM TasksHaveServices ==
  ASSUME FewSlips
  PROVE  Spec => []TasksFindServices
<1>1. Whole => TasksFindServices
  BY DEF Whole, SlipInv, NobodyWakes, TasksFindServices, TasksMayRun, InterruptsOn, CoreInv, MaskedPlaces, Teardown
<1> QED BY <1>1, SlipsBounded, PTL DEF Spec
=============================================================================
