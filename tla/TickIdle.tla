------------------------------ MODULE TickIdle ------------------------------
(***************************************************************************)
(* The tick count of the kernel, the tasks that sleep on it, and the two    *)
(* questions the idle hook asks about them before it stops the core         *)
(* (include/freertos_tasks_c_additions.h, lib/FreeRTOS/tasks.c).            *)
(*                                                                         *)
(* The kernel keeps two lists of sleeping tasks: those that wake before the *)
(* tick count wraps, and those that wake after it.  The idle hook looks at  *)
(* the first only.                                                          *)
(*                                                                         *)
(* A definition Name_Slip is no part of the model: it is Name with a slip   *)
(* a programmer could make, for which the properties are seen to fail.      *)
(***************************************************************************)
EXTENDS Integers

CONSTANTS
  Tasks,       \* the tasks above the idle priority
  MaxTick,     \* the largest TickType_t, portMAX_DELAY (2^32 - 1 in the build)
  Delays,      \* the arguments of vTaskDelay, in ticks
  IdleTicks    \* IDLE_TIME_BEFORE_SLEEP, in ticks (1000)

ASSUME TickAssumption == MaxTick \in Nat /\ IdleTicks \in Nat /\ Delays \subseteq 1 .. MaxTick

\* The longest delay of the application is pdMS_TO_TICKS(1000), main.c:178.
ASSUME DelaysAssumption == \A d \in Delays : d <= IdleTicks + 1

VARIABLES
  tick,         \* xTickCount
  place,        \* the list each task is on; "delayed" is *pxDelayedTaskList
  wake,         \* the item value of a task on one of the two delayed lists, else 0
  nextUnblock   \* xNextTaskUnblockTime

kernelVars == <<tick, place, wake, nextUnblock>>

Places == {"ready", "delayed", "overflow", "suspended"}

Init ==
  /\ tick = 0
  /\ place = [t \in Tasks |-> "ready"]
  /\ wake = [t \in Tasks |-> 0]
  /\ nextUnblock = MaxTick

On(p) == {t \in Tasks : place[t] = p}

\* The wake time at the head of a list that holds the tasks of S.
IsHead(n, S) ==
  /\ n \in {MaxTick} \union {wake[t] : t \in S}
  /\ \A t \in S : n <= wake[t]

-----------------------------------------------------------------------------
(* Operations of the running task *)

WakeTime_Unbounded(d) == tick + d

WakeTime(d) == (tick + d) % (MaxTick + 1)

ListFor_AlwaysCurrent(wakeTime) == "delayed"

ListFor(wakeTime) == IF wakeTime < tick THEN "overflow" ELSE "delayed"

TaskDelay(t, d) ==
  /\ place[t] = "ready"
  /\ wake' = [wake EXCEPT ![t] = WakeTime(d)]
  /\ place' = [place EXCEPT ![t] = ListFor(WakeTime(d))]
  /\ nextUnblock' = IF place'[t] = "delayed" /\ WakeTime(d) < nextUnblock
                    THEN WakeTime(d) ELSE nextUnblock
  /\ UNCHANGED tick

\* ulTaskNotifyTake with portMAX_DELAY and no notification to take.
BlockIndefinitely(t) ==
  /\ place[t] = "ready"
  /\ place' = [place EXCEPT ![t] = "suspended"]
  /\ UNCHANGED <<tick, wake, nextUnblock>>

-----------------------------------------------------------------------------
(* Operations of interrupt handlers *)

\* vTaskNotifyGiveFromISR for a task that waits for a notification.
Unblocked(woken) == [t \in Tasks |-> IF t \in woken /\ place[t] = "suspended" THEN "ready" ELSE place[t]]

Unblock(t) ==
  /\ place[t] = "suspended"
  /\ place' = Unblocked({t})
  /\ UNCHANGED <<tick, wake, nextUnblock>>

NextTick == (tick + 1) % (MaxTick + 1)

\* taskSWITCH_DELAYED_LISTS exchanges the lists when the count wraps.
Switched == [t \in Tasks |-> IF NextTick # 0 THEN place[t]
                             ELSE CASE place[t] = "overflow" -> "delayed"
                                    [] place[t] = "delayed" -> "overflow"
                                    [] OTHER -> place[t]]

Current == {t \in Tasks : Switched[t] = "delayed"}

Expired_OneLate(n) == IF NextTick >= n THEN {t \in Current : wake[t] < NextTick} ELSE {}

\* The test of the loop in xTaskIncrementTick is made only when the count has
\* reached the earliest wake time, here n.
Expired(n) == IF NextTick >= n THEN {t \in Current : wake[t] <= NextTick} ELSE {}

IncrementTick ==
  \E n \in 0 .. MaxTick :
    /\ IF NextTick = 0 THEN IsHead(n, Current) ELSE n = nextUnblock
    /\ tick' = NextTick
    /\ place' = [t \in Tasks |-> IF t \in Expired(n) THEN "ready" ELSE Switched[t]]
    /\ wake' = [t \in Tasks |-> IF t \in Expired(n) THEN 0 ELSE wake[t]]
    /\ nextUnblock' \in 0 .. MaxTick
    /\ IF NextTick >= n THEN IsHead(nextUnblock', Current \ Expired(n)) ELSE nextUnblock' = n

-----------------------------------------------------------------------------
(* The questions of the idle hook *)

\* The last line of GetExpectedIdleTime, for the two values it has loaded.
TimeFrom(unblock, now) == (unblock - now) % (MaxTick + 1)

GetExpectedIdleTime == IF On("ready") # {} THEN 0 ELSE TimeFrom(nextUnblock, tick)

IsDelayedTaskListEmpty == On("delayed") = {}

LongEnough_AtLeast(ticks) == ticks >= IdleTicks

LongEnough_Always(ticks) == ticks > 0

LongEnough(ticks) == ticks > IdleTicks

ExpectsIdle == LongEnough(GetExpectedIdleTime)

-----------------------------------------------------------------------------
Next ==
  \/ IncrementTick
  \/ \E t \in Tasks :
       \/ BlockIndefinitely(t) \/ Unblock(t)
       \/ \E d \in Delays : TaskDelay(t, d)

Spec == Init /\ [][Next]_kernelVars

-----------------------------------------------------------------------------
(* Properties *)

TypeOK ==
  /\ tick \in 0 .. MaxTick /\ nextUnblock \in 0 .. MaxTick
  /\ place \in [Tasks -> Places]
  /\ wake \in [Tasks -> 0 .. MaxTick]

\* When both answers allow the stop (main.c:208), no task is ready and none
\* sleeps, not even one that wakes after the wrap of the tick count and is on
\* the list the idle hook does not look at: the margin of one second covers it.
StopSparesSleepers ==
  ExpectsIdle /\ IsDelayedTaskListEmpty => On("suspended") = Tasks

\* configASSERT of taskSWITCH_DELAYED_LISTS (tasks.c:203): no task is left on
\* the current list when the tick count wraps.
SwitchAssertion == tick = MaxTick => On("delayed") = {}

\* The ticks a task has still to sleep: until the count is next at its wake time.  A
\* task that the count has passed over sleeps for a whole turn of it.
TicksLeft(t) ==
  IF place[t] \notin {"delayed", "overflow"} THEN 0
  ELSE IF wake[t] > tick THEN wake[t] - tick ELSE wake[t] - tick + MaxTick + 1

Promise == INSTANCE Sleepers WITH left <- [t \in Tasks |-> TicksLeft(t)]

\* A delay of d ticks ends with the d-th tick, whether or not the tick count
\* wraps in between (vTaskDelay and xTaskIncrementTick).
SleepsExactly == Promise!Spec
=============================================================================
