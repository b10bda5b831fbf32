--------------------------- MODULE TickIdleProofs ---------------------------
(***************************************************************************)
(* The idle hook's questions and the delays, for every width of the tick    *)
(* count, every set of tasks and every set of delays the threshold covers.  *)
(***************************************************************************)
EXTENDS TickIdle, TLAPS

USE TickAssumption, DelaysAssumption

-----------------------------------------------------------------------------
(* The inductive invariant *)

\* A task on the current list wakes later than now, a task on the other list
\* has a wake time the count has passed and will reach again.
SleepersAhead ==
  \A t \in Tasks : /\ place[t] = "delayed" => wake[t] > tick
                   /\ place[t] = "overflow" => wake[t] < tick

\* Nobody sleeps for longer than the longest delay: this is what bounds the
\* distance of the wrap as long as someone waits for it.
SleepBounded == \A t \in Tasks : place[t] = "overflow" => TicksLeft(t) <= IdleTicks + 1

\* The kernel knows when the next sleeper of the current list wakes.
NextUnblockKnown == IsHead(nextUnblock, On("delayed"))

KernelInv == TypeOK /\ SleepersAhead /\ SleepBounded /\ NextUnblockKnown

-----------------------------------------------------------------------------
(* Arithmetic that wraps *)

\* A number below twice the modulus wraps at most once.
LEMMA Wraps ==
  ASSUME NEW a \in Nat, NEW m \in Nat \ {0}, a < 2 * m
  PROVE  a % m = IF a < m THEN a ELSE a - m
<1>1. CASE a < m
  BY <1>1
<1>2. CASE ~(a < m)
  <2>1. a - m \in 0 .. (m - 1)
    BY <1>2
  <2>2. a = m * 1 + (a - m)
    OBVIOUS
  <2> QED BY <1>2, <2>1, <2>2
<1> QED BY <1>1, <1>2

LEMMA WakeTimeWraps ==
  ASSUME TypeOK, NEW d \in Delays
  PROVE  /\ d \in 1 .. MaxTick
         /\ WakeTime(d) = IF tick + d <= MaxTick THEN tick + d ELSE tick + d - MaxTick - 1
<1>1. d \in 1 .. MaxTick /\ tick \in 0 .. MaxTick
  BY DEF TypeOK
<1>2. tick + d \in Nat /\ tick + d < 2 * (MaxTick + 1) /\ MaxTick + 1 \in Nat \ {0}
  BY <1>1
<1>3. (tick + d) % (MaxTick + 1)
        = IF tick + d < MaxTick + 1 THEN tick + d ELSE (tick + d) - (MaxTick + 1)
  BY <1>2, Wraps, Zenon
<1> QED BY <1>1, <1>3 DEF WakeTime

LEMMA NextTickWraps ==
  ASSUME TypeOK
  PROVE  NextTick = IF tick = MaxTick THEN 0 ELSE tick + 1
<1>1. tick \in 0 .. MaxTick
  BY DEF TypeOK
<1>2. tick + 1 \in Nat /\ tick + 1 < 2 * (MaxTick + 1) /\ MaxTick + 1 \in Nat \ {0}
  BY <1>1
<1>3. (tick + 1) % (MaxTick + 1)
        = IF tick + 1 < MaxTick + 1 THEN tick + 1 ELSE (tick + 1) - (MaxTick + 1)
  BY <1>2, Wraps, Zenon
<1> QED BY <1>1, <1>3 DEF NextTick

-----------------------------------------------------------------------------
(* The invariant holds initially and is preserved *)

LEMMA KernelInit == Init => KernelInv
<1> SUFFICES ASSUME Init PROVE KernelInv
  OBVIOUS
<1>1. TypeOK
  BY DEF Init, TypeOK, Places
<1>2. SleepersAhead /\ SleepBounded
  BY DEF Init, SleepersAhead, SleepBounded
<1>3. NextUnblockKnown
  BY DEF Init, NextUnblockKnown, IsHead, On
<1> QED BY <1>1, <1>2, <1>3 DEF KernelInv

LEMMA DelayKeeps ==
  ASSUME KernelInv, NEW t \in Tasks, NEW d \in Delays, TaskDelay(t, d)
  PROVE  KernelInv'
<1> USE DEF KernelInv
<1> DEFINE w == WakeTime(d)
<1>1. d \in 1 .. MaxTick /\ d <= IdleTicks + 1 /\ tick \in 0 .. MaxTick
  BY WakeTimeWraps DEF TypeOK
<1>2. w = IF tick + d <= MaxTick THEN tick + d ELSE tick + d - MaxTick - 1
  BY WakeTimeWraps
<1>3. w \in 0 .. MaxTick /\ w # tick
  BY <1>1, <1>2
<1>4. ListFor(w) \in Places
  BY DEF ListFor, Places
<1> HIDE DEF w
<1>5. /\ place' = [place EXCEPT ![t] = ListFor(w)] /\ wake' = [wake EXCEPT ![t] = w]
      /\ tick' = tick /\ place[t] = "ready"
      /\ nextUnblock' = IF place'[t] = "delayed" /\ w < nextUnblock THEN w ELSE nextUnblock
  BY DEF TaskDelay, w
<1>6. TypeOK'
  BY <1>3, <1>4, <1>5 DEF TypeOK
<1>7. /\ place'[t] = ListFor(w) /\ wake'[t] = w
      /\ \A u \in Tasks \ {t} : place'[u] = place[u] /\ wake'[u] = wake[u]
  BY <1>5 DEF TypeOK
<1>8. SleepersAhead'
  BY <1>1, <1>3, <1>5, <1>7 DEF SleepersAhead, ListFor
<1>9. SleepBounded'
  <2>1. place'[t] = "overflow" => w < tick
    BY <1>7 DEF ListFor
  <2>2. w < tick => w - tick + MaxTick + 1 <= IdleTicks + 1
    BY <1>1, <1>2
  <2>3. \A u \in Tasks : place'[u] = "overflow" => wake'[u] < tick'
    BY <1>8 DEF SleepersAhead
  <2>4. ASSUME NEW u \in Tasks, place'[u] = "overflow" PROVE TicksLeft(u)' <= IdleTicks + 1
    <3>1. wake'[u] < tick' /\ wake'[u] \in 0 .. MaxTick /\ tick' = tick
      BY <1>5, <1>6, <2>3, <2>4 DEF TypeOK
    <3>2. TicksLeft(u)' = wake'[u] - tick + MaxTick + 1
      BY <1>1, <2>4, <3>1 DEF TicksLeft
    <3>3. CASE u = t
      BY <1>7, <2>1, <2>2, <2>4, <3>2, <3>3
    <3>4. CASE u # t
      <4>1. place[u] = "overflow" /\ wake[u] < tick /\ wake[u] = wake'[u] /\ wake[u] \in 0 .. MaxTick
        BY <1>7, <2>4, <3>1, <3>4 DEF TypeOK
      <4>2. TicksLeft(u) <= IdleTicks + 1
        BY <4>1 DEF SleepBounded
      <4> QED BY <1>1, <3>2, <4>1, <4>2 DEF TicksLeft
    <3> QED BY <3>3, <3>4
  <2> QED BY <2>4 DEF SleepBounded
<1>10. NextUnblockKnown'
  <2>1. nextUnblock \in 0 .. MaxTick /\ \A u \in Tasks : wake[u] \in 0 .. MaxTick
    BY DEF TypeOK
  <2>2. CASE place'[t] # "delayed"
    <3>1. On("delayed")' = On("delayed") /\ t \notin On("delayed")
      BY <1>5, <1>7, <2>2 DEF On
    <3> QED BY <1>5, <1>7, <2>2, <3>1 DEF NextUnblockKnown, IsHead, On
  <2>3. CASE place'[t] = "delayed"
    <3>1. On("delayed")' = On("delayed") \union {t} /\ t \notin On("delayed")
      BY <1>5, <1>7, <2>3 DEF On
    <3>2. \A u \in On("delayed") : wake'[u] = wake[u] /\ u \in Tasks
      BY <1>7, <3>1 DEF On
    <3>3. nextUnblock' = IF w < nextUnblock THEN w ELSE nextUnblock
      BY <1>5, <2>3
    <3>4. nextUnblock' \in {MaxTick} \union {wake'[u] : u \in On("delayed")'}
      BY <1>7, <3>1, <3>2, <3>3 DEF NextUnblockKnown, IsHead
    <3>5. \A u \in On("delayed")' : nextUnblock' <= wake'[u]
      BY <1>3, <1>7, <2>1, <3>1, <3>2, <3>3 DEF NextUnblockKnown, IsHead
    <3> QED BY <3>4, <3>5 DEF NextUnblockKnown, IsHead
  <2> QED BY <2>2, <2>3
<1> QED BY <1>6, <1>8, <1>9, <1>10

\* Blocking on a notification and being notified leave the sleepers alone.
LEMMA BlockKeeps ==
  ASSUME KernelInv, NEW t \in Tasks, BlockIndefinitely(t) \/ Unblock(t)
  PROVE  KernelInv'
<1> USE DEF KernelInv
<1>1. /\ UNCHANGED <<tick, wake, nextUnblock>>
      /\ \A u \in Tasks : \/ place'[u] = place[u]
                          \/ {place[u], place'[u]} \subseteq {"ready", "suspended"}
      /\ place' \in [Tasks -> Places]
  BY DEF BlockIndefinitely, Unblock, Unblocked, TypeOK, Places
<1>2. TypeOK'
  BY <1>1 DEF TypeOK
<1>3. On("delayed")' = On("delayed")
  BY <1>1 DEF On
<1>4. SleepersAhead' /\ SleepBounded'
  BY <1>1 DEF SleepersAhead, SleepBounded, TicksLeft
<1>5. NextUnblockKnown'
  BY <1>1, <1>3 DEF NextUnblockKnown, IsHead
<1> QED BY <1>2, <1>4, <1>5

-----------------------------------------------------------------------------
(* The tick *)

\* What a tick does to the lists, when the count goes on and when it wraps.
LEMMA TickFacts ==
  ASSUME KernelInv
  PROVE  /\ tick # MaxTick => NextTick = tick + 1 /\ Current = On("delayed") /\ Switched = place
         /\ tick = MaxTick => /\ NextTick = 0 /\ On("delayed") = {} /\ Current = On("overflow")
                              /\ \A t \in Tasks : Switched[t] \notin {"overflow"}
         /\ Switched \in [Tasks -> Places]
         /\ \A t \in Tasks \ Current : Switched[t] \in {place[t], "overflow"}
<1> USE DEF KernelInv
<1>1. tick # MaxTick => NextTick = tick + 1 /\ NextTick # 0
  BY NextTickWraps DEF TypeOK
<1>2. tick = MaxTick => NextTick = 0 /\ On("delayed") = {}
  BY NextTickWraps DEF TypeOK, SleepersAhead, On
<1>3. tick # MaxTick => Switched = place /\ Current = On("delayed")
  BY <1>1 DEF Switched, Current, On, TypeOK
<1>4. tick = MaxTick => /\ Current = On("overflow")
                        /\ \A t \in Tasks : Switched[t] \notin {"overflow"}
  BY <1>2 DEF Switched, Current, On, TypeOK, Places
<1>5. Switched \in [Tasks -> Places]
  BY DEF Switched, TypeOK, Places
<1>6. \A t \in Tasks \ Current : Switched[t] \in {place[t], "overflow"}
  BY DEF Switched, Current
<1> QED BY <1>1, <1>2, <1>3, <1>4, <1>5, <1>6

\* A tick brings every sleeper one tick nearer, and wakes those that have none left.
LEMMA TickCounts ==
  ASSUME KernelInv, IncrementTick
  PROVE  /\ KernelInv'
         /\ \A t \in Tasks : TicksLeft(t)' = IF TicksLeft(t) > 0 THEN TicksLeft(t) - 1 ELSE 0
<1> USE DEF KernelInv
<1>1. PICK n \in 0 .. MaxTick :
        /\ IF NextTick = 0 THEN IsHead(n, Current) ELSE n = nextUnblock
        /\ tick' = NextTick
        /\ place' = [t \in Tasks |-> IF t \in Expired(n) THEN "ready" ELSE Switched[t]]
        /\ wake' = [t \in Tasks |-> IF t \in Expired(n) THEN 0 ELSE wake[t]]
        /\ nextUnblock' \in 0 .. MaxTick
        /\ IF NextTick >= n THEN IsHead(nextUnblock', Current \ Expired(n)) ELSE nextUnblock' = n
  BY DEF IncrementTick
<1>2. /\ tick \in 0 .. MaxTick /\ wake \in [Tasks -> 0 .. MaxTick]
      /\ NextTick \in 0 .. MaxTick /\ Current \subseteq Tasks
  BY TickFacts, MaxTick \in Nat DEF TypeOK, Current
<1>3. IsHead(n, Current)
  BY <1>1, TickFacts DEF NextUnblockKnown
<1>4. \A t \in Current : t \in Expired(n) <=> wake[t] <= NextTick
  BY <1>2, <1>3 DEF Expired, IsHead
<1>5. Expired(n) \subseteq Current
  BY DEF Expired
<1>6. \A t \in Tasks : /\ t \in Expired(n) => place'[t] = "ready" /\ wake'[t] = 0
                       /\ t \notin Expired(n) => place'[t] = Switched[t] /\ wake'[t] = wake[t]
  BY <1>1
<1>7. TypeOK'
  BY <1>1, <1>2, TickFacts DEF TypeOK, Places
<1>8. \A t \in Current : wake[t] >= NextTick
  <2>1. CASE tick # MaxTick
    <3>1. NextTick = tick + 1 /\ Current = On("delayed")
      BY <2>1, TickFacts
    <3>2. \A t \in Current : t \in Tasks /\ wake[t] > tick
      BY <3>1 DEF SleepersAhead, On
    <3> QED BY <1>2, <3>1, <3>2
  <2>2. CASE tick = MaxTick
    <3>1. NextTick = 0
      BY <2>2, TickFacts
    <3> QED BY <1>2, <3>1
  <2> QED BY <2>1, <2>2
<1>9. On("delayed")' = Current \ Expired(n)
  BY <1>6 DEF On, Current
<1>10. NextUnblockKnown'
  <2>1. IsHead(nextUnblock', Current \ Expired(n))
    BY <1>1, <1>3 DEF Expired
  <2>2. \A t \in Current \ Expired(n) : wake'[t] = wake[t]
    BY <1>2, <1>6
  <2> QED BY <1>9, <2>1, <2>2 DEF NextUnblockKnown, IsHead
<1>11. ASSUME NEW t \in Tasks
       PROVE  /\ place'[t] = "delayed" => wake'[t] > tick'
              /\ place'[t] = "overflow" => wake'[t] < tick' /\ place[t] = "overflow"
              /\ TicksLeft(t)' = IF TicksLeft(t) > 0 THEN TicksLeft(t) - 1 ELSE 0
  <2>1. wake[t] \in 0 .. MaxTick /\ tick \in 0 .. MaxTick /\ tick' = NextTick
    BY <1>1, <1>2
  <2>2. CASE tick # MaxTick
    <3>1. /\ NextTick = tick + 1 /\ Switched = place
          /\ t \in Current <=> place[t] = "delayed"
      BY <2>2, TickFacts DEF On
    <3>2. place[t] = "delayed" => wake[t] > tick
      BY DEF SleepersAhead
    <3>3. place[t] = "overflow" => wake[t] < tick
      BY DEF SleepersAhead
    <3>4. CASE place[t] = "delayed"
      BY <1>4, <1>6, <2>1, <3>1, <3>2, <3>4 DEF TicksLeft
    <3>5. CASE place[t] # "delayed"
      BY <1>5, <1>6, <2>1, <3>1, <3>3, <3>5 DEF TicksLeft
    <3> QED BY <3>4, <3>5
  <2>3. CASE tick = MaxTick
    <3>1. /\ NextTick = 0 /\ Switched[t] # "overflow" /\ place[t] # "delayed"
          /\ t \in Current <=> place[t] = "overflow"
          /\ t \in Current <=> Switched[t] = "delayed"
      BY <2>3, TickFacts DEF On, Current
    <3>2. CASE place[t] = "overflow"
      BY <1>4, <1>6, <2>1, <2>3, <3>1, <3>2 DEF TicksLeft
    <3>3. CASE place[t] # "overflow"
      BY <1>5, <1>6, <2>1, <3>1, <3>3 DEF TicksLeft
    <3> QED BY <3>2, <3>3
  <2> QED BY <2>2, <2>3
<1>12. SleepersAhead'
  BY <1>11 DEF SleepersAhead
<1>13. SleepBounded'
  <2>1. ASSUME NEW t \in Tasks, place'[t] = "overflow"
        PROVE  TicksLeft(t)' <= IdleTicks + 1
    <3>1. TicksLeft(t) <= IdleTicks + 1
      BY <1>11, <2>1 DEF SleepBounded
    <3>2. TicksLeft(t) \in Int
      BY <1>2 DEF TicksLeft
    <3> QED BY <1>11, <3>1, <3>2
  <2> QED BY <2>1 DEF SleepBounded
<1> QED BY <1>7, <1>10, <1>11, <1>12, <1>13

-----------------------------------------------------------------------------
(* The theorems *)

LEMMA KernelStep == KernelInv /\ [Next]_kernelVars => KernelInv'
<1> SUFFICES ASSUME KernelInv, [Next]_kernelVars PROVE KernelInv'
  OBVIOUS
<1>1. CASE IncrementTick
  BY <1>1, TickCounts
<1>2. ASSUME NEW t \in Tasks, BlockIndefinitely(t) \/ Unblock(t) PROVE KernelInv'
  BY <1>2, BlockKeeps
<1>3. ASSUME NEW t \in Tasks, NEW d \in Delays, TaskDelay(t, d) PROVE KernelInv'
  BY <1>3, DelayKeeps
<1>4. CASE UNCHANGED kernelVars
  BY <1>4 DEF kernelVars, KernelInv, TypeOK, SleepersAhead, SleepBounded, TicksLeft,
              NextUnblockKnown, IsHead, On
<1> QED BY <1>1, <1>2, <1>3, <1>4 DEF Next

LEMMA KernelInvariant == Spec => []KernelInv
  BY KernelInit, KernelStep, PTL DEF Spec

\* The tick count and the wake times stay within TickType_t.
THEOREM KernelTypes == Spec => []TypeOK
<1>1. KernelInv => TypeOK
  BY DEF KernelInv
<1> QED BY <1>1, KernelInvariant, PTL

\* The two questions of the idle hook never allow the stop while a task is
\* ready or asleep, on either list, whatever the tick count: the threshold is
\* at least as long as the longest delay, less one tick.
THEOREM IdleQuestionsAreSafe == Spec => []StopSparesSleepers
<1>1. ASSUME KernelInv PROVE StopSparesSleepers
  <2> SUFFICES ASSUME ExpectsIdle, IsDelayedTaskListEmpty PROVE On("suspended") = Tasks
    BY DEF StopSparesSleepers
  <2> USE <1>1 DEF KernelInv
  <2>1. On("delayed") = {}
    BY DEF IsDelayedTaskListEmpty
  <2>2. nextUnblock = MaxTick
    BY <2>1 DEF NextUnblockKnown, IsHead
  <2>3. On("ready") = {} /\ (MaxTick - tick) % (MaxTick + 1) > IdleTicks
    BY <2>2 DEF ExpectsIdle, LongEnough, GetExpectedIdleTime, TimeFrom
  <2>4. MaxTick - tick \in 0 .. MaxTick
    BY DEF TypeOK
  <2>5. (MaxTick - tick) % (MaxTick + 1) = MaxTick - tick
    BY <2>4
  <2>6. MaxTick - tick > IdleTicks
    BY <2>3, <2>5
  <2>7. ASSUME NEW t \in Tasks PROVE place[t] # "overflow"
    <3> SUFFICES ASSUME place[t] = "overflow" PROVE FALSE
      OBVIOUS
    <3>1. wake[t] < tick /\ wake[t] \in 0 .. MaxTick
      BY DEF SleepersAhead, TypeOK
    <3>2. TicksLeft(t) = wake[t] - tick + MaxTick + 1
      BY <2>4, <3>1 DEF TicksLeft, TypeOK
    <3>3. TicksLeft(t) <= IdleTicks + 1
      BY DEF SleepBounded
    <3> QED BY <2>4, <2>6, <3>1, <3>2, <3>3 DEF TypeOK
  <2> QED BY <2>1, <2>3, <2>7 DEF On, TypeOK, Places
<1> QED BY <1>1, KernelInvariant, PTL

\* The assertion of taskSWITCH_DELAYED_LISTS cannot fail.
THEOREM ListsSwitchEmpty == Spec => []SwitchAssertion
<1>1. KernelInv => SwitchAssertion
  BY DEF KernelInv, SwitchAssertion, SleepersAhead, On, TypeOK
<1> QED BY <1>1, KernelInvariant, PTL

\* Every delay lasts exactly as many ticks as was asked for, across the wrap of
\* the tick count and the exchange of the lists.
THEOREM DelaysAreExact == Spec => SleepsExactly
<1> DEFINE left == [t \in Tasks |-> TicksLeft(t)]
<1>1. Init => Promise!Init
  BY DEF Init, Promise!Init, TicksLeft
<1>2. ASSUME KernelInv, [Next]_kernelVars PROVE [Promise!Next]_left
  <2> USE <1>2 DEF KernelInv
  <2>1. CASE IncrementTick
    <3>1. \A t \in Tasks : TicksLeft(t)' = IF TicksLeft(t) > 0 THEN TicksLeft(t) - 1 ELSE 0
      BY <2>1, TickCounts
    <3>2. Promise!TickPasses
      BY <3>1 DEF Promise!TickPasses
    <3> QED BY <3>2 DEF Promise!Next
  <2>2. ASSUME NEW t \in Tasks, BlockIndefinitely(t) \/ Unblock(t) PROVE left' = left
    <3>1. UNCHANGED <<tick, wake>>
      BY <2>2 DEF BlockIndefinitely, Unblock
    <3>2. \A u \in Tasks : \/ place'[u] = place[u]
                           \/ {place[u], place'[u]} \subseteq {"ready", "suspended"}
      BY <2>2 DEF BlockIndefinitely, Unblock, Unblocked, TypeOK, Places
    <3>3. \A u \in Tasks : TicksLeft(u)' = TicksLeft(u)
      BY <3>1, <3>2 DEF TicksLeft
    <3> QED BY <3>3
  <2>3. ASSUME NEW t \in Tasks, NEW d \in Delays, TaskDelay(t, d) PROVE Promise!Sleep(t, d)
    <3>1. d \in 1 .. MaxTick /\ tick \in 0 .. MaxTick
      BY WakeTimeWraps DEF TypeOK
    <3>2. WakeTime(d) = IF tick + d <= MaxTick THEN tick + d ELSE tick + d - MaxTick - 1
      BY WakeTimeWraps
    <3>3. /\ place[t] = "ready" /\ place'[t] = ListFor(WakeTime(d)) /\ wake'[t] = WakeTime(d)
          /\ tick' = tick
          /\ \A u \in Tasks \ {t} : place'[u] = place[u] /\ wake'[u] = wake[u]
      BY <2>3 DEF TaskDelay, TypeOK
    <3>4. TicksLeft(t) = 0 /\ TicksLeft(t)' = d
      BY <3>1, <3>2, <3>3 DEF TicksLeft, ListFor
    <3>5. \A u \in Tasks \ {t} : TicksLeft(u)' = TicksLeft(u)
      BY <3>3 DEF TicksLeft
    <3> QED BY <3>4, <3>5 DEF Promise!Sleep
  <2>4. CASE UNCHANGED kernelVars
    BY <2>4 DEF kernelVars, TicksLeft
  <2> QED BY <2>1, <2>2, <2>3, <2>4 DEF Next, Promise!Next
<1> QED BY <1>1, <1>2, KernelInvariant, PTL DEF Spec, SleepsExactly, Promise!Spec
=============================================================================
