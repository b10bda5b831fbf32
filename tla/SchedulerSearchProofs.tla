----------------------- MODULE SchedulerSearchProofs -----------------------
(***************************************************************************)
(* The loops of scheduler.c do in every table, with jobs of any number and *)
(* any remaining times, what the single steps of RtcScheduler do.          *)
(*                                                                         *)
(* A loop is a recursive function of its index, which is by definition a   *)
(* function that equals its own body.  That there is one, and that it is   *)
(* what the step says, needs induction over the index; LoopInduction gets  *)
(* it from the cardinality of finite sets, for a set in place of a formula.*)
(***************************************************************************)
EXTENDS SchedulerSearch, RtcSchedulerProofs, FiniteSetTheorems

USE MaxJobsAssumption

-----------------------------------------------------------------------------
(* Induction over the index of a loop *)

\* If the set stopped short of m, adding one would map the numbers up to where
\* it stops into themselves without 0, which is one less.
LEMMA LoopInduction ==
  ASSUME NEW n \in Nat, NEW S, 0 \in S, \A i \in 0 .. (n - 1) : i \in S => i + 1 \in S
  PROVE  \A i \in 0 .. n : i \in S
<1> SUFFICES ASSUME NEW m \in 0 .. n, m \notin S PROVE FALSE
  OBVIOUS
<1> DEFINE A == {i \in 0 .. m : \A k \in 0 .. i : k \in S}
           f == [i \in A |-> i + 1]
<1>1. IsFiniteSet(A)
  <2>1. IsFiniteSet(0 .. m)
    BY FS_Interval
  <2>2. A \in SUBSET (0 .. m)
    OBVIOUS
  <2> HIDE DEF A
  <2> QED BY <2>1, <2>2, FS_Subset
<1>2. 0 \in A
  OBVIOUS
<1>3. f \in Injection(A, A \ {0})
  <2>1. \A i \in A : i + 1 \in A \ {0}
    <3> SUFFICES ASSUME NEW i \in A PROVE i + 1 \in A
      OBVIOUS
    <3>1. i \in S /\ i # m
      OBVIOUS
    <3>2. i + 1 \in S /\ i + 1 \in 0 .. m
      BY <3>1
    <3> QED BY <3>2
  <2> QED BY <2>1 DEF Injection, IsInjective
<1>4. IsFiniteSet(A \ {0}) /\ Cardinality(A \ {0}) = Cardinality(A) - 1
  BY <1>1, <1>2, FS_RemoveElement
<1>5. Cardinality(A) <= Cardinality(A \ {0}) /\ Cardinality(A) \in Nat
  BY <1>1, <1>3, <1>4, FS_Injection, FS_CardinalityType
<1> QED BY <1>4, <1>5

-----------------------------------------------------------------------------
(* The search for the next job *)

\* The body of the loop: what next[i] is, next being known below i.
SearchBody(next, i) ==
  IF i = 0 THEN 0
  ELSE IF remainingTime[i - 1] < remainingTime[next[i - 1]] THEN i - 1 ELSE next[i - 1]

SearchLoop == CHOOSE next : next = [i \in 0 .. MaxJobs |-> SearchBody(next, i)]

LEMMA LoopIsSearchLoop == NextJobLoop = SearchLoop[numOfJobs]
  BY DEF NextJobLoop, SearchLoop, SearchBody

\* The loop runs: a function that equals its body up to n can be carried on to n + 1.
LEMMA SearchLoopRuns == SearchLoop = [i \in 0 .. MaxJobs |-> SearchBody(SearchLoop, i)]
<1> DEFINE S == {n \in 0 .. MaxJobs : \E g : /\ DOMAIN g = 0 .. MaxJobs /\ g = [i \in 0 .. MaxJobs |-> g[i]]
                                             /\ \A i \in 0 .. n : g[i] = SearchBody(g, i)}
<1>1. 0 \in S
  <2> DEFINE g == [i \in 0 .. MaxJobs |-> 0]
  <2>1. g = [i \in 0 .. MaxJobs |-> g[i]] /\ \A i \in 0 .. 0 : g[i] = SearchBody(g, i)
    BY DEF SearchBody
  <2> QED BY <2>1
<1>2. ASSUME NEW n \in 0 .. (MaxJobs - 1), n \in S PROVE n + 1 \in S
  <2>1. PICK g : /\ DOMAIN g = 0 .. MaxJobs /\ g = [i \in 0 .. MaxJobs |-> g[i]]
                 /\ \A i \in 0 .. n : g[i] = SearchBody(g, i)
    BY <1>2
  <2> DEFINE h == [i \in 0 .. MaxJobs |-> IF i = n + 1 THEN SearchBody(g, i) ELSE g[i]]
  <2>2. \A i \in 0 .. (n + 1) : SearchBody(h, i) = SearchBody(g, i)
    BY DEF SearchBody
  <2>3. ASSUME NEW i \in 0 .. (n + 1) PROVE h[i] = SearchBody(g, i)
    <3>1. i \in 0 .. MaxJobs /\ (i \in 0 .. n \/ i = n + 1)
      OBVIOUS
    <3>2. h[i] = IF i = n + 1 THEN SearchBody(g, i) ELSE g[i]
      BY <3>1, Zenon
    <3> QED BY <2>1, <3>1, <3>2, Zenon
  <2>4. h = [i \in 0 .. MaxJobs |-> h[i]] /\ DOMAIN h = 0 .. MaxJobs
    OBVIOUS
  <2> HIDE DEF h
  <2>5. \A i \in 0 .. (n + 1) : h[i] = SearchBody(h, i)
    BY <2>2, <2>3, Zenon
  <2>6. n + 1 \in 0 .. MaxJobs
    OBVIOUS
  <2> QED BY <2>4, <2>5, <2>6, Zenon
<1>3. MaxJobs \in S
  <2> HIDE DEF S
  <2> QED BY <1>1, <1>2, LoopInduction
<1>4. PICK g : g = [i \in 0 .. MaxJobs |-> SearchBody(g, i)]
  BY <1>3
<1> QED BY <1>4, Zenon DEF SearchLoop

\* next[n] is the first of the jobs below n with least time left.
FirstOfLeast(j, n) ==
  /\ j \in 0 .. (n - 1)
  /\ \A k \in 0 .. (n - 1) : remainingTime[j] < remainingTime[k] \/ (remainingTime[j] = remainingTime[k] /\ j <= k)

LEMMA SearchLoopFinds ==
  ASSUME remainingTime \in [Indices -> Int], NEW n \in 1 .. MaxJobs
  PROVE  FirstOfLeast(SearchLoop[n], n)
<1> DEFINE S == {m \in 0 .. MaxJobs : m = 0 \/ FirstOfLeast(SearchLoop[m], m)}
<1>1. \A m \in 0 .. MaxJobs : SearchLoop[m] = SearchBody(SearchLoop, m)
  BY SearchLoopRuns
<1>2. 0 \in S
  OBVIOUS
<1>3. ASSUME NEW m \in 0 .. (MaxJobs - 1), m \in S PROVE m + 1 \in S
  <2>1. SearchLoop[m + 1] = IF remainingTime[m] < remainingTime[SearchLoop[m]] THEN m ELSE SearchLoop[m]
    BY <1>1 DEF SearchBody
  <2>2. CASE m = 0
    <3>1. SearchLoop[0] = 0
      BY <1>1 DEF SearchBody
    <3>2. SearchLoop[m + 1] = 0
      BY <2>1, <2>2, <3>1
    <3>3. FirstOfLeast(0, 1)
      BY DEF FirstOfLeast, Indices
    <3> QED BY <2>2, <3>2, <3>3
  <2>3. CASE m > 0
    <3> DEFINE j == SearchLoop[m]
    <3>1. FirstOfLeast(j, m)
      BY <1>3, <2>3
    <3> HIDE DEF j
    <3>2. /\ j \in 0 .. (m - 1) /\ j \in Indices /\ m \in Indices
          /\ \A k \in 0 .. (m - 1) : /\ remainingTime[k] \in Int
                                     /\ \/ remainingTime[j] < remainingTime[k]
                                        \/ remainingTime[j] = remainingTime[k] /\ j <= k
      BY <3>1 DEF FirstOfLeast, Indices
    <3>3. remainingTime[j] \in Int /\ remainingTime[m] \in Int
      BY <3>2
    <3>4. CASE remainingTime[m] < remainingTime[j]
      <4>1. FirstOfLeast(m, m + 1)
        BY <3>2, <3>3, <3>4 DEF FirstOfLeast
      <4> QED BY <2>1, <3>4, <4>1 DEF j
    <3>5. CASE ~(remainingTime[m] < remainingTime[j])
      <4>1. FirstOfLeast(j, m + 1)
        BY <3>2, <3>3, <3>5 DEF FirstOfLeast
      <4> QED BY <2>1, <3>5, <4>1 DEF j
    <3> QED BY <3>4, <3>5
  <2> QED BY <2>2, <2>3
<1>4. n \in S
  <2> HIDE DEF S
  <2>1. MaxJobs \in Nat /\ n \in 0 .. MaxJobs
    OBVIOUS
  <2> QED BY <1>2, <1>3, <2>1, LoopInduction
<1> QED BY <1>4

\* The set of jobs that the step of the model may choose has one member, and the
\* loop ends with it.
LEMMA LoopFinds ==
  ASSUME remainingTime \in [Indices -> Int], numOfJobs \in 0 .. MaxJobs
  PROVE  LoopFindsNextJob
<1> DEFINE j == NextJobLoop
<1>1. CASE numOfJobs = 0
  <2>1. Configured = {}
    BY <1>1 DEF Configured, Indices
  <2>2. j = 0
    BY <1>1, LoopIsSearchLoop, SearchLoopRuns DEF SearchBody
  <2> QED BY <2>1, <2>2, Zenon DEF LoopFindsNextJob, IsNextJob
<1>2. CASE numOfJobs \in 1 .. MaxJobs
  <2>1. FirstOfLeast(j, numOfJobs)
    BY <1>2, LoopIsSearchLoop, SearchLoopFinds
  <2>2. Configured = 0 .. (numOfJobs - 1)
    BY <1>2 DEF Configured, Indices
  <2> HIDE DEF j
  <2>3. \A i \in Configured : i \in Int /\ remainingTime[i] \in Int
    BY DEF Configured, Indices
  <2>4. j \in Configured /\ IsNextJob(j)
    BY <2>1, <2>2 DEF FirstOfLeast, IsNextJob
  <2>5. ASSUME NEW i \in Configured \union {0}, IsNextJob(i) PROVE i = j
    <3>1. i \in Configured
      BY <1>2, <2>2
    <3>2. \/ remainingTime[i] < remainingTime[j]
          \/ remainingTime[i] = remainingTime[j] /\ i <= j
      BY <2>4, <2>5 DEF IsNextJob
    <3>3. \/ remainingTime[j] < remainingTime[i]
          \/ remainingTime[j] = remainingTime[i] /\ j <= i
      BY <2>4, <3>1 DEF IsNextJob
    <3> QED BY <2>3, <2>4, <3>1, <3>2, <3>3
  <2>6. {i \in Configured \union {0} : IsNextJob(i)} = {j}
    BY <2>4, <2>5, Zenon
  <2> QED BY <2>6 DEF LoopFindsNextJob, j
<1> QED BY <1>1, <1>2

-----------------------------------------------------------------------------
(* The aging of the jobs *)

\* The body of the loop: what rows[i] is, rows being known below i.
AgingBody(rows, i, t) ==
  IF i = 0 THEN [remaining |-> remainingTime, pending |-> isPending]
  ELSE AgeBody(rows[i - 1], i - 1, t)

AgingLoop(t) == CHOOSE rows : rows = [i \in 0 .. MaxJobs |-> AgingBody(rows, i, t)]

LEMMA LoopIsAgingLoop ==
  ASSUME NEW t
  PROVE  AgeLoop(t) = AgingLoop(t)[numOfJobs]
  BY DEF AgeLoop, AgingLoop, AgingBody

\* The loop runs, as the other does.
LEMMA AgingLoopRuns ==
  ASSUME NEW t
  PROVE  AgingLoop(t) = [i \in 0 .. MaxJobs |-> AgingBody(AgingLoop(t), i, t)]
<1> DEFINE S == {n \in 0 .. MaxJobs : \E g : /\ DOMAIN g = 0 .. MaxJobs /\ g = [i \in 0 .. MaxJobs |-> g[i]]
                                             /\ \A i \in 0 .. n : g[i] = AgingBody(g, i, t)}
<1>1. 0 \in S
  <2> DEFINE g == [i \in 0 .. MaxJobs |-> [remaining |-> remainingTime, pending |-> isPending]]
  <2>1. g = [i \in 0 .. MaxJobs |-> g[i]] /\ \A i \in 0 .. 0 : g[i] = AgingBody(g, i, t)
    BY DEF AgingBody
  <2> QED BY <2>1
<1>2. ASSUME NEW n \in 0 .. (MaxJobs - 1), n \in S PROVE n + 1 \in S
  <2>1. PICK g : /\ DOMAIN g = 0 .. MaxJobs /\ g = [i \in 0 .. MaxJobs |-> g[i]]
                 /\ \A i \in 0 .. n : g[i] = AgingBody(g, i, t)
    BY <1>2
  <2> DEFINE h == [i \in 0 .. MaxJobs |-> IF i = n + 1 THEN AgingBody(g, i, t) ELSE g[i]]
  <2>2. ASSUME NEW i \in 0 .. (n + 1) PROVE AgingBody(h, i, t) = AgingBody(g, i, t)
    <3>1. CASE i = 0
      BY <3>1 DEF AgingBody
    <3>2. CASE i > 0
      <4>1. h[i - 1] = g[i - 1]
        BY <3>2
      <4> HIDE DEF h
      <4> QED BY <4>1, Zenon DEF AgingBody
    <3> QED BY <3>1, <3>2
  <2>3. ASSUME NEW i \in 0 .. (n + 1) PROVE h[i] = AgingBody(g, i, t)
    <3>1. i \in 0 .. MaxJobs /\ (i \in 0 .. n \/ i = n + 1)
      OBVIOUS
    <3>2. h[i] = IF i = n + 1 THEN AgingBody(g, i, t) ELSE g[i]
      BY <3>1, Zenon
    <3> QED BY <2>1, <3>1, <3>2, Zenon
  <2>4. h = [i \in 0 .. MaxJobs |-> h[i]] /\ DOMAIN h = 0 .. MaxJobs
    OBVIOUS
  <2> HIDE DEF h
  <2>5. \A i \in 0 .. (n + 1) : h[i] = AgingBody(h, i, t)
    BY <2>2, <2>3, Zenon
  <2>6. n + 1 \in 0 .. MaxJobs
    OBVIOUS
  <2> QED BY <2>4, <2>5, <2>6, Zenon
<1>3. MaxJobs \in S
  <2> HIDE DEF S
  <2> QED BY <1>1, <1>2, LoopInduction
<1>4. PICK g : g = [i \in 0 .. MaxJobs |-> AgingBody(g, i, t)]
  BY <1>3
<1> QED BY <1>4, Zenon DEF AgingLoop

\* The table when the jobs below n have been aged by t.
AgedRow(n, t) ==
  [remaining |-> [i \in Indices |-> IF i >= n THEN remainingTime[i]
                                    ELSE IF t >= remainingTime[i] THEN period[i]
                                    ELSE remainingTime[i] - t],
   pending   |-> [i \in Indices |-> (i < n /\ t >= remainingTime[i]) \/ isPending[i]]]

LEMMA AgingLoopAges ==
  ASSUME remainingTime \in [Indices -> Int], isPending \in [Indices -> BOOLEAN],
         NEW t \in Int, NEW n \in 0 .. MaxJobs
  PROVE  AgingLoop(t)[n] = AgedRow(n, t)
<1> DEFINE S == {m \in 0 .. MaxJobs : AgingLoop(t)[m] = AgedRow(m, t)}
<1>1. \A m \in 0 .. MaxJobs : AgingLoop(t)[m] = AgingBody(AgingLoop(t), m, t)
  BY AgingLoopRuns, Zenon
<1>2. 0 \in S
  <2>1. AgingLoop(t)[0] = [remaining |-> remainingTime, pending |-> isPending]
    BY <1>1 DEF AgingBody
  <2>2. AgedRow(0, t).remaining = remainingTime
    BY DEF AgedRow, Indices
  <2>3. AgedRow(0, t).pending = isPending
    BY DEF AgedRow, Indices
  <2>4. AgedRow(0, t) = [remaining |-> remainingTime, pending |-> isPending]
    BY <2>2, <2>3 DEF AgedRow
  <2> QED BY <2>1, <2>4
<1>3. ASSUME NEW m \in 0 .. (MaxJobs - 1), m \in S PROVE m + 1 \in S
  <2>1. AgingLoop(t)[m + 1] = AgeBody(AgingLoop(t)[m], m, t)
    BY <1>1 DEF AgingBody
  <2>2. AgingLoop(t)[m + 1] = AgeBody(AgedRow(m, t), m, t)
    BY <1>3, <2>1
  <2>3. AgeBody(AgedRow(m, t), m, t) = AgedRow(m + 1, t)
    <3> DEFINE row == AgedRow(m, t)
               next == AgedRow(m + 1, t)
    <3>1. /\ m \in Indices
          /\ row.remaining[m] = remainingTime[m]
          /\ row = [remaining |-> row.remaining, pending |-> row.pending]
          /\ next = [remaining |-> next.remaining, pending |-> next.pending]
      BY DEF AgedRow, Indices
    <3>2. /\ row.remaining = [i \in Indices |-> row.remaining[i]]
          /\ row.pending = [i \in Indices |-> row.pending[i]]
          /\ next.remaining = [i \in Indices |-> next.remaining[i]]
          /\ next.pending = [i \in Indices |-> next.pending[i]]
      BY DEF AgedRow
    <3>3. ASSUME NEW i \in Indices
          PROVE  /\ i # m => /\ next.remaining[i] = row.remaining[i]
                             /\ next.pending[i] = row.pending[i]
                 /\ next.remaining[m] = IF t >= remainingTime[m] THEN period[m] ELSE remainingTime[m] - t
                 /\ t >= remainingTime[m] => next.pending[m] = TRUE
                 /\ ~(t >= remainingTime[m]) => next.pending[m] = row.pending[m]
      <4>1. /\ i # m => next.remaining[i] = row.remaining[i]
            /\ next.remaining[m] = IF t >= remainingTime[m] THEN period[m] ELSE remainingTime[m] - t
        BY <3>1 DEF AgedRow, Indices
      <4>2. /\ i # m => (i < m + 1 <=> i < m)
            /\ m < m + 1 /\ ~(m < m)
        BY DEF Indices
      <4>3. \A k \in Indices : /\ next.pending[k] = ((k < m + 1 /\ t >= remainingTime[k]) \/ isPending[k])
                              /\ row.pending[k] = ((k < m /\ t >= remainingTime[k]) \/ isPending[k])
        BY Zenon DEF AgedRow
      <4>4. isPending[m] \in BOOLEAN
        BY <3>1
      <4> HIDE DEF row, next
      <4>5. i # m => next.pending[i] = row.pending[i]
        BY <4>2, <4>3, Zenon
      <4>6. t >= remainingTime[m] => next.pending[m] = TRUE
        BY <3>1, <4>2, <4>3, Zenon
      <4>7. ~(t >= remainingTime[m]) => next.pending[m] = row.pending[m]
        BY <3>1, <4>2, <4>3, Zenon
      <4> QED BY <4>1, <4>5, <4>6, <4>7
    <3> HIDE DEF row, next
    <3>4. CASE t >= remainingTime[m]
      <4>1. next.remaining = [row.remaining EXCEPT ![m] = period[m]]
        BY <3>1, <3>2, <3>3, <3>4
      <4>2. next.pending = [row.pending EXCEPT ![m] = TRUE]
        BY <3>1, <3>2, <3>3, <3>4
      <4>3. AgeBody(row, m, t) = next
        BY <3>1, <3>4, <4>1, <4>2 DEF AgeBody
      <4> QED BY <4>3 DEF row, next
    <3>5. CASE ~(t >= remainingTime[m])
      <4>1. next.remaining = [row.remaining EXCEPT ![m] = remainingTime[m] - t]
        BY <3>1, <3>2, <3>3, <3>5
      <4>2. next.pending = row.pending
        BY <3>1, <3>2, <3>3, <3>5
      <4>3. AgeBody(row, m, t) = [row EXCEPT !.remaining[m] = @ - t]
        BY <3>1, <3>5 DEF AgeBody
      <4>4. [row EXCEPT !.remaining[m] = @ - t]
              = [remaining |-> [row.remaining EXCEPT ![m] = remainingTime[m] - t], pending |-> row.pending]
        BY <3>1
      <4>5. AgeBody(row, m, t) = next
        BY <3>1, <4>1, <4>2, <4>3, <4>4, Zenon
      <4> QED BY <4>5 DEF row, next
    <3> QED BY <3>4, <3>5
  <2> QED BY <2>2, <2>3
<1>4. n \in S
  <2> HIDE DEF S
  <2>1. MaxJobs \in Nat /\ n \in 0 .. MaxJobs
    OBVIOUS
  <2> QED BY <1>2, <1>3, <2>1, LoopInduction
<1> QED BY <1>4
\* Scheduler_ProcessRemainingTime leaves the table the loop leaves.
LEMMA AgingIsLoop ==
  ASSUME remainingTime \in [Indices -> Int], isPending \in [Indices -> BOOLEAN], numOfJobs \in 0 .. MaxJobs,
         NEW c \in Contexts, elapsed[c] \in Int, ProcessRemainingTime(c)
  PROVE  remainingTime' = AgeLoop(elapsed[c]).remaining /\ isPending' = AgeLoop(elapsed[c]).pending
<1> DEFINE t == elapsed[c]
<1>1. AgeLoop(t) = AgedRow(numOfJobs, t)
  BY LoopIsAgingLoop, AgingLoopAges
<1>2. \A i \in Indices : /\ i \in Due(c) <=> i < numOfJobs /\ t >= remainingTime[i]
                         /\ i \in Configured <=> ~(i >= numOfJobs)
  BY DEF Due, Configured, Indices
<1>3. AgedRow(numOfJobs, t).remaining =
        [i \in Indices |-> IF i \in Due(c) THEN period[i]
                           ELSE IF i \in Configured THEN remainingTime[i] - t ELSE remainingTime[i]]
  <2>1. \A i \in Indices : (IF i >= numOfJobs THEN remainingTime[i]
                            ELSE IF t >= remainingTime[i] THEN period[i] ELSE remainingTime[i] - t)
                         = (IF i \in Due(c) THEN period[i]
                            ELSE IF i \in Configured THEN remainingTime[i] - t ELSE remainingTime[i])
    <3> TAKE i \in Indices
    <3>1. /\ i \in Due(c) <=> i < numOfJobs /\ t >= remainingTime[i]
          /\ i \in Configured <=> ~(i >= numOfJobs)
          /\ i < numOfJobs <=> ~(i >= numOfJobs)
      BY <1>2 DEF Indices
    <3> HIDE DEF t
    <3> QED BY <3>1, Zenon
  <2> QED BY <2>1 DEF AgedRow
<1>4. AgedRow(numOfJobs, t).pending = [i \in Indices |-> i \in Due(c) \/ isPending[i]]
  BY <1>2, Zenon DEF AgedRow
<1> QED BY <1>1, <1>3, <1>4 DEF ProcessRemainingTime

-----------------------------------------------------------------------------
(* In every state and every step of the scheduler *)

LEMMA TableTypes ==
  TypeOK => /\ remainingTime \in [Indices -> Int] /\ isPending \in [Indices -> BOOLEAN]
            /\ numOfJobs \in 0 .. MaxJobs /\ \A c \in Contexts : elapsed[c] \in Int
  BY DEF TypeOK

\* The search of Scheduler_GetIndexOfNextJob, with its strict comparison and its
\* start at jobs[0], ends in every state of the scheduler at the one job that the
\* search step of the model takes: the first of those with least time left.
THEOREM SearchTakesNextJob == Spec => []LoopFindsNextJob
<1>1. TypeOK => LoopFindsNextJob
  BY LoopFinds, TableTypes
<1> QED BY <1>1, TypeCorrect, PTL

\* Whoever calls Scheduler_ProcessRemainingTime, the interrupt or the stop, its
\* loop leaves the remaining times and the pending jobs that the single step of
\* the model leaves.
StepsAgeByLoop ==
  \A c \in Contexts :
    ProcessAge(c) \/ (c = "task" /\ StopAge) =>
      /\ remainingTime' = AgeLoop(elapsed[c]).remaining
      /\ isPending' = AgeLoop(elapsed[c]).pending

\* So each step of the scheduler that ages the table is a run of the loop over it.
THEOREM AgingTakesLoop == Spec => [][StepsAgeByLoop]_vars
<1>1. TypeOK => StepsAgeByLoop
  <2> SUFFICES ASSUME TypeOK, NEW c \in Contexts, ProcessRemainingTime(c)
               PROVE  /\ remainingTime' = AgeLoop(elapsed[c]).remaining
                      /\ isPending' = AgeLoop(elapsed[c]).pending
    BY Zenon DEF StepsAgeByLoop, ProcessAge, StopAge
  <2> QED BY AgingIsLoop, TableTypes
<1> QED BY <1>1, TypeCorrect, PTL

\* So it does in the tables the run tries.
THEOREM TableAgesByLoop == TableSpec => LoopAgesTable
<1> DEFINE Ready == pc["isr"] = "age" =>
             /\ remainingTime \in [Indices -> Int] /\ isPending \in [Indices -> BOOLEAN]
             /\ numOfJobs \in 0 .. MaxJobs /\ elapsed["isr"] \in Int
           Ages == /\ remainingTime' = AgeLoop(elapsed["isr"]).remaining
                   /\ isPending' = AgeLoop(elapsed["isr"]).pending
<1>1. TableInit => Ready /\ pc \in [Contexts -> Labels]
  BY DEF TableInit, Contexts, Labels, ProcessPcs
<1>2. Ready /\ pc \in [Contexts -> Labels] /\ [ProcessAge("isr")]_vars => Ready' /\ (pc \in [Contexts -> Labels])'
  BY DEF ProcessAge, Goto, vars, table, locals, Contexts, Labels, ProcessPcs, ArmingPcs
<1>3. Ready /\ [ProcessAge("isr")]_vars => [Ages]_vars
  BY AgingIsLoop DEF ProcessAge, At, Contexts
<1> HIDE DEF Ready, Ages
<1>4. TableSpec => [][Ages]_vars
  BY <1>1, <1>2, <1>3, PTL DEF TableSpec
<1> QED BY <1>4, Zenon DEF LoopAgesTable, Ages
=============================================================================
