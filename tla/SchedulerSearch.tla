-------------------------- MODULE SchedulerSearch --------------------------
(***************************************************************************)
(* The two loops of source/scheduler.c that RtcScheduler takes as a step   *)
(* each, index by index as the code runs them, and the one-step operators  *)
(* they are checked against.                                               *)
(***************************************************************************)
EXTENDS RtcScheduler

CONSTANT MaxRemaining   \* bound on the remaining times of the tables tried

\* for (i = 0; i < numOfJobs; ++i) if (jobs[i] < jobs[index]) index = i
\* next[i] is indexOfNextJob when the loop has seen the jobs below i.
NextJobLoop_LastWins ==
  LET next[i \in 0 .. MaxJobs] ==
        IF i = 0 THEN 0
        ELSE IF remainingTime[i - 1] <= remainingTime[next[i - 1]]
             THEN i - 1 ELSE next[i - 1]
  IN  next[numOfJobs]

NextJobLoop ==
  LET next[i \in 0 .. MaxJobs] ==
        IF i = 0 THEN 0
        ELSE IF remainingTime[i - 1] < remainingTime[next[i - 1]]
             THEN i - 1 ELSE next[i - 1]
  IN  next[numOfJobs]

\* Scheduler_ProcessRemainingTime(t): rows[i] is the table (remaining, pending)
\* after the loop body has run for the jobs below i.
AgeBody_NoReload(row, i, t) ==
  IF t >= row.remaining[i]
  THEN [row EXCEPT !.pending[i] = TRUE]
  ELSE [row EXCEPT !.remaining[i] = @ - t]

AgeBody(row, i, t) ==
  IF t >= row.remaining[i]
  THEN [remaining |-> [row.remaining EXCEPT ![i] = period[i]],
        pending   |-> [row.pending EXCEPT ![i] = TRUE]]
  ELSE [row EXCEPT !.remaining[i] = @ - t]

AgeLoop(t) ==
  LET rows[i \in 0 .. MaxJobs] ==
        IF i = 0 THEN [remaining |-> remainingTime, pending |-> isPending]
        ELSE AgeBody(rows[i - 1], i - 1, t)
  IN  rows[numOfJobs]

TableInit ==
  \E n \in 0 .. MaxJobs, r \in [Indices -> 0 .. MaxRemaining],
     q \in [Indices -> BOOLEAN], t \in 1 .. MaxRemaining :
    /\ \A i \in Indices : i < n => r[i] > 0
    /\ now = t /\ stall = 0
    /\ alrae = TRUE /\ alraie = TRUE /\ alraf = FALSE /\ alrmar = 0 /\ extiOn = TRUE /\ exti = FALSE
    /\ halLock = FALSE
    /\ startTime = 0 /\ isRunning = TRUE /\ numOfJobs = n
    /\ period = [i \in Indices |-> MaxRemaining]
    /\ remainingTime = r /\ isPending = q
    /\ pc = [c \in Contexts |-> IF c = "isr" THEN "age" ELSE "idle"]
    /\ elapsed = [c \in Contexts |-> IF c = "isr" THEN t ELSE 0]
    /\ job = [c \in Contexts |-> 0]
    /\ epoch = [c \in Contexts |-> 0]
    /\ cursor = [c \in Contexts |-> 0]
    /\ lastMark = [i \in Indices |-> 0]
    /\ owed = q

TableSpec == TableInit /\ [][ProcessAge("isr")]_vars

\* The search loop, with its strict comparison and its start at jobs[0], ends at
\* the one index that the model's search step may choose: the first of the jobs
\* with least time left.
LoopFindsNextJob ==
  {i \in Configured \union {0} : IsNextJob(i)} = {NextJobLoop}

\* The aging loop, which reads and writes the rows one after the other, leaves
\* the table that the single step of the model leaves.
LoopAgesTable ==
  [][ /\ remainingTime' = AgeLoop(elapsed["isr"]).remaining
      /\ isPending' = AgeLoop(elapsed["isr"]).pending ]_vars
=============================================================================
