----------------------- MODULE RtcSchedulerRefinement -----------------------
(***************************************************************************)
(* RtcScheduler implements Countdown as long as no second passes inside a  *)
(* call (MaxStall = 0) and no due time overflows.                          *)
(***************************************************************************)
EXTENDS RtcScheduler

\* remainingTime counts from startTime, except between the two steps of
\* SchedulerProcess (or SchedulerStop) that bring the one and the other up to date.
UpToDate == ~isRunning \/ pc["isr"] \in {"search", "start"} \/ pc["task"] = "stopped"

TimeLeft(i) == IF UpToDate THEN remainingTime[i] ELSE NextDue(i) - now

\* A countdown that has reached zero is due at once, although the interrupt
\* handler marks the job only a few steps later.
Promise == INSTANCE Countdown WITH
  counting <- isRunning,
  span <- [i \in Configured |-> period[i]],
  left <- [i \in Configured |-> IF TimeLeft(i) > 0 THEN TimeLeft(i) ELSE period[i]],
  due  <- {i \in Configured : TimeLeft(i) <= 0 \/ owed[i]}

\* Every job runs in the very second its countdown reaches zero, exactly one
\* period after the second it last did, with the time the scheduler was stopped
\* left out; SchedulerProcess, one alarm at a time, achieves that for all jobs.
ImplementsCountdown == Promise!Spec
=============================================================================
