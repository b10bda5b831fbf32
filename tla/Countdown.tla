----------------------------- MODULE Countdown -----------------------------
(***************************************************************************)
(* What the scheduler promises (README.md:36-56 of the repository): every  *)
(* job has a countdown of its own, which runs while the scheduler runs and *)
(* stands still while it is stopped.  When it reaches zero it starts again *)
(* from the period, and the job runs before the clock moves on.            *)
(* There is no alarm here, no start time, no interrupt and no search.      *)
(***************************************************************************)
EXTENDS Integers

CONSTANTS MaxJobs, Periods

VARIABLES
  counting,  \* the scheduler runs
  span,      \* the period of each job, a function on 0 .. number of jobs - 1
  left,      \* seconds until each job falls due
  due        \* the jobs that have fallen due and not run yet

vars == <<counting, span, left, due>>

Jobs == DOMAIN span

NoJobs == [i \in {} |-> 0]

Init == counting = FALSE /\ span = NoJobs /\ left = NoJobs /\ due = {}

Second ==
  /\ counting /\ due = {}
  /\ left' = [i \in Jobs |-> IF left[i] = 1 THEN span[i] ELSE left[i] - 1]
  /\ due' = {i \in Jobs : left[i] = 1}
  /\ UNCHANGED <<counting, span>>

\* The callbacks of some of the jobs that are due.
Run(S) ==
  /\ S # {} /\ S \subseteq due
  /\ due' = due \ S
  /\ UNCHANGED <<counting, span, left>>

Start == ~counting /\ counting' = TRUE /\ UNCHANGED <<span, left, due>>

Stop == counting /\ due = {} /\ counting' = FALSE /\ UNCHANGED <<span, left, due>>

Added(f, p) == [i \in Jobs \union {n \in 0 .. (MaxJobs - 1) : Jobs = 0 .. (n - 1)} |->
                  IF i \in Jobs THEN f[i] ELSE p]

Add(p) ==
  /\ ~counting /\ Jobs # 0 .. (MaxJobs - 1)
  /\ span' = Added(span, p)
  /\ left' = Added(left, p)
  /\ UNCHANGED <<counting, due>>

Forget ==
  /\ ~counting
  /\ span' = NoJobs /\ left' = NoJobs
  /\ UNCHANGED <<counting, due>>

Next ==
  \/ Second \/ Start \/ Stop \/ Forget
  \/ \E S \in SUBSET due : Run(S)
  \/ \E p \in Periods : Add(p)

JobRuns(i) == \E S \in SUBSET due : i \in S /\ Run(S)

Spec == Init /\ [][Next]_vars /\ \A i \in 0 .. (MaxJobs - 1) : WF_vars(JobRuns(i))
=============================================================================
