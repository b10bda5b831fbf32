-------------------------- MODULE MCRtcScheduler --------------------------
(* Small instances of RtcScheduler for TLC. *)
EXTENDS RtcSchedulerRefinement

PromptPeriods == {2, 6}
StallPeriods  == {2, 5}
=============================================================================
