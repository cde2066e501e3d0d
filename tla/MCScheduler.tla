---------------------------- MODULE MCScheduler ----------------------------
(* Scheduler with two candidates, one of them carried over. *)
EXTENDS Scheduler

CONSTANTS c1, c2

Two == {c1, c2}
CarriedOver == {c1}
OneStage == <<1>>
TwoStages == <<1, 1>>
OneOrTwo == {1, 2}
Either == BOOLEAN
Gated == {TRUE}
=============================================================================
