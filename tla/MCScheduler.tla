----------------------------- MODULE MCScheduler -----------------------------
(* Instances of Scheduler: jobs 1 and 2, one of them a shell check.        *)
EXTENDS Scheduler

MCPolicy     == [j \in Shell |-> IF j = 1 THEN "change" ELSE "failure"]
MCFirst      == {1}
MCSecond     == {2}
MCBoth       == {1, 2}
MCNone       == {}
=============================================================================
