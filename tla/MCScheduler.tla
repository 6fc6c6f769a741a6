---------------------------- MODULE MCScheduler -----------------------------
(* Instances of Scheduler for TLC; a unit of time stands for the shortest  *)
(* delay of the code.                                                      *)
EXTENDS Scheduler

Longer == [configured |-> TRUE, interval |-> 3, grace |-> 2,
           battery |-> FALSE, metered |-> FALSE]
Shorter == [Longer EXCEPT !.interval = 2]
NoSources == [Shorter EXCEPT !.configured = FALSE]

TwoSchedules == {Longer, Shorter}
OneSchedule == {Shorter}
WithoutSources == {Shorter, NoSources}
=============================================================================
