------------------------ MODULE MCScheduledFollowUps ------------------------
(***************************************************************************)
(* Instances of ScheduledFollowUps: one or two definitions, schedules that *)
(* fire at every instant or at some, end early, or run once.               *)
(***************************************************************************)
EXTENDS ScheduledFollowUps

Hourly == [kind |-> "recurring", at |-> 1..Horizon, endsAt |-> None, max |-> 3]
Ending == [kind |-> "recurring", at |-> 1..Horizon, endsAt |-> 2, max |-> 100]
Once == [kind |-> "once", at |-> {2}, endsAt |-> None, max |-> 1]

AllSchedules == {Hourly, Ending, Once}
Endless == {Hourly}
=============================================================================
