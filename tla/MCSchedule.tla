----------------------------- MODULE MCSchedule -----------------------------
(***************************************************************************)
(* Two schedulers, a task for one user and one for a group of two, on the  *)
(* tables the repository creates.                                          *)
(***************************************************************************)
EXTENDS Scheduler

MCTargets == [t \in Tasks |-> IF t \in GroupTasks THEN {"u", "v"} ELSE {"u"}]
=============================================================================
