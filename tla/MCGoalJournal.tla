---------------------------- MODULE MCGoalJournal ----------------------------
(* GoalJournal on the two files the controller's transitions replace. *)
EXTENDS GoalJournal

CONSTANTS old   \* what every file holds before the first transition

MCInitialFiles == [t \in Target |-> old]
=============================================================================
