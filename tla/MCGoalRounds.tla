---------------------------- MODULE MCGoalRounds ----------------------------
(* A small instance of GoalRounds.                                         *)
EXTENDS GoalRounds
=============================================================================
