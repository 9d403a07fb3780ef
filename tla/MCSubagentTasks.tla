-------------------------- MODULE MCSubagentTasks --------------------------
(* A small instance of SubagentTasks.                                      *)
EXTENDS SubagentTasks, TLC

MCSymmetry == Permutations(Tasks) \cup Permutations(Sessions)
=============================================================================
