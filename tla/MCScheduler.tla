---------------------------- MODULE MCScheduler ----------------------------
(* Instances of Scheduler. *)
EXTENDS Scheduler, TLC

(* Executions, requests and processes are interchangeable; jobs differ in  *)
(* kind.                                                                   *)
MCSymmetry == Permutations(Runs) \cup Permutations(Calls) \cup Permutations(Processes)
=============================================================================
