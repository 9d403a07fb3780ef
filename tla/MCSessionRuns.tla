--------------------------- MODULE MCSessionRuns ---------------------------
(* Instances of SessionRuns. *)
EXTENDS SessionRuns, TLC

CONSTANT MaxEvents    (* bound: messages, requests, failures and crashes   *)

(* Threads are interchangeable, and so are messages and tasks.             *)
MCSymmetry ==
  Permutations(Threads) \cup Permutations(Messages) \cup Permutations(Tasks)

FewEvents ==
  Cardinality(sent) + used["stop"] + used["sendNow"] + used["remove"] + used["direct"]
    + used["timeout"] + used["fault"] + used["crash"] <= MaxEvents
=============================================================================
