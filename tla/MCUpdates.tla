------------------------------ MODULE MCUpdates ------------------------------
(* Updates with launcher slots and tags that may be exchanged, and the constraint that *)
(* follows a behaviour no further once a step has overtaken the registration  *)
(* of a handle: the gate is lost there, and with it the bound on the states.  *)
EXTENDS Updates, TLC

Symmetry == Permutations(Launchers) \cup Permutations(Tags)

InTime == ~late
==============================================================================
