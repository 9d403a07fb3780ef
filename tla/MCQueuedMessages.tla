-------------------------- MODULE MCQueuedMessages --------------------------
(* A small instance of QueuedMessages.                                     *)
EXTENDS QueuedMessages, TLC

CONSTANTS
  PositionsBelow,  (* how far below 0 promotions may go                *)
  MaxOrder         (* the longest id list of a reorder request               *)

MCOrders == UNION {[1..n -> Ids] : n \in 0..MaxOrder}
MCPositions == -PositionsBelow..0
MCSymmetry == Permutations(Ids)
=============================================================================
