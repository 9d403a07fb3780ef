------------------------- MODULE MCTranscriptStore -------------------------
(* Instances of TranscriptStore. *)
EXTENDS TranscriptStore, TLC

CONSTANT MaxEvents    (* bound: events of any kind in one history          *)

(* Threads are interchangeable, and so are bodies. *)
MCSymmetry == Permutations(Threads) \cup Permutations(Bodies)

FewEvents ==
  used["turn"] + used["edit"] + used["visit"] + used["cut"] + used["fault"]
    + used["crash"] <= MaxEvents
=============================================================================
