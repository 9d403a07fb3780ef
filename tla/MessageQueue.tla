---------------------------- MODULE MessageQueue ----------------------------
(***************************************************************************)
(* What the durable message queue of one chat session promises, with no    *)
(* mention of row positions: a list of waiting messages, kept as a set     *)
(* with a strict order, and the slot of the message handed to a run.       *)
(*                                                                         *)
(* QueuedMessages (the SQL of src/src/storage/sqlite.rs) is shown to       *)
(* implement this module; SessionRuns, which dispatches the queue, is      *)
(* built on it.                                                            *)
(***************************************************************************)
EXTENDS Naturals, Sequences

CONSTANTS
  Ids,                  (* identities of queue entries                      *)
  Orders                (* the lists of entries a reorder may ask for       *)

VARIABLES
  waiting,              (* entries that have not been claimed               *)
  before,               (* <<a, b>> \in before: a is dispatched before b    *)
  claimed               (* the entry handed to a run and not yet deleted    *)

queueVars == <<waiting, before, claimed>>

TypeOK ==
  /\ waiting \in SUBSET Ids
  /\ before \in SUBSET (Ids \X Ids)
  /\ claimed \in SUBSET Ids

Init == waiting = {} /\ before = {} /\ claimed = {}

(* m is the entry the next claim returns. *)
IsHead(m) == m \in waiting /\ \A n \in waiting \ {m} : <<m, n>> \in before

(* a occurs in ids, and no b occurs at or before its first occurrence. *)
Precedes(ids, a, b) ==
  \E i \in DOMAIN ids : ids[i] = a /\ \A j \in 1..i : ids[j] # b

Listed(ids, a) == \E i \in DOMAIN ids : ids[i] = a

(* The order a reorder request asks for: listed entries first, as listed,  *)
(* then the others as they were.                                           *)
AsRequested(ids, a, b, old) ==
  /\ a # b
  /\ \/ Precedes(ids, a, b)
     \/ ~Listed(ids, a) /\ ~Listed(ids, b) /\ old

-----------------------------------------------------------------------------

(* A new entry goes behind everything that waits. *)
Enqueue(m) ==
  /\ m \notin waiting \cup claimed
  /\ waiting' = waiting \cup {m}
  /\ before' = before \cup (waiting \X {m})
  /\ UNCHANGED claimed

(* The head is claimed, only when no entry is in flight. *)
Claim(m) ==
  /\ claimed = {}
  /\ IsHead(m)
  /\ claimed' = {m}
  /\ waiting' = waiting \ {m}
  /\ before' = {p \in before : p[1] # m /\ p[2] # m}

(* An entry leaves the queue, claimed or not. *)
Remove(m) ==
  /\ m \in waiting \cup claimed
  /\ waiting' = waiting \ {m}
  /\ claimed' = claimed \ {m}
  /\ before' = {p \in before : p[1] # m /\ p[2] # m}

(* A waiting entry is moved to the front; the others keep their order. *)
Promote(m) ==
  /\ m \in waiting
  /\ before' = {p \in before : p[2] # m} \cup ({m} \X (waiting \ {m}))
  /\ UNCHANGED <<waiting, claimed>>

Reorder(ids) ==
  /\ before' = {p \in waiting \X waiting :
                  AsRequested(ids, p[1], p[2], p \in before)}
  /\ UNCHANGED <<waiting, claimed>>

Next ==
  \/ \E m \in Ids : Enqueue(m) \/ Claim(m) \/ Remove(m) \/ Promote(m)
  \/ \E ids \in Orders : Reorder(ids)

Spec == Init /\ [][Next]_queueVars
=============================================================================
