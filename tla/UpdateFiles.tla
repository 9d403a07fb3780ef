----------------------------- MODULE UpdateFiles -----------------------------
(* The files under ~/.osagent that the agent's update manager, the launcher   *)
(* and the updater helper share: the staged release payloads, the marker of   *)
(* a prepared update and the marker of an update that is armed.  Nothing else *)
(* passes between the three programs, so every rule they keep is kept by what *)
(* they read and write here.                                                  *)
EXTENDS Naturals, FiniteSets

CONSTANTS
  Tags,            \* release tags
  FirstVersion,    \* the version installed before the first update
  MaxOps,          \* bound: update operations requested in a behaviour
  None

ASSUME UpdateFilesAssumption ==
  /\ FirstVersion \notin Tags
  /\ None \notin Tags \cup {FirstVersion}
  /\ MaxOps \in Nat \ {0}

VARIABLES
  staged,          \* tags with a launcher in their release directory
  prepared,        \* prepared_update.json: the tag it names, or None
  pending          \* pending_update.json, or NoMarker

files == <<staged, prepared, pending>>

Versions == Tags \cup {FirstVersion}

\* Operations are numbered; the transaction id of an update is the number of
\* the operation that armed it, and 0 is no transaction.
Ops == 1 .. MaxOps

NoMarker == [tx |-> 0, tag |-> None, phase |-> "none"]

Markers ==
  {NoMarker} \cup
  [tx : Ops, tag : Tags,
   phase : {"installing", "applying", "committed", "failed"}]

\* validate_staged_path: the payload a marker names is there.
Installable(tag) == tag \in staged

\* What is left of the staged payloads after cleanup_stale_updates.
OnlyStaged(tag) == staged \cap {tag}

FilesTypeOK ==
  /\ staged \subseteq Tags
  /\ prepared \in Tags \cup {None}
  /\ pending \in Markers

\* Nothing is staged yet, or one download has been prepared.
FilesInit ==
  /\ prepared \in Tags \cup {None}
  /\ staged = {prepared} \ {None}
  /\ pending = NoMarker
==============================================================================
