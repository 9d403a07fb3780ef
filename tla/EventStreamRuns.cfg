\* Two emitters, a delta, rows without a sequence, a broken socket, a second
\* subscription, a restart, failing statements.
CONSTANTS
  Emitters = {t1, t2}
  Events = {e1, e2, d1}
  Deltas = {d1}
  Recorded = {n1}
  Capacity = 2
  MaxDisconnects = 1
  MaxResubscribes = 1
  MaxRestarts = 1
  MaxFaults = 1
  MaxUnread = 1
  MaxKinds = 2
  None = None
SPECIFICATION FairSpec
INVARIANTS
  TypeOK
  RowSequencesDistinct
  AppliedOnce
  NoneSkipped
PROPERTIES
  StoredReachClient
CHECK_DEADLOCK FALSE
