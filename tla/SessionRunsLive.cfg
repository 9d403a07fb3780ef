\* Messages and a background task; the scheduler keeps every thread running.
CONSTANTS
  Threads = {t1, t2, t3}
  Messages = {m1, m2}
  Rounds = {}
  Tasks = {k1}
  MaxWakeTurns = 1
  MaxStops = 0
  MaxSendNow = 0
  MaxRemovals = 0
  MaxDirect = 0
  MaxTimeouts = 0
  MaxFaults = 0
  MaxCrashes = 0
  MaxEvents = 2
  None = None
SPECIFICATION FairSpec
PROPERTIES
  GuardReleased
  RunEndDispatches
CHECK_DEADLOCK FALSE
