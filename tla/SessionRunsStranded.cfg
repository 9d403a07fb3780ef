\* Two messages, nothing else: a message enqueued while a run hands over.
CONSTANTS
  Threads = {t1, t2}
  Messages = {m1, m2}
  Rounds = {}
  Tasks = {}
  MaxWakeTurns = 1
  MaxStops = 0
  MaxSendNow = 0
  MaxRemovals = 0
  MaxDirect = 0
  MaxTimeouts = 0
  MaxFaults = 0
  MaxCrashes = 0
  MaxEvents = 2
  None = None
SPECIFICATION FairSpec
PROPERTIES
  BusySendDispatched
CHECK_DEADLOCK FALSE
