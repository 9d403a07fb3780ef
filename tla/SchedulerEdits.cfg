\* Two processes, edits, a job of an earlier version and a failing statement around one one-shot job.
CONSTANTS
  Jobs = {lunch, old}
  OneShots = {lunch}
  Unparsable = {old}
  Processes = {p1, p2}
  Runs = {r1, r2}
  Calls = {c1}
  MaxConcurrent = 2
  MaxRetries = 1
  MaxDue = 1
  MaxRunNow = 1
  MaxToggles = 2
  MaxRemovals = 1
  MaxFailures = 0
  MaxTimeouts = 0
  MaxFaults = 1
  MaxCrashes = 0
  None = None
SPECIFICATION Spec
SYMMETRY MCSymmetry
INVARIANTS
  TypeOK
  OneTaskAtATime
  CompletedIsDisabled
CHECK_DEADLOCK FALSE
