\* A one-shot and a recurring job, failing and late prompts, a crash.
CONSTANTS
  Jobs = {lunch, daily}
  OneShots = {lunch}
  Unparsable = {}
  Processes = {p1}
  Runs = {r1, r2, r3}
  Calls = {}
  MaxConcurrent = 2
  MaxRetries = 1
  MaxDue = 3
  MaxRunNow = 0
  MaxToggles = 0
  MaxRemovals = 0
  MaxFailures = 2
  MaxTimeouts = 1
  MaxFaults = 0
  MaxCrashes = 1
  None = None
SPECIFICATION FairSpec
INVARIANTS
  OneShotRunsBounded
PROPERTIES
  DueJobsRun
  RunningEnds
CHECK_DEADLOCK FALSE
