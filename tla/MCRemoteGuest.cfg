\* A visitor's fight, analysed once: edits, cancels, the sweep, one failed write,
\* one process death.
CONSTANTS
  Jobs = {j1}
  Guests = {j1}
  Processes = {web}
  Web = web
  WorkerIds = {w1}
  Nobody = nobody
  MaxRuns = 1
  MaxFaults = 1
  Requests = {q1}
  RequestKinds = {"start", "restart", "edit", "cancel", "sweep"}
  Detached = TRUE
  MaxCrashes = 1
  Calls = {c1, c2}
  Resends = TRUE
SPECIFICATION FairSpec
PROPERTY RunningEnds
CHECK_DEADLOCK FALSE
