\* One worker, every kind of request, one failed write and one process death.
CONSTANTS
  Jobs = {j1}
  Guests = {}
  Processes = {web, w1}
  Web = web
  WorkerIds = {w1}
  Nobody = nobody
  MaxRuns = 2
  MaxFaults = 1
  Requests = {q1}
  RequestKinds = {"start", "restart", "cancel", "sweep", "list", "edit", "delete"}
  Detached = TRUE
  MaxCrashes = 1
SPECIFICATION FairSpec
INVARIANT ReportMissingOnlyAfterDeletion
PROPERTIES RunningEnds ServedBarringMishaps
CHECK_DEADLOCK FALSE
