\* A cancel while a worker fails.
CONSTANTS
  Jobs = {j1}
  Guests = {}
  Processes = {web, w1}
  Web = web
  WorkerIds = {w1}
  Nobody = nobody
  MaxRuns = 2
  MaxFaults = 0
  Requests = {q1}
  RequestKinds = {"start", "restart", "cancel"}
  Detached = TRUE
  MaxCrashes = 0
SYMMETRY Sym
SPECIFICATION Spec
INVARIANTS DeletedStaysDeleted
CHECK_DEADLOCK FALSE
