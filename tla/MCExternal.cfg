\* Two worker processes and one handler at a time on one account's fight.
CONSTANTS
  Jobs = {j1}
  Guests = {}
  Processes = {web, w1, w2}
  Web = web
  WorkerIds = {w1, w2}
  Nobody = nobody
  MaxRuns = 2
  MaxFaults = 0
  Requests = {q1}
  RequestKinds = {"start", "restart", "cancel"}
  Detached = TRUE
  MaxCrashes = 0
SYMMETRY Sym
SPECIFICATION Spec
INVARIANTS TypeOK OneWorkerPerRun
PROPERTY CommitsOnlyUnderALiveLease
CHECK_DEADLOCK FALSE
