\* Two workers that resend results whose answer was lost; two calls under way.
CONSTANTS
  Jobs = {j1}
  Guests = {}
  Processes = {web}
  Web = web
  WorkerIds = {w1, w2}
  Nobody = nobody
  MaxRuns = 2
  MaxFaults = 0
  Requests = {q1}
  RequestKinds = {"start", "restart"}
  Detached = TRUE
  MaxCrashes = 0
  Calls = {c1, c2}
  Resends = TRUE
SYMMETRY Sym
SPECIFICATION Spec
INVARIANTS ResultIsCurrent FailureIsGivenBack
PROPERTIES CommittedStays KeepsPromise
CHECK_DEADLOCK FALSE
