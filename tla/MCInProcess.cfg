\* The executor beside two handlers at a time, on one account's fight, and
\* one restart of the web process.
CONSTANTS
  Jobs = {j1}
  Guests = {}
  Processes = {web}
  Web = web
  WorkerIds = {1, 2}
  Nobody = nobody
  MaxRuns = 2
  MaxFaults = 0
  Requests = {q1, q2}
  RequestKinds = {"start", "restart", "cancel"}
  Detached = FALSE
  MaxCrashes = 1
SPECIFICATION FairSpec
INVARIANTS QueuedHasATask EachRunSubmittedOnce
PROPERTIES QueuedIsServed
CHECK_DEADLOCK FALSE
