\* Two browsers over two addresses; two analyses on two subscriptions; a roster
\* of one or two; clips over midnight; two followers.
SPECIFICATION MembersSpec
CONSTANTS
  Browsers = {b1, b2}
  Emails = {"e1", "e2"}
  Identities = {i1, i2}
  AddressOf <- Addresses
  Vouched = {i1}
  Strict = TRUE
  None = None
  MaxAccounts = 2
  MaxTokens = 2
  MaxLinks = 1
  MaxGen = 1
  MaxBusy = 3
  Subs = {s1, s2}
  Analyses = {j1, j2}
  PaidPlans = {"athlete", "gym"}
  LimitOf <- PlanLimits
  NoLimit = NoLimit
  Nobody = Nobody
  Cost = 1
  MonthlyCap = 1
  MaxPoints = 1
  MaxDay = 2
  MaxEvents = 3
  Adding = {g1, g2}
  Names <- AsciiNames
  Lower <- AsciiFold
  NoCase <- AsciiFold
  Limits = {1, 2}
  Training = {t1, t2}
  Clips = {"c1", "c2", "c3"}
  Moving = {"c1", "c2"}
  DailyCap = 1
  MaxItems = 1
  MaxSessions = 2
  MaxDate = 2
  Visitors = {v1, v2}
SYMMETRY Perms
INVARIANTS OldCredentialsAreOut   PlanFollowsStripe WithinAllowance SeatsAreKept PointsAreEarned FollowersWereLetIn
CHECK_DEADLOCK FALSE
