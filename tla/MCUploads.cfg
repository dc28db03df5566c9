\* Two uploads of one account or of two, two requests of each at a time.
CONSTANTS
  Uploads = {1, 2}
  Chunked = {1}
  Accounts = {1, 2}
  Owners <- AnyOther
  Size = 3
  Chunk = 2
  Slots = 2
  Absent = Absent
  Allowance = 1
  MaxPending = 1
  Storage = 8
  MaxTrouble = 1
SPECIFICATION FairSpec
INVARIANTS VideoIsTheFile JobIsPaidFor
PROPERTIES AcceptedKeepsItsVideo 
CHECK_DEADLOCK FALSE
