\* An account is deleted while its fight is being saved.
SPECIFICATION FightsSpec
CONSTANTS
  Sharing = {q1, q2}
  MaxShares = 3
  Nothing = Nothing
  People = {p1, p2}
  StandIns = {"A"}
  Untracked = Untracked
  Patience = 2
  CrossedFor = 2
  Removals = {d1}
  Corrections = {c1, c2}
  NoNote = NoNote
  MaxNotes = 1
  Limbs = {"hand", "leg"}
  FamilyOf <- LimbFamilies
  Rounds = {1, 2}
  Least = 3
  Longest = 4
  Rest = 2
  Apart = 3
  MaxGap = 2
  MaxTime = 7
  Never = Never
  Length = 5
  Bridged = 1
INVARIANT DeletedIsForgotten
CHECK_DEADLOCK FALSE
