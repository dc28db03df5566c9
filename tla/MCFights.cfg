\* Two people and a stand-in; a hand and a leg over two rounds; five windows of
\* footage; two posts of one fight; one deletion beside two
\* corrections.
SPECIFICATION FightsSpec
CONSTANTS
  Sharing = {q1, q2}
  MaxShares = 3
  Nothing = Nothing
  People = {p1, p2}
  StandIns = {"A"}
  Untracked = Untracked
  Patience = 2
  CrossedFor = 2
  Removals = {d1}
  Corrections = {c1, c2}
  NoNote = NoNote
  MaxNotes = 1
  Limbs = {"hand", "leg"}
  FamilyOf <- LimbFamilies
  Rounds = {1, 2}
  Least = 3
  Longest = 4
  Rest = 2
  Apart = 3
  MaxGap = 2
  MaxTime = 7
  Never = Never
  Length = 5
  Bridged = 1
SYMMETRY Perms
INVARIANTS   StrikesAreSeenOnce  SharingTwiceIsOneLink DeletedFightShowsNothing VideoDeletionForgets SequencesAreAccountedFor
CHECK_DEADLOCK FALSE
