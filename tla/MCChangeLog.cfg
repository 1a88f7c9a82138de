SPECIFICATION Spec
CONSTANTS
  c1 = c1
  c2 = c2
  Slots = {home, c1, c2}
  Home = home
  LOG = 2
  MaxEdits = 3
  MaxLineages = 5
  MaxMarks = 1
SYMMETRY Copies
INVARIANTS TypeOK ChangesSinceIsWhatChanged EqualMarksAreOneBody HandedOutOnce UntakenIsKept
PROPERTY AdoptKeepsMarks
CHECK_DEADLOCK FALSE
