SPECIFICATION Spec
CONSTANTS
  ax = ax
  al = al
  ah = ah
  bx = bx
  none = none
  fail = fail
  VRegs <- Ranges
  Regs = {ax, al, ah, bx}
  None = none
  Fail = fail
  UnitsOf <- Lanes
  RootOf <- Root
  Seeds <- AllSeeds
  ProgramOf <- ProgramFor
INVARIANTS TypeOK NoClash NoneLost
PROPERTIES DoneIsKept FailureRestores HintsAreNotWorsened Terminates
CHECK_DEADLOCK FALSE
