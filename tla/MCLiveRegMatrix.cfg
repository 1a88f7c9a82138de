SPECIFICATION Spec
CONSTANTS
  VRegs = {v1, v2, v3}
  NoVReg = v0
  Units <- Byte
  Regs = {"al", "ah", "ax"}
  None = "none"
  UnitsOf <- UnitsOfReg
  RootOf <- Root
  Ranges <- SomeRanges
  CallsAt = {5}
  Destroyed = {"ax"}
  FixedAt <- Fixed
  Limits = {1, 9}
  All = 9
INVARIANTS TypeOK UnionsHoldWhatIsAssigned ChecksAreTrue CollectedAreInTheWay
SYMMETRY Numbers
VIEW Current
