SPECIFICATION Spec
CONSTANTS
  dominators = dominators
  accesses = accesses
  footprints = footprints
  writes = writes
  throughMemory = throughMemory
  exposedFrames = exposedFrames
  reads = reads
  cfg = cfg
  calls = calls
  memory = memory
  other = other
  outerFacts = outerFacts
  none = none
  Kinds <- CallKinds
  Own <- CallOwn
  Dep <- CallDep
  None = none
  Cfg = cfg
  OuterFacts = outerFacts
  Facets = {cfg, calls, memory, other}
  Incremental = {}
  Skips = {footprints, writes}
  Sound = {}
  NamesValues = {}
  CfgOnly = {}
  AsksUnreported = TRUE
  Programs <- AsksWrites
INVARIANT ReplayGivesRun
