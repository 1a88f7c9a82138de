SPECIFICATION Spec
CONSTANTS
  dominators = dominators
  accesses = accesses
  footprints = footprints
  writes = writes
  throughMemory = throughMemory
  exposedFrames = exposedFrames
  reads = reads
  cfg = cfg
  calls = calls
  memory = memory
  other = other
  outerFacts = outerFacts
  none = none
  Kinds <- CacheKinds
  Own <- CacheOwn
  Dep <- CacheDep
  None = none
  Cfg = cfg
  OuterFacts = outerFacts
  Facets = {cfg, calls, memory, other}
  Incremental = {dominators, accesses, exposedFrames}
  Skips = {writes, exposedFrames}
  Sound = {throughMemory, reads}
  NamesValues = {reads}
  CfgOnly = {dominators}
  AsksUnreported = FALSE
  Programs <- EachInTurn
INVARIANTS TypeOK HeldIsTrue TrueAtItsMark AskedIsTrue ExactIsFresh
