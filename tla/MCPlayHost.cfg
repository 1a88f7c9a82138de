SPECIFICATION Spec
CONSTANTS
  Notes <- SmallNotes
  QUEUE = 3
  UINT_MAX = 65535
  Threaded = TRUE
INVARIANT QuietAfterEnd
CHECK_DEADLOCK FALSE
