SPECIFICATION Spec
CONSTANTS
  Notes <- SmallNotes
  QUEUE = 3
  UINT_MAX = 65535
  Threaded = FALSE
INVARIANTS TypeOK ToneIsCounted QuietAfterEnd
PROPERTIES ForegroundWaits StatementsEnd PlaysInOrder
CHECK_DEADLOCK FALSE
