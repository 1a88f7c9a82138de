SPECIFICATION Spec
CONSTANTS
  timer = timer
  play = play
  f1 = f1
  f2 = f2
  Timer = timer
  Play = play
  Keys = {f1, f2}
  Plain = plain
  None = none
  HandlerOf <- Numbers
  TrapOrder <- Order
  Rebinds = FALSE
  Programs <- TwoKeys
  DAY = 6
  Seconds = {2, 3}
  Notes = 1
  MaxNotes = 1
  MaxTyped = 2

PROPERTY TrappedKeyIsNotRead
