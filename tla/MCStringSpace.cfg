SPECIFICATION Spec
CONSTANTS
  a = a
  t1 = t1
  t2 = t2
  x = x
  y = y
  None = none
  Vars = {a}
  Temps <- TempOrder
  Characters = {x, y}
  TOP = 9
  HEADER = 1
  FOOTER = 1
  FDB = 1
  MaxFiles = 1
  MaxElements = 2
  MaxLength = 2
SYMMETRY Alike
INVARIANTS TypeOK StringsAreKept RoomIsFound
