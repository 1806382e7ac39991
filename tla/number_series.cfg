SPECIFICATION Spec
CONSTANTS
  Requests = {r1, r2, r3}
  LastPeriod = 3
  MaxCounter = 3
  None = None
SYMMETRY Symmetry
INVARIANTS TypeOK NextIsFresh
PROPERTY GaplessSeries
