SPECIFICATION Spec

CONSTANTS
  Threads = {t1, t2}
  Files = 2
  ReadAhead = 1
  MaxCalls = 3

INVARIANT NextIsCurrent

PROPERTY CallsReturnUnlessWedged

CHECK_DEADLOCK FALSE
