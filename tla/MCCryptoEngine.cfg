SPECIFICATION Spec
CONSTANTS
  Engines = {e1, e2}
  Threads = {t1, t2}
  Copies = 3
  MaxLength = 5
  IntBits = 2
  None = None
SYMMETRY EngineSymmetry
CHECK_DEADLOCK FALSE
INVARIANTS TypeOK NothingUsedAfterFree AccelerationIsReal NothingOutstanding
