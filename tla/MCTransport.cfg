SPECIFICATION Spec
CONSTANTS
  Transports = {t1, t2, t3, t4}
  MaxFd = 2
  MaxBytes = 2
  Careful = TRUE
  None = None
SYMMETRY MCSymmetry
INVARIANTS TypeOK HoldsOwnSocket NoDescriptorLeaked ClosedIsTheEnd
