SPECIFICATION Spec
CONSTANTS
  Transports = {t1, t2, t3, t4}
  MaxFd = 2
  MaxBytes = 2
  Careful = FALSE
  None = None
SYMMETRY MCSymmetry
INVARIANT HeldIsOpen
