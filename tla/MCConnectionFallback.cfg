SPECIFICATION Spec
CONSTANTS
  Conns = {c1, c2}
  MaxSetups = 1
  MaxCareless = 0
  MaxAllSetups = 2
  PskModes = {FALSE}
  None = None
  NoLib = NoLib
  Default = Default
SYMMETRY ConnSymmetry
CHECK_DEADLOCK FALSE
INVARIANTS FallbackIsSoftware
