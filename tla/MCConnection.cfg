SPECIFICATION Spec
CONSTANTS
  Conns = {c1, c2}
  MaxSetups = 2
  MaxCareless = 1
  MaxAllSetups = 3
  PskModes = {FALSE, TRUE}
  None = None
  NoLib = NoLib
  Default = Default
SYMMETRY ConnSymmetry
CHECK_DEADLOCK FALSE
INVARIANTS TypeOK InstalledEngineLive PointersValid DestructorReleases ConnectedIsReady EngineOutlivesContext
