SPECIFICATION Spec
CONSTANTS
  MinTime = 1
  MaxTime = 2
  MinTraffic = 2
  U64Max = 7
  DefaultTime = 1
  DefaultTraffic = 2
  TimeInputs <- MCTimeInputs
  TrafficInputs <- MCTrafficInputs
  WriteLens <- MCWriteLens
  MinClock = 2
  MaxClock = 4
  MaxKeyBytes = 9
INVARIANTS TypeOK
PROPERTIES KeyLifetimeEnforced RemainTrafficHonest
