SPECIFICATION Spec
CONSTANTS
  m1 = m1  m2 = m2  None = None  Mixed = Mixed
  Modes <- MCModes  FirstMode = m1
  MaxFaults = 3  MaxStarts = 3  MaxModes = 2
INVARIANTS TypeOK DriverWhole EntryRestored ModeIsShown
PROPERTIES MmioDecoded Released
CHECK_DEADLOCK FALSE
