SPECIFICATION Spec
CONSTANTS
  x1 = x1  x2 = x2  v1 = v1  v2 = v2  None = None  Mixed = Mixed
  Devs <- MCDevs  Modes <- MCModes  Setups <- MCSetups  Preferred = v1
  MaxFaults = 1  MaxCommits = 2
INVARIANTS TypeOK NothingLeft OpenWhole UsedIsThere PipeShowsMode DmaHasDevice
PROPERTIES RegistersMapped Released RemoveReturns Library
CHECK_DEADLOCK FALSE
