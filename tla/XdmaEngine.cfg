SPECIFICATION Spec
CONSTANTS
  u1 = u1  u2 = u2  a1 = a1  a2 = a2
  Sync <- MCSync  Aio <- MCAio  Segs <- MCSegs  Need <- MCNeed
  DescMax = 3  Word = 16  MaxOffline = 1
  Scenarios <- MCScenarios
INVARIANTS TypeOK ListLive ReportedMoved FailedMeansError HardwareRunsHead CallsKeepRing AioOnce
PROPERTIES OfflineStays CallsReturn IocbsComplete
CHECK_DEADLOCK FALSE
