SPECIFICATION Spec
CONSTANTS
  None = None
  Modes <- MCModes  Fbs <- MCFbs  Rects <- MCRects
  MaxW = 3  MaxH = 3  DescMax = 8  BlockSize = 4  BlenMax = 2
  MaxFrames = 3  MaxFaults = 1
INVARIANTS TypeOK StreamShowsFrame FetchInside RefusedForCause RingAccounted
CHECK_DEADLOCK FALSE
