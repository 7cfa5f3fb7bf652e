SPECIFICATION FairSpec
CONSTANTS
  Modes = {m1}
  NoMode = NoMode
  MaxCommits = 3
  EnableOverlay = FALSE
  Faults = {"timeout", "compose", "submit", "start", "xfer", "mode"}
PROPERTIES
  StopTerminates
  LatestFrameShown
