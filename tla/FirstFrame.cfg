SPECIFICATION FairSpec
CONSTANTS
  Modes = {m1}
  NoMode = NoMode
  MaxCommits = 1
  EnableOverlay = FALSE
  Faults = {}
PROPERTIES
  ActiveCrtcShowsItsFrame
