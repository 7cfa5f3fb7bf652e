SPECIFICATION Spec
CONSTANTS
  Modes = {m1}
  NoMode = NoMode
  MaxCommits = 3
  EnableOverlay = FALSE
  Faults = {"timeout"}
PROPERTIES
  NoStaleReport
