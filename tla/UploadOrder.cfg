SPECIFICATION Spec
CONSTANTS
  Modes = {m1, m2}
  NoMode = NoMode
  MaxCommits = 3
  EnableOverlay = TRUE
  Faults = {"timeout", "compose", "submit", "start", "xfer", "mode"}
INVARIANTS
  ModeStable
  UpdateNotForgotten
  RemovedIsQuiet
PROPERTIES
  SlotSpec
SYMMETRY ModeSymmetry
