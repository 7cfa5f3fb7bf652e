SPECIFICATION Spec
CONSTANTS
  Modes = {m1, m2}
  NoMode = NoMode
  MaxCommits = 3
  EnableOverlay = TRUE
  Faults = {"timeout", "stop_timeout", "compose", "submit", "start", "xfer", "mode", "upload_off"}
INVARIANTS
  TypeOK
  NoRequestLost
  RefsSafe
SYMMETRY ModeSymmetry
