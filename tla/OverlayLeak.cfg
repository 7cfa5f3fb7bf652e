SPECIFICATION Spec
CONSTANTS
  Modes = {m1}
  NoMode = NoMode
  MaxCommits = 2
  EnableOverlay = TRUE
  Faults = {}
INVARIANTS
  RefsBalanced
