SPECIFICATION Spec
CONSTANTS
  Worker = {w1, w2}
  Recent = 1
  Window = 1
  Trigger = 2
  L2Fold = 2
  L3Fold = 1
  MaxMessages = 3
  MaxFaults = 1
SYMMETRY Symmetry
INVARIANTS
  SummariesOK
  NothingForgotten
  QuietMeansDrained
CHECK_DEADLOCK FALSE
