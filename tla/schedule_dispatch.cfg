SPECIFICATION FairSpec
CONSTANTS
  s1 = s1
  s2 = s2
  d1 = d1
  d2 = d2
  Schedule = {s1, s2}
  Dispatcher = {d1, d2}
  NoDispatcher = NoDispatcher
  Batch <- MCBatch
  Period = 1
  Caps <- MCCaps
  Ends <- MCEnds
  MaxTime = 2
  MaxFaults = 1
INVARIANTS
  FiringsOK
  NotesReachNextRun
PROPERTIES
  CancelIsFinal
  DueFires
CHECK_DEADLOCK FALSE
