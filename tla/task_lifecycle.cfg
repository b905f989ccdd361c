SPECIFICATION Spec
CONSTANTS
  Task = {t1}
  Question = {q1, q2}
  Message = {m1}
  NoTask = NoTask
  NoQuestion = NoQuestion
  MaxAttempts = 2
  MaxFaults = 1
SYMMETRY Symmetry
INVARIANTS
  QueuedCanRun
  SettledWhenReturned
  AwaitingHasAsker
  UncancelledCostIsFinal
PROPERTY TaskMachineSpec
CHECK_DEADLOCK FALSE
