SPECIFICATION FairSpec
CONSTANTS
  f1 = f1
  f2 = f2
  g1 = g1
  File = {f1, f2}
  Writer <- MCWriter
  NoBytes = NoBytes
  Plans <- MCPlans
  Continuations <- MCContinuations
  MaxSteps = 3
  MaxReplans = 1
  MaxAttempts = 2
  Position = {1, 2, 3, 4, 5}
  Uploads = {f1}
  NoFile = NoFile
  NoGroup = NoGroup
  Upload = Upload
  Earlier = Earlier
INVARIANTS
  PlanFollowed
  OneVersionPerStep
  VersionsOK
  LatestDescribesBytes
PROPERTY ExecutionEnds
CHECK_DEADLOCK FALSE
