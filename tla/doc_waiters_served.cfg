SPECIFICATION FairSpec
CONSTANTS
  Agent = {r1, a1, a2, a3, a4}
  Root = {r1}
  NoAgent = NoAgent
  Cap = 2
  MaxDepth = 2
CHECK_DEADLOCK FALSE
PROPERTY WaitersServed
