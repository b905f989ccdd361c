SPECIFICATION FairSpec
CONSTANTS
  Agent = {r1, r2, a1, a2, a3, a4}
  Root = {r1, r2}
  NoAgent = NoAgent
  Cap = 2
  MaxDepth = 2
INVARIANTS
  SlotsOK
  NoIdleSlot
PROPERTY FlatWaitersServed
CHECK_DEADLOCK FALSE
