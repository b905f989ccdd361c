CONSTANTS
  Exec = {e1, e2}
  Call = {c1, c2, c3}
  e1 = e1
  e2 = e2
  c1 = c1
  c2 = c2
  c3 = c3
  NoCall = NoCall
  Box = {1, 2}
  NoBox = 0
  MaxFaults = 1
SYMMETRY Sym
SPECIFICATION SandboxSpec
INVARIANTS SandboxesOK ToolCallsApart SecondsMeteredOnce
CHECK_DEADLOCK FALSE
