CONSTANTS
  Call = {c1, c2}
  c1 = c1
  c2 = c2
  Retention = 3
  DaysPerMonth = 2
  FirstDay = 6
  LastDay = 11
  MaxFaults = 1
SYMMETRY Sym
SPECIFICATION Spec
INVARIANTS CallsAccounted RecentTraceKept SpentIsTotal
CHECK_DEADLOCK FALSE
