SPECIFICATION Spec
CONSTANTS
  r1 = r1
  r2 = r2
  m1 = m1
  m2 = m2
  p1 = p1
  p2 = p2
  Run = {r1, r2}
  Maker = {m1, m2}
  Pass = {p1, p2}
  Place = {1, 2, 3}
  Near = 1
  Same = 1
  Seeded = {}
  Starts <- MCStarts
  Name = {n1, n2}
  Builtin = {n2}
  Scores = {1, 2}
  EmitMin = 2
  MaxFaults = 2
SYMMETRY Symmetry
INVARIANTS
  OutcomeKept
  OnlyApprovedCodeRuns
  SkillsConsolidate
CHECK_DEADLOCK FALSE
