SPECIFICATION Spec
CONSTANTS
  u1 = u1
  u2 = u2
  t1 = t1
  t2 = t2
  a1 = a1
  a2 = a2
  a3 = a3
  c1 = c1
  c2 = c2
  User = {u1, u2}
  External = {e1}
  NoUser = NoUser
  Token = {t1, t2}
  Attempt = {a1, a2, a3}
  Purposes <- MCPurposes
  Client = {c1, c2}
  MaxGen = 2
  MaxFaults = 1
SYMMETRY Symmetry
INVARIANTS
  SpentForSomething
  StoredTokenWorks
PROPERTIES
  ConnectionsStay
  TakenOnce
CHECK_DEADLOCK FALSE
