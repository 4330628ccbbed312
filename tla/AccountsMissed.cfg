CONSTANTS
  ann = ann
  i1 = i1
  i2 = i2
  p1 = p1
  p2 = p2
  s1 = s1
  s2 = s2
  l1 = l1
  l2 = l2
  l3 = l3
  None = None
  Requests <- MCRequests
  SignUps = {s1, s2}
  Instances = {i1, i2}
  At <- MCAt
  Names = {ann}
  Typed <- MCTyped
  Password <- MCPassword
  MaxFaults = 1
  MaxCrashes = 0
SPECIFICATION Spec
CHECK_DEADLOCK FALSE
INVARIANTS NeverMissed
