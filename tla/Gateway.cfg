SPECIFICATION Spec
CONSTANTS
  s1 = s1  s2 = s2
  w1 = w1
  l1 = l1  l2 = l2
  v1 = v1  v2 = v2
  Slots = {s1, s2}
  Workspaces = {w1}
  LockIDs = {l1, l2}
  Values = {v1, v2}
  Bodies <- MCBodies
  MaxConns = 2
  Undecodable = Undecodable
  None = None
SYMMETRY Symmetry
INVARIANTS TypeOK Coherent
PROPERTY Promised
