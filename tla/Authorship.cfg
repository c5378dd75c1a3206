SPECIFICATION AuthorSpec
CONSTANTS
  s1 = s1  s2 = s2
  w1 = w1
  l1 = l1  l2 = l2  l3 = l3
  v1 = v1  v2 = v2
  c1 = c1  c2 = c2
  Slots = {s1, s2}
  Workspaces = {w1}
  LockIDs = {l1, l2, l3}
  Values = {v1}
  Bodies <- MCBodies
  Clients = {c1, c2}
  StateOps = {"POST", "DELETE"}
  MaxConns = 2
  Undecodable = Undecodable
  None = None
SYMMETRY Symmetry
PROPERTY OnlyHolderWrites
