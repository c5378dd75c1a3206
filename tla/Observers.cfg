SPECIFICATION FairObservedSpec
CONSTANTS
  s1 = s1  s2 = s2
  w1 = w1
  l1 = l1
  v1 = v1
  o1 = o1  o2 = o2
  Slots = {s1, s2}
  Workspaces = {w1}
  LockIDs = {l1}
  Values = {v1}
  Bodies <- OneBody
  MaxConns = 1
  Observers = {o1, o2}
  Undecodable = Undecodable
  None = None
PROPERTY Answered
