SPECIFICATION Spec
CONSTANTS
  s1 = s1
  c1 = c1
  c2 = c2
  c3 = c3
  k1 = k1
  k2 = k2
  k3 = k3
  Server = {s1}
  Caller = {c1, c2, c3}
  Client = {k1, k2, k3}
  None = None
  NoServer = NoServer
  Stored <- MCStored
  MaxOps = 4
CHECK_DEADLOCK FALSE
INVARIANT DeletedIsClosed
