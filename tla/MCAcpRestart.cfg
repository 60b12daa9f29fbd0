SPECIFICATION Spec
CONSTANTS
  a1 = a1
  c1 = c1
  c2 = c2
  p1 = p1
  p2 = p2
  k1 = k1
  k2 = k2
  Agent = {a1}
  Caller = {c1, c2}
  Proc = {p1, p2}
  Key = {k1, k2}
  NoCommand = NoCommand
  None = None
  NoAgent = NoAgent
  Stored <- MCStored
  Written <- MCWritten
  MaxCalls = 3
  MaxEdits = 1
CHECK_DEADLOCK FALSE
PROPERTY RestartLaunches
