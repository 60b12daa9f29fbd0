SPECIFICATION StreamSpec
CONSTANTS
  p1 = p1
  p2 = p2
  c1 = c1
  c2 = c2
  Publisher = {p1}
  Sub = {c1, c2}
  RingSize = 2
  QueueSize = 1
  RelaySize = 1
  MaxEvents = 4
  Wanted = {1, 2, 4}
CHECK_DEADLOCK FALSE
INVARIANT ReplaysAfterLastEventId
