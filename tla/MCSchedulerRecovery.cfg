SPECIFICATION Spec
CONSTANTS
  every = every
  at = at
  h1 = h1
  h2 = h2
  Task = {every, at}
  OneShot = {at}
  Handler = {h1, h2}
  NoTask = NoTask
  Keep = Keep
  Period = 1
  Hour = 1
  MaxTime = 2
  MaxEdits = 3
  MaxCrashes = 1
CHECK_DEADLOCK FALSE
PROPERTY RecoveryKeepsTasks
