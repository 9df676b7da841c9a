SPECIFICATION Spec
CONSTANTS
  r1 = r1
  r2 = r2
  w1 = w1
  w2 = w2
  Readers = {r1, r2}
  Plugged = {r1, r2}
  Waiters = {w1, w2}
  CanPlug = TRUE
  CanUnplug = TRUE
  CanStop = TRUE
  MaxForks = 1
  MaxCalls = 3
  MaxChanges = 2
INVARIANT MonitorSound
CHECK_DEADLOCK FALSE
