SPECIFICATION Spec
CONSTANTS
  r1 = r1
  r2 = r2
  w1 = w1
  w2 = w2
  Readers = {r1}
  Plugged = {r1}
  Waiters = {w1, w2}
  CanPlug = FALSE
  CanUnplug = FALSE
  CanStop = FALSE
  MaxForks = 0
  MaxCalls = 3
  MaxChanges = 2
INVARIANT BlockedWaiterHasMonitor
PROPERTY FinalizeReturns
PROPERTY FinalizeWakes
PROPERTY EventDelivered
CHECK_DEADLOCK FALSE
