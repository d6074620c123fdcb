SPECIFICATION Spec
CONSTANTS
  f1 = f1
  f2 = f2
  w1 = w1
  w2 = w2
  Worker = {w1}
  Fiber = {f1, f2}
  Fd = {d1}
  MaxWait = 2
  MaxDelay = 1
  Timeouts = {1}
  ConnectTimeout = 1
  Target = {None}
  MaxCalls <- TwoCallsAndOne
  Settings <- ReadTimeoutOrNonblock
  UserTimers <- Nothing
  None = None
INVARIANTS NoPanic OneWakeUp CountsRight StopDrains
PROPERTIES DeadlinesKept StopReturns
