SPECIFICATION Spec
CONSTANTS
  f1 = f1
  f2 = f2
  w1 = w1
  w2 = w2
  Worker = {w1, w2}
  Fiber = {f1, f2}
  Fd = {}
  MaxWait = 2
  MaxDelay = 1
  Timeouts = {1}
  ConnectTimeout = 1
  Target = {None, w1}
  MaxCalls <- NoCalls
  Settings <- Nothing
  UserTimers <- Timers
  None = None
PROPERTY TasksRun
