\* Two workers, a fiber that sleeps twice.
SPECIFICATION Spec
CONSTANTS
  f1 = f1
  f2 = f2
  w1 = w1
  w2 = w2
  Worker = {w1, w2}
  Fiber = {f1}
  Fd = {}
  MaxWait = 2
  MaxDelay = 1
  Timeouts = {1}
  ConnectTimeout = 1
  Target = {None}
  MaxCalls <- TwoCallsEach
  Settings <- Nothing
  UserTimers <- Nothing
  None = None
INVARIANT StopDrains
\* A CondPanic ends the process, and so does the last worker.
CHECK_DEADLOCK FALSE
