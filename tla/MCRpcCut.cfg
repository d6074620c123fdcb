SPECIFICATION Spec
CONSTANTS
  t1 = t1
  t2 = t2
  t3 = t3
  ch1 = ch1
  ch2 = ch2
  Thread = {t1, t2}
  Channel = {ch1, ch2}
  ChannelOf <- OwnChannel
  ConnectNow = {ch1}
  Methods <- AllMethods
  Offered <- AllServices
  NumLoops = 1
  RecvBuffer = 4
  MaxCalls = 2
  MaxConns = 4
  MaxCuts = 1
  MaxStops = 1
  None = None
INVARIANT CutRequestsAreDropped
CHECK_DEADLOCK FALSE
