SPECIFICATION FairSpec
CONSTANTS
  t1 = t1
  t2 = t2
  t3 = t3
  ch1 = ch1
  ch2 = ch2
  Thread = {t1, t2, t3}
  Channel = {ch1, ch2}
  ChannelOf <- Shared
  ConnectNow = {ch1}
  Methods <- SomeMethods
  Offered <- SomeServices
  NumLoops = 1
  RecvBuffer = 4
  MaxCalls = 2
  MaxConns = 4
  MaxCuts = 1
  MaxStops = 1
  None = None
INVARIANTS WholeOrNothing AtMostOnce ConnectionsKept
PROPERTIES OwnAnswer CallsReturn
CHECK_DEADLOCK FALSE
