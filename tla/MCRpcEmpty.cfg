SPECIFICATION FairSpec
CONSTANTS
  t1 = t1
  t2 = t2
  t3 = t3
  ch1 = ch1
  ch2 = ch2
  Thread = {t1, t2}
  Channel = {ch1, ch2}
  ChannelOf <- OwnChannel
  ConnectNow = {ch1}
  Methods <- AllMethods
  Offered <- AllServices
  NumLoops = 1
  RecvBuffer = 4
  MaxCalls = 2
  MaxConns = 4
  MaxCuts = 0
  MaxStops = 0
  None = None
PROPERTY EveryCallReturns
CHECK_DEADLOCK FALSE
