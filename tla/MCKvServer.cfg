\* Two servers that both may lead; c1 makes two requests, reads or writes, and
\* asks again for the first; c2 puts or appends.
SPECIFICATION KvSpec
CONSTANTS
    N = 2
    c1 = c1
    c2 = c2
    Client = {c1, c2}
    Ordinal <- OneProcess
    Keys = {k1}
    Readers = {c1}
    Writers = {c1, c2}
    Appenders = {c2}
    NoValue = NoValue
    MaxIndex = 3
    MaxRequests <- TwoByOne
    MaxAttempts <- AskAndRetry
VIEW LiveState
INVARIANTS
    AcknowledgedIsChosen
    NoWriteIsLost
    ReadsSeeChosen
    WaitersHaveQueues
\* The bounds end every behaviour.
CHECK_DEADLOCK FALSE
