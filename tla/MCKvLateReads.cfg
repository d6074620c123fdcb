\* One clerk that reads and writes and asks again, so that a Get may be executed
\* late and set the table of request ids back.
SPECIFICATION KvSpec
CONSTANTS
    N = 1
    c1 = c1
    c2 = c2
    Client = {c1}
    Ordinal <- OneProcess
    Keys = {k1}
    Readers = {c1}
    Writers = {c1}
    Appenders = {c1}
    NoValue = NoValue
    MaxIndex = 5
    MaxRequests <- Three
    MaxAttempts <- RetryTwice
VIEW LiveState
INVARIANTS
    NoWriteIsLost
\* The bounds end every behaviour.
CHECK_DEADLOCK FALSE
