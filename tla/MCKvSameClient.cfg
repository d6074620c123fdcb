\* Two clerks of two processes, which draw the same m_clientId.
SPECIFICATION KvSpec
CONSTANTS
    N = 2
    c1 = c1
    c2 = c2
    Client = {c1, c2}
    Ordinal <- TwoProcesses
    Keys = {k1}
    Readers = {}
    Writers = {c1, c2}
    Appenders = {}
    NoValue = NoValue
    MaxIndex = 2
    MaxRequests <- Once
    MaxAttempts <- AskOnce
VIEW LiveState
INVARIANTS
    NoWriteIsLost
\* The bounds end every behaviour.
CHECK_DEADLOCK FALSE
