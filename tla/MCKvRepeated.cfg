\* The same clerk: a repeated write may be executed twice.
SPECIFICATION KvSpec
CONSTANTS
    N = 1
    c1 = c1
    c2 = c2
    Client = {c1}
    Ordinal <- OneProcess
    Keys = {k1}
    Readers = {c1}
    Writers = {c1}
    Appenders = {}
    NoValue = NoValue
    MaxIndex = 5
    MaxRequests <- Three
    MaxAttempts <- RetryTwice
VIEW LiveState
INVARIANTS
    DuplicatesAreSkipped
\* The bounds end every behaviour.
CHECK_DEADLOCK FALSE
