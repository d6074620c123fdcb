\* A leader of term 1 and another of term 2, two servers that compact, two entries; a
\* process ends and starts again, any request or answer may be lost.
SPECIFICATION FairRestartSpec
CONSTANTS
    s1 = s1
    s2 = s2
    s3 = s3
    Server = {s1, s2}
    Cmds = {c1}
    Nil = Nil
    MaxIndex = 2
    Rounds = {r1}
    Elections <- Handover
    Compactors = {s1, s2}
    MaxCrashes = 1
INVARIANTS
    LogsContiguous
    IndexOrder
    LeaderCanSend
PROPERTIES
    RepairedEverywhere
\* The bounds end every behaviour.
CHECK_DEADLOCK FALSE
