SPECIFICATION RestartSpec
CONSTANTS
    s1 = s1
    s2 = s2
    s3 = s3
    Server = {s1, s2, s3}
    Cmds = {c1}
    Nil = Nil
    MaxIndex = 0
    Rounds = {}
    Elections <- TwoCandidates
    Compactors = {}
    MaxCrashes = 1
INVARIANT ElectionSafety
CHECK_DEADLOCK FALSE
