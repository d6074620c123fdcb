SPECIFICATION Spec
CONSTANTS
    s1 = s1
    s2 = s2
    s3 = s3
    Server = {s1, s2, s3}
    Cmds = {c1}
    Nil = Nil
    MaxIndex = 1
    Rounds = {r1, r2}
    Elections <- OneTerm
    Compactors = {s1, s2, s3}
    MaxCrashes = 0
SYMMETRY Symmetry
VIEW LiveState
INVARIANT BehindSnapshotIsRefused
CHECK_DEADLOCK FALSE
