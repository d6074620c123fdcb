\* A leader of term 1, another of term 2, two entries.
SPECIFICATION Spec
CONSTANTS
    s1 = s1
    s2 = s2
    s3 = s3
    Server = {s1, s2, s3}
    Cmds = {c1}
    Nil = Nil
    MaxIndex = 2
    Rounds = {r1}
    Elections <- Handover
    Compactors = {}
    MaxCrashes = 0
SYMMETRY Symmetry
VIEW LiveState
INVARIANTS
    MatchIndexTruthful
    ReplicatedIsCommitted
PROPERTIES
    LeaderAppendOnly
    NeverGoesBack
\* The bounds end every behaviour.
CHECK_DEADLOCK FALSE
