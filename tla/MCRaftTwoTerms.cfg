\* Two terms that any server may stand in, one entry of either of two commands.
SPECIFICATION Spec
CONSTANTS
    s1 = s1
    s2 = s2
    s3 = s3
    Server = {s1, s2, s3}
    Cmds = {c1, c2}
    Nil = Nil
    MaxIndex = 1
    Rounds = {r1}
    Elections <- AnyTwoTerms
    Compactors = {}
    MaxCrashes = 0
SYMMETRY Symmetry
VIEW LiveState
INVARIANTS
    TypeOK
    ElectionSafety
    ElectedOnce
    EntryIdentity
    DiskCurrent
PROPERTIES
    CommitsOnMajority
\* The bounds end every behaviour.
CHECK_DEADLOCK FALSE
