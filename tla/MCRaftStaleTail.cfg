SPECIFICATION Spec
CONSTANTS
    s1 = s1
    s2 = s2
    s3 = s3
    Server = {s1, s2, s3}
    Cmds = {c1}
    Nil = Nil
    MaxIndex = 3
    Rounds = {r1}
    Elections <- Course
    Compactors = {}
    MaxCrashes = 0
VIEW CourseState
CONSTRAINT OnCourse
INVARIANT StateMachineSafety
CHECK_DEADLOCK FALSE
