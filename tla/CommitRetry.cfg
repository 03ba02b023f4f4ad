SPECIFICATION Spec
CONSTANTS
    a = a
    b = b
    c = c
    s1 = s1
    s2 = s2
    s3 = s3
    s4 = s4
    Validator = {a, b}
    Seat = {s1, s2, s3, s4}
    Holder <- MajorHolder
    Byzantine = {}
    Skip = Skip
    Slots = 1
    Draw <- DrawOne
    Lookahead = 1
    Closes <- AtEvery
    Ends <- Never
    GcDepth = 1
    MaxAhead = 3
    Retry = TRUE
    Shown <- ShowAll
    Delivered <- LeaveOutB
    FaultyRound = {0}
    MaxRound = 3
    Restarting = {a, b}
    MaxCrashes = 0
    MaxResumes = 2
PROPERTY OneVertexPerRound
CHECK_DEADLOCK FALSE
