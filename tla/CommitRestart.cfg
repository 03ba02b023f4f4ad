SPECIFICATION Spec
CONSTANTS
    a = a
    b = b
    c = c
    s1 = s1
    s2 = s2
    s3 = s3
    s4 = s4
    Validator = {a, b, c}
    Seat = {s1, s2, s3, s4}
    Holder <- PairHolder
    Byzantine = {c}
    Skip = Skip
    Slots = 1
    Draw <- DrawSwapped
    Lookahead = 1
    Closes <- AtEvery
    Ends <- AtSecond
    GcDepth = 0
    MaxAhead = 1
    Retry = FALSE
    Shown <- ShowAll
    Delivered <- LeaveOutB
    FaultyRound = {0}
    MaxRound = 3
    Restarting = {b}
    MaxCrashes = 1
    MaxResumes = 1
VIEW RestartView
INVARIANTS  SlotAgreement
PROPERTY OneVertexPerRound
CHECK_DEADLOCK FALSE
