SPECIFICATION Spec
CONSTANTS
    v1 = v1
    v2 = v2
    v3 = v3
    a1 = a1
    a2 = a2
    a3 = a3
    b1 = b1
    b2 = b2
    b3 = b3
    far = far
    None = None
    Seat <- FourSeats
    index <- IndexOf
    prev <- PrevOf
    Validator = {v1, v2}
    Holder <- MajorHolder
    Byzantine = {v2}
    Checkpoint = {a1, a2, a3, b1, far}
    Window = 2
    KeptCertificates = 1
    PruneLag = 2
    MaxRestarts = 1
INVARIANTS TypeOK NoDoubleSign VotesBounded
PROPERTIES LatestNeverFalls
CHECK_DEADLOCK FALSE
