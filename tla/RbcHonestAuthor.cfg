SPECIFICATION FairSpec
CONSTANTS
    v1 = v1
    v2 = v2
    v3 = v3
    v4 = v4
    d1 = d1
    d2 = d2
    Validator = {v1, v2, v3}
    Seat <- FourSeats
    Holder <- FourHolder
    Byzantine = {v3}
    Author = v1
    AuthorSeat = 1
    Digest = {d1, d2}
    NoDigest = NoDigest
    FaultySignal <- FaultyEnds
    MaxCrashes = 1
INVARIANTS AuthorIntegrity
PROPERTY Delivers
CHECK_DEADLOCK FALSE
