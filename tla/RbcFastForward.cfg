SPECIFICATION FastForwardSpec
CONSTANTS
    v1 = v1
    v2 = v2
    v3 = v3
    v4 = v4
    d1 = d1
    d2 = d2
    Validator = {v1, v2, v3, v4}
    Seat = {v1, v2, v3, v4}
    Holder <- FlatHolder
    Byzantine = {v1}
    Author = v1
    AuthorSeat = v1
    Digest = {d1, d2}
    NoDigest = NoDigest
    FaultySignal <- FaultyReady
    MaxCrashes = 0
VIEW View
SYMMETRY FlatSymmetry
INVARIANTS Agreement
CHECK_DEADLOCK FALSE
