SPECIFICATION Spec
CONSTANTS
    v1 = v1
    v2 = v2
    v3 = v3
    v4 = v4
    d1 = d1
    d2 = d2
    Validator = {v1, v2, v3}
    Seat <- SevenSeats
    Holder <- SevenHolder
    Byzantine = {v1}
    Author = v1
    AuthorSeat = 1
    Digest = {d1, d2}
    NoDigest = NoDigest
    FaultySignal <- FaultyButVote
    MaxCrashes = 1
VIEW View
SYMMETRY DigestSymmetry
INVARIANTS TypeOK Agreement NoContradiction Totality
PROPERTY Broadcasts
CHECK_DEADLOCK FALSE
