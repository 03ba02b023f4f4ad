SPECIFICATION Spec
CONSTANTS
    v1 = v1
    v2 = v2
    v3 = v3
    a1 = a1
    a2 = a2
    a3 = a3
    b1 = b1
    b2 = b2
    b3 = b3
    far = far
    None = None
    Seat <- FourSeats
    index <- IndexOf
    prev <- PrevOf
    Validator = {v1, v2, v3}
    Holder <- HeavyHolder
    Byzantine = {v3}
    Checkpoint = {a1, b1}
    Window = 2
    KeptCertificates = 1
    PruneLag = 1
    MaxRestarts = 1
INVARIANTS Accountability EvidenceSound
CHECK_DEADLOCK FALSE
