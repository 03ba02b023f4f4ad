SPECIFICATION Spec
CONSTANTS
    Validator = {0, 1}
    Author = {0}
    Leads <- OneLeads
    CheckpointAt = {1}
    CloseAt = 2
    HandoverAt = 2
    GcDepth = 0
    MaxUnreleased = 2
    MaxAhead = 2
    MaxUnordered = 2
    MaxSequence = 2
    MaxRound = 2
    MaxCrashes = 1
    MaxResumes = 1
    Restarting = {0}
INVARIANTS TypeOK SameBlocks ReleasedOnce  ReturnedNotOrdered
CHECK_DEADLOCK FALSE
