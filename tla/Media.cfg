SPECIFICATION FairSpec
CONSTANTS
    CHUNK_SIZE = 5
    Sizes = {6, 9, 11}
    MaxRequests = 3
    MaxAttempts = 3
INVARIANTS StoredIsTheFile StoredOnce ReportedIsStaged
PROPERTY Completes
CHECK_DEADLOCK FALSE
