SPECIFICATION FairSpec
CONSTANTS
    Messages = {m1, m2}
    HasMedia = {m1}
    Timed = {m1, m2}
    Unsendable = {m1}
    Receipted = {m1}
    Workers = {w1}
    BATCH_SIZE = 1
    MaxFaults = 1
INVARIANTS SeenIsStored RetractedNotInHistory DestructionIsComplete WipedIsAnnounced ReadReceiptIsTrue
PROPERTY EventuallyDestructed
CHECK_DEADLOCK FALSE
