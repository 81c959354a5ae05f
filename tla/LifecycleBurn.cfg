SPECIFICATION Spec
CONSTANTS
    Messages = {m1}
    HasMedia = {m1}
    Timed = {m1}
    Unsendable = {m1}
    Receipted = {m1}
    Workers = {w1}
    BATCH_SIZE = 1
    MaxFaults = 0
INVARIANT BurnsOnlyAfterRead
CHECK_DEADLOCK FALSE
