SPECIFICATION LimitFairSpec
CONSTANTS
    Calls = {r1, r2}
    Phones = {p1}
    Registered = {p1}
    COOLDOWN = 1
    HOUR = 2
    MAX_PER_HOUR = 1
    MaxCount = 5
    MaxLost = 1
INVARIANTS CodesPerHour
PROPERTY LockoutEndsUnlessLost
CHECK_DEADLOCK FALSE
