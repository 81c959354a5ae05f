SPECIFICATION Spec
CONSTANTS
    Requests = {r1, r2, r3}
    OTP_TTL_SECONDS = 2
    OTP_MAX_ATTEMPTS = 2
    MaxIssues = 2
    MaxCounter = 3
SYMMETRY Symmetry
INVARIANTS BoundedGuesses OverLimitIsBurned AcceptedOnce
PROPERTY CounterOutlivesCode
CHECK_DEADLOCK FALSE
