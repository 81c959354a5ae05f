SPECIFICATION Spec
CONSTANTS
    Users = {u1, u2}
    Requests = {r1, r2}
    MaxRows = 3
SYMMETRY Symmetry
INVARIANTS CountMatches OncePerUser NothingLeft InterruptedStaysEmpty
CHECK_DEADLOCK FALSE
