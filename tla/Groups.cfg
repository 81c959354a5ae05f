SPECIFICATION Spec
CONSTANTS
    Users = {u1, u2}
    Owner = owner
    Requests = {r1, r2, r3}
SYMMETRY Symmetry
INVARIANTS AuditedOnce ApprovedIsMember MismatchNeedsRace
