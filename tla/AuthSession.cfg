SPECIFICATION Spec
CONSTANTS
    Handlers = {h1, h2, h3}
    Tickets = {t1}
    MaxLogins = 2
    MaxSuspends = 2
SYMMETRY Symmetry
INVARIANTS SerialRotationKillsTokens
PROPERTY OnlyActivationLiftsSuspension
CHECK_DEADLOCK FALSE
