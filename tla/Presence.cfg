SPECIFICATION FairSpec
CONSTANTS
    Conns = {c1, c2, c3}
    Replicas = {a1, a2}
    Messages = {m1}
    CONN_TTL_SECONDS = 1
    CrashAllowed = TRUE
INVARIANTS NoGhostPresence RegisteredIsOnline
PROPERTY EventuallyOffline
CHECK_DEADLOCK FALSE
