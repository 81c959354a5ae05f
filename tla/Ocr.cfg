SPECIFICATION MCSpec
CONSTANTS
    Files = {f1, f2}
    Keywords = {k}
    Setters = {s1, s2}
    Conns = {c1, c2}
    c1 = c1
    c2 = c2
    f1 = f1
    f2 = f2
    p1 = p1
    p2 = p2
    Host <- MCHost
    Replicas = {p1, p2}
    OCR_ALERT_HISTORY_LIMIT = 1
INVARIANTS KeywordsAsRequested HistoryBounded TempRemoved AlertKept
PROPERTY AlertArrives
