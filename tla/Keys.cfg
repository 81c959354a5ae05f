SPECIFICATION KeysSpec
CONSTANTS
    Ids = {1}
    Requests = {r1, r2}
    MaxKeys = 4
SYMMETRY Symmetry
INVARIANTS HandedOutOnce ListedHasPrivate SignedUntorn IdentityStable
