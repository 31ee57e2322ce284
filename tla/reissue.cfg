SPECIFICATION FairSpec
CONSTANTS
    User = {u1, u2}
    Pair = {p1, p2, p3}
    Request = {r1}
    Revoking = TRUE
    Expiry = FALSE
    Crashes = FALSE
    NULL = NULL
    u1 = u1
    u2 = u2
    p1 = p1
    p2 = p2
    p3 = p3
    r1 = r1
INVARIANTS LineageKeepsOwner
PROPERTIES HonestReissueSucceeds
