SPECIFICATION BoundedSpec
CONSTANTS
    User = {u1}
    Pair = {p1, p2, p3, p4}
    Request = {r1, r2}
    Revoking = TRUE
    Expiry = TRUE
    Crashes = TRUE
    NULL = NULL
    u1 = u1
    p1 = p1
    p2 = p2
    p3 = p3
    p4 = p4
    r1 = r1
    r2 = r2
SYMMETRY Symmetry
INVARIANTS TypeOK SpentIsGone HeirAfterBlackList ExchangesBounded RevokedStaysRevoked
PROPERTIES ImplementsLedger
