SPECIFICATION FairSpec
CONSTANTS
    Email = {e1, e2}
    User = {u1, u2}
    Pair = {p1, p2, p3}
    Request = {r1, r2}
    NULL = NULL
    e1 = e1
    e2 = e2
    u1 = u1
    u2 = u2
    p1 = p1
    p2 = p2
    p3 = p3
    r1 = r1
    r2 = r2
INVARIANTS TypeOK OneRowPerEmail HeldTokensNameHolder LogoutIsFinal LineageEndsAtHeir
PROPERTIES SomeLoginSucceeds
