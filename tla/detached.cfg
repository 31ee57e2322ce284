SPECIFICATION FairSpec
CONSTANTS
    User = {u1, u2}
    House = {h1, h2}
    Housework = {w1}
    Request = {r1}
    Slot = {k1, k2}
    Lasting = {h2}
    NULL = NULL
    u1 = u1
    u2 = u2
    h1 = h1
    h2 = h2
    w1 = w1
    r1 = r1

    k1 = k1
    k2 = k2
INVARIANTS TypeOK NamedByMembers
PROPERTIES GoneStaysSilent AnsweredIsHeard
