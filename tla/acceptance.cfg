SPECIFICATION FairSpec
CONSTANTS
    User = {u1, u2}
    House = {h1}
    Invitation = {i1}
    Request = {r1, r2}
    Faulty = {r1, r2}
    StatusColumn <- DeclinedAsWritten
    NULL = NULL
    u1 = u1
    u2 = u2
    h1 = h1
    i1 = i1
    r1 = r1
    r2 = r2
INVARIANTS AcceptedHasRow
PROPERTIES AcceptanceCompletes
