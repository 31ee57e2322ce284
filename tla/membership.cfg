SPECIFICATION Spec
CONSTANTS
    User = {u1, u2, u3}
    House = {h1}
    Invitation = {i1, i2}
    Request = {r1, r2}
    Faulty = {}
    StatusColumn <- DeclinedAsWritten
    NULL = NULL
    u1 = u1
    u2 = u2
    u3 = u3
    h1 = h1
    i1 = i1
    i2 = i2
    r1 = r1
    r2 = r2
SYMMETRY Symmetry
INVARIANTS TypeOK OneFounder RootedInFounder
PROPERTIES RowsOnlyAge ImplementsRoster
