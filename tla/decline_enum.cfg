SPECIFICATION Spec
CONSTANTS
    User = {u1, u2}
    House = {h1}
    Invitation = {i1}
    Request = {r1}
    Faulty = {}
    StatusColumn <- DeclinedAsDeclared
    NULL = NULL
    u1 = u1
    u2 = u2
    h1 = h1
    i1 = i1
    r1 = r1
SYMMETRY Symmetry
PROPERTIES DeclineAnswers
