SPECIFICATION Spec
CONSTANTS
    User = {u1, u2}
    House = {1, 2}
    Housework = {1, 2}
    Task = {t1}
    Request = {r1}
    FrequencyOptional = TRUE
    AssigneeOptional = TRUE
    NULL = NULL
    u1 = u1
    u2 = u2
    t1 = t1
    r1 = r1
SYMMETRY Symmetry
INVARIANTS TypeOK
PROPERTIES WritesByMembers AssignmentOfOneCall DeletedStays
