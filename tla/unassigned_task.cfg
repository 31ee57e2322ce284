SPECIFICATION Spec
CONSTANTS
    User = {u1, u2}
    House = {1}
    Housework = {1}
    Task = {t1}
    Request = {r1}
    FrequencyOptional = TRUE
    AssigneeOptional = FALSE
    NULL = NULL
    u1 = u1
    u2 = u2
    t1 = t1
    r1 = r1
SYMMETRY Symmetry
PROPERTIES CreateStores
