SPECIFICATION Spec
CONSTANTS
    AccessMinutes = 30
    RefreshDays = 7
    Never = Never
INVARIANTS AccessLastsMinutes
CHECK_DEADLOCK FALSE
