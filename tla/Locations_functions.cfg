SPECIFICATION Spec
CONSTANTS
    MaxOps = 5
    MaxForms = 5
    MaxFunctions = 2
INVARIANT
    ReportsOwnFunction
CHECK_DEADLOCK FALSE
