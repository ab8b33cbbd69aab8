SPECIFICATION Spec
CONSTANTS
    MaxOps = 5
    MaxForms = 4
    MaxFunctions = 3
INVARIANTS
    LocationFound
    ReportsNearby
CHECK_DEADLOCK FALSE
