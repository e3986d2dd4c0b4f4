SPECIFICATION Spec
CONSTANTS
    MaxRuns = 3
    MaxUpsets = 3
PROPERTIES
    Promise
    ChargeEnds
CHECK_DEADLOCK FALSE
