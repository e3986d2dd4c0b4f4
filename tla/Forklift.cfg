SPECIFICATION Spec
CONSTANTS
    Lines = 2
    Backward = {}
    Blocks = {{2}, {4}}
    MaxLinks = 2
    MaxWire = 2
    MaxUpsets = 1
CHECK_DEADLOCK FALSE
INVARIANTS NoVainWait
PROPERTIES Promise OrderArrives TaskEnds
