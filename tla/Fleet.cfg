SPECIFICATION Spec
CONSTANTS
    g1 = g1
    Agv = {91, 92, 99}
    Operator = 99
    Station <- Points
    Line = {12, 21, 23, 32, 42}
    Ends <- LineEnds
    Length <- Lengths
    Spot <- Spots
    Kind <- Kinds
    Group = {g1}
    Spirits <- LastStation
    Row <- Rows
    Home <- Homes
    Infinity = 99
    Cancellable = {91}
    MaxTrips = 2
    MaxUpsets = 1
CHECK_DEADLOCK FALSE
INVARIANTS HoldsWhatItNeeds NothingKept
PROPERTIES Promise LinesFreed
