SPECIFICATION MCSpec
CONSTANTS
    g1 = g1
    Agv = {1, 2}
    Station <- Points
    Line = {12, 21, 23, 32, 15, 52, 24, 43, 36}
    Ends <- LineEnds
    Length <- Lengths
    Spot <- Spots
    Kind <- Kinds
    Group = {g1}
    Spirits <- Groups
    Infinity = 99
CHECK_DEADLOCK FALSE
INVARIANTS FrontierExact NearestHalt
PROPERTIES AnswersShortest
