SPECIFICATION FairSpec
CONSTANTS
    v1 = v1
    v2 = v2
    b1 = b1
    b2 = b2
    Agv = {v1, v2}
    Block = {b1, b2}
    Spirit <- Spirits
    BlocksOf <- Blocks
    Station <- Stations
    Line <- Lines
    Ends <- LineEnds
    Routes <- Ways
    Home <- Homes
    MaxTrips = 2
    Cancellable = {v2}
CHECK_DEADLOCK FALSE
INVARIANTS TypeOK SharedOnlyByOverlap HoldsItsRoad NothingKept
PROPERTIES TripsEnd
