SPECIFICATION Spec
CONSTANTS
    a1 = a1
    a2 = a2
    t1 = t1
    t2 = t2
    Task = {t1, t2}
    Agv = {a1}
    Slot = {w1, w2}
    NoTask = NoTask
    NoAgv = NoAgv
    Station <- LineStations
    Line <- LineLines
    Route <- LineRoute
    Halt = {3}
    Congested = TRUE
    Home <- CancelHome
    MaxPriority = 0
    Priority <- CancelPriority
    Nodes <- CancelNodes
    Assigned <- CancelAssigned
    RunTimes <- CancelRuns
    MayFail = {}
    Cancellable = {t1, t2}
INVARIANTS OneHolder NoLostTask VehicleAgrees
PROPERTIES GoneForGood
CHECK_DEADLOCK FALSE
