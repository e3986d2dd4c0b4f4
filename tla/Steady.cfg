SPECIFICATION FairSpec
CONSTANTS
    a1 = a1
    a2 = a2
    t1 = t1
    t2 = t2
    Task = {t1, t2}
    Agv = {a1, a2}
    Slot = {w1, w2}
    NoTask = NoTask
    NoAgv = NoAgv
    Station <- LineStations
    Line <- LineLines
    Route <- LineRoute
    Halt = {}
    Congested = FALSE
    Home <- SteadyHome
    MaxPriority = 1
    Priority <- SteadyPriority
    Nodes <- SteadyNodes
    Assigned <- SteadyAssigned
    RunTimes <- SteadyRuns
    MayFail = {t2}
    Cancellable = {}
INVARIANTS TypeOK OneDriver HeldUntilDone DoingExact ServedInOrder
PROPERTIES EventuallyDone
