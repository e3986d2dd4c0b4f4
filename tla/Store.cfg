SPECIFICATION Spec
CONSTANTS
    Task = {"long", "short"}
    Nodes <- NodesOf
    Map = {"plain", "quoted"}
    NoMap = "nothing"
    Quoted = {"quoted"}
    MaxSettings = 2
    MaxCrashes = 1
CHECK_DEADLOCK FALSE
PROPERTIES Promise
