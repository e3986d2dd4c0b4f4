SPECIFICATION Spec
CONSTANTS
    Agv = {1, 2}
    MapChange = {3, 4}
    Floor <- Floors
    Paths <- UpAndDown
    MaxTries = 2
    MaxWire = 2
    MaxUpsets = 1
CHECK_DEADLOCK FALSE
INVARIANTS DoorHeld EndsAtItsEnd
PROPERTIES Promise RideEnds
