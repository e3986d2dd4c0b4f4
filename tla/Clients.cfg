SPECIFICATION Spec
CONSTANTS
    c1 = c1
    c2 = c2
    position = position
    Client = {c1, c2}
    Web = {c2}
    Topic = {position}
    Positions = {position}
    Name = {"", "ann", "bob", "cy"}
    Agendas <- MCAgendas
    MaxAsks = 2
INVARIANTS RemovedAreOut ListsFit ToldAreListed RegistryFits
PROPERTIES KeepsPublishing
CHECK_DEADLOCK FALSE
