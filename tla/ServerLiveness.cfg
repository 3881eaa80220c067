SPECIFICATION FairSpec
CONSTANTS
    Connections = {c1}
    Application = Application
    Window = 1
    CommandLimit = 1
    Faults = {"snapshot", "panic"}
    MaxModifications = 1
    MaxCommands = 2
    MaxSubscriptions = 1
CHECK_DEADLOCK FALSE
PROPERTIES
    CommandsAnswered
    ShutDownEnds
