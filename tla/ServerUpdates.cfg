SPECIFICATION Spec
CONSTANTS
    Connections = {c1, c2}
    Application = Application
    Window = 2
    CommandLimit = 1
    Faults = {}
    MaxModifications = 2
    MaxCommands = 1
    MaxSubscriptions = 1
SYMMETRY Symmetry
VIEW View
CHECK_DEADLOCK FALSE
INVARIANTS
    UpdatedOnce
    CallersHold
    ClosedAnswered
