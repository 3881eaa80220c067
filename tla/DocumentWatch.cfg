CONSTANTS
    Window = 2
    Threads = 2
    MaxChanges = 4
    MaxConnections = 2
    MaxResyncs = 1
    MaxUnsent = 1
SPECIFICATION Spec
INVARIANT HeldIsWhole
INVARIANT CaughtUp
INVARIANT EndedLeavesNone
CHECK_DEADLOCK FALSE
