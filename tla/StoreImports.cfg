SPECIFICATION Spec
CONSTANTS
    Threads = {t1, t2}
    Principals = {a, b}
    System = System
    Ids = {i1, i2}
    Calls = {"import", "restore", "delete"}
    RetainedOperations = 1
    Attempts = 2
    MaxSchema = 1
    MaxOperations = 3
    MaxRequests = 2
    MaxChanges = 3
    None = None
    Refused = Refused
SYMMETRY Symmetry
INVARIANTS
    AcknowledgedIsStored
    ContentionIsReal
    ListenersSettle
PROPERTIES
    NothingOverwritten
