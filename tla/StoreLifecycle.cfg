SPECIFICATION Spec
CONSTANTS
    Threads = {t1, t2}
    Principals = {a, b}
    System = System
    Ids = {i1, i2}
    Calls = {"import", "bootstrap", "seed", "restore", "reset"}
    RetainedOperations = 2
    Attempts = 2
    MaxSchema = 1
    MaxOperations = 3
    MaxRequests = 2
    MaxChanges = 3
    None = None
    Refused = Refused
SYMMETRY Symmetry
VIEW AuditView
INVARIANTS
    Audited
PROPERTIES
    HistoryAccepted
