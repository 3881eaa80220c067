SPECIFICATION Spec
CONSTANTS
    Threads = {t1, t2}
    Principals = {a}
    System = System
    Ids = {i1, i2}
    Calls = {"edit", "edit_text", "repair", "restore", "delete", "migrate"}
    RetainedOperations = 2
    Attempts = 2
    MaxSchema = 2
    MaxOperations = 3
    MaxRequests = 2
    MaxChanges = 3
    None = None
    Refused = Refused
SYMMETRY Symmetry
VIEW EditView
INVARIANTS
    EditFromFence
    EnvelopesSound
PROPERTIES
    MigrationLosesNothing
    BindingsKept
