SPECIFICATION Spec
CONSTANTS
    Own = {e1}
    Others = {o1}
    None = None
    Blocks = {"dependencyBlocked", "policyConflict"}
    Takes = {TRUE, FALSE}
    Liberties = {"disconnect"}
    MaxEdits = 2
    MaxCopies = 3
    MaxEvents = 3
CHECK_DEADLOCK FALSE
INVARIANTS
    EditsKept
