SPECIFICATION Spec
CONSTANTS
    Own = {e1, e2}
    Others = {o1}
    None = None
    Blocks = {"dependencyBlocked", "policyConflict"}
    Takes = {TRUE, FALSE}
    Liberties = {}
    MaxEdits = 2
    MaxCopies = 2
    MaxEvents = 3
SYMMETRY Symmetry
CHECK_DEADLOCK FALSE
INVARIANTS
    EditsKept
    OthersKept
    EditedOnce
    SessionAgrees
