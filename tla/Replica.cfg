CONSTANTS
    Plan <- BoardPlan
    PlanOrder <- BoardOrder
    KindOf <- MCKindOf
    Writers = {1, 2}
    Ids = {"i"}
    Keys = {"k"}
    EditSize = 1
    MaxEdits = 4
    MaxPrepared = 1
    None = None
    Null = Null
SPECIFICATION Spec
INVARIANTS ReadsBack AcceptedWhole TextKept
PROPERTIES JudgedMerge
CHECK_DEADLOCK FALSE
