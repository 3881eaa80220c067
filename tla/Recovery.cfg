SPECIFICATION Spec
CONSTANTS
  Threads = {t1, t2}
  Docs = {1, 2}
  Targets = {1}
  Plan = 2
  Calls = {"export", "quarantine", "repair", "reindex", "reset", "get", "list", "verify", "inspect", "audit", "commit", "store_or_register"}
  Faults = {"torn", "misfiled", "operation"}
  MaxCalls = 2
  MaxFaults = 1
  MaxServices = 2
  Torn = Torn
  OtherFormat = OtherFormat
  None = None
INVARIANTS FaultsKept RepairMends CommitsKept AnswersAreTrue
CHECK_DEADLOCK FALSE
SYMMETRY ThreadSymmetry
