CONSTANTS
    Refused = Refused
    None = None
    Missing = Missing
    Torn = Torn
    Int64 = 8
    FormatLimits <- MCFormats
    FixtureLength = 2
    FixtureLimit = 3
    ParamsName <- MCParamsName
    Files <- MCFiles
    Edited <- MCEdited
    Artefacts <- MCArtefacts
    Universe <- MCUniverse
    MaxRuns = 2
    MaxEdits = 1
    MaxTampers = 1
SPECIFICATION Spec
INVARIANTS RunsTell SchemasHold FixturesHold ReplicaTypesFit
CHECK_DEADLOCK FALSE
