SPECIFICATION PlanSpec
CONSTANTS
    Requests <- MCRequests
    Configs <- MCConfigs
    Rowless <- MCRowless
    OtherTables <- MCOtherTables
    MaxRuns = 2
INVARIANTS
    PlanIsLeastAndOrdered
    BuiltFromFinishedInputs
    StoreIsOneRun
CHECK_DEADLOCK FALSE
