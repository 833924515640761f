SPECIFICATION Spec
CONSTANTS
    MaxRun = 3
    NoRun = NoRun
    Runs <- MCRuns
INVARIANTS
    TypeOK
    ClaimsBacked
    SplitIsMarked
    SuccessLeavesNoSplit
PROPERTIES
    HistoryKept
    RunHistoryTruthful
    ProcessEnds
