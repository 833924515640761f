SPECIFICATION FairSpec
CONSTANTS
    Modes = {"cron", "interactive", "desktop"}
    MaxRuns = 1
    MaxEntityFailures = 2
    Capacity = 2
INVARIANTS
    TypeOK
    OneTerminalReport
    CompletedIsDurable
    NothingLost
PROPERTIES
    EveryRunIsReported
CHECK_DEADLOCK FALSE
