SPECIFICATION Spec
CONSTANTS
    Paths <- MCPaths
    Cat <- MCCat
    Name <- MCName
    Tables = {"statements", "currency", "inoutcome"}
    TableCat <- MCTableCat
    LastTable <- MCLastTable
    Cats = {"us_stock", "ledger"}
    Names = {"jan", "feb", "b1", "b2"}
    Contents = {v, w}
    Blank = {}
    None = None
    FullReplace = {"ledger"}
    ContentDrift = {"us_stock"}
    Optional = {"us_stock"}
    MaxRuns = 3
    MaxEdits = 2
SYMMETRY Interchangeable
INVARIANTS
    EvidenceVaulted
    SyncedIsLoadedUnlessSplit
    SuccessSyncs
    DriftCaught
    BronzeIsExact
PROPERTIES
    VaultKeepsEvidence
CHECK_DEADLOCK FALSE
