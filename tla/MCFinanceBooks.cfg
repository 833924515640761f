CONSTANTS
    Accounts = {"bank", "wallet", "fund", "perks", "loan", "misc"}
    Role <- MCRole
    Illiquid = {"fund", "perks"}
    InvestmentGroup = {"fund"}
    IncomeCats = {"salary", "interest", "bonus", "relief", "gain", "tds"}
    NonCash = {"bonus"}
    Active = {"salary"}
    Dividend = {"interest"}
    Interest = {"interest"}
    Core = {"rent"}
    Today = 4
    NoDate = 0
    Bad = Bad
    Parent <- MCParent
    FallbackRate = 1
    DebtCutoff = 3
    Null = Null
    Batches <- MCBatches
    NoName = NoName
    Blank = Blank
    BaseCurrency = "INR"
    SchemeMap <- MCSchemeMap
    FundIsin <- MCFundIsin
    Etfs = {"E"}
    TaxType <- MCTaxType
    FundAccounts = {"fund"}
    StockAccounts = {"fund"}
    OpeningRows <- MCOpeningRows
    Deletable <- MCDeletable
    RuleSets <- MCRuleSets
    FirstRules <- MCFirstRules
    Positions <- MCPositions
    MacroRate <- MCMacroRate
    Inflation <- MCInflation
    Fallback = 6
    BudgetPct <- MCBudgetPct
    Target <- MCTarget
    Tolerance = 5
    MaxEntries = 4
SPECIFICATION BooksSpec
INVARIANTS
    BooksBalance
    IncomeTaxedOnce
CHECK_DEADLOCK FALSE
