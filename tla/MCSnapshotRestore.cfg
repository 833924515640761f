SPECIFICATION Spec
CONSTANTS
    None = None
    Partial = Partial
    MaxRuns = 2
INVARIANTS
    TypeOK
    RolledBackIsIntact
    NewPairInstalled
    PreviousPairSurvives
    NeverMixed
CONSTRAINT Unraced
