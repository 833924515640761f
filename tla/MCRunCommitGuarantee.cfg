SPECIFICATION Spec
CONSTANTS
    MaxRun = 2
    NoRun = NoRun
    Runs <- MCRuns
INVARIANT NeverFalselyRolledBack
