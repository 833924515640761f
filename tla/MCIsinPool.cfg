SPECIFICATION Spec
CONSTANTS
  Isins <- MCIsins
  Dates = {d1, d2}
  Worth <- MCWorth
  Class <- MCClass
  Sector <- MCSector
  NoSector = NoSector
  MaxWorkers = 2
INVARIANTS ValueIsWhole FailureIsTotal
PROPERTY PoolEnds
