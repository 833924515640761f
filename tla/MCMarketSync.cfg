SPECIFICATION Spec
CONSTANTS
  fx = fx
  us = us
  bm = bm
  Entities <- MCEntities
  ProviderOf <- MCProviderOf
  Calendars <- MCCalendars
  None = none
  LastDay = 3
  Buffer = 1
  MaxAge = 1
  MaxRuns = 2
  MaxLate = 1
INVARIANTS CacheIsSeamless VaultMatchesCache PublishedIsNewest
CHECK_DEADLOCK FALSE
