CONSTANTS
  AHEAD_DAYS = 1
  RETENTION_DAYS = 2
  MIGRATED_DAYS = 3
  MaxLag = 1
  MaxOutage = 2
SPECIFICATION Spec
INVARIANTS
  NothingLost
  InsertsHaveHome
  TableBounded
