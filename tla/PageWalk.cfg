CONSTANTS
  Ids = {1, 2, 3, 4}
  Statuses = {open, settled}
  Inserted = open
  Limits = {1, 2}
  NoFilter = NoFilter
SPECIFICATION FairSpec
INVARIANTS
  NoneRepeated
  NoneSkipped
PROPERTIES
  WalkEnds
