CONSTANTS
  Slots = {s1, s2}
  MaxWrites = 2
  MaxFaults = 1
  MaxHides = 1
  None = None
  Failed = Failed
SPECIFICATION FairSpec
INVARIANTS
  EditsKept
PROPERTIES
  CatchesUp
CHECK_DEADLOCK FALSE
