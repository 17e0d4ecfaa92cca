CONSTANTS
  SafeBits = 10
  MaxChars = 6
  Malformed = Malformed
  Error = Error
  Keys = {k1, k2}
  NoKey = NoKey
  Amounts <- MCAmounts
  Default <- MCDefault
  MaxOrphans = 1
  None = None
SPECIFICATION FairSpec
INVARIANTS
  ReplayIsDuplicate
  ResultIsStored
PROPERTIES
  SubmitEnds
CHECK_DEADLOCK FALSE
