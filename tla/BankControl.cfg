CONSTANTS
  Workers = {w1}
  Keys = {k1}
  Requests = {r1, r2}
  FailNs = {1, 2}
  Absent = Absent
  FAILURE_THRESHOLD = 2
  MaxLate = 1
  MaxUpdates = 2
  MaxRestarts = 1
SPECIFICATION FairSpec
INVARIANTS
  TypeOK
  ChargePerKey
  HalfOpenProbed
PROPERTIES
  LatestConfigApplied
  BankHeals
CHECK_DEADLOCK FALSE
