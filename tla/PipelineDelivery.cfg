CONSTANTS
  Payments = {p1, p2}
  Workers = {w1}
  Relays = {r1, r2}
  NoJob = NoJob
  FAILURE_THRESHOLD = 1
  MAX_RETRIES = 0
  DurableBank = TRUE
  Timely = TRUE
  Faults = {"crash", "lock", "relay"}
  MaxFaults = 1
  MaxReapJobs = 1
  MaxAttempts = 1
SPECIFICATION FairSpec
INVARIANTS
  PublishedHasJob
PROPERTIES
  AcceptedSettles
CHECK_DEADLOCK FALSE
