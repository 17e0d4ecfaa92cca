CONSTANTS
  Payments = {p1}
  Workers = {w1}
  Relays = {r1}
  NoJob = NoJob
  FAILURE_THRESHOLD = 2
  MAX_RETRIES = 0
  DurableBank = FALSE
  Timely = TRUE
  Faults = {"broker"}
  MaxFaults = 1
  MaxReapJobs = 1
  MaxAttempts = 2
SPECIFICATION FairSpec
PROPERTIES
  AcceptedSettles
CHECK_DEADLOCK FALSE
