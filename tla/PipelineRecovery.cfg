CONSTANTS
  Payments = {p1}
  Workers = {w1}
  Relays = {r1}
  NoJob = NoJob
  FAILURE_THRESHOLD = 1
  MAX_RETRIES = 1
  DurableBank = FALSE
  Timely = TRUE
  Faults = {"crash", "lock", "job", "broker", "relay", "reap"}
  MaxFaults = 2
  MaxReapJobs = 1
  MaxAttempts = 4
SPECIFICATION FairSpec
PROPERTIES
  InFlightSettles
CHECK_DEADLOCK FALSE
