CONSTANTS
  Payments = {p1}
  Workers = {w1}
  Relays = {r1}
  NoJob = NoJob
  FAILURE_THRESHOLD = 2
  MAX_RETRIES = 1
  DurableBank = FALSE
  Timely = TRUE
  Faults = {}
  MaxFaults = 0
  MaxReapJobs = 1
  MaxAttempts = 2
SPECIFICATION Spec
INVARIANTS
  TerminalAnnounced
CHECK_DEADLOCK FALSE
