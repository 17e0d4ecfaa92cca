CONSTANTS
  Payments = {p1}
  Workers = {w1, w2}
  Relays = {r1}
  NoJob = NoJob
  FAILURE_THRESHOLD = 1
  MAX_RETRIES = 1
  DurableBank = TRUE
  Timely = FALSE
  Faults = {"crash", "lock", "job", "broker", "relay", "reap"}
  MaxFaults = 1
  MaxReapJobs = 1
  MaxAttempts = 2
SPECIFICATION Spec
SYMMETRY Symmetry
INVARIANTS
  TypeOK
  AuditTrail
  RowMatchesTrail
  VerdictAnnounced
  CompletedWasCharged
  AtMostOneCharge
  RetryIdFresh
PROPERTIES
  ImplementsLifecycle
  TerminalIsFinal
CHECK_DEADLOCK FALSE
