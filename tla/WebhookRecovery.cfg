CONSTANTS
  Events = {e1}
  Endpoints = {n1}
  Workers = {w1, w2}
  Relays = {r1}
  NoJob = NoJob
  MAX_WEBHOOK_ATTEMPTS = 2
  Timely = FALSE
  Faults = {"crash", "lock", "job", "broker", "dispatch", "reap"}
  MaxFaults = 1
SPECIFICATION FairSpec
INVARIANTS
  TypeOK
  BudgetHonest
  DeliveredWasReceived
PROPERTIES
  ImplementsDelivery
  DeliverySettles
CHECK_DEADLOCK FALSE
