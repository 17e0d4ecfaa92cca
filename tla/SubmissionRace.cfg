CONSTANTS
  Requests <- MCRequests
  NoKey = ""
  Invalid = {"bad"}
  Unparseable = {"huge"}
  None = None
SPECIFICATION FairSpec
INVARIANTS
  TypeOK
  OnePaymentPerKey
  AcceptedIsDurable
  ConsistentAnswers
  LookupFinds
PROPERTIES
  ImplementsContract
  EveryRequestEnds
CHECK_DEADLOCK FALSE
