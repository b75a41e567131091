SPECIFICATION FairSpec
CONSTANTS
  Requests = {r1, r2}
  Calls = {c1, c2}
  Allowed <- SampleAllowed
INVARIANTS
  TypeOK
  EndedStaysEnded
PROPERTIES
  SessionKept
  RequestsSettle
CHECK_DEADLOCK FALSE
