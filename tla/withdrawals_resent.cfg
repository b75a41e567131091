SPECIFICATION Spec
CONSTANTS
  w1 = w1
  h1 = h1
  h2 = h2
  NoRequest = NoRequest
  NoRef = NoRef
  HandRef = HandRef
  Requests = {w1}
  Transfers = {1, 2}
  Calls = {h1}
INVARIANTS
  RetriedOnlyUnsent
CHECK_DEADLOCK FALSE
