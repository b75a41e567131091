SPECIFICATION Spec
CONSTANTS
  o1 = o1
  c1 = c1
  c2 = c2
  r1 = r1
  r2 = r2
  NoCbt = NoCbt
  NoFile = NoFile
  Orders = {o1}
  Cbts = {c1, c2}
  Requests = {r1}
  Files = {1, 2, 3}
  DeliveryWindow = 1
  Extension = 1
  MaxDeadline = 1
  DisputeWindow = 1
  ReleaseAttempts = 2
  RedisFaults = FALSE
  DbFaults = FALSE
SYMMETRY CbtSymmetry
PROPERTIES
  ReassignsAtAnyTime
