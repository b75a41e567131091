SPECIFICATION FairSpec
CONSTANTS
  d1 = d1
  d2 = d2
  h1 = h1
  h2 = h2
  NoDoc = NoDoc
  Uploads = {d1, d2}
  Calls = {h1, h2}
  BatchSize = 2
  Allowed <- SampleAllowed
INVARIANTS
  TypeOK
  ReferredIsKept
PROPERTIES
  StagedIsRemoved
CONSTRAINT Overlapping
CHECK_DEADLOCK FALSE
