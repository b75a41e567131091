SPECIFICATION FairSpec
CONSTANTS
  f1 = f1
  f2 = f2
  h1 = h1
  h2 = h2
  NoFunding = NoFunding
  Fundings = {f1, f2}
  Irregular = {f1}
  Calls = {h1, h2}
INVARIANTS
  TypeOK
  CreditedAtMostOnce
  LedgerAgrees
  NothingForNothing
PROPERTIES
  PaidIsCredited
CONSTRAINT RaceOrSweep
