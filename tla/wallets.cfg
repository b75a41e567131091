SPECIFICATION Spec
CONSTANTS
  o1 = o1
  o2 = o2
  h1 = h1
  h2 = h2
  NoOrder = NoOrder
  Orders = {o1, o2}
  Calls = {h1, h2}
  Prices <- SamplePrices
  Deposits = {2, 3}
  Payouts = {1}
  MaxOutside = 5
SYMMETRY Symmetry
INVARIANTS
  TypeOK
  NeverOverdrawn
  
  EscrowBacksOrders
CONSTRAINT FewLosses
CHECK_DEADLOCK FALSE
