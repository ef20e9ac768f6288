SPECIFICATION Spec
CONSTANTS
  h1 = h1
  h2 = h2
  w1 = w1
  w2 = w2
  Handlers = {h1, h2}
  Walks = {w1}
  Credits = 1
  MaxSubs = 1
  MaxBills = 1
  MaxPeriods = 1
SYMMETRY Symmetric
CHECK_DEADLOCK FALSE
INVARIANT GrantedOnce
