SPECIFICATION OneByOneSpec
CONSTANTS
  h1 = h1
  h2 = h2
  w1 = w1
  w2 = w2
  Handlers = {h1, h2}
  Walks = {w1}
  Credits = 2
  MaxSubs = 2
  MaxBills = 1
  MaxPeriods = 2
SYMMETRY Symmetric
CHECK_DEADLOCK FALSE
INVARIANTS TypeOK NoFreeWalk PaidIsGranted CoveredIsPaid
