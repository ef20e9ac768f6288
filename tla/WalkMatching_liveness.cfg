\* Liveness (no symmetry): one walk, two walkers, two attempts per search, no status written by hand.
CONSTANTS
  None = None
  Walkers = {w1, w2}
  MaxAttempts = 2
  MaxOffers = 3
  RawStatuses = {}
  PaymentGate = TRUE
SPECIFICATION FairSpec
PROPERTY SearchEnds
