\* One walk, three walkers, two attempts per search, no status written by hand.
CONSTANTS
  None = None
  Walkers = {w1, w2, w3}
  MaxAttempts = 2
  MaxOffers = 3
  RawStatuses = {}
  PaymentGate = TRUE
SYMMETRY Symmetric
SPECIFICATION Spec
INVARIANTS TypeOK SearchHasOffer ServedByAccepter CompletedOnApproval
