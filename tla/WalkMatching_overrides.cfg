\* One walk, two walkers, two attempts per search, with statuses written by hand; no payment gate.
CONSTANTS
  None = None
  Walkers = {w1, w2}
  MaxAttempts = 2
  MaxOffers = 2
  RawStatuses = {"pending_walker_confirmation", "walker_arriving"}
  PaymentGate = FALSE
SYMMETRY Symmetric
SPECIFICATION Spec
PROPERTIES AnswersAreFinal AttemptBudget ExclusiveChoiceKept
