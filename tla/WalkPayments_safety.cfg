SPECIFICATION Spec
CONSTANTS
  Handlers = {h1, h2}
  Hooks = {w1, w2}
  MaxInFlight = 2
  MaxCharges = 1
  Twice = FALSE
  Late = TRUE
  NoIds = {"failed"}
  Crashes = TRUE
SYMMETRY Symmetric
CHECK_DEADLOCK FALSE
INVARIANT TypeOK
INVARIANT BooksMatchGateway
INVARIANT ReleasedIsPaid
INVARIANT BooksSettle
PROPERTY NoRegression
PROPERTY MoneyMovesTheWalk
