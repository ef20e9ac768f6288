SPECIFICATION FairSpec
CONSTANTS
  Handlers = {h1}
  Hooks = {w1}
  MaxInFlight = 2
  MaxCharges = 1
  Twice = TRUE
  Late = FALSE
  NoIds = {}
  Crashes = TRUE
CHECK_DEADLOCK FALSE
PROPERTY MoneyIsRecorded
