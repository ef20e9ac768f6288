SPECIFICATION Spec
CONSTANTS
  Handlers = {h1}
  Hooks = {w1}
  MaxInFlight = 2
  MaxCharges = 1
  Twice = TRUE
  Late = TRUE
  NoIds = {}
  Crashes = FALSE
CHECK_DEADLOCK FALSE
INVARIANT NoMoneyStuck
