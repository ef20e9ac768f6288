CONSTANTS
  Tenants = {"home", "other"}
  Home = "home"
  Handlers = {"h"}
SPECIFICATION Spec
PROPERTY ServedIsCount
CHECK_DEADLOCK FALSE
