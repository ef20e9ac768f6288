SPECIFICATION Spec
CONSTANTS
  Handlers = {"h1", "h2"}
  Solo = {"h"}
  Tenants = {"home", "other"}
  Home = "home"
  MaxVersion = 2
  Offers = {"o1"}
  Walks = {"t1", "t2", "w3"}
  Notices = {"t1", "t2"}
  MaxReminders = 2
  LogWindow = 2
  RetryBatch = 2
  MaxSignals = 5
  MaxCrashes = 1
  Walkers = {"t1", "t2", "w3"}
  MaxOffers = 2
  Workers = {"t1", "t2"}
  TTL = 2
  Patience = 1
  Lag = 1
  MaxEdits = 1
  Processes = {"p"}
  Strict = FALSE
  Slowness = 2
  MaxChanges = 2
  Budgets = {1, 2}
  Thresholds = {100}
  MaxSpend = 1
  MaxPeriods = 2
  Devices = {"d"}
  Users = {"ann", "adm"}
  Admins = {"adm"}
  MaxNotes = 1
  Talkers = {"t1", "t2"}
  MaxMessages = 2
  Replies = {"r1", "r2"}
  Statuses = {"resolved"}
  MaxFailures = 2
  Window = 2
  WithRedis = TRUE
  Records = {1, 2, 3}
  MaxPings = 3
  Batch = 2
  Page = 1
  AtHome = {1, 3}
  MaxCalls = 1
  MaxRows = 2
CHECK_DEADLOCK FALSE
INVARIANTS TypeOK OffersAgree TasksAreDoneOnce TenantIsCurrent 
