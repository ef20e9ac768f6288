SPECIFICATION Spec
CONSTANTS
  h1 = h1
  h2 = h2
  t1 = t1
  t2 = t2
  Handlers = {h1, h2}
  Solo = {"h"}
  Subs = {"s1"}
  Kinds = {"units"}
  Cap = 1
  MaxUsed = 2
  Deals = {7}
  Given = {"under_review", "approved", "active", "resubmission_requested", "rejected", "blocked"}
  Required = {t1, t2}
  Tenants = {"home", "other"}
  Home = "home"
  Manuals = {"v1", "v2"}
  Topics <- TopicsOf
  Deeds = {"deed"}
  Missions = {"mission"}
  Gain = 1
  Prize = 1
  Fine = 1
  Fee = 2
  MaxBoosts = 1
  MaxPasswords = 3
  MaxVersion = 2
  MaxCodes = 1
  MaxAttempts = 2
  Bases = {10, 44, 70}
  MaxComplaints = 3
  MaxTexts = 3
SYMMETRY Symmetric
CHECK_DEADLOCK FALSE
INVARIANTS TypeOK PlanIsInForce  
PROPERTY WorksByLeave
