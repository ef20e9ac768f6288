SPECIFICATION Spec
CONSTANTS
  a1 = a1
  a2 = a2
  h1 = h1
  h2 = h2
  Handlers = {h1, h2}
  Users = {"u1", "u2"}
  Walks = {"w1", "w2"}
  Owner <- OwnerOf
  Covered = {"w1"}
  Limits = {1, 2}
  PerUser = 1
  Invited = {"walker"}
  BonusAfter = 1
  MaxWalks = 2
  Host = "host"
  Guests = {a1, a2}
  Owned = 2
  MaxTutors = 2
  MaxPets = 2
  MaxDogs = 3
  MaxRows = 3
  Served = {"walk"}
  Requests = {a1, a2}
  Share = 1
  Price = 2
  AutoPix = TRUE
  MaxLost = 1
  Commissioned = {a1, a2}
  MaxPeriod = 2
  MaxCharges = 2
  Tips = {a1, a2}
  Amounts = {1, 2}
  Subs = {a1, a2}
  MaxEvents = 2
SYMMETRY Symmetric
CHECK_DEADLOCK FALSE
INVARIANTS TypeOK FreeWalkIsCovered ReferralsPayOnce GroupIsSettled TransferredOnce
           NeverOverdrawn BooksMatchCharges  RowsMatchGateway OneNoteStands
PROPERTY RedeemsAtomically
