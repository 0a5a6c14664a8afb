SPECIFICATION Spec
CONSTANTS
  w1 = w1
  w2 = w2
  o1 = o1
  NoWa = NoWa
  NoRowId = NoRowId
  WaIds = {w1, w2}
  Outgoing = {}
  TimeOf <- FlatTimeOf
  Ids = {i1, i2}
  Handlers = {h1}
  Agents = {}
  Times = {}
  Applied <- AllMigrations
  Slots = {s1, s2}
  Requests = {q1}
  BatchSize = 2
  MaxPushes = 2
  MaxDeliveries = 2
  MaxFaults = 1
  MaxCrashes = 1
SYMMETRY AlsoMessages
INVARIANTS TypeOK UniqueRows NothingVanishes OldestFirst ImportantListed
PROPERTY PromiseKept
