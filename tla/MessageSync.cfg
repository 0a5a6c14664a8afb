SPECIFICATION Spec
CONSTANTS
  w1 = w1
  w2 = w2
  o1 = o1
  NoWa = NoWa
  NoRowId = NoRowId
  WaIds = {w1, w2, o1}
  Outgoing = {o1}
  TimeOf <- MCTimeOf
  Ids = {i1, i2, i3}
  Handlers = {h1, h2}
  Agents = {a1}
  Times = {1, 4}
  Applied <- AllMigrations
  Slots = {}
  Requests = {}
  BatchSize = 1
  MaxPushes = 0
  MaxDeliveries = 3
  MaxFaults = 1
  MaxCrashes = 1
SYMMETRY Symmetries
INVARIANTS UniqueRows ConversationUpToDate
