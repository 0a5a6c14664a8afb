SPECIFICATION FairSpec
CONSTANTS
  w1 = w1
  NoWa = NoWa
  NoRowId = NoRowId
  WaIds = {w1}
  Outgoing = {}
  TimeOf <- OneTimeOf
  Ids = {i1}
  Handlers = {h1}
  Agents = {}
  Times = {}
  Applied <- AllMigrations
  Slots = {s1}
  Requests = {q1}
  BatchSize = 2
  MaxPushes = 2
  MaxDeliveries = 1
  MaxFaults = 1
  MaxCrashes = 1
  Attempts = 3
  MaxProviders = 2
INVARIANT AttemptsBounded
PROPERTIES CallAdvances QueueDrains
