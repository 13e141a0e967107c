\* Two requests of any kind, results at any time.
SPECIFICATION Spec
CONSTANTS
  r1 = r1
  r2 = r2
  d1 = d1
  d2 = d2
  move = move
  stop = stop
  temp = temp
  ghost = ghost
  Requests = {r1, r2}
  Devices <- TwoDevices
  Commands <- TwoCommands
  DeviceCommands <- Declared
  DeviceTrust <- Trusts
  TypeCommands <- TypesDeclare
  TypeTrust <- TypesTrust
  Typed <- SomeTyped
  LateHandlers <- Late
  MaxResults = 1
  Bodies <- SomeBodies
INVARIANTS TypeOK OnlyTrustedCalls AnsweredOkMeansPending PendingMeansDelivered
PROPERTIES EveryRequestAnswered
CHECK_DEADLOCK FALSE
