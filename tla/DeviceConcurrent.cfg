\* Overlapping calls, a failing Context Broker, every operation but PUT.
SPECIFICATION FairSpec
CONSTANTS
  DeviceId = {d1}
  Attr = {temperature}
  Req = {r1, r2, r3}
  Ops <- AllButPut
  Overlap = TRUE
  MaxFailures = 2
  MayClearLazy = TRUE
  None = None
INVARIANTS TypeOK EntityCoversRegistry
PROPERTIES RegisterNeverReplaces EveryCallEnds
\* Clients may stop calling: the agent then waits for ever.
CHECK_DEADLOCK FALSE
