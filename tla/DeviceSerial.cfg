\* Clients that wait for each answer; one call to the Context Broker may fail.
SPECIFICATION Spec
CONSTANTS
  DeviceId = {d1}
  Attr = {temperature}
  Req = {r1, r2, r3, r4, r5}
  Ops <- Provisioning
  Overlap = FALSE
  MaxFailures = 1
  MayClearLazy = FALSE
  None = None
SYMMETRY Calls
INVARIANTS RegistryMatchesBroker
PROPERTIES RemovedOnlyWhenExpired
CHECK_DEADLOCK FALSE
