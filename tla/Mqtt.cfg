\* Two POSTs, a broken connection, a crash and a change of a group.
SPECIFICATION Spec
CONSTANTS
  d1 = d1
  d2 = d2
  s1 = s1
  s2 = s2
  k1 = k1
  k2 = k2
  r1 = r1
  r2 = r2
  None = None
  Devices = {d1, d2}
  Services = {s1, s2}
  Keys = {k1, k2}
  Requests = {r1, r2}
  DefaultKey = k2
  Body <- Bodies
  Groups <- OneGroup
  Persistent = TRUE
  MaxEvents = 1
  ServiceOf <- Headers
  Changes <- GroupRemoved
  Removable = {d1}
INVARIANTS TypeOK 
PROPERTIES EveryPostAnswered
CHECK_DEADLOCK FALSE
