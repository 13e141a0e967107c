\* Four overlapping calls about one device over the MongoDB registry, enough to
\* store it again while a call still holds a copy of the document before, and one
\* failing request or one killed process.
SPECIFICATION Spec
CONSTANTS
  DeviceId = {d1}
  Attr = {temperature}
  Req = {r1, r2, r3, r4}
  Ops <- AllOps
  Overlap = TRUE
  MaxFaults = 1
  None = None
SYMMETRY Calls
INVARIANTS TypeOK EntityCoversDocument
PROPERTIES RemovedStaysRemoved
CHECK_DEADLOCK FALSE
