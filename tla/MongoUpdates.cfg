\* A device registered without lazy attributes and updated twice, one call
\* after the other: UpdatedIfExisting is violated.
SPECIFICATION Spec
CONSTANTS
  DeviceId = {d1}
  Attr = {temperature}
  Req = {r1, r2, r3}
  Ops <- Updates
  Overlap = FALSE
  MaxFaults = 0
  None = None
SYMMETRY Calls
PROPERTIES UpdatedIfExisting
CHECK_DEADLOCK FALSE
