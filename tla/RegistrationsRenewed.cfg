\* Clients that renew in time, a failing remote broker and a failing database.
SPECIFICATION FairSpec
CONSTANTS
  Req = {r1, r2, r3}
  MaxFailures = 1
  MaxFaults = 1
  RenewInTime = TRUE
  None = None
INVARIANTS TypeOK NeverForgotten TableCoversMap
PROPERTIES EventuallyRegistered
\* Clients may stop calling.
CHECK_DEADLOCK FALSE
