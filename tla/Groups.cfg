\* Four requests of the administration API in any interleaving.
SPECIFICATION Spec
CONSTANTS
  k1 = k1
  k2 = k2
  r1 = r1
  r2 = r2
  r3 = r3
  r4 = r4
  s1 = s1
  s2 = s2
  None = None
  Keys <- Pairs
  Requests <- FourRequests
  ServiceOf <- Owners
  Creations <- Lists
  Asked <- Division
  MayRename = FALSE
INVARIANTS TypeOK ManagerIsCurrent
PROPERTIES ImplementsDirectory EveryGroupRequestAnswered
CHECK_DEADLOCK FALSE
