\* Two subscriptions, two calls to end one, one update, two failing statements
\* and two restarts.
SPECIFICATION Spec
CONSTANTS
  Sub = {s1, s2}
  Unsub = {u1, u2}
  Update = {p1}
  MaxFaults = 2
  MaxCrashes = 2
  None = None
SYMMETRY Calls
INVARIANTS TypeOK EveryoneNotified EndedStaysSilent
\* Clients may have made all their calls.
CHECK_DEADLOCK FALSE
