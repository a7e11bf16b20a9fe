SPECIFICATION FairSpec
CONSTANTS
  Servers = {n1, n2}
  Nobody = Nobody
  Last = 2
  Ids = {s1}
  Requests = {r1, r2}
  None = None
  SessionTTL = 1
  MaxTime = 1
INVARIANTS
  SchemaSound
  SessionsEnd
PROPERTIES
  CleanExitLosesNothing
  StartsAndStops
