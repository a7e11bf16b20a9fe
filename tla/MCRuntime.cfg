SPECIFICATION Spec
CONSTANTS
  None = None
  Jobs = {j1, j2}
  Processors = {p1, p2, p3}
  MaxAttempts = 2
  Lease = 1
  MaxClaims = 3
  MaxTime = 4
SYMMETRY Symmetry
CHECK_DEADLOCK FALSE
INVARIANTS
  OneOwner
  AnnouncedOnce
  OverrunByReclaim
PROPERTY
  LateOwnerPowerless
