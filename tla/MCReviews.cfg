SPECIFICATION Spec
CONSTANTS
  None = None
  coord = coord
  captain = captain
  officer = officer
  home = home
  abroad = abroad
  Users = {coord, captain, officer}
  Ports = {home, abroad}
  RoleOf <- MCRoleOf
  PermitOf <- MCPermitOf
  PortOf <- MCPortOf
  HoldOf <- MCHoldOf
  CargoOf <- MCCargoOf
  DailyLimit <- MCLimitTwo
  Permits = {m1}
  Vessels = {b1, b2}
  Fleets = {f1}
  Voyages = {v1}
  Tasks = {t1}
  Anomalies = {a1, a2}
  Keys = {k1}
  Seqs = {s1, s2, s3}
  DayLength = 2
  Cutoff = 1
  MaxVoyageDuration = 1
  Grace = 0
  TaskTTL = 1
  IdemTTL = 4
  Batch = 1
  CertTimes = {0, 3}
  StartTimes = {1}
  MaxTime = 3
  Lag = 0
SYMMETRY Symmetry
CHECK_DEADLOCK FALSE
INVARIANTS
  TypeOK
  QuarantineOwned
  ReviewsBlockClosure
  OneReviewAtATime
  ClosureNeverStuck
  LandingNeverStuck
PROPERTIES
  QuarantineEndsByDecision
  SettledVesselsStay

