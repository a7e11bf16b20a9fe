SPECIFICATION Spec
CONSTANTS
  None = None
  coord = coord
  captain = captain
  officer = officer
  home = home
  abroad = abroad
  Users = {coord, captain, officer}
  Ports = {home, abroad}
  RoleOf <- MCRoleOf
  PermitOf <- MCPermitOf
  PortOf <- MCPortOf
  HoldOf <- MCHoldOf
  CargoOf <- MCCargoOf
  DailyLimit <- MCLimitTwo
  Permits = {m1}
  Vessels = {b1}
  Fleets = {f1}
  Voyages = {v1}
  Tasks = {t1}
  Anomalies = {a1}
  Keys = {k1}
  Seqs = {s1}
  DayLength = 2
  Cutoff = 1
  MaxVoyageDuration = 1
  Grace = 1
  TaskTTL = 1
  IdemTTL = 2
  Batch = 1
  CertTimes = {0, 2}
  StartTimes = {0}
  MaxTime = 3
  Lag = 0
CHECK_DEADLOCK FALSE
INVARIANT
  CancellationReleases
