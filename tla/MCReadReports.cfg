SPECIFICATION FairReportSpec
CONSTANTS
  None = None
  coord = coord
  officer = officer
  home = home
  abroad = abroad
  Users = {coord, officer}
  Ports = {home, abroad}
  RoleOf <- MCRoleOf
  PermitOf <- MCPermitOf
  PortOf <- MCPortOf
  HoldOf <- MCHoldOf
  CargoOf <- MCCargoOf
  DailyLimit <- MCLimit
  Permits = {m1}
  Vessels = {b1, b2}
  Fleets = {f1}
  Voyages = {v1}
  Tasks = {t1}
  Anomalies = {a1}
  Keys = {k1}
  Seqs = {s1}
  DayLength = 2
  Cutoff = 1
  MaxVoyageDuration = 1
  Grace = 0
  TaskTTL = 1
  IdemTTL = 2
  Batch = 1
  CertTimes = {0, 2}
  StartTimes = {0}
  MaxTime = 2
CHECK_DEADLOCK FALSE
INVARIANTS
  BlockersWereReal
  CompletionWasReal
  VesselsNotBehind
PROPERTY
  HandoffResolves
