SPECIFICATION LateSpec
CONSTANTS
  None = None
  coord = coord
  captain = captain
  officer = officer
  home = home
  abroad = abroad
  Users = {coord}
  Ports = {home, abroad}
  RoleOf <- MCRoleOf
  PermitOf <- MCPermitOf
  PortOf <- MCPortOf
  HoldOf <- MCHoldOf
  CargoOf <- MCCargoOf
  DailyLimit <- MCLimitOne
  Permits = {m1}
  Vessels = {b1, b2}
  Fleets = {f1, f2}
  Voyages = {v1, v2}
  Tasks = {}
  Anomalies = {}
  Keys = {k1}
  Seqs = {}
  DayLength = 2
  Cutoff = 1
  MaxVoyageDuration = 1
  Grace = 0
  TaskTTL = 1
  IdemTTL = 2
  Batch = 1
  CertTimes = {2, 5}
  StartTimes = {2, 3}
  MaxTime = 3
  Lag = 1
SYMMETRY Symmetry
CHECK_DEADLOCK FALSE
INVARIANTS
  FleetReservation
  ReplayableWhileLive
  VesselFollowsVoyage
  OnTimeNeverBlocked
PROPERTY
  BooksAsPromised

