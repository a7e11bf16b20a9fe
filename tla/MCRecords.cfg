SPECIFICATION Spec
CONSTANTS
  None = None
  Clients = {c1, c2}
  Permits = {p1, p2, p3}
  Slots = {s1}
  Versions = {1, 2}
  Batches = {b1}
  Events = {e1, e2}
  Streams = {t1}
  Generations = {1, 2}
  Payloads = {d1, d2}
  Keys = {k1}
  Hashes = {h1, h2}
SYMMETRY Symmetry
CHECK_DEADLOCK FALSE
INVARIANTS
  PermitTrail
  SlotExclusive
  BatchesConsistent
  AcceptedReplays
PROPERTY
  CheckpointsAdvance
