SPECIFICATION FairSpec
CONSTANTS
  None = None
  planned = planned
  review = review
  KindOf <- MCKindOf
  Jobs = {planned, review, review2}
  Workers = {w1, w2}
  MaxAttempts = 2
  Batch = 2
  LastInsert = 1
  MaxTime = 2
  MaxAborts = 1
INVARIANTS
  DeliveriesCounted
  DeadWhenExhausted
PROPERTY
  AtomicPasses
  JobsEnd
