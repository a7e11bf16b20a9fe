SPECIFICATION FairSpec
CONSTANTS
  None = None
  planned = planned
  review = review
  KindOf <- MCKindOf
  Jobs = {review}
  Workers = {w1}
  MaxAttempts = 2
  Batch = 1
  LastInsert = 0
  MaxTime = 3
  MaxAborts = 0
PROPERTY
  ReviewsDelivered
