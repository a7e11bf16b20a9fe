SPECIFICATION FairSpec
CONSTANTS
  Callers = {c1, c2}
  Last = 2
  StepSets <- MCStepSets
  Attempts = 2
  MaxReset = 1
INVARIANTS
  RunsInOrder
  RepeatsBounded
PROPERTY
  RetryStops
