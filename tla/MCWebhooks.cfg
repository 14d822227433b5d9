SPECIFICATION FairSpec
CONSTANTS
  d1 = d1
  Deliveries = {d1}
  Limits = {1, 2}
  MaxRetries = 1
  MaxTickets = 2
  MaxRuns = 4
  MaxEvents = 2
INVARIANTS
  TypeOK
  AttemptsAreCounted
  RetryingIsPending
PROPERTIES
  PostsOnce
  DeliveriesEnd
CHECK_DEADLOCK FALSE
