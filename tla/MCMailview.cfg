SPECIFICATION FairSpec
CONSTANTS
  m1 = m1
  m2 = m2
  Mails = {m1}
  None = None
  MaxEvents = 2
  MaxFetches = 1
INVARIANTS
  TypeOK
  CachesAreCurrent
  FeedbackIsCounted
PROPERTY
  ShownIsTrue
CHECK_DEADLOCK FALSE
