SPECIFICATION Spec
CONSTANTS
  m1 = m1
  Mails = {m1}
  MaxRetries = 0
  MaxTickets = 1
  MaxRuns = 1
  MaxFaults = 0
INVARIANT
  FailedEventMeansUnsent
CHECK_DEADLOCK FALSE
