SPECIFICATION FairSpec
CONSTANTS
  m1 = m1
  Mails = {m1}
  MaxRetries = 1
  MaxTickets = 2
  MaxRuns = 3
  MaxFaults = 1
INVARIANTS
  TypeOK
  FilesTravel
  ToldTruly
  ScheduledIsPending
PROPERTIES
  SendsOnce
  Settles
CHECK_DEADLOCK FALSE
