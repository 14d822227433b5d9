SPECIFICATION Spec
CONSTANTS
  m1 = m1
  b1 = b1
  b2 = b2
  p1 = p1
  Mails = {m1}
  Mailboxes = {b1}
  NoBox = NoBox
  Parts = {p1}
  PartsOf <- MCPartsOf
  MaxRetries = 1
  MaxRuns = 2
  MaxDuplicates = 0
  MaxCrashes = 0
  MaxEdits = 0
  MaxDisturbances = 0
  Entries = {"worker"}
INVARIANT
  FailedForwardIsStored
CHECK_DEADLOCK FALSE
