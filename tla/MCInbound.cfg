SPECIFICATION FairSpec
CONSTANTS
  m1 = m1
  b1 = b1
  b2 = b2
  p1 = p1
  Mails = {m1}
  Mailboxes = {b1, b2}
  NoBox = NoBox
  Parts = {p1}
  PartsOf <- MCPartsOf
  MaxRetries = 1
  MaxRuns = 3
  MaxDuplicates = 1
  MaxCrashes = 1
  MaxEdits = 1
  MaxDisturbances = 1
  Entries = {"worker", "relay", "smtp"}
INVARIANTS
  TypeOK
  FiledOnce
  StoredIsComplete
  AnnouncedOnce
  HandledTruly
PROPERTY
  JobsEnd
CHECK_DEADLOCK FALSE
