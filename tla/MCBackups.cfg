SPECIFICATION FairSpec
CONSTANTS
  MaxJobs = 3
  MaxDay = 1
  Schedules <- MCSchedules
  Keeps = {1}
  MaxFaults = 1
INVARIANTS
  TypeOK
  ArchivesMatch
  OneScheduledADay
PROPERTIES
  InProgressIsKept
  RunsSettle
CHECK_DEADLOCK FALSE
