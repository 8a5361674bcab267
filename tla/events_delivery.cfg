SPECIFICATION FairSpec
CONSTANTS
  e1 = e1
  e2 = e2
  Events = {e1, e2}
  MaxConcurrent = 1
  MaxAttempts = 2
  MaxRuns = 4
  MaxFaults = 1
INVARIANTS
  TypeOK LeaseWindow RowNamesItsRun FailureIsExplained
PROPERTIES
  InboxSpec EventsSettle
