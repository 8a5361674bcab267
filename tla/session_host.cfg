SPECIFICATION FairSpec
CONSTANTS
  k1 = k1
  k2 = k2
  k3 = k3
  Keys = {k1, k2, k3}
  MaxRuns = 3
  MaxEntries = 2
  MaxRecycles = 1
  MaxFailures = 1
INVARIANTS
  TypeOK WithinCapacity OneTurnPerConversation TurnKeepsItsProcess NoLostWakeup NothingOutlivesStop
PROPERTIES
  RunsEnd
CHECK_DEADLOCK FALSE
