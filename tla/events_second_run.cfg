SPECIFICATION Spec
CONSTANTS
  e1 = e1
  e2 = e2
  Events = {e1}
  MaxConcurrent = 1
  MaxAttempts = 2
  MaxRuns = 3
  MaxFaults = 1
INVARIANT
  OneRunPerEvent
