SPECIFICATION Spec
CONSTANTS
  t1 = t1
  t2 = t2
  Tasks = {t1, t2}
  OneShot = {}
  MaxConcurrent = 1
  MaxFaults = 0
PROPERTY
  QueuedTriggersRun
CHECK_DEADLOCK FALSE
