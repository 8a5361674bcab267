SPECIFICATION FairSpec
CONSTANTS
  t1 = t1
  t2 = t2
  Tasks = {t1}
  OneShot = {}
  MaxConcurrent = 1
  MaxFaults = 0
PROPERTY
  EverySlotReleased
CHECK_DEADLOCK FALSE
