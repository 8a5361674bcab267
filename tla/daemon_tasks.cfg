SPECIFICATION FairSpec
CONSTANTS
  t1 = t1
  t2 = t2
  Tasks = {t1, t2}
  OneShot = {t2}
  MaxConcurrent = 1
  MaxFaults = 1
INVARIANTS
  TypeOK NoIdleSlotWithQueue
PROPERTIES
  OneShotsFireOnce SlotsComeBack QueueMoves
CHECK_DEADLOCK FALSE
