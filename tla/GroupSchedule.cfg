SPECIFICATION FairSpec
CONSTANTS
  t1 = t1
  t2 = t2
  t3 = t3
  Tasks = {t1, t2, t3}
  MaxInstances = 2
INVARIANTS
  TypeOK
  AttachedWhileRunning
  EntriesAccounted
PROPERTIES
  LeavesTheMap
  NeverStuck
CHECK_DEADLOCK FALSE
