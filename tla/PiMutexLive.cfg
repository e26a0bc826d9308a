SPECIFICATION FairSpec
CONSTANTS
  t1 = t1
  t2 = t2
  t3 = t3
  t4 = t4
  Tasks = {t1, t2, t3}
  Mutexes = {1, 2}
  MaxPrio = 2
  StartPrios <- StartThree
  Preemptible = {}
  MaxLocks = 2
  MaxSets = 0
CHECK_DEADLOCK FALSE
PROPERTY
  WaiterGetsMutex
