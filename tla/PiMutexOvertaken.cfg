SPECIFICATION Spec
CONSTANTS
  t1 = t1
  t2 = t2
  t3 = t3
  t4 = t4
  Tasks = {t1, t2, t3, t4}
  Mutexes = {1}
  MaxPrio = 2
  StartPrios <- StartFour
  Preemptible = {t1, t2, t3}
  MaxLocks = 1
  MaxSets = 1
CHECK_DEADLOCK FALSE
INVARIANT
  OwnerNotOvertaken
