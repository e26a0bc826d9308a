SPECIFICATION Spec
CONSTANTS
  t1 = t1
  t2 = t2
  t3 = t3
  t4 = t4
  Tasks = {t1, t2, t3}
  Mutexes = {1, 2}
  MaxPrio = 2
  StartPrios <- StartThree
  Preemptible = {t1, t2}
  MaxLocks = 2
  MaxSets = 1
CHECK_DEADLOCK FALSE
INVARIANTS
  TypeOK
  MutualExclusion
  OwnerAndWaitersAgree
  HeldCountExact
  FloorCoversWaiters
  QueuedOwnerNotOvertaken
PROPERTY
  HandOffToWaiter
