SPECIFICATION Spec
CONSTANTS
  Tasks = {t1, t2, t3}
  Destroyers = {t1}
  PrioCount = 2
  Capacity = 2
  Threshold = 1
  MaxSent = 3
CHECK_DEADLOCK FALSE
INVARIANTS
  TypeOK
  RingsHoldWhatIsUnread
  WaitListsAreTheBlocked
  NoLostRecvWakeup
  LowLevelNotStarved
PROPERTY
  ImplementsFifos
