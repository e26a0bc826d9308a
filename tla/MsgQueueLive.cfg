SPECIFICATION FairSpec
CONSTANTS
  Tasks = {t1, t2, t3}
  Destroyers = {}
  PrioCount = 1
  Capacity = 1
  Threshold = 1
  MaxSent = 3
CHECK_DEADLOCK FALSE
PROPERTIES
  BoundedWaitsReturn
  MessageMeetsReceiver
