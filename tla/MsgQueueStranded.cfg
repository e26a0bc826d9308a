SPECIFICATION Spec
CONSTANTS
  Tasks = {t1, t2, t3}
  Destroyers = {}
  PrioCount = 2
  Capacity = 1
  Threshold = 1
  MaxSent = 4
CHECK_DEADLOCK FALSE
INVARIANT
  NoStrandedSender
