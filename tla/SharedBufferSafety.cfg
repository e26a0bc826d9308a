SPECIFICATION Spec
CONSTANTS
  Tasks = {t1, t2}
  Pages = {p1, p2, p3}
  TableSize = 2
  MaxIds = 3
SYMMETRY Symmetric
CHECK_DEADLOCK FALSE
INVARIANTS
  TypeOK
  RefcountIsMappings
  TableNamesLive
  BusyProtectsMappings
  DescriptorsAccountedFor
