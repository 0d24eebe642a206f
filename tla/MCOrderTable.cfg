SPECIFICATION TableSpec
CONSTANTS
  o1 = o1
  o2 = o2
  f1 = f1
  direct = direct
  None = None
  Own = {o1, o2}
  Foreign = {f1}
  ShortKeys = {o1}
  Endings <- SomeEnd
  TableSize = 2
  MaxSessions = 2
INVARIANTS LiveOrdersFound ReportsReachOwner TradesNotToOthers
CHECK_DEADLOCK FALSE
