SPECIFICATION ParkSpec
CONSTANTS
  p1 = p1
  p2 = p2
  au = au
  NoCond = NoCond
  NoId = NoId
  NoTick = NoTick
  Ids = {p1, p2}
  Codes = {au}
  ClearTime = 170000
  Moments <- Clock
  Reports <- SomeReports
  Ticks <- SomeTicks
  Requests <- SomeRequests
  Actions <- SomeActions
INVARIANTS SentOnce SentForAReason RefsDiffer
PROPERTIES EndIsFinal TimedOrdersEnd
CHECK_DEADLOCK FALSE
