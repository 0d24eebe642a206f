SPECIFICATION Spec
CONSTANTS
  t1 = t1
  t2 = t2
  NoId = NoId
  Ids = {t1, t2}
  SectionConfig <- TwoSections
  ClearTime = 170000
  Requests <- SomeRequests
  Moments <- Seconds
INVARIANTS EveryLotOnce OnSchedule PlacedByTheEnd
PROPERTIES CancelIsFinal
CHECK_DEADLOCK FALSE
