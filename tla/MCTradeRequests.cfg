SPECIFICATION FairSpec
CONSTANTS
  d = d
  w = w
  t1 = t1
  Sys = Sys
  None = None
  Strategies = {d, w}
  Direct = d
  Configurations <- NamedOrDefaultOrNot
  Threads = {t1}
  RidRange = 3
  CopyId = 0
  MaxRuns <- TwoOfW
  MaxRequests <- OneOfW
  MaxStarts = 2
INVARIANTS TakenOnce NothingLeftAtEnd AnswersReachAsker
PROPERTIES LoginsAcknowledged RequestsAnswered
CHECK_DEADLOCK FALSE
