SPECIFICATION FairSpec
CONSTANTS
  a1 = a1
  a2 = a2
  r1 = r1
  r2 = r2
  Null = Null
  Accounts = {a1, a2}
  Rows = {r1, r2}
  need_authenticate = TRUE
  need_settleConfirm = TRUE
  Refusable <- AnyRequest
  Failing = {}
  AskedRows <- WholeAccount
  MaxDisconnects = 1
  MaxCloses = 0
  MaxQueries = 1
PROPERTY PositionsGetLoaded
CHECK_DEADLOCK FALSE
INVARIANT AllDoneIsAllCounted
