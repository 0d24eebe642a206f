SPECIFICATION Spec
CONSTANTS
  a1 = a1
  a2 = a2
  r1 = r1
  r2 = r2
  Null = Null
  Accounts = {a1, a2}
  Rows = {r1, r2}
  need_authenticate = FALSE
  need_settleConfirm = TRUE
  Refusable <- LateQueries
  Failing <- AnythingButOrders
  AskedRows <- WholeAccount
  MaxDisconnects = 1
  MaxCloses = 1
  MaxQueries = 0
INVARIANTS CountedOnce LocksBeforeTrades
SYMMETRY Symmetry
CHECK_DEADLOCK FALSE
