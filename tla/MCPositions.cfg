SPECIFICATION PosSpec
CONSTANTS
  o1 = o1
  f1 = f1
  Own = {o1}
  Foreign = {f1}
  SplitsToday = TRUE
  Yesterday <- LongOfTwo
  Wishes = {"auto", "closeToday", "closeYesterday"}
  Volumes = {1, 2}
  InsertFails = TRUE
  MaxDisconnects = 1
INVARIANTS NothingOverclosed ChosenClosesCovered NoLockLeft LiveOrdersLocked LockedOnce
CHECK_DEADLOCK FALSE
