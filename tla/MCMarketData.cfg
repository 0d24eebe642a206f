SPECIFICATION FairSpec
CONSTANTS
  a = a
  b = b
  Tickers = {a, b}
  None = None
  MaxFrames = 3
  MaxLosses = 2
  MaxRefusals = 1
  MaxStarts = 2
INVARIANTS NothingForgotten LoggedInHasApi
PROPERTIES EverySubscriptionServed
CHECK_DEADLOCK FALSE
