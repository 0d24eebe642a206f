--------------------------- MODULE MCTradeRequests ---------------------------
(* An instance of TradeRequests for TLC: strategy w is started again, the   *)
(* direct strategy d does not log in.                                      *)
EXTENDS TradeRequests

CONSTANTS d, w, t1

OnlyW(n) == [s \in Strategies |-> IF s = w THEN n ELSE 0]
OneOfW == OnlyW(1)
TwoOfW == OnlyW(2)
NamedOrDefaultOrNot ==
  {[named |-> {w}, default |-> FALSE], [named |-> {}, default |-> TRUE], [named |-> {}, default |-> FALSE]}
==============================================================================
