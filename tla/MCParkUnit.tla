----------------------------- MODULE MCParkUnit -----------------------------
(* Instances of ParkUnit for TLC: a clock that passes midnight *)
EXTENDS ParkUnit, TLC

CONSTANTS p1, p2, au, NoCond

Clock == <<235959, 0>>
Low   == [last |-> 1, bid |-> 1, ask |-> 2]
High  == [last |-> 2, bid |-> 2, ask |-> 3]
SomeTicks == {Low, High}

Order(i, type, cond, stop) == [id |-> i, type |-> type, code |-> au, cond |-> cond, stop |-> stop]

SomeRequests ==
  {Order(p1, "TIME", NoCond, 235959),
   Order(p2, "CONDITION", [price |-> "bid", rel |-> "GT"], 1),
   Order(p2, "EXCHAUCTION", NoCond, 0)}

SomeReports == {"3"}

SomeActions == {[id |-> p2, flag |-> "HumanSend"], [id |-> p2, flag |-> "Delete"]}
=============================================================================
