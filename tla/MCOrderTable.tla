---------------------------- MODULE MCOrderTable ----------------------------
(* Instances of OrderTable for TLC. *)
EXTENDS OrderTable, TLC

CONSTANTS o1, o2, f1

SomeEnd == [o \in Orders |-> IF o = o2 THEN {} ELSE {"traded"}]
=============================================================================
