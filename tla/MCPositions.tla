---------------------------- MODULE MCPositions -----------------------------
(* An instance of Positions for TLC: an order of a strategy and one of      *)
(* another terminal, both of any kind, over a lost connection.             *)
EXTENDS Positions

CONSTANTS o1, f1

LongOfTwo == [side \in Sides |-> IF side = "long" THEN 2 ELSE 0]
=============================================================================
