----------------------------- MODULE MCTwapUnit -----------------------------
(* Instances of TwapUnit for TLC: a night session over midnight and one in *)
(* the morning.                                                            *)
EXTENDS TwapUnit, TLC

CONSTANTS t1, t2

Night == <<235959, 2>>
Morning == <<90000, 90010>>
TwoSections == [au |-> <<Night, Morning>>]
Seconds == <<235959, 0, 1, 2, 90000, 90001, 90002, 90003>>

Order(i, v, b, e) == [id |-> i, product |-> "au", volume |-> v, begin |-> b, end |-> e]

(* All of the night and half of the morning; the rest of a second after    *)
(* midnight with more lots than seconds; a break; one of no product.       *)
SomeRequests == {Order(t1, 3, 235950, 90002), Order(t2, 3, 0, 20),
                 Order(t1, 1, 100, 80000)}

(* Between the first and the last moment no second of a section is missing. *)
ASSUME ClockAssumption == EverySecondComes
=============================================================================
