--------------------------- MODULE MCPageEngine ---------------------------
(***************************************************************************)
(* Model of PageEngine for TLC: the engine, processes that write one       *)
(* journal, one of them a strategy, and processes that read it.            *)
(***************************************************************************)
EXTENDS PageEngine

CONSTANTS engine, w1, w2, r1, sys, jrn

MCOpens == [c \in Clients |-> CASE c = engine -> {sys} [] c = r1 -> {sys, jrn} [] OTHER -> {jrn}]
==========================================================================
