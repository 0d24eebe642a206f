---------------------------- MODULE MCCtpSession ----------------------------
(* Instances of CtpSession for TLC. *)
EXTENDS CtpSession, TLC

CONSTANTS a1, a2, r1, r2

(* Accounts are alike, and so are instruments. *)
Symmetry == {p @@ q : p \in Permutations(Accounts), q \in Permutations(Rows)}

WholeAccount == {Rows}
AnyRequest == Dialogs \cup Queries
LateQueries == {"orders", "trades"}
AnythingButOrders == (Dialogs \cup Queries) \ {"orders"}
=============================================================================
