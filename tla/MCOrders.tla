------------------------------ MODULE MCOrders ------------------------------
(* Instances of Orders for TLC. *)
EXTENDS Orders, TLC

CONSTANTS h1, n1, n2

\* All requests in one process, and in two.
OneNode == [h \in Handlers |-> n1]
TwoNodes == [h \in Handlers |-> IF h = h1 THEN n1 ELSE n2]

\* Behaviours without the administrator.
CallbacksOnly == \A h \in Handlers : event[h] # "admin"

AllGateways == TopUps \cup Subs \cup {"wallet", "code"}

\* Requests of one process differ in name only, and so do orders.
Perms == Permutations(Handlers) \cup Permutations(Trades)
=============================================================================
