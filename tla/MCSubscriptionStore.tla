------------------------- MODULE MCSubscriptionStore -------------------------
(* Instances of SubscriptionStore for TLC. *)
EXTENDS SubscriptionStore

\* A small row that ends soon, and a later one.
MCTotal == <<2, 3>>
MCEnd == <<1, 2>>

\* Fair behaviours in which the plan is edited only finitely often.
QuietSpec == FairSpec /\ <>[][UNCHANGED period]_vars
=============================================================================
