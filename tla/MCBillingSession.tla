-------------------------- MODULE MCBillingSession --------------------------
(***************************************************************************)
(* Instances of BillingSession for TLC.                                    *)
(***************************************************************************)
EXTENDS BillingSession, TLC

In(pref, quota) == [NoInput EXCEPT !.pref = pref, !.quota = quota]

\* Wallet billing: trusted and forced pre-consumption, zero estimates, the
\* playground, and the fallback to a subscription that cannot pay either.
MCWalletInputs ==
    {In("wallet_only", 2), In("wallet_first", 3), In("wallet_only", 0),
     [In("wallet_only", 2) EXCEPT !.forcePreConsume = TRUE],
     [In("subscription_first", 1) EXCEPT !.playground = TRUE],
     [In("subscription_first", 2) EXCEPT !.forceWallet = TRUE],
     [In("subscription_only", 2) EXCEPT !.forceWallet = TRUE]}

\* Subscription billing with its fallback to the wallet, the fallback of the
\* wallet to a subscription, and a team token whose estimate is zero.
MCSubInputs ==
    {[In("subscription_first", 2) EXCEPT !.playground = TRUE], In("wallet_first", 3),
     [In("subscription_only", 0) EXCEPT !.team = TRUE]}

\* One kind of request, for the runs about one hazard.
MCOneSub == {In("subscription_only", 2)}
MCOneWallet == {In("wallet_only", 2)}

MCNone == {}
MCNoTotal == <<>>
MCSubs == {1, 2, 3}
MCTeamSubs == {2}
MCSubTotal == 1 :> 3 @@ 2 :> 2 @@ 3 :> 4

Symmetry == Permutations(Requests)
=============================================================================
