----------------------------- MODULE MCBilling -----------------------------
(* An instance of Billing for TLC.                                          *)
EXTENDS Billing, TLC
CONSTANTS s1, s2, s3
Limits == [free |-> 1, core |-> 2, plus |-> 3, enterprise |-> Unlimited]
Subscriptions == (s1 :> "core") @@ (s2 :> "plus") @@ (s3 :> "gold")    \* gold is no plan of ours
=============================================================================
