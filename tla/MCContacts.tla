---------------------------- MODULE MCContacts ----------------------------
(* An instance of Contacts for TLC.                                         *)
EXTENDS Contacts, TLC
CONSTANTS s1, p1, p2, p3, a1, a2, a3, c1, v1
Limits == [free |-> 1, core |-> 2, plus |-> 3, enterprise |-> Unlimited]
Subscriptions == s1 :> "enterprise"     \* set up by hand, or priced like another plan
Owners == (a1 :> p1) @@ (a2 :> NoPerson) @@ (a3 :> p2)
Admin(n, p) == [kind |-> "enroll", id |-> n, person |-> p, campaign |-> c1]
Intake(n, a) == [kind |-> "intake", id |-> n, event |-> v1, addresses |-> a, campaign |-> c1]
SomeRequests == {Admin(1, p1), Admin(1, p2), Intake(1, {a2}), Intake(2, {a2}), Intake(1, {a1})}
=============================================================================
