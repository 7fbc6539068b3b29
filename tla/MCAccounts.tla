---------------------------- MODULE MCAccounts ----------------------------
(* An instance of Accounts for TLC.                                         *)
EXTENDS Accounts, TLC
CONSTANTS ann, bob, acme, zeta, old, new

Interchangeable == Permutations(Calls) \cup Permutations(Tabs)
=============================================================================
