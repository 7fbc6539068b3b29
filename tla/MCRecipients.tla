---------------------------- MODULE MCRecipients ----------------------------
(* An instance of Recipients for TLC.                                       *)
EXTENDS Recipients, TLC
CONSTANTS l1, c1, c2

FirstCampaign == [l \in Links |-> c1]
Interchangeable == Permutations(Calls) \cup Permutations(Channels) \cup Permutations(Addresses)
=============================================================================
