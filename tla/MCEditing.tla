------------------------------ MODULE MCEditing ------------------------------
(* An instance of Editing for TLC: two steps there are, a third one may come. *)
EXTENDS Editing, TLC
CONSTANTS s1, s2, s3

TwoSteps == s1 :> 1 @@ s2 :> 2 @@ s3 :> 0
Typed == {
  [type |-> "custom_interval", sendTime |-> NoText, interval |-> 3, days |-> {1, 3, 5}],
  [type |-> "custom_days_of_week", sendTime |-> 8, interval |-> 1, days |-> {1, 9, NoText}],
  [type |-> "custom_days_of_week", sendTime |-> 8, interval |-> 1, days |-> {9}]}
Interchangeable == Permutations(Calls)
=============================================================================
