---------------------------- MODULE MCScheduler ----------------------------
(* An instance of Scheduler for TLC.  A day has two slots, and the send     *)
(* time is the second; instant 0 is the beginning of a Sunday in UTC.       *)
EXTENDS Scheduler, TLC
CONSTANTS e1, e2
Two == {e1, e2}
OneEach == (e1 :> 1) @@ (e2 :> 2)
Autumn == [i \in 0..Horizon |-> IF i < 3 THEN 0 ELSE -2]   \* Monday begins, is Sunday again, and begins again
Spring == [i \in 0..Horizon |-> IF i < 2 THEN 0 ELSE 1]    \* Monday has no first slot
Every(type) == [type |-> type, sendTime |-> 1, intervalDays |-> NotSet, daysOfWeek |-> {}]
ByOrder == [s \in Steps |-> NotSet]
SomeSettings == {
  [schedule |-> Every("daily"), zone |-> Autumn, delay |-> [s \in Steps |-> IF s = 1 THEN 1 ELSE NotSet]],
  [schedule |-> [Every("custom_days_of_week") EXCEPT !.daysOfWeek = {2}], zone |-> Spring, delay |-> ByOrder]}
=============================================================================
