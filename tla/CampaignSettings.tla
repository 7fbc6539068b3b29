-------------------------- MODULE CampaignSettings --------------------------
(***************************************************************************)
(* A campaign's schedule on its way from the forms of the pages through    *)
(* the API into the row that schedule-rules.ts reads, and back into the    *)
(* form.  Text is what Number makes of it: an empty text is 0.             *)
(***************************************************************************)
EXTENDS ScheduleRules

NoText == -1

\* A text of days is the set of its entries.
ScheduleForms == [type : ScheduleTypes, sendTime : Nat \cup {NoText}, interval : Nat \cup {NoText},
                  days : SUBSET (Nat \cup {NoText})]

\* Defect: the form's default is not that of the rules.
IntervalShownAsTwo(schedule) == IF schedule.intervalDays = NotSet THEN 2 ELSE schedule.intervalDays

IntervalShown(schedule) == IF schedule.intervalDays = NotSet THEN 1 ELSE schedule.intervalDays

\* loadCampaign fills the form in, with defaults for what the row leaves out.
FormOf(schedule) ==
  [type |-> schedule.type,
   sendTime |-> IF schedule.sendTime = NotSet THEN DefaultSendTime ELSE schedule.sendTime,
   interval |-> IntervalShown(schedule),
   days |-> IF schedule.daysOfWeek = {} THEN {1, 3, 5} ELSE schedule.daysOfWeek]

\* scheduleConfigPayload: the interval and the days of another schedule type are left out.
ScheduleConfigPayload(form) ==
  [type |-> form.type,
   sendTime |-> IF form.sendTime = NoText THEN NotSet ELSE form.sendTime,
   intervalDays |-> IF form.type # "custom_interval" THEN NotSet
                    ELSE IF form.interval = NoText THEN 1 ELSE form.interval,
   daysOfWeek |-> IF form.type # "custom_days_of_week" THEN {}
                  ELSE {IF d = NoText THEN 0 ELSE d : d \in form.days} \cap (0..6)]

\* What the API accepts of it: a list of days that is there is not empty.
Accepted(request) ==
  /\ request.intervalDays = NotSet \/ request.intervalDays \in 1..365
  /\ request.type = "custom_days_of_week" => request.daysOfWeek # {}

\* normalizeScheduleConfig drops the days that are none.
NormalizeScheduleConfig(request) == [request EXCEPT !.daysOfWeek = @ \cap (0..6)]

\* A campaign created on the campaigns page, whose form has a payload of its own, the same.
CreateCampaign(form) == NormalizeScheduleConfig(ScheduleConfigPayload(form))

\* The rules tell the two schedules apart on no day and at no time.
SameSchedule(a, b) ==
  /\ \A weekday \in 0..6 : IsAllowedSendDay(a, weekday) = IsAllowedSendDay(b, weekday)
  /\ RequiredDelayDays(a, 2) = RequiredDelayDays(b, 2)
  /\ (IF a.sendTime = NotSet THEN DefaultSendTime ELSE a.sendTime)
       = IF b.sendTime = NotSet THEN DefaultSendTime ELSE b.sendTime

=============================================================================
