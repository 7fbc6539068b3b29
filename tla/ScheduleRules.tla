--------------------------- MODULE ScheduleRules ---------------------------
(***************************************************************************)
(* schedule-rules.ts: when a step of a campaign is due.  Time is counted   *)
(* in slots, SlotsPerDay of them to a day; the slot that begins at local   *)
(* midnight is slot 0.  An instant is a number of slots in UTC; a zone     *)
(* gives, for each instant, the slots to add for local time, so that       *)
(* daylight saving is a zone that changes its mind.  Day 0 is a Sunday.    *)
(***************************************************************************)
EXTENDS Integers, FiniteSets

CONSTANTS
  SlotsPerDay,
  MidnightHour  \* what Intl's en-US format with hour12: false prints for slot 0: "00" or "24"

ASSUME CalendarAssumptions ==
  /\ SlotsPerDay \in Nat \ {0}
  /\ MidnightHour \in {0, SlotsPerDay}

NotSet == -1    \* a field the campaign or the step leaves out

ScheduleTypes == {"daily", "weekdays", "monday_wednesday_friday", "custom_interval", "custom_days_of_week"}

\* What a campaign's row may say of its schedule.
Schedules == [type : ScheduleTypes, sendTime : Nat \cup {NotSet}, intervalDays : Nat \cup {NotSet}, daysOfWeek : SUBSET (0..6)]

LocalTime(instant, zone) == instant + zone[instant]
LocalDate(instant, zone) == LocalTime(instant, zone) \div SlotsPerDay
SlotOf(instant, zone) == LocalTime(instant, zone) % SlotsPerDay
Weekday(instant, zone) == LocalDate(instant, zone) % 7
Hour(instant, zone) == IF SlotOf(instant, zone) = 0 THEN MidnightHour ELSE SlotOf(instant, zone)

\* Defect: whole days of elapsed time in place of local dates.
ElapsedFullDays(start, end, zone) == (end - start) \div SlotsPerDay

DaysBetweenLocalDates(start, end, zone) == LocalDate(end, zone) - LocalDate(start, zone)

RequiredDelayDays(schedule, order) ==
  IF schedule.type = "custom_interval"
  THEN (order - 1) * (IF schedule.intervalDays > 0 THEN schedule.intervalDays ELSE 1)
  ELSE order - 1

IsAllowedSendDay(schedule, weekday) ==
  CASE schedule.type \in {"daily", "custom_interval"} -> TRUE
    [] schedule.type = "weekdays" -> weekday \in 1..5
    [] schedule.type = "monday_wednesday_friday" -> weekday \in {1, 3, 5}
    [] OTHER -> schedule.daysOfWeek \cap (0..6) = {} \/ weekday \in schedule.daysOfWeek

DefaultSendTime == (9 * SlotsPerDay) \div 24

\* Defect: the hour of the send time itself does not count.
IsAfterSendTime(instant, zone, schedule) ==
  Hour(instant, zone) > IF schedule.sendTime = NotSet THEN DefaultSendTime ELSE schedule.sendTime

IsAtOrAfterSendTime(instant, zone, schedule) ==
  Hour(instant, zone) >= IF schedule.sendTime = NotSet THEN DefaultSendTime ELSE schedule.sendTime

IsStepDue(schedule, enrolledAt, now, zone, order, delayDaysOverride) ==
  /\ DaysBetweenLocalDates(enrolledAt, now, zone) >=
       IF delayDaysOverride # NotSet THEN delayDaysOverride ELSE RequiredDelayDays(schedule, order)
  /\ IsAtOrAfterSendTime(now, zone, schedule)
  /\ IsAllowedSendDay(schedule, Weekday(now, zone))

----------------------------------------------------------------------------
(* The same, said by looking at the calendar: the local midnights passed     *)
(* since the enrollment, and the weekday reached by counting them.           *)

\* From instant 0 on, the midnights that the clock is put back over taken off again.
Passed(end, zone) ==
  Cardinality({i \in 1..end : LocalDate(i, zone) > LocalDate(i - 1, zone)})
    - Cardinality({i \in 1..end : LocalDate(i, zone) < LocalDate(i - 1, zone)})

Midnights(start, end, zone) == Passed(end, zone) - Passed(start, zone)

\* The weekdays, as names of days rather than as arithmetic, that a schedule sends on.
SendDays(schedule) ==
  CASE schedule.type = "weekdays" -> {"Mon", "Tue", "Wed", "Thu", "Fri"}
    [] schedule.type = "monday_wednesday_friday" -> {"Mon", "Wed", "Fri"}
    [] schedule.type = "custom_days_of_week" /\ schedule.daysOfWeek # {} ->
         {<<"Sun", "Mon", "Tue", "Wed", "Thu", "Fri", "Sat">>[d + 1] : d \in schedule.daysOfWeek}
    [] OTHER -> {"Sun", "Mon", "Tue", "Wed", "Thu", "Fri", "Sat"}

DayName(firstDay, midnights) ==
  <<"Sun", "Mon", "Tue", "Wed", "Thu", "Fri", "Sat">>[((firstDay + midnights) % 7) + 1]

DueByCalendar(schedule, enrolledAt, now, zone, order, delayDaysOverride) ==
  /\ Midnights(enrolledAt, now, zone) >=
       IF delayDaysOverride # NotSet THEN delayDaysOverride
       ELSE (order - 1) * (IF schedule.type = "custom_interval" /\ schedule.intervalDays # NotSet
                           THEN schedule.intervalDays ELSE 1)
  /\ DayName(Weekday(0, zone), Passed(now, zone)) \in SendDays(schedule)
  /\ SlotOf(now, zone) >= IF schedule.sendTime = NotSet THEN DefaultSendTime ELSE schedule.sendTime

=============================================================================
