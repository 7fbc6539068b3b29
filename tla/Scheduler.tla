----------------------------- MODULE Scheduler -----------------------------
(***************************************************************************)
(* scheduleDueSteps over all organizations: which of them a cycle turns    *)
(* to, which of their pending rows it reads, and which of those it queues, *)
(* while the clock runs, people enroll and leave, and Redis, Postgres or a *)
(* worker process fails.  What becomes of a queued row is the subject of   *)
(* SendMessage and Progress, and one action here.                          *)
(***************************************************************************)
EXTENDS ScheduleRules, Sequences, FiniteSetsExt

CONSTANTS
  OrgCount,          \* organizations are 1..OrgCount, in the order of their ids
  Enrollments, OrgOf,
  N,                 \* every campaign's steps are 1..N
  Settings,          \* records [schedule, zone, delay]: campaign schedule, person's time zone,
                     \* delayDaysOverride of each step
  Processes,         \* worker processes: each keeps a nextOrgOffset of its own
  MaxOrgsPerCycle, MaxCandidatesPerOrg,
  Horizon, LastEnrollment, MaxDisturbances  \* bounds: instants, instants of enrollment,
                                            \* failures, restarts and people leaving or coming back

Orgs == 1..OrgCount
Steps == 1..N

ASSUME Assumptions ==
  /\ OrgCount \in Nat \ {0} /\ N \in Nat \ {0}
  /\ OrgOf \in [Enrollments -> Orgs]
  /\ MaxOrgsPerCycle \in Nat \ {0} /\ MaxCandidatesPerOrg \in Nat \ {0}
  /\ Horizon \in Nat /\ LastEnrollment \in Nat /\ MaxDisturbances \in Nat
  /\ \A s \in Settings : /\ s.schedule \in Schedules
                          /\ s.zone \in [0..Horizon -> Int] /\ s.delay \in [Steps -> Nat \cup {NotSet}]

\* In a slot, no clock moves on or back by more than a day.
ASSUME ZoneAssumption == \A s \in Settings : \A i \in 1..Horizon :
  LocalTime(i, s.zone) - LocalTime(i - 1, s.zone) \in (-SlotsPerDay)..SlotsPerDay

VARIABLES
  setting,
  clock,
  enrollment, enrolledAt, current,  \* enrollments: whether the scheduler's query admits it,
                                    \* enrolledAt, currentStepOrder
  row,                              \* status of each enrollment's step rows
  reachable,                        \* enrollments whose person has an enabled channel of the step
  nextOrgOffset,
  cycle,                            \* each process's cycle: its time, organizations and rows to come
  listed, waited,                   \* history: the list a process saw last, and for how many of its
                                    \* cycles in a row it passed over an organization on that list
  disturbances

people == <<enrollment, enrolledAt, current, row, reachable>>
history == <<listed, waited>>
vars == <<setting, clock, people, nextOrgOffset, cycle, history, disturbances>>

Candidates == Enrollments \X Steps
Idle == [now |-> 0, orgs |-> <<>>, batch |-> {}]

TypeOK ==
  /\ setting \in Settings
  /\ clock \in 0..Horizon
  /\ enrollment \in [Enrollments -> {"absent", "active", "away", "completed"}]
  /\ enrolledAt \in [Enrollments -> 0..Horizon]
  /\ current \in [Enrollments -> Steps]
  /\ row \in [Enrollments -> [Steps -> {"none", "pending", "queued", "completed"}]]
  /\ reachable \subseteq Enrollments
  /\ nextOrgOffset \in [Processes -> 0..(OrgCount - 1)]
  /\ cycle \in [Processes -> [now : 0..Horizon, orgs : Seq(Orgs), batch : SUBSET Candidates]]
  /\ \A p \in Processes : cycle[p].now <= clock /\ Len(cycle[p].orgs) <= MaxOrgsPerCycle
  /\ listed \in [Processes -> SUBSET Orgs]
  /\ waited \in [Processes -> [Orgs -> Nat]]
  /\ disturbances \in 0..MaxDisturbances

Init ==
  /\ setting \in Settings
  /\ clock = 0
  /\ enrollment = [e \in Enrollments |-> "absent"]
  /\ enrolledAt = [e \in Enrollments |-> 0]
  /\ current = [e \in Enrollments |-> 1]
  /\ row = [e \in Enrollments |-> [s \in Steps |-> "none"]]
  /\ reachable = Enrollments
  /\ nextOrgOffset = [p \in Processes |-> 0]
  /\ cycle = [p \in Processes |-> Idle]
  /\ listed = [p \in Processes |-> {}]
  /\ waited = [p \in Processes |-> [o \in Orgs |-> 0]]
  /\ disturbances = 0

----------------------------------------------------------------------------
(* The cycle.                                                               *)

PendingRows(o) ==
  {c \in Candidates : OrgOf[c[1]] = o /\ enrollment[c[1]] = "active" /\ row[c[1]][c[2]] = "pending"}

EligibleOrgs == {o \in Orgs : PendingRows(o) # {}}

OrderedById(S) == CHOOSE f \in [1..Cardinality(S) -> S] : \A i, j \in DOMAIN f : i < j => f[i] < f[j]

\* Defect: the offset moves on by one more than was selected.
WindowSkipping(S, offset) ==
  LET n == Cardinality(S)
      start == offset % n
      size == Min({MaxOrgsPerCycle, n})
  IN [selected |-> [i \in 1..size |-> OrderedById(S)[((start + i - 1) % n) + 1]],
      next |-> (start + size + 1) % n]

\* rotateOrganizations: a window of the list from the offset on, and the next offset.
Window(S, offset) ==
  LET n == Cardinality(S)
      start == offset % n
      size == Min({MaxOrgsPerCycle, n})
  IN [selected |-> [i \in 1..size |-> OrderedById(S)[((start + i - 1) % n) + 1]],
      next |-> (start + size) % n]

BeginCycle(p) ==
  /\ cycle[p] = Idle /\ EligibleOrgs # {}
  /\ LET w == Window(EligibleOrgs, nextOrgOffset[p]) IN
     /\ cycle' = [cycle EXCEPT ![p] = [now |-> clock, orgs |-> w.selected, batch |-> {}]]
     /\ nextOrgOffset' = [nextOrgOffset EXCEPT ![p] = w.next]
     /\ waited' = [waited EXCEPT ![p] = [o \in Orgs |->
          IF o \notin EligibleOrgs \/ \E i \in DOMAIN w.selected : w.selected[i] = o THEN 0
          ELSE IF listed[p] = EligibleOrgs THEN waited[p][o] + 1 ELSE 1]]
  /\ listed' = [listed EXCEPT ![p] = EligibleOrgs]
  /\ UNCHANGED <<setting, clock, people, disturbances>>

IsDue(e, s, instant) == IsStepDue(setting.schedule, enrolledAt[e], instant, setting.zone, s, setting.delay[s])

\* Defect: rows of later steps are taken as well.
ToQueueAnyStep(rowsRead, instant) ==
  {c \in rowsRead : IsDue(c[1], c[2], instant) /\ c[1] \in reachable}

\* Of the rows read, those to queue: the current step's, due, with a channel to send on.
ToQueue(rowsRead, instant) ==
  {c \in rowsRead : c[2] = current[c[1]] /\ IsDue(c[1], c[2], instant) /\ c[1] \in reachable}

\* What is left of a cycle, or none.
Rest(c) == IF c.orgs = <<>> /\ c.batch = {} THEN Idle ELSE c

\* At most MaxCandidatesPerOrg pending rows, in no stated order; what follows uses
\* the enrollments and channels as they were read with them.
ReadCandidates(p) ==
  /\ cycle[p].orgs # <<>> /\ cycle[p].batch = {}
  /\ LET pending == PendingRows(Head(cycle[p].orgs)) IN
     \E rowsRead \in kSubset(Min({MaxCandidatesPerOrg, Cardinality(pending)}), pending) :
       cycle' = [cycle EXCEPT ![p] = Rest([cycle[p] EXCEPT !.batch = ToQueue(rowsRead, cycle[p].now),
                                                           !.orgs = Tail(@)])]
  /\ UNCHANGED <<setting, clock, people, nextOrgOffset, history, disturbances>>

\* addBulk and the mark, which is written only on a row that is still pending.
QueueStep(p, c) ==
  /\ c \in cycle[p].batch
  /\ cycle' = [cycle EXCEPT ![p] = Rest([cycle[p] EXCEPT !.batch = @ \ {c}])]
  /\ row' = [row EXCEPT ![c[1]][c[2]] = IF @ = "pending" THEN "queued" ELSE @]
  /\ UNCHANGED <<setting, clock, enrollment, enrolledAt, current, reachable, nextOrgOffset, history, disturbances>>

\* Redis or Postgres fails in mid-cycle: the rest of the selected organizations lose
\* their turn, as the offset has already moved past them.
CycleFails(p) ==
  /\ disturbances < MaxDisturbances
  /\ cycle[p] # Idle
  /\ disturbances' = disturbances + 1
  /\ cycle' = [cycle EXCEPT ![p] = Idle]
  /\ UNCHANGED <<setting, clock, people, nextOrgOffset, history>>

\* A worker process starts anew, with its cycle and its offset lost.
Restart(p) ==
  /\ disturbances < MaxDisturbances
  /\ disturbances' = disturbances + 1
  /\ cycle' = [cycle EXCEPT ![p] = Idle]
  /\ nextOrgOffset' = [nextOrgOffset EXCEPT ![p] = 0]
  /\ listed' = [listed EXCEPT ![p] = {}]
  /\ UNCHANGED <<setting, clock, people, waited>>

----------------------------------------------------------------------------
(* What goes on beside it.                                                  *)

Tick ==
  /\ clock < Horizon
  /\ clock' = clock + 1
  /\ UNCHANGED <<setting, people, nextOrgOffset, cycle, history, disturbances>>

Enroll(e) ==
  /\ enrollment[e] = "absent" /\ clock <= LastEnrollment
  /\ enrollment' = [enrollment EXCEPT ![e] = "active"]
  /\ enrolledAt' = [enrolledAt EXCEPT ![e] = clock]
  /\ row' = [row EXCEPT ![e] = [s \in Steps |-> "pending"]]
  /\ UNCHANGED <<setting, clock, current, reachable, nextOrgOffset, cycle, history, disturbances>>

\* The enrollment's campaign or person is archived, and perhaps activated again: its rows stay.
Leave(e) ==
  /\ disturbances < MaxDisturbances
  /\ disturbances' = disturbances + 1
  /\ enrollment[e] = "active"
  /\ enrollment' = [enrollment EXCEPT ![e] = "away"]
  /\ UNCHANGED <<setting, clock, enrolledAt, current, row, reachable, nextOrgOffset, cycle, history>>

ComeBack(e) ==
  /\ enrollment[e] = "away"
  /\ enrollment' = [enrollment EXCEPT ![e] = "active"]
  /\ UNCHANGED <<setting, clock, enrolledAt, current, row, reachable, nextOrgOffset, cycle, history, disturbances>>

OptOut(e) ==
  /\ disturbances < MaxDisturbances
  /\ disturbances' = disturbances + 1
  /\ e \in reachable
  /\ reachable' = reachable \ {e}
  /\ UNCHANGED <<setting, clock, enrollment, enrolledAt, current, row, nextOrgOffset, cycle, history>>

\* The current step's job is run and its time-based step completed.
Complete(e) ==
  LET s == current[e] IN
  /\ enrollment[e] = "active" /\ row[e][s] = "queued"
  /\ row' = [row EXCEPT ![e][s] = "completed"]
  /\ IF s = N THEN enrollment' = [enrollment EXCEPT ![e] = "completed"] /\ UNCHANGED current
              ELSE current' = [current EXCEPT ![e] = s + 1] /\ UNCHANGED enrollment
  /\ UNCHANGED <<setting, clock, enrolledAt, reachable, nextOrgOffset, cycle, history, disturbances>>

----------------------------------------------------------------------------
Work(p) == BeginCycle(p) \/ ReadCandidates(p) \/ \E c \in Candidates : QueueStep(p, c)

Next ==
  \/ Tick
  \/ \E p \in Processes : Work(p) \/ CycleFails(p) \/ Restart(p)
  \/ \E e \in Enrollments : Enroll(e) \/ Leave(e) \/ ComeBack(e) \/ OptOut(e) \/ Complete(e)

Spec == Init /\ [][Next]_vars

\* Time passes, the repeatable job keeps some process's cycles going, and queued steps
\* are sent and evaluated.
Fairness ==
  /\ WF_vars(Tick)
  /\ \A p \in Processes : WF_vars(Work(p))
  /\ \A e \in Enrollments : WF_vars(Complete(e))

FairSpec == Spec /\ Fairness

----------------------------------------------------------------------------
(* Safety.                                                                  *)

\* While the list a process sees stays the same and the process runs, its windows pass over an
\* organization at most as often as they need to get round the list, wherever the offset stood
\* when the list became so.  What counts are the cycles begun: the organizations of a cycle that
\* fails lose their turn.  A list that keeps changing, or a process that keeps restarting, can pass
\* over an organization any number of times.
OrgServedInTurn == \A p \in Processes : \A o \in listed[p] :
  waited[p][o] * MaxOrgsPerCycle < Cardinality(listed[p])

\* Steps are queued in order, one at a time: no stale candidate, and no cycle of another
\* process, queues a step before the one before it was completed.
StepsInOrder == \A e \in Enrollments : \A s \in Steps :
  row[e][s] \in {"queued", "completed"} => \A t \in 1..(s - 1) : row[e][t] = "completed"

RowRank == [none |-> 0, pending |-> 1, queued |-> 2, completed |-> 3]

\* What the calendar says of a step: local midnights passed, the day's name, the send time.
CalendarSays(e, s, instant) ==
  DueByCalendar(setting.schedule, enrolledAt[e], instant, setting.zone, s, setting.delay[s])

\* A row only moves forward, and it is queued only when the calendar, not the rule's
\* arithmetic, says its step is due at the time some cycle began.
QueuedWhenDue == [][\A e \in Enrollments : \A s \in Steps :
  row'[e][s] # row[e][s] =>
    /\ RowRank[row'[e][s]] > RowRank[row[e][s]]
    /\ row'[e][s] = "queued" => \E p \in Processes : CalendarSays(e, s, cycle[p].now)]_vars

----------------------------------------------------------------------------
(* Liveness, under Fairness.                                                *)

Waiting(e) == enrollment[e] = "active" /\ row[e][current[e]] = "pending" /\ e \in reachable

\* A step that the calendar says is due, of a reachable person, is queued in the end, unless
\* it stops being due first, if its organization has no more pending rows than a cycle reads.
DueIsQueued == \A e \in Enrollments :
  (Waiting(e) /\ CalendarSays(e, current[e], clock))
    ~> \/ ~Waiting(e) \/ ~CalendarSays(e, current[e], clock)
       \/ Cardinality(PendingRows(OrgOf[e])) > MaxCandidatesPerOrg

=============================================================================
