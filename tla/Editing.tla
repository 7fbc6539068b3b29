------------------------------ MODULE Editing ------------------------------
(***************************************************************************)
(* A campaign, its schedule and its steps, edited by administrators on the *)
(* campaign's page while somebody is enrolled in it.  Requests check first *)
(* and write later, by id; what the page sends is what it last loaded.     *)
(* The enrollment's step rows keep the order the steps had when it was     *)
(* made.                                                                   *)
(***************************************************************************)
EXTENDS CampaignSettings

CONSTANTS
  Steps,          \* step ids
  Contents, Blank,\* what a step may say, and nothing
  Spaces,         \* typed content that is white space
  Forms,          \* what may be typed into the form of the schedule
  NoStep,
  Numbers,        \* the order of each of the steps there are at first, from 1 on, 0 for the others
  Calls,          \* concurrent requests of the page
  MaxChanges      \* bound: requests

ASSUME EditingAssumptions ==
  /\ Blank \notin Contents /\ Spaces \notin Contents \cup {Blank} /\ Forms \subseteq ScheduleForms
  /\ NoStep \notin [order : Nat, status : {"draft", "published", "archived"}, content : Contents \cup {Blank}]
  /\ "campaign" \notin Steps /\ IsFiniteSet(Steps) /\ MaxChanges \in Nat
  /\ Numbers \in [Steps -> Nat]
  /\ {Numbers[s] : s \in Steps} \ {0} = 1..Cardinality({s \in Steps : Numbers[s] # 0})

VARIABLES
  campaign,       \* campaigns.status
  schedule,       \* campaigns.scheduleType and scheduleConfig
  form,           \* the page's form of the schedule
  archivedAt,     \* the rows, of the campaign and of steps, that have archivedAt set
  step,           \* campaign_steps: order, status and content
  call,           \* requests between their check and their write
  shown,          \* the steps as the page last loaded them
  enrollment,     \* enrollments.status of the person enrolled, "none" without a row
  current,        \* enrollments.currentStepOrder
  row, done,      \* stepOrder of the enrollment's row for each step, 0 without; those completed
  steady,         \* history: were all steps published at the enrollment, and are they still, and
                  \* none of them left out of a reorder's list?
  raced,          \* history: archived while a request that found it otherwise was under way
  changes         \* counter for the bound

progress == <<enrollment, current, row, done>>
settings == <<schedule, form>>
vars == <<campaign, settings, archivedAt, step, call, shown, progress, steady, raced, changes>>

Orders == 1..Cardinality(Steps)
StepRows == [order : Orders, status : {"draft", "published", "archived"}, content : Contents \cup {Blank}]
Idle == [kind |-> "idle"]

TypeOK ==
  /\ schedule \in Schedules /\ form \in ScheduleForms
  /\ campaign \in {"draft", "active", "archived"} /\ archivedAt \subseteq Steps \cup {"campaign"}
  /\ \A s \in Steps : step[s] \in StepRows \cup {NoStep}
  /\ \A s, t \in Steps : step[s] # NoStep /\ step[t] # NoStep /\ s # t => step[s].order # step[t].order
  /\ \A k \in Calls : call[k] = Idle \/
       CASE call[k].kind = "create" -> call[k].order \in Nat \ {0} /\ call[k].status \in {"draft", "published"}
         [] call[k].kind = "publish" -> call[k].step \in Steps /\ call[k].content \in Contents
         [] call[k].kind = "reorder" -> \A s \in DOMAIN call[k].to : s \in Steps /\ call[k].to[s] \in Orders
         [] call[k].kind = "save" -> call[k].schedule \in Schedules
         [] call[k].kind = "activate" -> TRUE
  /\ \A s \in Steps : shown[s] \in StepRows \cup {NoStep}
  /\ enrollment \in {"none", "active", "completed"}
  /\ current \in Orders \cup {0}
  /\ row \in [Steps -> Orders \cup {0}] /\ done \subseteq {s \in Steps : row[s] # 0}
  /\ steady \in BOOLEAN /\ raced \subseteq Steps \cup {"campaign"} /\ changes \in 0..MaxChanges

Init ==
  /\ campaign \in {"draft", "active"} /\ archivedAt = {}
  /\ \E published \in SUBSET {s \in Steps : Numbers[s] # 0} : \E content \in Contents :
       step = [s \in Steps |->
                IF Numbers[s] = 0 THEN NoStep
                ELSE [order |-> Numbers[s], content |-> content,
                      status |-> IF s \in published THEN "published" ELSE "draft"]]
  /\ shown = step
  /\ \E f \in Forms : Accepted(ScheduleConfigPayload(f)) /\ schedule = CreateCampaign(f)
  /\ form = FormOf(schedule)
  /\ call = [k \in Calls |-> Idle]
  /\ enrollment = "none" /\ current = 0 /\ row = [s \in Steps |-> 0] /\ done = {}
  /\ steady = FALSE /\ raced = {} /\ changes = 0

Listed(rows) == {s \in Steps : rows[s] # NoStep /\ rows[s].status # "archived"}
Published == {s \in Steps : step[s] # NoStep /\ step[s].status = "published"}
Last(orders) == IF orders = {} THEN 0 ELSE CHOOSE o \in orders : \A p \in orders : p <= o
First(orders) == CHOOSE o \in orders : \A p \in orders : o <= p

\* Every request of the page first has to find the campaign.
FindCampaign == campaign # "archived"

Change == changes < MaxChanges /\ changes' = changes + 1

Begin(k, request) ==
  /\ FindCampaign /\ Change
  /\ call[k] = Idle /\ call' = [call EXCEPT ![k] = request]
  /\ UNCHANGED <<campaign, settings, archivedAt, step, shown, progress, steady, raced>>

\* mutate reloads the campaign when the request has succeeded.
LoadCampaign ==
  /\ shown' = IF FindCampaign THEN step' ELSE shown
  /\ form' = IF FindCampaign THEN FormOf(schedule') ELSE form

LoadPage ==
  /\ UNCHANGED <<campaign, schedule, archivedAt, step, call, progress, steady, raced, changes>>
  /\ LoadCampaign

Succeed(k) == call' = [call EXCEPT ![k] = Idle] /\ LoadCampaign

\* A request that fails leaves the page's copy as it is.
Fail(k) ==
  /\ call' = [call EXCEPT ![k] = Idle]
  /\ UNCHANGED <<campaign, settings, archivedAt, step, shown, progress, steady, raced, changes>>

----------------------------------------------------------------------------
(* Steps.                                                                   *)

\* The service asks before it trims: white space is content, and then none.
AssertPublishable(content) == content # Blank
NormalizeStep(content) == IF content = Spaces THEN Blank ELSE content

StepForms == Contents \cup {Blank, Spaces}

\* An empty field of the form is left out.
StepPayload(status, content) == [status |-> status, content |-> content]

\* saveStep; a step that is to be published needs content.
SaveStep(k, dto) ==
  /\ dto.status = "published" => AssertPublishable(dto.content)
  /\ Begin(k, [kind |-> "create", status |-> dto.status, content |-> NormalizeStep(dto.content),
               order |-> Last({step[s].order : s \in Listed(step)}) + 1])

SaveAndAddAnother(k, content) == SaveStep(k, StepPayload("draft", content))
SaveAndClose(k, content) == SaveStep(k, StepPayload("published", content))

\* The order after the last listed step's may be taken by an archived step, or by now.
CreateForCampaign(k) ==
  /\ call[k].kind = "create"
  /\ IF \E s \in Steps : step[s] # NoStep /\ step[s].order = call[k].order
     THEN Fail(k)
     ELSE /\ \E s \in Steps :
               /\ step[s] = NoStep
               /\ step' = [step EXCEPT ![s] = [order |-> call[k].order, status |-> call[k].status,
                                               content |-> call[k].content]]
          /\ steady' = FALSE
          /\ UNCHANGED <<campaign, schedule, archivedAt, progress, raced, changes>>
          /\ Succeed(k)

\* Defect: the step is looked for among all rows.
FindAnyStep(s) == step[s] # NoStep

\* findStepForTenant
FindStep(s) == campaign # "archived" /\ s \in Listed(step)

\* publishStep sends the copy of the step that the page shows.
PublishStep(k, s) ==
  /\ s \in Listed(shown) /\ AssertPublishable(shown[s].content)
  /\ FindStep(s)
  /\ Begin(k, [kind |-> "publish", step |-> s, content |-> shown[s].content])

\* updateForTenant writes by id: an archived step becomes published again.
UpdateForTenant(k) ==
  LET s == call[k].step IN
  /\ call[k].kind = "publish"
  /\ step' = [step EXCEPT ![s].status = "published", ![s].content = call[k].content]
  /\ steady' = (steady /\ step[s].status = "published")
  /\ UNCHANGED <<campaign, schedule, archivedAt, progress, raced, changes>>
  /\ Succeed(k)

\* Another client's PATCH without a status is not checked for content.
EditElsewhere(s, content) ==
  /\ FindStep(s) /\ Change
  /\ step' = [step EXCEPT ![s].content = NormalizeStep(content)]
  /\ UNCHANGED <<campaign, settings, archivedAt, call, shown, progress, steady, raced>>

\* An archived step keeps its order, which the table's key then refuses to others.
ArchiveStep(s) ==
  /\ FindStep(s) /\ Change
  /\ step' = [step EXCEPT ![s].status = "archived"]
  /\ archivedAt' = archivedAt \cup {s}
  /\ steady' = FALSE
  /\ raced' = IF \E k \in Calls : call[k].kind = "publish" /\ call[k].step = s THEN raced \cup {s} ELSE raced
  /\ UNCHANGED <<campaign, settings, call, shown, progress>>

----------------------------------------------------------------------------
(* Reordering.                                                              *)

Rank(s) == Cardinality({t \in Listed(shown) : shown[t].order <= shown[s].order})

\* moveStep swaps two neighbours of the list the page shows; the list must name every step
\* there is by now.
MoveStep(k, s, t) ==
  /\ {s, t} \subseteq Listed(shown) /\ Rank(t) = Rank(s) + 1
  /\ Listed(shown) = Listed(step)
  /\ Begin(k, [kind |-> "reorder",
               to |-> [u \in Listed(shown) |->
                        IF u = s THEN Rank(t) ELSE IF u = t THEN Rank(s) ELSE Rank(u)]])

\* Defect: the orders are the indexes of the list.
ReorderedFromZero(to) ==
  [s \in Steps |-> IF s \in DOMAIN to THEN to[s] - 1 ELSE IF step[s] = NoStep THEN 0 ELSE step[s].order]

\* The orders after both passes of the transaction.
Reordered(to) == [s \in Steps |-> IF s \in DOMAIN to THEN to[s] ELSE IF step[s] = NoStep THEN 0 ELSE step[s].order]

ReorderForCampaign(k) ==
  LET order == Reordered(call[k].to) IN
  /\ call[k].kind = "reorder"
  /\ IF \E s \in DOMAIN call[k].to : \E t \in Steps : t # s /\ step[t] # NoStep /\ order[t] = order[s]
     THEN Fail(k)
     ELSE /\ step' = [s \in Steps |-> IF step[s] = NoStep THEN NoStep ELSE [step[s] EXCEPT !.order = order[s]]]
          /\ steady' = (steady /\ DOMAIN call[k].to = Listed(step))
          /\ UNCHANGED <<campaign, schedule, archivedAt, progress, raced, changes>>
          /\ Succeed(k)

----------------------------------------------------------------------------
(* The campaign.                                                            *)

\* An administrator types into the form of the schedule.
TypeForm(f) ==
  /\ Change
  /\ form' = f
  /\ UNCHANGED <<campaign, schedule, archivedAt, step, call, shown, progress, steady, raced>>

SaveCampaign(k) ==
  /\ Accepted(ScheduleConfigPayload(form))
  /\ Begin(k, [kind |-> "save", schedule |-> NormalizeScheduleConfig(ScheduleConfigPayload(form))])

\* updateForTenant of the campaigns, by id again: type and configuration are replaced together.
UpdateCampaign(k) ==
  /\ call[k].kind = "save"
  /\ schedule' = call[k].schedule
  /\ UNCHANGED <<campaign, archivedAt, step, progress, steady, raced, changes>>
  /\ Succeed(k)

\* Another client's PATCH of the type alone leaves the configuration as it was.
UpdateElsewhere(type) ==
  /\ FindCampaign /\ Change
  /\ schedule' = [schedule EXCEPT !.type = type]
  /\ UNCHANGED <<campaign, form, archivedAt, step, call, shown, progress, steady, raced>>

ActivateCampaign(k) ==
  /\ \E s \in Listed(step) : step[s].content # Blank
  /\ Begin(k, [kind |-> "activate"])

\* activateForTenant writes by id: a campaign archived meanwhile is active again.
ActivateForTenant(k) ==
  /\ call[k].kind = "activate"
  /\ campaign' = "active"
  /\ shown' = step /\ form' = FormOf(schedule)
  /\ call' = [call EXCEPT ![k] = Idle]
  /\ UNCHANGED <<schedule, archivedAt, step, progress, steady, raced, changes>>

ArchiveForTenant == FindCampaign /\ campaign' = "archived" /\ archivedAt' = archivedAt \cup {"campaign"}

\* The page is left.
ArchiveCampaign ==
  /\ Change
  /\ ArchiveForTenant
  /\ raced' = raced \cup (IF \E k \in Calls : call[k].kind = "activate" THEN {"campaign"} ELSE {})
  /\ UNCHANGED <<settings, step, call, shown, progress, steady>>

----------------------------------------------------------------------------
(* The enrollment; how a step's rule is met is Progress's subject.          *)

Enroll ==
  /\ enrollment = "none"
  /\ campaign = "active" /\ Published # {}
  /\ enrollment' = "active"
  /\ row' = [s \in Steps |-> IF s \in Published THEN step[s].order ELSE 0]
  /\ current' = First({step[s].order : s \in Published})
  /\ steady' = (Listed(step) = Published)
  /\ UNCHANGED <<campaign, settings, archivedAt, step, call, shown, done, raced, changes>>

\* Defect: the next step is the one after the completed step's present order.
NextByPresentOrder(s) == {step[t].order : t \in {u \in Published : step[u].order > step[s].order}}

\* The published steps after the order in the completed step's row.
NextOrders(s) == {step[t].order : t \in {u \in Published : step[u].order > row[s]}}

EvaluateEnrollment(s) ==
  /\ enrollment = "active"
  /\ row[s] = current /\ s \notin done /\ s \in Published
  /\ done' = done \cup {s}
  /\ IF NextOrders(s) = {} THEN enrollment' = "completed" /\ UNCHANGED current
                      ELSE current' = First(NextOrders(s)) /\ UNCHANGED enrollment
  /\ UNCHANGED <<campaign, settings, archivedAt, step, call, shown, row, steady, raced, changes>>

----------------------------------------------------------------------------
Next ==
  \/ \E k \in Calls : CreateForCampaign(k) \/ UpdateForTenant(k) \/ ReorderForCampaign(k)
  \/ \E k \in Calls : ActivateCampaign(k) \/ ActivateForTenant(k) \/ SaveCampaign(k) \/ UpdateCampaign(k)
  \/ \E f \in Forms : TypeForm(f) \/ UpdateElsewhere(f.type)
  \/ \E k \in Calls : \E s \in Steps : PublishStep(k, s) \/ \E t \in Steps : MoveStep(k, s, t)
  \/ \E k \in Calls : \E c \in StepForms : SaveAndAddAnother(k, c) \/ SaveAndClose(k, c)
  \/ \E s \in Steps : ArchiveStep(s) \/ EvaluateEnrollment(s) \/ \E c \in StepForms : EditElsewhere(s, c)
  \/ ArchiveCampaign \/ Enroll \/ LoadPage

Spec == Init /\ [][Next]_vars

----------------------------------------------------------------------------
(* Safety.                                                                  *)

\* The schedule that the page shows is the one the scheduler goes by: saving the form as it is
\* loaded changes nothing, the form's defaults being the rules' own.  Only a schedule of custom
\* days that has none, which another client may leave, is every day to the rules and not to the form.
ShownScheduleIsUsed ==
  \/ SameSchedule(schedule, NormalizeScheduleConfig(ScheduleConfigPayload(FormOf(schedule))))
  \/ schedule.type = "custom_days_of_week" /\ schedule.daysOfWeek = {}

\* Reordering all the steps of a campaign in which every step is and stays published neither loses
\* a step of somebody enrolled nor leaves them waiting at an order that has no row: rows keep
\* their old orders, but both the rows and the steps have the same set of them.
ReorderHarmless == steady =>
  /\ enrollment = "completed" => \A s \in Steps : row[s] # 0 => s \in done
  /\ enrollment = "active" => \E s \in Published \ done : row[s] = current

\* An archived campaign is active again, and an archived step published again, only when the
\* request that revives it had found it before it was archived.
RevivedOnlyByRace ==
  /\ "campaign" \in archivedAt /\ campaign = "active" => "campaign" \in raced
  /\ \A s \in archivedAt \cap Steps : step[s].status = "archived" \/ s \in raced

=============================================================================
