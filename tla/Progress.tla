------------------------------ MODULE Progress ------------------------------
(***************************************************************************)
(* The progress of one enrollment through its campaign: ProgressService,   *)
(* run by send jobs, link clicks and replies at once, beside unsubscribes, *)
(* administrators who pause, remove and re-enroll, and editors of the      *)
(* campaign's steps.  Each step has one delivery channel; how its message  *)
(* is sent is SendMessage's subject and two actions here.                  *)
(***************************************************************************)
EXTENDS Integers, FiniteSets

CONSTANTS
  N,              \* the campaign's steps are 1..N, in step order
  Evaluators,     \* concurrent evaluateEnrollment calls: worker slots and API requests
  Campaigns       \* records: the progress rule; phrases: do the steps have replyRequiredPhrases?
                  \* channel: the enrolled person's; SMS and Telegram have inbound replies.
                  \* And bounds: drafts, the sets of steps that may be drafts at first; edits, how
                  \* many steps are drafts or edited meanwhile; atOnce, how many evaluations run
                  \* at once; runs and failures, how many enrollments and failed calls there are

Steps == 1..N

ASSUME Assumptions ==
  /\ N \in Nat \ {0}
  /\ Campaigns \subseteq [rule : {"time_based", "link_click_required", "reply_required"},
                          phrases : BOOLEAN, channel : {"email", "sms", "telegram"},
                          drafts : SUBSET SUBSET Steps, edits : Nat, atOnce : Nat, runs : Nat, failures : Nat]

VARIABLES
  campaign,             \* one of Campaigns
  enrollment, current,  \* enrollments.status, enrollments.currentStepOrder
  state,                \* status of each step's enrollment_step_states row, "none" without one
  clickedAt, repliedAt, \* the rows that have these set
  run,                  \* how often the person was enrolled; rows belong to the last run
  restart,              \* the steps an unfinished re-enrollment read ({}: there is none)
  published,            \* the campaign's published steps
  clicks, replies,      \* clicked events by step, replied events by <<step, phrase matched>>
  recent,               \* the steps with a match among their latest fifty replied events
  jobs, outbox,         \* each step's send job in Redis, and its outbox row
  pc, snap,             \* each evaluation's next step and what it has read
  completions,          \* history: 'completed' events of each step in this run, and
  reopened,             \* how often a reply overwrote the step's completed row
  edited, failures      \* history: steps not published throughout; counter for the bound

rows == <<state, clickedAt, repliedAt>>
events == <<clicks, replies, recent, jobs, outbox>>
calls == <<pc, snap>>
vars == <<campaign, enrollment, current, rows, run, restart, published, events, calls, completions, reopened,
          edited, failures>>

ProgressRule == campaign.rule
PhraseRequired == campaign.phrases

StateStatus == {"none", "pending", "queued", "sent", "replied", "completed", "unsubscribed"}
SnapAt(s) == [step |-> s, run |-> 0, next |-> 0, last |-> FALSE]
NoSnap == SnapAt(0)

TypeOK ==
  /\ campaign \in Campaigns
  /\ enrollment \in {"active", "paused", "completed", "removed"}
  /\ current \in Steps
  /\ state \in [Steps -> StateStatus]
  /\ clickedAt \subseteq Steps /\ repliedAt \subseteq Steps
  /\ run \in Nat \ {0}
  /\ restart \subseteq Steps /\ published \subseteq Steps
  /\ clicks \subseteq Steps /\ replies \subseteq Steps \X BOOLEAN /\ recent \subseteq Steps
  /\ jobs \in [Steps -> {"none", "live", "kept"}]
  /\ outbox \in [Steps -> {"absent", "open", "sent"}]
  /\ pc \in [Evaluators -> {"idle", "reply", "enrollment", "states", "events", "commit"}]
  /\ snap \in [Evaluators -> [step : 0..N, run : Nat, next : 0..N, last : BOOLEAN]]
  /\ completions \in [Steps -> Nat] /\ reopened \in [Steps -> Nat]
  /\ edited \subseteq Steps
  /\ failures \in Nat

FirstOf(steps) == CHOOSE s \in steps : \A t \in steps : s <= t
FreshRows(steps) == [s \in Steps |-> IF s \in steps THEN "pending" ELSE "none"]

Init ==
  /\ campaign \in Campaigns
  /\ \E d \in campaign.drafts : published = Steps \ d /\ published # {}
  /\ enrollment = "active"
  /\ current = FirstOf(published)
  /\ state = FreshRows(published)
  /\ clickedAt = {} /\ repliedAt = {}
  /\ run = 1
  /\ restart = {}
  /\ clicks = {} /\ replies = {} /\ recent = {}
  /\ jobs = [s \in Steps |-> "none"]
  /\ outbox = [s \in Steps |-> "absent"]
  /\ pc = [e \in Evaluators |-> "idle"]
  /\ snap = [e \in Evaluators |-> NoSnap]
  /\ completions = [s \in Steps |-> 0] /\ reopened = [s \in Steps |-> 0]
  /\ edited = Steps \ published
  /\ failures = 0

\* The messages recorded as sent.
Sent == {s \in Steps : outbox[s] = "sent"}

\* A call that will evaluate the enrollment can begin.
Free(e) == pc[e] = "idle" /\ Cardinality({d \in Evaluators : pc[d] # "idle"}) < campaign.atOnce

Goto(e, label) == pc' = [pc EXCEPT ![e] = label]
Stop(e) == Goto(e, "idle") /\ snap' = [snap EXCEPT ![e] = NoSnap]

----------------------------------------------------------------------------
(* evaluateEnrollment.  The enrollment, its rows and, for two of the rules, *)
(* the events are separate queries; completeCurrentStep is a transaction.   *)

ReadEnrollment(e) ==
  /\ pc[e] = "enrollment"
  /\ IF enrollment = "active"
     THEN Goto(e, "states") /\ snap' = [snap EXCEPT ![e] = SnapAt(current)]
     ELSE Stop(e)
  /\ UNCHANGED <<enrollment, current, rows, run, restart, campaign, published, events, completions, reopened, edited, failures>>

\* Defect: the next step is found one order too far.
NextStepsSkipping(s) == {t \in published : t > s + 1}

\* Defect: the completed step is found again as the next one.
NextStepsFromHere(s) == {t \in published : t >= s}

NextSteps(s) == {t \in published : t > s}

\* What the rows alone decide: complete now, do not, or look at the events.
Decide(s) ==
  CASE ProgressRule = "time_based" ->
         IF state[s] \in {"sent", "replied"} THEN "commit" ELSE "idle"
    [] ProgressRule = "link_click_required" ->
         IF s \in clickedAt THEN "commit" ELSE "events"
    [] OTHER -> IF s \in repliedAt /\ ~PhraseRequired THEN "commit" ELSE "events"

ReadStates(e) ==
  LET s == snap[e].step IN
  /\ pc[e] = "states"
  /\ IF state[s] \in {"none", "completed"} \/ s \notin published \/ Decide(s) = "idle"
     THEN Stop(e)
     ELSE /\ Goto(e, Decide(s))
          /\ snap' = [snap EXCEPT ![e] =
               [step |-> s, run |-> run,
                next |-> IF NextSteps(s) = {} THEN 0 ELSE FirstOf(NextSteps(s)),
                last |-> NextSteps(s) = {}]]
  /\ UNCHANGED <<enrollment, current, rows, run, restart, campaign, published, events, completions, reopened, edited, failures>>

\* Defect: the events are not restricted to the step's links and messages.
EventFoundOfAnyStep(s) ==
  IF ProgressRule = "link_click_required" THEN clicks # {} ELSE recent # {} \/ (~PhraseRequired /\ replies # {})

\* The events outlive the rows: those of earlier runs of the enrollment count.  A phrase
\* is looked for in the latest fifty replies to the step.
EventFound(s) ==
  IF ProgressRule = "link_click_required" THEN s \in clicks
  ELSE IF PhraseRequired THEN s \in recent
  ELSE \E matches \in BOOLEAN : <<s, matches>> \in replies

ReadEvents(e) ==
  /\ pc[e] = "events"
  /\ IF EventFound(snap[e].step) THEN Goto(e, "commit") /\ UNCHANGED snap ELSE Stop(e)
  /\ UNCHANGED <<enrollment, current, rows, run, restart, campaign, published, events, completions, reopened, edited, failures>>

\* Defect: the update does not check that the row is still open.
CompleteUnguarded(e) ==
  LET s == snap[e].step IN
  /\ pc[e] = "commit"
  /\ IF snap[e].run = run /\ state[s] # "none"
     THEN /\ state' = [state EXCEPT ![s] = "completed"]
          /\ completions' = [completions EXCEPT ![s] = @ + 1]
          /\ IF snap[e].last
             THEN enrollment' = "completed" /\ UNCHANGED current
             ELSE current' = snap[e].next /\ UNCHANGED enrollment
     ELSE UNCHANGED <<state, completions, enrollment, current>>
  /\ Stop(e)
  /\ UNCHANGED <<clickedAt, repliedAt, run, restart, campaign, published, events, reopened, edited, failures>>

\* The row is found by its id, so a row of an earlier run is not; the enrollment
\* is updated by id, whatever became of it since it was read.
CompleteCurrentStep(e) ==
  LET s == snap[e].step IN
  /\ pc[e] = "commit"
  /\ IF snap[e].run = run /\ state[s] \notin {"none", "completed"}
     THEN /\ state' = [state EXCEPT ![s] = "completed"]
          /\ completions' = [completions EXCEPT ![s] = @ + 1]
          /\ IF snap[e].last
             THEN enrollment' = "completed" /\ UNCHANGED current
             ELSE current' = snap[e].next /\ UNCHANGED enrollment
     ELSE UNCHANGED <<state, completions, enrollment, current>>
  /\ Stop(e)
  /\ UNCHANGED <<clickedAt, repliedAt, run, restart, campaign, published, events, reopened, edited, failures>>

\* A query fails: nobody runs a click's or a reply's evaluation again.
EvaluationFails(e) ==
  /\ failures < campaign.failures
  /\ pc[e] \notin {"idle", "reply"}
  /\ Stop(e)
  /\ failures' = failures + 1
  /\ UNCHANGED <<enrollment, current, rows, run, restart, campaign, published, events, completions, reopened, edited>>

----------------------------------------------------------------------------
(* What starts evaluations: send jobs, clicks and replies.                  *)

\* The step is due and its job is queued, unless Redis still has one of that id.
Schedule(s) ==
  /\ enrollment = "active" /\ current = s /\ state[s] = "pending"
  /\ state' = [state EXCEPT ![s] = "queued"]
  /\ jobs' = [jobs EXCEPT ![s] = IF @ = "none" THEN "live" ELSE @]
  /\ UNCHANGED <<enrollment, current, clickedAt, repliedAt, run, restart, campaign, published, clicks,
                 replies, recent, outbox, calls, completions, reopened, edited, failures>>

\* The job's message and its outbox row are made before the provider is called; the
\* recipient may have the message while the row is not sent yet, or never is.
Prepare(s) ==
  /\ jobs[s] = "live" /\ outbox[s] = "absent"
  /\ outbox' = [outbox EXCEPT ![s] = "open"]
  /\ UNCHANGED <<enrollment, current, rows, run, restart, campaign, published, clicks, replies, recent, jobs,
                 calls, completions, reopened, edited, failures>>

\* The step's row is left as it is if the outbox row is already sent.
Send(e, s) ==
  /\ Free(e) /\ jobs[s] = "live" /\ outbox[s] # "absent"
  /\ jobs' = [jobs EXCEPT ![s] = "kept"]
  /\ outbox' = [outbox EXCEPT ![s] = "sent"]
  /\ state' = [state EXCEPT ![s] =
                 IF outbox[s] = "open" /\ @ \in {"pending", "queued"} THEN "sent" ELSE @]
  /\ Goto(e, "enrollment")
  /\ UNCHANGED <<enrollment, current, clickedAt, repliedAt, run, restart, campaign, published, clicks,
                 replies, recent, snap, completions, reopened, edited, failures>>

\* Every attempt of the job failed: the job ends and the row is left as it is.
SendFails(s) ==
  /\ failures < campaign.failures
  /\ jobs[s] = "live"
  /\ jobs' = [jobs EXCEPT ![s] = "kept"]
  /\ failures' = failures + 1
  /\ UNCHANGED <<enrollment, current, rows, run, restart, campaign, published, clicks, replies, recent, outbox,
                 calls, completions, reopened, edited>>

Evict(s) ==
  /\ jobs[s] = "kept"
  /\ jobs' = [jobs EXCEPT ![s] = "none"]
  /\ UNCHANGED <<enrollment, current, rows, run, restart, campaign, published, clicks, replies, recent, outbox,
                 calls, completions, reopened, edited, failures>>

\* Defect: the click is recorded and the enrollment is not evaluated.
HandleLinkClickSilently(e, s) ==
  /\ Free(e) /\ outbox[s] # "absent"
  /\ clicks' = clicks \cup {s}
  /\ clickedAt' = IF state[s] = "none" THEN clickedAt ELSE clickedAt \cup {s}
  /\ UNCHANGED <<enrollment, current, state, repliedAt, run, restart, campaign, published, replies, recent, jobs,
                 outbox, calls, completions, reopened, edited, failures>>

\* The link comes with the message, whatever became of the row: it may be open.
HandleLinkClick(e, s) ==
  /\ Free(e) /\ outbox[s] # "absent"
  /\ clicks' = clicks \cup {s}
  /\ clickedAt' = IF state[s] = "none" THEN clickedAt ELSE clickedAt \cup {s}
  /\ Goto(e, "enrollment")
  /\ UNCHANGED <<enrollment, current, state, repliedAt, run, restart, campaign, published, replies, recent, jobs,
                 outbox, snap, completions, reopened, edited, failures>>

\* The reply is taken for the step that is current when the enrollment is read.
TakeReply(e) ==
  /\ Free(e) /\ enrollment = "active" /\ state[current] # "none"
  /\ Goto(e, "reply")
  /\ snap' = [snap EXCEPT ![e] = SnapAt(current)]
  /\ UNCHANGED <<enrollment, current, rows, run, restart, campaign, published, events, completions, reopened, edited, failures>>

HandleTwilioReply(e) == campaign.channel = "sms" /\ TakeReply(e)
HandleTelegram(e) == campaign.channel = "telegram" /\ TakeReply(e)

\* A replied event counts for the step only through an outbox row of the step, sent or
\* not; one without a match may be the fiftieth since the last match.  The status of the
\* step's row is overwritten whatever it is.
RecordReply(e, matches) ==
  LET s == snap[e].step IN
  /\ pc[e] = "reply" /\ (matches => PhraseRequired)
  /\ IF outbox[s] = "absent" THEN UNCHANGED <<replies, recent>>
     ELSE /\ replies' = replies \cup {<<s, matches>>}
          /\ recent' \in IF matches THEN {recent \cup {s}} ELSE {recent, recent \ {s}}
  /\ IF state[s] = "none" THEN UNCHANGED <<state, repliedAt, reopened>>
     ELSE /\ state' = [state EXCEPT ![s] = "replied"]
          /\ repliedAt' = repliedAt \cup {s}
          /\ reopened' = [reopened EXCEPT ![s] = IF state[s] = "completed" THEN @ + 1 ELSE @]
  /\ Goto(e, "enrollment")
  /\ UNCHANGED <<enrollment, current, clickedAt, run, restart, campaign, published, clicks, jobs, outbox,
                 snap, completions, edited, failures>>

----------------------------------------------------------------------------
(* Unsubscribing, administration and editing.                               *)

Unsubscribe ==
  /\ enrollment' = IF enrollment = "active" THEN "removed" ELSE enrollment
  /\ state' = [s \in Steps |-> IF state[s] \in {"none", "completed"} THEN state[s] ELSE "unsubscribed"]
  /\ UNCHANGED <<current, clickedAt, repliedAt, run, restart, campaign, published, events, calls, completions,
                 reopened, edited, failures>>

\* pauseForTenant and removeForTenant, which look at no status.
SetStatus(status) ==
  /\ enrollment' = status
  /\ UNCHANGED <<current, rows, run, restart, campaign, published, events, calls, completions, reopened, edited, failures>>

\* createForTenant on a removed enrollment, outside a transaction: the old rows
\* go first, the new ones come with the update that makes it active again.
BeginRestart ==
  /\ run < campaign.runs
  /\ enrollment = "removed" /\ restart = {} /\ published # {}
  /\ restart' = published
  /\ state' = [s \in Steps |-> "none"]
  /\ clickedAt' = {} /\ repliedAt' = {}
  /\ completions' = [s \in Steps |-> 0] /\ reopened' = [s \in Steps |-> 0]
  /\ UNCHANGED <<enrollment, current, run, campaign, published, events, calls, edited, failures>>

FinishRestart ==
  /\ restart # {}
  /\ enrollment' = "active"
  /\ current' = FirstOf(restart)
  /\ state' = FreshRows(restart)
  /\ run' = run + 1
  /\ restart' = {}
  /\ UNCHANGED <<clickedAt, repliedAt, campaign, published, events, calls, completions, reopened, edited, failures>>

\* A step is published, unpublished or archived.
EditStep(s) ==
  /\ Cardinality(edited \cup {s}) <= campaign.edits
  /\ published' = IF s \in published THEN published \ {s} ELSE published \cup {s}
  /\ edited' = edited \cup {s}
  /\ UNCHANGED <<enrollment, current, rows, run, restart, campaign, events, calls, completions, reopened, failures>>

----------------------------------------------------------------------------
Evaluate(e) == ReadEnrollment(e) \/ ReadStates(e) \/ ReadEvents(e) \/ CompleteCurrentStep(e)

Next ==
  \/ \E e \in Evaluators :
       \/ Evaluate(e) \/ EvaluationFails(e) \/ HandleTwilioReply(e) \/ HandleTelegram(e)
       \/ \E matches \in BOOLEAN : RecordReply(e, matches)
       \/ \E s \in Steps : Send(e, s) \/ HandleLinkClick(e, s)
  \/ \E s \in Steps : Schedule(s) \/ Prepare(s) \/ SendFails(s) \/ Evict(s) \/ EditStep(s)
  \/ Unsubscribe \/ BeginRestart \/ FinishRestart
  \/ \E status \in {"paused", "removed"} : SetStatus(status)

Spec == Init /\ [][Next]_vars

\* The repeatable scheduler job finds due steps, workers take jobs, and a call in
\* progress goes on.  Nothing is assumed of recipients, administrators or editors.
Fairness ==
  /\ \A s \in Steps : WF_vars(Schedule(s)) /\ WF_vars(Prepare(s)) /\ SF_vars(\E e \in Evaluators : Send(e, s))
  /\ \A e \in Evaluators : /\ WF_vars(Evaluate(e))
                           /\ WF_vars(\E matches \in BOOLEAN : RecordReply(e, matches))

FairSpec == Spec /\ Fairness

----------------------------------------------------------------------------
(* Safety.                                                                  *)

\* Where steps are completed in their order: without replies (an email address has none),
\* in a person's first enrollment and, when a row just created is not sent (a time-based
\* campaign), in later ones of a campaign whose steps were all published from the start.
Orderly == campaign.channel = "email" /\ (run = 1 \/ (ProgressRule = "time_based" /\ edited = {}))

\* An active enrollment waits at a step it can still complete: evaluations that race
\* each other, an unsubscribe or a re-enrollment never leave it at a completed step,
\* nor at one without a row unless the campaign's steps were edited.
CurrentStepOpen == Orderly /\ enrollment = "active" =>
  /\ state[current] # "completed"
  /\ state[current] = "none" => current \in edited

\* A first enrollment is completed only when each step that stayed published was: no
\* evaluation, however stale, and no reply to an earlier step skips a part of the campaign.
CompletedMeansDone ==
  run = 1 /\ enrollment = "completed" => \A s \in Steps \ edited : completions[s] > 0

\* However many sends, clicks and replies evaluate a step of a run at the same time, it is
\* completed once, with one 'completed' event, and once more only for each reply that
\* overwrote its completed row in between.
CompletedOnce == \A s \in Steps : completions[s] <= 1 + reopened[s]

\* The steps with what the campaign's rule asks for (docs/progress-evaluation.md:23-30).
Evident ==
  CASE ProgressRule = "time_based" -> Sent
    [] ProgressRule = "link_click_required" -> clicks
    [] OTHER -> {s \in Steps : \/ <<s, TRUE>> \in replies
                               \/ ~PhraseRequired /\ (<<s, FALSE>> \in replies \/ s \in repliedAt)}

\* A step is completed only on the evidence its campaign's rule asks for, from this
\* run of the enrollment or before, whichever calls race to complete it.  The exception,
\* AdvancesAfterSend below, is a time-based campaign on a channel with replies.
RuleWasMet == (ProgressRule = "time_based" => campaign.channel = "email") =>
  \A s \in Steps : completions[s] > 0 => s \in Evident

\* The current step of a run never goes back (docs/progress-evaluation.md:44).
NeverMovesBack == [][Orderly /\ run' = run => current' >= current]_vars

----------------------------------------------------------------------------
(* Liveness, under Fairness.                                                *)

\* A time-based enrollment that stays active is carried to its campaign's end, unless
\* it stops at a step that was edited.
EnrollmentMovesOn ==
  ProgressRule = "time_based" /\ enrollment = "active" ~> enrollment # "active" \/ current \in edited

\* A click on the current step's link completes the step, whichever of the send, the
\* click and other clicks is evaluated first.
ClickCompletesStep == \A s \in Steps :
  ProgressRule = "link_click_required" /\ enrollment = "active" /\ current = s /\ s \in clickedAt
    ~> enrollment # "active" \/ current # s \/ s \in edited

----------------------------------------------------------------------------
(* What the documentation says and the code does not do.                    *)

\* "Campaign unsubscribe removes the scoped active enrollment"
\* (docs/unsubscribe-and-deletion.md:23): it stays removed until a re-enrollment.
RemovedStaysRemoved == [][enrollment = "removed" /\ run' = run => enrollment' = "removed" \/ enrollment' = "paused"]_vars

\* "A time-based step advances after a send" (ARCHITECTURE.md:903): by SMS and Telegram any
\* reply completes the current step, sent or not.
AdvancesAfterSend ==
  ProgressRule = "time_based" => \A s \in Steps : completions[s] > 0 => s \in Sent

\* "a removed enrollment can be restarted using existing enrollment rules", and the
\* worker sends its steps: it does not stay at a queued step.
RestartedMovesOn == run = 2 /\ enrollment = "active" ~> enrollment # "active" \/ state[current] # "queued"

=============================================================================
