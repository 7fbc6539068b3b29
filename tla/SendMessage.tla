---------------------------- MODULE SendMessage ----------------------------
(***************************************************************************)
(* The life of a send-message job: the scheduler that queues it, BullMQ    *)
(* that hands it to workers, the worker that prepares an outbox row,       *)
(* claims it, calls the provider and records the outcome, and the replies, *)
(* clicks and opt-outs that run beside them.  A message is one (enrollment, step, channel):    *)
(* the key of its BullMQ job id and of its unique outbox row.              *)
(***************************************************************************)
EXTENDS Naturals

CONSTANTS
  Messages, Steps, StepOf,  \* StepOf[m] is the enrollment step state m belongs to
  Workers,                  \* concurrent job slots, over all worker processes
  Requests,                 \* concurrent reply webhooks and link clicks
  None,
  MaxAttempts,              \* QUEUE_DEFAULTS.ATTEMPTS
  MaxStalls,                \* BullMQ's maxStalledCount
  LockMayExpire,            \* may a job be declared stalled while its worker still runs it?
  MaxCycles, MaxCrashes     \* bounds: scheduler picks of a step, worker crashes

ASSUME Assumptions ==
  /\ StepOf \in [Messages -> Steps]
  /\ None \notin Messages \cup Workers
  /\ MaxAttempts \in Nat \ {0}
  /\ MaxStalls \in Nat
  /\ LockMayExpire \in BOOLEAN
  /\ MaxCycles \in Nat
  /\ MaxCrashes \in Nat

VARIABLES
  \* Redis, as BullMQ keeps it
  job,        \* state of each message's job; "absent": never added, "removed": evicted
  attempts,   \* attemptsMade
  stalls,     \* stalledCounter
  owner,      \* the worker whose lock token is on the active job
  \* Postgres
  outbox,     \* status of each message's message_outbox row, "absent" before it exists
  stepStatus, \* status of each enrollment_step_states row
  channel,    \* what the person and channel rows allow for each message
  \* worker slots
  pc, msg,
  \* reply webhooks and clicks: what each has still to do, for which step
  todo, about,
  \* the scheduler's handling of each step, with the candidate it read
  sched, picked,
  \* history: last provider outcome, copies taken in, copies that looked like
  \* failures, steps whose progress was evaluated after a send
  outcome, copies, doubts, evaluated,
  \* counters for the bounds
  cycles, crashes

jobVars == <<job, attempts, stalls, owner>>
schedVars == <<sched, picked, cycles>>
history == <<outcome, copies, doubts, evaluated>>
requests == <<todo, about>>
calls == <<pc, msg, requests>>
vars == <<jobVars, outbox, stepStatus, channel, calls, schedVars, history, crashes>>

JobState == {"absent", "waiting", "active", "delayed", "completed", "failed", "removed"}
OutboxStatus == {"absent", "prepared", "sending", "sent", "failed"}
StepStatus == {"pending", "queued", "sent", "replied", "unsubscribed", "completed"}
Label == {"idle", "find", "target", "create", "load", "claim", "call",
          "confirm", "record", "evaluate", "done", "throw"}

TypeOK ==
  /\ job \in [Messages -> JobState]
  /\ attempts \in [Messages -> 0..MaxAttempts]
  /\ stalls \in [Messages -> 0..(MaxStalls + 1)]
  /\ owner \in [Messages -> Workers \cup {None}]
  /\ outbox \in [Messages -> OutboxStatus]
  /\ stepStatus \in [Steps -> StepStatus]
  /\ channel \in [Messages -> {"enabled", "disabled", "optedOut"}]
  /\ pc \in [Workers -> Label]
  /\ msg \in [Workers -> Messages \cup {None}]
  /\ todo \in [Requests -> {"nothing", "record", "evaluate"}]
  /\ about \in [Requests -> Steps \cup {None}]
  /\ sched \in [Steps -> {"idle", "picked", "enqueued"}]
  /\ picked \in [Steps -> SUBSET Messages]
  /\ outcome \in [Messages -> {"none", "accepted", "refused", "doubtful"}]
  /\ copies \in [Messages -> Nat]
  /\ doubts \in [Messages -> Nat]
  /\ evaluated \subseteq Steps
  /\ cycles \in Nat
  /\ crashes \in Nat

Init ==
  /\ job = [m \in Messages |-> "absent"]
  /\ attempts = [m \in Messages |-> 0]
  /\ stalls = [m \in Messages |-> 0]
  /\ owner = [m \in Messages |-> None]
  /\ outbox = [m \in Messages |-> "absent"]
  /\ stepStatus = [s \in Steps |-> "pending"]
  /\ channel \in [Messages -> {"enabled", "disabled"}]
  /\ pc = [w \in Workers |-> "idle"]
  /\ msg = [w \in Workers |-> None]
  /\ todo = [r \in Requests |-> "nothing"]
  /\ about = [r \in Requests |-> None]
  /\ sched = [s \in Steps |-> "idle"]
  /\ picked = [s \in Steps |-> {}]
  /\ outcome = [m \in Messages |-> "none"]
  /\ copies = [m \in Messages |-> 0]
  /\ doubts = [m \in Messages |-> 0]
  /\ evaluated = {}
  /\ cycles = 0
  /\ crashes = 0

MessagesOf(s) == {m \in Messages : StepOf[m] = s}
At(w, m, label) == pc[w] = label /\ msg[w] = m
Goto(w, label) == pc' = [pc EXCEPT ![w] = label]

\* sendProviderMessage and prepareMessage accept only such a recipient: person
\* active, channel enabled, neither unsubscribed nor suppressed.
Eligible(m) == channel[m] = "enabled"

----------------------------------------------------------------------------
(* The scheduler: scheduleDueSteps, for one candidate step at a time.       *)

\* Defect variant: the step is marked queued when it is picked, before addBulk.
PickDueMarkFirst(s) ==
  /\ cycles < MaxCycles
  /\ sched[s] = "idle"
  /\ stepStatus[s] = "pending"
  /\ \E m \in MessagesOf(s) : Eligible(m)
  /\ picked' = [picked EXCEPT ![s] = {m \in MessagesOf(s) : Eligible(m)}]
  /\ sched' = [sched EXCEPT ![s] = "picked"]
  /\ stepStatus' = [stepStatus EXCEPT ![s] = "queued"]
  /\ cycles' = cycles + 1
  /\ UNCHANGED <<jobVars, outbox, channel, calls, history, crashes>>

\* The candidate is read with its channels; what follows uses this snapshot.
PickDue(s) ==
  /\ cycles < MaxCycles
  /\ sched[s] = "idle"
  /\ stepStatus[s] = "pending"
  /\ \E m \in MessagesOf(s) : Eligible(m)
  /\ picked' = [picked EXCEPT ![s] = {m \in MessagesOf(s) : Eligible(m)}]
  /\ sched' = [sched EXCEPT ![s] = "picked"]
  /\ cycles' = cycles + 1
  /\ UNCHANGED <<jobVars, outbox, stepStatus, channel, calls, history, crashes>>

\* BullMQ ignores a job whose id it still holds, finished or not.
AddBulk(s) ==
  /\ sched[s] = "picked"
  /\ sched' = [sched EXCEPT ![s] = "enqueued"]
  /\ job' = [m \in Messages |->
               IF m \in picked[s] /\ job[m] \in {"absent", "removed"}
               THEN "waiting" ELSE job[m]]
  /\ UNCHANGED <<attempts, stalls, owner, outbox, stepStatus, channel, calls,
                 picked, cycles, history, crashes>>

\* Defect variant: the mark is written without the status guard of its where clause.
MarkQueuedUnguarded(s) ==
  /\ sched[s] = "enqueued"
  /\ sched' = [sched EXCEPT ![s] = "idle"]
  /\ picked' = [picked EXCEPT ![s] = {}]
  /\ stepStatus' = [stepStatus EXCEPT ![s] = "queued"]
  /\ UNCHANGED <<jobVars, outbox, channel, calls, cycles, history, crashes>>

MarkQueued(s) ==
  /\ sched[s] = "enqueued"
  /\ sched' = [sched EXCEPT ![s] = "idle"]
  /\ picked' = [picked EXCEPT ![s] = {}]
  /\ stepStatus' = [stepStatus EXCEPT ![s] = IF @ = "pending" THEN "queued" ELSE @]
  /\ UNCHANGED <<jobVars, outbox, channel, calls, cycles, history, crashes>>

\* Redis or Postgres fails, or the process dies, before the next step.
SchedulerFails(s) ==
  /\ sched[s] # "idle"
  /\ sched' = [sched EXCEPT ![s] = "idle"]
  /\ picked' = [picked EXCEPT ![s] = {}]
  /\ UNCHANGED <<jobVars, outbox, stepStatus, channel, calls, cycles, history, crashes>>

----------------------------------------------------------------------------
(* BullMQ, as main.ts configures it.                                        *)

Take(w, m) ==
  /\ pc[w] = "idle"
  /\ job[m] = "waiting"
  /\ job' = [job EXCEPT ![m] = "active"]
  /\ owner' = [owner EXCEPT ![m] = w]
  /\ msg' = [msg EXCEPT ![w] = m]
  /\ Goto(w, "find")
  /\ UNCHANGED <<attempts, stalls, outbox, stepStatus, channel, requests, schedVars, history, crashes>>

Release(w) == Goto(w, "idle") /\ msg' = [msg EXCEPT ![w] = None]

\* Defect variant: a failed attempt is not counted, so retries never run out.
FailJobUncounted(w, m) ==
  /\ At(w, m, "throw")
  /\ Release(w)
  /\ IF owner[m] = w
     THEN job' = [job EXCEPT ![m] = "delayed"] /\ owner' = [owner EXCEPT ![m] = None]
     ELSE UNCHANGED <<job, owner>>
  /\ UNCHANGED <<attempts, stalls, outbox, stepStatus, channel, requests, schedVars, history, crashes>>

\* Only the holder of the job's lock token can finish it.
CompleteJob(w, m) ==
  /\ At(w, m, "done")
  /\ Release(w)
  /\ IF owner[m] = w
     THEN job' = [job EXCEPT ![m] = "completed"] /\ owner' = [owner EXCEPT ![m] = None]
     ELSE UNCHANGED <<job, owner>>
  /\ UNCHANGED <<attempts, stalls, outbox, stepStatus, channel, requests, schedVars, history, crashes>>

FailJob(w, m) ==
  /\ At(w, m, "throw")
  /\ Release(w)
  /\ IF owner[m] = w
     THEN /\ attempts' = [attempts EXCEPT ![m] = @ + 1]
          /\ job' = [job EXCEPT ![m] = IF attempts[m] + 1 < MaxAttempts
                                       THEN "delayed" ELSE "failed"]
          /\ owner' = [owner EXCEPT ![m] = None]
     ELSE UNCHANGED <<attempts, job, owner>>
  /\ UNCHANGED <<stalls, outbox, stepStatus, channel, requests, schedVars, history, crashes>>

\* The exponential backoff has elapsed.
Promote(m) ==
  /\ job[m] = "delayed"
  /\ job' = [job EXCEPT ![m] = "waiting"]
  /\ UNCHANGED <<attempts, stalls, owner, outbox, stepStatus, channel, calls,
                 schedVars, history, crashes>>

Running(w, m) == pc[w] # "idle" /\ msg[w] = m

\* The job's lock ran out: its worker died, or lives on and no longer owns it.
StalledCheck(m) ==
  /\ job[m] = "active"
  /\ LockMayExpire \/ ~Running(owner[m], m)
  /\ stalls' = [stalls EXCEPT ![m] = @ + 1]
  /\ job' = [job EXCEPT ![m] = IF stalls[m] < MaxStalls THEN "waiting" ELSE "failed"]
  /\ owner' = [owner EXCEPT ![m] = None]
  /\ UNCHANGED <<attempts, outbox, stepStatus, channel, calls, schedVars, history, crashes>>

\* removeOnComplete and removeOnFail drop old jobs with their counters.
Evict(m) ==
  /\ job[m] \in {"completed", "failed"}
  /\ job' = [job EXCEPT ![m] = "removed"]
  /\ attempts' = [attempts EXCEPT ![m] = 0]
  /\ stalls' = [stalls EXCEPT ![m] = 0]
  /\ UNCHANGED <<owner, outbox, stepStatus, channel, calls, schedVars, history, crashes>>

Crash(w) ==
  /\ crashes < MaxCrashes
  /\ pc[w] # "idle"
  /\ Release(w)
  /\ crashes' = crashes + 1
  /\ UNCHANGED <<jobVars, outbox, stepStatus, channel, requests, schedVars, history>>

----------------------------------------------------------------------------
(* processSendMessage: prepareMessage.  "ok" tells whether a write's reply   *)
(* reaches the worker: the write may commit and the worker still see an error. *)

Reply(w, ok, label) == Goto(w, IF ok THEN label ELSE "throw")
OnlyPc == UNCHANGED <<jobVars, outbox, stepStatus, channel, msg, requests, schedVars, history, crashes>>

\* The error reaches the worker and nothing was written.
DatabaseError(w) ==
  /\ pc[w] \in {"find", "target", "create", "load", "claim", "confirm", "record", "evaluate"}
  /\ Goto(w, "throw")
  /\ OnlyPc

FindOutbox(w, m) ==
  /\ At(w, m, "find")
  /\ Goto(w, IF outbox[m] = "absent" THEN "target" ELSE "load")
  /\ OnlyPc

\* The step, which editors may change at any time, has content for the channel or not.
SelectVariant(w) == \E hasContent \in BOOLEAN : Goto(w, IF hasContent THEN "create" ELSE "throw")

\* Enrollment and step are read; neither the enrollment's nor the step's status is looked at.
ReadTarget(w, m) ==
  /\ At(w, m, "target")
  /\ IF Eligible(m) THEN SelectVariant(w) ELSE Goto(w, "throw")
  /\ OnlyPc

\* Defect variant: the row is upserted, back to "prepared" if it exists.
CreateOutboxUpsert(w, m, ok) ==
  /\ At(w, m, "create")
  /\ outbox' = [outbox EXCEPT ![m] = "prepared"]
  /\ Reply(w, ok, "load")
  /\ UNCHANGED <<jobVars, stepStatus, channel, msg, requests, schedVars, history, crashes>>

\* The unique (enrollment, step, channel) key rejects a second row.
CreateOutbox(w, m, ok) ==
  /\ At(w, m, "create")
  /\ IF outbox[m] = "absent"
     THEN outbox' = [outbox EXCEPT ![m] = "prepared"] /\ Reply(w, ok, "load")
     ELSE UNCHANGED outbox /\ Goto(w, "throw")
  /\ UNCHANGED <<jobVars, stepStatus, channel, msg, requests, schedVars, history, crashes>>

----------------------------------------------------------------------------
(* processSendMessage: sendProviderMessage, then evaluateEnrollment.        *)

\* Defect variants: the claim's where clause admits claimed rows, or any row.
ClaimableIfUnsent == {"prepared", "failed", "sending"}
ClaimableAlways == OutboxStatus

Claimable == {"prepared", "failed"}

\* Defect variants: an uncertain row counts as sent; an uncertain row is resumed;
\* a row sent by an earlier attempt ends the job without evaluating progress.
AfterLoadTrusting(m) ==
  IF outbox[m] \in {"sent", "sending"} THEN "evaluate" ELSE IF Eligible(m) THEN "claim" ELSE "throw"
AfterLoadResuming(m) ==
  CASE outbox[m] = "sent" -> "evaluate"
    [] outbox[m] = "sending" -> "call"
    [] OTHER -> IF Eligible(m) THEN "claim" ELSE "throw"
AfterLoadSkipping(m) ==
  IF outbox[m] \in {"sent", "sending"} THEN "done" ELSE IF Eligible(m) THEN "claim" ELSE "throw"

\* Where a worker goes after reading a row in each status.
AfterLoad(m) ==
  CASE outbox[m] = "sent" -> "evaluate"
    [] outbox[m] = "sending" -> "done"      \* deliveryUncertain: the job completes
    [] OTHER -> IF Eligible(m) THEN "claim" ELSE "throw"

LoadOutbox(w, m) ==
  /\ At(w, m, "load")
  /\ Goto(w, AfterLoad(m))
  /\ OnlyPc

\* A claim that misses is an uncertain delivery too: the job completes.
Claim(w, m, ok) ==
  /\ At(w, m, "claim")
  /\ IF outbox[m] \in Claimable
     THEN /\ outbox' = [outbox EXCEPT ![m] = "sending"]
          /\ outcome' = [outcome EXCEPT ![m] = "none"]
          /\ Reply(w, ok, "call")
     ELSE UNCHANGED <<outbox, outcome>> /\ Reply(w, ok, "done")
  /\ UNCHANGED <<jobVars, stepStatus, channel, msg, requests, schedVars, copies, doubts, evaluated, crashes>>

\* sendByChannel: the provider takes the message in and the worker learns it,
\* the provider (or a missing credential) refuses it, or the provider takes it
\* in and the worker sees a transport error or an unreadable answer.
CallProvider(w, m, result) ==
  /\ At(w, m, "call")
  /\ outcome' = [outcome EXCEPT ![m] = result]
  /\ copies' = [copies EXCEPT ![m] = IF result = "refused" THEN @ ELSE @ + 1]
  /\ doubts' = [doubts EXCEPT ![m] = IF result = "doubtful" THEN @ + 1 ELSE @]
  /\ Goto(w, IF result = "accepted" THEN "confirm" ELSE "record")
  /\ UNCHANGED <<jobVars, outbox, stepStatus, channel, msg, requests, schedVars, evaluated, crashes>>

RecordFailure(w, m) ==
  /\ At(w, m, "record")
  /\ outbox' = [outbox EXCEPT ![m] = "failed"]
  /\ Goto(w, "throw")
  /\ UNCHANGED <<jobVars, stepStatus, channel, msg, requests, schedVars, history, crashes>>

\* Defect variant: the confirmation shares the provider call's catch block, so a
\* failed confirmation is recorded as a failed send.
ConfirmSentInTry(w, m, ok) ==
  /\ At(w, m, "confirm")
  /\ IF ok
     THEN /\ outbox' = [outbox EXCEPT ![m] = "sent"]
          /\ stepStatus' = [stepStatus EXCEPT ![StepOf[m]] =
                              IF @ \in {"pending", "queued"} THEN "sent" ELSE @]
          /\ Goto(w, "evaluate")
     ELSE Goto(w, "record") /\ UNCHANGED <<outbox, stepStatus>>
  /\ UNCHANGED <<jobVars, channel, msg, requests, schedVars, history, crashes>>

\* One transaction: the row is sent, and so is its step unless it moved on.
ConfirmSent(w, m, ok) ==
  /\ At(w, m, "confirm")
  /\ outbox' = [outbox EXCEPT ![m] = "sent"]
  /\ stepStatus' = [stepStatus EXCEPT ![StepOf[m]] =
                      IF @ \in {"pending", "queued"} THEN "sent" ELSE @]
  /\ Reply(w, ok, "evaluate")
  /\ UNCHANGED <<jobVars, channel, msg, requests, schedVars, history, crashes>>

\* What evaluateEnrollment may do, as far as this module tells: complete the
\* enrollment's current step, whatever became of its row since it was read, or not.
CompleteCurrentStep ==
  \/ \E s \in Steps : /\ stepStatus[s] # "completed"
                       /\ stepStatus' = [stepStatus EXCEPT ![s] = "completed"]
  \/ UNCHANGED stepStatus

EvaluateEnrollment(w, m, ok) ==
  /\ At(w, m, "evaluate")
  /\ evaluated' = evaluated \cup {StepOf[m]}
  /\ CompleteCurrentStep
  /\ Reply(w, ok, "done")
  /\ UNCHANGED <<jobVars, outbox, channel, msg, requests, schedVars, outcome, copies, doubts, crashes>>

----------------------------------------------------------------------------
(* What replies and clicks do meanwhile, in the API's processes.            *)

Does(r, task, s) == todo' = [todo EXCEPT ![r] = task] /\ about' = [about EXCEPT ![r] = s]

\* A reply is about the step that is current when its webhook reads the enrollment.
TakeReply(r, s) ==
  /\ todo[r] = "nothing"
  /\ Does(r, "record", s)
  /\ UNCHANGED <<jobVars, outbox, stepStatus, channel, pc, msg, schedVars, history, crashes>>

\* The row's status is overwritten, whatever it has become.
RecordReply(r) ==
  /\ todo[r] = "record"
  /\ stepStatus' = [stepStatus EXCEPT ![about[r]] = "replied"]
  /\ Does(r, "evaluate", None)
  /\ UNCHANGED <<jobVars, outbox, channel, pc, msg, schedVars, history, crashes>>

\* A message's links are there as soon as its outbox row is, sent or not.
HandleLinkClick(r) ==
  /\ todo[r] = "nothing"
  /\ \E m \in Messages : outbox[m] # "absent"
  /\ Does(r, "evaluate", None)
  /\ UNCHANGED <<jobVars, outbox, stepStatus, channel, pc, msg, schedVars, history, crashes>>

EvaluateRequest(r) ==
  /\ todo[r] = "evaluate"
  /\ CompleteCurrentStep
  /\ Does(r, "nothing", None)
  /\ UNCHANGED <<jobVars, outbox, channel, pc, msg, schedVars, history, crashes>>

\* A query fails or the process dies.
RequestFails(r) ==
  /\ todo[r] # "nothing"
  /\ Does(r, "nothing", None)
  /\ UNCHANGED <<jobVars, outbox, stepStatus, channel, pc, msg, schedVars, history, crashes>>

----------------------------------------------------------------------------
(* Opt-outs, and administrators.                                            *)

Unsubscribed(s) ==
  [stepStatus EXCEPT ![s] = IF @ = "completed" THEN @ ELSE "unsubscribed"]

CampaignUnsubscribe(s) ==
  /\ stepStatus' = Unsubscribed(s)
  /\ UNCHANGED <<jobVars, outbox, channel, calls, schedVars, history, crashes>>

GlobalUnsubscribe(s) ==
  /\ stepStatus' = Unsubscribed(s)
  /\ channel' = [m \in Messages |-> IF m \in MessagesOf(s) THEN "optedOut" ELSE channel[m]]
  /\ UNCHANGED <<jobVars, outbox, calls, schedVars, history, crashes>>

\* updateChannel sets "enabled"; it cannot undo an opt-out.
UpdateChannel(m, state) ==
  /\ channel[m] # "optedOut"
  /\ channel' = [channel EXCEPT ![m] = state]
  /\ UNCHANGED <<jobVars, outbox, stepStatus, calls, schedVars, history, crashes>>

----------------------------------------------------------------------------
WorkerStep(w) == \E m \in Messages :
  \/ CompleteJob(w, m) \/ FailJob(w, m)
  \/ FindOutbox(w, m) \/ ReadTarget(w, m) \/ LoadOutbox(w, m) \/ RecordFailure(w, m)
  \/ \E ok \in BOOLEAN : \/ CreateOutbox(w, m, ok) \/ Claim(w, m, ok)
                         \/ ConfirmSent(w, m, ok) \/ EvaluateEnrollment(w, m, ok)
  \/ \E result \in {"accepted", "refused", "doubtful"} : CallProvider(w, m, result)

Next ==
  \/ \E s \in Steps : \/ PickDue(s) \/ AddBulk(s) \/ MarkQueued(s) \/ SchedulerFails(s)
                      \/ CampaignUnsubscribe(s) \/ GlobalUnsubscribe(s)
  \/ \E w \in Workers : \/ \E m \in Messages : Take(w, m)
                        \/ WorkerStep(w) \/ DatabaseError(w) \/ Crash(w)
  \/ \E r \in Requests : \/ \E s \in Steps : TakeReply(r, s)
                         \/ RecordReply(r) \/ HandleLinkClick(r)
                         \/ EvaluateRequest(r) \/ RequestFails(r)
  \/ \E m \in Messages : \/ Promote(m) \/ StalledCheck(m) \/ Evict(m)
                         \/ \E state \in {"enabled", "disabled"} : UpdateChannel(m, state)

Spec == Init /\ [][Next]_vars

\* A live worker runs its job to an end and takes waiting jobs, and BullMQ keeps
\* promoting delayed jobs and checking for stalled ones.  Nothing is assumed of
\* the scheduler, the database, the provider, the recipients or crashes.
Fairness ==
  /\ \A w \in Workers : WF_vars(WorkerStep(w))
  /\ \A m \in Messages : /\ WF_vars(Promote(m))
                         /\ WF_vars(StalledCheck(m) /\ ~Running(owner[m], m))
                         /\ WF_vars(\E w \in Workers : Take(w, m))

FairSpec == Spec /\ Fairness

----------------------------------------------------------------------------
(* Safety.                                                                  *)

\* A worker between its claim and the recording of what the provider answered.
Holds(w, m) == pc[w] \in {"call", "confirm", "record"} /\ msg[w] = m

\* However many workers a stalled or re-added job reaches, at most one of them is
\* between the claim and its outcome, and the row says "sending" meanwhile.
ClaimIsExclusive ==
  \A m \in Messages : \A w \in Workers : Holds(w, m) =>
    /\ outbox[m] = "sending"
    /\ \A v \in Workers : Holds(v, m) => v = w

\* Extra copies of a message are explained one by one by provider errors that hid
\* an acceptance: retries, stalls, crashes and lost replies add none.
DuplicatesNeedDoubt == \A m \in Messages : copies[m] <= doubts[m] + 1

\* Progress is evaluated for a step only once a provider accepted one of its
\* messages and that was recorded (docs/queue-and-worker.md:28).
EvaluatedAfterAcceptance ==
  \A s \in evaluated : \E m \in MessagesOf(s) : outcome[m] = "accepted" /\ outbox[m] = "sent"

\* A step is marked queued only after the queue took one of its jobs, so a queue
\* failure leaves it eligible (docs/queue-and-worker.md:28, DECISIONS.md:793).
QueuedWasEnqueued ==
  \A s \in Steps : stepStatus[s] = "queued" => \E m \in MessagesOf(s) : job[m] # "absent"

KeepsAccepted == \A m \in Messages : outcome[m] = "accepted" =>
  outcome'[m] = "accepted" /\ copies'[m] = copies[m]

\* Once a worker learnt that the provider accepted a message, no job, retry or
\* second worker hands it to the provider again (queue-and-worker.md:30).
AcceptedNeverResent == [][KeepsAccepted]_vars

HolderMovesOn == \A m \in Messages :
  outbox[m] = "sending" /\ outbox'[m] # "sending" => \E w \in Workers : Holds(w, m)

\* A row left "sending" by a crash or a failed confirmation is nobody's to resend:
\* only the worker that holds its claim moves it on (DECISIONS.md:793).
UncertainNeverRetried == [][HolderMovesOn]_vars

StepRank == [pending |-> 0, queued |-> 1, sent |-> 2, replied |-> 3, unsubscribed |-> 4, completed |-> 5]

\* A reply whose webhook chose the step earlier is written over its row.
Overwritten(s) == stepStatus'[s] = "replied" /\ \E r \in Requests :
  todo[r] = "record" /\ about[r] = s /\ todo'[r] # "record"

StepAdvances == \A s \in Steps :
  \/ stepStatus'[s] = stepStatus[s]
  \/ StepRank[stepStatus'[s]] > StepRank[stepStatus[s]]
  \/ Overwritten(s)

\* A worker that outruns the scheduler's mark, a stale candidate, an opt-out or a stale
\* evaluation never takes a step's status back: a step that was sent, replied to, opted
\* out of or completed is not queued or sent again.  Only a reply under way sets it back,
\* to "replied", and it does so to a completed or unsubscribed step too.
StepNeverRegresses == [][StepAdvances]_vars

----------------------------------------------------------------------------
(* Refinement: the abstract phase is the row, split by what the provider    *)
(* answered to the claim that made it "sending".                            *)

Phase(m) ==
  CASE outbox[m] = "sent" -> "closed"
    [] outbox[m] = "sending" ->
         (CASE outcome[m] = "none" -> "claimed"
            [] outcome[m] = "accepted" -> "accepted"
            [] OTHER -> "refused")
    [] OTHER -> "open"

Abstract == INSTANCE OneSend WITH phase <- [m \in Messages |-> Phase(m)]

\* The queue, its workers and the outbox implement OneSend.
ImplementsOneSend == Abstract!Spec

----------------------------------------------------------------------------
(* Liveness, under Fairness.                                                *)

Unsettled == {"waiting", "active", "delayed"}

\* Every job BullMQ takes ends completed or failed: retries and stall recoveries
\* are bounded, whatever the database, the provider and crashes do.
EveryJobSettles == \A m \in Messages : job[m] \in Unsettled ~> job[m] \notin Unsettled

\* A message recorded as sent has its step's progress evaluated, by the job that
\* sent it or by a retry of it, unless the job fails for good first.
SentIsEvaluated ==
  \A m \in Messages : outbox[m] = "sent" ~>
    StepOf[m] \in evaluated \/ job[m] \in {"failed", "removed"}

----------------------------------------------------------------------------
\* "future scheduler, preparation, and provider-send paths skip suppressed
\* recipients" after "campaign/global suppression is applied" (ARCHITECTURE.md:731):
\* preparation never goes ahead for a step its recipient has unsubscribed from.
PreparationSkipsUnsubscribed ==
  [][\A w \in Workers : pc[w] = "target" /\ pc'[w] = "create" =>
       stepStatus[StepOf[msg[w]]] # "unsubscribed"]_vars

=============================================================================
