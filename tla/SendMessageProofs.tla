------------------------- MODULE SendMessageProofs -------------------------
(***************************************************************************)
(* Proofs about SendMessage: its types, the exclusivity of the claim, the  *)
(* account of every copy of a message, and that it implements OneSend.     *)
(***************************************************************************)
EXTENDS SendMessage, TLAPS

----------------------------------------------------------------------------
(* Types, with what the retry and stall counters need to stay in range.     *)

JobInv == \A m \in Messages :
  /\ owner[m] # None => job[m] = "active"
  /\ job[m] \notin {"completed", "failed"} =>
       attempts[m] < MaxAttempts /\ stalls[m] <= MaxStalls

TInv == TypeOK /\ JobInv

USE Assumptions

LEMMA TypeInit == Init => TInv
BY DEF Init, TInv, TypeOK, JobInv, JobState, OutboxStatus, StepStatus, Label

\* Every step keeps the types and the retry and stall counters within their bounds.
LEMMA TypeStep == TInv /\ [Next]_vars => TInv'
<1> SUFFICES ASSUME TInv, [Next]_vars PROVE TInv'
  OBVIOUS
<1> USE DEF TInv, TypeOK, JobInv, JobState, OutboxStatus, StepStatus, Label, vars,
        jobVars, requests, calls, schedVars, history, Goto, Release, Reply, OnlyPc, At, MessagesOf,
        Unsubscribed, Does
<1>1. ASSUME NEW s \in Steps, PickDue(s) PROVE TInv'
  BY <1>1 DEF PickDue
<1>2. ASSUME NEW s \in Steps, AddBulk(s) PROVE TInv'
  BY <1>2 DEF AddBulk
<1>3. ASSUME NEW s \in Steps, MarkQueued(s) PROVE TInv'
  BY <1>3 DEF MarkQueued
<1>4. ASSUME NEW s \in Steps, SchedulerFails(s) PROVE TInv'
  BY <1>4 DEF SchedulerFails
<1>5. ASSUME NEW s \in Steps, CampaignUnsubscribe(s) \/ GlobalUnsubscribe(s) PROVE TInv'
  BY <1>5 DEF CampaignUnsubscribe, GlobalUnsubscribe
<1>6. ASSUME NEW w \in Workers, NEW m \in Messages, Take(w, m) PROVE TInv'
  BY <1>6 DEF Take
<1>7. ASSUME NEW w \in Workers, NEW m \in Messages, CompleteJob(w, m) PROVE TInv'
  <2>1. CASE owner[m] = w
    <3>1. job' = [job EXCEPT ![m] = "completed"] /\ owner' = [owner EXCEPT ![m] = None]
      BY <1>7, <2>1 DEF CompleteJob
    <3>2. TypeOK'
      BY <1>7, <3>1 DEF CompleteJob
    <3>3. JobInv'
      BY <1>7, <3>1 DEF CompleteJob
    <3> QED
      BY <3>2, <3>3
  <2>2. CASE owner[m] # w
    BY <1>7, <2>2 DEF CompleteJob
  <2> QED
    BY <2>1, <2>2
<1>8. ASSUME NEW w \in Workers, NEW m \in Messages, FailJob(w, m) PROVE TInv'
  <2>1. CASE owner[m] = w
    <3>1. attempts[m] < MaxAttempts
      BY <1>8, <2>1
    <3>2. attempts' \in [Messages -> 0..MaxAttempts]
      <4>1. attempts[m] + 1 \in 0..MaxAttempts
        BY <3>1
      <4>2. attempts' = [attempts EXCEPT ![m] = attempts[m] + 1]
        BY <1>8, <2>1 DEF FailJob
      <4> QED
        BY <4>1, <4>2
    <3>3. job' \in [Messages -> JobState] /\ owner' \in [Messages -> Workers \cup {None}]
      BY <1>8, <2>1 DEF FailJob
    <3>4. pc' \in [Workers -> Label] /\ msg' \in [Workers -> Messages \cup {None}]
      BY <1>8 DEF FailJob
    <3>5. TypeOK'
      BY <1>8, <3>2, <3>3, <3>4 DEF FailJob
    <3>6. JobInv'
      BY <1>8, <2>1, <3>1 DEF FailJob
    <3> QED
      BY <3>5, <3>6
  <2>2. CASE owner[m] # w
    BY <1>8, <2>2 DEF FailJob
  <2> QED
    BY <2>1, <2>2
<1>9. ASSUME NEW w \in Workers, NEW m \in Messages,
             FindOutbox(w, m) \/ ReadTarget(w, m) \/ LoadOutbox(w, m) \/ RecordFailure(w, m)
      PROVE TInv'
  BY <1>9 DEF FindOutbox, ReadTarget, SelectVariant, LoadOutbox, AfterLoad, RecordFailure
<1>10. ASSUME NEW w \in Workers, NEW m \in Messages, NEW ok \in BOOLEAN,
              CreateOutbox(w, m, ok) \/ Claim(w, m, ok) PROVE TInv'
  BY <1>10 DEF CreateOutbox, Claim
<1>11. ASSUME NEW w \in Workers, NEW m \in Messages, NEW ok \in BOOLEAN,
              ConfirmSent(w, m, ok) \/ EvaluateEnrollment(w, m, ok) PROVE TInv'
  <2>1. CASE ConfirmSent(w, m, ok)
    BY <2>1 DEF ConfirmSent
  <2>2. CASE EvaluateEnrollment(w, m, ok)
    <3>1. StepOf[m] \in Steps
      OBVIOUS
    <3>2. evaluated' \subseteq Steps
      BY <2>2, <3>1 DEF EvaluateEnrollment
    <3>3. stepStatus' \in [Steps -> StepStatus]
      BY <2>2 DEF EvaluateEnrollment, CompleteCurrentStep
    <3> QED
      BY <2>2, <3>2, <3>3 DEF EvaluateEnrollment
  <2> QED
    BY <1>11, <2>1, <2>2
<1>12. ASSUME NEW w \in Workers, NEW m \in Messages,
              NEW result \in {"accepted", "refused", "doubtful"}, CallProvider(w, m, result)
       PROVE TInv'
  BY <1>12 DEF CallProvider
<1>13. ASSUME NEW w \in Workers, DatabaseError(w) \/ Crash(w) PROVE TInv'
  <2>1. CASE DatabaseError(w)
    BY <2>1 DEF DatabaseError
  <2>2. CASE Crash(w)
    BY <2>2 DEF Crash
  <2> QED
    BY <1>13, <2>1, <2>2
<1>14. ASSUME NEW m \in Messages, Promote(m) \/ Evict(m) PROVE TInv'
  <2>1. CASE Promote(m)
    BY <2>1 DEF Promote
  <2>2. CASE Evict(m)
    BY <2>2 DEF Evict
  <2> QED
    BY <1>14, <2>1, <2>2
<1>15. ASSUME NEW m \in Messages, StalledCheck(m) PROVE TInv'
  BY <1>15 DEF StalledCheck
<1>16. ASSUME NEW m \in Messages, NEW state \in {"enabled", "disabled"}, UpdateChannel(m, state)
       PROVE TInv'
  BY <1>16 DEF UpdateChannel
<1>17. ASSUME NEW r \in Requests, NEW s \in Steps, TakeReply(r, s) PROVE TInv'
  BY <1>17 DEF TakeReply
<1>18. ASSUME NEW r \in Requests, RecordReply(r) \/ EvaluateRequest(r) PROVE TInv'
  BY <1>18 DEF RecordReply, EvaluateRequest, CompleteCurrentStep
<1>19. ASSUME NEW r \in Requests, HandleLinkClick(r) \/ RequestFails(r) PROVE TInv'
  BY <1>19 DEF HandleLinkClick, RequestFails
<1>20. CASE UNCHANGED vars
  BY <1>20
<1> QED
  BY <1>1, <1>2, <1>3, <1>4, <1>5, <1>6, <1>7, <1>8, <1>9, <1>10, <1>11, <1>12, <1>13,
     <1>14, <1>15, <1>16, <1>17, <1>18, <1>19, <1>20 DEF Next, WorkerStep

\* The variables keep their types in every behaviour, whatever the constants: in
\* particular BullMQ never counts more attempts or stalls than it is configured for.
THEOREM Typing == Spec => []TypeOK
<1>1. Spec => []TInv
  BY TypeInit, TypeStep, PTL DEF Spec
<1> QED
  BY <1>1, PTL DEF TInv

----------------------------------------------------------------------------
(* The claim.  A row's status and the last provider outcome go together, the  *)
(* holder of a claim knows which outcome it is bringing, and no two workers   *)
(* hold the same claim.                                                       *)

RowInv(m) ==
  /\ outbox[m] = "sent" => outcome[m] = "accepted"
  /\ outbox[m] \in {"absent", "prepared"} => outcome[m] = "none"
  /\ outbox[m] = "failed" => outcome[m] \in {"refused", "doubtful"}
  /\ copies[m] = doubts[m] + (IF outcome[m] = "accepted" THEN 1 ELSE 0)

HolderInv(w, m) ==
  /\ Holds(w, m) =>
       /\ outbox[m] = "sending"
       /\ pc[w] = "call" => outcome[m] = "none"
       /\ pc[w] = "confirm" => outcome[m] = "accepted"
       /\ pc[w] = "record" => outcome[m] \in {"refused", "doubtful"}
       /\ \A v \in Workers : Holds(v, m) => v = w
  /\ At(w, m, "evaluate") => outbox[m] = "sent"

SendInv == \A m \in Messages : RowInv(m) /\ \A w \in Workers : HolderInv(w, m)

LEMMA SendInit == Init => SendInv
<1> SUFFICES ASSUME Init, NEW m \in Messages PROVE RowInv(m) /\ \A w \in Workers : HolderInv(w, m)
  BY DEF SendInv
<1>1. RowInv(m)
  BY DEF Init, RowInv
<1>2. ASSUME NEW w \in Workers PROVE HolderInv(w, m)
  BY DEF Init, HolderInv, Holds, At
<1> QED
  BY <1>1, <1>2

\* Every step keeps the claim exclusive and the copies accounted for.
LEMMA SendStep == TInv /\ SendInv /\ [Next]_vars => SendInv'
<1> SUFFICES ASSUME TInv, SendInv, [Next]_vars PROVE SendInv'
  OBVIOUS
<1> USE DEF TInv, TypeOK, SendInv, RowInv, HolderInv, Holds, At, OutboxStatus, Label, vars,
        jobVars, requests, calls, schedVars, history, Goto, Release, Reply, OnlyPc
<1>1. ASSUME UNCHANGED <<outbox, outcome, copies, doubts, pc, msg>> PROVE SendInv'
  BY <1>1
<1>2. ASSUME NEW w \in Workers, UNCHANGED <<outbox, outcome, copies, doubts>>,
             pc' = [pc EXCEPT ![w] = pc'[w]],
             pc'[w] \notin {"call", "confirm", "record", "evaluate"},
             \A v \in Workers : v # w => msg'[v] = msg[v]
      PROVE SendInv'
  BY <1>2
<1>3. ASSUME NEW w \in Workers, NEW m \in Messages,
             Take(w, m) \/ CompleteJob(w, m) \/ FailJob(w, m) PROVE SendInv'
  <2>1. CASE Take(w, m)
    BY <1>2, <2>1 DEF Take
  <2>2. CASE CompleteJob(w, m)
    BY <1>2, <2>2 DEF CompleteJob
  <2>3. CASE FailJob(w, m)
    BY <1>2, <2>3 DEF FailJob
  <2> QED
    BY <1>3, <2>1, <2>2, <2>3
<1>4. ASSUME NEW w \in Workers, NEW m \in Messages, FindOutbox(w, m) \/ ReadTarget(w, m)
      PROVE SendInv'
  BY <1>2, <1>4 DEF FindOutbox, ReadTarget, SelectVariant
<1>5. ASSUME NEW w \in Workers, DatabaseError(w) \/ Crash(w) PROVE SendInv'
  <2>1. CASE DatabaseError(w)
    BY <1>2, <2>1 DEF DatabaseError
  <2>2. CASE Crash(w)
    BY <1>2, <2>2 DEF Crash
  <2> QED
    BY <1>5, <2>1, <2>2
<1>6. ASSUME NEW w \in Workers, NEW m \in Messages, LoadOutbox(w, m) PROVE SendInv'
  <2>1. CASE outbox[m] = "sent"
    BY <1>6, <2>1 DEF LoadOutbox, AfterLoad
  <2>2. CASE outbox[m] # "sent"
    BY <1>2, <1>6, <2>2 DEF LoadOutbox, AfterLoad
  <2> QED
    BY <2>1, <2>2
<1>7. ASSUME NEW w \in Workers, NEW m \in Messages, NEW ok \in BOOLEAN, CreateOutbox(w, m, ok)
      PROVE SendInv'
  BY <1>7 DEF CreateOutbox
<1>8. ASSUME NEW w \in Workers, NEW m \in Messages, NEW ok \in BOOLEAN, Claim(w, m, ok)
      PROVE SendInv'
  <2>1. CASE outbox[m] \in Claimable
    BY <1>8, <2>1 DEF Claim, Claimable
  <2>2. CASE outbox[m] \notin Claimable
    BY <1>2, <1>8, <2>2 DEF Claim
  <2> QED
    BY <2>1, <2>2
<1>9. ASSUME NEW w \in Workers, NEW m \in Messages,
             NEW result \in {"accepted", "refused", "doubtful"}, CallProvider(w, m, result)
      PROVE SendInv'
  BY <1>9 DEF CallProvider
<1>10. ASSUME NEW w \in Workers, NEW m \in Messages, RecordFailure(w, m) PROVE SendInv'
  BY <1>10 DEF RecordFailure
<1>11. ASSUME NEW w \in Workers, NEW m \in Messages, NEW ok \in BOOLEAN, ConfirmSent(w, m, ok)
       PROVE SendInv'
  BY <1>11 DEF ConfirmSent
<1>12. ASSUME NEW w \in Workers, NEW m \in Messages, NEW ok \in BOOLEAN,
              EvaluateEnrollment(w, m, ok)
       PROVE SendInv'
  BY <1>2, <1>12 DEF EvaluateEnrollment
<1>13. ASSUME NEW s \in Steps,
              \/ PickDue(s) \/ AddBulk(s) \/ MarkQueued(s) \/ SchedulerFails(s)
              \/ CampaignUnsubscribe(s) \/ GlobalUnsubscribe(s)
       PROVE SendInv'
  BY <1>1, <1>13 DEF PickDue, AddBulk, MarkQueued, SchedulerFails, CampaignUnsubscribe,
     GlobalUnsubscribe
<1>14. ASSUME NEW m \in Messages, NEW state \in {"enabled", "disabled"},
              Promote(m) \/ StalledCheck(m) \/ Evict(m) \/ UpdateChannel(m, state)
       PROVE SendInv'
  BY <1>1, <1>14 DEF Promote, StalledCheck, Evict, UpdateChannel
<1>15. ASSUME NEW r \in Requests,
              \/ \E s \in Steps : TakeReply(r, s)
              \/ RecordReply(r) \/ HandleLinkClick(r) \/ EvaluateRequest(r) \/ RequestFails(r)
       PROVE SendInv'
  BY <1>1, <1>15 DEF TakeReply, RecordReply, HandleLinkClick, EvaluateRequest, RequestFails
<1>16. CASE UNCHANGED vars
  BY <1>1, <1>16
<1> QED
  BY <1>3, <1>4, <1>5, <1>6, <1>7, <1>8, <1>9, <1>10, <1>11, <1>12, <1>13, <1>14, <1>15, <1>16
  DEF Next, WorkerStep

LEMMA SendInvariant == Spec => [](TInv /\ SendInv)
BY TypeInit, TypeStep, SendInit, SendStep, PTL DEF Spec

\* Claims are exclusive for any number of workers, messages, attempts and stalls,
\* with or without jobs declared stalled while their worker lives.
THEOREM ExclusiveClaims == Spec => []ClaimIsExclusive
<1>1. SendInv => ClaimIsExclusive
  BY DEF SendInv, HolderInv, ClaimIsExclusive
<1> QED
  BY <1>1, SendInvariant, PTL

\* Every copy of a message beyond the first is accounted for by a provider error
\* that hid an acceptance.
THEOREM CopiesExplained == Spec => []DuplicatesNeedDoubt
<1>1. TInv /\ SendInv => DuplicatesNeedDoubt
  <2> SUFFICES ASSUME TInv, SendInv, NEW m \in Messages PROVE copies[m] <= doubts[m] + 1
    BY DEF DuplicatesNeedDoubt
  <2>1. doubts[m] \in Nat
    BY DEF TInv, TypeOK
  <2>2. copies[m] = doubts[m] + (IF outcome[m] = "accepted" THEN 1 ELSE 0)
    BY DEF SendInv, RowInv
  <2> QED
    BY <2>1, <2>2
<1> QED
  BY <1>1, SendInvariant, PTL

----------------------------------------------------------------------------
(* Steps.  Only five operations touch a row, its outcome or its copies; the  *)
(* lemma says which, so that each step property is checked on those five.    *)

RowVars == <<outbox, outcome, copies, doubts>>

RowStep ==
  \/ \E w \in Workers, m \in Messages, ok \in BOOLEAN :
        CreateOutbox(w, m, ok) \/ Claim(w, m, ok) \/ ConfirmSent(w, m, ok)
  \/ \E w \in Workers, m \in Messages : RecordFailure(w, m)
  \/ \E w \in Workers, m \in Messages, result \in {"accepted", "refused", "doubtful"} :
        CallProvider(w, m, result)

LEMMA RowSteps == [Next]_vars => RowStep \/ UNCHANGED RowVars
BY DEF Next, WorkerStep, RowStep, RowVars, vars, history, schedVars, jobVars, OnlyPc,
   TakeReply, RecordReply, HandleLinkClick, EvaluateRequest, RequestFails, PickDue, AddBulk, MarkQueued, SchedulerFails, CampaignUnsubscribe, GlobalUnsubscribe,
   Take, CompleteJob, FailJob, Promote, StalledCheck, Evict, UpdateChannel, Crash,
   DatabaseError, FindOutbox, ReadTarget, SelectVariant, LoadOutbox, EvaluateEnrollment

\* Once a provider's acceptance reached a worker, no step of any worker hands the
\* message over again.
THEOREM NoResend == Spec => AcceptedNeverResent
<1>1. ASSUME TInv, SendInv, [Next]_vars PROVE KeepsAccepted
  <2> USE DEF TInv, TypeOK, SendInv, RowInv, HolderInv, Holds, At, KeepsAccepted
  <2>1. CASE UNCHANGED RowVars
    BY <2>1 DEF RowVars
  <2>2. CASE RowStep
    <3>1. ASSUME NEW w \in Workers, NEW m \in Messages, NEW ok \in BOOLEAN,
                 CreateOutbox(w, m, ok) \/ Claim(w, m, ok) \/ ConfirmSent(w, m, ok)
          PROVE KeepsAccepted
      BY <1>1, <3>1 DEF CreateOutbox, Claim, Claimable, ConfirmSent, history
    <3>2. ASSUME NEW w \in Workers, NEW m \in Messages, RecordFailure(w, m)
          PROVE KeepsAccepted
      BY <3>2 DEF RecordFailure, history
    <3>3. ASSUME NEW w \in Workers, NEW m \in Messages,
                 NEW result \in {"accepted", "refused", "doubtful"}, CallProvider(w, m, result)
          PROVE KeepsAccepted
      BY <1>1, <3>3 DEF CallProvider
    <3> QED
      BY <2>2, <3>1, <3>2, <3>3 DEF RowStep
  <2> QED
    BY <1>1, <2>1, <2>2, RowSteps
<1> QED
  BY <1>1, SendInvariant, PTL DEF Spec, AcceptedNeverResent

\* A row left "sending" is moved on by the worker that holds its claim or by nobody.
THEOREM OnlyHolderMovesOn == Spec => UncertainNeverRetried
<1>1. ASSUME TInv, SendInv, [Next]_vars PROVE HolderMovesOn
  <2> USE DEF TInv, TypeOK, SendInv, RowInv, HolderInv, Holds, At, HolderMovesOn
  <2>1. CASE UNCHANGED RowVars
    BY <2>1 DEF RowVars
  <2>2. CASE RowStep
    <3>1. ASSUME NEW w \in Workers, NEW m \in Messages, NEW ok \in BOOLEAN,
                 CreateOutbox(w, m, ok) \/ Claim(w, m, ok) \/ ConfirmSent(w, m, ok)
          PROVE HolderMovesOn
      BY <1>1, <3>1 DEF CreateOutbox, Claim, Claimable, ConfirmSent, history
    <3>2. ASSUME NEW w \in Workers, NEW m \in Messages, RecordFailure(w, m)
          PROVE HolderMovesOn
      BY <1>1, <3>2 DEF RecordFailure, history
    <3>3. ASSUME NEW w \in Workers, NEW m \in Messages,
                 NEW result \in {"accepted", "refused", "doubtful"}, CallProvider(w, m, result)
          PROVE HolderMovesOn
      BY <3>3 DEF CallProvider
    <3> QED
      BY <2>2, <3>1, <3>2, <3>3 DEF RowStep
  <2> QED
    BY <1>1, <2>1, <2>2, RowSteps
<1> QED
  BY <1>1, SendInvariant, PTL DEF Spec, UncertainNeverRetried

\* Progress is evaluated for a step only after one of its messages was accepted and
\* recorded as sent: a sent row stays sent, and only a worker that saw it evaluates.
THEOREM EvaluationAfterAcceptance == Spec => []EvaluatedAfterAcceptance
<1>1. Init => EvaluatedAfterAcceptance
  BY DEF Init, EvaluatedAfterAcceptance
<1>2. ASSUME TInv, SendInv, EvaluatedAfterAcceptance, [Next]_vars
      PROVE EvaluatedAfterAcceptance'
  <2> USE DEF TInv, TypeOK, SendInv, RowInv, HolderInv, Holds, At
  <2>1. ASSUME NEW m \in Messages, outbox[m] = "sent"
        PROVE outbox'[m] = "sent" /\ outcome'[m] = "accepted"
    <3>1. CASE UNCHANGED RowVars
      BY <1>2, <2>1, <3>1 DEF RowVars
    <3>2. CASE RowStep
      BY <1>2, <2>1, <3>2 DEF RowStep, CreateOutbox, Claim, Claimable, ConfirmSent,
         RecordFailure, CallProvider, history
    <3> QED
      BY <1>2, <3>1, <3>2, RowSteps
  <2>2. ASSUME UNCHANGED evaluated PROVE EvaluatedAfterAcceptance'
    BY <1>2, <2>1, <2>2 DEF EvaluatedAfterAcceptance, MessagesOf
  <2>3. ASSUME NEW w \in Workers, NEW m \in Messages, NEW ok \in BOOLEAN,
               EvaluateEnrollment(w, m, ok)
        PROVE EvaluatedAfterAcceptance'
    <3>1. outbox[m] = "sent"
      BY <1>2, <2>3 DEF EvaluateEnrollment
    <3> QED
      BY <1>2, <2>1, <2>3, <3>1 DEF EvaluateEnrollment, EvaluatedAfterAcceptance, MessagesOf
  <2>4. UNCHANGED evaluated
          \/ \E w \in Workers, m \in Messages, ok \in BOOLEAN : EvaluateEnrollment(w, m, ok)
    BY <1>2 DEF Next, WorkerStep, vars, history, schedVars, jobVars, OnlyPc,
       TakeReply, RecordReply, HandleLinkClick, EvaluateRequest, RequestFails, PickDue, AddBulk, MarkQueued, SchedulerFails, CampaignUnsubscribe, GlobalUnsubscribe,
       Take, CompleteJob, FailJob, Promote, StalledCheck, Evict, UpdateChannel, Crash,
       DatabaseError, FindOutbox, ReadTarget, SelectVariant, LoadOutbox, CreateOutbox, Claim, ConfirmSent,
       RecordFailure, CallProvider
  <2> QED
    BY <2>2, <2>3, <2>4
<1> QED
  BY <1>1, <1>2, SendInvariant, PTL DEF Spec

\* What the scheduler carries from the candidate it read to the mark it writes.
QueueInv == \A s \in Steps :
  /\ sched[s] # "idle" => picked[s] # {} /\ picked[s] \subseteq MessagesOf(s)
  /\ sched[s] = "enqueued" => \A m \in picked[s] : job[m] # "absent"
  /\ stepStatus[s] = "queued" => \E m \in MessagesOf(s) : job[m] # "absent"

\* A step is queued only if the queue took a job of it, whatever fails in between.
THEOREM QueueFirst == Spec => []QueuedWasEnqueued
<1>1. Init => QueueInv
  BY DEF Init, QueueInv
<1>2. ASSUME TInv, QueueInv, [Next]_vars PROVE QueueInv'
  <2> USE DEF TInv, TypeOK, QueueInv, MessagesOf, vars, jobVars, requests, calls, schedVars
  <2>1. ASSUME \A m \in Messages : job[m] # "absent" => job'[m] # "absent",
               \A s \in Steps : stepStatus'[s] = "queued" => stepStatus[s] = "queued",
               UNCHANGED <<sched, picked>>
        PROVE QueueInv'
    BY <1>2, <2>1
  <2>2. ASSUME NEW s \in Steps, PickDue(s) PROVE QueueInv'
    BY <1>2, <2>2 DEF PickDue
  <2>3. ASSUME NEW s \in Steps, AddBulk(s) PROVE QueueInv'
    BY <1>2, <2>3 DEF AddBulk
  <2>4. ASSUME NEW s \in Steps, MarkQueued(s) PROVE QueueInv'
    BY <1>2, <2>4 DEF MarkQueued
  <2>5. ASSUME NEW s \in Steps, SchedulerFails(s) PROVE QueueInv'
    BY <1>2, <2>5 DEF SchedulerFails
  <2>6. ASSUME NEW s \in Steps, CampaignUnsubscribe(s) \/ GlobalUnsubscribe(s) PROVE QueueInv'
    BY <1>2, <2>1, <2>6 DEF CampaignUnsubscribe, GlobalUnsubscribe, Unsubscribed
  <2>7. ASSUME NEW w \in Workers, NEW m \in Messages,
               Take(w, m) \/ CompleteJob(w, m) \/ FailJob(w, m) PROVE QueueInv'
    BY <1>2, <2>1, <2>7 DEF Take, CompleteJob, FailJob
  <2>8. ASSUME NEW m \in Messages, NEW state \in {"enabled", "disabled"},
               Promote(m) \/ StalledCheck(m) \/ Evict(m) \/ UpdateChannel(m, state)
        PROVE QueueInv'
    BY <1>2, <2>1, <2>8 DEF Promote, StalledCheck, Evict, UpdateChannel
  <2>9. ASSUME NEW w \in Workers, NEW m \in Messages, NEW ok \in BOOLEAN,
               ConfirmSent(w, m, ok) \/ EvaluateEnrollment(w, m, ok)
        PROVE QueueInv'
    BY <1>2, <2>1, <2>9 DEF ConfirmSent, EvaluateEnrollment, CompleteCurrentStep
  <2>10. ASSUME NEW r \in Requests, RecordReply(r) \/ EvaluateRequest(r) PROVE QueueInv'
    BY <1>2, <2>1, <2>10 DEF RecordReply, EvaluateRequest, CompleteCurrentStep
  <2>11. CASE UNCHANGED <<job, stepStatus, sched, picked>>
    BY <2>1, <2>11
  <2> QED
    BY <1>2, <2>2, <2>3, <2>4, <2>5, <2>6, <2>7, <2>8, <2>9, <2>10, <2>11
    DEF Next, WorkerStep, OnlyPc, FindOutbox, ReadTarget, SelectVariant, LoadOutbox, RecordFailure,
        CreateOutbox, Claim, CallProvider, DatabaseError, Crash, TakeReply, HandleLinkClick, RequestFails
<1>3. QueueInv => QueuedWasEnqueued
  BY DEF QueueInv, QueuedWasEnqueued
<1>4. Spec => []TInv
  BY SendInvariant, PTL
<1> QED
  BY <1>1, <1>2, <1>3, <1>4, PTL DEF Spec

\* No scheduler pass, worker, opt-out or evaluation takes a step's status back, however
\* stale what it read: only a reply under way does, to "replied".
THEOREM StepsOnlyAdvance == Spec => StepNeverRegresses
<1>1. ASSUME TInv, [Next]_vars PROVE [StepAdvances]_vars
  <2>0. stepStatus \in [Steps -> StepStatus]
    BY <1>1 DEF TInv, TypeOK
  <2>1. ASSUME NEW s \in Steps, MarkQueued(s) PROVE StepAdvances
    BY <2>0, <2>1 DEF MarkQueued, StepStatus, StepAdvances, StepRank
  <2>2. ASSUME NEW s \in Steps, CampaignUnsubscribe(s) \/ GlobalUnsubscribe(s) PROVE StepAdvances
    BY <2>0, <2>2 DEF CampaignUnsubscribe, GlobalUnsubscribe, Unsubscribed, StepStatus, StepAdvances, StepRank
  <2>3. ASSUME CompleteCurrentStep PROVE StepAdvances
    BY <2>0, <2>3 DEF CompleteCurrentStep, StepStatus, StepAdvances, StepRank
  <2>4. ASSUME NEW w \in Workers, NEW m \in Messages, NEW ok \in BOOLEAN,
               ConfirmSent(w, m, ok) \/ EvaluateEnrollment(w, m, ok)
        PROVE StepAdvances
    <3>1. StepOf[m] \in Steps
      OBVIOUS
    <3>2. CASE ConfirmSent(w, m, ok)
      BY <2>0, <3>1, <3>2 DEF ConfirmSent, StepStatus, StepAdvances, StepRank
    <3>3. CASE EvaluateEnrollment(w, m, ok)
      BY <2>3, <3>3 DEF EvaluateEnrollment
    <3> QED
      BY <2>4, <3>2, <3>3
  <2>5. ASSUME NEW r \in Requests, RecordReply(r) PROVE StepAdvances
    <3>1. \A s \in Steps : s # about[r] => stepStatus'[s] = stepStatus[s]
      BY <2>0, <2>5 DEF RecordReply
    <3>2. about[r] \in Steps => Overwritten(about[r])
      <4>1. todo' = [todo EXCEPT ![r] = "evaluate"] /\ todo[r] = "record"
        BY <2>5 DEF RecordReply, Does
      <4>2. todo'[r] = "evaluate"
        BY <1>1, <4>1 DEF TInv, TypeOK
      <4> QED
        BY <2>0, <2>5, <4>1, <4>2 DEF RecordReply, Overwritten
    <3> QED
      BY <3>1, <3>2 DEF StepAdvances
  <2>6. ASSUME NEW r \in Requests, EvaluateRequest(r) PROVE StepAdvances
    BY <2>3, <2>6 DEF EvaluateRequest
  <2>7. CASE UNCHANGED stepStatus
    BY <2>7 DEF StepAdvances
  <2> QED
    BY <1>1, <2>1, <2>2, <2>4, <2>5, <2>6, <2>7
    DEF Next, WorkerStep, vars, history, schedVars, jobVars, OnlyPc, PickDue, AddBulk,
        SchedulerFails, Take, CompleteJob, FailJob, Promote, StalledCheck, Evict, UpdateChannel,
        Crash, DatabaseError, FindOutbox, ReadTarget, SelectVariant, LoadOutbox, CreateOutbox, Claim,
        RecordFailure, CallProvider, TakeReply, HandleLinkClick, RequestFails
<1>2. Spec => []TInv
  BY SendInvariant, PTL
<1> QED
  BY <1>1, <1>2, PTL DEF Spec, StepNeverRegresses

----------------------------------------------------------------------------
(* Refinement.  A claim, a provider call, a recorded failure and a recorded  *)
(* success are the abstract actions; every other step is a stutter.          *)

\* The phase of one message moves and those of the others stay.
LEMMA PhaseMoves ==
  ASSUME NEW m \in Messages, NEW from, NEW to, Phase(m) = from, Phase(m)' = to,
         \A n \in Messages : n # m => outbox'[n] = outbox[n] /\ outcome'[n] = outcome[n]
  PROVE  Abstract!Move(m, from, to)
<1>1. \A n \in Messages : n # m => Phase(n)' = Phase(n)
  BY DEF Phase
<1> QED
  BY <1>1 DEF Abstract!Move

\* The queue, its workers, crashes and stalls, and the outbox implement OneSend.
THEOREM Refinement == Spec => ImplementsOneSend
<1>1. Init => Abstract!Init
  BY DEF Init, Abstract!Init, Phase
<1>2. ASSUME TInv, SendInv, [Next]_vars PROVE [Abstract!Next]_(Abstract!vars)
  <2> USE DEF TInv, TypeOK, SendInv, RowInv, HolderInv, Holds, At
  <2>1. CASE UNCHANGED RowVars
    BY <2>1 DEF RowVars, Abstract!vars, Phase
  <2>2. ASSUME NEW w \in Workers, NEW m \in Messages, NEW ok \in BOOLEAN, CreateOutbox(w, m, ok)
        PROVE UNCHANGED Abstract!vars
    BY <1>2, <2>2 DEF CreateOutbox, history, Abstract!vars, Phase
  <2>3. ASSUME NEW w \in Workers, NEW m \in Messages, NEW ok \in BOOLEAN, Claim(w, m, ok)
        PROVE Abstract!Claim(m) \/ UNCHANGED Abstract!vars
    <3>1. CASE outbox[m] \in Claimable
      <4>1. Phase(m) = "open" /\ Phase(m)' = "claimed"
        BY <1>2, <2>3, <3>1 DEF Claim, Claimable, Phase
      <4> QED
        BY <1>2, <2>3, <3>1, <4>1, PhaseMoves DEF Claim, Abstract!Claim
    <3>2. CASE outbox[m] \notin Claimable
      BY <2>3, <3>2 DEF Claim, Abstract!vars, Phase
    <3> QED
      BY <3>1, <3>2
  <2>4. ASSUME NEW w \in Workers, NEW m \in Messages, CallProvider(w, m, "accepted")
        PROVE Abstract!Accept(m)
    <3>1. Phase(m) = "claimed" /\ Phase(m)' = "accepted"
      BY <1>2, <2>4 DEF CallProvider, Phase
    <3> QED
      BY <1>2, <2>4, <3>1, PhaseMoves DEF CallProvider, Abstract!Accept
  <2>5. ASSUME NEW w \in Workers, NEW m \in Messages, CallProvider(w, m, "refused")
        PROVE Abstract!Refuse(m)
    <3>1. Phase(m) = "claimed" /\ Phase(m)' = "refused"
      BY <1>2, <2>5 DEF CallProvider, Phase
    <3> QED
      BY <1>2, <2>5, <3>1, PhaseMoves DEF CallProvider, Abstract!Refuse
  <2>6. ASSUME NEW w \in Workers, NEW m \in Messages, CallProvider(w, m, "doubtful")
        PROVE Abstract!Doubt(m)
    <3>1. Phase(m) = "claimed" /\ Phase(m)' = "refused"
      BY <1>2, <2>6 DEF CallProvider, Phase
    <3> QED
      BY <1>2, <2>6, <3>1, PhaseMoves DEF CallProvider, Abstract!Doubt
  <2>7. ASSUME NEW w \in Workers, NEW m \in Messages, RecordFailure(w, m)
        PROVE Abstract!Reopen(m)
    <3>1. Phase(m) = "refused" /\ Phase(m)' = "open"
      BY <1>2, <2>7 DEF RecordFailure, history, Phase
    <3> QED
      BY <1>2, <2>7, <3>1, PhaseMoves DEF RecordFailure, history, Abstract!Reopen
  <2>8. ASSUME NEW w \in Workers, NEW m \in Messages, NEW ok \in BOOLEAN, ConfirmSent(w, m, ok)
        PROVE Abstract!Close(m)
    <3>1. Phase(m) = "accepted" /\ Phase(m)' = "closed"
      BY <1>2, <2>8 DEF ConfirmSent, history, Phase
    <3> QED
      BY <1>2, <2>8, <3>1, PhaseMoves DEF ConfirmSent, history, Abstract!Close
  <2> HIDE DEF TInv, SendInv
  <2>9. CASE RowStep
    BY <2>9, <2>2, <2>3, <2>4, <2>5, <2>6, <2>7, <2>8 DEF RowStep, Abstract!Next
  <2> QED
    BY <1>2, <2>1, <2>9, RowSteps
<1> QED
  BY <1>1, <1>2, SendInvariant, PTL DEF Spec, ImplementsOneSend, Abstract!Spec

=============================================================================
