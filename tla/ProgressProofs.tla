--------------------------- MODULE ProgressProofs ---------------------------
(***************************************************************************)
(* Proofs about Progress, for any number of steps, evaluations and        *)
(* enrollments: its types; that racing evaluations complete each step      *)
(* once, on evidence, in order, and leave no part of the campaign out.     *)
(* What holds only of a channel without replies says so in its property.   *)
(***************************************************************************)
EXTENDS Progress, WellFoundedInduction, TLAPS

LEMMA Length == N \in Nat \ {0}
BY Assumptions

USE Length

\* No action changes the campaign.
LEMMA SameCampaign == [Next]_vars => campaign' = campaign
BY DEF Next, Evaluate, ReadEnrollment, ReadStates, ReadEvents, CompleteCurrentStep, EvaluationFails,
   HandleTwilioReply, HandleTelegram, TakeReply, RecordReply, Send, HandleLinkClick, Schedule, Prepare, SendFails, Evict, EditStep,
   Unsubscribe, BeginRestart, FinishRestart, SetStatus, vars

\* The first of some steps exists, and is one of them.
LEMMA FirstIsLeast ==
  ASSUME NEW S, S \subseteq Steps, S # {}
  PROVE  FirstOf(S) \in S /\ \A t \in S : FirstOf(S) <= t
<1>1. S \subseteq Nat
  BY DEF Steps
<1> DEFINE Less == {p \in Nat \X Nat : p[1] < p[2]}
<1>2. IsWellFoundedOn(Less, Nat)
  BY NatLessThanWellFounded DEF OpToRel
<1>3. \A x, y \in Nat : <<y, x>> \in Less <=> y < x
  OBVIOUS
<1> HIDE DEF Less
<1>4. PICK x \in S : \A y \in S : ~(<<y, x>> \in Less)
  BY <1>1, <1>2, WFMin
<1>5. \A y \in S : ~(y < x)
  BY <1>1, <1>3, <1>4, Zenon
<1>6. \A y \in S : x <= y
  BY <1>1, <1>5
<1> QED
  BY <1>6 DEF FirstOf

----------------------------------------------------------------------------
(* Types, with what an evaluation in progress has read.                     *)

SnapInv == \A e \in Evaluators :
  /\ pc[e] \in {"reply", "states", "events", "commit"} => snap[e].step \in Steps
  /\ pc[e] \in {"events", "commit"} => snap[e].last \/ snap[e].next \in Steps

TInv == TypeOK /\ SnapInv

LEMMA SnapAtType ==
  ASSUME NEW s \in Steps
  PROVE  /\ SnapAt(s) \in [step : 0..N, run : Nat, next : 0..N, last : BOOLEAN]
         /\ SnapAt(s).step = s
BY DEF SnapAt, Steps

LEMMA NoSnapType == NoSnap \in [step : 0..N, run : Nat, next : 0..N, last : BOOLEAN]
BY DEF NoSnap, SnapAt

LEMMA TypeInit == Init => TInv
<1> SUFFICES ASSUME Init PROVE TInv
  OBVIOUS
<1>1. current \in Steps
  BY FirstIsLeast DEF Init
<1>2. FreshRows(published) \in [Steps -> StateStatus]
  BY DEF FreshRows, StateStatus
<1>3. published \subseteq Steps /\ edited = Steps \ published
  BY DEF Init
<1>4. TypeOK
  BY <1>1, <1>2, <1>3, NoSnapType DEF Init, TypeOK
<1> QED
  BY <1>4 DEF Init, TInv, SnapInv

\* Every action keeps the types, and evaluations keep to the campaign's steps.
LEMMA TypeStep == TInv /\ [Next]_vars => TInv'
<1> SUFFICES ASSUME TInv, [Next]_vars PROVE TInv'
  OBVIOUS
<1> USE DEF TInv, TypeOK, SnapInv, StateStatus, vars, rows, events, calls, Goto, Stop
<1>1. ASSUME NEW e \in Evaluators, ReadEnrollment(e) PROVE TInv'
  <2>1. CASE enrollment = "active"
    <3>1. /\ SnapAt(current) \in [step : 0..N, run : Nat, next : 0..N, last : BOOLEAN]
          /\ SnapAt(current).step \in Steps
      BY SnapAtType
    <3>2. /\ pc' = [pc EXCEPT ![e] = "states"]
          /\ snap' = [snap EXCEPT ![e] = SnapAt(current)]
      BY <1>1, <2>1 DEF ReadEnrollment
    <3> QED
      BY <1>1, <3>1, <3>2 DEF ReadEnrollment
  <2>2. CASE enrollment # "active"
    BY <1>1, <2>2, NoSnapType DEF ReadEnrollment
  <2> QED
    BY <2>1, <2>2
<1>2. ASSUME NEW e \in Evaluators, ReadStates(e) PROVE TInv'
  <2>1. CASE UNCHANGED <<enrollment, current, rows, run, restart, campaign, published, events, completions, reopened,
                        edited, failures>> /\ Stop(e)
    BY <2>1, NoSnapType
  <2>2. CASE ~Stop(e)
    <3> DEFINE s == snap[e].step
               n == IF NextSteps(s) = {} THEN 0 ELSE FirstOf(NextSteps(s))
               l == NextSteps(s) = {}
    <3>1. /\ pc[e] = "states" /\ s \in Steps
          /\ Decide(s) \in {"events", "commit"}
          /\ pc' = [pc EXCEPT ![e] = Decide(s)]
          /\ snap' = [snap EXCEPT ![e] = [step |-> s, run |-> run, next |-> n, last |-> l]]
      BY <1>2, <2>2 DEF ReadStates, Decide
    <3>2. l \/ n \in Steps
      BY FirstIsLeast DEF NextSteps
    <3>3. n \in 0..N /\ l \in BOOLEAN /\ s \in 0..N
      BY <3>1, <3>2 DEF Steps
    <3> HIDE DEF s, n, l
    <3> QED
      BY <1>2, <3>1, <3>2, <3>3 DEF ReadStates
  <2> QED
    BY <1>2, <2>1, <2>2 DEF ReadStates
<1>3. ASSUME NEW e \in Evaluators, ReadEvents(e) \/ EvaluationFails(e) PROVE TInv'
  BY <1>3, NoSnapType DEF ReadEvents, EvaluationFails
<1>4. ASSUME NEW e \in Evaluators, CompleteCurrentStep(e) PROVE TInv'
  BY <1>4, NoSnapType DEF CompleteCurrentStep
<1>5. ASSUME NEW s \in Steps, Schedule(s) \/ Prepare(s) \/ SendFails(s) \/ Evict(s) PROVE TInv'
  BY <1>5 DEF Schedule, Prepare, SendFails, Evict
<1>6. ASSUME NEW e \in Evaluators, NEW s \in Steps, Send(e, s) \/ HandleLinkClick(e, s) PROVE TInv'
  BY <1>6 DEF Send, HandleLinkClick
<1>7. ASSUME NEW e \in Evaluators, HandleTwilioReply(e) \/ HandleTelegram(e) PROVE TInv'
  <2>1. /\ SnapAt(current) \in [step : 0..N, run : Nat, next : 0..N, last : BOOLEAN]
        /\ SnapAt(current).step \in Steps
    BY SnapAtType
  <2>2. TakeReply(e)
    BY <1>7 DEF HandleTwilioReply, HandleTelegram
  <2>3. /\ pc' = [pc EXCEPT ![e] = "reply"]
        /\ snap' = [snap EXCEPT ![e] = SnapAt(current)]
    BY <2>2 DEF TakeReply
  <2> QED
    BY <2>1, <2>2, <2>3 DEF TakeReply
<1>8. ASSUME NEW e \in Evaluators, NEW matches \in BOOLEAN, RecordReply(e, matches) PROVE TInv'
  BY <1>8 DEF RecordReply
<1>9. ASSUME NEW status \in {"paused", "removed"}, Unsubscribe \/ SetStatus(status) PROVE TInv'
  BY <1>9 DEF Unsubscribe, SetStatus
<1>10. CASE BeginRestart
  BY <1>10 DEF BeginRestart
<1>11. CASE FinishRestart
  <2>1. FirstOf(restart) \in Steps
    BY <1>11, FirstIsLeast DEF FinishRestart
  <2> QED
    BY <1>11, <2>1 DEF FinishRestart, FreshRows
<1>12. ASSUME NEW s \in Steps, EditStep(s) PROVE TInv'
  BY <1>12 DEF EditStep
<1>13. CASE UNCHANGED vars
  BY <1>13
<1> QED
  BY <1>1, <1>2, <1>3, <1>4, <1>5, <1>6, <1>7, <1>8, <1>9, <1>10, <1>11, <1>12, <1>13
  DEF Next, Evaluate

\* The variables keep their types for any number of steps, evaluations and runs: no
\* race moves the enrollment to an order its campaign has not.
THEOREM Typing == Spec => []TypeOK
<1>1. Spec => []TInv
  BY TypeInit, TypeStep, PTL DEF Spec
<1> QED
  BY <1>1, PTL DEF TInv

----------------------------------------------------------------------------
(* Each step of a run is completed once and, after that, once for each reply  *)
(* that took its row out of "completed": nothing else does.                   *)

OnceInv ==
  /\ \A s \in Steps : completions[s] <= reopened[s] + (IF state[s] = "completed" THEN 1 ELSE 0)
  /\ restart # {} => \A s \in Steps : state[s] = "none" /\ completions[s] = 0

LEMMA OnceStep ==
  ASSUME TInv, OnceInv, [Next]_vars
  PROVE  OnceInv'
<1> USE DEF TInv, TypeOK, OnceInv, vars, rows, events, calls, Goto, Stop
<1>1. ASSUME NEW e \in Evaluators, CompleteCurrentStep(e) PROVE OnceInv'
  BY <1>1 DEF CompleteCurrentStep
<1>2. ASSUME NEW e \in Evaluators,
             ReadEnrollment(e) \/ ReadEvents(e) \/ EvaluationFails(e)
      PROVE OnceInv'
  BY <1>2 DEF ReadEnrollment, ReadEvents, EvaluationFails
<1>3. ASSUME NEW e \in Evaluators, ReadStates(e) PROVE OnceInv'
  <2>1. Decide(snap[e].step) \in {"commit", "idle", "events"}
    BY DEF Decide
  <2> QED
    BY <1>3, <2>1 DEF ReadStates
<1>4. ASSUME NEW s \in Steps, Schedule(s) \/ Prepare(s) \/ SendFails(s) \/ Evict(s) \/ EditStep(s) PROVE OnceInv'
  BY <1>4 DEF Schedule, Prepare, SendFails, Evict, EditStep
<1>5. ASSUME NEW e \in Evaluators, NEW s \in Steps, Send(e, s) \/ HandleLinkClick(e, s)
      PROVE OnceInv'
  BY <1>5 DEF Send, HandleLinkClick
<1>6. ASSUME NEW e \in Evaluators, NEW matches \in BOOLEAN,
             HandleTwilioReply(e) \/ HandleTelegram(e) \/ RecordReply(e, matches)
      PROVE OnceInv'
  BY <1>6 DEF HandleTwilioReply, HandleTelegram, TakeReply, RecordReply
<1>7. ASSUME NEW status \in {"paused", "removed"}, Unsubscribe \/ SetStatus(status) PROVE OnceInv'
  BY <1>7 DEF Unsubscribe, SetStatus
<1>8. CASE BeginRestart \/ FinishRestart
  BY <1>8 DEF BeginRestart, FinishRestart, FreshRows
<1>9. CASE UNCHANGED vars
  BY <1>9
<1> QED
  BY <1>1, <1>2, <1>3, <1>4, <1>5, <1>6, <1>7, <1>8, <1>9 DEF Next, Evaluate

\* No number of racing evaluations, clicks, replies, unsubscribes, failures, edits and
\* re-enrollments completes a step of a run again but after a reply that reopened its row.
THEOREM CompletionIsUnique == Spec => []CompletedOnce
<1>1. Init => OnceInv
  BY DEF Init, OnceInv, FreshRows
<1>2. TInv /\ OnceInv /\ [Next]_vars => OnceInv'
  BY OnceStep
<1>3. TInv /\ OnceInv => CompletedOnce
  BY DEF TInv, TypeOK, OnceInv, CompletedOnce
<1> QED
  BY <1>1, <1>2, <1>3, TypeInit, TypeStep, PTL DEF Spec

----------------------------------------------------------------------------
(* An enrollment by email has no replies.                                     *)

EmailInv == campaign.channel = "email" =>
  /\ \A e \in Evaluators : pc[e] # "reply"
  /\ \A s \in Steps : state[s] # "replied"

LEMMA EmailStep == ASSUME TInv, EmailInv, [Next]_vars PROVE EmailInv'
<1> USE DEF TInv, TypeOK, EmailInv, vars, rows, events, calls, Goto, Stop
<1>1. ASSUME NEW e \in Evaluators,
             ReadEnrollment(e) \/ ReadEvents(e) \/ CompleteCurrentStep(e) \/ EvaluationFails(e)
      PROVE EmailInv'
  BY <1>1 DEF ReadEnrollment, ReadEvents, CompleteCurrentStep, EvaluationFails
<1>2. ASSUME NEW e \in Evaluators, ReadStates(e) PROVE EmailInv'
  <2>1. Decide(snap[e].step) \in {"commit", "idle", "events"}
    BY DEF Decide
  <2> QED
    BY <1>2, <2>1 DEF ReadStates
<1>3. ASSUME NEW s \in Steps, Schedule(s) \/ Prepare(s) \/ SendFails(s) \/ Evict(s) \/ EditStep(s)
      PROVE EmailInv'
  BY <1>3 DEF Schedule, Prepare, SendFails, Evict, EditStep
<1>4. ASSUME NEW e \in Evaluators, NEW s \in Steps, Send(e, s) \/ HandleLinkClick(e, s) PROVE EmailInv'
  BY <1>4 DEF Send, HandleLinkClick
<1>5. ASSUME NEW e \in Evaluators, NEW matches \in BOOLEAN,
             HandleTwilioReply(e) \/ HandleTelegram(e) \/ RecordReply(e, matches)
      PROVE EmailInv'
  BY <1>5 DEF HandleTwilioReply, HandleTelegram, TakeReply, RecordReply
<1>6. ASSUME NEW status \in {"paused", "removed"}, Unsubscribe \/ SetStatus(status) PROVE EmailInv'
  BY <1>6 DEF Unsubscribe, SetStatus
<1>7. CASE BeginRestart \/ FinishRestart \/ UNCHANGED vars
  BY <1>7 DEF BeginRestart, FinishRestart, FreshRows
<1> QED
  BY <1>1, <1>2, <1>3, <1>4, <1>5, <1>6, <1>7 DEF Next, Evaluate

LEMMA EmailInit == Init => EmailInv
BY DEF Init, EmailInv, FreshRows

----------------------------------------------------------------------------
(* The evidence behind a completion, for every rule and with replies and      *)
(* re-enrollments: an evaluation about to commit has seen it, and it is only  *)
(* taken back, by a re-enrollment, with the row the evaluation is about.      *)

\* The campaigns whose completions need evidence that nothing can stand in for.
Strict == ProgressRule = "time_based" => campaign.channel = "email"

\* What an evaluation has seen, and what a row shows.
CallInv(e) ==
  /\ snap[e].run <= run
  /\ pc[e] = "events" => ProgressRule # "time_based"
  /\ Strict /\ pc[e] = "commit" /\ snap[e].run = run /\ state[snap[e].step] # "none" =>
       snap[e].step \in Evident

RowInv(s) ==
  /\ state[s] = "sent" => s \in Sent
  /\ s \in clickedAt => s \in clicks
  /\ s \in recent => <<s, TRUE>> \in replies
  /\ completions[s] > 0 => restart = {} /\ (Strict => s \in Evident)

RuleInv ==
  /\ \A e \in Evaluators : CallInv(e)
  /\ \A s \in Steps : RowInv(s)
  /\ restart # {} => \A s \in Steps : state[s] = "none"

LEMMA EvidenceGrows ==
  ASSUME Sent \subseteq Sent', repliedAt \subseteq repliedAt', clicks \subseteq clicks',
         replies \subseteq replies', campaign' = campaign
  PROVE  Evident \subseteq Evident'
BY DEF Evident, ProgressRule, PhraseRequired

\* What the rows or the events of a step show is evidence for it.
LEMMA DecideIsEvidence ==
  ASSUME EmailInv, Strict, RuleInv, NEW s \in Steps, Decide(s) = "commit" PROVE s \in Evident
BY DEF EmailInv, Strict, RuleInv, RowInv, Decide, Evident

LEMMA FoundIsEvidence ==
  ASSUME NEW s \in Steps, s \in recent => <<s, TRUE>> \in replies,
         EventFound(s), ProgressRule # "time_based"
  PROVE  s \in Evident
<1>1. CASE ProgressRule = "link_click_required"
  BY <1>1 DEF EventFound, Evident
<1>2. CASE ProgressRule # "link_click_required" /\ PhraseRequired
  BY <1>2 DEF EventFound, Evident
<1>3. CASE ProgressRule # "link_click_required" /\ ~PhraseRequired
  BY <1>3 DEF EventFound, Evident
<1> QED
  BY <1>1, <1>2, <1>3

\* An action keeps what the calls have seen if it takes no row or evidence away and moves a
\* call to its commit only with evidence.
LEMMA CallsKept ==
  ASSUME TInv, RuleInv, Evident \subseteq Evident', UNCHANGED <<campaign, run>>,
         \A s \in Steps : state'[s] # "none" => state[s] # "none",
         \A d \in Evaluators :
           \/ pc'[d] \notin {"events", "commit"} /\ snap'[d].run <= run
           \/ pc'[d] = pc[d] /\ snap'[d] = snap[d]
           \/ /\ snap'[d].run <= run
              /\ pc'[d] = "events" => ProgressRule # "time_based"
              /\ Strict /\ pc'[d] = "commit" => snap'[d].step \in Evident'
  PROVE  \A e \in Evaluators : CallInv(e)'
<1> SUFFICES ASSUME NEW e \in Evaluators PROVE CallInv(e)'
  OBVIOUS
<1>1. CallInv(e) /\ (ProgressRule' = ProgressRule) /\ (Strict' <=> Strict)
  BY DEF RuleInv, ProgressRule, Strict
<1>2. CASE pc'[e] = pc[e] /\ snap'[e] = snap[e]
  <2>1. pc[e] = "commit" => snap[e].step \in Steps
    BY DEF TInv, SnapInv
  <2> QED
    BY <1>1, <1>2, <2>1 DEF CallInv
<1>3. CASE ~(pc'[e] = pc[e] /\ snap'[e] = snap[e])
  BY <1>1, <1>3 DEF CallInv
<1> QED
  BY <1>2, <1>3

\* An action that changes only calls.
LEMMA CallsOnly ==
  ASSUME TInv, RuleInv, UNCHANGED <<campaign, run, state, clickedAt, repliedAt, restart, clicks, replies, recent,
                                    outbox, completions>>,
         \A d \in Evaluators :
           \/ pc'[d] \notin {"events", "commit"} /\ snap'[d].run <= run
           \/ pc'[d] = pc[d] /\ snap'[d] = snap[d]
           \/ /\ snap'[d].run <= run
              /\ pc'[d] = "events" => ProgressRule # "time_based"
              /\ Strict /\ pc'[d] = "commit" => snap'[d].step \in Evident
  PROVE  RuleInv'
<1>1. Evident' = Evident /\ Sent' = Sent /\ (Strict' <=> Strict)
  BY DEF Evident, Sent, ProgressRule, PhraseRequired, Strict
<1>2. \A e \in Evaluators : CallInv(e)'
  BY <1>1, CallsKept
<1>3. \A s \in Steps : RowInv(s)'
  BY <1>1 DEF RuleInv, RowInv
<1> QED
  BY <1>2, <1>3 DEF RuleInv

\* Every action but the start of a re-enrollment keeps all evidence; an evaluation
\* goes on to its commit only from a row or an event that is evidence.
LEMMA RuleStep == ASSUME TInv, EmailInv, RuleInv, [Next]_vars PROVE RuleInv'
<1> USE DEF vars, rows, events, calls, Goto, Stop
<1>0. campaign' = campaign /\ ProgressRule' = ProgressRule /\ (Strict' <=> Strict)
  BY SameCampaign DEF ProgressRule, Strict
<1>1. ASSUME Sent \subseteq Sent', repliedAt \subseteq repliedAt', clicks \subseteq clicks',
             replies \subseteq replies'
      PROVE Evident \subseteq Evident'
  BY <1>0, <1>1, EvidenceGrows
<1>2. NoSnap.run = 0 /\ (\A s \in Steps : SnapAt(s).run = 0) /\ 0 <= run
  BY DEF NoSnap, SnapAt, TInv, TypeOK
<1>3. ASSUME NEW e \in Evaluators,
             ReadEnrollment(e) \/ EvaluationFails(e) \/ HandleTwilioReply(e) \/ HandleTelegram(e)
      PROVE RuleInv'
  <2>1. /\ pc'[e] \in {"idle", "states", "reply"} /\ snap'[e].run = 0
        /\ \A d \in Evaluators : d # e => pc'[d] = pc[d] /\ snap'[d] = snap[d]
    BY <1>2, <1>3 DEF ReadEnrollment, EvaluationFails, HandleTwilioReply, HandleTelegram, TakeReply, TInv, TypeOK
  <2>2. UNCHANGED <<run, state, clickedAt, repliedAt, restart, clicks, replies, recent, outbox, completions>>
    BY <1>3 DEF ReadEnrollment, EvaluationFails, HandleTwilioReply, HandleTelegram, TakeReply
  <2> QED
    BY <1>0, <1>2, <2>1, <2>2, CallsOnly
<1>4. ASSUME NEW e \in Evaluators, ReadStates(e) PROVE RuleInv'
  <2> DEFINE s == snap[e].step
  <2>1. /\ UNCHANGED <<run, state, clickedAt, repliedAt, restart, clicks, replies, recent, outbox, completions>>
        /\ \A d \in Evaluators : d # e => pc'[d] = pc[d] /\ snap'[d] = snap[d]
    BY <1>4 DEF ReadStates, TInv, TypeOK
  <2>2. s \in Steps /\ run <= run
    BY <1>4 DEF ReadStates, TInv, TypeOK, SnapInv
  <2>3. \/ pc'[e] = "idle" /\ snap'[e].run = 0
        \/ pc'[e] = Decide(s) /\ snap'[e].run = run /\ snap'[e].step = s
    BY <1>2, <1>4 DEF ReadStates, TInv, TypeOK
  <2>4. Decide(s) = "events" => ProgressRule # "time_based"
    BY DEF Decide
  <2>5. Strict /\ Decide(s) = "commit" => s \in Evident
    BY <2>2, DecideIsEvidence
  <2> HIDE DEF s
  <2> QED
    BY <1>0, <1>2, <2>1, <2>2, <2>3, <2>4, <2>5, CallsOnly
<1>5. ASSUME NEW e \in Evaluators, ReadEvents(e) PROVE RuleInv'
  <2> DEFINE s == snap[e].step
  <2>1. /\ UNCHANGED <<run, state, clickedAt, repliedAt, restart, clicks, replies, recent, outbox, completions>>
        /\ \A d \in Evaluators : d # e => pc'[d] = pc[d] /\ snap'[d] = snap[d]
    BY <1>5 DEF ReadEvents, TInv, TypeOK
  <2>2. s \in Steps /\ ProgressRule # "time_based" /\ snap[e].run <= run
    BY <1>5 DEF ReadEvents, TInv, SnapInv, RuleInv, CallInv
  <2>3. \/ pc'[e] = "idle" /\ snap'[e].run = 0
        \/ pc'[e] = "commit" /\ snap'[e] = snap[e] /\ EventFound(s)
    BY <1>2, <1>5 DEF ReadEvents, TInv, TypeOK
  <2>4. EventFound(s) => s \in Evident
    BY <2>2, FoundIsEvidence DEF RuleInv, RowInv
  <2> QED
    BY <1>0, <1>2, <2>1, <2>2, <2>3, <2>4, CallsOnly
<1>6. ASSUME NEW e \in Evaluators, CompleteCurrentStep(e) PROVE RuleInv'
  <2> DEFINE s == snap[e].step
  <2>1. /\ \A d \in Evaluators : d # e => pc'[d] = pc[d] /\ snap'[d] = snap[d]
        /\ pc'[e] = "idle" /\ snap'[e].run = 0
    BY <1>2, <1>6 DEF CompleteCurrentStep, TInv, TypeOK
  <2>2. UNCHANGED <<run, clickedAt, repliedAt, restart, clicks, replies, recent, outbox>>
    BY <1>6 DEF CompleteCurrentStep
  <2>3. Evident' = Evident /\ Sent' = Sent
    BY <1>0, <2>2 DEF Evident, Sent, PhraseRequired
  <2>4. \/ UNCHANGED <<state, completions>>
        \/ /\ s \in Steps /\ state[s] # "none" /\ (Strict => s \in Evident)
           /\ \A t \in Steps : t # s => state'[t] = state[t] /\ completions'[t] = completions[t]
           /\ state'[s] = "completed"
    BY <1>6 DEF CompleteCurrentStep, RuleInv, CallInv, TInv, TypeOK, SnapInv
  <2>5. \A d \in Evaluators : CallInv(d)'
    <3>1. \A t \in Steps : state'[t] # "none" => state[t] # "none"
      BY <2>4
    <3> QED
      BY <1>0, <1>2, <2>1, <2>2, <2>3, <3>1, CallsKept
  <2>6. \A t \in Steps : RowInv(t)'
    <3>1. state[s] # "none" /\ s \in Steps => restart = {}
      BY DEF RuleInv
    <3> HIDE DEF s
    <3> QED
      BY <1>0, <2>2, <2>3, <2>4, <3>1 DEF RuleInv, RowInv
  <2>7. restart' # {} => \A t \in Steps : state'[t] = "none"
    BY <2>2, <2>4 DEF RuleInv
  <2> QED
    BY <2>5, <2>6, <2>7 DEF RuleInv
<1>7. ASSUME NEW s \in Steps, Schedule(s) \/ Prepare(s) \/ SendFails(s) \/ Evict(s) \/ EditStep(s) PROVE RuleInv'
  <2>1. /\ UNCHANGED <<run, clickedAt, repliedAt, restart, clicks, replies, recent, completions, pc, snap>>
        /\ \A t \in Steps : state'[t] = state[t] \/ (state[t] = "pending" /\ state'[t] = "queued")
    BY <1>7 DEF Schedule, Prepare, SendFails, Evict, EditStep, TInv, TypeOK
  <2>2. Sent' = Sent
    BY <1>7 DEF Schedule, Prepare, SendFails, Evict, EditStep, Sent, TInv, TypeOK
  <2>3. Evident \subseteq Evident'
    BY <1>1, <2>1, <2>2
  <2>4. \A d \in Evaluators : CallInv(d)'
    BY <1>0, <2>1, <2>3, CallsKept
  <2>5. \A t \in Steps : RowInv(t)'
    BY <1>0, <2>1, <2>2, <2>3 DEF RuleInv, RowInv
  <2> QED
    BY <2>1, <2>4, <2>5 DEF RuleInv
<1>8. ASSUME NEW e \in Evaluators, NEW s \in Steps, Send(e, s) \/ HandleLinkClick(e, s) PROVE RuleInv'
  <2>1. /\ UNCHANGED <<run, repliedAt, restart, replies, recent, completions, snap>>
        /\ \A d \in Evaluators : pc'[d] = pc[d] \/ pc'[d] = "enrollment"
    BY <1>8 DEF Send, HandleLinkClick, TInv, TypeOK
  <2>2. /\ Sent \subseteq Sent' /\ clicks \subseteq clicks'
        /\ \A t \in Steps : state'[t] = state[t] \/ (state'[t] = "sent" /\ t \in Sent' /\ state[t] # "none")
        /\ \A t \in clickedAt' : t \in clickedAt \/ t \in clicks'
    BY <1>8 DEF Send, HandleLinkClick, Sent, TInv, TypeOK
  <2>3. Evident \subseteq Evident'
    BY <1>1, <2>1, <2>2
  <2>4. \A d \in Evaluators : CallInv(d)'
    <3>1. \A d \in Evaluators : snap[d].run <= run
      BY DEF RuleInv, CallInv
    <3> QED
      BY <1>0, <2>1, <2>2, <2>3, <3>1, CallsKept
  <2>5. \A t \in Steps : RowInv(t)'
    BY <1>0, <2>1, <2>2, <2>3 DEF RuleInv, RowInv
  <2> QED
    BY <2>1, <2>2, <2>4, <2>5 DEF RuleInv
<1>9. ASSUME NEW e \in Evaluators, NEW matches \in BOOLEAN, RecordReply(e, matches) PROVE RuleInv'
  <2>1. /\ UNCHANGED <<run, clickedAt, restart, clicks, outbox, completions, snap>>
        /\ \A d \in Evaluators : pc'[d] = pc[d] \/ pc'[d] = "enrollment"
    BY <1>9 DEF RecordReply, TInv, TypeOK
  <2>2. /\ repliedAt \subseteq repliedAt' /\ replies \subseteq replies'
        /\ \A t \in Steps : state'[t] = state[t] \/ (state'[t] = "replied" /\ state[t] # "none")
    BY <1>9 DEF RecordReply, TInv, TypeOK
  <2>3. \A t \in recent' : t \in recent \/ <<t, TRUE>> \in replies'
    BY <1>9 DEF RecordReply
  <2>4. Evident \subseteq Evident' /\ Sent' = Sent
    BY <1>1, <2>1, <2>2 DEF Sent
  <2>5. \A d \in Evaluators : CallInv(d)'
    <3>1. \A d \in Evaluators : snap[d].run <= run
      BY DEF RuleInv, CallInv
    <3> QED
      BY <1>0, <2>1, <2>2, <2>4, <3>1, CallsKept
  <2>6. \A t \in Steps : RowInv(t)'
    BY <1>0, <2>1, <2>2, <2>3, <2>4 DEF RuleInv, RowInv
  <2> QED
    BY <2>1, <2>2, <2>5, <2>6 DEF RuleInv
<1>10. ASSUME NEW status \in {"paused", "removed"}, Unsubscribe \/ SetStatus(status) PROVE RuleInv'
  <2>1. /\ UNCHANGED <<run, clickedAt, repliedAt, restart, clicks, replies, recent, outbox, completions, pc, snap>>
        /\ \A t \in Steps : state'[t] = state[t] \/ (state'[t] = "unsubscribed" /\ state[t] # "none")
    BY <1>10 DEF Unsubscribe, SetStatus, TInv, TypeOK
  <2>2. Evident \subseteq Evident' /\ Sent' = Sent
    BY <1>1, <2>1 DEF Sent
  <2>3. \A d \in Evaluators : CallInv(d)'
    BY <1>0, <2>1, <2>2, CallsKept
  <2>4. \A t \in Steps : RowInv(t)'
    BY <1>0, <2>1, <2>2 DEF RuleInv, RowInv
  <2> QED
    BY <2>1, <2>3, <2>4 DEF RuleInv
<1>11. CASE BeginRestart
  <2>1. /\ UNCHANGED <<run, clicks, replies, recent, pc, snap>> /\ clickedAt' = {}
        /\ \A t \in Steps : state'[t] = "none" /\ completions'[t] = 0
    BY <1>11 DEF BeginRestart
  <2>2. \A d \in Evaluators : CallInv(d)'
    BY <1>0, <2>1 DEF RuleInv, CallInv, TInv, SnapInv
  <2>3. \A t \in Steps : RowInv(t)'
    <3>1. \A t \in Steps : t \in recent => <<t, TRUE>> \in replies
      BY DEF RuleInv, RowInv
    <3>2. \A t \in Steps : ~(completions'[t] > 0)
      BY <2>1
    <3> QED
      BY <2>1, <3>1, <3>2 DEF RowInv
  <2> QED
    BY <2>1, <2>2, <2>3 DEF RuleInv
<1>12. CASE FinishRestart
  <2>1. /\ UNCHANGED <<clickedAt, clicks, replies, recent, completions, pc, snap>> /\ run' = run + 1 /\ restart' = {}
        /\ restart # {} /\ \A t \in Steps : state'[t] \in {"pending", "none"}
    BY <1>12 DEF FinishRestart, FreshRows
  <2>2. \A d \in Evaluators : snap[d].run <= run /\ snap[d].run \in Nat /\ run \in Nat
    BY DEF RuleInv, CallInv, TInv, TypeOK
  <2>3. \A d \in Evaluators : CallInv(d)'
    BY <1>0, <2>1, <2>2 DEF RuleInv, CallInv
  <2>4. \A t \in Steps : RowInv(t)'
    BY <2>1 DEF RuleInv, RowInv
  <2> QED
    BY <2>1, <2>3, <2>4 DEF RuleInv
<1>13. CASE UNCHANGED vars
  BY <1>0, <1>13, CallsOnly
<1> QED
  BY <1>3, <1>4, <1>5, <1>6, <1>7, <1>8, <1>9, <1>10, <1>11, <1>12, <1>13 DEF Next, Evaluate

\* No race of sends, clicks, replies and re-enrollments completes a step without the
\* evidence its campaign's rule asks for; a time-based rule that a reply may answer
\* instead of a send is left out.
THEOREM EveryCompletionHasEvidence == Spec => []RuleWasMet
<1>1. Init => RuleInv
  BY DEF Init, RuleInv, CallInv, RowInv, FreshRows, NoSnap, SnapAt
<1>2. RuleInv => RuleWasMet
  BY DEF RuleInv, RowInv, RuleWasMet, Strict
<1> QED
  BY <1>1, <1>2, RuleStep, EmailInit, EmailStep, TypeInit, TypeStep, PTL DEF Spec

----------------------------------------------------------------------------
(* Re-enrollment.                                                            *)

\* While the rows are being replaced there are none, and the enrollment is not active.
Away == restart # {} => enrollment \in {"paused", "removed"} /\ \A s \in Steps : state[s] = "none"

LEMMA AwayStep == TInv /\ Away /\ [Next]_vars => Away'
<1> SUFFICES ASSUME TInv, Away, [Next]_vars PROVE Away'
  OBVIOUS
<1> USE DEF TInv, TypeOK, SnapInv, Away, vars, rows
<1>1. ASSUME NEW e \in Evaluators, CompleteCurrentStep(e) PROVE Away'
  BY <1>1 DEF CompleteCurrentStep
<1>2. ASSUME NEW e \in Evaluators, ReadEnrollment(e) \/ ReadStates(e) \/ ReadEvents(e) \/ EvaluationFails(e) PROVE Away'
  BY <1>2 DEF ReadEnrollment, ReadStates, ReadEvents, EvaluationFails
<1>3. ASSUME NEW s \in Steps, Schedule(s) \/ Prepare(s) \/ SendFails(s) \/ Evict(s) \/ EditStep(s) PROVE Away'
  BY <1>3 DEF Schedule, Prepare, SendFails, Evict, EditStep
<1>4. ASSUME NEW e \in Evaluators, NEW s \in Steps, Send(e, s) \/ HandleLinkClick(e, s) PROVE Away'
  BY <1>4 DEF Send, HandleLinkClick
<1>5. ASSUME NEW e \in Evaluators, NEW matches \in BOOLEAN,
             HandleTwilioReply(e) \/ HandleTelegram(e) \/ RecordReply(e, matches)
      PROVE Away'
  BY <1>5 DEF HandleTwilioReply, HandleTelegram, TakeReply, RecordReply
<1>6. ASSUME NEW status \in {"paused", "removed"}, Unsubscribe \/ SetStatus(status) PROVE Away'
  BY <1>6 DEF Unsubscribe, SetStatus
<1>7. CASE BeginRestart \/ FinishRestart \/ UNCHANGED vars
  BY <1>7 DEF BeginRestart, FinishRestart
<1> QED
  BY <1>1, <1>2, <1>3, <1>4, <1>5, <1>6, <1>7 DEF Next, Evaluate

\* The first enrollment of the person, not yet taken out to be restarted.
OneRun == run = 1 /\ restart = {}

\* There is no way back to it.
LEMMA OneRunBefore == ASSUME TInv, OneRun', [Next]_vars PROVE OneRun
<1>1. CASE BeginRestart \/ FinishRestart
  BY <1>1 DEF BeginRestart, FinishRestart, OneRun, TInv, TypeOK
<1>2. CASE UNCHANGED <<run, restart>>
  BY <1>2 DEF OneRun
<1> QED
  BY <1>1, <1>2 DEF Next, Evaluate, ReadEnrollment, ReadStates, ReadEvents, CompleteCurrentStep, EvaluationFails,
     HandleTwilioReply, HandleTelegram, TakeReply, RecordReply, Send, HandleLinkClick, Schedule, Prepare, SendFails, Evict, EditStep,
     Unsubscribe, SetStatus, vars

\* What an action that completes no step may do to the enrollment and its campaign.
Calm ==
  /\ UNCHANGED <<current, completions>>
  /\ enrollment' = enrollment \/ enrollment' \in {"paused", "removed"}
  /\ edited \subseteq edited'
  /\ \A s \in Steps : s \notin edited' /\ s \in published => s \in published'

----------------------------------------------------------------------------
(* Nothing is left out of a first enrollment, whatever its channel: a reply   *)
(* may reopen a row, but what was completed has been, and evaluations pass    *)
(* over edited steps only.                                                    *)

Passed(s) == \A t \in Steps \ edited : t < s => completions[t] > 0

ReachInv == OneRun =>
  /\ \A t \in Steps \ edited : t \in published
  /\ Passed(current)
  /\ \A e \in Evaluators :
       /\ pc[e] \in {"states", "events", "commit"} => Passed(snap[e].step)
       /\ pc[e] \in {"events", "commit"} =>
            \A t \in Steps \ edited : t > snap[e].step => ~snap[e].last /\ snap[e].next <= t
  /\ enrollment = "completed" => \A t \in Steps \ edited : completions[t] > 0

\* Calm steps move no evaluation on, except to where it has nothing in hand.
LEMMA CalmKeepsReach ==
  ASSUME TInv, ReachInv, OneRun, Calm,
         \A d \in Evaluators : \/ pc'[d] \in {"idle", "reply", "enrollment"}
                               \/ pc'[d] = pc[d] /\ snap'[d] = snap[d]
  PROVE  ReachInv'
BY DEF TInv, TypeOK, ReachInv, Passed, Calm

\* Each action keeps it.
LEMMA ReachStep == ASSUME TInv, ReachInv, OneRun, OneRun', [Next]_vars PROVE ReachInv'
<1>1. ASSUME NEW s \in Steps, Schedule(s) \/ Prepare(s) \/ SendFails(s) \/ Evict(s) \/ EditStep(s) PROVE ReachInv'
  <2>1. Calm /\ UNCHANGED calls
    BY <1>1 DEF Schedule, Prepare, SendFails, Evict, EditStep, Calm, TInv, TypeOK, rows, events
  <2> QED
    BY <2>1, CalmKeepsReach DEF calls
<1>2. ASSUME NEW status \in {"paused", "removed"}, Unsubscribe \/ SetStatus(status) PROVE ReachInv'
  <2>1. Calm /\ UNCHANGED calls
    BY <1>2 DEF Unsubscribe, SetStatus, Calm
  <2> QED
    BY <2>1, CalmKeepsReach DEF calls
<1>3. CASE UNCHANGED vars
  BY <1>3, CalmKeepsReach DEF vars, rows, calls, Calm
<1>4. ASSUME NEW e \in Evaluators, NEW s \in Steps, Send(e, s) \/ HandleLinkClick(e, s) PROVE ReachInv'
  <2>1. Calm
    BY <1>4 DEF Send, HandleLinkClick, Calm
  <2> QED
    BY <1>4, <2>1, CalmKeepsReach DEF Send, HandleLinkClick, Goto, TInv, TypeOK
<1>5. ASSUME NEW e \in Evaluators, NEW matches \in BOOLEAN,
             HandleTwilioReply(e) \/ HandleTelegram(e) \/ RecordReply(e, matches)
      PROVE ReachInv'
  <2>1. Calm
    BY <1>5 DEF HandleTwilioReply, HandleTelegram, TakeReply, RecordReply, Calm, rows
  <2> QED
    BY <1>5, <2>1, CalmKeepsReach DEF HandleTwilioReply, HandleTelegram, TakeReply, RecordReply, Goto, TInv, TypeOK
<1>6. ASSUME NEW e \in Evaluators, EvaluationFails(e) PROVE ReachInv'
  <2>1. Calm
    BY <1>6 DEF EvaluationFails, Calm
  <2> QED
    BY <1>6, <2>1, CalmKeepsReach DEF EvaluationFails, Stop, Goto, TInv, TypeOK
<1>7. ASSUME NEW e \in Evaluators, ReadEnrollment(e) PROVE ReachInv'
  <2>1. Calm
    BY <1>7 DEF ReadEnrollment, Calm
  <2>2. CASE enrollment = "active"
    <3>1. pc' = [pc EXCEPT ![e] = "states"] /\ snap' = [snap EXCEPT ![e] = SnapAt(current)]
      BY <1>7, <2>2 DEF ReadEnrollment, Goto
    <3>2. pc'[e] = "states" /\ snap'[e].step = current
      BY <3>1, SnapAtType DEF TInv, TypeOK
    <3>3. \A d \in Evaluators : d # e => pc'[d] = pc[d] /\ snap'[d] = snap[d]
      BY <3>1 DEF TInv, TypeOK
    <3> QED
      BY <2>1, <3>2, <3>3 DEF ReachInv, Passed, Calm, TInv, TypeOK
  <2>3. CASE enrollment # "active"
    BY <1>7, <2>1, <2>3, CalmKeepsReach DEF ReadEnrollment, Stop, Goto, TInv, TypeOK
  <2> QED
    BY <2>2, <2>3
<1>8. ASSUME NEW e \in Evaluators, ReadEvents(e) PROVE ReachInv'
  <2>1. Calm
    BY <1>8 DEF ReadEvents, Calm
  <2>2. CASE Stop(e)
    BY <2>1, <2>2, CalmKeepsReach DEF Stop, Goto, TInv, TypeOK
  <2>3. CASE ~Stop(e)
    <3>1. pc[e] = "events" /\ pc' = [pc EXCEPT ![e] = "commit"] /\ snap' = snap
      BY <1>8, <2>3 DEF ReadEvents, Goto
    <3> QED
      BY <2>1, <3>1 DEF ReachInv, Passed, Calm, TInv, TypeOK
  <2> QED
    BY <2>2, <2>3
<1>9. ASSUME NEW e \in Evaluators, ReadStates(e) PROVE ReachInv'
  <2> DEFINE s == snap[e].step
             n == IF NextSteps(s) = {} THEN 0 ELSE FirstOf(NextSteps(s))
             l == NextSteps(s) = {}
  <2>1. Calm
    BY <1>9 DEF ReadStates, Calm
  <2>2. CASE Stop(e)
    BY <2>1, <2>2, CalmKeepsReach DEF Stop, Goto, TInv, TypeOK
  <2>3. CASE ~Stop(e)
    <3>1. /\ pc[e] = "states" /\ s \in Steps
          /\ Decide(s) \in {"events", "commit"}
          /\ pc' = [pc EXCEPT ![e] = Decide(s)]
          /\ snap' = [snap EXCEPT ![e] = [step |-> s, run |-> run, next |-> n, last |-> l]]
      BY <1>9, <2>3 DEF ReadStates, Decide, Goto, TInv, SnapInv
    \* An unedited step after s is published, so it is among the next steps.
    <3>2. \A t \in Steps \ edited : t > s => t \in NextSteps(s)
      BY DEF NextSteps, ReachInv
    <3>3. NextSteps(s) \subseteq Steps
      BY DEF NextSteps, TInv, TypeOK
    <3>4. ~l => \A t \in NextSteps(s) : n <= t
      BY <3>3, FirstIsLeast
    <3>5. \A t \in Steps \ edited : t > s => ~l /\ n <= t
      BY <3>2, <3>4
    <3>6. Passed(s)
      BY <3>1 DEF ReachInv
    <3>7. snap'[e].step = s /\ snap'[e].next = n /\ snap'[e].last = l
      BY <3>1 DEF TInv, TypeOK
    <3>8. \A d \in Evaluators : d # e => pc'[d] = pc[d] /\ snap'[d] = snap[d]
      BY <3>1 DEF TInv, TypeOK
    <3>9. UNCHANGED <<edited, completions>>
      BY <1>9 DEF ReadStates
    <3> HIDE DEF s, n, l
    <3>10. \A t \in Steps \ edited' : t < s => completions'[t] > 0
      BY <3>6, <3>9 DEF Passed
    <3> QED
      BY <2>1, <3>1, <3>5, <3>7, <3>8, <3>9, <3>10 DEF ReachInv, Passed, Calm, TInv, TypeOK
  <2> QED
    BY <2>2, <2>3
<1>10. ASSUME NEW e \in Evaluators, CompleteCurrentStep(e) PROVE ReachInv'
  <2> DEFINE s == snap[e].step
  <2>1. CASE UNCHANGED <<completions, enrollment, current>>
    <3>1. Calm
      BY <1>10, <2>1 DEF CompleteCurrentStep, Calm
    <3> QED
      BY <1>10, <3>1, CalmKeepsReach DEF CompleteCurrentStep, Stop, Goto, TInv, TypeOK
  <2>2. CASE ~UNCHANGED <<completions, enrollment, current>>
    <3>1. /\ completions' = [completions EXCEPT ![s] = @ + 1]
          /\ pc[e] = "commit" /\ s \in Steps
          /\ UNCHANGED <<edited, published>>
      BY <1>10, <2>2 DEF CompleteCurrentStep, TInv, SnapInv
    <3>2. /\ snap[e].last => enrollment' = "completed" /\ current' = current
          /\ ~snap[e].last => enrollment' = enrollment /\ current' = snap[e].next
      BY <1>10, <2>2 DEF CompleteCurrentStep
    <3>3. Passed(s) /\ \A t \in Steps \ edited : t > s => ~snap[e].last /\ snap[e].next <= t
      BY <3>1 DEF ReachInv
    <3>4. \A t \in Steps : completions'[t] >= completions[t] /\ completions'[s] > 0 /\ completions'[t] \in Nat /\ completions[t] \in Nat
      BY <3>1 DEF TInv, TypeOK
    <3>5. \A d \in Evaluators : \/ pc'[d] = "idle"
                                \/ pc'[d] = pc[d] /\ snap'[d] = snap[d]
      BY <1>10 DEF CompleteCurrentStep, Stop, Goto, TInv, TypeOK
    <3>6. ~snap[e].last => snap[e].next \in Steps
      BY <3>1 DEF TInv, SnapInv
    <3>7. ~snap[e].last => \A t \in Steps \ edited : t < snap[e].next => completions'[t] > 0
      BY <3>1, <3>3, <3>4, <3>6 DEF Passed, Steps
    <3>8. snap[e].last => \A t \in Steps \ edited : completions'[t] > 0
      BY <3>1, <3>3, <3>4 DEF Passed, Steps
    <3>9. /\ \A t \in Steps \ edited' : t \in published'
          /\ \A t \in Steps \ edited' : t < current' => completions'[t] > 0
      BY <3>1, <3>2, <3>4, <3>7, <3>8 DEF ReachInv, Passed
    <3>10. enrollment' = "completed" => \A t \in Steps \ edited' : completions'[t] > 0
      BY <3>1, <3>2, <3>4, <3>8 DEF ReachInv
    <3> QED
      BY <3>1, <3>4, <3>5, <3>9, <3>10 DEF ReachInv, Passed
  <2> QED
    BY <2>1, <2>2
<1>11. CASE BeginRestart \/ FinishRestart
  BY <1>11 DEF BeginRestart, FinishRestart, OneRun, TInv, TypeOK
<1> QED
  BY <1>1, <1>2, <1>3, <1>4, <1>5, <1>6, <1>7, <1>8, <1>9, <1>10, <1>11 DEF Next, Evaluate

\* A first enrollment is completed only after each unedited step was, by whatever channel its
\* steps are sent and answered.
THEOREM NothingLeftOut == Spec => []CompletedMeansDone
<1>1. Init => ReachInv /\ Away
  <2> SUFFICES ASSUME Init PROVE ReachInv /\ Away
    OBVIOUS
  <2>1. \A t \in published : FirstOf(published) <= t
    BY FirstIsLeast DEF Init
  <2>2. /\ current = FirstOf(published) /\ edited = Steps \ published /\ enrollment = "active"
        /\ published \subseteq Steps /\ \A e \in Evaluators : pc[e] = "idle"
        /\ restart = {}
    BY DEF Init
  <2>3. Passed(current)
    <3>1. Steps \subseteq Nat /\ current \in Nat
      BY TypeInit DEF Steps, TInv, TypeOK
    <3> QED
      BY <2>1, <2>2, <3>1 DEF Passed
  <2> QED
    BY <2>2, <2>3 DEF ReachInv, Away
<1>2. TInv /\ ReachInv /\ [Next]_vars => ReachInv'
  <2> SUFFICES ASSUME TInv, ReachInv, [Next]_vars PROVE ReachInv'
    OBVIOUS
  <2>1. CASE OneRun'
    BY <2>1, OneRunBefore, ReachStep
  <2>2. CASE ~OneRun'
    BY <2>2 DEF ReachInv
  <2> QED
    BY <2>1, <2>2
<1>3. ReachInv /\ Away => CompletedMeansDone
  BY DEF ReachInv, Away, OneRun, CompletedMeansDone
<1> QED
  BY <1>1, <1>2, <1>3, TypeInit, TypeStep, AwayStep, PTL DEF Spec

----------------------------------------------------------------------------
(* A first enrollment by email.  An evaluation in progress has read the       *)
(* current step, or a step that another evaluation completed since: then  *)
(* its own update finds a completed row and changes nothing.                  *)

\* Steps are completed in order up to the current one, leaving out edited steps.
RowsInv == \A s \in Steps :
  /\ state[s] = "completed" => completions[s] > 0 /\ s <= current
  /\ state[s] = "completed" /\ enrollment = "active" => s # current
  /\ state[s] = "none" => s \in edited
  /\ s \notin edited => s \in published /\ (s < current => state[s] = "completed")

\* No evaluation will go past an unedited step, whatever is edited meanwhile.
ReadInv == \A e \in Evaluators :
  /\ pc[e] \in {"states", "events", "commit"} =>
       /\ snap[e].step <= current
       /\ snap[e].step # current => state[snap[e].step] = "completed"
  /\ pc[e] \in {"events", "commit"} =>
       /\ snap[e].last \/ snap[e].next > snap[e].step
       /\ \A t \in Steps \ edited : t > snap[e].step => ~snap[e].last /\ snap[e].next <= t

FirstInv == campaign.channel = "email" /\ OneRun => RowsInv /\ ReadInv

\* What it may do to the rows as well, without replies.
Quiet ==
  /\ Calm
  /\ \A s \in Steps : /\ state'[s] = "completed" <=> state[s] = "completed"
                      /\ state'[s] = "none" <=> state[s] = "none"

LEMMA QuietKeepsRows ==
  ASSUME TInv, RowsInv, Quiet PROVE RowsInv'
BY DEF TInv, TypeOK, RowsInv, Quiet, Calm

LEMMA QuietKeepsReads ==
  ASSUME TInv, ReadInv, Quiet, NEW e \in Evaluators,
         \A d \in Evaluators : d # e => pc'[d] = pc[d] /\ snap'[d] = snap[d],
         pc'[e] \in {"idle", "reply", "enrollment"} \/ (pc'[e] = pc[e] /\ snap'[e] = snap[e])
  PROVE  ReadInv'
BY DEF TInv, TypeOK, SnapInv, ReadInv, Quiet, Calm

\* Each action keeps the invariant; only CompleteCurrentStep completes a step, and
\* then it is the current one.
LEMMA FirstStep ==
  ASSUME campaign.channel = "email", TInv, EmailInv, OneRun, OneRun', RowsInv, ReadInv, [Next]_vars
  PROVE  RowsInv' /\ ReadInv'
<1> USE DEF OneRun
<1> DEFINE Kept == RowsInv' /\ ReadInv'
<1>1. ASSUME UNCHANGED <<run, restart, calls>>, Quiet PROVE Kept
  BY <1>1, QuietKeepsRows DEF calls, TInv, TypeOK, SnapInv, ReadInv, Quiet, Calm
<1>2. ASSUME NEW e \in Evaluators, UNCHANGED <<run, restart>>, Quiet,
             \A d \in Evaluators : d # e => pc'[d] = pc[d] /\ snap'[d] = snap[d],
             pc'[e] \in {"idle", "reply", "enrollment"} \/ (pc'[e] = pc[e] /\ snap'[e] = snap[e])
      PROVE Kept
  BY <1>2, QuietKeepsRows, QuietKeepsReads
<1>3. ASSUME NEW s \in Steps, Schedule(s) \/ Prepare(s) \/ SendFails(s) \/ Evict(s) \/ EditStep(s) PROVE Kept
  <2>1. Quiet /\ UNCHANGED <<run, restart, calls>>
    BY <1>3 DEF Schedule, Prepare, SendFails, Evict, EditStep, Quiet, Calm, TInv, TypeOK, rows, events
  <2> QED
    BY <1>1, <2>1
<1>4. ASSUME NEW status \in {"paused", "removed"}, Unsubscribe \/ SetStatus(status) PROVE Kept
  <2>1. Quiet /\ UNCHANGED <<run, restart, calls>>
    BY <1>4 DEF Unsubscribe, SetStatus, Quiet, Calm, TInv, TypeOK, rows
  <2> QED
    BY <1>1, <2>1
<1>5. CASE UNCHANGED vars
  BY <1>1, <1>5 DEF vars, rows, calls, Quiet, Calm
<1>6. ASSUME NEW e \in Evaluators, NEW s \in Steps, Send(e, s) \/ HandleLinkClick(e, s) PROVE Kept
  <2>1. Quiet /\ UNCHANGED <<run, restart>>
    BY <1>6 DEF Send, HandleLinkClick, Quiet, Calm, TInv, TypeOK
  <2> QED
    BY <1>2, <1>6, <2>1 DEF Send, HandleLinkClick, Goto, TInv, TypeOK
<1>7. ASSUME NEW e \in Evaluators, NEW matches \in BOOLEAN,
             HandleTwilioReply(e) \/ HandleTelegram(e) \/ RecordReply(e, matches)
      PROVE Kept
  BY <1>7 DEF HandleTwilioReply, HandleTelegram, TakeReply, RecordReply, EmailInv, TInv, TypeOK
<1>8. ASSUME NEW e \in Evaluators, EvaluationFails(e) \/ ReadEvents(e) PROVE Kept
  <2>1. Quiet /\ UNCHANGED <<run, restart>>
    BY <1>8 DEF EvaluationFails, ReadEvents, Quiet, Calm, rows, TInv, TypeOK
  <2>2. CASE pc'[e] = "commit"
    BY <1>8, <2>1, <2>2, QuietKeepsRows DEF EvaluationFails, ReadEvents, Goto, Stop, TInv, TypeOK,
       ReadInv, Quiet, Calm, rows
  <2>3. CASE pc'[e] # "commit"
    BY <1>2, <1>8, <2>1, <2>3 DEF EvaluationFails, ReadEvents, Goto, Stop, TInv, TypeOK
  <2> QED
    BY <2>2, <2>3
<1>9. ASSUME NEW e \in Evaluators, ReadEnrollment(e) PROVE Kept
  <2>1. Quiet /\ UNCHANGED <<run, restart>>
    BY <1>9 DEF ReadEnrollment, Quiet, Calm, rows, TInv, TypeOK
  <2>2. CASE enrollment = "active"
    <3>1. pc' = [pc EXCEPT ![e] = "states"] /\ snap' = [snap EXCEPT ![e] = SnapAt(current)]
      BY <1>9, <2>2 DEF ReadEnrollment, Goto
    <3> QED
      BY <1>9, <2>1, <3>1, SnapAtType, QuietKeepsRows DEF ReadEnrollment, ReadInv, Quiet, Calm, rows,
         TInv, TypeOK
  <2>3. CASE enrollment # "active"
    BY <1>2, <1>9, <2>1, <2>3 DEF ReadEnrollment, Goto, Stop, TInv, TypeOK
  <2> QED
    BY <2>2, <2>3
<1>10. ASSUME NEW e \in Evaluators, ReadStates(e) PROVE Kept
  <2> DEFINE s == snap[e].step
             n == IF NextSteps(s) = {} THEN 0 ELSE FirstOf(NextSteps(s))
             l == NextSteps(s) = {}
  <2>1. Quiet /\ UNCHANGED <<run, restart>>
    BY <1>10 DEF ReadStates, Quiet, Calm, rows, TInv, TypeOK
  <2>2. CASE Stop(e)
    BY <1>2, <2>1, <2>2 DEF Goto, Stop, TInv, TypeOK
  <2>3. CASE ~Stop(e)
    <3>1. /\ pc[e] = "states" /\ s \in Steps
          /\ Decide(s) \in {"events", "commit"}
          /\ pc' = [pc EXCEPT ![e] = Decide(s)]
          /\ snap' = [snap EXCEPT ![e] = [step |-> s, run |-> run, next |-> n, last |-> l]]
      BY <1>10, <2>3 DEF ReadStates, Decide, Goto, TInv, SnapInv
    \* An unedited step after s is published, so it is among the next steps.
    <3>2. \A t \in Steps \ edited : t > s => t \in NextSteps(s)
      BY DEF NextSteps, RowsInv
    <3>3. NextSteps(s) \subseteq Steps /\ \A t \in NextSteps(s) : t > s
      BY DEF NextSteps, TInv, TypeOK
    <3>4. ~l => n \in NextSteps(s) /\ \A t \in NextSteps(s) : n <= t
      BY <3>3, FirstIsLeast
    <3>5. l \/ n > s
      BY <3>3, <3>4
    <3>6. \A t \in Steps \ edited : t > s => ~l /\ n <= t
      BY <3>2, <3>4
    <3>7. s <= current /\ (s # current => state[s] = "completed")
      BY <3>1 DEF ReadInv
    <3>8. snap'[e].step = s /\ snap'[e].next = n /\ snap'[e].last = l
      BY <3>1 DEF TInv, TypeOK
    <3>9. UNCHANGED <<current, state, edited>>
      BY <1>10 DEF ReadStates, rows
    <3> HIDE DEF s, n, l
    <3> QED
      BY <2>1, <3>1, <3>5, <3>6, <3>7, <3>8, <3>9, QuietKeepsRows DEF ReadInv, TInv, TypeOK
  <2> QED
    BY <2>2, <2>3
<1>11. ASSUME NEW e \in Evaluators, CompleteCurrentStep(e) PROVE Kept
  <2> DEFINE s == snap[e].step
  <2>1. CASE UNCHANGED <<state, completions, enrollment, current>>
    <3>1. Quiet /\ UNCHANGED <<run, restart>>
      BY <1>11, <2>1 DEF CompleteCurrentStep, Quiet, Calm
    <3> QED
      BY <1>2, <1>11, <3>1 DEF CompleteCurrentStep, Stop, Goto, TInv, TypeOK
  <2>2. CASE state[s] \notin {"none", "completed"} /\ ~UNCHANGED <<state, completions, enrollment, current>>
    <3>1. /\ state' = [state EXCEPT ![s] = "completed"]
          /\ completions' = [completions EXCEPT ![s] = @ + 1]
          /\ pc[e] = "commit"
          /\ UNCHANGED <<run, restart, edited, published>>
      BY <1>11, <2>2 DEF CompleteCurrentStep
    <3>2. s = current /\ s \in Steps
      BY <2>2, <3>1 DEF ReadInv, TInv, SnapInv
    <3>3. /\ snap[e].last => enrollment' = "completed" /\ current' = current
          /\ ~snap[e].last => enrollment' = enrollment /\ current' = snap[e].next
      BY <1>11, <2>2 DEF CompleteCurrentStep
    <3>4. /\ snap[e].last \/ snap[e].next > s
          /\ \A t \in Steps \ edited : t > s => ~snap[e].last /\ snap[e].next <= t
      BY <3>1 DEF ReadInv
    <3>5. snap[e].last \/ snap[e].next \in Steps
      BY <3>1 DEF TInv, SnapInv
    <3>6. RowsInv'
      BY <3>1, <3>2, <3>3, <3>4, <3>5 DEF RowsInv, TInv, TypeOK, Steps
    <3>8. ReadInv'
      BY <1>11, <3>1, <3>2, <3>3, <3>4, <3>5 DEF CompleteCurrentStep, Stop, Goto, ReadInv,
         TInv, TypeOK, SnapInv, Steps
    <3> QED
      BY <3>6, <3>8
  <2> QED
    BY <1>11, <2>1, <2>2 DEF CompleteCurrentStep
<1>12. CASE BeginRestart \/ FinishRestart
  BY <1>12 DEF BeginRestart, FinishRestart
<1> QED
  BY <1>3, <1>4, <1>5, <1>6, <1>7, <1>8, <1>9, <1>10, <1>11, <1>12 DEF Next, Evaluate

\* The invariants of a first enrollment, and that it begins with them.
LEMMA FirstInvariant == Spec => [](TInv /\ EmailInv /\ Away /\ FirstInv)
<1>1. ASSUME Init PROVE Away /\ FirstInv
  <2>1. FirstOf(published) \in published /\ \A t \in published : FirstOf(published) <= t
    BY <1>1, FirstIsLeast DEF Init
  <2>2. /\ current = FirstOf(published) /\ edited = Steps \ published
        /\ published \subseteq Steps /\ enrollment = "active"
        /\ \A s \in Steps : /\ state[s] = IF s \in published THEN "pending" ELSE "none"
                           /\ completions[s] = 0
        /\ \A e \in Evaluators : pc[e] = "idle"
        /\ run = 1 /\ restart = {}
    BY <1>1 DEF Init, FreshRows
  <2>3. Away /\ ReadInv
    BY <2>2 DEF Away, ReadInv
  <2>4. \A s \in Steps : s \in published => ~(s < current)
    <3>1. Steps \subseteq Nat
      BY DEF Steps
    <3>2. current \in Nat /\ \A s \in Steps : s \in Nat /\ (s \in published => current <= s)
      BY <2>1, <2>2, <3>1, Zenon
    <3> QED
      BY <3>2
  <2>5. RowsInv
    BY <2>2, <2>4 DEF RowsInv
  <2> QED
    BY <2>3, <2>5 DEF FirstInv
<1>2. ASSUME TInv, EmailInv, FirstInv, [Next]_vars PROVE FirstInv'
  <2>1. CASE campaign.channel = "email" /\ OneRun'
    BY <1>2, <2>1, OneRunBefore, FirstStep DEF FirstInv
  <2>2. CASE ~(campaign.channel = "email" /\ OneRun')
    BY <1>2, <2>2, SameCampaign DEF FirstInv
  <2> QED
    BY <2>1, <2>2
<1> QED
  BY <1>1, <1>2, TypeInit, TypeStep, EmailInit, EmailStep, AwayStep, PTL DEF Spec

----------------------------------------------------------------------------
(* Later enrollments in a time-based campaign by email whose steps were all   *)
(* published from the start.  Only steps whose message was never sent before are sent,  *)
(* and those come in order: of the steps of a run, at most one is sent and    *)
(* not completed, and it is not behind the current one.                       *)

\* Sent in this run, or about to be completed by an evaluation that found it so.
Hot(s) ==
  \/ state[s] = "sent"
  \/ state[s] \notin {"none", "completed"} /\ \E e \in Evaluators : pc[e] = "commit" /\ snap[e].step = s /\ snap[e].run = run

\* What evaluations have read.
LaterReads == \A e \in Evaluators :
  /\ pc[e] # "events" /\ snap[e].run <= run
  /\ pc[e] = "commit" => \/ snap[e].step = N /\ snap[e].last
                         \/ ~snap[e].last /\ snap[e].next = snap[e].step + 1

\* Messages were sent in the order of the steps, those of earlier runs included.
SentInOrder ==
  /\ \A s \in Sent : \A t \in Steps : t < s => t \in Sent
  /\ \A s \in Steps : state[s] # "replied" /\ (state[s] = "completed" => s \in Sent)
  /\ \A s \in Steps : jobs[s] = "live" => \A t \in Steps : t < s => t \in Sent /\ ~Hot(t)

\* The rows of a run are there all at once, and the current one is where the last completed one led.
LaterRows ==
  /\ published = Steps /\ (restart # {} => restart = Steps)
  /\ restart = {} => \A s \in Steps : state[s] # "none"
  /\ restart = {} => current = 1 \/ state[current - 1] = "completed"
  /\ enrollment = "active" => state[current] # "completed"
  /\ \A s \in Steps : Hot(s) => /\ s \in Sent /\ current <= s
                                /\ \A t \in Steps : s < t => state[t] # "completed" /\ ~Hot(t)

LaterInv ==
  campaign.channel = "email" /\ ProgressRule = "time_based" /\ edited = {} =>
    LaterReads /\ SentInOrder /\ LaterRows

\* A step after which nothing is hot that was not, and no row is completed or made.
Cool ==
  /\ UNCHANGED <<published, run, restart, current, Sent>>
  /\ \A s \in Steps : /\ state'[s] = "completed" <=> state[s] = "completed"
                      /\ state'[s] = "none" <=> state[s] = "none"
                      /\ state'[s] # "replied"
                      /\ jobs'[s] = "live" => jobs[s] = "live"
  /\ \A s \in Steps : Hot(s)' => Hot(s)
  /\ enrollment' = "active" => enrollment = "active"

LEMMA CoolKeeps ==
  ASSUME TInv, SentInOrder, LaterRows, Cool PROVE SentInOrder' /\ LaterRows'
<1>1. current \in Steps
  BY DEF TInv, TypeOK
<1>2. current # 1 => current - 1 \in Steps
  BY <1>1 DEF Steps
<1>3. SentInOrder'
  BY DEF SentInOrder, Cool
<1>4. LaterRows'
  BY <1>1, <1>2 DEF LaterRows, Cool
<1> QED
  BY <1>3, <1>4

\* The rows decide nothing else when nobody has called back: what is not going to be committed is put down.
LEMMA CallsCool ==
  ASSUME TInv, LaterReads, UNCHANGED <<state, run>>,
         \A d \in Evaluators : \/ pc'[d] \in {"idle", "enrollment"} /\ snap'[d] \in {snap[d], NoSnap}
                               \/ pc'[d] = "states" /\ snap'[d].run = 0
                               \/ pc'[d] = pc[d] /\ snap'[d] = snap[d]
  PROVE  LaterReads' /\ \A s \in Steps : Hot(s)' => Hot(s)
<1>1. NoSnap.run = 0 /\ 0 <= run
  BY DEF NoSnap, SnapAt, TInv, TypeOK
<1>2. LaterReads'
  BY <1>1 DEF LaterReads
<1>3. ASSUME NEW s \in Steps PROVE Hot(s)' => Hot(s)
  BY DEF Hot
<1> QED
  BY <1>2, <1>3

\* The first of all steps after one is the next in order.
LEMMA NextInOrder ==
  ASSUME published = Steps, NEW s \in Steps
  PROVE  IF s = N THEN NextSteps(s) = {} ELSE NextSteps(s) # {} /\ FirstOf(NextSteps(s)) = s + 1
<1>1. NextSteps(s) = {t \in Steps : t > s} /\ N \in Nat
  BY DEF NextSteps
<1>2. s = N => NextSteps(s) = {}
  BY <1>1 DEF Steps
<1>3. s # N => s + 1 \in NextSteps(s)
  BY <1>1 DEF Steps
<1>4. s # N => FirstOf(NextSteps(s)) \in NextSteps(s) /\ \A t \in NextSteps(s) : FirstOf(NextSteps(s)) <= t
  BY <1>1, <1>3, FirstIsLeast
<1>5. s # N => FirstOf(NextSteps(s)) = s + 1
  <2>1. ASSUME s # N PROVE FirstOf(NextSteps(s)) \in Nat /\ FirstOf(NextSteps(s)) > s /\ FirstOf(NextSteps(s)) <= s + 1
    BY <1>1, <1>3, <1>4, <2>1 DEF Steps
  <2>2. s \in Nat
    BY DEF Steps
  <2> QED
    BY <2>1, <2>2
<1> QED
  BY <1>2, <1>3, <1>5

\* Only a message that never left before makes its row hot: it is the first such.
LEMMA SendLater ==
  ASSUME TInv, LaterReads, SentInOrder, LaterRows, Away, NEW e \in Evaluators, NEW s \in Steps, Send(e, s)
  PROVE  LaterReads' /\ SentInOrder' /\ LaterRows'
<1>0. Sent' = Sent \cup {s} /\ (s \notin Sent <=> outbox[s] = "open")
  BY DEF Send, Sent, TInv, TypeOK
<1>1. /\ jobs[s] = "live" /\ jobs' = [jobs EXCEPT ![s] = "kept"] /\ Sent' = Sent \cup {s}
      /\ state' = [state EXCEPT ![s] = IF s \notin Sent /\ @ \in {"pending", "queued"} THEN "sent" ELSE @]
      /\ pc' = [pc EXCEPT ![e] = "enrollment"]
      /\ UNCHANGED <<enrollment, current, run, restart, published, snap>>
  BY <1>0 DEF Send, Goto
<1>2. \A t \in Steps : t < s => t \in Sent /\ ~Hot(t)
  BY <1>1 DEF SentInOrder
<1>3. /\ \A t \in Steps : t # s => state'[t] = state[t]
      /\ \/ state'[s] = state[s]
         \/ s \notin Sent /\ state[s] \in {"pending", "queued"} /\ state'[s] = "sent"
      /\ \A t \in Steps : jobs'[t] = "live" => jobs[t] = "live"
      /\ \A d \in Evaluators : pc'[d] = "commit" => pc[d] = "commit"
  BY <1>1 DEF TInv, TypeOK
<1>4. \A t \in Steps : Hot(t)' => Hot(t) \/ (t = s /\ s \notin Sent /\ state[s] \in {"pending", "queued"})
  BY <1>1, <1>3 DEF Hot
<1>5. LaterReads'
  BY <1>1 DEF LaterReads, TInv, TypeOK
<1>6. \A t, r \in Steps : t < r /\ r \in Sent => t \in Sent
  BY DEF SentInOrder
<1>7. s \notin Sent => \A t \in Steps : s < t => state[t] # "completed" /\ ~Hot(t)
  BY <1>6 DEF SentInOrder, LaterRows
<1>8. \A t \in Steps : /\ state'[t] # "replied" /\ (state'[t] = "none" <=> state[t] = "none")
                       /\ state'[t] = "completed" <=> state[t] = "completed"
  BY <1>3 DEF SentInOrder
<1>9. SentInOrder'
  <2>1. ASSUME NEW r \in Sent', NEW t \in Steps, t < r PROVE t \in Sent'
    <3>1. r \in Steps /\ (r \in Sent \/ r = s)
      BY <1>1 DEF Sent
    <3> QED
      BY <1>1, <1>2, <1>6, <2>1, <3>1
  <2>2. \A t \in Steps : state'[t] # "replied" /\ (state'[t] = "completed" => t \in Sent')
    BY <1>1, <1>8 DEF SentInOrder
  <2>3. ASSUME NEW r \in Steps, jobs'[r] = "live", NEW t \in Steps, t < r PROVE t \in Sent' /\ ~Hot(t)'
    <3>1. t \in Sent /\ ~Hot(t)
      BY <1>3, <2>3 DEF SentInOrder
    <3> QED
      BY <1>1, <1>4, <3>1
  <2> QED
    BY <2>1, <2>2, <2>3 DEF SentInOrder
<1>10. ASSUME s \notin Sent, state[s] \in {"pending", "queued"} PROVE current <= s
  <2>1. restart = {} => current = 1 \/ state[current - 1] = "completed"
    BY DEF LaterRows
  <2>2. s \in Nat /\ s >= 1 /\ current \in Steps /\ current \in Nat
    BY DEF Steps, TInv, TypeOK
  <2>3. CASE current = 1
    BY <2>2, <2>3
  <2>4. CASE current # 1 /\ state[current - 1] = "completed"
    <3>1. current - 1 \in Steps
      BY <2>2, <2>4 DEF Steps
    <3>2. current - 1 \in Sent
      BY <2>4, <3>1 DEF SentInOrder
    <3>3. ~(s < current - 1) /\ s # current - 1
      BY <1>10, <1>6, <3>1, <3>2
    <3> QED
      BY <2>2, <3>3
  <2>5. CASE restart # {}
    BY <1>10, <2>5 DEF Away
  <2> QED
    BY <2>1, <2>3, <2>4, <2>5
<1>11. LaterRows'
  <2>1. ASSUME NEW t \in Steps, Hot(t)', NEW r \in Steps, t < r PROVE state'[r] # "completed" /\ ~Hot(r)'
    <3>1. CASE Hot(t)
      <4>1. state[r] # "completed" /\ ~Hot(r)
        BY <2>1, <3>1 DEF LaterRows
      <4>2. r = s => FALSE
        BY <1>2, <2>1, <3>1
      <4> QED
        BY <1>4, <1>8, <4>1, <4>2
    <3>2. CASE t = s /\ s \notin Sent
      <4>1. state[r] # "completed" /\ ~Hot(r) /\ r # s
        BY <1>7, <2>1, <3>2 DEF Steps
      <4> QED
        BY <1>4, <1>8, <4>1
    <3> QED
      BY <1>4, <2>1, <3>1, <3>2
  <2>2. ASSUME NEW t \in Steps, Hot(t)' PROVE t \in Sent' /\ current <= t
    BY <1>1, <1>4, <1>10, <2>2 DEF LaterRows
  <2>3. current \in Steps /\ (current # 1 => current - 1 \in Steps)
    BY DEF TInv, TypeOK, Steps
  <2> QED
    BY <1>1, <1>8, <2>1, <2>2, <2>3 DEF LaterRows
<1> QED
  BY <1>5, <1>9, <1>11

\* A step is queued when it is the current one, so that no earlier one is hot any more.
LEMMA ScheduleLater ==
  ASSUME TInv, Away, LaterReads, SentInOrder, LaterRows, NEW s \in Steps, Schedule(s)
  PROVE  LaterReads' /\ SentInOrder' /\ LaterRows'
<1>1. /\ enrollment = "active" /\ current = s /\ state[s] = "pending"
      /\ state' = [state EXCEPT ![s] = "queued"]
      /\ jobs' = [jobs EXCEPT ![s] = IF @ = "none" THEN "live" ELSE @]
      /\ UNCHANGED <<enrollment, current, run, restart, published, Sent, pc, snap>>
  BY DEF Schedule, calls, Sent
<1>2. /\ \A t \in Steps : t # s => state'[t] = state[t] /\ jobs'[t] = jobs[t]
      /\ state'[s] = "queued"
      /\ \A t \in Steps : /\ state'[t] = "completed" <=> state[t] = "completed"
                          /\ state'[t] = "none" <=> state[t] = "none"
  BY <1>1 DEF TInv, TypeOK
<1>3. \A t \in Steps : Hot(t)' => Hot(t)
  BY <1>1, <1>2 DEF Hot
<1>4. restart = {}
  BY <1>1 DEF Away
<1>5. \A t \in Steps : t < s => t \in Sent /\ ~Hot(t)
  <2> SUFFICES ASSUME NEW t \in Steps, t < s PROVE t \in Sent /\ ~Hot(t)
    OBVIOUS
  <2>1. s - 1 \in Steps /\ t \in Steps /\ (t = s - 1 \/ t < s - 1) /\ s # 1 /\ ~(s <= t)
    BY DEF Steps
  <2>2. state[s - 1] = "completed"
    BY <1>1, <1>4, <2>1 DEF LaterRows
  <2>3. s - 1 \in Sent
    BY <2>1, <2>2 DEF SentInOrder
  <2>4. t \in Sent
    BY <2>1, <2>3 DEF SentInOrder
  <2>5. ~Hot(t)
    BY <1>1, <2>1 DEF LaterRows
  <2> QED
    BY <2>4, <2>5
<1>6. LaterReads'
  BY <1>1 DEF LaterReads
<1>7. SentInOrder'
  <2>1. \A t \in Steps : state'[t] # "replied"
    BY <1>2 DEF SentInOrder
  <2>2. ASSUME NEW r \in Steps, jobs'[r] = "live", NEW t \in Steps, t < r PROVE t \in Sent /\ ~Hot(t)
    <3>1. CASE r = s
      BY <1>5, <2>2, <3>1
    <3>2. CASE r # s
      BY <1>2, <2>2, <3>2 DEF SentInOrder
    <3> QED
      BY <3>1, <3>2
  <2> QED
    BY <1>1, <1>2, <1>3, <2>1, <2>2 DEF SentInOrder
<1>8. LaterRows'
  <2>1. current \in Steps /\ (current # 1 => current - 1 \in Steps)
    BY DEF TInv, TypeOK, Steps
  <2> QED
    BY <1>1, <1>2, <1>3, <2>1 DEF LaterRows
<1> QED
  BY <1>6, <1>7, <1>8

\* The step that is completed is the hot one; none is hot after it.
LEMMA CompleteLater ==
  ASSUME TInv, Away, LaterReads, SentInOrder, LaterRows, NEW e \in Evaluators, CompleteCurrentStep(e)
  PROVE  LaterReads' /\ SentInOrder' /\ LaterRows' /\ current' >= current
<1> DEFINE s == snap[e].step
<1>1. /\ pc[e] = "commit" /\ s \in Steps
      /\ pc' = [pc EXCEPT ![e] = "idle"] /\ snap' = [snap EXCEPT ![e] = NoSnap]
      /\ UNCHANGED <<run, restart, published, jobs, Sent>>
  BY DEF CompleteCurrentStep, Stop, Goto, TInv, SnapInv, events, Sent
<1>2. \A d \in Evaluators : \/ pc'[d] \in {"idle", "enrollment"} /\ snap'[d] \in {snap[d], NoSnap}
                            \/ pc'[d] = pc[d] /\ snap'[d] = snap[d]
  BY <1>1 DEF TInv, TypeOK
<1>3. LaterReads'
  <2>1. NoSnap.run = 0 /\ 0 <= run
    BY DEF NoSnap, SnapAt, TInv, TypeOK
  <2> QED
    BY <1>1, <1>2, <2>1 DEF LaterReads
<1>4. CASE UNCHANGED <<state, enrollment, current>>
  <2>1. \A t \in Steps : Hot(t)' => Hot(t)
    BY <1>1, <1>2, <1>4 DEF Hot
  <2>2. Cool
    BY <1>1, <1>4, <2>1 DEF Cool, SentInOrder
  <2>3. current \in Nat
    BY DEF TInv, TypeOK, Steps
  <2>4. SentInOrder' /\ LaterRows'
    BY <2>2, CoolKeeps
  <2> QED
    BY <1>3, <1>4, <2>3, <2>4
<1>5. CASE ~UNCHANGED <<state, enrollment, current>>
  <2>1. /\ snap[e].run = run /\ state[s] \notin {"none", "completed"}
        /\ state' = [state EXCEPT ![s] = "completed"]
        /\ snap[e].last => enrollment' = "completed" /\ current' = current
        /\ ~snap[e].last => enrollment' = enrollment /\ current' = snap[e].next
    BY <1>5 DEF CompleteCurrentStep
  <2>2. Hot(s)
    BY <1>1, <2>1 DEF Hot
  <2>3. s \in Sent /\ current <= s /\ \A t \in Steps : s < t => state[t] # "completed" /\ ~Hot(t)
    BY <1>1, <2>2 DEF LaterRows
  <2>4. \A t \in Steps : t < s => ~Hot(t)
    BY <1>1, <2>2 DEF LaterRows
  <2>5. /\ \A t \in Steps : t # s => state'[t] = state[t]
        /\ state'[s] = "completed"
    BY <1>1, <2>1 DEF TInv, TypeOK
  <2>6. \A t \in Steps : ~Hot(t)'
    <3> SUFFICES ASSUME NEW t \in Steps, Hot(t)' PROVE FALSE
      OBVIOUS
    <3>1. t # s
      BY <2>5 DEF Hot
    <3>2. Hot(t)
      BY <1>1, <1>2, <2>5, <3>1 DEF Hot
    <3>3. t < s \/ s < t
      BY <1>1, <3>1 DEF Steps
    <3> QED
      BY <2>3, <2>4, <3>2, <3>3
  <2>7. restart = {}
    BY <1>1, <2>1 DEF Away
  <2>8. ~snap[e].last => snap[e].next = s + 1
    BY <1>1 DEF LaterReads
  <2>9. ~snap[e].last => s + 1 \in Steps
    BY <1>1, <2>8 DEF TInv, SnapInv
  <2>10. s \in Nat /\ current \in Nat /\ current \in Steps /\ (current # 1 => current - 1 \in Steps)
    BY <1>1 DEF TInv, TypeOK, Steps
  <2>11. SentInOrder'
    <3>1. \A t \in Steps : state'[t] # "replied" /\ (state'[t] = "completed" => t \in Sent)
      BY <2>3, <2>5 DEF SentInOrder
    <3> QED
      BY <1>1, <2>6, <3>1 DEF SentInOrder
  <2>12. \A t \in Steps : state'[t] # "none"
    BY <2>5, <2>7 DEF LaterRows
  <2>13. CASE snap[e].last
    <3>1. current' = 1 \/ state'[current' - 1] = "completed"
      BY <2>1, <2>5, <2>7, <2>10, <2>13 DEF LaterRows
    <3> QED
      BY <1>1, <1>3, <2>1, <2>6, <2>7, <2>10, <2>11, <2>12, <2>13, <3>1 DEF LaterRows
  <2>14. CASE ~snap[e].last
    <3>1. current' = s + 1 /\ current' - 1 = s
      BY <2>1, <2>8, <2>10, <2>14
    <3>2. s + 1 # s /\ s < s + 1 /\ s + 1 >= current
      BY <2>3, <2>10
    <3>3. state'[current'] # "completed"
      BY <2>3, <2>5, <2>9, <2>14, <3>1, <3>2
    <3> HIDE DEF s
    <3> QED
      BY <1>1, <1>3, <2>5, <2>6, <2>7, <2>11, <2>12, <3>1, <3>2, <3>3 DEF LaterRows
  <2> QED
    BY <2>13, <2>14
<1> QED
  BY <1>4, <1>5

\* A new run begins with pending rows at the first step, and evaluations of earlier runs find none of them.
LEMMA RestartLater ==
  ASSUME TInv, Away, edited = {}, LaterReads, SentInOrder, LaterRows, BeginRestart \/ FinishRestart
  PROVE  LaterReads' /\ SentInOrder' /\ LaterRows'
<1>1. CASE BeginRestart
  <2>1. /\ enrollment = "removed" /\ restart' = published /\ published # {} /\ enrollment' = enrollment
        /\ \A s \in Steps : state'[s] = "none"
        /\ UNCHANGED <<current, run, published, jobs, Sent, pc, snap>>
    BY <1>1 DEF BeginRestart, events, calls, Sent
  <2>2. \A s \in Steps : ~Hot(s)'
    BY <2>1 DEF Hot
  <2> QED
    BY <2>1, <2>2 DEF LaterReads, SentInOrder, LaterRows
<1>2. CASE FinishRestart
  <2>1. /\ restart # {} /\ restart' = {} /\ current' = FirstOf(restart) /\ state' = FreshRows(restart) /\ run' = run + 1
        /\ UNCHANGED <<published, jobs, Sent, pc, snap>>
    BY <1>2 DEF FinishRestart, events, calls, Sent
  <2>2. restart = Steps
    BY <2>1 DEF LaterRows
  <2>3. \A s \in Steps : state'[s] = "pending"
    BY <2>1, <2>2 DEF FreshRows
  <2>4. current' \in Steps /\ current' <= 1
    <3>1. 1 \in Steps
      BY DEF Steps
    <3> QED
      BY <2>1, <2>2, <3>1, FirstIsLeast
  <2>5. current' = 1
    BY <2>4 DEF Steps
  <2>6. \A e \in Evaluators : snap[e].run < run'
    BY <2>1 DEF LaterReads, TInv, TypeOK
  <2>7. \A s \in Steps : ~Hot(s)'
    <3> SUFFICES ASSUME NEW s \in Steps, Hot(s)' PROVE FALSE
      OBVIOUS
    <3>1. \E e \in Evaluators : snap[e].run = run'
      BY <2>1, <2>3 DEF Hot
    <3> QED
      BY <2>1, <2>6, <3>1 DEF TInv, TypeOK
  <2>8. LaterReads'
    BY <2>1, <2>6 DEF LaterReads, TInv, TypeOK
  <2>9. SentInOrder'
    BY <2>1, <2>3, <2>7 DEF SentInOrder
  <2>10. LaterRows'
    BY <2>1, <2>3, <2>4, <2>5, <2>7 DEF LaterRows
  <2> QED
    BY <2>8, <2>9, <2>10
<1> QED
  BY <1>1, <1>2

\* An evaluation goes on to complete a step only if it found the step's row sent.
LEMMA ReadLater ==
  ASSUME ProgressRule = "time_based", TInv, LaterReads, SentInOrder, LaterRows, NEW e \in Evaluators, ReadStates(e)
  PROVE  LaterReads' /\ SentInOrder' /\ LaterRows'
<1> DEFINE s == snap[e].step
           n == IF NextSteps(s) = {} THEN 0 ELSE FirstOf(NextSteps(s))
           l == NextSteps(s) = {}
<1>1. UNCHANGED <<published, run, restart, current, Sent, state, jobs, enrollment>>
  BY DEF ReadStates, rows, events, Sent
<1>2. CASE Stop(e)
  <2>1. \A d \in Evaluators : \/ pc'[d] = "idle" /\ snap'[d] = NoSnap
                              \/ pc'[d] = pc[d] /\ snap'[d] = snap[d]
    BY <1>2 DEF Stop, Goto, TInv, TypeOK
  <2>2. LaterReads' /\ \A t \in Steps : Hot(t)' => Hot(t)
    BY <1>1, <2>1, CallsCool
  <2> QED
    BY <1>1, <2>2, CoolKeeps DEF Cool, SentInOrder
<1>3. CASE ~Stop(e)
  <2>1. /\ pc[e] = "states" /\ s \in Steps
        /\ Decide(s) # "idle"
        /\ pc' = [pc EXCEPT ![e] = Decide(s)]
        /\ snap' = [snap EXCEPT ![e] = [step |-> s, run |-> run, next |-> n, last |-> l]]
    BY <1>3 DEF ReadStates, Goto, TInv, SnapInv
  <2>2. state[s] = "sent" /\ Decide(s) = "commit"
    BY <2>1 DEF Decide, SentInOrder
  <2>3. \A d \in Evaluators : d # e => pc'[d] = pc[d] /\ snap'[d] = snap[d]
    BY <2>1 DEF TInv, TypeOK
  <2>4. snap'[e].step = s /\ snap'[e].run = run /\ snap'[e].next = n /\ snap'[e].last = l /\ pc'[e] = "commit"
    BY <2>1, <2>2 DEF TInv, TypeOK
  <2>5. IF s = N THEN l ELSE ~l /\ n = s + 1
    BY <2>1, NextInOrder DEF LaterRows
  <2>6. run \in Nat
    BY DEF TInv, TypeOK
  <2> HIDE DEF s, n, l
  <2>7. LaterReads'
    BY <1>1, <2>3, <2>4, <2>5, <2>6 DEF LaterReads
  <2>8. \A t \in Steps : Hot(t)' => Hot(t)
    BY <1>1, <2>2, <2>3, <2>4 DEF Hot
  <2> QED
    BY <1>1, <2>7, <2>8, CoolKeeps DEF Cool, SentInOrder
<1> QED
  BY <1>2, <1>3

\* Each action keeps the three, as long as no step is edited.
LEMMA LaterStep ==
  ASSUME campaign.channel = "email", ProgressRule = "time_based", edited = {}, edited' = {},
         TInv, EmailInv, Away, LaterReads, SentInOrder, LaterRows, [Next]_vars
  PROVE  LaterReads' /\ SentInOrder' /\ LaterRows'
<1> DEFINE Kept == LaterReads' /\ SentInOrder' /\ LaterRows'
<1>1. ASSUME NEW e \in Evaluators, NEW s \in Steps, Send(e, s) PROVE Kept
  BY <1>1, SendLater
<1>2. ASSUME NEW s \in Steps, Schedule(s) PROVE Kept
  BY <1>2, ScheduleLater
<1>3. ASSUME NEW e \in Evaluators, CompleteCurrentStep(e) PROVE Kept
  BY <1>3, CompleteLater
<1>4. ASSUME NEW e \in Evaluators, ReadStates(e) PROVE Kept
  BY <1>4, ReadLater
<1>5. CASE BeginRestart \/ FinishRestart
  BY <1>5, RestartLater
<1>6. ASSUME NEW s \in Steps, EditStep(s) PROVE Kept
  BY <1>6 DEF EditStep
<1>7. ASSUME NEW e \in Evaluators, ReadEvents(e) PROVE Kept
  BY <1>7 DEF ReadEvents, LaterReads
<1>8. ASSUME NEW e \in Evaluators, NEW matches \in BOOLEAN,
             HandleTwilioReply(e) \/ HandleTelegram(e) \/ RecordReply(e, matches)
      PROVE Kept
  BY <1>8 DEF HandleTwilioReply, HandleTelegram, TakeReply, RecordReply, EmailInv, TInv, TypeOK
<1>9. ASSUME UNCHANGED <<published, run, restart, current, Sent, state, enrollment>>,
             \A t \in Steps : jobs'[t] = "live" => jobs[t] = "live",
             \A d \in Evaluators : \/ pc'[d] \in {"idle", "enrollment"} /\ snap'[d] \in {snap[d], NoSnap}
                                   \/ pc'[d] = "states" /\ snap'[d].run = 0
                                   \/ pc'[d] = pc[d] /\ snap'[d] = snap[d]
      PROVE Kept
  <2>1. LaterReads' /\ \A t \in Steps : Hot(t)' => Hot(t)
    BY <1>9, CallsCool
  <2> QED
    BY <1>9, <2>1, CoolKeeps DEF Cool, SentInOrder
<1>10. ASSUME NEW s \in Steps, Prepare(s) \/ SendFails(s) \/ Evict(s) PROVE Kept
  <2>1. Sent' = Sent
    BY <1>10 DEF Prepare, SendFails, Evict, Sent, TInv, TypeOK
  <2> QED
    BY <1>9, <1>10, <2>1 DEF Prepare, SendFails, Evict, rows, calls, TInv, TypeOK
<1>11. ASSUME NEW e \in Evaluators, NEW s \in Steps, HandleLinkClick(e, s) PROVE Kept
  BY <1>9, <1>11 DEF HandleLinkClick, Goto, Sent, TInv, TypeOK
<1>12. ASSUME NEW e \in Evaluators, EvaluationFails(e) PROVE Kept
  BY <1>9, <1>12 DEF EvaluationFails, Stop, Goto, rows, events, Sent, TInv, TypeOK
<1>13. ASSUME NEW e \in Evaluators, ReadEnrollment(e) PROVE Kept
  <2>1. CASE enrollment = "active"
    <3>1. pc' = [pc EXCEPT ![e] = "states"] /\ snap' = [snap EXCEPT ![e] = SnapAt(current)]
      BY <1>13, <2>1 DEF ReadEnrollment, Goto
    <3>2. SnapAt(current).run = 0
      BY DEF SnapAt
    <3>3. \A d \in Evaluators : \/ pc'[d] = "states" /\ snap'[d].run = 0
                                \/ pc'[d] = pc[d] /\ snap'[d] = snap[d]
      BY <3>1, <3>2 DEF TInv, TypeOK
    <3> QED
      BY <1>9, <1>13, <3>3 DEF ReadEnrollment, rows, events, Sent
  <2>2. CASE enrollment # "active"
    BY <1>9, <1>13, <2>2 DEF ReadEnrollment, Stop, Goto, rows, events, Sent, TInv, TypeOK
  <2> QED
    BY <2>1, <2>2
<1>14. ASSUME NEW status \in {"paused", "removed"}, Unsubscribe \/ SetStatus(status) PROVE Kept
  <2>1. /\ UNCHANGED <<published, run, restart, current, Sent, jobs, pc, snap>>
        /\ enrollment' = "active" => enrollment = "active"
        /\ \A t \in Steps : \/ state'[t] = state[t]
                            \/ state[t] \notin {"none", "completed"} /\ state'[t] = "unsubscribed"
    BY <1>14 DEF Unsubscribe, SetStatus, events, calls, rows, Sent, TInv, TypeOK
  <2>2. \A t \in Steps : Hot(t)' => Hot(t)
    BY <2>1 DEF Hot
  <2>3. LaterReads'
    BY <2>1 DEF LaterReads
  <2>4. Cool
    BY <2>1, <2>2 DEF Cool, SentInOrder
  <2> QED
    BY <2>3, <2>4, CoolKeeps
<1>15. CASE UNCHANGED vars
  BY <1>9, <1>15 DEF vars, rows, events, calls, Sent
<1> QED
  BY <1>1, <1>2, <1>3, <1>4, <1>5, <1>6, <1>7, <1>8, <1>10, <1>11, <1>12, <1>13, <1>14, <1>15 DEF Next, Evaluate

\* The three hold in all enrollments of such a campaign.
LEMMA LaterInvariant == Spec => []LaterInv
<1>1. ASSUME Init PROVE LaterInv
  <2> SUFFICES ASSUME edited = {} PROVE LaterReads /\ SentInOrder /\ LaterRows
    BY DEF LaterInv
  <2>1. /\ published \in SUBSET Steps /\ edited = Steps \ published /\ current = FirstOf(published)
        /\ state = FreshRows(published) /\ run = 1 /\ restart = {} /\ enrollment = "active" /\ Sent = {}
        /\ jobs = [s \in Steps |-> "none"] /\ pc = [e \in Evaluators |-> "idle"]
        /\ snap = [e \in Evaluators |-> NoSnap]
    BY <1>1 DEF Init, Sent
  <2>2. published = Steps
    BY <2>1
  <2>3. \A s \in Steps : state[s] = "pending" /\ jobs[s] = "none"
    BY <2>1, <2>2 DEF FreshRows
  <2>4. current \in Steps /\ current <= 1
    <3>1. 1 \in Steps
      BY DEF Steps
    <3> QED
      BY <2>1, <2>2, <3>1, FirstIsLeast
  <2>5. current = 1
    BY <2>4 DEF Steps
  <2>6. \A e \in Evaluators : pc[e] = "idle" /\ snap[e].run = 0
    BY <2>1 DEF NoSnap, SnapAt
  <2>7. \A s \in Steps : ~Hot(s)
    BY <2>3, <2>6 DEF Hot
  <2>8. LaterReads
    BY <2>1, <2>6 DEF LaterReads
  <2>9. SentInOrder
    BY <2>1, <2>3 DEF SentInOrder
  <2>10. LaterRows
    <3>1. restart = {} /\ published = Steps /\ current = 1 /\ current \in Steps
      BY <2>1, <2>2, <2>4, <2>5
    <3> QED
      BY <2>3, <2>7, <3>1 DEF LaterRows
  <2> QED
    BY <2>8, <2>9, <2>10
<1>2. ASSUME TInv, EmailInv, Away, LaterInv, [Next]_vars PROVE LaterInv'
  <2> SUFFICES ASSUME (campaign.channel = "email" /\ ProgressRule = "time_based" /\ edited = {})'
               PROVE  LaterReads' /\ SentInOrder' /\ LaterRows'
    BY DEF LaterInv
  <2>1. campaign.channel = "email" /\ ProgressRule = "time_based"
    BY <1>2, SameCampaign DEF ProgressRule
  <2>2. edited = {} /\ edited' = {}
    BY <1>2 DEF Next, Evaluate, ReadEnrollment, ReadStates, ReadEvents, CompleteCurrentStep, EvaluationFails,
       HandleTwilioReply, HandleTelegram, TakeReply, RecordReply, Send, HandleLinkClick, Schedule, Prepare, SendFails, Evict, EditStep,
       Unsubscribe, BeginRestart, FinishRestart, SetStatus, vars
  <2> QED
    BY <1>2, <2>1, <2>2, LaterStep DEF LaterInv
<1> QED
  BY <1>1, <1>2, FirstInvariant, PTL DEF Spec

----------------------------------------------------------------------------
(* Both together.                                                            *)

\* Evaluations that race never leave an active enrollment at a step that is already
\* completed, for any number of steps, calls, edits and re-enrollments.
THEOREM CurrentStaysOpen == Spec => []CurrentStepOpen
<1>1. TInv /\ Away /\ FirstInv /\ LaterInv => CurrentStepOpen
  <2> SUFFICES ASSUME TInv, Away, FirstInv, LaterInv, Orderly, enrollment = "active"
               PROVE  state[current] # "completed" /\ (state[current] = "none" => current \in edited)
    BY DEF CurrentStepOpen
  <2>1. restart = {} /\ current \in Steps /\ campaign.channel = "email"
    BY DEF Away, Orderly, TInv, TypeOK
  <2>2. CASE run = 1
    BY <2>1, <2>2 DEF FirstInv, OneRun, RowsInv
  <2>3. CASE ProgressRule = "time_based" /\ edited = {}
    BY <2>1, <2>3 DEF LaterInv, LaterRows
  <2> QED
    BY <2>2, <2>3 DEF Orderly
<1> QED
  BY <1>1, FirstInvariant, LaterInvariant, PTL

\* A stale evaluation never takes an enrollment back to an earlier step.
THEOREM MovesForward == Spec => NeverMovesBack
<1>1. ASSUME TInv, Away, FirstInv, LaterInv, [Next]_vars PROVE [Orderly /\ run' = run => current' >= current]_vars
  <2> SUFFICES ASSUME Orderly, run' = run PROVE current' >= current
    OBVIOUS
  <2>1. current \in Nat /\ current >= current
    BY <1>1 DEF TInv, TypeOK, Steps
  <2>2. ASSUME NEW e \in Evaluators, CompleteCurrentStep(e) PROVE current' >= current
    <3>0. campaign.channel = "email"
      BY DEF Orderly
    <3>1. CASE ProgressRule = "time_based" /\ edited = {}
      BY <1>1, <2>2, <3>0, <3>1, CompleteLater DEF LaterInv
    <3>2. CASE run = 1 /\ restart = {}
      BY <1>1, <2>1, <2>2, <3>0, <3>2 DEF CompleteCurrentStep, FirstInv, OneRun, ReadInv, TInv, TypeOK, SnapInv, Steps
    <3>3. CASE restart # {}
      BY <1>1, <2>1, <2>2, <3>3 DEF CompleteCurrentStep, Away, TInv, SnapInv
    <3> QED
      BY <3>1, <3>2, <3>3 DEF Orderly
  <2>3. CASE FinishRestart
    BY <1>1, <2>3 DEF FinishRestart, TInv, TypeOK
  <2>4. CASE UNCHANGED current
    BY <2>1, <2>4
  <2> QED
    BY <1>1, <2>2, <2>3, <2>4 DEF Next, Evaluate, ReadEnrollment, ReadStates, ReadEvents,
       EvaluationFails, HandleTwilioReply, HandleTelegram, TakeReply, RecordReply, Send, HandleLinkClick, Schedule, Prepare, SendFails,
       Evict, EditStep, Unsubscribe, BeginRestart, SetStatus, vars
<1> QED
  BY <1>1, FirstInvariant, LaterInvariant, PTL DEF Spec, NeverMovesBack

=============================================================================
