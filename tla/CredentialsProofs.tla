------------------------- MODULE CredentialsProofs -------------------------
(***************************************************************************)
(* Proofs about Credentials: its types, what a verified credential is      *)
(* worth, and what the page shows of the calls it has under way, for any   *)
(* providers, configurations, calls and test jobs.                         *)
(***************************************************************************)
EXTENDS Credentials, FiniteSetTheorems, TLAPS

USE CredentialAssumptions

\* The calls under way are some of those there are.
LEMMA RequestTypes ==
  /\ Idle \in Requests
  /\ \A p \in Providers, form \in Forms, c \in Read :
       [kind |-> "save", for |-> p, seen |-> TRUE, form |-> form, read |-> c] \in Requests
  /\ \A p \in Providers : [kind |-> "test", for |-> p, seen |-> TRUE] \in Requests
  /\ \A p \in Providers, j \in Jobs, n \in 1..MaxPolls :
       [kind |-> "poll", for |-> p, seen |-> TRUE, job |-> j, left |-> n] \in Requests
BY DEF Requests

\* What the calls carry.
LEMMA RequestFields ==
  ASSUME NEW c \in Requests
  PROVE  /\ c.kind \in {"idle", "save", "test", "poll"} /\ (c.kind = "idle" <=> c = Idle)
         /\ c.kind \in {"save", "test", "poll"} => c.for \in Providers /\ c.seen \in BOOLEAN
         /\ c.kind = "save" => c.form \in Forms /\ c.read \in Read
         /\ c.kind = "poll" => c.job \in Jobs /\ c.left \in 1..MaxPolls
         /\ c.kind \in {"save", "test"} => [c EXCEPT !.seen = FALSE] \in Requests
         /\ c.kind = "poll" => \A n \in 1..MaxPolls : [c EXCEPT !.left = n] \in Requests
<1>1. CASE c = Idle
  BY <1>1 DEF Idle
<1>2. CASE c \in [kind : {"save"}, for : Providers, seen : BOOLEAN, form : Forms, read : Read]
  <2>1. [c EXCEPT !.seen = FALSE] \in [kind : {"save"}, for : Providers, seen : BOOLEAN, form : Forms, read : Read]
    BY <1>2
  <2> QED
    BY <1>2, <2>1 DEF Requests, Idle
<1>3. CASE c \in [kind : {"test"}, for : Providers, seen : BOOLEAN]
  <2>1. [c EXCEPT !.seen = FALSE] \in [kind : {"test"}, for : Providers, seen : BOOLEAN]
    BY <1>3
  <2> QED
    BY <1>3, <2>1 DEF Requests, Idle
<1>4. CASE c \in [kind : {"poll"}, for : Providers, seen : BOOLEAN, job : Jobs, left : 1..MaxPolls]
  <2>1. \A n \in 1..MaxPolls :
          [c EXCEPT !.left = n] \in [kind : {"poll"}, for : Providers, seen : BOOLEAN, job : Jobs, left : 1..MaxPolls]
    BY <1>4
  <2> QED
    BY <1>4, <2>1 DEF Requests, Idle
<1> QED
  BY <1>1, <1>2, <1>3, <1>4 DEF Requests

\* What the test jobs carry, and what may become of them.
LEMMA JobFields ==
  ASSUME NEW j \in TestJobs, j.state \in {"waiting", "active", "accepted", "refused", "completed", "failed"}
  PROVE  /\ j.for \in Providers /\ j.read \in Read /\ j.stalled \in BOOLEAN
         /\ \A state \in {"waiting", "active", "accepted", "refused", "completed", "failed"} :
              /\ [j EXCEPT !.state = state] \in TestJobs
              /\ [j EXCEPT !.state = state, !.stalled = TRUE] \in TestJobs
              /\ \A c \in Read : [j EXCEPT !.state = state, !.read = c] \in TestJobs
<1> DEFINE States == {"waiting", "active", "accepted", "refused", "completed", "failed"}
           Known == [for : Providers, state : States, read : Read, stalled : BOOLEAN]
<1>1. j \in Known
  BY DEF TestJobs, NoJob
<1>2. j.for \in Providers /\ j.read \in Read /\ j.stalled \in BOOLEAN
  BY <1>1
<1>3. ASSUME NEW state \in States, NEW c \in Read
      PROVE  /\ [j EXCEPT !.state = state] \in Known
             /\ [j EXCEPT !.state = state, !.stalled = TRUE] \in Known
             /\ [j EXCEPT !.state = state, !.read = c] \in Known
  BY <1>1
<1>4. NoConfig \in Read /\ Known \subseteq TestJobs
  BY DEF Read, TestJobs
<1> HIDE DEF Known
<1> QED
  BY <1>2, <1>3, <1>4

\* A merged form that is valid is a configuration.
LEMMA MergedType ==
  ASSUME NEW form \in Forms, NEW stored \in Read, Valid(Merged(form, stored))
  PROVE  Merged(form, stored) \in Configs
<1>1. \A f \in Fields : Merged(form, stored)[f] \in Values
  BY DEF Merged, Valid, Forms, Configs, Read
<1>2. Merged(form, stored) = [f \in Fields |-> Merged(form, stored)[f]]
  BY DEF Merged
<1> QED
  BY <1>1, <1>2 DEF Configs

\* Nothing is stored and nothing is under way at first.
LEMMA TypeInit == Init => TypeOK
<1> SUFFICES ASSUME Init PROVE TypeOK
  OBVIOUS
<1>1. /\ config \in [Providers -> Read] /\ status \in [Providers -> {"none", "configured", "verified", "failed"}]
      /\ \A p \in Providers : config[p] = NoConfig /\ status[p] = "none"
  BY DEF Init, Read
<1>2. job \in [Jobs -> TestJobs] /\ call \in [Calls -> Requests]
  BY RequestTypes DEF Init, TestJobs
<1>3. /\ pending = Nobody /\ testing = {} /\ notice \in [Providers -> {"none", "waiting", "success", "problem"}]
      /\ accepted \in [Providers -> SUBSET Configs] /\ overlapped = {} /\ saves \in 0..MaxSaves
  BY DEF Init
<1>4. mixed \in BOOLEAN
  BY Zenon DEF Init
<1> QED
  BY <1>1, <1>2, <1>3, <1>4 DEF TypeOK

\* A save keeps the types, whoever it is from.
LEMMA UpsertType ==
  ASSUME TypeOK, NEW p \in Providers, NEW c \in Configs, Upsert(p, c)
  PROVE  /\ config' \in [Providers -> Read]
         /\ status' \in [Providers -> {"none", "configured", "verified", "failed"}]
         /\ \A q \in Providers : config'[q] = NoConfig <=> status'[q] = "none"
         /\ overlapped' \subseteq Providers
BY DEF TypeOK, Upsert, Read

\* So does an answer.
LEMMA FinishType ==
  ASSUME TypeOK, NEW k \in Calls, call[k].for \in Providers, NEW said \in {"waiting", "success", "problem"},
         NEW poll \in Requests, Finish(k, said, poll)
  PROVE  /\ call' \in [Calls -> Requests] /\ pending' \in Providers \cup {Nobody} /\ testing' \subseteq Providers
         /\ notice' \in [Providers -> {"none", "waiting", "success", "problem"}]
BY DEF TypeOK, Finish

\* Every step keeps the types.
LEMMA TypeStep == TypeOK /\ [Next]_vars => TypeOK'
<1> SUFFICES ASSUME TypeOK, [Next]_vars PROVE TypeOK'
  OBVIOUS
<1> USE DEF store, page, history
<1>1. ASSUME NEW k \in Calls, Saved(k) PROVE TypeOK'
  <2> DEFINE c == Merged(call[k].form, call[k].read)
  <2>1. call[k].for \in Providers /\ call[k].form \in Forms /\ call[k].read \in Read
    BY <1>1, RequestFields DEF Saved, TypeOK
  <2>2. Valid(c) => c \in Configs
    BY <2>1, MergedType
  <2>3. PICK said \in {"success", "problem"} : Finish(k, said, Idle)
    BY <1>1 DEF Saved
  <2>4. /\ call' \in [Calls -> Requests] /\ pending' \in Providers \cup {Nobody} /\ testing' \subseteq Providers
        /\ notice' \in [Providers -> {"none", "waiting", "success", "problem"}]
    BY <2>1, <2>3, FinishType, RequestTypes
  <2>5. (Valid(c) /\ Upsert(call[k].for, c)) \/ UNCHANGED <<config, status, overlapped>>
    BY <1>1 DEF Saved
  <2> HIDE DEF c
  <2> QED
    BY <1>1, <2>1, <2>2, <2>4, <2>5, UpsertType DEF Saved, TypeOK
<1>2. ASSUME NEW k \in Calls, TestQueued(k) PROVE TypeOK'
  <2>1. call[k].for \in Providers /\ call[k].seen \in BOOLEAN
    BY <1>2, RequestFields DEF TestQueued, TypeOK
  <2>2. job' \in [Jobs -> TestJobs]
    <3>1. [for |-> call[k].for, state |-> "waiting", read |-> NoConfig, stalled |-> FALSE] \in TestJobs
      BY <2>1 DEF TestJobs, Read
    <3> QED
      BY <1>2, <3>1 DEF TestQueued, Queue, TypeOK
  <2>3. \E said \in {"waiting", "problem"} : \E poll \in Requests : Finish(k, said, poll)
    <3>1. MaxPolls \in 1..MaxPolls
      OBVIOUS
    <3>2. \A j \in Jobs : (IF call[k].seen
                           THEN [kind |-> "poll", for |-> call[k].for, seen |-> TRUE, job |-> j, left |-> MaxPolls]
                           ELSE Idle) \in Requests
      BY <2>1, <3>1, RequestTypes
    <3> QED
      BY <1>2, <3>2, RequestTypes DEF TestQueued
  <2>4. /\ call' \in [Calls -> Requests] /\ pending' \in Providers \cup {Nobody} /\ testing' \subseteq Providers
        /\ notice' \in [Providers -> {"none", "waiting", "success", "problem"}]
    BY <2>1, <2>3, FinishType
  <2> QED
    BY <1>2, <2>2, <2>4 DEF TestQueued, TypeOK
<1>3. ASSUME NEW k \in Calls, Poll(k) PROVE TypeOK'
  <2>1. call[k].for \in Providers /\ call[k].left \in 1..MaxPolls
    BY <1>3, RequestFields DEF Poll, TypeOK
  <2>2. ASSUME NEW said \in {"success", "problem"}, PollEnds(k, said) PROVE TypeOK'
    BY <1>3, <2>1, <2>2, RequestTypes DEF Poll, PollEnds, TypeOK
  <2>3. ASSUME call[k].left > 1, call' = [call EXCEPT ![k].left = @ - 1], UNCHANGED <<notice, testing>> PROVE TypeOK'
    <3>1. call[k].left - 1 \in 1..MaxPolls
      BY <2>1, <2>3
    <3>2. [call[k] EXCEPT !.left = call[k].left - 1] \in Requests
      BY <1>3, <3>1, RequestFields DEF Poll, TypeOK
    <3>3. call' = [call EXCEPT ![k] = [call[k] EXCEPT !.left = call[k].left - 1]]
      BY <2>3
    <3> QED
      BY <1>3, <2>3, <3>2, <3>3 DEF Poll, TypeOK
  <2> QED
    BY <1>3, <2>2, <2>3 DEF Poll
<1>4. ASSUME NEW k \in Calls, NEW p \in Providers, Test(k, p) PROVE TypeOK'
  BY <1>4, RequestTypes DEF Test, Begin, TypeOK
<1>5. ASSUME NEW k \in Calls, NEW p \in Providers, NEW form \in Forms, Save(k, p, form) PROVE TypeOK'
  BY <1>5, RequestTypes DEF Save, Begin, TypeOK
<1>6. ASSUME NEW p \in Providers, NEW form \in Forms, SaveElsewhere(p, form) PROVE TypeOK'
  BY <1>6, MergedType, UpsertType DEF SaveElsewhere, TypeOK
<1>7. ASSUME NEW j \in Jobs, GetConfig(j) \/ ProviderAccepts(j) \/ TestFails(j) \/ TestEnds(j) \/ WorkerDies(j)
      PROVE  TypeOK'
  <2>1. job[j] \in TestJobs /\ job[j].state \in {"waiting", "active", "accepted", "refused", "completed", "failed"}
    BY <1>7 DEF GetConfig, ProviderAccepts, TestFails, TestEnds, WorkerDies, TypeOK
  <2>2. job[j].for \in Providers
    BY <2>1, JobFields
  <2>3. CASE GetConfig(j)
    BY <2>1, <2>2, <2>3, JobFields DEF GetConfig, TypeOK
  <2>4. CASE ProviderAccepts(j)
    BY <2>1, <2>2, <2>4, JobFields DEF ProviderAccepts, SetJob, TypeOK
  <2>5. CASE TestFails(j)
    BY <2>1, <2>5, JobFields DEF TestFails, SetJob, TypeOK
  <2>6. CASE TestEnds(j)
    BY <2>1, <2>2, <2>6, JobFields DEF TestEnds, MarkTested, SetJob, TypeOK
  <2>7. CASE WorkerDies(j)
    BY <2>1, <2>7, JobFields DEF WorkerDies, TypeOK
  <2> QED
    BY <1>7, <2>3, <2>4, <2>5, <2>6, <2>7
<1>8. CASE Reload
  BY <1>8, RequestTypes, RequestFields DEF Reload, TypeOK
<1>9. CASE UNCHANGED vars
  BY <1>9 DEF vars, TypeOK
<1>10. CASE Next
  BY <1>1, <1>2, <1>3, <1>4, <1>5, <1>6, <1>7, <1>8, <1>10 DEF Next, Answers
<1> QED
  BY <1>9, <1>10

\* Every variable keeps its type, and a provider has a status just when it has a configuration.
THEOREM Typing == Spec => []TypeOK
BY TypeInit, TypeStep, PTL DEF Spec

----------------------------------------------------------------------------
(* Verdicts.  A test that has read a configuration has read the one that is  *)
(* stored, unless a save has come between, and what it says is accepted has  *)
(* been.                                                                     *)

Testing(j) == job[j].state \in {"active", "accepted", "refused"}

VerdictInv ==
  /\ VerifiedUnlessOverlapped
  /\ \A j \in Jobs : job[j].state = "accepted" => job[j].read \in accepted[job[j].for]
  /\ \A j \in Jobs : Testing(j) => job[j].read = config[job[j].for] \/ job[j].for \in overlapped

\* A save takes the verdict back and is remembered by the tests under way.
LEMMA UpsertVerdict ==
  ASSUME TypeOK, VerdictInv, NEW p \in Providers, NEW c \in Configs, Upsert(p, c), UNCHANGED <<job, accepted>>
  PROVE  VerdictInv'
<1> USE DEF VerdictInv, VerifiedUnlessOverlapped, Testing
<1>1. \A q \in Providers : q # p => config'[q] = config[q] /\ status'[q] = status[q]
  BY DEF Upsert, TypeOK
<1>2. status'[p] = "configured" /\ overlapped \subseteq overlapped'
  BY DEF Upsert, TypeOK
<1>3. ASSUME NEW j \in Jobs, Testing(j), job[j].for = p PROVE p \in overlapped'
  BY <1>3 DEF Upsert, UnderTest, NoJob
<1>4. \A j \in Jobs : Testing(j) => job[j].for \in Providers
  BY JobFields DEF TypeOK
<1> QED
  BY <1>1, <1>2, <1>3, <1>4

\* Every step keeps verdicts about what was tested.
LEMMA VerdictStep == TypeOK /\ VerdictInv /\ [Next]_vars => VerdictInv'
<1> SUFFICES ASSUME TypeOK, VerdictInv, [Next]_vars PROVE VerdictInv'
  OBVIOUS
<1> USE DEF store, page, history
<1>1. ASSUME UNCHANGED <<config, status, job, accepted, overlapped>> PROVE VerdictInv'
  BY <1>1 DEF VerdictInv, VerifiedUnlessOverlapped, Testing
<1>2. ASSUME NEW k \in Calls, Saved(k) PROVE VerdictInv'
  <2> DEFINE c == Merged(call[k].form, call[k].read)
  <2>1. call[k].for \in Providers /\ (Valid(c) => c \in Configs)
    BY <1>2, RequestFields, MergedType DEF Saved, TypeOK
  <2>2. (Valid(c) /\ Upsert(call[k].for, c)) \/ UNCHANGED <<config, status, overlapped>>
    BY <1>2 DEF Saved
  <2> HIDE DEF c
  <2> QED
    BY <1>1, <1>2, <2>1, <2>2, UpsertVerdict DEF Saved
<1>3. ASSUME NEW p \in Providers, NEW form \in Forms, SaveElsewhere(p, form) PROVE VerdictInv'
  BY <1>3, MergedType, UpsertVerdict DEF SaveElsewhere, TypeOK
<1>4. ASSUME NEW k \in Calls, TestQueued(k) PROVE VerdictInv'
  <2>1. \A j \in Jobs : job'[j] = job[j] \/ job'[j].state = "waiting"
    <3>1. ASSUME NEW i \in Jobs, NEW p,
                 job' = [job EXCEPT ![i] = [for |-> p, state |-> "waiting", read |-> NoConfig, stalled |-> FALSE]]
          PROVE  \A j \in Jobs : job'[j] = job[j] \/ job'[j].state = "waiting"
      BY <3>1 DEF TypeOK
    <3>2. \/ UNCHANGED job
          \/ \E i \in Jobs : job' = [job EXCEPT ![i] =
               [for |-> call[k].for, state |-> "waiting", read |-> NoConfig, stalled |-> FALSE]]
      BY <1>4 DEF TestQueued, Queue
    <3> QED
      BY <3>1, <3>2
  <2> QED
    BY <1>4, <2>1 DEF TestQueued, VerdictInv, VerifiedUnlessOverlapped, Testing
<1>5. ASSUME NEW k \in Calls, Poll(k) PROVE VerdictInv'
  BY <1>1, <1>5 DEF Poll
<1>6. ASSUME NEW k \in Calls, NEW p \in Providers, Test(k, p) \/ \E form \in Forms : Save(k, p, form) PROVE VerdictInv'
  BY <1>1, <1>6 DEF Test, Save
<1>7. ASSUME NEW j \in Jobs, GetConfig(j) \/ ProviderAccepts(j) \/ TestFails(j) \/ TestEnds(j) \/ WorkerDies(j)
      PROVE  VerdictInv'
  <2> USE DEF VerdictInv, VerifiedUnlessOverlapped, Testing
  <2>1. job[j] \in TestJobs /\ job[j].state \in {"waiting", "active", "accepted", "refused", "completed", "failed"}
    BY <1>7 DEF GetConfig, ProviderAccepts, TestFails, TestEnds, WorkerDies, TypeOK
  <2>2. job[j].for \in Providers /\ \A i \in Jobs : i # j => job'[i] = job[i]
    BY <1>7, <2>1, JobFields DEF GetConfig, ProviderAccepts, TestFails, TestEnds, WorkerDies, SetJob, TypeOK
  <2>3. CASE GetConfig(j)
    <3>1. job'[j].for = job[j].for /\ job'[j].read = config[job[j].for] /\ job'[j].state # "accepted"
      <4>1. job[j] \in [for : Providers, state : {"waiting", "active", "accepted", "refused", "completed", "failed"},
                        read : Read, stalled : BOOLEAN]
        BY <2>1 DEF TestJobs, NoJob
      <4>2. \E state \in {"refused", "active"} :
              job' = [job EXCEPT ![j].state = state, ![j].read = config[job[j].for]]
        BY <2>3 DEF GetConfig
      <4> QED
        BY <4>1, <4>2 DEF TypeOK
    <3>2. UNCHANGED <<config, status, accepted, overlapped>>
      BY <2>3 DEF GetConfig
    <3> QED
      BY <2>2, <3>1, <3>2
  <2>4. CASE ProviderAccepts(j)
    <3>1. job'[j].for = job[j].for /\ job'[j].read = job[j].read /\ job[j].state = "active"
      BY <2>1, <2>4 DEF ProviderAccepts, SetJob, TypeOK, TestJobs, NoJob
    <3>2. \A p \in Providers : accepted[p] \subseteq accepted'[p]
      BY <2>2, <2>4 DEF ProviderAccepts, TypeOK
    <3>3. job[j].read \in accepted'[job[j].for]
      BY <2>2, <2>4 DEF ProviderAccepts, TypeOK
    <3>4. \A i \in Jobs : job[i].state = "accepted" => job[i].for \in Providers
      BY JobFields DEF TypeOK
    <3> QED
      BY <2>2, <2>4, <3>1, <3>2, <3>3, <3>4 DEF ProviderAccepts
  <2>5. CASE TestFails(j)
    <3>1. job'[j].for = job[j].for /\ job'[j].read = job[j].read /\ job'[j].state = "refused" /\ Testing(j)
      BY <2>1, <2>5 DEF TestFails, SetJob, TypeOK, TestJobs, NoJob
    <3> QED
      BY <2>2, <2>5, <3>1 DEF TestFails
  <2>6. CASE TestEnds(j)
    <3>1. job'[j].state \notin {"active", "accepted", "refused"}
      BY <2>1, <2>6 DEF TestEnds, SetJob, TypeOK, TestJobs, NoJob
    <3>2. \A p \in Providers : p # job[j].for => status'[p] = status[p]
      BY <2>6 DEF TestEnds, MarkTested, TypeOK
    <3>3. status'[job[j].for] = "verified" => job[j].state = "accepted" \/ status'[job[j].for] = status[job[j].for]
      BY <2>2, <2>6 DEF TestEnds, MarkTested, TypeOK
    <3> QED
      BY <2>2, <2>6, <3>1, <3>2, <3>3 DEF TestEnds
  <2>7. CASE WorkerDies(j)
    <3>1. job'[j].state \notin {"active", "accepted", "refused"}
      <4>1. job[j] \in [for : Providers, state : {"waiting", "active", "accepted", "refused", "completed", "failed"},
                        read : Read, stalled : BOOLEAN]
        BY <2>1 DEF TestJobs, NoJob
      <4>2. \E state \in {"failed", "waiting"} : job' = [job EXCEPT ![j].state = state, ![j].stalled = TRUE]
        BY <2>7 DEF WorkerDies
      <4> QED
        BY <4>1, <4>2 DEF TypeOK
    <3>2. UNCHANGED <<config, status, accepted, overlapped>>
      BY <2>7 DEF WorkerDies
    <3> QED
      BY <2>2, <3>1, <3>2
  <2> QED
    BY <1>7, <2>3, <2>4, <2>5, <2>6, <2>7
<1>8. CASE Reload \/ UNCHANGED vars
  BY <1>1, <1>8 DEF Reload, vars
<1>9. CASE Next
  BY <1>2, <1>3, <1>4, <1>5, <1>6, <1>7, <1>8, <1>9 DEF Next, Answers
<1> QED
  BY <1>8, <1>9

\* A verified credential is one that the provider accepted, or one that was saved while a
\* test was under way, whatever tests, saves and deaths of the worker overlap.
THEOREM Verified == Spec => []VerifiedUnlessOverlapped
<1>1. Init => VerdictInv
  BY DEF Init, VerdictInv, VerifiedUnlessOverlapped, Testing, NoJob
<1>2. VerdictInv => VerifiedUnlessOverlapped
  BY DEF VerdictInv
<1> QED
  BY <1>1, <1>2, TypeInit, TypeStep, VerdictStep, PTL DEF Spec

----------------------------------------------------------------------------
(* The page.  While the calls of different providers do not overlap, pending *)
(* names the provider of the save or test under way, and testing those that  *)
(* are polled for; so a provider's buttons are disabled as long as anything  *)
(* of it is under way.                                                       *)

Live(k) == call[k] # Idle /\ call[k].seen

PageInv ==
  /\ \A k \in Calls : call[k].kind = "poll" => call[k].seen
  /\ ~mixed =>
       /\ \A k \in Calls : Live(k) /\ call[k].kind \in {"save", "test"} => pending = call[k].for
       /\ \A k \in Calls : call[k].kind = "poll" => call[k].for \in testing
       /\ \A k, l \in Calls : Live(k) /\ Live(l) /\ call[k].for = call[l].for => k = l

\* A button pressed while nothing of its provider is under way begins its only call.
LEMMA BeginPage ==
  ASSUME TypeOK, PageInv, NEW k \in Calls, NEW p \in Providers, Enabled(p), UNCHANGED testing,
         NEW request \in Requests, request.kind \in {"save", "test"}, request.for = p, request.seen,
         Begin(k, p, request)
  PROVE  PageInv'
<1> USE DEF PageInv, Live
<1>1. call'[k] = request /\ \A j \in Calls : j # k => call'[j] = call[j]
  BY DEF Begin, TypeOK
<1>2. request # Idle
  BY DEF Idle
<1>3. \A j \in Calls : call[j] # Idle => call[j].for \in Providers /\ call[j].kind \in {"save", "test", "poll"}
  BY RequestFields DEF TypeOK
<1>4. ~mixed' => ~mixed /\ pending = Nobody
  BY DEF Begin, Enabled, TypeOK
<1>5. ~mixed' => \A j \in Calls : Live(j) => call[j].kind = "poll" /\ call[j].for # p
  BY <1>3, <1>4 DEF Enabled
<1>6. pending' = p
  BY DEF Begin
<1>7. \A j \in Calls : call'[j].kind = "poll" => call'[j].seen
  BY <1>1
<1>8. ASSUME ~mixed', NEW j \in Calls, Live(j)', call'[j].kind \in {"save", "test"} PROVE pending' = call'[j].for
  BY <1>1, <1>5, <1>6, <1>8
<1>9. ASSUME ~mixed', NEW j \in Calls, call'[j].kind = "poll" PROVE call'[j].for \in testing'
  BY <1>1, <1>4, <1>9
<1>10. ASSUME ~mixed', NEW i \in Calls, NEW j \in Calls, Live(i)', Live(j)', call'[i].for = call'[j].for PROVE i = j
  BY <1>1, <1>4, <1>5, <1>10
<1> QED
  BY <1>7, <1>8, <1>9, <1>10

\* An answer ends its call, or puts its poll in its place.
LEMMA FinishPage ==
  ASSUME TypeOK, PageInv, NEW k \in Calls, call[k].kind \in {"save", "test"}, NEW said, NEW poll \in Requests,
         \/ poll = Idle
         \/ call[k].seen /\ poll.kind = "poll" /\ poll.for = call[k].for /\ poll.seen,
         Finish(k, said, poll), UNCHANGED mixed
  PROVE  PageInv'
<1> USE DEF PageInv, Live
<1>1. call'[k] = poll /\ \A j \in Calls : j # k => call'[j] = call[j]
  BY DEF Finish, TypeOK
<1>2. call[k] # Idle /\ Idle.kind = "idle"
  BY DEF Idle
<1>3. testing \subseteq testing' /\ (poll # Idle => call[k].for \in testing')
  BY DEF Finish
<1>4. ~call[k].seen => pending' = pending
  BY DEF Finish
<1>5. \A j \in Calls : call'[j].kind = "poll" => call'[j].seen
  BY <1>1, <1>2
<1>6. ASSUME ~mixed', NEW j \in Calls, Live(j)', call'[j].kind \in {"save", "test"} PROVE pending' = call'[j].for
  <2>1. j # k /\ call'[j] = call[j] /\ pending = call[j].for
    BY <1>1, <1>2, <1>6
  <2>2. ~call[k].seen
    BY <1>2, <1>6, <2>1
  <2> QED
    BY <1>4, <2>1, <2>2
<1>7. ASSUME ~mixed', NEW j \in Calls, call'[j].kind = "poll" PROVE call'[j].for \in testing'
  BY <1>1, <1>2, <1>3, <1>7
<1>8. ASSUME ~mixed', NEW i \in Calls, NEW j \in Calls, Live(i)', Live(j)', call'[i].for = call'[j].for PROVE i = j
  BY <1>1, <1>2, <1>8
<1> QED
  BY <1>5, <1>6, <1>7, <1>8

\* Every step keeps what the page shows and what is under way together.
LEMMA PageStep == TypeOK /\ PageInv /\ [Next]_vars => PageInv'
<1> SUFFICES ASSUME TypeOK, PageInv, [Next]_vars PROVE PageInv'
  OBVIOUS
<1> USE DEF store, page, history
<1>1. ASSUME UNCHANGED <<call, pending, testing, mixed>> PROVE PageInv'
  BY <1>1 DEF PageInv, Live
<1>2. ASSUME NEW k \in Calls, Saved(k) PROVE PageInv'
  BY <1>2, FinishPage, RequestTypes DEF Saved
<1>3. ASSUME NEW k \in Calls, TestQueued(k) PROVE PageInv'
  <2> DEFINE poll(j) == [kind |-> "poll", for |-> call[k].for, seen |-> TRUE, job |-> j, left |-> MaxPolls]
  <2>1. call[k].kind = "test" /\ call[k].for \in Providers /\ MaxPolls \in 1..MaxPolls /\ UNCHANGED mixed
    <3>1. call[k].kind = "test" /\ UNCHANGED mixed
      BY <1>3 DEF TestQueued
    <3>2. call[k].for \in Providers
      BY <3>1, RequestFields DEF TypeOK
    <3>3. MaxPolls \in 1..MaxPolls
      OBVIOUS
    <3> QED
      BY <3>1, <3>2, <3>3
  <2>2. \A j \in Jobs : poll(j) \in Requests /\ poll(j).kind = "poll" /\ poll(j).for = call[k].for /\ poll(j).seen
    BY <2>1, RequestTypes
  <2>3. (\E j \in Jobs : Finish(k, "waiting", IF call[k].seen THEN poll(j) ELSE Idle)) \/ Finish(k, "problem", Idle)
    BY <1>3 DEF TestQueued
  <2> HIDE DEF poll
  <2> QED
    BY <2>1, <2>2, <2>3, FinishPage, RequestTypes
<1>4. ASSUME NEW k \in Calls, Poll(k) PROVE PageInv'
  <2>1. /\ call[k].kind = "poll" /\ call[k].for \in Providers /\ call[k] # Idle /\ Idle.kind = "idle"
        /\ UNCHANGED <<pending, mixed>>
    BY <1>4, RequestFields DEF Poll, TypeOK, Idle
  <2>2. ASSUME NEW said \in {"success", "problem"}, PollEnds(k, said) PROVE PageInv'
    <3>1. call'[k] = Idle /\ \A j \in Calls : j # k => call'[j] = call[j]
      BY <2>2 DEF PollEnds, TypeOK
    <3>2. testing' = testing \ {call[k].for}
      BY <2>2 DEF PollEnds
    <3>3. \A j \in Calls : call[j].kind = "poll" => Live(j)
      BY DEF PageInv, Live, Idle
    <3> QED
      BY <2>1, <3>1, <3>2, <3>3 DEF PageInv, Live
  <2>3. ASSUME call' = [call EXCEPT ![k].left = @ - 1], UNCHANGED <<notice, testing>> PROVE PageInv'
    <3>1. /\ call'[k].kind = "poll" /\ call'[k].for = call[k].for /\ call'[k].seen = call[k].seen
          /\ \A j \in Calls : j # k => call'[j] = call[j]
      <4>1. call[k] \in [kind : {"poll"}, for : Providers, seen : BOOLEAN, job : Jobs, left : 1..MaxPolls]
        BY <2>1 DEF TypeOK, Requests, Idle
      <4> QED
        BY <2>1, <2>3, <4>1 DEF TypeOK
    <3> QED
      BY <2>1, <2>3, <3>1 DEF PageInv, Live, Idle
  <2> QED
    BY <1>4, <2>2, <2>3 DEF Poll
<1>5. ASSUME NEW k \in Calls, NEW p \in Providers, Test(k, p) PROVE PageInv'
  BY <1>5, BeginPage, RequestTypes DEF Test
<1>6. ASSUME NEW k \in Calls, NEW p \in Providers, NEW form \in Forms, Save(k, p, form) PROVE PageInv'
  <2> DEFINE request == [kind |-> "save", for |-> p, seen |-> TRUE, form |-> form, read |-> config[p]]
  <2>1. request \in Requests /\ request.kind = "save" /\ request.for = p /\ request.seen
    BY RequestTypes DEF TypeOK
  <2>2. Enabled(p) /\ UNCHANGED testing /\ Begin(k, p, request)
    BY <1>6 DEF Save
  <2> HIDE DEF request
  <2> QED
    BY <2>1, <2>2, BeginPage
<1>7. ASSUME NEW p \in Providers, NEW form \in Forms, SaveElsewhere(p, form) PROVE PageInv'
  BY <1>1, <1>7 DEF SaveElsewhere
<1>8. ASSUME NEW j \in Jobs, GetConfig(j) \/ ProviderAccepts(j) \/ TestFails(j) \/ TestEnds(j) \/ WorkerDies(j)
      PROVE  PageInv'
  BY <1>1, <1>8 DEF GetConfig, ProviderAccepts, TestFails, TestEnds, WorkerDies
<1>9. CASE Reload
  <2>1. ASSUME NEW k \in Calls PROVE call'[k] = Idle \/ (call'[k].kind \in {"save", "test"} /\ ~call'[k].seen)
    <3>1. CASE call[k].kind \in {"save", "test"}
      <4>1. call'[k] = [call[k] EXCEPT !.seen = FALSE]
        BY <1>9, <3>1 DEF Reload
      <4>2. call[k] \in [kind : {"save"}, for : Providers, seen : BOOLEAN, form : Forms, read : Read]
                        \cup [kind : {"test"}, for : Providers, seen : BOOLEAN]
        BY <3>1 DEF TypeOK, Requests, Idle
      <4> QED
        BY <4>1, <4>2
    <3>2. CASE call[k].kind \notin {"save", "test"}
      BY <1>9, <3>2 DEF Reload
    <3> QED
      BY <3>1, <3>2
  <2> QED
    BY <2>1 DEF PageInv, Live, Idle
<1>10. CASE UNCHANGED vars
  BY <1>1, <1>10 DEF vars
<1>11. CASE Next
  BY <1>2, <1>3, <1>4, <1>5, <1>6, <1>7, <1>8, <1>9, <1>11 DEF Next, Answers
<1> QED
  BY <1>10, <1>11

\* A page whose calls for different providers do not overlap has one call for a provider at most.
THEOREM OneCall == Spec => []OneCallPerProvider
<1>1. Init => PageInv
  BY DEF Init, PageInv, Live, Idle
<1>2. PageInv => OneCallPerProvider
  <2> SUFFICES ASSUME PageInv, ~mixed, NEW p \in Providers PROVE Cardinality(Busy(p)) <= 1
    BY DEF OneCallPerProvider
  <2>1. \A k, l \in Busy(p) : k = l
    BY DEF Busy, PageInv, Live
  <2>2. CASE Busy(p) = {}
    BY <2>2, FS_EmptySet
  <2>3. ASSUME NEW k \in Busy(p) PROVE Cardinality(Busy(p)) <= 1
    <3>1. Busy(p) = {k}
      BY <2>1, <2>3
    <3>2. Cardinality({k}) = 1
      BY FS_Singleton
    <3> QED
      BY <3>1, <3>2
  <2> QED
    BY <2>2, <2>3
<1> QED
  BY <1>1, <1>2, TypeInit, TypeStep, PageStep, PTL DEF Spec

----------------------------------------------------------------------------
(* The notice.                                                              *)

\* A poll that is still the same keeps what waits for it watched.
LEMMA WatchedStays ==
  ASSUME WaitingIsWatched,
         \A p \in Providers : notice'[p] = "waiting" =>
           notice[p] = "waiting" /\ \A k \in Busy(p) : call[k].kind = "poll" => k \in Busy(p)' /\ call'[k].kind = "poll"
  PROVE  WaitingIsWatched'
BY DEF WaitingIsWatched

\* Every step keeps it watched.
LEMMA WatchedStep == TypeOK /\ WaitingIsWatched /\ [Next]_vars => WaitingIsWatched'
<1> SUFFICES ASSUME TypeOK, WaitingIsWatched, [Next]_vars PROVE WaitingIsWatched'
  OBVIOUS
<1> USE DEF store, page, history
<1>1. ASSUME NEW k \in Calls, call[k].kind # "poll", NEW said \in {"none", "success", "problem"},
             \A j \in Calls : j # k => call'[j] = call[j],
             notice' = notice \/ \E p \in Providers : notice' = [notice EXCEPT ![p] = said]
      PROVE  WaitingIsWatched'
  <2>1. \A p \in Providers : notice'[p] = "waiting" => notice[p] = "waiting"
    BY <1>1 DEF TypeOK
  <2>2. \A p \in Providers : \A j \in Busy(p) : call[j].kind = "poll" => j \in Busy(p)' /\ call'[j].kind = "poll"
    BY <1>1 DEF Busy
  <2> QED
    BY <2>1, <2>2, WatchedStays
<1>2. ASSUME UNCHANGED <<call, notice>> PROVE WaitingIsWatched'
  BY <1>2 DEF WaitingIsWatched, Busy
<1>3. ASSUME NEW k \in Calls, NEW said \in {"success", "problem"}, call[k].kind \in {"save", "test"}, Finish(k, said, Idle)
      PROVE  WaitingIsWatched'
  <2>1. \A j \in Calls : j # k => call'[j] = call[j]
    BY <1>3 DEF Finish, TypeOK
  <2>2. call[k].for \in Providers
    BY <1>3, RequestFields DEF TypeOK
  <2>3. notice' = notice \/ notice' = [notice EXCEPT ![call[k].for] = said]
    BY <1>3 DEF Finish
  <2> QED
    BY <1>1, <1>3, <2>1, <2>2, <2>3
<1>4. ASSUME NEW k \in Calls, Saved(k) PROVE WaitingIsWatched'
  BY <1>3, <1>4 DEF Saved
<1>5. ASSUME NEW k \in Calls, TestQueued(k) PROVE WaitingIsWatched'
  <2> DEFINE p == call[k].for
             poll(j) == [kind |-> "poll", for |-> p, seen |-> TRUE, job |-> j, left |-> MaxPolls]
  <2>1. call[k].kind = "test" /\ p \in Providers /\ call[k].seen \in BOOLEAN
    <3>1. call[k].kind = "test"
      BY <1>5 DEF TestQueued
    <3> QED
      BY <3>1, RequestFields DEF TypeOK
  <2>2. (\E j \in Jobs : Finish(k, "waiting", IF call[k].seen THEN poll(j) ELSE Idle)) \/ Finish(k, "problem", Idle)
    BY <1>5 DEF TestQueued
  <2>3. ASSUME NEW j \in Jobs, call[k].seen, Finish(k, "waiting", poll(j)) PROVE WaitingIsWatched'
    <3>1. call'[k] = poll(j) /\ \A i \in Calls : i # k => call'[i] = call[i]
      BY <2>3 DEF Finish, TypeOK
    <3>2. notice' = [notice EXCEPT ![p] = "waiting"]
      BY <2>3 DEF Finish
    <3>3. \A q \in Providers : q = p => k \in Busy(q)' /\ call'[k].kind = "poll"
      BY <3>1 DEF Busy, Idle
    <3>4. ASSUME NEW q \in Providers, q # p, notice'[q] = "waiting" PROVE \E i \in Busy(q)' : call'[i].kind = "poll"
      <4>1. notice[q] = "waiting"
        BY <3>2, <3>4 DEF TypeOK
      <4>2. PICK i \in Busy(q) : call[i].kind = "poll"
        BY <4>1 DEF WaitingIsWatched
      <4>3. i # k /\ i \in Calls
        BY <2>1, <4>2 DEF Busy
      <4> QED
        BY <3>1, <4>2, <4>3 DEF Busy
    <3> HIDE DEF p, poll
    <3> QED
      BY <3>3, <3>4 DEF WaitingIsWatched
  <2>4. ASSUME ~call[k].seen, Finish(k, "waiting", Idle) PROVE WaitingIsWatched'
    <3>1. notice' = notice /\ \A i \in Calls : i # k => call'[i] = call[i]
      BY <2>4 DEF Finish, TypeOK
    <3> QED
      BY <1>1, <2>1, <3>1
  <2> HIDE DEF p, poll
  <2> QED
    BY <1>3, <2>1, <2>2, <2>3, <2>4
<1>6. ASSUME NEW k \in Calls, Poll(k) PROVE WaitingIsWatched'
  <2>1. call[k].for \in Providers /\ call[k].kind = "poll"
    <3>1. call[k].kind = "poll"
      BY <1>6 DEF Poll
    <3> QED
      BY <3>1, RequestFields DEF TypeOK
  <2>2. ASSUME NEW said \in {"success", "problem"}, PollEnds(k, said) PROVE WaitingIsWatched'
    <3>1. notice' = [notice EXCEPT ![call[k].for] = said] /\ \A i \in Calls : i # k => call'[i] = call[i]
      BY <2>2 DEF PollEnds, TypeOK
    <3>2. \A q \in Providers : notice'[q] = "waiting" => q # call[k].for /\ notice[q] = "waiting"
      BY <2>1, <3>1 DEF TypeOK
    <3>3. \A q \in Providers : \A i \in Busy(q) : q # call[k].for => i \in Busy(q)' /\ call'[i] = call[i]
      BY <3>1 DEF Busy
    <3> QED
      BY <3>2, <3>3, WatchedStays
  <2>3. ASSUME call' = [call EXCEPT ![k].left = @ - 1], UNCHANGED <<notice, testing>> PROVE WaitingIsWatched'
    <3>1. /\ call'[k].kind = "poll" /\ call'[k].for = call[k].for /\ call'[k].seen = call[k].seen
          /\ \A j \in Calls : j # k => call'[j] = call[j]
      <4>1. call[k] \in [kind : {"poll"}, for : Providers, seen : BOOLEAN, job : Jobs, left : 1..MaxPolls]
        BY <2>1 DEF TypeOK, Requests, Idle
      <4> QED
        BY <2>1, <2>3, <4>1 DEF TypeOK
    <3>2. \A q \in Providers : \A i \in Busy(q) : call[i].kind = "poll" => i \in Busy(q)' /\ call'[i].kind = "poll"
      BY <3>1 DEF Busy, Idle
    <3> QED
      BY <2>3, <3>2, WatchedStays
  <2> QED
    BY <1>6, <2>2, <2>3 DEF Poll
<1>7. ASSUME NEW k \in Calls, NEW p \in Providers, NEW request, Begin(k, p, request) PROVE WaitingIsWatched'
  <2>1. call[k].kind # "poll" /\ \A j \in Calls : j # k => call'[j] = call[j]
    BY <1>7 DEF Begin, Idle, TypeOK
  <2>2. notice' = [notice EXCEPT ![p] = "none"]
    BY <1>7 DEF Begin
  <2> QED
    BY <1>1, <2>1, <2>2
<1>8. ASSUME NEW k \in Calls, NEW p \in Providers, Test(k, p) \/ \E form \in Forms : Save(k, p, form)
      PROVE  WaitingIsWatched'
  BY <1>7, <1>8 DEF Test, Save
<1>9. ASSUME NEW p \in Providers, NEW form \in Forms, SaveElsewhere(p, form) PROVE WaitingIsWatched'
  BY <1>2, <1>9 DEF SaveElsewhere
<1>10. ASSUME NEW j \in Jobs, GetConfig(j) \/ ProviderAccepts(j) \/ TestFails(j) \/ TestEnds(j) \/ WorkerDies(j)
       PROVE  WaitingIsWatched'
  BY <1>2, <1>10 DEF GetConfig, ProviderAccepts, TestFails, TestEnds, WorkerDies
<1>11. CASE Reload
  BY <1>11 DEF Reload, WaitingIsWatched
<1>12. CASE UNCHANGED vars
  BY <1>2, <1>12 DEF vars
<1>13. CASE Next
  BY <1>4, <1>5, <1>6, <1>8, <1>9, <1>10, <1>11, <1>13 DEF Next, Answers
<1> QED
  BY <1>12, <1>13

\* As long as the page says that it waits for a provider's answer, a poll for it goes on.
THEOREM Watched == Spec => []WaitingIsWatched
<1>1. Init => WaitingIsWatched
  BY DEF Init, WaitingIsWatched
<1> QED
  BY <1>1, TypeInit, TypeStep, WatchedStep, PTL DEF Spec
=============================================================================
