---------------------------- MODULE Credentials ----------------------------
(***************************************************************************)
(* The provider credentials of one organization, with the page that saves  *)
(* and tests them (integrations.vue), the test jobs in the queue and the   *)
(* worker that runs them.  Saving reads the stored configuration, merges   *)
(* the form into it and writes; testing reads it, asks the provider and    *)
(* writes the verdict; any number of saves and tests overlap.              *)
(***************************************************************************)
EXTENDS Integers, FiniteSets

CONSTANTS
  Providers,
  Fields, Values, Blank, \* a configuration's fields; a form's field may be left blank
  Works,                 \* the configurations the provider accepts
  NoConfig, Nobody,
  Calls,                 \* concurrent calls of the page
  Jobs,                  \* bound: test jobs
  MaxSaves, MaxPolls     \* bounds: saves begun; the page polls 30 times

Configs == [Fields -> Values]
Forms == [Fields -> Values \cup {Blank}]

ASSUME CredentialAssumptions ==
  /\ Blank \notin Values /\ NoConfig \notin Configs /\ Nobody \notin Providers
  /\ Works \subseteq Configs
  /\ MaxSaves \in Nat /\ MaxPolls \in Nat \ {0}

VARIABLES
  config, status,  \* provider_credentials: the configuration, and its status
  job,             \* test jobs: for which provider, where they are, what they read
  call,            \* saves, tests and polls the page has under way
  pending,         \* the page: the one provider whose buttons are disabled meanwhile,
  testing,         \* the providers it is polling for, and what it says of each
  notice,
  accepted,        \* history: configurations the provider accepted
  overlapped,      \* history: providers whose configuration was saved during a test of it
  mixed,           \* history: has the page begun a call while another provider's was under way?
  saves            \* counter for the bound

store == <<config, status>>
page == <<call, pending, testing, notice>>
history == <<accepted, overlapped, mixed, saves>>
vars == <<store, job, page, history>>

Idle == [kind |-> "idle"]
NoJob == [state |-> "none"]

Read == Configs \cup {NoConfig}
TestJobs ==
  {NoJob} \cup [for : Providers, state : {"waiting", "active", "accepted", "refused", "completed", "failed"},
                read : Read, stalled : BOOLEAN]
Requests ==
  {Idle} \cup [kind : {"save"}, for : Providers, seen : BOOLEAN, form : Forms, read : Read]
    \cup [kind : {"test"}, for : Providers, seen : BOOLEAN]
    \cup [kind : {"poll"}, for : Providers, seen : BOOLEAN, job : Jobs, left : 1..MaxPolls]

TypeOK ==
  /\ config \in [Providers -> Read]
  /\ status \in [Providers -> {"none", "configured", "verified", "failed"}]
  /\ \A p \in Providers : config[p] = NoConfig <=> status[p] = "none"
  /\ job \in [Jobs -> TestJobs] /\ call \in [Calls -> Requests]
  /\ pending \in Providers \cup {Nobody} /\ testing \subseteq Providers
  /\ notice \in [Providers -> {"none", "waiting", "success", "problem"}]
  /\ accepted \in [Providers -> SUBSET Configs]
  /\ overlapped \subseteq Providers /\ mixed \in BOOLEAN /\ saves \in 0..MaxSaves

Init ==
  /\ config = [p \in Providers |-> NoConfig] /\ status = [p \in Providers |-> "none"]
  /\ job = [j \in Jobs |-> NoJob]
  /\ call = [k \in Calls |-> Idle]
  /\ pending = Nobody /\ testing = {} /\ notice = [p \in Providers |-> "none"]
  /\ accepted = [p \in Providers |-> {}]
  /\ overlapped = {} /\ mixed = FALSE /\ saves = 0

----------------------------------------------------------------------------
(* The store.                                                               *)

\* dtoToProviderConfig, for the required fields: what the form leaves blank is kept.  An optional
\* one may differ: a blank SMTP sender name clears the saved one.
Merged(form, stored) ==
  [f \in Fields |-> IF form[f] # Blank THEN form[f] ELSE IF stored = NoConfig THEN Blank ELSE stored[f]]

\* validateProviderConfig: every required field is there.
Valid(c) == \A f \in Fields : c[f] # Blank

UnderTest(p) == \E j \in Jobs : job[j] # NoJob /\ job[j].for = p /\ job[j].state \in {"active", "accepted", "refused"}

\* Defect: the new configuration keeps the old one's verdict.
UpsertKeepingStatus(p, c) ==
  /\ config' = [config EXCEPT ![p] = c]
  /\ status' = IF status[p] = "none" THEN [status EXCEPT ![p] = "configured"] ELSE status
  /\ overlapped' = IF UnderTest(p) THEN overlapped \cup {p} ELSE overlapped

\* A new configuration is not verified and has no error, whatever the old one had.
Upsert(p, c) ==
  /\ config' = [config EXCEPT ![p] = c]
  /\ status' = [status EXCEPT ![p] = "configured"]
  /\ overlapped' = IF UnderTest(p) THEN overlapped \cup {p} ELSE overlapped

\* The verdict goes to the row of the provider, whatever configuration it has by now.
MarkTested(p, ok) == status' = [status EXCEPT ![p] = IF ok THEN "verified" ELSE "failed"]

\* Another administrator's save.
SaveElsewhere(p, form) ==
  /\ saves < MaxSaves /\ saves' = saves + 1
  /\ Valid(Merged(form, config[p]))
  /\ Upsert(p, Merged(form, config[p]))
  /\ UNCHANGED <<job, page, accepted, mixed>>

----------------------------------------------------------------------------
(* The test job: one attempt, but a stalled job is run once more.           *)

SetJob(j, state) == job' = [job EXCEPT ![j].state = state]

GetConfig(j) ==
  /\ job[j].state = "waiting"
  /\ job' = [job EXCEPT ![j].state = IF config[job[j].for] = NoConfig THEN "refused" ELSE "active",
                        ![j].read = config[job[j].for]]
  /\ UNCHANGED <<store, page, history>>

ProviderAccepts(j) ==
  /\ job[j].state = "active" /\ job[j].read \in Works
  /\ SetJob(j, "accepted")
  /\ accepted' = [accepted EXCEPT ![job[j].for] = @ \cup {job[j].read}]
  /\ UNCHANGED <<store, page, overlapped, mixed, saves>>

\* The credentials are rejected, or the network fails; a failed write of the good verdict ends
\* in the same catch.
TestFails(j) ==
  /\ job[j].state \in {"active", "accepted"}
  /\ SetJob(j, "refused")
  /\ UNCHANGED <<store, page, history>>

TestEnds(j) ==
  /\ job[j].state \in {"accepted", "refused"}
  /\ IF config[job[j].for] = NoConfig THEN UNCHANGED status ELSE MarkTested(job[j].for, job[j].state = "accepted")
  /\ SetJob(j, IF job[j].state = "accepted" THEN "completed" ELSE "failed")
  /\ UNCHANGED <<config, page, history>>

\* The worker dies: the queue runs a job a second time, not a third.
WorkerDies(j) ==
  /\ job[j].state \in {"active", "accepted", "refused"}
  /\ job' = [job EXCEPT ![j].state = IF job[j].stalled THEN "failed" ELSE "waiting", ![j].stalled = TRUE]
  /\ UNCHANGED <<store, page, history>>

----------------------------------------------------------------------------
(* The page.                                                                *)

Busy(p) == {k \in Calls : call[k] # Idle /\ call[k].seen /\ call[k].for = p}

\* Defect: the buttons look only at the calls, not at the polling.
EnabledWhileTesting(p) == pending # p

\* The buttons of a provider; one variable holds the provider of the latest call only.
Enabled(p) == pending # p /\ p \notin testing

Begin(k, p, request) ==
  /\ call[k] = Idle
  /\ call' = [call EXCEPT ![k] = request]
  /\ pending' = p
  /\ notice' = [notice EXCEPT ![p] = "none"]
  /\ mixed' = (mixed \/ pending \in Providers \ {p})

\* The answer of a call: the page may have been left meanwhile.
Finish(k, said, poll) ==
  LET p == call[k].for IN
  /\ call' = [call EXCEPT ![k] = poll]
  /\ IF call[k].seen
     THEN /\ pending' = Nobody
          /\ notice' = [notice EXCEPT ![p] = said]
          /\ testing' = IF poll = Idle THEN testing ELSE testing \cup {p}
     ELSE UNCHANGED <<pending, notice, testing>>

\* The form is whatever was typed or filled in from the first load.
Save(k, p, form) ==
  /\ Enabled(p)
  /\ saves < MaxSaves /\ saves' = saves + 1
  /\ Begin(k, p, [kind |-> "save", for |-> p, seen |-> TRUE, form |-> form, read |-> config[p]])
  /\ UNCHANGED <<store, job, testing, accepted, overlapped>>

\* The configuration merged into is the one read when the request came.
Saved(k) ==
  LET c == Merged(call[k].form, call[k].read) IN
  /\ call[k].kind = "save"
  /\ \/ Valid(c) /\ Upsert(call[k].for, c) /\ \E said \in {"success", "problem"} : Finish(k, said, Idle)
     \/ UNCHANGED <<store, overlapped>> /\ Finish(k, "problem", Idle)
  /\ UNCHANGED <<job, accepted, mixed, saves>>

Test(k, p) ==
  /\ Enabled(p)
  /\ Begin(k, p, [kind |-> "test", for |-> p, seen |-> TRUE])
  /\ UNCHANGED <<store, job, testing, accepted, overlapped, saves>>

Queue(j, p) ==
  /\ job[j] = NoJob
  /\ job' = [job EXCEPT ![j] = [for |-> p, state |-> "waiting", read |-> NoConfig, stalled |-> FALSE]]

\* test and enqueueProviderTest, then the page begins to poll; or the request fails.
TestQueued(k) ==
  LET p == call[k].for IN
  /\ call[k].kind = "test"
  /\ \/ \E j \in Jobs :
          /\ config[p] # NoConfig
          /\ Queue(j, p)
          /\ \/ Finish(k, "waiting", IF call[k].seen
                                     THEN [kind |-> "poll", for |-> p, seen |-> TRUE, job |-> j, left |-> MaxPolls]
                                     ELSE Idle)
             \/ Finish(k, "problem", Idle)
     \/ UNCHANGED job /\ Finish(k, "problem", Idle)
  /\ UNCHANGED <<store, history>>

\* Defect: a poll that fails leaves the page as it is.
PollStuck(k, said) ==
  /\ call' = [call EXCEPT ![k] = Idle]
  /\ notice' = [notice EXCEPT ![call[k].for] = said]
  /\ testing' = IF said = "problem" THEN testing ELSE testing \ {call[k].for}

\* Defect: a poll that ends without an answer says nothing.
PollSilent(k, said) ==
  /\ call' = [call EXCEPT ![k] = Idle]
  /\ notice' = IF said = "success" THEN [notice EXCEPT ![call[k].for] = said] ELSE notice
  /\ testing' = testing \ {call[k].for}

PollEnds(k, said) ==
  /\ call' = [call EXCEPT ![k] = Idle]
  /\ notice' = [notice EXCEPT ![call[k].for] = said]
  /\ testing' = testing \ {call[k].for}

\* getProviderTestStatus and a round of pollTest; the last round gives up.
Poll(k) ==
  /\ call[k].kind = "poll"
  /\ LET state == job[call[k].job].state IN
     \/ state = "completed" /\ PollEnds(k, "success")
     \/ state = "failed" /\ PollEnds(k, "problem")
     \/ state \notin {"completed", "failed"} /\ call[k].left = 1 /\ PollEnds(k, "problem")
     \/ /\ state \notin {"completed", "failed"} /\ call[k].left > 1
        /\ call' = [call EXCEPT ![k].left = @ - 1]
        /\ UNCHANGED <<notice, testing>>
     \/ PollEnds(k, "problem")
  /\ UNCHANGED <<store, job, pending, history>>

\* loadCredentials when the page opens: stored failures are shown.
Reload ==
  /\ call' = [k \in Calls |-> IF call[k].kind \in {"save", "test"} THEN [call[k] EXCEPT !.seen = FALSE] ELSE Idle]
  /\ pending' = Nobody /\ testing' = {}
  /\ notice' = [p \in Providers |-> IF status[p] = "failed" THEN "problem" ELSE "none"]
  /\ UNCHANGED <<store, job, history>>

----------------------------------------------------------------------------
Answers(k) == Saved(k) \/ TestQueued(k) \/ Poll(k)

Next ==
  \/ \E k \in Calls : Answers(k)
  \/ \E k \in Calls : \E p \in Providers : Test(k, p) \/ \E form \in Forms : Save(k, p, form)
  \/ \E p \in Providers : \E form \in Forms : SaveElsewhere(p, form)
  \/ \E j \in Jobs : GetConfig(j) \/ ProviderAccepts(j) \/ TestFails(j) \/ TestEnds(j) \/ WorkerDies(j)
  \/ Reload

Spec == Init /\ [][Next]_vars

\* Every request is answered, or fails, in the end.
FairSpec == Spec /\ \A k \in Calls : WF_vars(Answers(k))

----------------------------------------------------------------------------
(* Properties.                                                              *)

\* A credential is shown verified only if the provider accepted this very configuration, or a
\* new one was saved while a test of the provider was under way (markTested goes by the row).
VerifiedUnlessOverlapped == \A p \in Providers :
  status[p] = "verified" => config[p] \in accepted[p] \/ p \in overlapped

\* docs/provider-integrations.md: the worker "marks the credential verified only after provider
\* acceptance".
VerifiedMeansAccepted == \A p \in Providers : status[p] = "verified" => config[p] \in accepted[p]

\* As long as the page's calls for different providers do not overlap, it never has two calls
\* for one provider: no save beside a test, no second test beside the first.
OneCallPerProvider == ~mixed => \A p \in Providers : Cardinality(Busy(p)) <= 1

\* While the page says that it is waiting for a provider's answer, a poll for it goes on.
WaitingIsWatched == \A p \in Providers :
  notice[p] = "waiting" => \E k \in Busy(p) : call[k].kind = "poll"

\* A page that waits for a test or for a request does not wait for ever.
PageRecovers == \A p \in Providers :
  /\ p \in testing ~> p \notin testing
  /\ pending = p ~> pending # p

=============================================================================
