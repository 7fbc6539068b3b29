# DripDesk in TLA+

DripDesk sends drip campaigns: an organization enrolls persons in campaigns of ordered
steps, a worker sends each step by email, SMS or Telegram when it is due, and an enrollment
moves to its next step on a send, a link click or a reply. This directory specifies the part
of the program where processes, retries and people's actions interleave, checks it with TLC
on small instances, and proves with TLAPS what matters most for every size.

Line references such as `provider-send.ts:103` are to the files named in the tables below;
the `map` of PROJECT.json gives the source lines of every definition.

## Inventory

The API (NestJS) and the worker (BullMQ) are separate processes, any number of each. They share
Postgres (through Prisma) and Redis, and call each other in no other way. Statements outside a
`$transaction` commit one by one; transactions run at Postgres's default isolation, READ COMMITTED.

| Component | State | Operations | Talks to |
|---|---|---|---|
| Scheduler `schedule-due-steps.ts` | `nextOrgOffset` in memory | every 60 s: choose ≤ 10 organizations, ≤ 20 pending rows of each, add jobs of due steps, mark rows `queued` | Postgres, then Redis, then Postgres |
| Schedule rules `schedule-rules.ts` | none | `isStepDue` | called by the scheduler |
| Job queue (BullMQ as `main.ts` sets it up) | jobs with state, attempts, stalls, lock | add, take, finish, fail, promote, stalled check, eviction | Redis; calls the processors |
| Send pipeline `message-preparation.ts`, `provider-send.ts`, `dripdesk.processor.ts` | `message_outbox`, step row status | prepare, claim, call provider, confirm or record failure, evaluate | Postgres, providers, progress evaluation |
| Progress evaluation `progress.service.ts` | enrollment status and current step, step rows, message events | `evaluateEnrollment` | called by send jobs, clicks, replies |
| Link tracking `tracking.service.ts` | click events, `clickedAt` | `handleLinkClick` | progress evaluation |
| Reply webhooks `webhooks.service.ts` | reply events, row status | Twilio and Telegram replies, delivery statuses | progress evaluation |
| Unsubscribe and portal | channels' opt-out, enrollments, rows | campaign and global unsubscribe, deletion request | Postgres |
| Enrollments `enrollments.repository.ts` | enrollments and their rows | enroll, pause, remove, re-enroll; contact limit | Postgres, billing's limit |
| Persons, campaigns, steps | rows of those names | create, edit, publish, archive, reorder | Postgres |
| Subscriber intake | `subscriber_intake_events` | idempotent webhook that creates a person and enrolls | persons, enrollments |
| Billing | `billing_subscriptions` | checkout, Stripe webhooks, usage | Stripe, contact limit |
| Provider credentials | encrypted config and test status | save, test by a queued job | queue, send pipeline |
| Authentication | users, `sessionVersion`, reset and invite tokens | register, log in, reset, invite, log out | Postgres |
| Web pages (Nuxt) | the session in memory and in `localStorage`; what a page last loaded; which buttons are busy | forms, reloads, polling | API |
| Cleanup, dashboard, users, health, mail, config | – | queries, single-row writes, I/O | – |

What is hard here, and the property each component owes (PROJECT.json lists the hazards line
by line):

* **Send pipeline and queue.** A provider call and a database transaction cannot be atomic; BullMQ
  may run a job again after a failure, a crash, or while its first run is still alive. Owed: one
  worker per claim, no repeat of an uncertain send, duplicates only where a provider error hid
  an acceptance, evaluation only after acceptance, every job ends.
* **Scheduler.** Redis and Postgres are written one after the other, and the job may overtake the
  mark; which organizations a cycle takes depends on an offset into a list that changes. Owed: a queued step has a
  job; a step's status goes back only where a reply overwrites it; an organization of a list that stays as it is gets its turn.
* **Progress.** Any number of evaluations run at once on reads that may be stale, or torn across
  two queries, while the enrollment is unsubscribed, paused, removed, re-enrolled or edited, and a reply overwrites the
  status of a row whatever it is. Owed: one completion per step and reply that reopens it, none without the evidence of
  the rule, none skipped, no way back by email, no standstill.
* **Enrollments, billing, intake.** Check-then-act on the contact limit, duplicated and
  reordered Stripe events, identical intake events at once. Owed: an overrun no larger than the requests
  in progress, a row whose plan, limit and status are one subscription's, one effect per event.
* **Recipients.** Opt-outs by link and portal beside administrators whose pages show an older state,
  and requests, replies and evaluations that read before they write. Owed: an opt-out lasts, and what it silenced stays silent.
* **Campaigns and steps.** Requests that check and then write by id, a reorder under a unique key that
  archived steps share, somebody enrolled meanwhile. Owed: what is archived stays archived, a reorder
  strands nobody, and the form shows the schedule that is in use.
* **Credentials and sessions.** A test result of an old credential, a page that polls for a job that was
  lost; logins, resets and refusals that overtake each other. Owed: a `verified` status is about the stored
  credential and the page recovers; no session outlives the password it was made with.
* **Schedule rules.** Time zones, midnight, daylight saving. Owed: a step is due neither before its
  delay nor on a day its schedule leaves out.

## Modules

| Module | Models | Run by | Proofs |
|---|---|---|---|
| `OneSend` | What is promised about provider calls (Decision 027), without queue, workers or database | `retry` (as a refinement) | `SendMessageProofs` |
| `SendMessage` | One step between scheduler, BullMQ, preparation, sending, opt-outs, replies and clicks | `retry`, `settles`, `unsubscribed` | `SendMessageProofs` |
| `Progress` | One enrollment: evaluations, clicks, replies, unsubscribes, administration, editing | `races`, `moves_on` | `ProgressProofs` |
| `ScheduleRules` | `schedule-rules.ts`, and the calendar it is compared with | `cycles`, `editors` (by extension) | `SchedulerProofs` |
| `Scheduler` | `scheduleDueSteps` of several worker processes over all organizations | `cycles` | `SchedulerProofs` |
| `Billing` | The subscription row, the billing page and Stripe's events | `events`, `intake` | `ContactsProofs` |
| `Contacts` | Enrollment by administrators and by intake events, under Billing's limit | `intake` | `ContactsProofs` |
| `Accounts` | Accounts, tokens, session versions, and the browser's sessions | `sessions` | `AccountsProofs` |
| `Recipients` | One person's channels and enrollments, changed by links, portal, administrators, replies and progress | `optouts` | `RecipientsProofs` |
| `Credentials` | Provider credentials, test jobs and the page that polls for them | `tests` | `CredentialsProofs` |
| `CampaignSettings` | A campaign's schedule between form, API, row and rules | `editors` | `EditingProofs` |
| `Editing` | A campaign and its steps, edited from pages of any age while somebody is enrolled | `editors` | `EditingProofs` |

Each `MC...` module is an instance for TLC. `Contacts` extends `Billing`, `Scheduler` and `CampaignSettings` extend
`ScheduleRules`, `Editing` extends `CampaignSettings`: these are compositions, with one next-state relation over the state of
both. Elsewhere a module contains the other's part as one action:

* `SendMessage` ends a job, a reply or a click with an evaluation (`EvaluateEnrollment`, `EvaluateRequest`), which may or may not
  complete a step; `Progress` begins evaluations with `Send`, which is the whole of a successful job after `Prepare`.
* `Scheduler` queues a row and `Complete` is all that follows; `SendMessage` follows one row through one cycle;
  `Progress` has it done by `Schedule`.
* `Recipients` has replies and progress as `RecordReply` and `CompleteCurrentStep`, each with the read before it (`Take`), on rows told
  apart only as waiting, replied or finished, and enrollment as `Enrolled`, without the limit, which is Contacts' subject;
  `Editing` has an evaluation as `EvaluateEnrollment`, without rules of progress.

Definitions introduced as "Defect" are never part of a next-state relation. They are the bugs the properties are tested
against (`mutants` in PROJECT.json): with such a definition in place of the real one, TLC finds the property violated.

One action is one statement or transaction of the code, or one atomic operation of BullMQ, Stripe or the browser. A handler
that reads and later writes is two actions (or more), with what it read kept in between.

### SendMessage

A message is one (enrollment, step, channel): the key of the deterministic job id and of the unique
outbox row. `StepOf` gives the step row it belongs to; two channels of a step are two messages.

| Model | Code |
|---|---|
| `job`, `attempts`, `stalls`, `owner` | the job in Redis: state, attemptsMade, stalledCounter, lock token |
| `outbox[m]` | `message_outbox.status`, or no row |
| `stepStatus[s]` | `enrollment_step_states.status`, the values some code writes |
| `channel[m]` | what person and channel rows together allow; an opt-out cannot be undone |
| `pc`, `msg` | where a worker slot stands in `processSendMessage` |
| `sched`, `picked` | the scheduler between its read, `addBulk` and its `updateMany` |
| `todo`, `about` | reply webhooks and link clicks in progress: to record the reply, or to evaluate, and of which step |
| `outcome`, `copies`, `doubts`, `evaluated` | history, read by properties only (`outcome` also tells what the running worker was answered) |

Each database write exists with `ok = TRUE` and `ok = FALSE`: in the second it commits and the worker
sees an error, as when the connection breaks after COMMIT; `DatabaseError` is the failure that
writes nothing. `CallProvider` has three answers; `doubtful` is a provider that took the message in and a
caller that sees a transport error. `Crash` ends a worker anywhere; its job stays active until `StalledCheck`.
With `LockMayExpire` the check may also take a job from a worker that still runs it: that worker goes
on, as real ones do, and only its final report is refused. `Evict` is `removeOnComplete` and
`removeOnFail`, after which the id is free again.

`RecordReply` overwrites the step's status whatever it is, a completed or unsubscribed one included, as `recordReply` does; the step is the
one that was current when the webhook read the enrollment (`TakeReply`). The module follows one enrollment of the person: rows that a
re-enrollment replaces are `Progress`'s subject.

Abstracted: message text, merge tags, link rewriting and credentials (a missing one is a refusal). `SelectVariant` tells a
step that has something to say over the channel from one that has not.

### Progress

One enrollment; steps are `1..N` in step order; one delivery channel. `run` counts its enrollments: a
re-enrollment deletes the rows and creates new ones, so a row id of an earlier run finds nothing, while
the enrollment id, the job ids, the outbox rows and the events stay. `snap` is what an evaluation
has read. Its steps are the code's queries: `ReadEnrollment`, `ReadStates` (the included rows and the campaign's steps
are separate SELECTs of one `findUnique`), `ReadEvents` (two of the rules look for events), and
`CompleteCurrentStep`, a transaction: a guarded `updateMany` on the row, then an
update of the enrollment by id. A reply likewise is recorded apart from the read that chose its step.

`outbox[s]` is the step's outbox row: `absent`, `open` once `Prepare` has made it (the recipient may have the message from then on, whatever
becomes of the row), or `sent`. A click comes with any outbox row, and a reply counts for a step through any outbox row of it, sent or
not; without one the event is linked to nothing, and the row's status is overwritten all the same. A required phrase is looked
for in the latest fifty replies only: `recent` has the steps with a match among them. `reopened` counts, as history, the replies that overwrote a
completed row. `Campaigns` gives the progress rule, channel and bounds of each campaign of the instance; replies exist only where people
can reply (SMS through Twilio, Telegram).

Abstracted: a phrase match is a Boolean; due dates only delay `Schedule`; campaign status, contact
limit and two simultaneous re-enrollments of one person are left out. `Send` is a successful job, and one whose row
is already `sent`; a job that ends without success, with an uncertain send included, is `SendFails`.

### ScheduleRules and Scheduler

Time is counted in slots, `SlotsPerDay` of them to a day; a zone is a function from instants to offsets, so that a change of
daylight saving is a zone that changes its mind. `MidnightHour` is what `Intl` prints for local midnight ("00" or "24").
`IsStepDue` translates the code's arithmetic on dates; `DueByCalendar` knows no dates: it counts the midnights that a clock
passes, takes off those it is put back over, and names weekdays by counting from the first. It is what properties compare the
rule with, and it knows nothing of `MidnightHour`: no step is due before its send time, at midnight neither
(`docs/scheduling-engine.md:40`). Where `Intl` prints "24" the code disagrees, see below. `Schedules` is what a campaign's row may say of its schedule; `EditingProofs` shows that the API stores nothing else, with an
interval of 1 to 365 days. In `Scheduler`:

| Model | Code |
|---|---|
| `nextOrgOffset[p]` | the module variable of each worker process |
| `cycle[p]` | a run of `scheduleDueSteps`: its `now`, the organizations to come, the steps of the present one still to be queued |
| `enrollment[e]` | whether the scheduler's query admits it: `away` is a paused or archived one |
| `row[e][s]`, `current[e]`, `enrolledAt[e]` | the step rows, `currentStepOrder` and `enrolledAt` |
| `reachable` | enrollments whose person has an enabled channel of the step |
| `listed`, `waited` | history: the list a process saw last, and how long it has passed each organization over |

`ReadCandidates` takes any subset of the pending rows of the configured size, as the query has no order. Only one campaign
schedule and one zone are in an instance; `Settings` holds those TLC tries. `ZoneAssumption` says of a zone that its clock moves by no more than
a day from one slot to the next: true of every change of daylight saving, not of the islands that moved the date line and left a
whole day out.

### Billing and Contacts

`stripe` is Stripe's own view of each subscription, `events` what it has sent and may deliver again, in any order or (`inOrder`)
the oldest first; `subscription` is the row of `billing_subscriptions`. Of the columns `currentPeriodEnd` and `cancelAtPeriodEnd` it says whose they are
(`periodEnd`, `cancelAtEnd` hold the id of a subscription), since a checkout writes neither and a cancellation the second only. `HandleWebhook` is one delivery, and the event may come `again`. A plan is what the
metadata of a subscription names, or else its price. `Contacts` adds requests that enroll: each is a sequence of the code's
queries (`call[r]` is how far it is and what it has read) and one transaction, any number at once. `owner` is the unique
(organization, address) of a channel row, `recorded` the unique `event_id` of `subscriber_intake_events`: a transaction that
meets one of them is rolled back as a whole. `Unlimited` is the null `activeContactLimit`.

Abstracted: names of people, payloads other than what tells two apart, the values of period ends and `cancelAtPeriodEnd`.

### Accounts

`user` is the row with its password, `sessionVersion` and role; a token carries the version of the row it was made from, and,
as history, that row's password. `held` is each tab's session, `stored` the one in `localStorage`, which tabs share. A call
under way is one the server has answered and the tab has not yet heard of (`login`, `request`, `logout`), or one that has read and not
yet written (`register`, `accept`, `reset`). Login attempts with a wrong password, expired and used tokens are refusals without
effect. A user has one organization, as every operation of the code gives them.

### Recipients

Channels of one person with `enabled`, `unsubscribed`, `suppressed` as in `person_channels`, enrollments, and in `rows` which kinds of unfinished
row an enrollment has: some that wait to be sent or followed up (`waiting`), some that say `replied`. A reply under way turns one row, of any
status, into a replied one; an evaluation under way may finish one. `link` is `unsubscribe_tokens`; `call` are requests between read and write; `listed` and
`shownOn` are what the person's page last loaded, `portal` and `opened` the recipient's pages. A toggle sends the
opposite of what the page shows. `optedOut` and `silenced` are history: the channels that were there at a global opt-out, and
the enrollments opted out of.

### Credentials

`config` and `status` are a row of `provider_credentials`; `job` the test jobs, whose worker reads the configuration, asks the provider and
writes the verdict to the row (`markTested`), and may die in between. `call`, `pending`, `testing` and `notice` are the page: the
code has one `pending` variable for all providers, which `Enabled` translates. `Merged` is about a configuration's required fields, whose saved values a
blank one keeps; the optional sender name of SMTP, which a blank one clears, is not among the fields. `MaxPolls` stands for the 30 polls of `pollTest`.

### CampaignSettings and Editing

A schedule goes from the page's form (`ScheduleConfigPayload`) through the API's checks (`Accepted`, `NormalizeScheduleConfig`) into the row
and back (`FormOf`); an empty text is what `Number('')` makes of it. In `Editing`, `step` is the table with its unique
(campaign, order), `shown` and `form` what the page last loaded, `call` requests between check and write; `row` and `done` are the rows of
somebody enrolled, which keep the orders of the enrollment's time. `steady` and `raced` are history: whether all steps were and are
published, and what was archived while a request that had found it was under way. The steps there are at first have the orders 1, 2, ...
(`Numbers`), as the code numbers them; that editing keeps it so is proved. Requests of other clients
(`EditElsewhere`, `UpdateElsewhere`) are those the API allows and the page does not send.

## Runs

All bounds are constants of the cfg files. `CHECK_DEADLOCK FALSE` everywhere: with its cycles, crashes, changes
and runs used up, or after an opt-out, the system really has nothing left to do.

| Run | Question | Bounds |
|---|---|---|
| `retry` | Are claims exclusive, duplicates explained, uncertain sends left alone, marks in order? Is `OneSend` implemented? | 1 message, 2 workers, 3 attempts (the code's), 1 stall, 2 scheduler cycles, 1 crash, locks may expire; no replies or clicks; 0.9 M states |
| `settles` | Does a step go back otherwise than by a reply? Does every job end, and is what was sent evaluated? | the same with 1 reply or click at a time, any number of them, 2 crashes, 1 cycle, no expired locks |
| `races` | Do races of evaluations, clicks and replies repeat a step, complete one without the evidence of its rule, leave one out, leave the enrollment at a completed one, or take it back? | time-based by email with 3 steps, 1 of them edited, and 2 runs of the campaign; each rule with 2 steps by email, SMS or Telegram, 1 failure; 2 evaluations at a time, 3 for any reply by Telegram; 5.1 M states |
| `moves_on` | Does an enrollment get to the end of its campaign, and does a click complete its step? | time-based and clicks by email, 2 steps, 1 of them edited, 2 evaluations, no failures |
| `cycles` | Is an organization of an unchanged list passed over, is a step queued out of order or before the calendar says so, is a due one queued in the end? | 2 processes, 2 organizations of which a cycle takes 1, 2 steps, 6 instants of 2 to a day with a clock put forward over a midnight in spring and put back over one in autumn, midnight printed as "00", 1 disturbance |
| `events` | Is the row one subscription's, its period columns excepted after a checkout, and what Stripe has after ordered delivery? | 3 subscriptions, one with an unknown plan, 4 events, each delivered any number of times; 2.6 M states |
| `intake` | How far can the limit be exceeded, does an event have one effect, is nothing left of a transaction that failed? | 5 requests, 2 at a time, 3 persons, 3 addresses, 1 billing event, 1 change; 3.9 M states |
| `sessions` | Does a session outlive its password, does a late refusal end a newer one, are accounts whole? | 2 people, 2 organizations, 2 tabs, 2 calls, 1 token of each kind, 1 reset; 1.7 M states |
| `optouts` | Does anything undo an opt-out? | 2 channels, 2 addresses, 2 campaigns, 1 link, 2 calls (replies and evaluations among them), 3 changes by administrators; 3.4 M states |
| `tests` | Is a verified credential one the provider accepted, and does the page recover? | 2 providers, 2 fields of 2 values, 2 calls, 1 test job, 2 saves, 2 polls |
| `editors` | Does editing strand anybody, revive anything, or show another schedule than the one in use? | 2 steps and a third to come, 2 requests at a time, 4 changes, 3 forms |
| `unsubscribed` | (violated, see below) | 1 message, 1 worker, no crash |

Why these are enough: two workers are one that holds a claim and one that interferes, and the second
may run jobs one after another; three attempts are the configured number, and reach an uncertain
row, a failed one and a retry of each. Two evaluations, calls or requests are one that is stale and one that does as much
as it likes meanwhile; with three, a reply can come between the two. Two steps distinguish the next step from the last, three a skipped one as well; two runs of a campaign give every kind of
leftover. Two organizations with a window of one make the offset matter; six instants hold two midnights, a change of
offset and a send time after the last of them. Three subscriptions are an old one, a new one and one that was set up by hand. What a bound might hide is what the
theorems are for: they hold for all values of the constants.

`unsubscribed` is expected to end in a violation, and is the one entry of `findings`: a job queued before a campaign unsubscribe is prepared,
and sent, after it. Preparation looks at person and channel, not at enrollment or step, whereas `ARCHITECTURE.md:733`
says that suppression reaches preparation and provider sends.

Some modules state more of what docs or comments say, in definitions that no run checks because TLC refutes them:

| Statement | What happens |
|---|---|
| `Progress!RemovedStaysRemoved` | An evaluation that read the enrollment before an unsubscribe sets it from `removed` to `completed`. |
| `Progress!AdvancesAfterSend` | A reply to an earlier message sets the current, still pending step to `replied`, which completes it unsent in a time-based campaign. |
| `Progress!RestartedMovesOn` | A re-enrolled person stays at a queued first step: its job id or its sent outbox row of the earlier run is still there. |
| `Progress!NeverMovesBack` without `Orderly`, with replies | A reply recorded on a row that was just completed reopens it, and a stale evaluation takes the enrollment back. |
| `Scheduler!QueuedWhenDue` with `MidnightHour = SlotsPerDay` | Where `Intl` prints local midnight as "24:00", midnight counts as after every send time: a step is queued at local midnight of its day, before its send time. `EarlyAtMidnight` proves that the rule does so. |
| `Contacts!NotSilentlyRestarted` | An enrollment paused or completed since the request read it as removed becomes active. |
| `Contacts!EnterpriseUnlimited` | The null limit of an unlimited plan falls back to the free plan's. |
| `Credentials!VerifiedMeansAccepted` | A test of the old credential marks its replacement verified. |

What the passing runs leave out on purpose, because the property fails there:

* `SentIsEvaluated` with expiring locks: the second run of a job finds the row `sending`, completes the
  job as uncertain, and the first worker's later confirmation is evaluated by nobody if that worker then dies.
* `CompletedMeansDone` in a second enrollment: the enrollment and its rows are read by two queries, and around a
  re-enrollment an evaluation can pair the old current step with the new rows and complete a later step first.
* `CurrentStepOpen` and `NeverMovesBack` in a second enrollment that is not `Orderly`. In a time-based campaign a row just created is not
  sent, which keeps evaluations in order, unless a draft was published between the enrollments: with 4 steps of which the first was a draft, the
  job of step 3 that the first enrollment left behind sends the row of the second one, a stale evaluation completes step 3 ahead of step 1, and the
  evaluation of step 1 then takes the enrollment back to step 2. Three steps are too few for that.
* `StepNeverRegresses` for a reply under way, which sets any status to `replied`.
* `CompletedOnce` for a step whose completed row a reply overwrote: it may be completed once more for each such reply.
* `RuleWasMet` for time-based campaigns by SMS and Telegram, where a reply stands in for the send (`AdvancesAfterSend` above).
* `CurrentStepOpen` and `NeverMovesBack` by SMS and Telegram: a reply reopens rows, so an enrollment may be taken back.
* `ClickCompletesStep` with failing queries: nothing retries the evaluation after a click.
* `EnrollmentMovesOn` for a step archived or published since the enrollment: it waits there.
* `OrgServedInTurn` while the list of organizations keeps changing: it counts the cycles a process has begun since it last saw another list
  or was restarted, and cycles that fail afterwards count as turns. The offset into a list that changes each time, or that is lost again and again, can pass
  an organization over for as long as that goes on.
* `QueuedWhenDue` where midnight is printed as "24", see the table above.
* `DueIsQueued` for an organization with more pending rows than a cycle reads: nothing promises that the due ones are read.
* `RowIsOneSubscription` for the period columns: after a checkout `currentPeriodEnd` and `cancelAtPeriodEnd` are still the former subscription's
  until an event of the new one arrives, and after a cancellation `currentPeriodEnd` may be. The property says in which states of the row that is so.
* `SettledRow` out of order: an old event does overwrite a newer one.
* `SilencedStaysSilent` for a deletion request made by an administrator, which leaves the rows open; and a reply that was taken before the opt-out
  may leave a row that says `replied` instead of `unsubscribed`. It is about enrollments and rows: a job queued before the opt-out is sent (`unsubscribed`).
* `OneCallPerProvider` while calls for two providers overlap: the page's one `pending` variable is then overwritten.
* `ReorderHarmless` with drafts among the steps: a reorder can then skip a step of somebody enrolled.
* `ShownScheduleIsUsed` for a schedule of custom days that another client left without days: every day to the
  rules, Monday, Wednesday and Friday in the form.

## Fairness

`SendMessage`: a live worker goes on with its job (`WF` of its steps), some idle worker takes a
waiting job, BullMQ promotes delayed jobs and finds those of dead workers. BullMQ does this by timers and
blocking pops. Nothing is assumed of the scheduler, database, provider, people or crashes: every one of
them may fail each time, which is why `EveryJobSettles` says completed or failed.

`Progress`: the repeatable job picks a due step in the end (`WF(Schedule)`), a live job is prepared (`WF(Prepare)`) and some worker runs it
to its end (`SF`, since a worker slot may be busy with other evaluations again and again), and a call in progress goes on. The
liveness run has no failures; with them the code has no retry of an evaluation that failed after a
click or a reply, and no recovery of a step whose job failed for good. `WF(Schedule)` is what `Scheduler` examines.

`Scheduler`: time passes, every process goes on with its cycle and begins another (the job repeats every 60 s), and a queued step is
completed. Failures, restarts and people are not fair, and are bounded.

`Credentials`: a request that the page has sent is answered or fails, as a browser's requests do. Nothing is assumed of the worker or of
the queue: a test job may be lost, and the page must stop waiting all the same (`PageRecovers`).

## Proofs

`tlapm` checks eight proof modules. Assumptions are those the modules declare about their constants, plus those written in a
theorem. Each safety theorem follows from an inductive invariant that Init implies and every action keeps; it is named here
wherever it is more than the property and the types.

`SendMessageProofs`, for any messages, steps, workers, attempts, stalls, crashes and expiring locks:

* `Typing`: `TypeOK` is not inductive, as the counters need that a job with an owner is active and
  that a job not yet ended has attempts and stalls left (`JobInv`).
* `ExclusiveClaims`, `CopiesExplained`, `NoResend`, `OnlyHolderMovesOn`: from `SendInv`. Its `RowInv`
  ties each row's status to outcome and copies (a row open for a claim was never accepted
  without a doubt); its `HolderInv` says that a worker between claim and record has a `sending` row, the
  outcome that fits its place, and no rival. Claim exclusivity alone is not inductive: without the outcome, a
  worker about to record a failure could reopen a row another has claimed.
* `EvaluationAfterAcceptance`, `QueueFirst`, `StepsOnlyAdvance`: queue and step status, for any number of replies and clicks as well; `QueueInv` carries
  the picked jobs from `addBulk` to the mark.
* `Refinement`: `Spec => ImplementsOneSend`. A row's phase is its status, with `sending` split by the
  outcome. Steps of BullMQ, scheduler and people stutter; each of the five writes is one `OneSend` step.

`ProgressProofs`, for any number of steps, evaluations and enrollments:

* `Typing`, by way of the range of `FirstOf` (`FirstIsLeast`: a non-empty set of steps has a least one).
* `EveryCompletionHasEvidence`: with re-enrollments, torn reads and, where the rule asks for them, replies. An evaluation that is about to
  complete a row of this run has the evidence already, and evidence only grows.
* `CompletionIsUnique`, for every channel: a completed step of a run stays completed, or a reply has reopened it, or the rows are gone.
* `NothingLeftOut`, for every channel, from `ReachInv`: in a first enrollment, whatever an evaluation is about to complete, all unedited steps before
  it have been completed, and the next step it found passes over edited ones only. A reply may reopen a row, but not take back a completion.
* `CurrentStaysOpen` and `MovesForward`, for campaigns by email (`Orderly`). In a first enrollment (`FirstInv`) what an
  evaluation has read is compared with what is now: unless its row is completed, its step is still
  the current one; every unedited step before the current one is completed. In later enrollments of a time-based campaign without edits
  (`LaterInv`) there are stale reads, jobs and outbox rows of all earlier ones. The argument is that messages leave in the order of the
  steps (`SentInOrder`), that a row is sent only if its message never left before, and that therefore at most one row of a run is
  `Hot`, sent or about to be completed by an evaluation that found it so, and none before the current step.
* `Away`: while a re-enrollment replaces the rows, the enrollment is not active.

`SchedulerProofs`, for any organizations, enrollments, steps, processes, windows and calendars:

* `Typing` rests on `WindowTurns`: a window is a sequence of at most `MaxOrgsPerCycle` organizations, and the next offset is within the
  list. `Ordered` shows that the list in the order of ids exists at all (its place function is `Rank`, a bijection).
* `Order`: rows before the current step are completed, those after it not yet queued, and no candidate of any cycle is ahead
  of its enrollment (`InOrder`). A stale candidate is then harmless, because its row is not pending any more.
* `Served`: while the list stays as it is, the turns waited so far, times the window, plus the way from the offset to the organization's place (`Gap`) are less than the length of
  the list (`Turns`). Each cycle that passes somebody over moves the offset nearer to them by exactly one window.
* `RuleIsTheCalendar`: with an interval that the API accepts, `IsStepDue` and `DueByCalendar` are equivalent at every instant of
  every zone, local midnight excepted where it is printed as "24". The difference of two local dates is the number of midnights counted between them (`MidnightsCounted`, by way of the least
  instant at which it is not), since in a slot a clock crosses one midnight at most (`DatesMove`, from `ZoneAssumption`).
* `EarlyAtMidnight`: there the rule holds at local midnight whatever the send time, and the calendar does not.
* `Due`, where midnight is printed as "00", from `DueBatches`: what a cycle has still to queue is due at its `now` with the enrollment date it read; enrollment dates do not
  change while a row is pending. A row moves forward only, and is queued only when the calendar says so.

`ContactsProofs`, for any plans, subscriptions and events of `Billing`:

* `OneSubscription`, from `RowInv`: that the row is canceled only with Stripe's subscription needs that events under way which say so
  are about subscriptions Stripe has canceled, for good (`EventsTell`). Its period columns are another's only after a checkout or a cancellation.
* `Settled`, from `SettledInv` and `PeriodInv`: of the events under way about a subscription the newest say what Stripe has now, for its status and
  for its price separately, as a deletion carries no price to the row; when none is under way, the row says it, and its period columns are that subscription's.

and for any people, addresses, campaigns and requests of `Contacts`:

* `ContactsTyping`, from `TypeInv`: a request that is about to commit holds a person, a campaign and, for an intake, an address that the transaction
  can write; an enrollment is of somebody who has a row.
* `Overrun`, from `CountInv`. The bound itself is not inductive, because a request that counted long ago may still commit. For every number `k` not
  below the largest limit checked against, look at the active contacts together with the people of the requests that go
  ahead although they counted at most `k`; somebody such a request has yet to create counts once per request. They are fewer than
  `k + MaxConcurrent`: a request joins them only while the count is below `k`, and a commit moves a person from one part to the other.
* `OneEffect`, from `EffectInv`: a request is told "accepted" by its own commit or by a replay of the record, the unique event id makes
  the record the first one's, and nothing takes it back.
* `NobodyLeftBehind`: a transaction that meets a unique key writes nothing, so a person appears only with its address and event.

`AccountsProofs`, for any people, tabs, calls, tokens and resets:

* `Password`, from `KnowInv`: no session is of a version to come, and one of the present version was got with the present password, those of
  logins that have not reached the browser yet included. A reset raises the version with the password, so older sessions stay refused.
* `Whole`: nobody who is a member stops being one (`MembersStay`), and no registration takes a slug or an email that is taken.
* `Refusals`: an action property; a tab loses its session to its own logout or to the refusal of the very token it holds.

`RecipientsProofs`, for any channels, campaigns, links and requests: `OptOut`, from `OptInv`: the opt-outs set `unsubscribed` on the rows they
find and no action takes it away; requests that read before and write after are covered, as they write other columns. `Silent` is
inductive with the types: no action of a request, an administrator or progress makes an enrollment active or a row wait, except
a new enrollment, which forgets the silence; a reply can only leave a row that says `replied`.

`CredentialsProofs`, for any providers, configurations, calls and jobs:

* `Verified`, from `VerdictInv`: a test that has read a configuration has read the stored one, unless a save has come between, and
  what it says is accepted has been.
* `OneCall`, from `PageInv`: while calls for different providers do not overlap, `pending` names the provider of the save or test under
  way and `testing` those polled for, so that a provider's buttons are disabled as long as anything of it is under way.
* `Watched`: a poll for a provider ends only by changing what the page says of it.

`EditingProofs`, for any steps, contents, forms and requests:

* `Revival`, from `Kept`: what was archived with no request under way is still archived, and no request that
  found it before is left; the shapes of requests and of the page's copy are needed to know that writing by id does not create a step.
* `EditingTyping`, from `Whole`: the rows of the table, archived ones included, have the orders 1, 2, ... without gap or repetition
  (`Numbered`), and requests under way carry orders that will still be such when they write (`Meant`). A new step takes the number after the last or is
  refused by the unique key (`Appended`); a reorder that the key does not refuse permutes the first numbers (`Permuted`).
* `ShownSchedule`: a schedule that came through the API is within bounds (`PayloadSound`), and one within bounds comes back from
  row to form to row unchanged (`RoundTrip`), whatever text was typed.
* `Reordering`, from `Harmless`: while all steps are published and stay so, the rows of somebody enrolled have the same set of orders as
  the steps, whoever reorders in between; so the next order after a completed one is some row's order, and when there is none, all are done.

Only model-checked: the liveness properties `EveryJobSettles`, `SentIsEvaluated`, `EnrollmentMovesOn`, `ClickCompletesStep`, `DueIsQueued` and
`PageRecovers` (fairness and ENABLED are beyond the prover), and the violated property of `unsubscribed`, of which there is nothing to prove. Where a `Typing` theorem covers a module's `TypeOK`, no run repeats it.

## Not modelled

* Delivery status webhooks only add events that nothing reads. No code writes the step statuses `delivered`,
  `clicked`, `failed` and `skipped`. Nothing enqueues `evaluate-progress` or `cleanup-expired-tokens`, and
  `process-provider-event` only acknowledges.
* Webhook signatures, the lookup of a credential for a webhook, and the choice among several active enrollments of one person who replies.
* Encryption, masking and diagnostics of credentials; the intake key's card on the integrations page; the hydration of forms.
* The text of messages: variants, merge tags, link rewriting. Whether a step has content is modelled, on both sides.
* Names, descriptions and time zones of persons; a step's channels, delays and phrases while it is edited; usage figures and lists.
* Updates of other fields that `publishStep` overwrites with the page's copy, and a form that a reload overwrites while somebody types: both
  lose an edit, and no doc or comment says that they do not.
* Dashboards, users, organizations, health checks, outgoing account mail, configuration: queries, single-row writes or I/O without a protocol.
