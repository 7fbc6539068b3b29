------------------------------ MODULE Contacts ------------------------------
(***************************************************************************)
(* How people come to be enrolled: an administrator's request              *)
(* (enrollments.repository.ts) and a subscriber intake event               *)
(* (subscriber-intake.service.ts), several of them at once, each a         *)
(* sequence of queries and one write, while the billing row that sets the  *)
(* limit of active contacts changes (Billing) and enrollments, channels    *)
(* and people come to an end.                                              *)
(***************************************************************************)
EXTENDS Billing, FiniteSetsExt

CONSTANTS
  Persons, Addresses, Campaigns,
  Requests,          \* records: kind "enroll" with person and campaign, or
                     \* kind "intake" with event, addresses and campaign
  FirstOwner,        \* the person each address belongs to at first, or NoPerson
  NoPerson,
  MaxConcurrent,     \* requests in progress at once
  MaxChanges         \* bound: changes by administrators, recipients and time

ASSUME ContactAssumptions ==
  /\ FirstOwner \in [Addresses -> Persons \cup {NoPerson}] /\ NoPerson \notin Persons
  /\ MaxConcurrent \in Nat \ {0} /\ MaxChanges \in Nat
  /\ \A r \in Requests : /\ r.campaign \in Campaigns
                         /\ \/ r.kind = "enroll" /\ r.person \in Persons
                            \/ r.kind = "intake" /\ r.addresses \in (SUBSET Addresses) \ {{}}

VARIABLES
  known,             \* persons with a row
  inactive,          \* those archived or with a deletion request
  owner,             \* address -> person: the channels of an organization, unique by address
  optedOut,          \* addresses of channels that are disabled, unsubscribed or suppressed
  enrollment,        \* status of each (person, campaign); "aged" is active, enrolled before the window
  archived,          \* campaigns
  keyRotated,        \* the intake key of the requests has been replaced
  recorded,          \* subscriber_intake_events: event id -> payload, person, campaign
  call,              \* each request: how far it is, what it has read, what it was answered
  changes,
  granted            \* history: the largest limit that a request has been checked against

contacts == <<known, inactive, owner, optedOut, enrollment, archived, keyRotated, recorded, call, changes, granted>>
vars == <<billing, contacts>>

Pairs == Persons \X Campaigns
Intakes == {r \in Requests : r.kind = "intake"}
Events == {r.event : r \in Intakes}
NoEvent == [addresses |-> {}, person |-> NoPerson]
NewCall == [pc |-> "new", person |-> NoPerson, existing |-> "none", count |-> 0, answer |-> "none"]

TypeOK ==
  /\ BillingTypeOK
  /\ known \subseteq Persons /\ inactive \subseteq known
  /\ owner \in [Addresses -> known \cup {NoPerson}]
  /\ optedOut \subseteq {a \in Addresses : owner[a] # NoPerson}
  /\ enrollment \in [Pairs -> {"none", "active", "aged", "paused", "removed", "completed"}]
  /\ \A q \in Pairs : enrollment[q] # "none" => q[1] \in known
  /\ archived \subseteq Campaigns /\ keyRotated \in BOOLEAN
  /\ \A v \in Events : recorded[v] # NoEvent =>
       recorded[v].person \in known /\ enrollment[<<recorded[v].person, recorded[v].campaign>>] # "none"
  /\ \A r \in Requests :
       /\ call[r].pc \in {"new", "received", "matched", "looked", "allowed", "collided", "done"}
       /\ call[r].person \in Persons \cup {NoPerson}
       /\ call[r].answer \in {"none", "accepted", "failed"}
  /\ changes \in 0..MaxChanges

Init ==
  /\ BillingInit /\ ~inOrder
  /\ owner = FirstOwner
  /\ known = {FirstOwner[a] : a \in Addresses} \ {NoPerson}
  /\ inactive = {} /\ optedOut = {} /\ archived = {}
  /\ enrollment = [q \in Pairs |-> "none"]
  /\ keyRotated = FALSE
  /\ recorded = [v \in Events |-> NoEvent]
  /\ call = [r \in Requests |-> NewCall]
  /\ changes = 0
  /\ granted = 0

----------------------------------------------------------------------------
(* The limit of active contacts.                                            *)

ActiveContacts == {p \in Persons : \E c \in Campaigns : enrollment[<<p, c>>] = "active"}

\* findActiveContactLimit.  A null limit, on the row and in the table, is the free plan's.
ActiveContactLimit ==
  IF subscription # NoRow /\ subscription.limit # Unlimited THEN subscription.limit
  ELSE IF LimitOf[subscription.plan] # Unlimited THEN LimitOf[subscription.plan] ELSE LimitOf["free"]

\* Defect: one more than the limit.
AllowsOneMore(count, limit) == count <= limit

\* assertActiveContactCapacity
Allows(count, limit) == count < limit

Begins(r) ==
  /\ call[r].pc = "new"
  /\ Cardinality({s \in Requests : call[s].pc \notin {"new", "done"}}) < MaxConcurrent

Step(r, to) == call' = [call EXCEPT ![r] = to]
\* What a request has read is of no use once it is answered; only who was accepted is.
Accepted(person) == [pc |-> "done", person |-> person, existing |-> "none", count |-> 0, answer |-> "accepted"]
Failed == [pc |-> "done", person |-> NoPerson, existing |-> "none", count |-> 0, answer |-> "failed"]
OnlyCall == UNCHANGED <<known, inactive, owner, optedOut, enrollment, archived, keyRotated, recorded, changes>>

\* createForTenant up to the count: the campaign and person it needs, the enrollment there
\* is, and the contacts counted, or Exempt when this person is one of them.
Exempt == -1
FindCampaign(c) == c \notin archived
Looked(r, person) ==
  IF \/ ~FindCampaign(r.campaign) \/ person \notin known
     \/ enrollment[<<person, r.campaign>>] \notin {"none", "removed"}
  THEN Failed
  ELSE [call[r] EXCEPT !.pc = "looked", !.person = person, !.existing = enrollment[<<person, r.campaign>>],
                       !.count = IF person \in ActiveContacts THEN Exempt ELSE Cardinality(ActiveContacts)]

\* A person with a deletion request may be enrolled by an administrator; an archived one not.
Enroll(r) ==
  /\ r.kind = "enroll" /\ Begins(r)
  /\ Step(r, Looked(r, r.person))
  /\ OnlyCall /\ UNCHANGED granted

CheckLimit(r) ==
  /\ call[r].pc = "looked"
  /\ IF call[r].count = Exempt \/ Allows(call[r].count, ActiveContactLimit)
     THEN Step(r, [call[r] EXCEPT !.pc = "allowed"])
     ELSE Step(r, Failed)
  /\ granted' = Max({granted, ActiveContactLimit})
  /\ OnlyCall

\* The row is created, under the unique key of person and campaign; a removed one is
\* updated by its id, whatever its status is by now.
WriteEnrollment(r) ==
  /\ r.kind = "enroll" /\ call[r].pc = "allowed"
  /\ LET q == <<call[r].person, r.campaign>> IN
     IF call[r].existing = "none" /\ enrollment[q] # "none"
     THEN Step(r, Failed) /\ UNCHANGED enrollment
     ELSE Step(r, Accepted(q[1])) /\ enrollment' = [enrollment EXCEPT ![q] = "active"]
  /\ UNCHANGED <<known, inactive, owner, optedOut, archived, keyRotated, recorded, changes, granted>>

----------------------------------------------------------------------------
(* SubscriberIntakeService.                                                 *)

Payload(r) == [addresses |-> r.addresses, campaign |-> r.campaign]
PayloadOf(row) == [addresses |-> row.addresses, campaign |-> row.campaign]

Replay(r) ==
  /\ Step(r, IF PayloadOf(recorded[r.event]) = Payload(r) THEN Accepted(recorded[r.event].person) ELSE Failed)
  /\ OnlyCall /\ UNCHANGED granted

\* The sending platform has the key there was at first.
Authenticate == ~keyRotated

\* The key, and the look for the event outside the transaction.
Receive(r) ==
  /\ r.kind = "intake" /\ Begins(r)
  /\ \/ ~Authenticate /\ Step(r, Failed) /\ OnlyCall /\ UNCHANGED granted
     \/ Authenticate /\ recorded[r.event] # NoEvent /\ Replay(r)
     \/ Authenticate /\ recorded[r.event] = NoEvent
        /\ Step(r, [call[r] EXCEPT !.pc = "received"]) /\ OnlyCall /\ UNCHANGED granted

Matches(r) == {owner[a] : a \in r.addresses} \ {NoPerson}

\* The transaction's look for the event, and for the people with the given addresses.
\* A new person's row is written now and nobody else sees it: its id is chosen at the commit.
Match(r) ==
  /\ call[r].pc = "received"
  /\ \/ recorded[r.event] # NoEvent /\ Replay(r)
     \/ /\ recorded[r.event] = NoEvent
        /\ \/ r.campaign \in archived \/ Cardinality(Matches(r)) > 1 \/ r.addresses \cap optedOut # {}
              \/ Matches(r) \cap inactive # {}
           /\ Step(r, Failed)
        /\ OnlyCall /\ UNCHANGED granted
     \/ /\ recorded[r.event] = NoEvent
        /\ r.campaign \notin archived /\ Cardinality(Matches(r)) <= 1
        /\ r.addresses \cap optedOut = {} /\ Matches(r) \cap inactive = {}
        /\ Step(r, [call[r] EXCEPT !.pc = "matched",
                                   !.person = IF Matches(r) = {} THEN NoPerson ELSE CHOOSE p \in Matches(r) : TRUE])
        /\ OnlyCall /\ UNCHANGED granted

\* The enrollment there is: an active one will do, a removed one or none goes through createForTenant.
LookForEnrollment(r) ==
  /\ call[r].pc = "matched"
  /\ LET person == call[r].person
         status == IF person = NoPerson THEN "none" ELSE enrollment[<<person, r.campaign>>] IN
     \/ status \in {"paused", "completed"} /\ Step(r, Failed)
     \/ status \in {"active", "aged"} /\ Step(r, [call[r] EXCEPT !.pc = "allowed", !.existing = status])
     \/ /\ status = "none" /\ person = NoPerson
        /\ Step(r, IF r.campaign \in archived THEN Failed
                   ELSE [call[r] EXCEPT !.pc = "looked", !.count = Cardinality(ActiveContacts)])
     \/ status \in {"none", "removed"} /\ person # NoPerson /\ Step(r, Looked(r, person))
  /\ OnlyCall /\ UNCHANGED granted

\* Defect: the event's row has no unique key.
CollidesOnPeople(r, person) ==
  \/ \E a \in r.addresses : owner[a] \notin {NoPerson, person}
  \/ call[r].existing = "none" /\ person \in known /\ enrollment[<<person, r.campaign>>] # "none"

\* What the unique keys refuse: the event, an address taken meanwhile, the enrollment.
Collides(r, person) ==
  \/ recorded[r.event] # NoEvent
  \/ \E a \in r.addresses : owner[a] \notin {NoPerson, person}
  \/ call[r].existing = "none" /\ person \in known /\ enrollment[<<person, r.campaign>>] # "none"

\* Defect: the new person's row is not part of the transaction.
KnownAnyway(r, person) == known \cup {person}

\* Defect: the new person's row is not written at all.
KnownBefore(r, person) == known

KnownAfter(r, person) == IF Collides(r, person) THEN known ELSE known \cup {person}

\* The transaction's writes, which are seen together or not at all.
Commit(r) ==
  /\ r.kind = "intake" /\ call[r].pc = "allowed"
  /\ call[r].person # NoPerson \/ known # Persons
  /\ LET person == IF call[r].person # NoPerson THEN call[r].person ELSE CHOOSE p \in Persons : p \notin known IN
     /\ known' = KnownAfter(r, person)
     /\ IF Collides(r, person)
        THEN /\ Step(r, [call[r] EXCEPT !.pc = "collided"])
             /\ UNCHANGED <<owner, enrollment, recorded>>
        ELSE /\ owner' = [a \in Addresses |-> IF a \in r.addresses THEN person ELSE owner[a]]
             /\ enrollment' = [enrollment EXCEPT ![<<person, r.campaign>>] =
                  IF call[r].existing \in {"none", "removed"} THEN "active" ELSE @]
             /\ recorded' = [recorded EXCEPT ![r.event] =
                  [addresses |-> r.addresses, campaign |-> r.campaign, person |-> person]]
             /\ Step(r, Accepted(person))
  /\ UNCHANGED <<inactive, optedOut, archived, keyRotated, changes, granted>>

\* After a unique key refused it: another delivery's result, or the advice to try again.
AfterCollision(r) ==
  /\ call[r].pc = "collided"
  /\ IF recorded[r.event] # NoEvent THEN Replay(r)
     ELSE Step(r, Failed) /\ OnlyCall /\ UNCHANGED granted

----------------------------------------------------------------------------
(* What happens beside the requests.                                        *)

Change == changes < MaxChanges /\ changes' = changes + 1

\* The campaign's page: pauseForTenant and removeForTenant update by id, whatever the status.
MutateEnrollment(q, status) ==
  /\ Change
  /\ enrollment[q] # "none"
  /\ enrollment' = [enrollment EXCEPT ![q] = status]
  /\ UNCHANGED <<known, inactive, owner, optedOut, archived, keyRotated, recorded, call, granted>>

PauseEnrollment(q) == MutateEnrollment(q, "paused")
RemoveEnrollment(q) == MutateEnrollment(q, "removed")

\* An evaluation completes the enrollment.
CompleteEnrollment(q) == enrollment[q] \in {"active", "aged"} /\ MutateEnrollment(q, "completed")

\* Time takes an active enrollment past the window.
LeaveWindow(q) == enrollment[q] = "active" /\ MutateEnrollment(q, "aged")

\* The sending platform repeats an event whose answer it did not get or did not like.
SendAgain(r) ==
  /\ Change
  /\ r.kind = "intake" /\ call[r].pc = "done"
  /\ Step(r, NewCall)
  /\ UNCHANGED <<known, inactive, owner, optedOut, enrollment, archived, keyRotated, recorded, granted>>

OptOut(a) ==
  /\ Change
  /\ owner[a] # NoPerson
  /\ optedOut' = optedOut \cup {a}
  /\ UNCHANGED <<known, inactive, owner, enrollment, archived, keyRotated, recorded, call, granted>>

RequestDeletion(p) ==
  /\ Change
  /\ p \in known
  /\ inactive' = inactive \cup {p}
  /\ optedOut' = optedOut \cup {a \in Addresses : owner[a] = p}
  /\ enrollment' = [q \in Pairs |-> IF q[1] = p /\ enrollment[q] \in {"active", "aged"} THEN "removed" ELSE enrollment[q]]
  /\ UNCHANGED <<known, owner, archived, keyRotated, recorded, call, granted>>

ArchiveCampaign(c) ==
  /\ Change
  /\ archived' = archived \cup {c}
  /\ UNCHANGED <<known, inactive, owner, optedOut, enrollment, keyRotated, recorded, call, granted>>

RotateKey == keyRotated' = TRUE

RotateIntakeKey ==
  /\ Change
  /\ RotateKey
  /\ UNCHANGED <<known, inactive, owner, optedOut, enrollment, archived, recorded, call, granted>>

----------------------------------------------------------------------------
Serve(r) == Enroll(r) \/ CheckLimit(r) \/ WriteEnrollment(r) \/ Receive(r) \/ Match(r)
            \/ LookForEnrollment(r) \/ Commit(r) \/ AfterCollision(r)

Next ==
  \/ BillingNext /\ UNCHANGED contacts
  \/ /\ \/ \E r \in Requests : Serve(r)
        \/ \E q \in Pairs : PauseEnrollment(q) \/ RemoveEnrollment(q) \/ CompleteEnrollment(q) \/ LeaveWindow(q)
        \/ \E a \in Addresses : OptOut(a)
        \/ \E p \in Persons : RequestDeletion(p)
        \/ \E c \in Campaigns : ArchiveCampaign(c)
        \/ RotateIntakeKey
        \/ \E r \in Requests : SendAgain(r)
     /\ UNCHANGED billing

Spec == Init /\ [][Next]_vars

----------------------------------------------------------------------------
(* Safety.                                                                  *)

\* The check and the write are apart, so requests at once may go over the limit; but by less
\* than the number of requests in progress at a time, however many there are one after the
\* other and whatever plans and enrollments do meanwhile.
OverrunBounded ==
  LET writing == {r \in Requests : call[r].pc = "allowed" /\ call[r].existing \in {"none", "removed"}} IN
  Cardinality(ActiveContacts \cup {call[r].person : r \in writing}) <= granted + MaxConcurrent - 1

\* An event has one effect: whatever its deliveries ran into, all those that succeed name the
\* person on record for it.
OneEffectPerEvent == \A r, s \in Intakes :
  r.event = s.event /\ call[r].answer = "accepted" /\ call[s].answer = "accepted"
    => call[r].person = call[s].person /\ recorded[r.event].person = call[r].person

\* An intake leaves nothing behind when it fails: a person it made has an address and an event.
NoOrphans == \A p \in known :
  \/ \E a \in Addresses : FirstOwner[a] = p
  \/ /\ \E a \in Addresses : owner[a] = p
     /\ \E v \in Events : recorded[v].person = p

\* Stated by docs/subscriber-intake.md: a paused or completed enrollment is not silently
\* restarted.  A request that read it as removed restarts it by its id.
NotSilentlyRestarted == [][\A q \in Pairs :
  enrollment[q] \in {"paused", "completed"} => enrollment'[q] \notin {"active", "aged"}]_vars

\* Stated by docs/billing.md: a custom plan is not blocked by contact count.
EnterpriseUnlimited == [][\A r \in Requests :
  subscription.plan = "enterprise" /\ call[r].pc = "looked" => call'[r].pc # "done"]_vars

=============================================================================
