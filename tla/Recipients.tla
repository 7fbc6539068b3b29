----------------------------- MODULE Recipients -----------------------------
(***************************************************************************)
(* One person and everyone who changes what may be sent to them: the       *)
(* person's own unsubscribe links, portal and replies, administrators on   *)
(* the person's page and through the API, and progress.  The requests that *)
(* read first and write later are two steps; what the pages show is as old *)
(* as their last load.  Which persons an address belongs to, and the limit *)
(* on enrollments, are Contacts' subject.                                  *)
(***************************************************************************)
EXTENDS FiniteSets, Integers

CONSTANTS
  Channels,   \* channel rows the person may get
  Addresses, NoAddress,
  Campaigns,
  Links,      \* unsubscribe tokens, and the campaign of each one's message
  CampaignOf,
  Calls,      \* concurrent requests
  MaxChanges  \* bound: changes by administrators

ASSUME RecipientAssumptions ==
  NoAddress \notin Addresses /\ CampaignOf \in [Links -> Campaigns] /\ MaxChanges \in Nat

VARIABLES
  person, archived,    \* persons.status, and whether archivedAt is set
  address,             \* of each channel row, NoAddress without a row
  enabled, unsubscribed, suppressed, \* the channels with these flags
  enrollment,          \* campaign -> enrollments.status, "none" without a row
  rows,                \* campaign -> unfinished statuses its enrollment's step rows have
  link,                \* unsubscribe_tokens
  call,                \* requests between their reads and their writes
  listed, shownOn,     \* the person's page: channels it lists, and those it shows enabled
  opened,              \* links whose page shows its buttons
  portal,              \* the page of the portal that is open, and what it shows
  optedOut, silenced,  \* history: channels there at a global opt-out, enrollments opted out of
  changes              \* counter for the bound

flags == <<enabled, unsubscribed, suppressed>>
progress == <<enrollment, rows>>
adminPage == <<listed, shownOn>>
views == <<adminPage, opened, portal>>
history == <<optedOut, silenced, changes>>
vars == <<person, archived, address, flags, progress, link, call, views, history>>

Rows == {ch \in Channels : address[ch] # NoAddress}
Sendable(ch) == ch \in enabled \ (unsubscribed \cup suppressed)

Pages ==
  {[page |-> "none"]}
    \cup [page : {"dashboard"}, campaigns : SUBSET Campaigns]
    \cup [page : {"campaign"}, id : Campaigns, leavable : BOOLEAN]
    \cup [page : {"settings"}, offered : BOOLEAN]

\* Of the statuses an opt-out looks for; all but replied count as waiting.
Unfinished == {"waiting", "replied"}

Idle == [kind |-> "idle"]
Actions == {"campaign", "global", "delete"}
Requests ==
  {Idle, [kind |-> "delete"], [kind |-> "leaveAll"]}
    \cup [kind : {"link"}, link : Links, action : Actions]
    \cup [kind : {"leave", "reply", "evaluate"}, campaign : Campaigns]
    \cup [kind : {"enroll"}, campaign : Campaigns, existing : BOOLEAN]

TypeOK ==
  /\ person \in {"active", "archived", "deletion_requested"} /\ archived \in BOOLEAN
  /\ address \in [Channels -> Addresses \cup {NoAddress}]
  /\ enabled \subseteq Rows /\ unsubscribed \subseteq Rows /\ suppressed \subseteq unsubscribed
  /\ enrollment \in [Campaigns -> {"none", "active", "paused", "completed", "removed"}]
  /\ rows \in [Campaigns -> SUBSET Unfinished]
  /\ link \in [Links -> {"none", "usable", "used", "expired"}]
  /\ call \in [Calls -> Requests]
  /\ listed \subseteq Channels /\ shownOn \subseteq listed
  /\ opened \subseteq Links /\ portal \in Pages
  /\ optedOut \subseteq Rows /\ silenced \subseteq Campaigns
  /\ changes \in 0..MaxChanges

Init ==
  /\ person = "active" /\ archived = FALSE
  /\ \E ch \in Channels, a \in Addresses :
       address = [d \in Channels |-> IF d = ch THEN a ELSE NoAddress] /\ enabled = {ch}
  /\ unsubscribed = {} /\ suppressed = {}
  /\ enrollment = [c \in Campaigns |-> "none"] /\ rows = [c \in Campaigns |-> {}]
  /\ link = [l \in Links |-> "none"]
  /\ call = [k \in Calls |-> Idle]
  /\ listed = {} /\ shownOn = {} /\ opened = {} /\ portal = [page |-> "none"]
  /\ optedOut = {} /\ silenced = {} /\ changes = 0

Begin(k, request) == call[k] = Idle /\ call' = [call EXCEPT ![k] = request]
End(k) == call' = [call EXCEPT ![k] = Idle]
Change == changes < MaxChanges /\ changes' = changes + 1

----------------------------------------------------------------------------
(* The statements the opt-outs are made of.                                 *)

RemoveActive(cs) ==
  enrollment' = [c \in Campaigns |-> IF c \in cs /\ enrollment[c] = "active" THEN "removed" ELSE enrollment[c]]

\* Defect: only the step rows of enrollments that are active are found.
SilenceActive(cs) ==
  /\ rows' = [c \in Campaigns |-> IF c \in cs /\ enrollment[c] = "active" THEN {} ELSE rows[c]]
  /\ silenced' = silenced \cup cs

\* The unfinished step rows become unsubscribed, whatever the enrollment's status.
Silence(cs) ==
  /\ rows' = [c \in Campaigns |-> IF c \in cs THEN {} ELSE rows[c]]
  /\ silenced' = silenced \cup cs

OptOutChannels ==
  /\ enabled' = {} /\ unsubscribed' = Rows
  /\ optedOut' = Rows

----------------------------------------------------------------------------
(* Unsubscribe links.                                                       *)

\* Message preparation puts a link into every message, whatever the enrollment's status is.
LinkSent(l) ==
  /\ link[l] = "none"
  /\ person = "active" /\ enrollment[CampaignOf[l]] # "none" /\ \E ch \in Channels : Sendable(ch)
  /\ link' = [link EXCEPT ![l] = "usable"]
  /\ UNCHANGED <<person, archived, address, flags, progress, call, views, history>>

LinkExpires(l) ==
  /\ link[l] = "usable"
  /\ link' = [link EXCEPT ![l] = "expired"]
  /\ UNCHANGED <<person, archived, address, flags, progress, call, views, history>>

FindUsableToken(l) == link[l] = "usable"

Resolve(l) == FindUsableToken(l)

\* The link's page shows its buttons.
LoadLink(l) ==
  /\ Resolve(l)
  /\ opened' = opened \cup {l}
  /\ UNCHANGED <<person, archived, address, flags, progress, link, call, adminPage, portal, history>>

\* apply; the token is found outside the transaction, and the buttons stay enabled meanwhile.
Apply(k, l, action) ==
  /\ l \in opened
  /\ FindUsableToken(l)
  /\ Begin(k, [kind |-> "link", link |-> l, action |-> action])
  /\ UNCHANGED <<person, archived, address, flags, progress, link, views, history>>

\* The page that asked for it hides its buttons.
TokenUsed(l) == link' = [link EXCEPT ![l] = "used"] /\ opened' = opened \ {l}

ApplyCampaign(k) ==
  /\ call[k].kind = "link" /\ call[k].action = "campaign"
  /\ RemoveActive({CampaignOf[call[k].link]})
  /\ Silence({CampaignOf[call[k].link]})
  /\ TokenUsed(call[k].link)
  /\ End(k)
  /\ UNCHANGED <<person, archived, address, flags, adminPage, portal, optedOut, changes>>

ApplyGlobal(k) ==
  /\ call[k].kind = "link" /\ call[k].action = "global"
  /\ OptOutChannels
  /\ RemoveActive(Campaigns)
  /\ Silence(Campaigns)
  /\ TokenUsed(call[k].link)
  /\ End(k)
  /\ UNCHANGED <<person, archived, address, suppressed, adminPage, portal, changes>>

ApplyDelete(k) ==
  /\ call[k].kind = "link" /\ call[k].action = "delete"
  /\ person' = "deletion_requested"
  /\ OptOutChannels
  /\ suppressed' = Rows
  /\ RemoveActive(Campaigns)
  /\ Silence(Campaigns)
  /\ TokenUsed(call[k].link)
  /\ End(k)
  /\ UNCHANGED <<archived, address, adminPage, portal, changes>>

----------------------------------------------------------------------------
(* The recipient's portal.                                                  *)

FindPersonsForUser == ~archived
FindActivePersonsForUser == FindPersonsForUser /\ person = "active"

\* What getDashboard lists, and what getCampaign finds.
GetDashboard == {c \in Campaigns : FindActivePersonsForUser /\ enrollment[c] \notin {"none", "removed"}}
GetCampaign(c) == FindActivePersonsForUser /\ enrollment[c] \notin {"none", "removed"}

\* getSettings lists everybody but the deletion-requested.
GetSettings == FindPersonsForUser /\ person # "deletion_requested"

LoadDashboard ==
  /\ portal' = [page |-> "dashboard", campaigns |-> GetDashboard]
  /\ UNCHANGED <<person, archived, address, flags, progress, link, call, adminPage, opened, history>>

\* loadCampaign, from the dashboard's link or again; a campaign that is not found is an
\* error, which hides the button.
LoadCampaign(c) ==
  /\ \/ portal.page = "dashboard" /\ c \in portal.campaigns
     \/ portal.page = "campaign" /\ portal.id = c
  /\ portal' = [page |-> "campaign", id |-> c, leavable |-> GetCampaign(c) /\ enrollment[c] = "active"]
  /\ UNCHANGED <<person, archived, address, flags, progress, link, call, adminPage, opened, history>>

LoadSettings ==
  /\ portal' = [page |-> "settings", offered |-> GetSettings]
  /\ UNCHANGED <<person, archived, address, flags, progress, link, call, adminPage, opened, history>>

\* unsubscribeCampaign, on a page that shows the campaign active, and what its request reads.
UnsubscribeCampaign(k, c) ==
  /\ portal = [page |-> "campaign", id |-> c, leavable |-> TRUE]
  /\ FindActivePersonsForUser /\ enrollment[c] = "active"
  /\ Begin(k, [kind |-> "leave", campaign |-> c])
  /\ UNCHANGED <<person, archived, address, flags, progress, link, views, history>>

\* The transaction updates the enrollment by its id; the page reloads and does not find it.
CampaignLeft(k) ==
  LET c == call[k].campaign IN
  /\ call[k].kind = "leave"
  /\ enrollment' = [enrollment EXCEPT ![c] = "removed"]
  /\ Silence({c})
  /\ End(k)
  /\ portal' = IF portal.page = "campaign" /\ portal.id = c THEN [portal EXCEPT !.leavable = FALSE] ELSE portal
  /\ UNCHANGED <<person, archived, address, flags, link, adminPage, opened, optedOut, changes>>

UnsubscribeAll(k) ==
  /\ portal = [page |-> "settings", offered |-> TRUE]
  /\ FindActivePersonsForUser
  /\ Begin(k, [kind |-> "leaveAll"])
  /\ UNCHANGED <<person, archived, address, flags, progress, link, views, history>>

\* The transaction updates the channels there are now, whatever became of the person.
AllLeft(k) ==
  /\ call[k].kind = "leaveAll"
  /\ OptOutChannels
  /\ RemoveActive(Campaigns)
  /\ Silence(Campaigns)
  /\ End(k)
  /\ portal' = IF portal.page = "settings" THEN [portal EXCEPT !.offered = GetSettings] ELSE portal
  /\ UNCHANGED <<person, archived, address, suppressed, link, adminPage, opened, changes>>

----------------------------------------------------------------------------
(* Administrators.  A person who is archived is not found.                  *)

FindById == person # "archived"

LoadPage ==
  /\ FindById
  /\ listed' = Rows /\ shownOn' = enabled
  /\ UNCHANGED <<person, archived, address, flags, progress, link, call, opened, portal, history>>

\* mutatePerson loads the person again after its request, unless the page has been left.
LoadPerson ==
  /\ listed' = IF listed = {} THEN {} ELSE {ch \in Channels : address'[ch] # NoAddress}
  /\ shownOn' = IF listed = {} THEN {} ELSE enabled'
  /\ UNCHANGED <<opened, portal>>

\* An address belongs to one channel row of the organization.
Conflicts(ch, a) == \E d \in Rows \ {ch} : address[d] = a

CreateChannel(ch, a, on) ==
  /\ FindById
  /\ address' = [address EXCEPT ![ch] = a]
  /\ enabled' = IF on THEN enabled \cup {ch} ELSE enabled

AddChannel(ch, a, on) ==
  /\ listed # {} /\ ch \notin Rows /\ ~Conflicts(ch, a)
  /\ Change
  /\ CreateChannel(ch, a, on)
  /\ LoadPerson
  /\ UNCHANGED <<person, archived, unsubscribed, suppressed, progress, link, call, optedOut, silenced>>

\* Defect: enabling a channel ends the opt-out.
UpdateForgiving(ch, a, on) ==
  /\ address' = [address EXCEPT ![ch] = a]
  /\ enabled' = IF on THEN enabled \cup {ch} ELSE enabled \ {ch}
  /\ unsubscribed' = IF on THEN unsubscribed \ {ch} ELSE unsubscribed
  /\ UNCHANGED suppressed

\* updateChannelForTenant: the flags of opt-outs and suppression are not its to write.
Update(ch, a, on) ==
  /\ address' = [address EXCEPT ![ch] = a]
  /\ enabled' = IF on THEN enabled \cup {ch} ELSE enabled \ {ch}
  /\ UNCHANGED <<unsubscribed, suppressed>>

\* The API's update: a new address keeps the row and its flags.
UpdateChannel(ch, a) ==
  /\ FindById /\ ch \in Rows /\ ~Conflicts(ch, a)
  /\ Change
  /\ Update(ch, a, ch \in enabled)
  /\ UNCHANGED <<person, archived, progress, link, call, views, optedOut, silenced>>

\* The page's button sends the opposite of what the page shows.
ToggleChannel(ch) ==
  /\ FindById /\ ch \in listed
  /\ Change
  /\ Update(ch, address[ch], ch \notin shownOn)
  /\ LoadPerson
  /\ UNCHANGED <<person, archived, progress, link, call, optedOut, silenced>>

RequestDeletion(k) ==
  /\ listed # {} /\ FindById /\ Change
  /\ Begin(k, [kind |-> "delete"])
  /\ UNCHANGED <<person, archived, address, flags, progress, link, views, optedOut, silenced>>

\* The transaction of markDeletionRequestedForTenant; the step rows stay as they are.
DeletionRequested(k) ==
  /\ call[k].kind = "delete"
  /\ person' = "deletion_requested"
  /\ OptOutChannels
  /\ suppressed' = Rows
  /\ RemoveActive(Campaigns)
  /\ End(k)
  /\ UNCHANGED <<archived, address, rows, link, silenced, changes>>
  /\ LoadPerson

Archive == FindById /\ person' = "archived" /\ archived' = TRUE

\* archivePerson leaves the page.
ArchivePerson ==
  /\ listed # {} /\ Change
  /\ Archive
  /\ listed' = {} /\ shownOn' = {}
  /\ UNCHANGED <<address, flags, progress, link, call, opened, portal, optedOut, silenced>>

\* A deletion-requested person is found too.
FindPerson == person # "archived"

\* createForTenant of the enrollments: anybody found who is not enrolled.
Enrollable(c) == FindPerson /\ enrollment[c] \in {"none", "removed"}

EnrollSelectedCampaign(k, c) ==
  /\ listed # {} /\ Enrollable(c) /\ Change
  /\ Begin(k, [kind |-> "enroll", campaign |-> c, existing |-> enrollment[c] = "removed"])
  /\ UNCHANGED <<person, archived, address, flags, progress, link, views, optedOut, silenced>>

\* A restart goes by the row's id, a first enrollment by a key that may be taken by now.
Enrolled(k) ==
  LET c == call[k].campaign IN
  /\ call[k].kind = "enroll"
  /\ End(k)
  /\ IF call[k].existing \/ enrollment[c] = "none"
     THEN /\ enrollment' = [enrollment EXCEPT ![c] = "active"]
          /\ rows' = [rows EXCEPT ![c] = {"waiting"}]
          /\ silenced' = silenced \ {c}
     ELSE UNCHANGED <<progress, silenced>>
  /\ UNCHANGED <<person, archived, address, flags, link, views, optedOut, changes>>

FindEnrollment(c) == enrollment[c] # "none"

\* pauseForTenant and removeForTenant go by id, whatever the status is.
PauseOrRemove(c, status) ==
  /\ FindEnrollment(c) /\ Change
  /\ enrollment' = [enrollment EXCEPT ![c] = status]
  /\ UNCHANGED <<person, archived, address, flags, rows, link, call, views, optedOut, silenced>>

----------------------------------------------------------------------------
(* Replies and progress.                                                    *)

\* The unfinished statuses after one step row, of any status, was given a status of these.
OneRowBecomes(c, statuses) ==
  \E left \in {rows[c]} \cup {rows[c] \ {status} : status \in rows[c]} :
    rows' = [rows EXCEPT ![c] = left \cup statuses]

\* handleTwilioReply and handleTelegram find an active enrollment, evaluateEnrollment its own.
Take(k, c, kind) ==
  /\ enrollment[c] = "active"
  /\ Begin(k, [kind |-> kind, campaign |-> c])
  /\ UNCHANGED <<person, archived, address, flags, progress, link, views, history>>

\* The reply overwrites the status of the row that was the current step's, whatever it is by now.
RecordReply(k) ==
  /\ call[k].kind = "reply"
  /\ OneRowBecomes(call[k].campaign, {"replied"})
  /\ End(k)
  /\ UNCHANGED <<person, archived, address, flags, enrollment, link, views, history>>

\* completeCurrentStep: the row by its id, unless it is completed or gone, and the enrollment by its.
CompleteCurrentStep(k) ==
  LET c == call[k].campaign IN
  /\ call[k].kind = "evaluate"
  /\ \/ UNCHANGED progress
     \/ /\ OneRowBecomes(c, {})
        /\ \E status \in {enrollment[c], "completed"} : enrollment' = [enrollment EXCEPT ![c] = status]
  /\ End(k)
  /\ UNCHANGED <<person, archived, address, flags, link, views, history>>

----------------------------------------------------------------------------
Next ==
  \/ \E l \in Links : LinkSent(l) \/ LinkExpires(l) \/ LoadLink(l)
  \/ \E k \in Calls : \E l \in Links : \E a \in Actions : Apply(k, l, a)
  \/ \E k \in Calls : ApplyCampaign(k) \/ ApplyGlobal(k) \/ ApplyDelete(k)
  \/ LoadDashboard \/ LoadSettings \/ LoadPage \/ ArchivePerson
  \/ \E k \in Calls : CampaignLeft(k) \/ UnsubscribeAll(k) \/ AllLeft(k)
  \/ \E k \in Calls : RequestDeletion(k) \/ DeletionRequested(k) \/ Enrolled(k)
  \/ \E k \in Calls : RecordReply(k) \/ CompleteCurrentStep(k)
  \/ \E k \in Calls : \E c \in Campaigns : \E kind \in {"reply", "evaluate"} : Take(k, c, kind)
  \/ \E ch \in Channels : ToggleChannel(ch)
  \/ \E ch \in Channels : \E a \in Addresses : UpdateChannel(ch, a) \/ \E on \in BOOLEAN : AddChannel(ch, a, on)
  \/ \E c \in Campaigns : LoadCampaign(c) \/ \E status \in {"paused", "removed"} : PauseOrRemove(c, status)
  \/ \E k \in Calls : \E c \in Campaigns : UnsubscribeCampaign(k, c) \/ EnrollSelectedCampaign(k, c)

Spec == Init /\ [][Next]_vars

----------------------------------------------------------------------------
(* Safety.                                                                  *)

\* Whatever an administrator does, on a page of whatever age, nothing is ever sent again over
\* a channel that was there when its person opted out of everything or asked for deletion.
OptOutLasts == \A ch \in optedOut : ~Sendable(ch)

\* An enrollment the person opted out of is not active, and no row of it waits to be queued, sent
\* or completed, until somebody enrolls the person anew: pauses, evaluations
\* under way and other opt-outs revive nothing.  All that can come back is the row of a reply that
\* was taken before: it is replied again.  Of jobs that were queued before, SendMessage tells.
SilencedStaysSilent == \A c \in silenced : enrollment[c] # "active" /\ rows[c] \subseteq {"replied"}

=============================================================================
