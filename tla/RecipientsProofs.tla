-------------------------- MODULE RecipientsProofs --------------------------
(***************************************************************************)
(* Proofs about Recipients: its types, and that opting out lasts, for any  *)
(* number of channels, addresses, campaigns, links and requests at once.   *)
(***************************************************************************)
EXTENDS Recipients, TLAPS

USE RecipientAssumptions

\* What is shown in the portal is one of its pages.
LEMMA PageTypes ==
  /\ [page |-> "none"] \in Pages
  /\ \A cs \in SUBSET Campaigns : [page |-> "dashboard", campaigns |-> cs] \in Pages
  /\ \A c \in Campaigns, b \in BOOLEAN : [page |-> "campaign", id |-> c, leavable |-> b] \in Pages
  /\ \A b \in BOOLEAN : [page |-> "settings", offered |-> b] \in Pages
BY DEF Pages

\* What a request answered in the portal leaves shown is a page again.
LEMMA PageUpdates ==
  ASSUME NEW p \in Pages, NEW b \in BOOLEAN
  PROVE  /\ p.page = "campaign" => [p EXCEPT !.leavable = b] \in Pages
         /\ p.page = "settings" => [p EXCEPT !.offered = b] \in Pages
BY DEF Pages

\* The requests under way are some of those there are.
LEMMA RequestTypes ==
  /\ Idle \in Requests /\ [kind |-> "delete"] \in Requests /\ [kind |-> "leaveAll"] \in Requests
  /\ \A l \in Links, a \in Actions : [kind |-> "link", link |-> l, action |-> a] \in Requests
  /\ \A c \in Campaigns, w \in {"leave", "reply", "evaluate"} : [kind |-> w, campaign |-> c] \in Requests
  /\ \A c \in Campaigns, b \in BOOLEAN : [kind |-> "enroll", campaign |-> c, existing |-> b] \in Requests
BY DEF Requests

\* What the requests carry.
LEMMA RequestFields ==
  ASSUME NEW r \in Requests
  PROVE  /\ r.kind = "link" => r.link \in Links /\ r.action \in Actions
         /\ r.kind \in {"leave", "enroll", "reply", "evaluate"} => r.campaign \in Campaigns
         /\ r.kind = "enroll" => r.existing \in BOOLEAN
BY DEF Requests, Idle

\* The page lists channels that are there: no row is ever deleted.
TInv == TypeOK /\ listed \subseteq Rows

\* The person starts with one channel and nothing else.
LEMMA TypeInit == Init => TInv
<1> SUFFICES ASSUME Init PROVE TInv
  OBVIOUS
<1>1. PICK ch \in Channels, a \in Addresses :
        address = [d \in Channels |-> IF d = ch THEN a ELSE NoAddress] /\ enabled = {ch}
  BY DEF Init
<1>2. address \in [Channels -> Addresses \cup {NoAddress}] /\ enabled \subseteq Rows
  BY <1>1 DEF Rows
<1>3. rows \in [Campaigns -> SUBSET Unfinished] /\ changes \in 0..MaxChanges
  BY DEF Init
<1>4. call \in [Calls -> Requests] /\ portal \in Pages
  BY PageTypes, RequestTypes DEF Init
<1>5. unsubscribed \subseteq Rows /\ suppressed \subseteq unsubscribed /\ optedOut \subseteq Rows
  BY DEF Init
<1> QED
  BY <1>2, <1>3, <1>4, <1>5 DEF Init, TInv, TypeOK

\* Links, their pages and the opt-outs they ask for keep the types.
LEMMA LinkTypes ==
  ASSUME TInv,
         \/ \E l \in Links : LinkSent(l) \/ LinkExpires(l) \/ LoadLink(l)
         \/ \E k \in Calls : \E l \in Links : \E a \in Actions : Apply(k, l, a)
         \/ \E k \in Calls : ApplyCampaign(k) \/ ApplyGlobal(k) \/ ApplyDelete(k)
  PROVE  TInv'
<1> USE DEF TInv, TypeOK, Rows, flags, progress, adminPage, views, history
<1>1. ASSUME NEW l \in Links, LinkSent(l) \/ LinkExpires(l) \/ LoadLink(l) PROVE TInv'
  BY <1>1 DEF LinkSent, LinkExpires, LoadLink
<1>2. ASSUME NEW k \in Calls, NEW l \in Links, NEW a \in Actions, Apply(k, l, a) PROVE TInv'
  BY <1>2, RequestTypes DEF Apply, Begin
<1>3. ASSUME NEW k \in Calls, ApplyCampaign(k) \/ ApplyGlobal(k) \/ ApplyDelete(k) PROVE TInv'
  <2>1. call[k].link \in Links
    BY <1>3, RequestFields DEF ApplyCampaign, ApplyGlobal, ApplyDelete
  <2>2. CASE ApplyCampaign(k)
    BY <2>1, <2>2, RequestTypes DEF ApplyCampaign, RemoveActive, Silence, TokenUsed, End
  <2>3. CASE ApplyGlobal(k)
    BY <2>1, <2>3, RequestTypes DEF ApplyGlobal, OptOutChannels, RemoveActive, Silence, TokenUsed, End
  <2>4. CASE ApplyDelete(k)
    BY <2>1, <2>4, RequestTypes DEF ApplyDelete, OptOutChannels, RemoveActive, Silence, TokenUsed, End
  <2> QED
    BY <1>3, <2>2, <2>3, <2>4
<1> QED
  BY <1>1, <1>2, <1>3

\* So do the portal's pages.
LEMMA PortalTypes ==
  ASSUME TInv,
         \/ LoadDashboard \/ LoadSettings
         \/ \E c \in Campaigns : LoadCampaign(c)
         \/ \E k \in Calls : CampaignLeft(k) \/ UnsubscribeAll(k) \/ AllLeft(k)
         \/ \E k \in Calls : \E c \in Campaigns : UnsubscribeCampaign(k, c)
  PROVE  TInv'
<1> USE DEF TInv, TypeOK, Rows, flags, progress, adminPage, views, history
<1>1. CASE LoadDashboard
  BY <1>1, PageTypes DEF LoadDashboard, GetDashboard, FindActivePersonsForUser, FindPersonsForUser
<1>2. CASE LoadSettings
  BY <1>2, PageTypes DEF LoadSettings, GetSettings, FindPersonsForUser
<1>3. ASSUME NEW c \in Campaigns, LoadCampaign(c) PROVE TInv'
  <2>1. (GetCampaign(c) /\ enrollment[c] = "active") \in BOOLEAN
    OBVIOUS
  <2> QED
    BY <1>3, <2>1, PageTypes DEF LoadCampaign
<1>4. ASSUME NEW k \in Calls, NEW c \in Campaigns, UnsubscribeCampaign(k, c) PROVE TInv'
  BY <1>4, RequestTypes DEF UnsubscribeCampaign, Begin
<1>5. ASSUME NEW k \in Calls, UnsubscribeAll(k) PROVE TInv'
  BY <1>5, RequestTypes DEF UnsubscribeAll, Begin
<1>6. ASSUME NEW k \in Calls, CampaignLeft(k) PROVE TInv'
  <2>1. portal' \in Pages
    BY <1>6, PageUpdates DEF CampaignLeft
  <2>2. call[k].campaign \in Campaigns
    BY <1>6, RequestFields DEF CampaignLeft
  <2> QED
    BY <1>6, <2>1, <2>2, RequestTypes DEF CampaignLeft, Silence, End
<1>7. ASSUME NEW k \in Calls, AllLeft(k) PROVE TInv'
  <2>1. GetSettings \in BOOLEAN
    BY DEF GetSettings, FindPersonsForUser
  <2>2. portal' \in Pages
    BY <1>7, <2>1, PageUpdates DEF AllLeft
  <2> QED
    BY <1>7, <2>2, RequestTypes DEF AllLeft, OptOutChannels, RemoveActive, Silence, End
<1> QED
  BY <1>1, <1>2, <1>3, <1>4, <1>5, <1>6, <1>7

\* So do administrators and progress.
LEMMA AdminTypes ==
  ASSUME TInv,
         \/ LoadPage \/ ArchivePerson
         \/ \E ch \in Channels : ToggleChannel(ch)
         \/ \E ch \in Channels : \E a \in Addresses : UpdateChannel(ch, a) \/ \E on \in BOOLEAN : AddChannel(ch, a, on)
         \/ \E k \in Calls : RequestDeletion(k) \/ DeletionRequested(k) \/ Enrolled(k)
         \/ \E k \in Calls : \E c \in Campaigns : EnrollSelectedCampaign(k, c)
         \/ \E k \in Calls : RecordReply(k) \/ CompleteCurrentStep(k)
         \/ \E k \in Calls : \E c \in Campaigns : \E kind \in {"reply", "evaluate"} : Take(k, c, kind)
         \/ \E c \in Campaigns : \E status \in {"paused", "removed"} : PauseOrRemove(c, status)
  PROVE  TInv'
<1> USE DEF TInv, TypeOK, Rows, flags, progress, adminPage, views, history
<1>1. CASE LoadPage \/ ArchivePerson
  <2>1. CASE LoadPage
    BY <2>1 DEF LoadPage
  <2>2. CASE ArchivePerson
    BY <2>2 DEF ArchivePerson, Archive, Change
  <2> QED
    BY <1>1, <2>1, <2>2
<1>2. ASSUME NEW ch \in Channels, ToggleChannel(ch) PROVE TInv'
  BY <1>2 DEF ToggleChannel, Update, LoadPerson, Change
<1>3. ASSUME NEW ch \in Channels, NEW a \in Addresses, UpdateChannel(ch, a) PROVE TInv'
  BY <1>3 DEF UpdateChannel, Update, Change
<1>4. ASSUME NEW ch \in Channels, NEW a \in Addresses, NEW on \in BOOLEAN, AddChannel(ch, a, on) PROVE TInv'
  BY <1>4 DEF AddChannel, CreateChannel, LoadPerson, Change
<1>5. ASSUME NEW k \in Calls, RequestDeletion(k) PROVE TInv'
  BY <1>5, RequestTypes DEF RequestDeletion, Begin, Change
<1>6. ASSUME NEW k \in Calls, DeletionRequested(k) PROVE TInv'
  BY <1>6, RequestTypes DEF DeletionRequested, OptOutChannels, RemoveActive, LoadPerson, End
<1>7. ASSUME NEW k \in Calls, NEW c \in Campaigns, EnrollSelectedCampaign(k, c) PROVE TInv'
  <2> DEFINE removed == enrollment[c] = "removed"
  <2>1. removed \in BOOLEAN
    OBVIOUS
  <2>2. call' = [call EXCEPT ![k] = [kind |-> "enroll", campaign |-> c, existing |-> removed]]
    BY <1>7 DEF EnrollSelectedCampaign, Begin
  <2> HIDE DEF removed
  <2> QED
    BY <1>7, <2>1, <2>2, RequestTypes DEF EnrollSelectedCampaign, Change
<1>8. ASSUME NEW k \in Calls, Enrolled(k) PROVE TInv'
  <2>1. call[k].campaign \in Campaigns
    BY <1>8, RequestFields DEF Enrolled
  <2> QED
    BY <1>8, <2>1, RequestTypes DEF Enrolled, Unfinished, End
<1>9. ASSUME NEW c \in Campaigns, NEW status \in {"paused", "removed"}, PauseOrRemove(c, status) PROVE TInv'
  BY <1>9 DEF PauseOrRemove, FindEnrollment, Change
<1>10. ASSUME NEW k \in Calls, NEW c \in Campaigns, NEW kind \in {"reply", "evaluate"}, Take(k, c, kind) PROVE TInv'
  BY <1>10, RequestTypes DEF Take, Begin
<1>11. ASSUME NEW k \in Calls, RecordReply(k) PROVE TInv'
  <2>1. call[k].campaign \in Campaigns
    BY <1>11, RequestFields DEF RecordReply
  <2> QED
    BY <1>11, <2>1, RequestTypes DEF RecordReply, OneRowBecomes, Unfinished, End
<1>12. ASSUME NEW k \in Calls, CompleteCurrentStep(k) PROVE TInv'
  <2>1. call[k].campaign \in Campaigns
    BY <1>12, RequestFields DEF CompleteCurrentStep
  <2> QED
    BY <1>12, <2>1, RequestTypes DEF CompleteCurrentStep, OneRowBecomes, End
<1> QED
  BY <1>1, <1>2, <1>3, <1>4, <1>5, <1>6, <1>7, <1>8, <1>9, <1>10, <1>11, <1>12

\* Every step keeps the types.
LEMMA TypeStep == TInv /\ [Next]_vars => TInv'
<1> SUFFICES ASSUME TInv, [Next]_vars PROVE TInv'
  OBVIOUS
<1>1. CASE UNCHANGED vars
  BY <1>1 DEF TInv, TypeOK, Rows, vars, flags, progress, adminPage, views, history
<1>2. CASE Next
  BY <1>2, LinkTypes, PortalTypes, AdminTypes DEF Next
<1> QED
  BY <1>1, <1>2

\* Every variable keeps its type, and the flags stay with the channels there are.
THEOREM Typing == Spec => []TypeOK
<1>1. TInv => TypeOK
  BY DEF TInv
<1> QED
  BY <1>1, TypeInit, TypeStep, PTL DEF Spec

----------------------------------------------------------------------------
(* Opting out of everything.  No action takes the opt-out's flag from a     *)
(* channel: what must be shown is that the flag was set on all of them.     *)

OptInv == optedOut \subseteq unsubscribed

\* The requests that opt out set the flag on the rows they find, and nothing else writes it.
LEMMA OptStep == OptInv /\ [Next]_vars => OptInv'
<1> SUFFICES ASSUME OptInv, [Next]_vars PROVE OptInv'
  OBVIOUS
<1> USE DEF OptInv
<1>1. CASE OptOutChannels
  BY <1>1 DEF OptOutChannels
<1>2. CASE UNCHANGED <<optedOut, unsubscribed>>
  BY <1>2
<1>3. ASSUME NEW k \in Calls,
             ApplyCampaign(k) \/ ApplyGlobal(k) \/ ApplyDelete(k) \/ CampaignLeft(k) \/ AllLeft(k) \/ DeletionRequested(k)
      PROVE  OptOutChannels \/ UNCHANGED <<optedOut, unsubscribed>>
  BY <1>3 DEF ApplyCampaign, ApplyGlobal, ApplyDelete, CampaignLeft, AllLeft, DeletionRequested, flags
<1>4. ASSUME NEW k \in Calls,
             \/ \E l \in Links : \E a \in Actions : Apply(k, l, a)
             \/ UnsubscribeAll(k) \/ RequestDeletion(k) \/ Enrolled(k) \/ RecordReply(k) \/ CompleteCurrentStep(k)
             \/ \E c \in Campaigns : UnsubscribeCampaign(k, c) \/ EnrollSelectedCampaign(k, c)
                                     \/ \E kind \in {"reply", "evaluate"} : Take(k, c, kind)
      PROVE  UNCHANGED <<optedOut, unsubscribed>>
  BY <1>4 DEF Apply, UnsubscribeAll, RequestDeletion, Enrolled, RecordReply, CompleteCurrentStep, UnsubscribeCampaign,
              EnrollSelectedCampaign, Take, flags, history
<1>5. ASSUME \/ \E l \in Links : LinkSent(l) \/ LinkExpires(l) \/ LoadLink(l)
             \/ LoadDashboard \/ LoadSettings \/ LoadPage \/ ArchivePerson
             \/ \E c \in Campaigns : LoadCampaign(c) \/ \E status \in {"paused", "removed"} : PauseOrRemove(c, status)
      PROVE  UNCHANGED <<optedOut, unsubscribed>>
  BY <1>5 DEF LinkSent, LinkExpires, LoadLink, LoadDashboard, LoadSettings, LoadPage, ArchivePerson,
              LoadCampaign, PauseOrRemove, flags, history
<1>6. ASSUME NEW ch \in Channels,
             \/ ToggleChannel(ch)
             \/ \E a \in Addresses : UpdateChannel(ch, a) \/ \E on \in BOOLEAN : AddChannel(ch, a, on)
      PROVE  UNCHANGED <<optedOut, unsubscribed>>
  BY <1>6 DEF ToggleChannel, UpdateChannel, AddChannel, Update
<1>7. CASE UNCHANGED vars
  BY <1>7 DEF vars, flags, history
<1>8. CASE Next
  BY <1>1, <1>2, <1>3, <1>4, <1>5, <1>6, <1>8 DEF Next
<1> QED
  BY <1>7, <1>8

\* However many requests overlap and however old the pages are, nothing is sent again over a
\* channel that was there when its person opted out of everything.
THEOREM OptOut == Spec => []OptOutLasts
<1>1. Init => OptInv
  BY DEF Init, OptInv
<1>2. OptInv => OptOutLasts
  BY DEF OptInv, OptOutLasts, Sendable
<1> QED
  BY <1>1, <1>2, OptStep, PTL DEF Spec

----------------------------------------------------------------------------
(* Opting out of campaigns.                                                 *)

\* The statements of an opt-out silence what they name, and leave silent what was silent.
LEMMA OptOutsSilence ==
  ASSUME TInv, SilencedStaysSilent, NEW cs \in SUBSET Campaigns, RemoveActive(cs), Silence(cs)
  PROVE  SilencedStaysSilent'
BY DEF TInv, TypeOK, SilencedStaysSilent, RemoveActive, Silence

\* Whatever leaves the enrollments alone leaves them silent; so do replies, evaluations and the
\* requests' ends.
LEMMA SilentStep == TInv /\ SilencedStaysSilent /\ [Next]_vars => SilencedStaysSilent'
<1> SUFFICES ASSUME TInv, SilencedStaysSilent, [Next]_vars PROVE SilencedStaysSilent'
  OBVIOUS
<1>1. CASE UNCHANGED <<enrollment, rows, silenced>>
  BY <1>1 DEF SilencedStaysSilent
<1>2. ASSUME NEW k \in Calls, ApplyCampaign(k) \/ ApplyGlobal(k) \/ ApplyDelete(k) \/ AllLeft(k)
      PROVE  SilencedStaysSilent'
  <2>1. ApplyCampaign(k) => call[k].link \in Links
    BY RequestFields DEF ApplyCampaign, TInv, TypeOK
  <2>2. \E cs \in SUBSET Campaigns : RemoveActive(cs) /\ Silence(cs)
    BY <1>2, <2>1, RecipientAssumptions DEF ApplyCampaign, ApplyGlobal, ApplyDelete, AllLeft
  <2> QED
    BY <2>2, OptOutsSilence
<1>3. ASSUME NEW k \in Calls, CampaignLeft(k) PROVE SilencedStaysSilent'
  <2>1. call[k].campaign \in Campaigns
    BY <1>3, RequestFields DEF CampaignLeft, TInv, TypeOK
  <2> QED
    BY <1>3, <2>1 DEF CampaignLeft, Silence, TInv, TypeOK, SilencedStaysSilent
<1>4. ASSUME NEW k \in Calls, DeletionRequested(k) PROVE SilencedStaysSilent'
  BY <1>4 DEF DeletionRequested, RemoveActive, TInv, TypeOK, SilencedStaysSilent
<1>5. ASSUME NEW k \in Calls, Enrolled(k) PROVE SilencedStaysSilent'
  <2>1. call[k].campaign \in Campaigns
    BY <1>5, RequestFields DEF Enrolled, TInv, TypeOK
  <2> QED
    BY <1>5, <2>1 DEF Enrolled, progress, TInv, TypeOK, SilencedStaysSilent
<1>6. ASSUME NEW c \in Campaigns, \E status \in {"paused", "removed"} : PauseOrRemove(c, status)
      PROVE  SilencedStaysSilent'
  BY <1>6 DEF PauseOrRemove, TInv, TypeOK, SilencedStaysSilent
<1>7. ASSUME NEW k \in Calls,
             \/ \E l \in Links : \E a \in Actions : Apply(k, l, a)
             \/ UnsubscribeAll(k) \/ RequestDeletion(k)
             \/ \E c \in Campaigns : UnsubscribeCampaign(k, c) \/ EnrollSelectedCampaign(k, c)
                                     \/ \E kind \in {"reply", "evaluate"} : Take(k, c, kind)
      PROVE  UNCHANGED <<enrollment, rows, silenced>>
  BY <1>7 DEF Apply, UnsubscribeAll, RequestDeletion, UnsubscribeCampaign, EnrollSelectedCampaign, Take, progress, history
<1>8. ASSUME \/ \E l \in Links : LinkSent(l) \/ LinkExpires(l) \/ LoadLink(l)
             \/ LoadDashboard \/ LoadSettings \/ LoadPage \/ ArchivePerson
             \/ \E c \in Campaigns : LoadCampaign(c)
      PROVE  UNCHANGED <<enrollment, rows, silenced>>
  BY <1>8 DEF LinkSent, LinkExpires, LoadLink, LoadDashboard, LoadSettings, LoadPage, ArchivePerson, LoadCampaign,
              progress, history
<1>9. ASSUME NEW ch \in Channels,
             \/ ToggleChannel(ch)
             \/ \E a \in Addresses : UpdateChannel(ch, a) \/ \E on \in BOOLEAN : AddChannel(ch, a, on)
      PROVE  UNCHANGED <<enrollment, rows, silenced>>
  BY <1>9 DEF ToggleChannel, UpdateChannel, AddChannel, progress
<1>10. CASE UNCHANGED vars
  BY <1>10, <1>1 DEF vars, progress, history
<1>11. ASSUME NEW k \in Calls, RecordReply(k) \/ CompleteCurrentStep(k) PROVE SilencedStaysSilent'
  <2>1. call[k].campaign \in Campaigns
    BY <1>11, RequestFields DEF RecordReply, CompleteCurrentStep, TInv, TypeOK
  <2>2. CASE RecordReply(k)
    BY <2>1, <2>2 DEF RecordReply, OneRowBecomes, history, TInv, TypeOK, SilencedStaysSilent
  <2>3. CASE CompleteCurrentStep(k)
    BY <2>1, <2>3 DEF CompleteCurrentStep, OneRowBecomes, progress, history, TInv, TypeOK, SilencedStaysSilent
  <2> QED
    BY <1>11, <2>2, <2>3
<1>12. CASE Next
  BY <1>1, <1>2, <1>3, <1>4, <1>5, <1>6, <1>7, <1>8, <1>9, <1>11, <1>12 DEF Next
<1> QED
  BY <1>10, <1>12

\* An enrollment opted out of is not active and has no row that waits until somebody enrolls the
\* person anew, replies and evaluations that were under way included: all they leave is a row
\* that says replied.
THEOREM Silent == Spec => []SilencedStaysSilent
<1>1. Init => SilencedStaysSilent
  BY DEF Init, SilencedStaysSilent
<1> QED
  BY <1>1, TypeInit, TypeStep, SilentStep, PTL DEF Spec
=============================================================================
