------------------------------ MODULE Accounts ------------------------------
(***************************************************************************)
(* auth.service.ts and the guards: accounts, reset and invite tokens and   *)
(* the session version that every request is checked against; with the     *)
(* browser's side, use-auth-session.ts and api-client.ts: tabs that hold a *)
(* session each and share the stored one, with calls under way that are    *)
(* answered in any order.                                                  *)
(***************************************************************************)
EXTENDS Integers, FiniteSets

CONSTANTS
  Emails, Slugs, Passwords,
  Founder, Home, First,    \* the account there is, its organization and its password
  Tabs, Calls,
  MaxVersion, MaxTokens,   \* bounds: password resets and logouts; tokens of each kind
  NoUser, NoToken

ASSUME AccountAssumptions ==
  /\ Founder \in Emails /\ Home \in Slugs /\ First \in Passwords
  /\ MaxVersion \in Nat /\ MaxTokens \in Nat
  /\ NoUser \notin [password : Passwords, version : Nat, role : {"owner", "admin"}, org : Slugs]
  /\ NoToken \notin [email : Emails, version : Nat, password : Passwords]

VARIABLES
  user,        \* email -> password, sessionVersion, and the role in its organization
  orgs,        \* slugs taken
  resets, invites,  \* tokens sent: for whom, and whether open, used or expired
  call,        \* calls under way: what the server has read or answered for each
  held, stored \* the session in each tab's memory, and that in local storage

server == <<user, orgs, resets, invites>>
vars == <<server, call, held, stored>>

TokenIds == 1..MaxTokens
Idle == [kind |-> "idle"]

\* A session token carries the version of the row it was made from.  password is history:
\* what that row's password was.
Tokens == [email : Emails, version : 0..MaxVersion, password : Passwords]
TokenFor(email, row) == [email |-> email, version |-> row.version, password |-> row.password]

Rows == [password : Passwords, version : 0..MaxVersion, role : {"owner", "admin"}, org : Slugs]
Requests ==
  {Idle} \cup [kind : {"login"}, tab : Tabs, session : Tokens]
    \cup [kind : {"register"}, tab : Tabs, email : Emails, org : Slugs, password : Passwords]
    \cup [kind : {"accept", "reset"}, tab : Tabs, id : TokenIds, password : Passwords]
    \cup [kind : {"request", "logout"}, tab : Tabs, token : Tokens, ok : BOOLEAN]

TypeOK ==
  /\ user \in [Emails -> Rows \cup {NoUser}] /\ orgs \subseteq Slugs
  /\ resets \in [TokenIds -> [for : Emails, state : {"none", "open", "used", "expired"}]]
  /\ invites \in [TokenIds -> [for : Emails, state : {"none", "open", "used", "expired"}, org : Slugs]]
  /\ call \in [Calls -> Requests]
  /\ held \in [Tabs -> Tokens \cup {NoToken}] /\ stored \in Tokens \cup {NoToken}

Init ==
  /\ user = [e \in Emails |-> IF e = Founder THEN [password |-> First, version |-> 0, role |-> "owner", org |-> Home]
                              ELSE NoUser]
  /\ orgs = {Home}
  /\ resets = [i \in TokenIds |-> [for |-> Founder, state |-> "none"]]
  /\ invites = [i \in TokenIds |-> [for |-> Founder, state |-> "none", org |-> Home]]
  /\ call = [k \in Calls |-> Idle]
  /\ held = [t \in Tabs |-> NoToken]
  /\ stored = NoToken

Begin(k, c) == call[k] = Idle /\ call' = [call EXCEPT ![k] = c]
End(k) == call' = [call EXCEPT ![k] = Idle]

----------------------------------------------------------------------------
(* Logging in and registering; the answer becomes the tab's session.        *)

StoredSession(t) == IF held[t] # NoToken THEN held[t] ELSE stored
SetSession(t, s) == held' = [held EXCEPT ![t] = s] /\ stored' = s

\* One read of the user's row gives the password to compare and the version for the token.
Login(email, password) ==
  IF user[email] # NoUser /\ user[email].password = password THEN TokenFor(email, user[email]) ELSE NoToken

\* The login page.  Its request takes a stored session over, as all do, and a wrong password
\* is refused like a bad session.
SubmitLogin(k, t, email, password) ==
  LET answer == Login(email, password) IN
  /\ held' = [held EXCEPT ![t] = StoredSession(t)]
  /\ IF answer # NoToken
     THEN Begin(k, [kind |-> "login", tab |-> t, session |-> answer])
     ELSE /\ held'[t] # NoToken
          /\ Begin(k, [kind |-> "request", tab |-> t, token |-> held'[t], ok |-> FALSE])
  /\ UNCHANGED <<server, stored>>

\* Defect: the token is made from the row as it is when the password has been checked.
LoggedInAnew(k) ==
  /\ call[k].kind = "login"
  /\ End(k)
  /\ SetSession(call[k].tab, [call[k].session EXCEPT !.version = user[call[k].session.email].version])
  /\ UNCHANGED server

LoggedIn(k) ==
  /\ call[k].kind = "login"
  /\ End(k)
  /\ SetSession(call[k].tab, call[k].session)
  /\ UNCHANGED server

Register(email) == user[email] = NoUser

\* The registration page; somebody whose email is taken is told so.
SubmitRegistration(k, t, email, org, password) ==
  /\ Register(email)
  /\ held' = [held EXCEPT ![t] = StoredSession(t)]
  /\ Begin(k, [kind |-> "register", tab |-> t, email |-> email, org |-> org, password |-> password])
  /\ UNCHANGED <<server, stored>>

\* Defect: the organization is made before the transaction that makes its owner.
OrgAnyway(c) == orgs \cup {c.org}

OrgAfter(c) == IF c.org \in orgs \/ user[c.email] # NoUser THEN orgs ELSE orgs \cup {c.org}

\* register of the browser: the answer becomes the tab's session.
RegisteredInTab(c, row) == SetSession(c.tab, TokenFor(c.email, row))

\* The transaction: organization and user under unique keys, and the membership.
Registered(k) ==
  LET c == call[k]
      row == [password |-> c.password, version |-> 0, role |-> "owner", org |-> c.org] IN
  /\ c.kind = "register"
  /\ End(k)
  /\ orgs' = OrgAfter(c)
  /\ IF c.org \in orgs \/ user[c.email] # NoUser
     THEN UNCHANGED <<user, held, stored>>
     ELSE user' = [user EXCEPT ![c.email] = row] /\ RegisteredInTab(c, row)
  /\ UNCHANGED <<resets, invites>>

----------------------------------------------------------------------------
(* Reset and invite tokens.                                                 *)

RequestPasswordReset(i, email) ==
  /\ resets[i].state = "none" /\ user[email] # NoUser
  /\ resets' = [resets EXCEPT ![i] = [for |-> email, state |-> "open"]]
  /\ UNCHANGED <<user, orgs, invites, call, held, stored>>

\* The token is read, then the password hashed.
ResetPassword(k, t, i, password) ==
  /\ resets[i].state = "open"
  /\ Begin(k, [kind |-> "reset", tab |-> t, id |-> i, password |-> password])
  /\ UNCHANGED <<server, held, stored>>

WithPassword(row, password) == [row EXCEPT !.password = password, !.version = @ + 1]

\* Both rows are updated by id, though the token may have been used or have expired meanwhile.
PasswordReset(k) ==
  LET c == call[k]
      email == resets[c.id].for IN
  /\ c.kind = "reset"
  /\ End(k)
  /\ user[email].version < MaxVersion
  /\ user' = [user EXCEPT ![email] = WithPassword(@, c.password)]
  /\ resets' = [resets EXCEPT ![c.id].state = "used"]
  /\ UNCHANGED <<orgs, invites, held, stored>>

\* jwt.strategy.ts
Accepted(token) == user[token.email] # NoUser /\ user[token.email].version = token.version

\* current-organization.guard.ts
MemberOf(token, org) == token # NoToken /\ Accepted(token) /\ user[token.email].org = org

\* roles.guard.ts: the member's role in that organization, whatever the user's own role is.
HasRole(token, roles) == user[token.email].role \in roles

InviteAdmin(t, i, email, org) ==
  /\ MemberOf(held[t], org) /\ HasRole(held[t], {"owner", "admin"})
  /\ invites[i].state = "none" /\ user[email] = NoUser
  /\ invites' = [invites EXCEPT ![i] = [for |-> email, state |-> "open", org |-> org]]
  /\ UNCHANGED <<user, orgs, resets, call, held, stored>>

AcceptInvite(k, t, i, password) ==
  /\ invites[i].state = "open"
  /\ Begin(k, [kind |-> "accept", tab |-> t, id |-> i, password |-> password])
  /\ UNCHANGED <<server, held, stored>>

InvitesAfter(i) == IF user[invites[i].for] # NoUser THEN invites ELSE [invites EXCEPT ![i].state = "used"]

\* The transaction: the user under the unique key of the email, the membership, the invite.
InviteAccepted(k) ==
  LET c == call[k]
      email == invites[c.id].for IN
  /\ c.kind = "accept"
  /\ End(k)
  /\ invites' = InvitesAfter(c.id)
  /\ user' = IF user[email] # NoUser THEN user
             ELSE [user EXCEPT ![email] =
                    [password |-> c.password, version |-> 0, role |-> "admin", org |-> invites[c.id].org]]
  /\ UNCHANGED <<orgs, resets, held, stored>>

\* Time passes.  (cleanupExpiredTokens deletes such rows, but nothing enqueues its job.)
TokensExpire ==
  /\ \/ \E i \in TokenIds : resets[i].state = "open" /\ resets' = [resets EXCEPT ![i].state = "expired"] /\ UNCHANGED invites
     \/ \E i \in TokenIds : invites[i].state = "open" /\ invites' = [invites EXCEPT ![i].state = "expired"] /\ UNCHANGED resets
  /\ UNCHANGED <<user, orgs, call, held, stored>>

----------------------------------------------------------------------------
(* Requests with a session.                                                 *)

\* apiRequest with the session of the tab's memory: it is checked now and answered later.
Request(k, t) ==
  /\ held[t] # NoToken
  /\ Begin(k, [kind |-> "request", tab |-> t, token |-> held[t], ok |-> Accepted(held[t])])
  /\ UNCHANGED <<server, held, stored>>

\* Defect: a refusal ends whatever session the tab has by now.
RefusedAny(c) == ~c.ok

\* A refusal counts for the session it was about.
Refused(c) == ~c.ok /\ held[c.tab] = c.token

Answer(k) ==
  /\ call[k].kind = "request"
  /\ End(k)
  /\ IF Refused(call[k]) THEN SetSession(call[k].tab, NoToken) ELSE UNCHANGED <<held, stored>>
  /\ UNCHANGED server

\* The server moves the version on if the session is good; the browser forgets it in any case.
Logout(k, t) ==
  /\ held[t] # NoToken
  /\ Begin(k, [kind |-> "logout", tab |-> t, token |-> held[t], ok |-> Accepted(held[t])])
  /\ IF Accepted(held[t])
     THEN user[held[t].email].version < MaxVersion /\ user' = [user EXCEPT ![held[t].email].version = @ + 1]
     ELSE UNCHANGED user
  /\ UNCHANGED <<orgs, resets, invites, held, stored>>

LoggedOut(k) ==
  /\ call[k].kind = "logout"
  /\ End(k)
  /\ SetSession(call[k].tab, NoToken)
  /\ UNCHANGED server

\* Whatever asks for the session first takes over the stored one.
LoadStoredSession(t) ==
  /\ held[t] = NoToken /\ stored # NoToken
  /\ held' = [held EXCEPT ![t] = StoredSession(t)]
  /\ UNCHANGED <<server, call, stored>>

\* On the way to a page: the stored session is loaded and put to the server.
VerifySession(k, t) ==
  /\ StoredSession(t) # NoToken
  /\ held' = [held EXCEPT ![t] = StoredSession(t)]
  /\ Begin(k, [kind |-> "request", tab |-> t, token |-> held'[t], ok |-> Accepted(held'[t])])
  /\ UNCHANGED <<server, stored>>

\* The page is left or loaded anew: its memory and its calls are gone.
Reload(t) ==
  /\ held' = [held EXCEPT ![t] = NoToken]
  /\ call' = [k \in Calls |-> IF call[k] # Idle /\ call[k].tab = t /\ call[k].kind \in {"login", "request", "logout"}
                              THEN Idle ELSE call[k]]
  /\ UNCHANGED <<server, stored>>

----------------------------------------------------------------------------
Next ==
  \/ \E k \in Calls : LoggedIn(k) \/ Registered(k) \/ PasswordReset(k) \/ InviteAccepted(k) \/ Answer(k) \/ LoggedOut(k)
  \/ \E k \in Calls, t \in Tabs : Request(k, t) \/ Logout(k, t) \/ VerifySession(k, t)
  \/ \E k \in Calls, t \in Tabs : \E e \in Emails : \E p \in Passwords :
       SubmitLogin(k, t, e, p) \/ \E o \in Slugs : SubmitRegistration(k, t, e, o, p)
  \/ \E k \in Calls, t \in Tabs : \E i \in TokenIds : \E p \in Passwords :
       ResetPassword(k, t, i, p) \/ AcceptInvite(k, t, i, p)
  \/ \E i \in TokenIds : \E e \in Emails :
       RequestPasswordReset(i, e) \/ \E t \in Tabs : \E o \in Slugs : InviteAdmin(t, i, e, o)
  \/ TokensExpire
  \/ \E t \in Tabs : LoadStoredSession(t) \/ Reload(t)

Spec == Init /\ [][Next]_vars

----------------------------------------------------------------------------
(* Safety.                                                                  *)

Sessions == ({held[t] : t \in Tabs} \cup {stored}
             \cup {call[k].session : k \in {j \in Calls : call[j].kind = "login"}}) \ {NoToken}

\* Every session that still works, one on its way to a browser included, belongs to somebody
\* who gave the password of now: a login that raced a reset does not outlive it.
SessionsKnowThePassword == \A s \in Sessions : Accepted(s) => s.password = user[s.email].password

\* Registrations and invitations are all or nothing: an organization has an owner, and an
\* invite that is used up has made a member of the inviting organization.
AccountsAreWhole ==
  /\ \A o \in orgs : \E e \in Emails : user[e] # NoUser /\ user[e].org = o /\ user[e].role = "owner"
  /\ \A i \in TokenIds : invites[i].state = "used" =>
       user[invites[i].for] # NoUser /\ user[invites[i].for].org = invites[i].org

\* A late refusal of an older session never ends the one the tab has since got.
LateRefusalHarmless == [][\A t \in Tabs :
  held[t] # NoToken /\ held'[t] = NoToken /\ stored' # stored =>
    \E k \in Calls : /\ call[k] # Idle /\ call'[k] = Idle /\ call[k].tab = t
                     /\ \/ call[k].kind = "logout"
                        \/ call[k].kind = "request" /\ call[k].token = held[t]]_vars

=============================================================================
