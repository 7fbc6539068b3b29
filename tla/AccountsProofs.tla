--------------------------- MODULE AccountsProofs ---------------------------
(***************************************************************************)
(* Proofs about Accounts: its types, that no session outlives the password *)
(* it was got with, that registrations and invitations are all or nothing  *)
(* and that late refusals are harmless, for any number of accounts, tabs   *)
(* and calls under way.                                                    *)
(***************************************************************************)
EXTENDS Accounts, TLAPS

USE AccountAssumptions

\* The calls under way are some of those there are.
LEMMA RequestTypes ==
  /\ Idle \in Requests
  /\ \A t \in Tabs, s \in Tokens : [kind |-> "login", tab |-> t, session |-> s] \in Requests
  /\ \A t \in Tabs, e \in Emails, o \in Slugs, p \in Passwords :
       [kind |-> "register", tab |-> t, email |-> e, org |-> o, password |-> p] \in Requests
  /\ \A kind \in {"accept", "reset"}, t \in Tabs, i \in TokenIds, p \in Passwords :
       [kind |-> kind, tab |-> t, id |-> i, password |-> p] \in Requests
  /\ \A kind \in {"request", "logout"}, t \in Tabs, s \in Tokens, ok \in BOOLEAN :
       [kind |-> kind, tab |-> t, token |-> s, ok |-> ok] \in Requests
BY DEF Requests

\* What the calls carry.
LEMMA RequestFields ==
  ASSUME NEW c \in Requests
  PROVE  /\ c.kind = "login" => c.tab \in Tabs /\ c.session \in Tokens
         /\ c.kind = "register" => c.tab \in Tabs /\ c.email \in Emails /\ c.org \in Slugs /\ c.password \in Passwords
         /\ c.kind \in {"accept", "reset"} => c.tab \in Tabs /\ c.id \in TokenIds /\ c.password \in Passwords
         /\ c.kind \in {"request", "logout"} => c.tab \in Tabs /\ c.token \in Tokens /\ c.ok \in BOOLEAN
BY DEF Requests, Idle

\* NoUser is no row, NoToken no session.
LEMMA Apart == NoUser \notin Rows /\ NoToken \notin Tokens
BY DEF Rows, Tokens

\* A row's session is a session.
LEMMA TokenType == \A e \in Emails : \A row \in Rows : TokenFor(e, row) \in Tokens
BY DEF TokenFor, Rows, Tokens

\* A reset token is made for somebody, and read only once it has been made.
ResetsKnown ==
  /\ \A i \in TokenIds : resets[i].state # "none" => user[resets[i].for] # NoUser
  /\ \A k \in Calls : call[k].kind = "reset" => resets[call[k].id].state # "none"

TInv == TypeOK /\ ResetsKnown

\* There is one account at first, and nobody is logged in.
LEMMA TypeInit == Init => TInv
<1> SUFFICES ASSUME Init PROVE TInv
  OBVIOUS
<1>1. user \in [Emails -> Rows \cup {NoUser}]
  BY DEF Init, Rows
<1>2. call \in [Calls -> Requests] /\ \A k \in Calls : call[k].kind = "idle"
  BY RequestTypes DEF Init, Idle
<1> QED
  BY <1>1, <1>2 DEF Init, TInv, TypeOK, ResetsKnown

\* A call begun is a request of its kind, a call ended none.
LEMMA CallTypes ==
  ASSUME TInv, NEW k \in Calls
  PROVE  /\ End(k) => call' \in [Calls -> Requests] /\ (UNCHANGED <<user, resets>> => ResetsKnown')
         /\ \A c \in Requests : Begin(k, c) /\ c.kind # "reset" =>
              call' \in [Calls -> Requests] /\ (UNCHANGED <<user, resets>> => ResetsKnown')
<1> USE DEF TInv, TypeOK, ResetsKnown, Begin, End
<1>1. ASSUME NEW c \in Requests, c.kind # "reset", call' = [call EXCEPT ![k] = c]
      PROVE  call' \in [Calls -> Requests] /\ (UNCHANGED <<user, resets>> => ResetsKnown')
  <2>1. call' \in [Calls -> Requests]
    BY <1>1
  <2>2. \A j \in Calls : call'[j].kind = "reset" => call'[j] = call[j]
    BY <1>1
  <2> QED
    BY <2>1, <2>2
<1>2. Idle \in Requests /\ Idle.kind # "reset"
  BY RequestTypes DEF Idle
<1> QED
  BY <1>1, <1>2

\* The pages' requests keep the types.
LEMMA BeginTypes ==
  ASSUME TInv, NEW k \in Calls, NEW t \in Tabs,
         \/ Request(k, t) \/ VerifySession(k, t)
         \/ \E e \in Emails : \E p \in Passwords :
              SubmitLogin(k, t, e, p) \/ \E o \in Slugs : SubmitRegistration(k, t, e, o, p)
         \/ \E i \in TokenIds : \E p \in Passwords : ResetPassword(k, t, i, p) \/ AcceptInvite(k, t, i, p)
  PROVE  TInv'
<1> USE DEF TInv, server
<1>1. StoredSession(t) \in Tokens \cup {NoToken}
  BY DEF StoredSession, TypeOK
<1>2. \A s \in Tokens : Accepted(s) \in BOOLEAN
  BY DEF Accepted
<1>3. CASE Request(k, t)
  <2>1. held[t] \in Tokens
    BY <1>3 DEF Request, TypeOK
  <2>2. PICK ok \in BOOLEAN : Begin(k, [kind |-> "request", tab |-> t, token |-> held[t], ok |-> ok])
    BY <1>2, <1>3, <2>1 DEF Request
  <2>3. [kind |-> "request", tab |-> t, token |-> held[t], ok |-> ok] \in Requests
    BY <2>1, RequestTypes
  <2> QED
    BY <1>3, <2>2, <2>3, CallTypes DEF Request, TypeOK
<1>4. CASE VerifySession(k, t)
  <2>1. held' \in [Tabs -> Tokens \cup {NoToken}] /\ held'[t] \in Tokens
    BY <1>1, <1>4 DEF VerifySession, TypeOK
  <2>2. PICK ok \in BOOLEAN : Begin(k, [kind |-> "request", tab |-> t, token |-> held'[t], ok |-> ok])
    BY <1>2, <1>4, <2>1 DEF VerifySession
  <2>3. [kind |-> "request", tab |-> t, token |-> held'[t], ok |-> ok] \in Requests
    BY <2>1, RequestTypes
  <2> QED
    BY <1>4, <2>1, <2>2, <2>3, CallTypes DEF VerifySession, TypeOK
<1>5. ASSUME NEW e \in Emails, NEW p \in Passwords, SubmitLogin(k, t, e, p) PROVE TInv'
  <2>1. held' \in [Tabs -> Tokens \cup {NoToken}]
    BY <1>1, <1>5 DEF SubmitLogin, TypeOK
  <2>2. Login(e, p) \in Tokens \cup {NoToken}
    BY TokenType DEF Login, TypeOK
  <2>3. \E c \in Requests : Begin(k, c) /\ c.kind # "reset"
    <3>1. CASE Login(e, p) # NoToken
      <4>1. Begin(k, [kind |-> "login", tab |-> t, session |-> Login(e, p)])
        BY <1>5, <3>1 DEF SubmitLogin
      <4>2. [kind |-> "login", tab |-> t, session |-> Login(e, p)] \in Requests
        BY <2>2, <3>1, RequestTypes
      <4> QED
        BY <4>1, <4>2
    <3>2. CASE Login(e, p) = NoToken
      <4>1. held'[t] \in Tokens /\ Begin(k, [kind |-> "request", tab |-> t, token |-> held'[t], ok |-> FALSE])
        BY <1>5, <2>1, <3>2 DEF SubmitLogin
      <4>2. [kind |-> "request", tab |-> t, token |-> held'[t], ok |-> FALSE] \in Requests
        BY <4>1, RequestTypes
      <4> QED
        BY <4>1, <4>2
    <3> QED
      BY <3>1, <3>2
  <2> QED
    BY <1>5, <2>1, <2>3, CallTypes DEF SubmitLogin, TypeOK
<1>6. ASSUME NEW e \in Emails, NEW o \in Slugs, NEW p \in Passwords, SubmitRegistration(k, t, e, o, p) PROVE TInv'
  <2>1. held' \in [Tabs -> Tokens \cup {NoToken}]
    BY <1>1, <1>6 DEF SubmitRegistration, TypeOK
  <2>2. \E c \in Requests : Begin(k, c) /\ c.kind # "reset"
    BY <1>6, RequestTypes DEF SubmitRegistration
  <2> QED
    BY <1>6, <2>1, <2>2, CallTypes DEF SubmitRegistration, TypeOK
<1>7. ASSUME NEW i \in TokenIds, NEW p \in Passwords, ResetPassword(k, t, i, p) PROVE TInv'
  BY <1>7, RequestTypes DEF ResetPassword, Begin, TypeOK, ResetsKnown
<1>8. ASSUME NEW i \in TokenIds, NEW p \in Passwords, AcceptInvite(k, t, i, p) PROVE TInv'
  <2>1. \E c \in Requests : Begin(k, c) /\ c.kind # "reset"
    BY <1>8, RequestTypes DEF AcceptInvite
  <2> QED
    BY <1>8, <2>1, CallTypes DEF AcceptInvite, TypeOK
<1> QED
  BY <1>3, <1>4, <1>5, <1>6, <1>7, <1>8

\* So do the answers.
LEMMA EndTypes ==
  ASSUME TInv, NEW k \in Calls,
         LoggedIn(k) \/ Registered(k) \/ PasswordReset(k) \/ InviteAccepted(k) \/ Answer(k) \/ LoggedOut(k)
  PROVE  TInv'
<1> USE DEF TInv, server
<1>1. call[k] \in Requests
  BY DEF TypeOK
<1>2. CASE LoggedIn(k)
  BY <1>1, <1>2, RequestFields, CallTypes DEF LoggedIn, SetSession, TypeOK
<1>3. CASE Registered(k)
  <2> DEFINE c == call[k]
             row == [password |-> c.password, version |-> 0, role |-> "owner", org |-> c.org]
  <2>1. c.kind = "register" /\ c.tab \in Tabs /\ c.email \in Emails /\ c.org \in Slugs /\ c.password \in Passwords
    BY <1>1, <1>3, RequestFields DEF Registered
  <2>2. row \in Rows /\ TokenFor(c.email, row) \in Tokens
    BY <2>1, TokenType DEF Rows
  <2>3. End(k) /\ UNCHANGED <<resets, invites>> /\ orgs' = OrgAfter(c)
    BY <1>3 DEF Registered
  <2>4. orgs' \subseteq Slugs
    BY <2>1, <2>3 DEF OrgAfter, TypeOK
  <2>5. \/ UNCHANGED <<user, held, stored>>
        \/ user' = [user EXCEPT ![c.email] = row] /\ SetSession(c.tab, TokenFor(c.email, row))
    BY <1>3 DEF Registered, RegisteredInTab
  <2> HIDE DEF row
  <2>6. user' \in [Emails -> Rows \cup {NoUser}] /\ (\A e \in Emails : user[e] # NoUser => user'[e] # NoUser)
    BY <2>1, <2>2, <2>5, Apart DEF TypeOK
  <2>7. held' \in [Tabs -> Tokens \cup {NoToken}] /\ stored' \in Tokens \cup {NoToken}
    BY <2>1, <2>2, <2>5 DEF SetSession, TypeOK
  <2>8. call' \in [Calls -> Requests]
    BY <2>3, CallTypes
  <2>9. ResetsKnown'
    BY <2>3, <2>6 DEF ResetsKnown, End, Idle, TypeOK
  <2> QED
    BY <2>3, <2>4, <2>6, <2>7, <2>8, <2>9 DEF TypeOK
<1>4. CASE PasswordReset(k)
  <2> DEFINE c == call[k]
             email == resets[c.id].for
  <2>1. c.kind = "reset" /\ c.id \in TokenIds /\ c.password \in Passwords /\ email \in Emails
    BY <1>1, <1>4, RequestFields DEF PasswordReset, TypeOK
  <2>2. user[email] \in Rows /\ user[email].version < MaxVersion
    BY <1>4, <2>1 DEF PasswordReset, ResetsKnown, TypeOK
  <2>3. WithPassword(user[email], c.password) \in Rows
    <3>1. user[email].version \in 0..MaxVersion /\ user[email].version + 1 \in 0..MaxVersion
      BY <2>2 DEF Rows
    <3> HIDE DEF email, c
    <3> QED
      BY <2>1, <2>2, <3>1 DEF WithPassword, Rows
  <2>4. /\ user' = [user EXCEPT ![email] = WithPassword(@, c.password)]
        /\ resets' = [resets EXCEPT ![c.id].state = "used"]
        /\ End(k) /\ UNCHANGED <<orgs, invites, held, stored>>
    BY <1>4 DEF PasswordReset
  <2>5. user' \in [Emails -> Rows \cup {NoUser}] /\ (\A e \in Emails : user[e] # NoUser => user'[e] # NoUser)
    BY <2>1, <2>3, <2>4, Apart DEF TypeOK
  <2>6. ResetsKnown'
    BY <2>1, <2>2, <2>4, <2>5, Apart DEF ResetsKnown, End, Idle, TypeOK
  <2> QED
    BY <2>1, <2>4, <2>5, <2>6, CallTypes DEF TypeOK
<1>5. CASE InviteAccepted(k)
  <2> DEFINE c == call[k]
             row == [password |-> c.password, version |-> 0, role |-> "admin", org |-> invites[c.id].org]
  <2>1. c.kind = "accept" /\ c.id \in TokenIds /\ c.password \in Passwords
    BY <1>1, <1>5, RequestFields DEF InviteAccepted
  <2>2. row \in Rows /\ invites[c.id].for \in Emails
    BY <2>1 DEF Rows, TypeOK
  <2>3. /\ user' = user \/ user' = [user EXCEPT ![invites[c.id].for] = row]
        /\ invites' = InvitesAfter(c.id) /\ End(k) /\ UNCHANGED <<orgs, resets, held, stored>>
    BY <1>5 DEF InviteAccepted
  <2> HIDE DEF row
  <2>4. user' \in [Emails -> Rows \cup {NoUser}] /\ (\A e \in Emails : user[e] # NoUser => user'[e] # NoUser)
    BY <2>2, <2>3, Apart DEF TypeOK
  <2>5. ResetsKnown'
    BY <2>3, <2>4 DEF ResetsKnown, End, Idle, TypeOK
  <2> QED
    BY <2>1, <2>3, <2>4, <2>5, CallTypes DEF InvitesAfter, TypeOK
<1>6. CASE Answer(k) \/ LoggedOut(k)
  BY <1>1, <1>6, RequestFields, CallTypes DEF Answer, LoggedOut, SetSession, TypeOK
<1> QED
  BY <1>2, <1>3, <1>4, <1>5, <1>6

\* Every step keeps the types.
LEMMA TypeStep == TInv /\ [Next]_vars => TInv'
<1> SUFFICES ASSUME TInv, [Next]_vars PROVE TInv'
  OBVIOUS
<1> USE DEF TInv, server
<1>1. ASSUME NEW k \in Calls, NEW t \in Tabs, Logout(k, t) PROVE TInv'
  <2>1. held[t] \in Tokens
    BY <1>1 DEF Logout, TypeOK
  <2>2. Accepted(held[t]) \in BOOLEAN
    BY DEF Accepted
  <2>3. PICK ok \in BOOLEAN : Begin(k, [kind |-> "logout", tab |-> t, token |-> held[t], ok |-> ok])
    BY <1>1, <2>2 DEF Logout
  <2>4. [kind |-> "logout", tab |-> t, token |-> held[t], ok |-> ok] \in Requests
    BY <2>1, RequestTypes
  <2>5. user' \in [Emails -> Rows \cup {NoUser}] /\ (\A e \in Emails : user[e] # NoUser => user'[e] # NoUser)
    <3>1. CASE Accepted(held[t])
      <4>1. held[t].email \in Emails /\ user[held[t].email] \in Rows
        BY <2>1, <3>1 DEF Accepted, Tokens, TypeOK
      <4>2. /\ user[held[t].email].version < MaxVersion
            /\ user' = [user EXCEPT ![held[t].email].version = @ + 1]
        BY <1>1, <3>1 DEF Logout
      <4>3. [user[held[t].email] EXCEPT !.version = @ + 1] \in Rows
        BY <4>1, <4>2 DEF Rows
      <4>4. user'[held[t].email] \in Rows
        BY <4>1, <4>2, <4>3 DEF TypeOK
      <4> QED
        BY <4>1, <4>2, <4>4, Apart DEF TypeOK
    <3>2. CASE ~Accepted(held[t])
      BY <1>1, <3>2 DEF Logout, TypeOK
    <3> QED
      BY <3>1, <3>2
  <2>6. ResetsKnown'
    BY <1>1, <2>3, <2>5 DEF Logout, Begin, ResetsKnown, TypeOK
  <2>7. call' \in [Calls -> Requests]
    BY <2>3, <2>4, CallTypes
  <2> QED
    BY <1>1, <2>5, <2>6, <2>7 DEF Logout, TypeOK
<1>2. ASSUME NEW i \in TokenIds, NEW e \in Emails,
             RequestPasswordReset(i, e) \/ \E t \in Tabs : \E o \in Slugs : InviteAdmin(t, i, e, o)
      PROVE  TInv'
  <2>1. CASE RequestPasswordReset(i, e)
    BY <2>1 DEF RequestPasswordReset, TypeOK, ResetsKnown
  <2>2. ASSUME NEW t \in Tabs, NEW o \in Slugs, InviteAdmin(t, i, e, o) PROVE TInv'
    BY <2>2 DEF InviteAdmin, TypeOK, ResetsKnown
  <2> QED
    BY <1>2, <2>1, <2>2
<1>3. CASE TokensExpire
  <2>1. ASSUME NEW i \in TokenIds, resets[i].state = "open", resets' = [resets EXCEPT ![i].state = "expired"],
               UNCHANGED <<user, orgs, invites, call, held, stored>>
        PROVE  TInv'
    BY <2>1 DEF TypeOK, ResetsKnown
  <2>2. ASSUME NEW i \in TokenIds, invites' = [invites EXCEPT ![i].state = "expired"],
               UNCHANGED <<user, orgs, resets, call, held, stored>>
        PROVE  TInv'
    BY <2>2 DEF TypeOK, ResetsKnown
  <2> QED
    BY <1>3, <2>1, <2>2 DEF TokensExpire
<1>4. ASSUME NEW t \in Tabs, LoadStoredSession(t) \/ Reload(t) PROVE TInv'
  <2>1. CASE LoadStoredSession(t)
    BY <2>1 DEF LoadStoredSession, StoredSession, TypeOK, ResetsKnown
  <2>2. CASE Reload(t)
    <3>1. call' \in [Calls -> Requests]
      BY <2>2, RequestTypes DEF Reload, TypeOK
    <3>2. \A k \in Calls : call'[k] = call[k] \/ call'[k].kind = "idle"
      BY <2>2 DEF Reload, Idle
    <3> QED
      BY <2>2, <3>1, <3>2 DEF Reload, TypeOK, ResetsKnown
  <2> QED
    BY <1>4, <2>1, <2>2
<1>5. CASE UNCHANGED vars
  BY <1>5 DEF vars, TypeOK, ResetsKnown
<1>6. CASE Next
  BY <1>1, <1>2, <1>3, <1>4, <1>6, BeginTypes, EndTypes DEF Next
<1> QED
  BY <1>5, <1>6

\* Every variable keeps its type.
THEOREM Typing == Spec => []TypeOK
<1>1. TInv => TypeOK
  BY DEF TInv
<1> QED
  BY <1>1, TypeInit, TypeStep, PTL DEF Spec

----------------------------------------------------------------------------
(* Passwords.  A session of the row's version was got with the row's         *)
(* password; one of an older version is refused for good, as versions only   *)
(* grow and accounts are never deleted.                                      *)

\* With those accounts, the session is good only with the password of now.
Known(users, s) ==
  /\ s \in Tokens /\ users[s.email] # NoUser
  /\ s.version <= users[s.email].version
  /\ s.version = users[s.email].version => s.password = users[s.email].password

KnowInv ==
  /\ \A t \in Tabs : held[t] # NoToken => Known(user, held[t])
  /\ stored # NoToken => Known(user, stored)
  /\ \A k \in Calls : call[k].kind = "login" => Known(user, call[k].session)

\* What may happen to an account: nothing, a logout, a reset, or that it comes into being.
RowMoves == \A e \in Emails : user[e] # NoUser =>
  /\ user'[e] # NoUser
  /\ \/ user'[e] = user[e]
     \/ user[e].version \in Nat /\ user'[e].version = user[e].version + 1

\* Such moves make no session work with a password of another time.
LEMMA KnownStays == ASSUME RowMoves, NEW s, Known(user, s) PROVE Known(user', s)
<1>1. s.email \in Emails /\ s.version \in Nat
  BY DEF Known, Tokens
<1>2. CASE user'[s.email] = user[s.email]
  BY <1>1, <1>2 DEF Known, RowMoves
<1>3. CASE user[s.email].version \in Nat /\ user'[s.email].version = user[s.email].version + 1
  BY <1>1, <1>3 DEF Known, RowMoves
<1> QED
  BY <1>1, <1>2, <1>3 DEF Known, RowMoves

\* A session made from a row as it is knows that row's password.
LEMMA TokenKnown ==
  ASSUME NEW e \in Emails, NEW row \in Rows
  PROVE  /\ user[e] = row => Known(user, TokenFor(e, row))
         /\ user'[e] = row => Known(user', TokenFor(e, row))
<1>1. TokenFor(e, row) \in Tokens /\ TokenFor(e, row).email = e /\ TokenFor(e, row).version = row.version
      /\ TokenFor(e, row).password = row.password /\ row.version <= row.version /\ row # NoUser
  BY TokenType, Apart DEF TokenFor, Rows
<1> QED
  BY <1>1 DEF Known

\* Every step moves accounts so.
LEMMA UserMoves == ASSUME TInv, [Next]_vars PROVE RowMoves
<1>1. CASE UNCHANGED user
  BY <1>1 DEF RowMoves
<1>2. ASSUME NEW k \in Calls, Registered(k) PROVE RowMoves
  BY <1>2 DEF Registered, RowMoves, TInv, TypeOK
<1>3. ASSUME NEW k \in Calls, InviteAccepted(k) PROVE RowMoves
  BY <1>3 DEF InviteAccepted, RowMoves, TInv, TypeOK
<1>4. ASSUME NEW k \in Calls, PasswordReset(k) PROVE RowMoves
  <2> DEFINE email == resets[call[k].id].for
  <2>1. /\ email \in Emails /\ call[k].kind = "reset" /\ user[email] \in Rows
    BY <1>4, RequestFields DEF PasswordReset, TInv, TypeOK, ResetsKnown
  <2>2. user' = [user EXCEPT ![email] = WithPassword(@, call[k].password)]
    BY <1>4 DEF PasswordReset
  <2>3. WithPassword(user[email], call[k].password).version = user[email].version + 1 /\ user[email].version \in Nat
        /\ user'[email] = WithPassword(user[email], call[k].password)
    <3>1. user[email].version \in Nat /\ user'[email] = WithPassword(user[email], call[k].password)
      BY <2>1, <2>2 DEF Rows, TInv, TypeOK
    <3> HIDE DEF email
    <3> QED
      BY <2>1, <3>1 DEF WithPassword, Rows
  <2>4. user'[email] # NoUser
    <3>1. WithPassword(user[email], call[k].password) \in
            [password : Passwords, version : Nat, role : {"owner", "admin"}, org : Slugs]
      <4>1. call[k].password \in Passwords /\ user[email].version + 1 \in Nat
        BY <2>1, <2>3, RequestFields DEF TInv, TypeOK
      <4> HIDE DEF email
      <4> QED
        BY <2>1, <4>1 DEF WithPassword, Rows
    <3> QED
      BY <2>3, <3>1
  <2> HIDE DEF email
  <2> QED
    BY <2>1, <2>2, <2>3, <2>4 DEF RowMoves, TInv, TypeOK
<1>5. ASSUME NEW k \in Calls, NEW t \in Tabs, Logout(k, t) PROVE RowMoves
  <2>1. CASE ~Accepted(held[t])
    BY <1>5, <2>1 DEF Logout, RowMoves
  <2>2. CASE Accepted(held[t])
    <3> DEFINE email == held[t].email
    <3>1. email \in Emails /\ user[email] \in Rows
      BY <1>5, <2>2 DEF Logout, Accepted, Tokens, TInv, TypeOK
    <3>2. user' = [user EXCEPT ![email].version = @ + 1]
      BY <1>5, <2>2 DEF Logout
    <3>3. user'[email].version = user[email].version + 1 /\ user[email].version \in Nat
      BY <3>1, <3>2 DEF Rows, TInv, TypeOK
    <3>4. user'[email] # NoUser
      <4>1. user'[email] \in [password : Passwords, version : Nat, role : {"owner", "admin"}, org : Slugs]
        BY <3>1, <3>2 DEF Rows, TInv, TypeOK
      <4> QED
        BY <4>1
    <3> HIDE DEF email
    <3> QED
      BY <3>1, <3>2, <3>3, <3>4 DEF RowMoves, TInv, TypeOK
  <2> QED
    BY <2>1, <2>2
<1>6. ASSUME NEW k \in Calls, LoggedIn(k) \/ Answer(k) \/ LoggedOut(k) PROVE UNCHANGED user
  BY <1>6 DEF LoggedIn, Answer, LoggedOut, server
<1>7. ASSUME NEW k \in Calls, NEW t \in Tabs,
             \/ Request(k, t) \/ VerifySession(k, t)
             \/ \E e \in Emails : \E p \in Passwords :
                  SubmitLogin(k, t, e, p) \/ \E o \in Slugs : SubmitRegistration(k, t, e, o, p)
             \/ \E i \in TokenIds : \E p \in Passwords : ResetPassword(k, t, i, p) \/ AcceptInvite(k, t, i, p)
      PROVE  UNCHANGED user
  BY <1>7 DEF Request, VerifySession, SubmitLogin, SubmitRegistration, ResetPassword, AcceptInvite, server
<1>8. ASSUME NEW i \in TokenIds, NEW e \in Emails,
             RequestPasswordReset(i, e) \/ \E t \in Tabs : \E o \in Slugs : InviteAdmin(t, i, e, o)
      PROVE  UNCHANGED user
  BY <1>8 DEF RequestPasswordReset, InviteAdmin
<1>9. ASSUME TokensExpire \/ \E t \in Tabs : LoadStoredSession(t) \/ Reload(t) PROVE UNCHANGED user
  BY <1>9 DEF TokensExpire, LoadStoredSession, Reload, server
<1>10. CASE UNCHANGED vars
  BY <1>1, <1>10 DEF vars, server
<1>11. CASE Next
  BY <1>1, <1>2, <1>3, <1>4, <1>5, <1>6, <1>7, <1>8, <1>9, <1>11 DEF Next
<1> QED
  BY <1>10, <1>11

\* A session a step leaves somewhere was there before, or is made from the row as it is.
LEMMA SessionsCome ==
  ASSUME TInv, KnowInv, RowMoves, [Next]_vars
  PROVE  KnowInv'
<1>1. \A s : Known(user, s) => Known(user', s)
  BY KnownStays
<1>2. ASSUME UNCHANGED <<held, stored>>, \A k \in Calls : call'[k] = call[k] \/ call'[k].kind # "login" PROVE KnowInv'
  BY <1>1, <1>2 DEF KnowInv
<1>3. ASSUME NEW k \in Calls, LoggedIn(k) PROVE KnowInv'
  <2>1. Known(user', call[k].session)
    BY <1>1, <1>3 DEF LoggedIn, KnowInv
  <2>2. \A j \in Calls : call'[j] = call[j] \/ call'[j].kind # "login"
    BY <1>3 DEF LoggedIn, End, Idle, TInv, TypeOK
  <2>3. \A t \in Tabs : held'[t] \in {held[t], call[k].session}
    BY <1>3 DEF LoggedIn, SetSession, TInv, TypeOK
  <2>4. stored' = call[k].session
    BY <1>3 DEF LoggedIn, SetSession
  <2> QED
    BY <1>1, <2>1, <2>2, <2>3, <2>4 DEF KnowInv
<1>4. ASSUME NEW k \in Calls, Registered(k) PROVE KnowInv'
  <2> DEFINE c == call[k]
             row == [password |-> c.password, version |-> 0, role |-> "owner", org |-> c.org]
  <2>1. \A j \in Calls : call'[j] = call[j] \/ call'[j].kind # "login"
    BY <1>4 DEF Registered, End, Idle, TInv, TypeOK
  <2>2. CASE UNCHANGED <<user, held, stored>>
    BY <1>2, <2>1, <2>2
  <2>3. CASE user' = [user EXCEPT ![c.email] = row] /\ SetSession(c.tab, TokenFor(c.email, row))
    <3>1. c.email \in Emails /\ c.tab \in Tabs /\ row \in Rows
      BY <1>4, RequestFields DEF Registered, Rows, TInv, TypeOK
    <3>2. user'[c.email] = row
      BY <2>3, <3>1 DEF TInv, TypeOK
    <3> HIDE DEF row
    <3>3. Known(user', TokenFor(c.email, row))
      BY <3>1, <3>2, TokenKnown
    <3>4. \A t \in Tabs : held'[t] \in {held[t], TokenFor(c.email, row)}
      BY <2>3 DEF SetSession, TInv, TypeOK
    <3>5. stored' = TokenFor(c.email, row)
      BY <2>3 DEF SetSession
    <3> QED
      BY <1>1, <2>1, <3>3, <3>4, <3>5 DEF KnowInv
  <2> QED
    BY <1>4, <2>2, <2>3 DEF Registered, RegisteredInTab
<1>5. ASSUME NEW k \in Calls, PasswordReset(k) \/ InviteAccepted(k) PROVE KnowInv'
  BY <1>2, <1>5 DEF PasswordReset, InviteAccepted, End, Idle, TInv, TypeOK
<1>6. ASSUME NEW k \in Calls, Answer(k) \/ LoggedOut(k) PROVE KnowInv'
  <2>1. \A j \in Calls : call'[j] = call[j] \/ call'[j].kind # "login"
    BY <1>6 DEF Answer, LoggedOut, End, Idle, TInv, TypeOK
  <2>2. \A t \in Tabs : held'[t] \in {held[t], NoToken}
    BY <1>6 DEF Answer, LoggedOut, SetSession, TInv, TypeOK
  <2>3. stored' \in {stored, NoToken}
    BY <1>6 DEF Answer, LoggedOut, SetSession
  <2> QED
    BY <1>1, <2>1, <2>2, <2>3 DEF KnowInv
<1>7. ASSUME NEW t \in Tabs, held' = [held EXCEPT ![t] = StoredSession(t)], UNCHANGED stored
      PROVE  \A u \in Tabs : held'[u] # NoToken => Known(user', held'[u])
  BY <1>1, <1>7 DEF KnowInv, StoredSession, TInv, TypeOK
<1>8. ASSUME NEW k \in Calls, NEW t \in Tabs, Request(k, t) \/ Logout(k, t) PROVE KnowInv'
  BY <1>2, <1>8 DEF Request, Logout, Begin, TInv, TypeOK
<1>9. ASSUME NEW k \in Calls, NEW t \in Tabs, VerifySession(k, t) PROVE KnowInv'
  <2>1. \A j \in Calls : call'[j] = call[j] \/ call'[j].kind # "login"
    BY <1>9 DEF VerifySession, Begin, TInv, TypeOK
  <2> QED
    BY <1>1, <1>7, <1>9, <2>1 DEF VerifySession, KnowInv
<1>10. ASSUME NEW k \in Calls, NEW t \in Tabs, NEW e \in Emails, NEW o \in Slugs, NEW p \in Passwords,
              SubmitRegistration(k, t, e, o, p)
       PROVE  KnowInv'
  <2>1. \A j \in Calls : call'[j] = call[j] \/ call'[j].kind # "login"
    BY <1>10 DEF SubmitRegistration, Begin, TInv, TypeOK
  <2> QED
    BY <1>1, <1>7, <1>10, <2>1 DEF SubmitRegistration, KnowInv
<1>11. ASSUME NEW k \in Calls, NEW t \in Tabs, NEW e \in Emails, NEW p \in Passwords, SubmitLogin(k, t, e, p)
       PROVE  KnowInv'
  <2>1. held' = [held EXCEPT ![t] = StoredSession(t)] /\ UNCHANGED <<server, stored>>
    BY <1>11 DEF SubmitLogin
  <2>2. \A j \in Calls : \/ call'[j] = call[j] \/ call'[j].kind # "login"
                         \/ call'[j].session = Login(e, p) /\ Login(e, p) # NoToken
    BY <1>11 DEF SubmitLogin, Begin, TInv, TypeOK
  <2>3. Login(e, p) # NoToken => Known(user, Login(e, p))
    BY TokenKnown DEF Login, TInv, TypeOK
  <2> QED
    BY <1>1, <1>7, <2>1, <2>2, <2>3 DEF KnowInv
<1>12. ASSUME NEW k \in Calls, NEW t \in Tabs, NEW i \in TokenIds, NEW p \in Passwords,
              ResetPassword(k, t, i, p) \/ AcceptInvite(k, t, i, p)
       PROVE  KnowInv'
  BY <1>2, <1>12 DEF ResetPassword, AcceptInvite, Begin, TInv, TypeOK
<1>13. ASSUME NEW i \in TokenIds, NEW e \in Emails,
              RequestPasswordReset(i, e) \/ \E t \in Tabs : \E o \in Slugs : InviteAdmin(t, i, e, o)
       PROVE  KnowInv'
  BY <1>2, <1>13 DEF RequestPasswordReset, InviteAdmin
<1>14. CASE TokensExpire
  BY <1>2, <1>14 DEF TokensExpire
<1>15. ASSUME NEW t \in Tabs, LoadStoredSession(t) \/ Reload(t) PROVE KnowInv'
  <2>1. CASE LoadStoredSession(t)
    BY <1>1, <1>7, <2>1 DEF LoadStoredSession, KnowInv
  <2>2. CASE Reload(t)
    <3>1. \A j \in Calls : call'[j] = call[j] \/ call'[j].kind # "login"
      BY <2>2 DEF Reload, Idle, TInv, TypeOK
    <3>2. \A u \in Tabs : held'[u] \in {held[u], NoToken}
      BY <2>2 DEF Reload, TInv, TypeOK
    <3> QED
      BY <1>1, <2>2, <3>1, <3>2 DEF Reload, KnowInv
  <2> QED
    BY <1>15, <2>1, <2>2
<1>16. CASE UNCHANGED vars
  BY <1>2, <1>16 DEF vars
<1>17. CASE Next
  BY <1>3, <1>4, <1>5, <1>6, <1>8, <1>9, <1>10, <1>11, <1>12, <1>13, <1>14, <1>15, <1>17 DEF Next
<1> QED
  BY <1>16, <1>17

\* A session that still works belongs to somebody who gave the password of now, whatever
\* logins, resets and logouts have overtaken one another.
THEOREM Password == Spec => []SessionsKnowThePassword
<1>1. Init => KnowInv
  BY DEF Init, KnowInv, Idle
<1>2. TInv /\ KnowInv /\ [Next]_vars => KnowInv'
  BY UserMoves, SessionsCome
<1>3. KnowInv => SessionsKnowThePassword
  BY DEF KnowInv, SessionsKnowThePassword, Sessions, Known, Accepted
<1> QED
  BY <1>1, <1>2, <1>3, TypeInit, TypeStep, PTL DEF Spec

----------------------------------------------------------------------------
(* Owners and members.                                                      *)

\* Nobody who is a member anywhere stops being one, or changes organization or role.
MembersStay == \A e \in Emails : user[e] # NoUser =>
  user'[e] # NoUser /\ user'[e].org = user[e].org /\ user'[e].role = user[e].role

\* Every step leaves the members what they are.
LEMMA MembersMove == ASSUME TInv, [Next]_vars PROVE MembersStay
<1>1. CASE UNCHANGED user
  BY <1>1 DEF MembersStay
<1>2. RowMoves
  BY UserMoves
<1>3. ASSUME NEW k \in Calls, Registered(k) \/ InviteAccepted(k) PROVE MembersStay
  BY <1>2, <1>3 DEF Registered, InviteAccepted, MembersStay, RowMoves, TInv, TypeOK
<1>4. ASSUME NEW k \in Calls, PasswordReset(k) PROVE MembersStay
  <2> DEFINE email == resets[call[k].id].for
  <2>1. email \in Emails /\ user[email] \in Rows
    BY <1>4, RequestFields DEF PasswordReset, TInv, TypeOK, ResetsKnown
  <2>2. user' = [user EXCEPT ![email] = WithPassword(@, call[k].password)]
    BY <1>4 DEF PasswordReset
  <2> HIDE DEF email
  <2>3. WithPassword(user[email], call[k].password).org = user[email].org
        /\ WithPassword(user[email], call[k].password).role = user[email].role
    BY <2>1 DEF WithPassword, Rows
  <2> QED
    BY <1>2, <2>1, <2>2, <2>3 DEF MembersStay, RowMoves, TInv, TypeOK
<1>5. ASSUME NEW k \in Calls, NEW t \in Tabs, Logout(k, t) PROVE MembersStay
  <2>1. CASE ~Accepted(held[t])
    BY <1>5, <2>1 DEF Logout, MembersStay
  <2>2. CASE Accepted(held[t])
    <3> DEFINE email == held[t].email
    <3>1. email \in Emails /\ user[email] \in Rows
      BY <1>5, <2>2 DEF Logout, Accepted, Tokens, TInv, TypeOK
    <3>2. user' = [user EXCEPT ![email].version = @ + 1]
      BY <1>5, <2>2 DEF Logout
    <3> HIDE DEF email
    <3> QED
      BY <1>2, <3>1, <3>2 DEF MembersStay, RowMoves, Rows, TInv, TypeOK
  <2> QED
    BY <2>1, <2>2
<1>6. ASSUME NEW k \in Calls, LoggedIn(k) \/ Answer(k) \/ LoggedOut(k) PROVE UNCHANGED user
  BY <1>6 DEF LoggedIn, Answer, LoggedOut, server
<1>7. ASSUME NEW k \in Calls, NEW t \in Tabs,
             \/ Request(k, t) \/ VerifySession(k, t)
             \/ \E e \in Emails : \E p \in Passwords :
                  SubmitLogin(k, t, e, p) \/ \E o \in Slugs : SubmitRegistration(k, t, e, o, p)
             \/ \E i \in TokenIds : \E p \in Passwords : ResetPassword(k, t, i, p) \/ AcceptInvite(k, t, i, p)
      PROVE  UNCHANGED user
  BY <1>7 DEF Request, VerifySession, SubmitLogin, SubmitRegistration, ResetPassword, AcceptInvite, server
<1>8. ASSUME NEW i \in TokenIds, NEW e \in Emails,
             RequestPasswordReset(i, e) \/ \E t \in Tabs : \E o \in Slugs : InviteAdmin(t, i, e, o)
      PROVE  UNCHANGED user
  BY <1>8 DEF RequestPasswordReset, InviteAdmin
<1>9. ASSUME TokensExpire \/ \E t \in Tabs : LoadStoredSession(t) \/ Reload(t) PROVE UNCHANGED user
  BY <1>9 DEF TokensExpire, LoadStoredSession, Reload, server
<1>10. CASE UNCHANGED vars
  BY <1>1, <1>10 DEF vars, server
<1>11. CASE Next
  BY <1>1, <1>3, <1>4, <1>5, <1>6, <1>7, <1>8, <1>9, <1>11 DEF Next
<1> QED
  BY <1>10, <1>11

\* With the members left what they are, an organization needs an owner only when it is made,
\* and an invite a member only when it is used up.
LEMMA WholeStep == TInv /\ AccountsAreWhole /\ [Next]_vars => AccountsAreWhole'
<1> SUFFICES ASSUME TInv, AccountsAreWhole, [Next]_vars PROVE AccountsAreWhole'
  OBVIOUS
<1>1. MembersStay
  BY MembersMove
<1>2. ASSUME UNCHANGED orgs, \A i \in TokenIds : invites'[i] = invites[i] \/ invites'[i].state # "used"
      PROVE  AccountsAreWhole'
  BY <1>1, <1>2 DEF AccountsAreWhole, MembersStay, TInv, TypeOK
<1>3. ASSUME NEW k \in Calls, Registered(k) PROVE AccountsAreWhole'
  <2> DEFINE c == call[k]
             row == [password |-> c.password, version |-> 0, role |-> "owner", org |-> c.org]
  <2>1. c.email \in Emails /\ UNCHANGED invites
    BY <1>3, RequestFields DEF Registered, TInv, TypeOK
  <2>2. CASE UNCHANGED <<user, orgs>>
    BY <1>2, <2>1, <2>2
  <2>3. CASE user' = [user EXCEPT ![c.email] = row] /\ orgs' = orgs \cup {c.org}
    <3>1. user'[c.email] # NoUser /\ user'[c.email].org = c.org /\ user'[c.email].role = "owner"
      <4>1. row \in Rows /\ user'[c.email] = row
        BY <1>3, <2>1, <2>3, RequestFields DEF Registered, Rows, TInv, TypeOK
      <4> QED
        BY <4>1, Apart
    <3> HIDE DEF row
    <3> QED
      BY <1>1, <2>1, <2>3, <3>1 DEF AccountsAreWhole, MembersStay, TInv, TypeOK
  <2> QED
    BY <1>3, <2>2, <2>3 DEF Registered, OrgAfter
<1>4. ASSUME NEW k \in Calls, InviteAccepted(k) PROVE AccountsAreWhole'
  <2> DEFINE id == call[k].id
             email == invites[id].for
             row == [password |-> call[k].password, version |-> 0, role |-> "admin", org |-> invites[id].org]
  <2>1. id \in TokenIds /\ email \in Emails /\ UNCHANGED orgs
    BY <1>4, RequestFields DEF InviteAccepted, TInv, TypeOK
  <2>2. CASE user[email] # NoUser
    BY <1>2, <1>4, <2>1, <2>2 DEF InviteAccepted, InvitesAfter
  <2>3. CASE user[email] = NoUser
    <3>1. invites' = [invites EXCEPT ![id].state = "used"] /\ user' = [user EXCEPT ![email] = row]
      BY <1>4, <2>3 DEF InviteAccepted, InvitesAfter
    <3>2. row \in Rows /\ user'[email] = row
      BY <1>4, <2>1, <3>1, RequestFields DEF InviteAccepted, Rows, TInv, TypeOK
    <3>3. user'[email] # NoUser /\ user'[email].org = invites[id].org
      BY <3>2, Apart
    <3>4. \A i \in TokenIds : invites'[i].for = invites[i].for /\ invites'[i].org = invites[i].org
                              /\ (i # id => invites'[i].state = invites[i].state)
      BY <2>1, <3>1 DEF TInv, TypeOK
    <3>5. \A o \in orgs' : \E e \in Emails : user'[e] # NoUser /\ user'[e].org = o /\ user'[e].role = "owner"
      BY <1>1, <2>1 DEF AccountsAreWhole, MembersStay
    <3> HIDE DEF row, id, email
    <3>6. \A i \in TokenIds : invites'[i].state = "used" =>
            user'[invites'[i].for] # NoUser /\ user'[invites'[i].for].org = invites'[i].org
      <4> SUFFICES ASSUME NEW i \in TokenIds, invites'[i].state = "used"
                   PROVE  user'[invites[i].for] # NoUser /\ user'[invites[i].for].org = invites[i].org
        BY <3>4
      <4>1. CASE i = id
        BY <3>3, <4>1 DEF email
      <4>2. CASE i # id
        BY <1>1, <3>4, <4>2 DEF AccountsAreWhole, MembersStay, TInv, TypeOK
      <4> QED
        BY <4>1, <4>2
    <3> QED
      BY <3>5, <3>6 DEF AccountsAreWhole
  <2> QED
    BY <2>2, <2>3
<1>5. ASSUME NEW k \in Calls, LoggedIn(k) \/ Answer(k) \/ LoggedOut(k) \/ PasswordReset(k) PROVE AccountsAreWhole'
  BY <1>2, <1>5 DEF LoggedIn, Answer, LoggedOut, PasswordReset, server
<1>6. ASSUME NEW k \in Calls, NEW t \in Tabs,
             \/ Request(k, t) \/ VerifySession(k, t) \/ Logout(k, t)
             \/ \E e \in Emails : \E p \in Passwords :
                  SubmitLogin(k, t, e, p) \/ \E o \in Slugs : SubmitRegistration(k, t, e, o, p)
             \/ \E i \in TokenIds : \E p \in Passwords : ResetPassword(k, t, i, p) \/ AcceptInvite(k, t, i, p)
      PROVE  UNCHANGED <<orgs, invites>>
  BY <1>6 DEF Request, VerifySession, Logout, SubmitLogin, SubmitRegistration, ResetPassword, AcceptInvite, server
<1>7. ASSUME NEW i \in TokenIds, NEW e \in Emails,
             RequestPasswordReset(i, e) \/ \E t \in Tabs : \E o \in Slugs : InviteAdmin(t, i, e, o)
      PROVE  AccountsAreWhole'
  BY <1>2, <1>7 DEF RequestPasswordReset, InviteAdmin, TInv, TypeOK
<1>8. CASE TokensExpire
  BY <1>2, <1>8 DEF TokensExpire, TInv, TypeOK
<1>9. ASSUME NEW t \in Tabs, LoadStoredSession(t) \/ Reload(t) PROVE AccountsAreWhole'
  BY <1>2, <1>9 DEF LoadStoredSession, Reload, server
<1>10. CASE UNCHANGED vars
  BY <1>2, <1>10 DEF vars, server
<1>11. CASE Next
  BY <1>2, <1>3, <1>4, <1>5, <1>6, <1>7, <1>8, <1>9, <1>11 DEF Next
<1> QED
  BY <1>10, <1>11

\* However registrations and invitations for the same address or organization overlap, every
\* organization has an owner and every used invite a member of the inviting organization.
THEOREM Whole == Spec => []AccountsAreWhole
<1>1. Init => AccountsAreWhole
  <2> SUFFICES ASSUME Init PROVE AccountsAreWhole
    OBVIOUS
  <2>1. orgs = {Home} /\ \A i \in TokenIds : invites[i].state = "none"
    BY DEF Init
  <2>2. user[Founder] = [password |-> First, version |-> 0, role |-> "owner", org |-> Home]
    BY DEF Init
  <2>3. user[Founder] # NoUser
    BY <2>2
  <2> QED
    BY <2>1, <2>2, <2>3 DEF AccountsAreWhole
<1> QED
  BY <1>1, TypeInit, TypeStep, WholeStep, PTL DEF Spec

----------------------------------------------------------------------------
(* Refusals.                                                                *)

\* A tab loses its session, and the store with it, to its own logout or the refusal of that
\* very session, and to nothing else that happens meanwhile.
THEOREM Refusals == Spec => LateRefusalHarmless
<1> DEFINE Step == \A t \in Tabs :
      held[t] # NoToken /\ held'[t] = NoToken /\ stored' # stored =>
        \E k \in Calls : /\ call[k] # Idle /\ call'[k] = Idle /\ call[k].tab = t
                         /\ \/ call[k].kind = "logout"
                            \/ call[k].kind = "request" /\ call[k].token = held[t]
<1>1. TInv /\ [Next]_vars => Step
  <2> SUFFICES ASSUME TInv, [Next]_vars PROVE Step
    OBVIOUS
  <2>1. CASE UNCHANGED stored
    BY <2>1
  <2>2. ASSUME NEW k \in Calls, LoggedIn(k) PROVE Step
    BY <2>2, RequestFields, Apart DEF LoggedIn, SetSession, TInv, TypeOK
  <2>3. ASSUME NEW k \in Calls, Registered(k) PROVE Step
    <3> DEFINE row == [password |-> call[k].password, version |-> 0, role |-> "owner", org |-> call[k].org]
    <3>1. call[k].email \in Emails /\ row \in Rows
      BY <2>3, RequestFields DEF Registered, Rows, TInv, TypeOK
    <3>2. \/ UNCHANGED stored
          \/ SetSession(call[k].tab, TokenFor(call[k].email, row))
      BY <2>3 DEF Registered, RegisteredInTab
    <3> HIDE DEF row
    <3> QED
      BY <2>1, <3>1, <3>2, TokenType, Apart DEF SetSession, TInv, TypeOK
  <2>4. ASSUME NEW k \in Calls, Answer(k) \/ LoggedOut(k) PROVE Step
    <3>1. call'[k] = Idle /\ call[k] # Idle
      BY <2>4 DEF Answer, LoggedOut, End, Idle, TInv, TypeOK
    <3>2. \A t \in Tabs : held[t] # NoToken /\ held'[t] = NoToken => t = call[k].tab
      BY <2>4 DEF Answer, LoggedOut, SetSession, TInv, TypeOK
    <3>3. CASE Answer(k)
      BY <3>1, <3>2, <3>3 DEF Answer, Refused
    <3>4. CASE LoggedOut(k)
      BY <3>1, <3>2, <3>4 DEF LoggedOut
    <3> QED
      BY <2>4, <3>3, <3>4
  <2>5. ASSUME NEW k \in Calls, PasswordReset(k) \/ InviteAccepted(k) PROVE UNCHANGED stored
    BY <2>5 DEF PasswordReset, InviteAccepted
  <2>6. ASSUME NEW k \in Calls, NEW t \in Tabs,
               \/ Request(k, t) \/ VerifySession(k, t) \/ Logout(k, t)
               \/ \E e \in Emails : \E p \in Passwords :
                    SubmitLogin(k, t, e, p) \/ \E o \in Slugs : SubmitRegistration(k, t, e, o, p)
               \/ \E i \in TokenIds : \E p \in Passwords : ResetPassword(k, t, i, p) \/ AcceptInvite(k, t, i, p)
        PROVE  UNCHANGED stored
    BY <2>6 DEF Request, VerifySession, Logout, SubmitLogin, SubmitRegistration, ResetPassword, AcceptInvite
  <2>7. ASSUME NEW i \in TokenIds, NEW e \in Emails,
               RequestPasswordReset(i, e) \/ \E t \in Tabs : \E o \in Slugs : InviteAdmin(t, i, e, o)
        PROVE  UNCHANGED stored
    BY <2>7 DEF RequestPasswordReset, InviteAdmin
  <2>8. ASSUME TokensExpire \/ \E t \in Tabs : LoadStoredSession(t) \/ Reload(t) PROVE UNCHANGED stored
    BY <2>8 DEF TokensExpire, LoadStoredSession, Reload
  <2>9. CASE UNCHANGED vars
    BY <2>1, <2>9 DEF vars
  <2>10. CASE Next
    BY <2>1, <2>2, <2>3, <2>4, <2>5, <2>6, <2>7, <2>8, <2>10 DEF Next
  <2> QED
    BY <2>9, <2>10
<1> QED
  BY <1>1, TypeInit, TypeStep, PTL DEF Spec, LateRefusalHarmless
=============================================================================
