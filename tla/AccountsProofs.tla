---------------------------- MODULE AccountsProofs ----------------------------
(***************************************************************************)
(* What Accounts promises of passwords, links and promotions, for every    *)
(* number of accounts, links and requests.                                 *)
(***************************************************************************)
EXTENDS Accounts, TLAPS

\* The steps at which a request works on an account, and on a link.
AccountSteps == {"promote", "session", "verify", "current", "set", "revoke",
                 "update", "toggle", "deactivate", "activate", "link"}
LinkSteps == {"spend", "discard"}
Steps == AccountSteps \union LinkSteps
           \union {"idle", "create", "mint", "find", "new", "done", "refused"}
Ops == Purposes \union {"none", "login", "register", "change", "password", "update",
                        "toggle", "new", "link"}

Request == [op: Ops, step: Steps, acct: UserIds \union {None}, since: Nat,
            then: {"none", "promote", "session", "revoke"}, mail: Emails \union {None},
            link: Links \union {None}, rivals: SUBSET Requests]

Change == [set: BOOLEAN, acct: UserIds \union {None}, epoch: Nat,
           overlapped: SUBSET Requests]

TypeOK ==
    /\ users \in [UserIds -> User]
    /\ links \in [Links -> Link]
    /\ sessions \subseteq Session
    /\ req \in [Requests -> Request]
    /\ epoch \in [UserIds -> Nat]
    /\ change \in [Requests -> Change]
    /\ served \subseteq [by: Requests, link: Links, rivals: SUBSET Requests]
    /\ unspent \subseteq Links
    /\ proved \in [UserIds -> SUBSET Emails]
    /\ given \in [UserIds -> SUBSET Emails]
    /\ promoted \subseteq UserIds \X Emails

\* What a request has at each step.
StepOK(r) ==
    /\ req[r].step \in AccountSteps => req[r].acct \in UserIds /\ Known(req[r].acct)
    /\ req[r].step \in LinkSteps => req[r].link \in Links
    /\ req[r].step \in LinkSteps \union {"find"} => req[r].op \in Purposes /\ req[r].mail \in Emails
    /\ req[r].step \in {"create", "mint", "promote", "verify"} => req[r].mail \in Emails
    /\ At(r, "create") => req[r].op \in {"register", "magic", "new"}
    /\ At(r, "mint") => req[r].op \in Purposes
    /\ At(r, "current") => req[r].op = "change"
    /\ At(r, "verify") => \/ req[r].op = "magic" /\ req[r].then \in {"promote", "session"}
                          \/ req[r].op = "reset" /\ req[r].then = "revoke"
    /\ At(r, "set") => \/ req[r].op = "reset" /\ req[r].then = "revoke" /\ req[r].mail \in Emails
                       \/ req[r].op \in {"change", "password"}

\* Every session is an account's.
SessionsOK == \A s \in sessions : Known(s.user)

\* A request that has set a password goes on to the revocation and ends.
ChangeOK(r) ==
    change[r].set =>
        /\ change[r].acct \in UserIds
        /\ change[r].epoch <= epoch[change[r].acct]
        /\ req[r].step \in {"verify", "revoke", "done", "refused"}
        /\ At(r, "verify") => req[r].op = "reset"
        /\ req[r].step \in {"verify", "revoke"} => req[r].acct = change[r].acct

\* A request that signs in from a row older than a change overlaps the change.
ReadersOK(r) ==
    change[r].set =>
        \A q \in SigningIn(change[r].acct) :
            req[q].since < change[r].epoch => q \in change[r].overlapped

AccountInv ==
    /\ TypeOK /\ SessionsOK
    /\ \A r \in Requests : StepOK(r) /\ ChangeOK(r) /\ ReadersOK(r)
    /\ ChangeEndsSessions

\* Of two requests that found a link, one found it before the other deleted it.
LinkInv ==
    /\ \A p \in served : p.link \notin unspent => links[p.link].state = "gone"
    /\ \A p \in served, r \in Requests :
         At(r, "spend") /\ req[r].link = p.link /\ p.by # r /\ p.link \notin unspent =>
             p.by \in req[r].rivals \/ r \in p.rivals
    /\ \A q, r \in Requests :
         At(q, "spend") /\ At(r, "spend") /\ req[q].link = req[r].link /\ q # r =>
             q \in req[r].rivals \/ r \in req[q].rivals
    /\ LinkServesOnce

\* An account was reached at an address and has that or a given one.
ReachedAt(u, e) == proved[u] # {} /\ e \in proved[u] \union given[u]
Reached(u) == ReachedAt(u, users[u].email)

\* The requests that have come by a link for the address of their account, and
\* those about to promote it.
Reaching(r) == At(r, "verify") \/ (At(r, "set") /\ req[r].op = "reset")
Promoting(r) == At(r, "promote") \/ (At(r, "verify") /\ req[r].then = "promote")

PromotionInv ==
    /\ \A u \in UserIds : Known(u) /\ users[u].verified => Reached(u)
    /\ \A r \in Requests : Reaching(r) => Reached(req[r].acct)
    /\ \A r \in Requests :
         Promoting(r) => req[r].mail \in AdminEmails /\ ReachedAt(req[r].acct, req[r].mail)
    /\ PromotedAddressWasProved

-----------------------------------------------------------------------------
(* Types and steps.                                                        *)

\* Moving a request to a step changes that and nothing else.
LEMMA GoesFacts ==
    ASSUME req \in [Requests -> Request], NEW r \in Requests, NEW step \in Steps,
           Goes(r, step)
    PROVE  /\ req' \in [Requests -> Request]
           /\ req'[r] = [req[r] EXCEPT !.step = step]
           /\ \A q \in Requests \ {r} : req'[q] = req[q]
  BY DEF Goes, Request

\* A request that ends forgets what it knew.
LEMMA EndsFacts ==
    ASSUME req \in [Requests -> Request], NEW r \in Requests, NEW how \in {"done", "refused"},
           Ends(r, how)
    PROVE  /\ req' \in [Requests -> Request]
           /\ req'[r] = [Idle EXCEPT !.step = how]
           /\ \A q \in Requests \ {r} : req'[q] = req[q]
  <1>1. [Idle EXCEPT !.step = how] \in Request
    BY DEF Idle, Request, Ops, Steps
  <1>. QED
    BY <1>1 DEF Ends

\* Changing a field of one account keeps the table.
LEMMA UserFacts ==
    ASSUME users \in [UserIds -> User], NEW u \in UserIds
    PROVE  /\ \A p \in Passwords : [users EXCEPT ![u].password = p] \in [UserIds -> User]
           /\ \A b \in BOOLEAN : [users EXCEPT ![u].active = b] \in [UserIds -> User]
           /\ \A e \in Emails, role \in Roles :
                [users EXCEPT ![u].email = e, ![u].role = role] \in [UserIds -> User]
           /\ [users EXCEPT ![u].role = "ADMIN"] \in [UserIds -> User]
           /\ [users EXCEPT ![u].verified = TRUE] \in [UserIds -> User]
  <1>1. ASSUME NEW row \in User PROVE [users EXCEPT ![u] = row] \in [UserIds -> User]
    OBVIOUS
  <1>2. users[u] \in User
    OBVIOUS
  <1>3. ASSUME NEW p \in Passwords PROVE [users[u] EXCEPT !.password = p] \in User
    BY <1>2 DEF User
  <1>4. ASSUME NEW b \in BOOLEAN PROVE [users[u] EXCEPT !.active = b] \in User
    BY <1>2 DEF User
  <1>5. ASSUME NEW e \in Emails, NEW role \in Roles
        PROVE  [users[u] EXCEPT !.email = e, !.role = role] \in User
    BY <1>2 DEF User
  <1>6. [users[u] EXCEPT !.role = "ADMIN"] \in User
    BY <1>2 DEF User, Roles
  <1>7. [users[u] EXCEPT !.verified = TRUE] \in User
    BY <1>2 DEF User
  <1>8. ASSUME NEW p \in Passwords
        PROVE  [users EXCEPT ![u].password = p] \in [UserIds -> User]
    BY <1>1, <1>3
  <1>9. ASSUME NEW b \in BOOLEAN
        PROVE  [users EXCEPT ![u].active = b] \in [UserIds -> User]
    BY <1>1, <1>4
  <1>10. ASSUME NEW e \in Emails, NEW role \in Roles
         PROVE  [users EXCEPT ![u].email = e, ![u].role = role] \in [UserIds -> User]
    <2>1. [users EXCEPT ![u].email = e, ![u].role = role]
             = [users EXCEPT ![u] = [users[u] EXCEPT !.email = e, !.role = role]]
      OBVIOUS
    <2>. QED
      BY <1>1, <1>5, <2>1
  <1>11. [users EXCEPT ![u].role = "ADMIN"] \in [UserIds -> User]
    BY <1>1, <1>6
  <1>12. [users EXCEPT ![u].verified = TRUE] \in [UserIds -> User]
    BY <1>1, <1>7
  <1>. QED
    BY <1>8, <1>9, <1>10, <1>11, <1>12

\* So does moving links to a later state.
LEMMA LinkFacts ==
    ASSUME links \in [Links -> Link]
    PROVE  /\ \A l \in Links : /\ [links EXCEPT ![l].state = "gone"] \in [Links -> Link]
                               /\ [links EXCEPT ![l].state = "expired"] \in [Links -> Link]
           /\ [l \in Links |-> IF links[l].state = "expired"
                 THEN [links[l] EXCEPT !.state = "gone"] ELSE links[l]] \in [Links -> Link]
  <1>1. ASSUME NEW l \in Links, NEW state \in {"gone", "expired"}
        PROVE  [links[l] EXCEPT !.state = state] \in Link
    BY DEF Link
  <1>. QED
    BY <1>1

\* Every step keeps the types.
LEMMA TypeStep ==
    ASSUME TypeOK, \A r \in Requests : StepOK(r), [Next]_accountVars
    PROVE  TypeOK'
<1>0. TypeOK /\ \A r \in Requests : StepOK(r)
  OBVIOUS
<1>1. ASSUME NEW r \in Requests, NEW u \in UserIds, NEW p \in Passwords, LoginPassword(r, u, p)
       PROVE  TypeOK'
  <2>1. req' \in [Requests -> Request]
    <3>1. epoch[u] \in Nat /\ users[u].email \in Emails
      BY <1>0 DEF TypeOK, User
    <3>2. [Idle EXCEPT !.op = "login", !.step = SignInStep(users[u]), !.acct = u,
                       !.since = epoch[u], !.mail = users[u].email] \in Request
      BY <3>1 DEF Idle, Request, SignInStep, Ops, Steps, AccountSteps
    <3>. QED
      BY <1>1, <1>0, <3>2 DEF LoginPassword, TypeOK
  <2>. QED
    BY <1>1, <1>0, <2>1 DEF LoginPassword, TypeOK, database, historyVars
<1>2. ASSUME NEW r \in Requests, PromoteAdmin(r)
       PROVE  TypeOK'
  <2>1. req' \in [Requests -> Request]
    BY <1>2, <1>0, GoesFacts DEF PromoteAdmin, TypeOK, StepOK, At, Steps, AccountSteps,
      LinkSteps
  <2>2. users' \in [UserIds -> User]
    <3>1. req[r].acct \in UserIds
      BY <1>2, <1>0 DEF PromoteAdmin, StepOK, At, AccountSteps
    <3>2. [users EXCEPT ![req[r].acct].role = "ADMIN"] \in [UserIds -> User]
      BY <1>0, <3>1, UserFacts DEF TypeOK
    <3>3. users' = [users EXCEPT ![req[r].acct].role = "ADMIN"] \/ users' = users
      BY <1>2 DEF PromoteAdmin
    <3>. QED
      BY <1>0, <3>2, <3>3 DEF TypeOK
  <2>3. promoted' \subseteq UserIds \X Emails
    BY <1>2, <1>0 DEF PromoteAdmin, TypeOK, StepOK, At, AccountSteps
  <2>. QED
    BY <1>2, <1>0, <2>1, <2>2, <2>3 DEF PromoteAdmin, TypeOK
<1>3. ASSUME NEW r \in Requests, SetSession(r)
       PROVE  TypeOK'
  <2>1. req' \in [Requests -> Request]
    BY <1>3, <1>0, EndsFacts DEF SetSession, TypeOK, StepOK, At, Steps, AccountSteps, LinkSteps
  <2>2. sessions' \subseteq Session
    BY <1>3, <1>0 DEF SetSession, TypeOK, StepOK, At, AccountSteps, Session, Request
  <2>. QED
    BY <1>3, <1>0, <2>1, <2>2 DEF SetSession, TypeOK, historyVars
<1>4. ASSUME NEW r \in Requests, NEW e \in Emails, Register(r, e)
       PROVE  TypeOK'
  <2>1. req' \in [Requests -> Request]
    BY <1>4, <1>0 DEF Register, TypeOK, StepOK, At, Idle, Request, Ops, Steps, AccountSteps,
      LinkSteps, Begins, Purposes
  <2>. QED
    BY <1>4, <1>0, <2>1 DEF Register, TypeOK, database, historyVars
<1>5. ASSUME NEW r \in Requests, NEW e \in Emails, RequestMagicLink(r, e)
       PROVE  TypeOK'
  <2>1. req' \in [Requests -> Request]
    BY <1>5, <1>0 DEF RequestMagicLink, TypeOK, StepOK, At, Idle, Request, Ops, Steps,
      AccountSteps, LinkSteps, Begins, Purposes
  <2>. QED
    BY <1>5, <1>0, <2>1 DEF RequestMagicLink, TypeOK, database, historyVars
<1>6. ASSUME NEW r \in Requests, NEW e \in Emails, ForgotPassword(r, e)
       PROVE  TypeOK'
  <2>1. req' \in [Requests -> Request]
    BY <1>6, <1>0 DEF ForgotPassword, TypeOK, StepOK, At, Idle, Request, Ops, Steps,
      AccountSteps, LinkSteps, Begins, Purposes
  <2>. QED
    BY <1>6, <1>0, <2>1 DEF ForgotPassword, TypeOK, database, historyVars
<1>7. ASSUME NEW r \in Requests, NEW u \in UserIds,
             NEW p \in Passwords \union {NoPassword}, NEW role \in Roles,
             CreateUser(r, u, p, role)
       PROVE  TypeOK'
  <2>1. req' \in [Requests -> Request]
    <3>1. CASE req[r].op = "register"
      BY <1>7, <1>0, <3>1 DEF CreateUser, TypeOK, Request, Steps, AccountSteps
    <3>2. CASE req[r].op = "magic"
      BY <1>7, <1>0, <3>2, GoesFacts DEF CreateUser, TypeOK, Steps
    <3>3. CASE req[r].op \notin {"register", "magic"}
      BY <1>7, <1>0, <3>3, EndsFacts DEF CreateUser, TypeOK
    <3>. QED
      BY <3>1, <3>2, <3>3
  <2>2. users' \in [UserIds -> User]
    BY <1>7, <1>0 DEF CreateUser, TypeOK, StepOK, At, User, Roles
  <2>. QED
    BY <1>7, <1>0, <2>1, <2>2 DEF CreateUser, TypeOK, historyVars
<1>8. ASSUME NEW r \in Requests, NEW l \in Links, CreateVerificationToken(r, l)
       PROVE  TypeOK'
  <2>1. req' \in [Requests -> Request]
    BY <1>8, <1>0, EndsFacts DEF CreateVerificationToken, TypeOK, StepOK, At, Steps,
      AccountSteps, LinkSteps
  <2>2. links' \in [Links -> Link]
    BY <1>8, <1>0 DEF CreateVerificationToken, TypeOK, StepOK, At, Link
  <2>. QED
    BY <1>8, <1>0, <2>1, <2>2 DEF CreateVerificationToken, TypeOK, historyVars
<1>9. ASSUME NEW r \in Requests, NEW l \in Links, FindToken(r, l)
       PROVE  TypeOK'
  <2>1. req' \in [Requests -> Request]
    <3>1. links[l].purpose \in Purposes /\ links[l].email \in Emails
      BY <1>0 DEF TypeOK, Link
    <3>2. ASSUME NEW step \in {"spend", "discard"}, NEW rivals \in SUBSET Requests
          PROVE  [Idle EXCEPT !.op = links[l].purpose, !.link = l, !.mail = links[l].email,
                              !.step = step, !.rivals = rivals] \in Request
      BY <3>1 DEF Idle, Request, Ops, Steps, LinkSteps
    <3>. QED
      BY <1>9, <1>0, <3>2 DEF FindToken, TypeOK
  <2>. QED
    BY <1>9, <1>0, <2>1 DEF FindToken, TypeOK, database, historyVars
<1>10. ASSUME NEW r \in Requests, SpendToken(r)
       PROVE  TypeOK'
  <2>1. req' \in [Requests -> Request]
    <3>1. [req[r] EXCEPT !.step = "find", !.link = None, !.rivals = {}] \in Request
      <4>1. \A x \in Request : [x EXCEPT !.step = "find", !.link = None, !.rivals = {}] \in Request
        BY DEF Request, Steps
      <4>. QED
        BY <1>0, <4>1 DEF TypeOK
    <3>2. req' = [req EXCEPT ![r] = [req[r] EXCEPT !.step = "find", !.link = None, !.rivals = {}]]
      BY <1>10, <1>0 DEF SpendToken, TypeOK
    <3>. QED
      BY <1>0, <3>1, <3>2 DEF TypeOK
  <2>2. links' \in [Links -> Link] /\ unspent' \subseteq Links
    <3>1. req[r].link \in Links
      BY <1>10, <1>0 DEF SpendToken, StepOK, At, LinkSteps
    <3>2. Spends(req[r].link)
      BY <1>10 DEF SpendToken
    <3>3. [links EXCEPT ![req[r].link].state = "gone"] \in [Links -> Link]
      BY <1>0, <3>1, LinkFacts DEF TypeOK
    <3>. QED
      BY <1>0, <3>1, <3>2, <3>3 DEF Spends, TypeOK
  <2>3. served' \subseteq [by: Requests, link: Links, rivals: SUBSET Requests]
    BY <1>10, <1>0 DEF SpendToken, TypeOK, StepOK, At, LinkSteps, Request
  <2>. QED
    BY <1>10, <1>0, <2>1, <2>2, <2>3 DEF SpendToken, TypeOK
<1>11. ASSUME NEW r \in Requests, DiscardToken(r)
       PROVE  TypeOK'
  <2>1. req' \in [Requests -> Request]
    BY <1>11, <1>0, EndsFacts DEF DiscardToken, TypeOK, StepOK, At, Steps, AccountSteps,
      LinkSteps
  <2>2. links' \in [Links -> Link] /\ unspent' \subseteq Links
    <3>1. req[r].link \in Links
      BY <1>11, <1>0 DEF DiscardToken, StepOK, At, LinkSteps
    <3>2. Spends(req[r].link)
      BY <1>11 DEF DiscardToken
    <3>3. [links EXCEPT ![req[r].link].state = "gone"] \in [Links -> Link]
      BY <1>0, <3>1, LinkFacts DEF TypeOK
    <3>. QED
      BY <1>0, <3>1, <3>2, <3>3 DEF Spends, TypeOK
  <2>. QED
    BY <1>11, <1>0, <2>1, <2>2 DEF DiscardToken, TypeOK
<1>12. ASSUME NEW r \in Requests, NEW u \in UserIds, FindByEmail(r, u)
       PROVE  TypeOK'
  <2>1. req' \in [Requests -> Request]
    <3>1. SignInStep([users[u] EXCEPT !.verified = TRUE]) \in {"promote", "session"}
      BY DEF SignInStep
    <3>2. ASSUME NEW row \in Request, NEW step \in {"verify", "set"},
                 NEW then \in {"promote", "session", "revoke"}
          PROVE  [row EXCEPT !.acct = u, !.since = epoch[u], !.step = step, !.then = then] \in Request
      BY <1>0 DEF TypeOK, Request, Steps, AccountSteps
    <3>. QED
      BY <1>12, <1>0, <3>1, <3>2 DEF FindByEmail, TypeOK
  <2>2. proved' \in [UserIds -> SUBSET Emails]
    BY <1>12, <1>0 DEF FindByEmail, TypeOK, StepOK, At
  <2>. QED
    BY <1>12, <1>0, <2>1, <2>2 DEF FindByEmail, TypeOK, database
<1>13. ASSUME NEW r \in Requests, MarkEmailVerified(r)
       PROVE  TypeOK'
  <2>1. req' \in [Requests -> Request]
    BY <1>13, <1>0, GoesFacts DEF MarkEmailVerified, TypeOK, StepOK, At, Steps, AccountSteps,
      LinkSteps
  <2>2. users' \in [UserIds -> User]
    <3>1. req[r].acct \in UserIds
      BY <1>13, <1>0 DEF MarkEmailVerified, StepOK, At, AccountSteps
    <3>2. [users EXCEPT ![req[r].acct].verified = TRUE] \in [UserIds -> User]
      BY <1>0, <3>1, UserFacts DEF TypeOK
    <3>3. users' = [users EXCEPT ![req[r].acct].verified = TRUE] \/ users' = users
      BY <1>13 DEF MarkEmailVerified
    <3>. QED
      BY <1>0, <3>2, <3>3 DEF TypeOK
  <2>. QED
    BY <1>13, <1>0, <2>1, <2>2 DEF MarkEmailVerified, TypeOK, historyVars
<1>14. ASSUME NEW r \in Requests, NEW s \in sessions, NEW u \in UserIds,
             NEW op \in {"change", "password", "update", "toggle", "new", "link"},
             Authenticate(r, s, op, u)
       PROVE  TypeOK'
  <2>1. req' \in [Requests -> Request]
    BY <1>14, <1>0 DEF Authenticate, TypeOK, StepOK, At, Idle, Request, Ops, Steps,
      AccountSteps, LinkSteps, Begins
  <2>. QED
    BY <1>14, <1>0, <2>1 DEF Authenticate, TypeOK, database, historyVars
<1>15. ASSUME NEW r \in Requests, NEW p \in Passwords, VerifyCurrent(r, p)
       PROVE  TypeOK'
  <2>1. req' \in [Requests -> Request]
    BY <1>15, <1>0, GoesFacts DEF VerifyCurrent, TypeOK, StepOK, At, Steps, AccountSteps,
      LinkSteps
  <2>. QED
    BY <1>15, <1>0, <2>1 DEF VerifyCurrent, TypeOK, database, historyVars
<1>16. ASSUME NEW r \in Requests, NEW p \in Passwords, SetPassword(r, p)
       PROVE  TypeOK'
  <2>1. req' \in [Requests -> Request]
    BY <1>16, <1>0, GoesFacts DEF SetPassword, TypeOK, StepOK, At, Steps, AccountSteps,
      LinkSteps
  <2>2. users' \in [UserIds -> User]
    BY <1>16, <1>0, UserFacts DEF SetPassword, TypeOK, StepOK, At, AccountSteps
  <2>3. epoch' \in [UserIds -> Nat]
    BY <1>16, <1>0 DEF SetPassword, TypeOK, StepOK, At, AccountSteps
  <2>4. change' \in [Requests -> Change]
    BY <1>16, <1>0 DEF SetPassword, TypeOK, StepOK, At, AccountSteps, SigningIn, Change
  <2>. QED
    BY <1>16, <1>0, <2>1, <2>2, <2>3, <2>4 DEF SetPassword, TypeOK
<1>17. ASSUME NEW r \in Requests, DeleteUserSessions(r)
       PROVE  TypeOK'
  <2>1. req' \in [Requests -> Request]
    BY <1>17, <1>0, EndsFacts DEF DeleteUserSessions, TypeOK, StepOK, At, Steps, AccountSteps,
      LinkSteps
  <2>. QED
    BY <1>17, <1>0, <2>1 DEF DeleteUserSessions, TypeOK, historyVars
<1>18. ASSUME NEW r \in Requests, NEW e \in Emails, NEW role \in Roles, AdminUpdate(r, e, role)
       PROVE  TypeOK'
  <2>1. req' \in [Requests -> Request]
    BY <1>18, <1>0, EndsFacts DEF AdminUpdate, TypeOK, StepOK, At, Steps, AccountSteps,
      LinkSteps
  <2>2. users' \in [UserIds -> User]
    BY <1>18, <1>0, UserFacts DEF AdminUpdate, TypeOK, StepOK, At, AccountSteps
  <2>3. given' \in [UserIds -> SUBSET Emails]
    BY <1>18, <1>0 DEF AdminUpdate, TypeOK, StepOK, At, AccountSteps
  <2>. QED
    BY <1>18, <1>0, <2>1, <2>2, <2>3 DEF AdminUpdate, TypeOK
<1>19. ASSUME NEW r \in Requests, AdminToggle(r)
       PROVE  TypeOK'
  <2>1. req' \in [Requests -> Request]
    BY <1>19, <1>0, GoesFacts, EndsFacts DEF AdminToggle, TypeOK, StepOK, At, Steps,
      AccountSteps, LinkSteps
  <2>2. users' \in [UserIds -> User]
    <3>1. req[r].acct \in UserIds
      BY <1>19, <1>0 DEF AdminToggle, StepOK, At, AccountSteps
    <3>2. /\ [users EXCEPT ![req[r].acct].active = TRUE] \in [UserIds -> User]
          /\ [users EXCEPT ![req[r].acct].active = FALSE] \in [UserIds -> User]
      BY <1>0, <3>1, UserFacts DEF TypeOK
    <3>3. \/ users' = [users EXCEPT ![req[r].acct].active = TRUE]
          \/ users' = [users EXCEPT ![req[r].acct].active = FALSE]
          \/ users' = users
      BY <1>19 DEF AdminToggle, At
    <3>. QED
      BY <1>0, <3>2, <3>3 DEF TypeOK
  <2>. QED
    BY <1>19, <1>0, <2>1, <2>2 DEF AdminToggle, TypeOK, historyVars
<1>20. ASSUME NEW r \in Requests, NEW e \in Emails, AdminCreateUser(r, e)
       PROVE  TypeOK'
  <2>1. req' \in [Requests -> Request]
    <3>1. [req[r] EXCEPT !.mail = e, !.step = "create"] \in Request
      <4>1. \A x \in Request : [x EXCEPT !.mail = e, !.step = "create"] \in Request
        BY DEF Request, Steps
      <4>. QED
        BY <1>0, <4>1 DEF TypeOK
    <3>. QED
      BY <1>20, <1>0, <3>1 DEF AdminCreateUser, TypeOK
  <2>. QED
    BY <1>20, <1>0, <2>1 DEF AdminCreateUser, TypeOK, database, historyVars
<1>21. ASSUME NEW r \in Requests, AdminMagicLink(r)
       PROVE  TypeOK'
  <2>1. req' \in [Requests -> Request]
    <3>1. req[r].acct \in UserIds
      BY <1>21, <1>0 DEF AdminMagicLink, StepOK, At, AccountSteps
    <3>2. users[req[r].acct].email \in Emails
      BY <1>0, <3>1 DEF TypeOK, User
    <3>3. ASSUME NEW x \in Request, NEW e \in Emails
          PROVE  [x EXCEPT !.op = "magic", !.step = "mint", !.acct = None, !.mail = e] \in Request
      BY DEF Request, Steps, Ops, Purposes
    <3>. QED
      BY <1>21, <1>0, <3>2, <3>3 DEF AdminMagicLink, TypeOK
  <2>. QED
    BY <1>21, <1>0, <2>1 DEF AdminMagicLink, TypeOK, database, historyVars
<1>22. ASSUME NEW r \in Requests, Fails(r)
       PROVE  TypeOK'
  <2>1. req' \in [Requests -> Request]
    BY <1>22, <1>0, EndsFacts DEF Fails, TypeOK, StepOK, At, Steps, AccountSteps, LinkSteps
  <2>. QED
    BY <1>22, <1>0, <2>1 DEF Fails, TypeOK, database, historyVars
<1>23. ASSUME NEW s \in sessions, EndSession(s)
       PROVE  TypeOK'
  BY <1>23, <1>0 DEF EndSession, TypeOK, historyVars
<1>24. ASSUME NEW l \in Links, Expire(l)
       PROVE  TypeOK'
  BY <1>24, <1>0, LinkFacts DEF Expire, TypeOK, historyVars
<1>25. ASSUME DeleteExpiredTokens
       PROVE  TypeOK'
  BY <1>25, <1>0, LinkFacts DEF DeleteExpiredTokens, TypeOK, historyVars
<1>26. CASE UNCHANGED accountVars
  BY <1>0, <1>26 DEF TypeOK, accountVars, database, historyVars
<1>. QED
  BY <1>1, <1>2, <1>3, <1>4, <1>5, <1>6, <1>7, <1>8, <1>9, <1>10, <1>11, <1>12, <1>13,
     <1>14, <1>15, <1>16, <1>17, <1>18, <1>19, <1>20, <1>21, <1>22, <1>23, <1>24, <1>25,
     <1>26 DEF Next, Serve

\* No account disappears.
LEMMA KnownStays ==
    ASSUME TypeOK, [Next]_accountVars
    PROVE  \A x \in UserIds : Known(x) => Known(x)'
<1>1. ASSUME NEW r \in Requests, PromoteAdmin(r)
      PROVE  \A x \in UserIds : Known(x) => Known(x)'
  <2>1. users' = users \/ users' = [users EXCEPT ![req[r].acct].role = "ADMIN"]
    BY <1>1 DEF PromoteAdmin
  <2>2. \A x \in UserIds : users'[x].exists = users[x].exists
    BY <2>1 DEF TypeOK, User
  <2>. QED
    BY <2>2 DEF Known
<1>2. ASSUME NEW r \in Requests, NEW u \in UserIds,
             NEW p \in Passwords \union {NoPassword}, NEW role \in Roles, CreateUser(r, u, p, role)
      PROVE  \A x \in UserIds : Known(x) => Known(x)'
  BY <1>2 DEF CreateUser, Known, TypeOK, User
<1>3. ASSUME NEW r \in Requests, MarkEmailVerified(r)
      PROVE  \A x \in UserIds : Known(x) => Known(x)'
  BY <1>3 DEF MarkEmailVerified, Known, TypeOK, User
<1>4. ASSUME NEW r \in Requests, NEW p \in Passwords, SetPassword(r, p)
      PROVE  \A x \in UserIds : Known(x) => Known(x)'
  BY <1>4 DEF SetPassword, Known, TypeOK, User
<1>5. ASSUME NEW r \in Requests, NEW e \in Emails, NEW role \in Roles, AdminUpdate(r, e, role)
      PROVE  \A x \in UserIds : Known(x) => Known(x)'
  BY <1>5 DEF AdminUpdate, Known, TypeOK, User
<1>6. ASSUME NEW r \in Requests, AdminToggle(r)
      PROVE  \A x \in UserIds : Known(x) => Known(x)'
  BY <1>6 DEF AdminToggle, Known, TypeOK, User
<1>7. CASE UNCHANGED users
  BY <1>7 DEF Known
<1>8. ASSUME NEW r \in Requests,
             \/ \E u \in UserIds, p \in Passwords : LoginPassword(r, u, p)
             \/ \E e \in Emails : Register(r, e) \/ RequestMagicLink(r, e) \/ ForgotPassword(r, e)
             \/ \E e \in Emails : AdminCreateUser(r, e)
             \/ \E u \in UserIds : FindByEmail(r, u)
             \/ \E p \in Passwords : VerifyCurrent(r, p)
             \/ SetSession(r)
      PROVE  UNCHANGED users
  BY <1>8 DEF LoginPassword, SetSession, Register, RequestMagicLink, ForgotPassword, FindByEmail,
     VerifyCurrent, AdminCreateUser, database
<1>9. ASSUME NEW r \in Requests,
             \/ \E l \in Links : CreateVerificationToken(r, l) \/ FindToken(r, l)
             \/ SpendToken(r) \/ DiscardToken(r)
             \/ DeleteUserSessions(r) \/ AdminMagicLink(r) \/ Fails(r)
      PROVE  UNCHANGED users
  BY <1>9 DEF CreateVerificationToken, FindToken, SpendToken, DiscardToken, DeleteUserSessions,
     AdminMagicLink, Fails, database
<1>10. ASSUME NEW r \in Requests, NEW s \in sessions, NEW op, NEW u \in UserIds,
              Authenticate(r, s, op, u)
       PROVE  UNCHANGED users
  BY <1>10 DEF Authenticate, database
<1>11. ASSUME NEW r \in Requests, Serve(r)
       PROVE  \A x \in UserIds : Known(x) => Known(x)'
  BY <1>1, <1>2, <1>3, <1>4, <1>5, <1>6, <1>7, <1>8, <1>9, <1>10, <1>11 DEF Serve
<1>12. ASSUME \/ \E s \in sessions : EndSession(s)
              \/ \E l \in Links : Expire(l)
              \/ DeleteExpiredTokens
              \/ UNCHANGED accountVars
       PROVE  UNCHANGED users
  BY <1>12 DEF EndSession, Expire, DeleteExpiredTokens, accountVars, database
<1>. QED
  BY <1>7, <1>11, <1>12 DEF Next

\* Every request has what its step needs.
LEMMA StepStep ==
    ASSUME TypeOK, SessionsOK, \A r \in Requests : StepOK(r), [Next]_accountVars
    PROVE  \A q \in Requests : StepOK(q)'
<1>0. TypeOK /\ SessionsOK /\ \A r \in Requests : StepOK(r)
  OBVIOUS
<1>K. \A u \in UserIds : Known(u) => Known(u)'
  BY KnownStays
<1>1. ASSUME NEW r \in Requests, NEW u \in UserIds, NEW p \in Passwords, LoginPassword(r, u, p)
       PROVE  \A q \in Requests : StepOK(q)'
  <2>1. \A q \in Requests \ {r} : req'[q] = req[q]
    BY <1>1, <1>0 DEF LoginPassword, TypeOK
  <2>2. req'[r] = [Idle EXCEPT !.op = "login", !.step = SignInStep(users[u]),
                     !.acct = u, !.since = epoch[u], !.mail = users[u].email]
    BY <1>1, <1>0 DEF LoginPassword, TypeOK
  <2>3. Known(u)' /\ users[u].email \in Emails
    BY <1>1, <1>0, <1>K DEF LoginPassword, TypeOK, User
  <2>4. StepOK(r)'
    BY <2>2, <2>3 DEF SignInStep, Idle, StepOK, At, AccountSteps, LinkSteps
  <2>. QED
    BY <1>0, <1>K, <2>1, <2>4 DEF StepOK, At
<1>2. ASSUME NEW r \in Requests, PromoteAdmin(r)
       PROVE  \A q \in Requests : StepOK(q)'
  <2>1. \A q \in Requests \ {r} : req'[q] = req[q]
    BY <1>2, <1>0 DEF PromoteAdmin, Goes, TypeOK
  <2>2. StepOK(r)'
    BY <1>2, <1>0, <1>K DEF PromoteAdmin, Goes, StepOK, At, TypeOK, AccountSteps, LinkSteps,
      Request, Link, Purposes
  <2>. QED
    BY <1>0, <1>K, <2>1, <2>2 DEF StepOK, At
<1>3. ASSUME NEW r \in Requests, SetSession(r)
       PROVE  \A q \in Requests : StepOK(q)'
  <2>1. \A q \in Requests \ {r} : req'[q] = req[q]
    BY <1>3, <1>0 DEF SetSession, Ends, TypeOK
  <2>2. StepOK(r)'
    BY <1>3, <1>0, <1>K DEF SetSession, Ends, Idle, StepOK, At, TypeOK, AccountSteps, LinkSteps,
      Request, Link, Purposes
  <2>. QED
    BY <1>0, <1>K, <2>1, <2>2 DEF StepOK, At
<1>4. ASSUME NEW r \in Requests, NEW e \in Emails, Register(r, e)
       PROVE  \A q \in Requests : StepOK(q)'
  <2>1. \A q \in Requests \ {r} : req'[q] = req[q]
    BY <1>4, <1>0 DEF Register, Begins, TypeOK
  <2>2. StepOK(r)'
    BY <1>4, <1>0, <1>K DEF Register, Begins, Idle, StepOK, At, TypeOK, AccountSteps, LinkSteps,
      Request, Link, Purposes
  <2>. QED
    BY <1>0, <1>K, <2>1, <2>2 DEF StepOK, At
<1>5. ASSUME NEW r \in Requests, NEW e \in Emails, RequestMagicLink(r, e)
       PROVE  \A q \in Requests : StepOK(q)'
  <2>1. \A q \in Requests \ {r} : req'[q] = req[q]
    BY <1>5, <1>0 DEF RequestMagicLink, Begins, TypeOK
  <2>2. StepOK(r)'
    BY <1>5, <1>0, <1>K DEF RequestMagicLink, Begins, Idle, StepOK, At, TypeOK, AccountSteps,
      LinkSteps, Request, Link, Purposes
  <2>. QED
    BY <1>0, <1>K, <2>1, <2>2 DEF StepOK, At
<1>6. ASSUME NEW r \in Requests, NEW e \in Emails, ForgotPassword(r, e)
       PROVE  \A q \in Requests : StepOK(q)'
  <2>1. \A q \in Requests \ {r} : req'[q] = req[q]
    BY <1>6, <1>0 DEF ForgotPassword, Begins, TypeOK
  <2>2. StepOK(r)'
    BY <1>6, <1>0, <1>K DEF ForgotPassword, Begins, Idle, StepOK, At, TypeOK, AccountSteps,
      LinkSteps, Request, Link, Purposes
  <2>. QED
    BY <1>0, <1>K, <2>1, <2>2 DEF StepOK, At
<1>7. ASSUME NEW r \in Requests, NEW u \in UserIds,
             NEW p \in Passwords \union {NoPassword}, NEW role \in Roles,
             CreateUser(r, u, p, role)
       PROVE  \A q \in Requests : StepOK(q)'
  <2>1. \A q \in Requests \ {r} : req'[q] = req[q]
    BY <1>7, <1>0 DEF CreateUser, Goes, Ends, TypeOK
  <2>2. StepOK(r)'
    <3>0. Known(u)' /\ req[r] \in Request /\ StepOK(r) /\ At(r, "create")
      BY <1>7, <1>0 DEF CreateUser, Known, TypeOK
    <3>1. CASE req[r].op = "register"
      <4>1. req'[r] = [req[r] EXCEPT !.step = "session", !.acct = u, !.since = epoch[u]]
        BY <1>7, <1>0, <3>1 DEF CreateUser, TypeOK
      <4>. QED
        BY <3>0, <4>1 DEF StepOK, At, AccountSteps, LinkSteps, Request
    <3>2. CASE req[r].op = "magic"
      <4>1. req'[r] = [req[r] EXCEPT !.step = "mint"]
        BY <1>7, <1>0, <3>2 DEF CreateUser, Goes, TypeOK
      <4>. QED
        BY <3>0, <3>2, <4>1 DEF StepOK, At, AccountSteps, LinkSteps, Request, Purposes
    <3>3. CASE req[r].op \notin {"register", "magic"}
      <4>1. req'[r] = [Idle EXCEPT !.step = "done"]
        BY <1>7, <1>0, <3>3 DEF CreateUser, Ends, TypeOK
      <4>. QED
        BY <4>1 DEF Idle, StepOK, At, AccountSteps, LinkSteps
    <3>. QED
      BY <3>1, <3>2, <3>3
  <2>. QED
    BY <1>0, <1>K, <2>1, <2>2 DEF StepOK, At
<1>8. ASSUME NEW r \in Requests, NEW l \in Links, CreateVerificationToken(r, l)
       PROVE  \A q \in Requests : StepOK(q)'
  <2>1. \A q \in Requests \ {r} : req'[q] = req[q]
    BY <1>8, <1>0 DEF CreateVerificationToken, Ends, TypeOK
  <2>2. StepOK(r)'
    BY <1>8, <1>0, <1>K DEF CreateVerificationToken, Ends, Idle, StepOK, At, TypeOK,
      AccountSteps, LinkSteps, Request, Link, Purposes
  <2>. QED
    BY <1>0, <1>K, <2>1, <2>2 DEF StepOK, At
<1>9. ASSUME NEW r \in Requests, NEW l \in Links, FindToken(r, l)
       PROVE  \A q \in Requests : StepOK(q)'
  <2>1. \A q \in Requests \ {r} : req'[q] = req[q]
    BY <1>9, <1>0 DEF FindToken, TypeOK
  <2>2. StepOK(r)'
    BY <1>9, <1>0, <1>K DEF FindToken, Idle, StepOK, At, TypeOK, AccountSteps, LinkSteps,
      Request, Link, Purposes
  <2>. QED
    BY <1>0, <1>K, <2>1, <2>2 DEF StepOK, At
<1>10. ASSUME NEW r \in Requests, SpendToken(r)
       PROVE  \A q \in Requests : StepOK(q)'
  <2>1. \A q \in Requests \ {r} : req'[q] = req[q]
    BY <1>10, <1>0 DEF SpendToken, TypeOK
  <2>2. StepOK(r)'
    BY <1>10, <1>0, <1>K DEF SpendToken, StepOK, At, TypeOK, AccountSteps, LinkSteps, Request,
      Link, Purposes
  <2>. QED
    BY <1>0, <1>K, <2>1, <2>2 DEF StepOK, At
<1>11. ASSUME NEW r \in Requests, DiscardToken(r)
       PROVE  \A q \in Requests : StepOK(q)'
  <2>1. \A q \in Requests \ {r} : req'[q] = req[q]
    BY <1>11, <1>0 DEF DiscardToken, Ends, TypeOK
  <2>2. StepOK(r)'
    BY <1>11, <1>0, <1>K DEF DiscardToken, Ends, Idle, StepOK, At, TypeOK, AccountSteps,
      LinkSteps, Request, Link, Purposes
  <2>. QED
    BY <1>0, <1>K, <2>1, <2>2 DEF StepOK, At
<1>12. ASSUME NEW r \in Requests, NEW u \in UserIds, FindByEmail(r, u)
       PROVE  \A q \in Requests : StepOK(q)'
  <2>1. \A q \in Requests \ {r} : req'[q] = req[q]
    BY <1>12, <1>0 DEF FindByEmail, TypeOK
  <2>2. StepOK(r)'
    BY <1>12, <1>0, <1>K DEF FindByEmail, SignInStep, StepOK, At, TypeOK, AccountSteps,
      LinkSteps, Request, Link, Purposes
  <2>. QED
    BY <1>0, <1>K, <2>1, <2>2 DEF StepOK, At
<1>13. ASSUME NEW r \in Requests, MarkEmailVerified(r)
       PROVE  \A q \in Requests : StepOK(q)'
  <2>1. \A q \in Requests \ {r} : req'[q] = req[q]
    BY <1>13, <1>0 DEF MarkEmailVerified, Goes, TypeOK
  <2>2. /\ req'[r] = [req[r] EXCEPT !.step = req[r].then]
        /\ req[r] \in Request /\ StepOK(r) /\ At(r, "verify")
    BY <1>13, <1>0 DEF MarkEmailVerified, Goes, TypeOK
  <2>3. Known(req[r].acct)'
    BY <1>0, <1>K, <2>2 DEF StepOK, At, AccountSteps
  <2>4. req[r].mail \in Emails
    BY <1>0, <2>2 DEF StepOK, At
  <2>5. StepOK(r)'
    BY <2>2, <2>3, <2>4 DEF StepOK, At, AccountSteps, LinkSteps, Request
  <2>. QED
    BY <1>0, <1>K, <2>1, <2>5 DEF StepOK, At
<1>14. ASSUME NEW r \in Requests, NEW s \in sessions, NEW u \in UserIds,
             NEW op \in {"change", "password", "update", "toggle", "new", "link"},
             Authenticate(r, s, op, u)
       PROVE  \A q \in Requests : StepOK(q)'
  <2>1. \A q \in Requests \ {r} : req'[q] = req[q]
    BY <1>14, <1>0 DEF Authenticate, Begins, TypeOK
  <2>2. PICK step : req'[r] = [Idle EXCEPT !.op = op, !.step = step, !.mail = None, !.acct = u]
                    /\ step = CASE op = "change" -> "current"
                                [] op = "password" -> "set"
                                [] OTHER -> op
    BY <1>14, <1>0 DEF Authenticate, Begins, TypeOK
  <2>3. Known(u)'
    BY <1>14, <1>0, <1>K DEF Authenticate, SessionsOK
  <2>4. StepOK(r)'
    BY <2>2, <2>3 DEF StepOK, Idle, At, AccountSteps, LinkSteps
  <2>. QED
    BY <1>0, <1>K, <2>1, <2>4 DEF StepOK, At
<1>15. ASSUME NEW r \in Requests, NEW p \in Passwords, VerifyCurrent(r, p)
       PROVE  \A q \in Requests : StepOK(q)'
  <2>1. \A q \in Requests \ {r} : req'[q] = req[q]
    BY <1>15, <1>0 DEF VerifyCurrent, Goes, TypeOK
  <2>2. StepOK(r)'
    BY <1>15, <1>0, <1>K DEF VerifyCurrent, Goes, StepOK, At, TypeOK, AccountSteps, LinkSteps,
      Request, Link, Purposes
  <2>. QED
    BY <1>0, <1>K, <2>1, <2>2 DEF StepOK, At
<1>16. ASSUME NEW r \in Requests, NEW p \in Passwords, SetPassword(r, p)
       PROVE  \A q \in Requests : StepOK(q)'
  <2>1. \A q \in Requests \ {r} : req'[q] = req[q]
    BY <1>16, <1>0 DEF SetPassword, Goes, TypeOK
  <2>2. StepOK(r)'
    BY <1>16, <1>0, <1>K DEF SetPassword, Goes, StepOK, At, TypeOK, AccountSteps, LinkSteps,
      Request, Link, Purposes
  <2>. QED
    BY <1>0, <1>K, <2>1, <2>2 DEF StepOK, At
<1>17. ASSUME NEW r \in Requests, DeleteUserSessions(r)
       PROVE  \A q \in Requests : StepOK(q)'
  <2>1. \A q \in Requests \ {r} : req'[q] = req[q]
    BY <1>17, <1>0 DEF DeleteUserSessions, Ends, TypeOK
  <2>2. StepOK(r)'
    BY <1>17, <1>0, <1>K DEF DeleteUserSessions, Ends, Idle, StepOK, At, TypeOK, AccountSteps,
      LinkSteps, Request, Link, Purposes
  <2>. QED
    BY <1>0, <1>K, <2>1, <2>2 DEF StepOK, At
<1>18. ASSUME NEW r \in Requests, NEW e \in Emails, NEW role \in Roles, AdminUpdate(r, e, role)
       PROVE  \A q \in Requests : StepOK(q)'
  <2>1. \A q \in Requests \ {r} : req'[q] = req[q]
    BY <1>18, <1>0 DEF AdminUpdate, Ends, TypeOK
  <2>2. StepOK(r)'
    BY <1>18, <1>0, <1>K DEF AdminUpdate, Ends, Idle, StepOK, At, TypeOK, AccountSteps,
      LinkSteps, Request, Link, Purposes
  <2>. QED
    BY <1>0, <1>K, <2>1, <2>2 DEF StepOK, At
<1>19. ASSUME NEW r \in Requests, AdminToggle(r)
       PROVE  \A q \in Requests : StepOK(q)'
  <2>1. \A q \in Requests \ {r} : req'[q] = req[q]
    BY <1>19, <1>0 DEF AdminToggle, Goes, Ends, TypeOK
  <2>2. StepOK(r)'
    BY <1>19, <1>0, <1>K DEF AdminToggle, Goes, Ends, Idle, StepOK, At, TypeOK, AccountSteps,
      LinkSteps, Request, Link, Purposes
  <2>. QED
    BY <1>0, <1>K, <2>1, <2>2 DEF StepOK, At
<1>20. ASSUME NEW r \in Requests, NEW e \in Emails, AdminCreateUser(r, e)
       PROVE  \A q \in Requests : StepOK(q)'
  <2>1. \A q \in Requests \ {r} : req'[q] = req[q]
    BY <1>20, <1>0 DEF AdminCreateUser, TypeOK
  <2>2. StepOK(r)'
    BY <1>20, <1>0, <1>K DEF AdminCreateUser, StepOK, At, TypeOK, AccountSteps, LinkSteps,
      Request, Link, Purposes
  <2>. QED
    BY <1>0, <1>K, <2>1, <2>2 DEF StepOK, At
<1>21. ASSUME NEW r \in Requests, AdminMagicLink(r)
       PROVE  \A q \in Requests : StepOK(q)'
  <2>1. \A q \in Requests \ {r} : req'[q] = req[q]
    BY <1>21, <1>0 DEF AdminMagicLink, TypeOK
  <2>2. StepOK(r)'
    BY <1>21, <1>0, <1>K DEF AdminMagicLink, StepOK, At, TypeOK, AccountSteps, LinkSteps,
      Request, Link, Purposes
  <2>. QED
    BY <1>0, <1>K, <2>1, <2>2 DEF StepOK, At
<1>22. ASSUME NEW r \in Requests, Fails(r)
       PROVE  \A q \in Requests : StepOK(q)'
  <2>1. \A q \in Requests \ {r} : req'[q] = req[q]
    BY <1>22, <1>0 DEF Fails, Ends, TypeOK
  <2>2. StepOK(r)'
    BY <1>22, <1>0, <1>K DEF Fails, Ends, Idle, StepOK, At, TypeOK, AccountSteps, LinkSteps,
      Request, Link, Purposes
  <2>. QED
    BY <1>0, <1>K, <2>1, <2>2 DEF StepOK, At
<1>23. ASSUME NEW s \in sessions, EndSession(s)
       PROVE  \A q \in Requests : StepOK(q)'
  BY <1>23, <1>0, <1>K DEF EndSession, StepOK, At, AccountSteps
<1>24. ASSUME NEW l \in Links, Expire(l)
       PROVE  \A q \in Requests : StepOK(q)'
  BY <1>24, <1>0, <1>K DEF Expire, StepOK, At, AccountSteps
<1>25. ASSUME DeleteExpiredTokens
       PROVE  \A q \in Requests : StepOK(q)'
  BY <1>25, <1>0, <1>K DEF DeleteExpiredTokens, StepOK, At, AccountSteps
<1>26. CASE UNCHANGED accountVars
  BY <1>0, <1>26 DEF StepOK, At, Known, accountVars, database
<1>. QED
  BY <1>1, <1>2, <1>3, <1>4, <1>5, <1>6, <1>7, <1>8, <1>9, <1>10, <1>11, <1>12, <1>13,
     <1>14, <1>15, <1>16, <1>17, <1>18, <1>19, <1>20, <1>21, <1>22, <1>23, <1>24, <1>25,
     <1>26 DEF Next, Serve

\* A session stays with an account.
LEMMA SessionStep ==
    ASSUME TypeOK, SessionsOK, \A r \in Requests : StepOK(r), [Next]_accountVars
    PROVE  SessionsOK'
<1>0. TypeOK /\ SessionsOK /\ \A r \in Requests : StepOK(r)
  OBVIOUS
<1>K. \A x \in UserIds : Known(x) => Known(x)'
  BY KnownStays
<1>1. ASSUME NEW r \in Requests, NEW u \in UserIds, NEW p \in Passwords, LoginPassword(r, u, p)
       PROVE  SessionsOK'
  BY <1>1, <1>0, <1>K DEF LoginPassword, SessionsOK, TypeOK, Session, database
<1>2. ASSUME NEW r \in Requests, PromoteAdmin(r)
       PROVE  SessionsOK'
  BY <1>2, <1>0, <1>K DEF PromoteAdmin, SessionsOK, TypeOK, Session
<1>3. ASSUME NEW r \in Requests, SetSession(r)
       PROVE  SessionsOK'
  BY <1>3, <1>0, <1>K DEF SetSession, SessionsOK, TypeOK, StepOK, At, AccountSteps, Session
<1>4. ASSUME NEW r \in Requests, NEW e \in Emails, Register(r, e)
       PROVE  SessionsOK'
  BY <1>4, <1>0, <1>K DEF Register, SessionsOK, TypeOK, Session, database
<1>5. ASSUME NEW r \in Requests, NEW e \in Emails, RequestMagicLink(r, e)
       PROVE  SessionsOK'
  BY <1>5, <1>0, <1>K DEF RequestMagicLink, SessionsOK, TypeOK, Session, database
<1>6. ASSUME NEW r \in Requests, NEW e \in Emails, ForgotPassword(r, e)
       PROVE  SessionsOK'
  BY <1>6, <1>0, <1>K DEF ForgotPassword, SessionsOK, TypeOK, Session, database
<1>7. ASSUME NEW r \in Requests, NEW u \in UserIds,
             NEW p \in Passwords \union {NoPassword}, NEW role \in Roles,
             CreateUser(r, u, p, role)
       PROVE  SessionsOK'
  BY <1>7, <1>0, <1>K DEF CreateUser, SessionsOK, TypeOK, Session
<1>8. ASSUME NEW r \in Requests, NEW l \in Links, CreateVerificationToken(r, l)
       PROVE  SessionsOK'
  BY <1>8, <1>0, <1>K DEF CreateVerificationToken, SessionsOK, TypeOK, Session
<1>9. ASSUME NEW r \in Requests, NEW l \in Links, FindToken(r, l)
       PROVE  SessionsOK'
  BY <1>9, <1>0, <1>K DEF FindToken, SessionsOK, TypeOK, Session, database
<1>10. ASSUME NEW r \in Requests, SpendToken(r)
       PROVE  SessionsOK'
  BY <1>10, <1>0, <1>K DEF SpendToken, SessionsOK, TypeOK, Session
<1>11. ASSUME NEW r \in Requests, DiscardToken(r)
       PROVE  SessionsOK'
  BY <1>11, <1>0, <1>K DEF DiscardToken, SessionsOK, TypeOK, Session
<1>12. ASSUME NEW r \in Requests, NEW u \in UserIds, FindByEmail(r, u)
       PROVE  SessionsOK'
  BY <1>12, <1>0, <1>K DEF FindByEmail, SessionsOK, TypeOK, Session, database
<1>13. ASSUME NEW r \in Requests, MarkEmailVerified(r)
       PROVE  SessionsOK'
  BY <1>13, <1>0, <1>K DEF MarkEmailVerified, SessionsOK, TypeOK, Session
<1>14. ASSUME NEW r \in Requests, NEW s \in sessions, NEW u \in UserIds,
             NEW op \in {"change", "password", "update", "toggle", "new", "link"},
             Authenticate(r, s, op, u)
       PROVE  SessionsOK'
  BY <1>14, <1>0, <1>K DEF Authenticate, SessionsOK, TypeOK, Session, database
<1>15. ASSUME NEW r \in Requests, NEW p \in Passwords, VerifyCurrent(r, p)
       PROVE  SessionsOK'
  BY <1>15, <1>0, <1>K DEF VerifyCurrent, SessionsOK, TypeOK, Session, database
<1>16. ASSUME NEW r \in Requests, NEW p \in Passwords, SetPassword(r, p)
       PROVE  SessionsOK'
  BY <1>16, <1>0, <1>K DEF SetPassword, SessionsOK, TypeOK, Session
<1>17. ASSUME NEW r \in Requests, DeleteUserSessions(r)
       PROVE  SessionsOK'
  BY <1>17, <1>0, <1>K DEF DeleteUserSessions, SessionsOK, TypeOK, Session
<1>18. ASSUME NEW r \in Requests, NEW e \in Emails, NEW role \in Roles, AdminUpdate(r, e, role)
       PROVE  SessionsOK'
  BY <1>18, <1>0, <1>K DEF AdminUpdate, SessionsOK, TypeOK, Session
<1>19. ASSUME NEW r \in Requests, AdminToggle(r)
       PROVE  SessionsOK'
  BY <1>19, <1>0, <1>K DEF AdminToggle, SessionsOK, TypeOK, Session
<1>20. ASSUME NEW r \in Requests, NEW e \in Emails, AdminCreateUser(r, e)
       PROVE  SessionsOK'
  BY <1>20, <1>0, <1>K DEF AdminCreateUser, SessionsOK, TypeOK, Session, database
<1>21. ASSUME NEW r \in Requests, AdminMagicLink(r)
       PROVE  SessionsOK'
  BY <1>21, <1>0, <1>K DEF AdminMagicLink, SessionsOK, TypeOK, Session, database
<1>22. ASSUME NEW r \in Requests, Fails(r)
       PROVE  SessionsOK'
  BY <1>22, <1>0, <1>K DEF Fails, SessionsOK, TypeOK, Session, database
<1>23. ASSUME NEW s \in sessions, EndSession(s)
       PROVE  SessionsOK'
  BY <1>23, <1>0, <1>K DEF EndSession, SessionsOK, TypeOK, Session
<1>24. ASSUME NEW l \in Links, Expire(l)
       PROVE  SessionsOK'
  BY <1>24, <1>0, <1>K DEF Expire, SessionsOK, TypeOK, Session
<1>25. ASSUME DeleteExpiredTokens
       PROVE  SessionsOK'
  BY <1>25, <1>0, <1>K DEF DeleteExpiredTokens, SessionsOK, TypeOK, Session
<1>26. CASE UNCHANGED accountVars
  BY <1>0, <1>26 DEF SessionsOK, Known, accountVars, database
<1>. QED
  BY <1>1, <1>2, <1>3, <1>4, <1>5, <1>6, <1>7, <1>8, <1>9, <1>10, <1>11, <1>12, <1>13,
     <1>14, <1>15, <1>16, <1>17, <1>18, <1>19, <1>20, <1>21, <1>22, <1>23, <1>24, <1>25,
     <1>26 DEF Next, Serve

\* A request that has set a password is on its way to the revocation.
LEMMA ChangeStep ==
    ASSUME TypeOK, \A r \in Requests : StepOK(r) /\ ChangeOK(r), [Next]_accountVars
    PROVE  \A q \in Requests : ChangeOK(q)'
<1>0. TypeOK /\ \A r \in Requests : StepOK(r) /\ ChangeOK(r)
  OBVIOUS
<1>1. ASSUME NEW r \in Requests, NEW u \in UserIds, NEW p \in Passwords, LoginPassword(r, u, p)
       PROVE  \A q \in Requests : ChangeOK(q)'
  <2>1. \A q \in Requests \ {r} : req'[q] = req[q]
    BY <1>1, <1>0 DEF LoginPassword, TypeOK
  <2>2. change' = change /\ epoch' = epoch
    BY <1>1 DEF LoginPassword, historyVars
  <2>3. ChangeOK(r)'
    BY <1>1, <1>0, <2>2 DEF LoginPassword, Idle, SignInStep, ChangeOK, StepOK, At, TypeOK
  <2>. QED
    BY <1>0, <2>1, <2>2, <2>3 DEF ChangeOK, At
<1>2. ASSUME NEW r \in Requests, PromoteAdmin(r)
       PROVE  \A q \in Requests : ChangeOK(q)'
  <2>1. \A q \in Requests \ {r} : req'[q] = req[q]
    BY <1>2, <1>0 DEF PromoteAdmin, Goes, TypeOK
  <2>2. change' = change /\ epoch' = epoch
    BY <1>2 DEF PromoteAdmin
  <2>3. ChangeOK(r)'
    BY <1>2, <1>0, <2>2 DEF PromoteAdmin, Goes, ChangeOK, StepOK, At, TypeOK
  <2>. QED
    BY <1>0, <2>1, <2>2, <2>3 DEF ChangeOK, At
<1>3. ASSUME NEW r \in Requests, SetSession(r)
       PROVE  \A q \in Requests : ChangeOK(q)'
  <2>1. \A q \in Requests \ {r} : req'[q] = req[q]
    BY <1>3, <1>0 DEF SetSession, Ends, TypeOK
  <2>2. change' = change /\ epoch' = epoch
    BY <1>3 DEF SetSession, historyVars
  <2>3. ChangeOK(r)'
    BY <1>3, <1>0, <2>2 DEF SetSession, Ends, Idle, ChangeOK, StepOK, At, TypeOK
  <2>. QED
    BY <1>0, <2>1, <2>2, <2>3 DEF ChangeOK, At
<1>4. ASSUME NEW r \in Requests, NEW e \in Emails, Register(r, e)
       PROVE  \A q \in Requests : ChangeOK(q)'
  <2>1. \A q \in Requests \ {r} : req'[q] = req[q]
    BY <1>4, <1>0 DEF Register, Begins, TypeOK
  <2>2. change' = change /\ epoch' = epoch
    BY <1>4 DEF Register, historyVars
  <2>3. ChangeOK(r)'
    BY <1>4, <1>0, <2>2 DEF Register, Begins, Idle, ChangeOK, StepOK, At, TypeOK
  <2>. QED
    BY <1>0, <2>1, <2>2, <2>3 DEF ChangeOK, At
<1>5. ASSUME NEW r \in Requests, NEW e \in Emails, RequestMagicLink(r, e)
       PROVE  \A q \in Requests : ChangeOK(q)'
  <2>1. \A q \in Requests \ {r} : req'[q] = req[q]
    BY <1>5, <1>0 DEF RequestMagicLink, Begins, TypeOK
  <2>2. change' = change /\ epoch' = epoch
    BY <1>5 DEF RequestMagicLink, historyVars
  <2>3. ChangeOK(r)'
    BY <1>5, <1>0, <2>2 DEF RequestMagicLink, Begins, Idle, ChangeOK, StepOK, At, TypeOK
  <2>. QED
    BY <1>0, <2>1, <2>2, <2>3 DEF ChangeOK, At
<1>6. ASSUME NEW r \in Requests, NEW e \in Emails, ForgotPassword(r, e)
       PROVE  \A q \in Requests : ChangeOK(q)'
  <2>1. \A q \in Requests \ {r} : req'[q] = req[q]
    BY <1>6, <1>0 DEF ForgotPassword, Begins, TypeOK
  <2>2. change' = change /\ epoch' = epoch
    BY <1>6 DEF ForgotPassword, historyVars
  <2>3. ChangeOK(r)'
    BY <1>6, <1>0, <2>2 DEF ForgotPassword, Begins, Idle, ChangeOK, StepOK, At, TypeOK
  <2>. QED
    BY <1>0, <2>1, <2>2, <2>3 DEF ChangeOK, At
<1>7. ASSUME NEW r \in Requests, NEW u \in UserIds,
             NEW p \in Passwords \union {NoPassword}, NEW role \in Roles,
             CreateUser(r, u, p, role)
       PROVE  \A q \in Requests : ChangeOK(q)'
  <2>1. \A q \in Requests \ {r} : req'[q] = req[q]
    BY <1>7, <1>0 DEF CreateUser, Goes, Ends, TypeOK
  <2>2. change' = change /\ epoch' = epoch
    BY <1>7 DEF CreateUser, historyVars
  <2>3. ChangeOK(r)'
    BY <1>7, <1>0, <2>2 DEF CreateUser, Goes, Ends, Idle, ChangeOK, StepOK, At, TypeOK
  <2>. QED
    BY <1>0, <2>1, <2>2, <2>3 DEF ChangeOK, At
<1>8. ASSUME NEW r \in Requests, NEW l \in Links, CreateVerificationToken(r, l)
       PROVE  \A q \in Requests : ChangeOK(q)'
  <2>1. \A q \in Requests \ {r} : req'[q] = req[q]
    BY <1>8, <1>0 DEF CreateVerificationToken, Ends, TypeOK
  <2>2. change' = change /\ epoch' = epoch
    BY <1>8 DEF CreateVerificationToken, historyVars
  <2>3. ChangeOK(r)'
    BY <1>8, <1>0, <2>2 DEF CreateVerificationToken, Ends, Idle, ChangeOK, StepOK, At, TypeOK
  <2>. QED
    BY <1>0, <2>1, <2>2, <2>3 DEF ChangeOK, At
<1>9. ASSUME NEW r \in Requests, NEW l \in Links, FindToken(r, l)
       PROVE  \A q \in Requests : ChangeOK(q)'
  <2>1. \A q \in Requests \ {r} : req'[q] = req[q]
    BY <1>9, <1>0 DEF FindToken, TypeOK
  <2>2. change' = change /\ epoch' = epoch
    BY <1>9 DEF FindToken, historyVars
  <2>3. ChangeOK(r)'
    BY <1>9, <1>0, <2>2 DEF FindToken, Idle, ChangeOK, StepOK, At, TypeOK
  <2>. QED
    BY <1>0, <2>1, <2>2, <2>3 DEF ChangeOK, At
<1>10. ASSUME NEW r \in Requests, SpendToken(r)
       PROVE  \A q \in Requests : ChangeOK(q)'
  <2>1. \A q \in Requests \ {r} : req'[q] = req[q]
    BY <1>10, <1>0 DEF SpendToken, TypeOK
  <2>2. change' = change /\ epoch' = epoch
    BY <1>10 DEF SpendToken
  <2>3. ChangeOK(r)'
    BY <1>10, <1>0, <2>2 DEF SpendToken, ChangeOK, StepOK, At, TypeOK
  <2>. QED
    BY <1>0, <2>1, <2>2, <2>3 DEF ChangeOK, At
<1>11. ASSUME NEW r \in Requests, DiscardToken(r)
       PROVE  \A q \in Requests : ChangeOK(q)'
  <2>1. \A q \in Requests \ {r} : req'[q] = req[q]
    BY <1>11, <1>0 DEF DiscardToken, Ends, TypeOK
  <2>2. change' = change /\ epoch' = epoch
    BY <1>11 DEF DiscardToken
  <2>3. ChangeOK(r)'
    BY <1>11, <1>0, <2>2 DEF DiscardToken, Ends, Idle, ChangeOK, StepOK, At, TypeOK
  <2>. QED
    BY <1>0, <2>1, <2>2, <2>3 DEF ChangeOK, At
<1>12. ASSUME NEW r \in Requests, NEW u \in UserIds, FindByEmail(r, u)
       PROVE  \A q \in Requests : ChangeOK(q)'
  <2>1. \A q \in Requests \ {r} : req'[q] = req[q]
    BY <1>12, <1>0 DEF FindByEmail, TypeOK
  <2>2. change' = change /\ epoch' = epoch
    BY <1>12 DEF FindByEmail
  <2>3. ChangeOK(r)'
    BY <1>12, <1>0, <2>2 DEF FindByEmail, SignInStep, ChangeOK, StepOK, At, TypeOK
  <2>. QED
    BY <1>0, <2>1, <2>2, <2>3 DEF ChangeOK, At
<1>13. ASSUME NEW r \in Requests, MarkEmailVerified(r)
       PROVE  \A q \in Requests : ChangeOK(q)'
  <2>1. \A q \in Requests \ {r} : req'[q] = req[q]
    BY <1>13, <1>0 DEF MarkEmailVerified, Goes, TypeOK
  <2>2. change' = change /\ epoch' = epoch
    BY <1>13 DEF MarkEmailVerified, historyVars
  <2>3. ChangeOK(r)'
    BY <1>13, <1>0, <2>2 DEF MarkEmailVerified, Goes, ChangeOK, StepOK, At, TypeOK
  <2>. QED
    BY <1>0, <2>1, <2>2, <2>3 DEF ChangeOK, At
<1>14. ASSUME NEW r \in Requests, NEW s \in sessions, NEW u \in UserIds,
             NEW op \in {"change", "password", "update", "toggle", "new", "link"},
             Authenticate(r, s, op, u)
       PROVE  \A q \in Requests : ChangeOK(q)'
  <2>1. \A q \in Requests \ {r} : req'[q] = req[q]
    BY <1>14, <1>0 DEF Authenticate, Begins, TypeOK
  <2>2. change' = change /\ epoch' = epoch
    BY <1>14 DEF Authenticate, historyVars
  <2>3. ChangeOK(r)'
    BY <1>14, <1>0, <2>2 DEF Authenticate, Begins, Idle, ChangeOK, StepOK, At, TypeOK
  <2>. QED
    BY <1>0, <2>1, <2>2, <2>3 DEF ChangeOK, At
<1>15. ASSUME NEW r \in Requests, NEW p \in Passwords, VerifyCurrent(r, p)
       PROVE  \A q \in Requests : ChangeOK(q)'
  <2>1. \A q \in Requests \ {r} : req'[q] = req[q]
    BY <1>15, <1>0 DEF VerifyCurrent, Goes, TypeOK
  <2>2. change' = change /\ epoch' = epoch
    BY <1>15 DEF VerifyCurrent, historyVars
  <2>3. ChangeOK(r)'
    BY <1>15, <1>0, <2>2 DEF VerifyCurrent, Goes, ChangeOK, StepOK, At, TypeOK
  <2>. QED
    BY <1>0, <2>1, <2>2, <2>3 DEF ChangeOK, At
<1>16. ASSUME NEW r \in Requests, NEW p \in Passwords, SetPassword(r, p)
       PROVE  \A q \in Requests : ChangeOK(q)'
  <2>1. \A q \in Requests \ {r} : req'[q] = req[q] /\ change'[q] = change[q]
    BY <1>16, <1>0 DEF SetPassword, Goes, TypeOK
  <2>2. \A u \in UserIds : epoch[u] <= epoch'[u]
    BY <1>16, <1>0 DEF SetPassword, TypeOK
  <2>3. \A q \in Requests \ {r} : ChangeOK(q)'
    BY <1>0, <2>1, <2>2, TypeStep DEF ChangeOK, At, TypeOK, Change
  <2>4. ChangeOK(r)'
    BY <1>16, <1>0 DEF SetPassword, Goes, ChangeOK, StepOK, At, TypeOK, AccountSteps
  <2>. QED
    BY <2>3, <2>4
<1>17. ASSUME NEW r \in Requests, DeleteUserSessions(r)
       PROVE  \A q \in Requests : ChangeOK(q)'
  <2>1. \A q \in Requests \ {r} : req'[q] = req[q]
    BY <1>17, <1>0 DEF DeleteUserSessions, Ends, TypeOK
  <2>2. change' = change /\ epoch' = epoch
    BY <1>17 DEF DeleteUserSessions, historyVars
  <2>3. ChangeOK(r)'
    BY <1>17, <1>0, <2>2 DEF DeleteUserSessions, Ends, Idle, ChangeOK, StepOK, At, TypeOK
  <2>. QED
    BY <1>0, <2>1, <2>2, <2>3 DEF ChangeOK, At
<1>18. ASSUME NEW r \in Requests, NEW e \in Emails, NEW role \in Roles, AdminUpdate(r, e, role)
       PROVE  \A q \in Requests : ChangeOK(q)'
  <2>1. \A q \in Requests \ {r} : req'[q] = req[q]
    BY <1>18, <1>0 DEF AdminUpdate, Ends, TypeOK
  <2>2. change' = change /\ epoch' = epoch
    BY <1>18 DEF AdminUpdate
  <2>3. ChangeOK(r)'
    BY <1>18, <1>0, <2>2 DEF AdminUpdate, Ends, Idle, ChangeOK, StepOK, At, TypeOK
  <2>. QED
    BY <1>0, <2>1, <2>2, <2>3 DEF ChangeOK, At
<1>19. ASSUME NEW r \in Requests, AdminToggle(r)
       PROVE  \A q \in Requests : ChangeOK(q)'
  <2>1. \A q \in Requests \ {r} : req'[q] = req[q]
    BY <1>19, <1>0 DEF AdminToggle, Goes, Ends, TypeOK
  <2>2. change' = change /\ epoch' = epoch
    BY <1>19 DEF AdminToggle, historyVars
  <2>3. ChangeOK(r)'
    BY <1>19, <1>0, <2>2 DEF AdminToggle, Goes, Ends, Idle, ChangeOK, StepOK, At, TypeOK
  <2>. QED
    BY <1>0, <2>1, <2>2, <2>3 DEF ChangeOK, At
<1>20. ASSUME NEW r \in Requests, NEW e \in Emails, AdminCreateUser(r, e)
       PROVE  \A q \in Requests : ChangeOK(q)'
  <2>1. \A q \in Requests \ {r} : req'[q] = req[q]
    BY <1>20, <1>0 DEF AdminCreateUser, TypeOK
  <2>2. change' = change /\ epoch' = epoch
    BY <1>20 DEF AdminCreateUser, historyVars
  <2>3. ChangeOK(r)'
    BY <1>20, <1>0, <2>2 DEF AdminCreateUser, ChangeOK, StepOK, At, TypeOK
  <2>. QED
    BY <1>0, <2>1, <2>2, <2>3 DEF ChangeOK, At
<1>21. ASSUME NEW r \in Requests, AdminMagicLink(r)
       PROVE  \A q \in Requests : ChangeOK(q)'
  <2>1. \A q \in Requests \ {r} : req'[q] = req[q]
    BY <1>21, <1>0 DEF AdminMagicLink, TypeOK
  <2>2. change' = change /\ epoch' = epoch
    BY <1>21 DEF AdminMagicLink, historyVars
  <2>3. ChangeOK(r)'
    BY <1>21, <1>0, <2>2 DEF AdminMagicLink, ChangeOK, StepOK, At, TypeOK
  <2>. QED
    BY <1>0, <2>1, <2>2, <2>3 DEF ChangeOK, At
<1>22. ASSUME NEW r \in Requests, Fails(r)
       PROVE  \A q \in Requests : ChangeOK(q)'
  <2>1. \A q \in Requests \ {r} : req'[q] = req[q]
    BY <1>22, <1>0 DEF Fails, Ends, TypeOK
  <2>2. change' = change /\ epoch' = epoch
    BY <1>22 DEF Fails, historyVars
  <2>3. ChangeOK(r)'
    BY <1>22, <1>0, <2>2 DEF Fails, Ends, Idle, ChangeOK, StepOK, At, TypeOK
  <2>. QED
    BY <1>0, <2>1, <2>2, <2>3 DEF ChangeOK, At
<1>23. ASSUME NEW s \in sessions, EndSession(s)
       PROVE  \A q \in Requests : ChangeOK(q)'
  BY <1>23, <1>0 DEF EndSession, ChangeOK, At, historyVars
<1>24. ASSUME NEW l \in Links, Expire(l)
       PROVE  \A q \in Requests : ChangeOK(q)'
  BY <1>24, <1>0 DEF Expire, ChangeOK, At, historyVars
<1>25. ASSUME DeleteExpiredTokens
       PROVE  \A q \in Requests : ChangeOK(q)'
  BY <1>25, <1>0 DEF DeleteExpiredTokens, ChangeOK, At, historyVars
<1>26. CASE UNCHANGED accountVars
  BY <1>0, <1>26 DEF ChangeOK, At, accountVars, historyVars
<1>. QED
  BY <1>1, <1>2, <1>3, <1>4, <1>5, <1>6, <1>7, <1>8, <1>9, <1>10, <1>11, <1>12, <1>13,
     <1>14, <1>15, <1>16, <1>17, <1>18, <1>19, <1>20, <1>21, <1>22, <1>23, <1>24, <1>25,
     <1>26 DEF Next, Serve

\* Whoever reads an account after a change reads its epoch.
LEMMA ReadersStep ==
    ASSUME TypeOK, \A r \in Requests : StepOK(r) /\ ChangeOK(r) /\ ReadersOK(r), [Next]_accountVars
    PROVE  \A q \in Requests : ReadersOK(q)'
<1>0. TypeOK /\ \A r \in Requests : StepOK(r) /\ ChangeOK(r) /\ ReadersOK(r)
  OBVIOUS
<1>1. ASSUME NEW r \in Requests, NEW u \in UserIds, NEW p \in Passwords, LoginPassword(r, u, p)
       PROVE  \A q \in Requests : ReadersOK(q)'
  <2>1. \A q \in Requests \ {r} : req'[q] = req[q]
    BY <1>1, <1>0 DEF LoginPassword, TypeOK
  <2>2. change' = change
    BY <1>1 DEF LoginPassword, historyVars
  <2>3. ASSUME NEW c \in Requests, change[c].set, r \in SigningIn(change[c].acct)',
               req'[r].since < change[c].epoch
        PROVE  r \in change[c].overlapped
    <3>1. req'[r].acct = u /\ req'[r].since = epoch[u]
      BY <1>1, <1>0 DEF LoginPassword, TypeOK, Idle
    <3>2. change[c].epoch <= epoch[u] /\ change[c].epoch \in Nat /\ epoch[u] \in Nat
      BY <1>0, <2>2, <2>3, <3>1 DEF ChangeOK, SigningIn, TypeOK, Change
    <3>. QED
      BY <2>3, <3>1, <3>2
  <2>. QED
    BY <1>0, <2>1, <2>2, <2>3 DEF ReadersOK, SigningIn, At
<1>2. ASSUME NEW r \in Requests, PromoteAdmin(r)
       PROVE  \A q \in Requests : ReadersOK(q)'
  <2>1. \A q \in Requests \ {r} : req'[q] = req[q]
    BY <1>2, <1>0 DEF PromoteAdmin, Goes, TypeOK
  <2>2. change' = change
    BY <1>2 DEF PromoteAdmin
  <2>3. ASSUME NEW c \in Requests, change[c].set, r \in SigningIn(change[c].acct)',
               req'[r].since < change[c].epoch
        PROVE  r \in change[c].overlapped
    BY <1>2, <1>0, <2>3 DEF PromoteAdmin, Goes, SigningIn, ReadersOK, ChangeOK, StepOK, At,
      TypeOK, Change
  <2>. QED
    BY <1>0, <2>1, <2>2, <2>3 DEF ReadersOK, SigningIn, At
<1>3. ASSUME NEW r \in Requests, SetSession(r)
       PROVE  \A q \in Requests : ReadersOK(q)'
  <2>1. \A q \in Requests \ {r} : req'[q] = req[q]
    BY <1>3, <1>0 DEF SetSession, Ends, TypeOK
  <2>2. change' = change
    BY <1>3 DEF SetSession, historyVars
  <2>3. ASSUME NEW c \in Requests, change[c].set, r \in SigningIn(change[c].acct)',
               req'[r].since < change[c].epoch
        PROVE  r \in change[c].overlapped
    BY <1>3, <1>0, <2>3 DEF SetSession, Ends, Idle, SigningIn, ReadersOK, ChangeOK, StepOK, At,
      TypeOK, Change
  <2>. QED
    BY <1>0, <2>1, <2>2, <2>3 DEF ReadersOK, SigningIn, At
<1>4. ASSUME NEW r \in Requests, NEW e \in Emails, Register(r, e)
       PROVE  \A q \in Requests : ReadersOK(q)'
  <2>1. \A q \in Requests \ {r} : req'[q] = req[q]
    BY <1>4, <1>0 DEF Register, Begins, TypeOK
  <2>2. change' = change
    BY <1>4 DEF Register, historyVars
  <2>3. ASSUME NEW c \in Requests, change[c].set, r \in SigningIn(change[c].acct)',
               req'[r].since < change[c].epoch
        PROVE  r \in change[c].overlapped
    BY <1>4, <1>0, <2>3 DEF Register, Begins, Idle, SigningIn, ReadersOK, ChangeOK, StepOK, At,
      TypeOK, Change
  <2>. QED
    BY <1>0, <2>1, <2>2, <2>3 DEF ReadersOK, SigningIn, At
<1>5. ASSUME NEW r \in Requests, NEW e \in Emails, RequestMagicLink(r, e)
       PROVE  \A q \in Requests : ReadersOK(q)'
  <2>1. \A q \in Requests \ {r} : req'[q] = req[q]
    BY <1>5, <1>0 DEF RequestMagicLink, Begins, TypeOK
  <2>2. change' = change
    BY <1>5 DEF RequestMagicLink, historyVars
  <2>3. ASSUME NEW c \in Requests, change[c].set, r \in SigningIn(change[c].acct)',
               req'[r].since < change[c].epoch
        PROVE  r \in change[c].overlapped
    BY <1>5, <1>0, <2>3 DEF RequestMagicLink, Begins, Idle, SigningIn, ReadersOK, ChangeOK,
      StepOK, At, TypeOK, Change
  <2>. QED
    BY <1>0, <2>1, <2>2, <2>3 DEF ReadersOK, SigningIn, At
<1>6. ASSUME NEW r \in Requests, NEW e \in Emails, ForgotPassword(r, e)
       PROVE  \A q \in Requests : ReadersOK(q)'
  <2>1. \A q \in Requests \ {r} : req'[q] = req[q]
    BY <1>6, <1>0 DEF ForgotPassword, Begins, TypeOK
  <2>2. change' = change
    BY <1>6 DEF ForgotPassword, historyVars
  <2>3. ASSUME NEW c \in Requests, change[c].set, r \in SigningIn(change[c].acct)',
               req'[r].since < change[c].epoch
        PROVE  r \in change[c].overlapped
    BY <1>6, <1>0, <2>3 DEF ForgotPassword, Begins, Idle, SigningIn, ReadersOK, ChangeOK,
      StepOK, At, TypeOK, Change
  <2>. QED
    BY <1>0, <2>1, <2>2, <2>3 DEF ReadersOK, SigningIn, At
<1>7. ASSUME NEW r \in Requests, NEW u \in UserIds,
             NEW p \in Passwords \union {NoPassword}, NEW role \in Roles,
             CreateUser(r, u, p, role)
       PROVE  \A q \in Requests : ReadersOK(q)'
  <2>1. \A q \in Requests \ {r} : req'[q] = req[q]
    BY <1>7, <1>0 DEF CreateUser, Goes, Ends, TypeOK
  <2>2. change' = change
    BY <1>7 DEF CreateUser, historyVars
  <2>3. ASSUME NEW c \in Requests, change[c].set, r \in SigningIn(change[c].acct)',
               req'[r].since < change[c].epoch
        PROVE  r \in change[c].overlapped
    <3>1. CASE req[r].op = "register"
      <4>1. req'[r].acct = u /\ req'[r].since = epoch[u]
        BY <1>7, <1>0, <3>1 DEF CreateUser, TypeOK, Request
      <4>2. change[c].epoch <= epoch[u] /\ change[c].epoch \in Nat /\ epoch[u] \in Nat
        BY <1>0, <2>2, <2>3, <4>1 DEF ChangeOK, SigningIn, TypeOK, Change
      <4>. QED
        BY <2>3, <4>1, <4>2
    <3>2. CASE req[r].op # "register"
      <4>1. req'[r].step \in {"mint", "done"}
        BY <1>7, <1>0, <3>2 DEF CreateUser, Goes, Ends, Idle, TypeOK, Request
      <4>. QED
        BY <2>3, <4>1 DEF SigningIn, At
    <3>. QED
      BY <3>1, <3>2
  <2>. QED
    BY <1>0, <2>1, <2>2, <2>3 DEF ReadersOK, SigningIn, At
<1>8. ASSUME NEW r \in Requests, NEW l \in Links, CreateVerificationToken(r, l)
       PROVE  \A q \in Requests : ReadersOK(q)'
  <2>1. \A q \in Requests \ {r} : req'[q] = req[q]
    BY <1>8, <1>0 DEF CreateVerificationToken, Ends, TypeOK
  <2>2. change' = change
    BY <1>8 DEF CreateVerificationToken, historyVars
  <2>3. ASSUME NEW c \in Requests, change[c].set, r \in SigningIn(change[c].acct)',
               req'[r].since < change[c].epoch
        PROVE  r \in change[c].overlapped
    BY <1>8, <1>0, <2>3 DEF CreateVerificationToken, Ends, Idle, SigningIn, ReadersOK, ChangeOK,
      StepOK, At, TypeOK, Change
  <2>. QED
    BY <1>0, <2>1, <2>2, <2>3 DEF ReadersOK, SigningIn, At
<1>9. ASSUME NEW r \in Requests, NEW l \in Links, FindToken(r, l)
       PROVE  \A q \in Requests : ReadersOK(q)'
  <2>1. \A q \in Requests \ {r} : req'[q] = req[q]
    BY <1>9, <1>0 DEF FindToken, TypeOK
  <2>2. change' = change
    BY <1>9 DEF FindToken, historyVars
  <2>3. ASSUME NEW c \in Requests, change[c].set, r \in SigningIn(change[c].acct)',
               req'[r].since < change[c].epoch
        PROVE  r \in change[c].overlapped
    BY <1>9, <1>0, <2>3 DEF FindToken, Idle, SigningIn, ReadersOK, ChangeOK, StepOK, At, TypeOK,
      Change
  <2>. QED
    BY <1>0, <2>1, <2>2, <2>3 DEF ReadersOK, SigningIn, At
<1>10. ASSUME NEW r \in Requests, SpendToken(r)
       PROVE  \A q \in Requests : ReadersOK(q)'
  <2>1. \A q \in Requests \ {r} : req'[q] = req[q]
    BY <1>10, <1>0 DEF SpendToken, TypeOK
  <2>2. change' = change
    BY <1>10 DEF SpendToken
  <2>3. ASSUME NEW c \in Requests, change[c].set, r \in SigningIn(change[c].acct)',
               req'[r].since < change[c].epoch
        PROVE  r \in change[c].overlapped
    BY <1>10, <1>0, <2>3 DEF SpendToken, SigningIn, ReadersOK, ChangeOK, StepOK, At, TypeOK,
      Change
  <2>. QED
    BY <1>0, <2>1, <2>2, <2>3 DEF ReadersOK, SigningIn, At
<1>11. ASSUME NEW r \in Requests, DiscardToken(r)
       PROVE  \A q \in Requests : ReadersOK(q)'
  <2>1. \A q \in Requests \ {r} : req'[q] = req[q]
    BY <1>11, <1>0 DEF DiscardToken, Ends, TypeOK
  <2>2. change' = change
    BY <1>11 DEF DiscardToken
  <2>3. ASSUME NEW c \in Requests, change[c].set, r \in SigningIn(change[c].acct)',
               req'[r].since < change[c].epoch
        PROVE  r \in change[c].overlapped
    BY <1>11, <1>0, <2>3 DEF DiscardToken, Ends, Idle, SigningIn, ReadersOK, ChangeOK, StepOK,
      At, TypeOK, Change
  <2>. QED
    BY <1>0, <2>1, <2>2, <2>3 DEF ReadersOK, SigningIn, At
<1>12. ASSUME NEW r \in Requests, NEW u \in UserIds, FindByEmail(r, u)
       PROVE  \A q \in Requests : ReadersOK(q)'
  <2>1. \A q \in Requests \ {r} : req'[q] = req[q]
    BY <1>12, <1>0 DEF FindByEmail, TypeOK
  <2>2. change' = change
    BY <1>12 DEF FindByEmail
  <2>3. ASSUME NEW c \in Requests, change[c].set, r \in SigningIn(change[c].acct)',
               req'[r].since < change[c].epoch
        PROVE  r \in change[c].overlapped
    BY <1>12, <1>0, <2>3 DEF FindByEmail, SignInStep, SigningIn, ReadersOK, ChangeOK, StepOK,
      At, TypeOK, Change
  <2>. QED
    BY <1>0, <2>1, <2>2, <2>3 DEF ReadersOK, SigningIn, At
<1>13. ASSUME NEW r \in Requests, MarkEmailVerified(r)
       PROVE  \A q \in Requests : ReadersOK(q)'
  <2>1. \A q \in Requests \ {r} : req'[q] = req[q]
    BY <1>13, <1>0 DEF MarkEmailVerified, Goes, TypeOK
  <2>2. change' = change
    BY <1>13 DEF MarkEmailVerified, historyVars
  <2>3. ASSUME NEW c \in Requests, change[c].set, r \in SigningIn(change[c].acct)',
               req'[r].since < change[c].epoch
        PROVE  r \in change[c].overlapped
    <3>1. req'[r] = [req[r] EXCEPT !.step = req[r].then] /\ At(r, "verify") /\ req[r] \in Request
      BY <1>13, <1>0 DEF MarkEmailVerified, Goes, TypeOK
    <3>2. req[r].op = "magic"
      BY <1>0, <2>3, <3>1 DEF StepOK, SigningIn, At, Request
    <3>3. r \in SigningIn(change[c].acct) /\ req[r].since < change[c].epoch
      BY <2>2, <2>3, <3>1, <3>2 DEF SigningIn, At, Request
    <3>. QED
      BY <1>0, <2>3, <3>3 DEF ReadersOK
  <2>. QED
    BY <1>0, <2>1, <2>2, <2>3 DEF ReadersOK, SigningIn, At
<1>14. ASSUME NEW r \in Requests, NEW s \in sessions, NEW u \in UserIds,
             NEW op \in {"change", "password", "update", "toggle", "new", "link"},
             Authenticate(r, s, op, u)
       PROVE  \A q \in Requests : ReadersOK(q)'
  <2>1. \A q \in Requests \ {r} : req'[q] = req[q]
    BY <1>14, <1>0 DEF Authenticate, Begins, TypeOK
  <2>2. change' = change
    BY <1>14 DEF Authenticate, historyVars
  <2>3. ASSUME NEW c \in Requests, change[c].set, r \in SigningIn(change[c].acct)',
               req'[r].since < change[c].epoch
        PROVE  r \in change[c].overlapped
    BY <1>14, <1>0, <2>3 DEF Authenticate, Begins, Idle, SigningIn, ReadersOK, ChangeOK, StepOK,
      At, TypeOK, Change
  <2>. QED
    BY <1>0, <2>1, <2>2, <2>3 DEF ReadersOK, SigningIn, At
<1>15. ASSUME NEW r \in Requests, NEW p \in Passwords, VerifyCurrent(r, p)
       PROVE  \A q \in Requests : ReadersOK(q)'
  <2>1. \A q \in Requests \ {r} : req'[q] = req[q]
    BY <1>15, <1>0 DEF VerifyCurrent, Goes, TypeOK
  <2>2. change' = change
    BY <1>15 DEF VerifyCurrent, historyVars
  <2>3. ASSUME NEW c \in Requests, change[c].set, r \in SigningIn(change[c].acct)',
               req'[r].since < change[c].epoch
        PROVE  r \in change[c].overlapped
    BY <1>15, <1>0, <2>3 DEF VerifyCurrent, Goes, SigningIn, ReadersOK, ChangeOK, StepOK, At,
      TypeOK, Change
  <2>. QED
    BY <1>0, <2>1, <2>2, <2>3 DEF ReadersOK, SigningIn, At
<1>16. ASSUME NEW r \in Requests, NEW p \in Passwords, SetPassword(r, p)
       PROVE  \A q \in Requests : ReadersOK(q)'
  <2>1. \A q \in Requests \ {r} : req'[q] = req[q] /\ change'[q] = change[q]
    BY <1>16, <1>0 DEF SetPassword, Goes, TypeOK
  <2>2. /\ change'[r].acct = req[r].acct
        /\ change'[r].overlapped = SigningIn(req[r].acct)
    BY <1>16, <1>0 DEF SetPassword, TypeOK
  <2>3. \A u : r \notin SigningIn(u)'
    BY <1>16, <1>0 DEF SetPassword, Goes, SigningIn, StepOK, At, TypeOK
  <2>4. \A u : SigningIn(u)' \subseteq SigningIn(u)
    BY <2>1, <2>3 DEF SigningIn, At
  <2>5. \A q \in Requests \ {r} : ReadersOK(q)'
    BY <1>0, <2>1, <2>3, <2>4 DEF ReadersOK, SigningIn
  <2>6. ReadersOK(r)'
    BY <2>2, <2>4 DEF ReadersOK
  <2>. QED
    BY <2>5, <2>6
<1>17. ASSUME NEW r \in Requests, DeleteUserSessions(r)
       PROVE  \A q \in Requests : ReadersOK(q)'
  <2>1. \A q \in Requests \ {r} : req'[q] = req[q]
    BY <1>17, <1>0 DEF DeleteUserSessions, Ends, TypeOK
  <2>2. change' = change
    BY <1>17 DEF DeleteUserSessions, historyVars
  <2>3. ASSUME NEW c \in Requests, change[c].set, r \in SigningIn(change[c].acct)',
               req'[r].since < change[c].epoch
        PROVE  r \in change[c].overlapped
    BY <1>17, <1>0, <2>3 DEF DeleteUserSessions, Ends, Idle, SigningIn, ReadersOK, ChangeOK,
      StepOK, At, TypeOK, Change
  <2>. QED
    BY <1>0, <2>1, <2>2, <2>3 DEF ReadersOK, SigningIn, At
<1>18. ASSUME NEW r \in Requests, NEW e \in Emails, NEW role \in Roles, AdminUpdate(r, e, role)
       PROVE  \A q \in Requests : ReadersOK(q)'
  <2>1. \A q \in Requests \ {r} : req'[q] = req[q]
    BY <1>18, <1>0 DEF AdminUpdate, Ends, TypeOK
  <2>2. change' = change
    BY <1>18 DEF AdminUpdate
  <2>3. ASSUME NEW c \in Requests, change[c].set, r \in SigningIn(change[c].acct)',
               req'[r].since < change[c].epoch
        PROVE  r \in change[c].overlapped
    BY <1>18, <1>0, <2>3 DEF AdminUpdate, Ends, Idle, SigningIn, ReadersOK, ChangeOK, StepOK,
      At, TypeOK, Change
  <2>. QED
    BY <1>0, <2>1, <2>2, <2>3 DEF ReadersOK, SigningIn, At
<1>19. ASSUME NEW r \in Requests, AdminToggle(r)
       PROVE  \A q \in Requests : ReadersOK(q)'
  <2>1. \A q \in Requests \ {r} : req'[q] = req[q]
    BY <1>19, <1>0 DEF AdminToggle, Goes, Ends, TypeOK
  <2>2. change' = change
    BY <1>19 DEF AdminToggle, historyVars
  <2>3. ASSUME NEW c \in Requests, change[c].set, r \in SigningIn(change[c].acct)',
               req'[r].since < change[c].epoch
        PROVE  r \in change[c].overlapped
    <3>1. req'[r].step \in {"deactivate", "activate", "done"}
      BY <1>19, <1>0 DEF AdminToggle, Goes, Ends, Idle, TypeOK, Request
    <3>. QED
      BY <2>3, <3>1 DEF SigningIn, At
  <2>. QED
    BY <1>0, <2>1, <2>2, <2>3 DEF ReadersOK, SigningIn, At
<1>20. ASSUME NEW r \in Requests, NEW e \in Emails, AdminCreateUser(r, e)
       PROVE  \A q \in Requests : ReadersOK(q)'
  <2>1. \A q \in Requests \ {r} : req'[q] = req[q]
    BY <1>20, <1>0 DEF AdminCreateUser, TypeOK
  <2>2. change' = change
    BY <1>20 DEF AdminCreateUser, historyVars
  <2>3. ASSUME NEW c \in Requests, change[c].set, r \in SigningIn(change[c].acct)',
               req'[r].since < change[c].epoch
        PROVE  r \in change[c].overlapped
    BY <1>20, <1>0, <2>3 DEF AdminCreateUser, SigningIn, ReadersOK, ChangeOK, StepOK, At,
      TypeOK, Change
  <2>. QED
    BY <1>0, <2>1, <2>2, <2>3 DEF ReadersOK, SigningIn, At
<1>21. ASSUME NEW r \in Requests, AdminMagicLink(r)
       PROVE  \A q \in Requests : ReadersOK(q)'
  <2>1. \A q \in Requests \ {r} : req'[q] = req[q]
    BY <1>21, <1>0 DEF AdminMagicLink, TypeOK
  <2>2. change' = change
    BY <1>21 DEF AdminMagicLink, historyVars
  <2>3. ASSUME NEW c \in Requests, change[c].set, r \in SigningIn(change[c].acct)',
               req'[r].since < change[c].epoch
        PROVE  r \in change[c].overlapped
    BY <1>21, <1>0, <2>3 DEF AdminMagicLink, SigningIn, ReadersOK, ChangeOK, StepOK, At, TypeOK,
      Change
  <2>. QED
    BY <1>0, <2>1, <2>2, <2>3 DEF ReadersOK, SigningIn, At
<1>22. ASSUME NEW r \in Requests, Fails(r)
       PROVE  \A q \in Requests : ReadersOK(q)'
  <2>1. \A q \in Requests \ {r} : req'[q] = req[q]
    BY <1>22, <1>0 DEF Fails, Ends, TypeOK
  <2>2. change' = change
    BY <1>22 DEF Fails, historyVars
  <2>3. ASSUME NEW c \in Requests, change[c].set, r \in SigningIn(change[c].acct)',
               req'[r].since < change[c].epoch
        PROVE  r \in change[c].overlapped
    BY <1>22, <1>0, <2>3 DEF Fails, Ends, Idle, SigningIn, ReadersOK, ChangeOK, StepOK, At,
      TypeOK, Change
  <2>. QED
    BY <1>0, <2>1, <2>2, <2>3 DEF ReadersOK, SigningIn, At
<1>23. ASSUME NEW s \in sessions, EndSession(s)
       PROVE  \A q \in Requests : ReadersOK(q)'
  BY <1>23, <1>0 DEF EndSession, ReadersOK, SigningIn, At, historyVars
<1>24. ASSUME NEW l \in Links, Expire(l)
       PROVE  \A q \in Requests : ReadersOK(q)'
  BY <1>24, <1>0 DEF Expire, ReadersOK, SigningIn, At, historyVars
<1>25. ASSUME DeleteExpiredTokens
       PROVE  \A q \in Requests : ReadersOK(q)'
  BY <1>25, <1>0 DEF DeleteExpiredTokens, ReadersOK, SigningIn, At, historyVars
<1>26. CASE UNCHANGED accountVars
  BY <1>0, <1>26 DEF ReadersOK, SigningIn, At, accountVars, historyVars
<1>. QED
  BY <1>1, <1>2, <1>3, <1>4, <1>5, <1>6, <1>7, <1>8, <1>9, <1>10, <1>11, <1>12, <1>13,
     <1>14, <1>15, <1>16, <1>17, <1>18, <1>19, <1>20, <1>21, <1>22, <1>23, <1>24, <1>25,
     <1>26 DEF Next, Serve

\* The step of the property itself.
LEMMA RevocationStep ==
    ASSUME TypeOK, \A r \in Requests : StepOK(r) /\ ChangeOK(r) /\ ReadersOK(r),
           ChangeEndsSessions, [Next]_accountVars
    PROVE  ChangeEndsSessions'
<1>0. TypeOK /\ \A r \in Requests : (StepOK(r) /\ ChangeOK(r) /\ ReadersOK(r))
     /\ ChangeEndsSessions
  OBVIOUS
<1>1. ASSUME NEW r \in Requests, NEW u \in UserIds, NEW p \in Passwords, LoginPassword(r, u, p)
       PROVE  ChangeEndsSessions'
  <2>1. \A q \in Requests \ {r} : req'[q] = req[q]
    BY <1>1, <1>0 DEF LoginPassword, TypeOK
  <2>2. change' = change /\ sessions' = sessions
    BY <1>1 DEF LoginPassword, historyVars, database
  <2>3. ~At(r, "done")' \/ ~change[r].set
    BY <1>1, <1>0 DEF LoginPassword, Idle, SignInStep, ChangeOK, StepOK, At, TypeOK
  <2>. QED
    BY <1>0, <2>1, <2>2, <2>3 DEF ChangeEndsSessions, At
<1>2. ASSUME NEW r \in Requests, PromoteAdmin(r)
       PROVE  ChangeEndsSessions'
  <2>1. \A q \in Requests \ {r} : req'[q] = req[q]
    BY <1>2, <1>0 DEF PromoteAdmin, Goes, TypeOK
  <2>2. change' = change /\ sessions' = sessions
    BY <1>2 DEF PromoteAdmin
  <2>3. ~At(r, "done")' \/ ~change[r].set
    BY <1>2, <1>0 DEF PromoteAdmin, Goes, ChangeOK, StepOK, At, TypeOK
  <2>. QED
    BY <1>0, <2>1, <2>2, <2>3 DEF ChangeEndsSessions, At
<1>3. ASSUME NEW r \in Requests, SetSession(r)
       PROVE  ChangeEndsSessions'
  <2>1. /\ \A q \in Requests \ {r} : req'[q] = req[q]
        /\ change' = change
        /\ At(r, "session")
        /\ sessions' = sessions \union {[by |-> r, user |-> req[r].acct, epoch |-> req[r].since]}
    BY <1>3, <1>0 DEF SetSession, Ends, TypeOK, historyVars
  <2>2. ~change[r].set
    BY <1>0, <2>1 DEF ChangeOK, At
  <2>3. \A q \in Requests : change[q].set /\ change[q].acct = req[r].acct
                              /\ req[r].since < change[q].epoch => r \in change[q].overlapped
    BY <1>0, <2>1 DEF ReadersOK, SigningIn, At
  <2>. QED
    BY <1>0, <2>1, <2>2, <2>3 DEF ChangeEndsSessions, At
<1>4. ASSUME NEW r \in Requests, NEW e \in Emails, Register(r, e)
       PROVE  ChangeEndsSessions'
  <2>1. \A q \in Requests \ {r} : req'[q] = req[q]
    BY <1>4, <1>0 DEF Register, Begins, TypeOK
  <2>2. change' = change /\ sessions' = sessions
    BY <1>4 DEF Register, historyVars, database
  <2>3. ~At(r, "done")' \/ ~change[r].set
    BY <1>4, <1>0 DEF Register, Begins, Idle, ChangeOK, StepOK, At, TypeOK
  <2>. QED
    BY <1>0, <2>1, <2>2, <2>3 DEF ChangeEndsSessions, At
<1>5. ASSUME NEW r \in Requests, NEW e \in Emails, RequestMagicLink(r, e)
       PROVE  ChangeEndsSessions'
  <2>1. \A q \in Requests \ {r} : req'[q] = req[q]
    BY <1>5, <1>0 DEF RequestMagicLink, Begins, TypeOK
  <2>2. change' = change /\ sessions' = sessions
    BY <1>5 DEF RequestMagicLink, historyVars, database
  <2>3. ~At(r, "done")' \/ ~change[r].set
    BY <1>5, <1>0 DEF RequestMagicLink, Begins, Idle, ChangeOK, StepOK, At, TypeOK
  <2>. QED
    BY <1>0, <2>1, <2>2, <2>3 DEF ChangeEndsSessions, At
<1>6. ASSUME NEW r \in Requests, NEW e \in Emails, ForgotPassword(r, e)
       PROVE  ChangeEndsSessions'
  <2>1. \A q \in Requests \ {r} : req'[q] = req[q]
    BY <1>6, <1>0 DEF ForgotPassword, Begins, TypeOK
  <2>2. change' = change /\ sessions' = sessions
    BY <1>6 DEF ForgotPassword, historyVars, database
  <2>3. ~At(r, "done")' \/ ~change[r].set
    BY <1>6, <1>0 DEF ForgotPassword, Begins, Idle, ChangeOK, StepOK, At, TypeOK
  <2>. QED
    BY <1>0, <2>1, <2>2, <2>3 DEF ChangeEndsSessions, At
<1>7. ASSUME NEW r \in Requests, NEW u \in UserIds,
             NEW p \in Passwords \union {NoPassword}, NEW role \in Roles,
             CreateUser(r, u, p, role)
       PROVE  ChangeEndsSessions'
  <2>1. \A q \in Requests \ {r} : req'[q] = req[q]
    BY <1>7, <1>0 DEF CreateUser, Goes, Ends, TypeOK
  <2>2. change' = change /\ sessions' = sessions
    BY <1>7 DEF CreateUser, historyVars
  <2>3. ~At(r, "done")' \/ ~change[r].set
    BY <1>7, <1>0 DEF CreateUser, Goes, Ends, Idle, ChangeOK, StepOK, At, TypeOK
  <2>. QED
    BY <1>0, <2>1, <2>2, <2>3 DEF ChangeEndsSessions, At
<1>8. ASSUME NEW r \in Requests, NEW l \in Links, CreateVerificationToken(r, l)
       PROVE  ChangeEndsSessions'
  <2>1. \A q \in Requests \ {r} : req'[q] = req[q]
    BY <1>8, <1>0 DEF CreateVerificationToken, Ends, TypeOK
  <2>2. change' = change /\ sessions' = sessions
    BY <1>8 DEF CreateVerificationToken, historyVars
  <2>3. ~At(r, "done")' \/ ~change[r].set
    BY <1>8, <1>0 DEF CreateVerificationToken, Ends, Idle, ChangeOK, StepOK, At, TypeOK
  <2>. QED
    BY <1>0, <2>1, <2>2, <2>3 DEF ChangeEndsSessions, At
<1>9. ASSUME NEW r \in Requests, NEW l \in Links, FindToken(r, l)
       PROVE  ChangeEndsSessions'
  <2>1. \A q \in Requests \ {r} : req'[q] = req[q]
    BY <1>9, <1>0 DEF FindToken, TypeOK
  <2>2. change' = change /\ sessions' = sessions
    BY <1>9 DEF FindToken, historyVars, database
  <2>3. ~At(r, "done")' \/ ~change[r].set
    BY <1>9, <1>0 DEF FindToken, Idle, ChangeOK, StepOK, At, TypeOK
  <2>. QED
    BY <1>0, <2>1, <2>2, <2>3 DEF ChangeEndsSessions, At
<1>10. ASSUME NEW r \in Requests, SpendToken(r)
       PROVE  ChangeEndsSessions'
  <2>1. \A q \in Requests \ {r} : req'[q] = req[q]
    BY <1>10, <1>0 DEF SpendToken, TypeOK
  <2>2. change' = change /\ sessions' = sessions
    BY <1>10 DEF SpendToken
  <2>3. ~At(r, "done")' \/ ~change[r].set
    BY <1>10, <1>0 DEF SpendToken, ChangeOK, StepOK, At, TypeOK
  <2>. QED
    BY <1>0, <2>1, <2>2, <2>3 DEF ChangeEndsSessions, At
<1>11. ASSUME NEW r \in Requests, DiscardToken(r)
       PROVE  ChangeEndsSessions'
  <2>1. \A q \in Requests \ {r} : req'[q] = req[q]
    BY <1>11, <1>0 DEF DiscardToken, Ends, TypeOK
  <2>2. change' = change /\ sessions' = sessions
    BY <1>11 DEF DiscardToken
  <2>3. ~At(r, "done")' \/ ~change[r].set
    BY <1>11, <1>0 DEF DiscardToken, Ends, Idle, ChangeOK, StepOK, At, TypeOK
  <2>. QED
    BY <1>0, <2>1, <2>2, <2>3 DEF ChangeEndsSessions, At
<1>12. ASSUME NEW r \in Requests, NEW u \in UserIds, FindByEmail(r, u)
       PROVE  ChangeEndsSessions'
  <2>1. \A q \in Requests \ {r} : req'[q] = req[q]
    BY <1>12, <1>0 DEF FindByEmail, TypeOK
  <2>2. change' = change /\ sessions' = sessions
    BY <1>12 DEF FindByEmail, database
  <2>3. ~At(r, "done")' \/ ~change[r].set
    BY <1>12, <1>0 DEF FindByEmail, SignInStep, ChangeOK, StepOK, At, TypeOK
  <2>. QED
    BY <1>0, <2>1, <2>2, <2>3 DEF ChangeEndsSessions, At
<1>13. ASSUME NEW r \in Requests, MarkEmailVerified(r)
       PROVE  ChangeEndsSessions'
  <2>1. \A q \in Requests \ {r} : req'[q] = req[q]
    BY <1>13, <1>0 DEF MarkEmailVerified, Goes, TypeOK
  <2>2. change' = change /\ sessions' = sessions
    BY <1>13 DEF MarkEmailVerified, historyVars
  <2>3. ~At(r, "done")' \/ ~change[r].set
    BY <1>13, <1>0 DEF MarkEmailVerified, Goes, ChangeOK, StepOK, At, TypeOK
  <2>. QED
    BY <1>0, <2>1, <2>2, <2>3 DEF ChangeEndsSessions, At
<1>14. ASSUME NEW r \in Requests, NEW s \in sessions, NEW u \in UserIds,
             NEW op \in {"change", "password", "update", "toggle", "new", "link"},
             Authenticate(r, s, op, u)
       PROVE  ChangeEndsSessions'
  <2>1. \A q \in Requests \ {r} : req'[q] = req[q]
    BY <1>14, <1>0 DEF Authenticate, Begins, TypeOK
  <2>2. change' = change /\ sessions' = sessions
    BY <1>14 DEF Authenticate, historyVars, database
  <2>3. ~At(r, "done")' \/ ~change[r].set
    BY <1>14, <1>0 DEF Authenticate, Begins, Idle, ChangeOK, StepOK, At, TypeOK
  <2>. QED
    BY <1>0, <2>1, <2>2, <2>3 DEF ChangeEndsSessions, At
<1>15. ASSUME NEW r \in Requests, NEW p \in Passwords, VerifyCurrent(r, p)
       PROVE  ChangeEndsSessions'
  <2>1. \A q \in Requests \ {r} : req'[q] = req[q]
    BY <1>15, <1>0 DEF VerifyCurrent, Goes, TypeOK
  <2>2. change' = change /\ sessions' = sessions
    BY <1>15 DEF VerifyCurrent, historyVars, database
  <2>3. ~At(r, "done")' \/ ~change[r].set
    BY <1>15, <1>0 DEF VerifyCurrent, Goes, ChangeOK, StepOK, At, TypeOK
  <2>. QED
    BY <1>0, <2>1, <2>2, <2>3 DEF ChangeEndsSessions, At
<1>16. ASSUME NEW r \in Requests, NEW p \in Passwords, SetPassword(r, p)
       PROVE  ChangeEndsSessions'
  <2>1. /\ \A q \in Requests \ {r} : req'[q] = req[q] /\ change'[q] = change[q]
        /\ sessions' = sessions
        /\ ~At(r, "done")'
    BY <1>16, <1>0 DEF SetPassword, Goes, At, TypeOK
  <2>. QED
    BY <1>0, <2>1 DEF ChangeEndsSessions, At
<1>17. ASSUME NEW r \in Requests, DeleteUserSessions(r)
       PROVE  ChangeEndsSessions'
  <2>1. /\ \A q \in Requests \ {r} : req'[q] = req[q]
        /\ change' = change
        /\ At(r, "revoke")
        /\ sessions' = {s \in sessions : s.user # req[r].acct}
    BY <1>17, <1>0 DEF DeleteUserSessions, Ends, TypeOK, historyVars
  <2>2. change[r].set => change[r].acct = req[r].acct
    BY <1>0, <2>1 DEF ChangeOK, At
  <2>. QED
    BY <1>0, <2>1, <2>2 DEF ChangeEndsSessions, At
<1>18. ASSUME NEW r \in Requests, NEW e \in Emails, NEW role \in Roles, AdminUpdate(r, e, role)
       PROVE  ChangeEndsSessions'
  <2>1. \A q \in Requests \ {r} : req'[q] = req[q]
    BY <1>18, <1>0 DEF AdminUpdate, Ends, TypeOK
  <2>2. change' = change /\ sessions' = sessions
    BY <1>18 DEF AdminUpdate
  <2>3. ~At(r, "done")' \/ ~change[r].set
    BY <1>18, <1>0 DEF AdminUpdate, Ends, Idle, ChangeOK, StepOK, At, TypeOK
  <2>. QED
    BY <1>0, <2>1, <2>2, <2>3 DEF ChangeEndsSessions, At
<1>19. ASSUME NEW r \in Requests, AdminToggle(r)
       PROVE  ChangeEndsSessions'
  <2>1. \A q \in Requests \ {r} : req'[q] = req[q]
    BY <1>19, <1>0 DEF AdminToggle, Goes, Ends, TypeOK
  <2>2. change' = change /\ sessions' = sessions
    BY <1>19 DEF AdminToggle, historyVars
  <2>3. ~At(r, "done")' \/ ~change[r].set
    BY <1>19, <1>0 DEF AdminToggle, Goes, Ends, Idle, ChangeOK, StepOK, At, TypeOK
  <2>. QED
    BY <1>0, <2>1, <2>2, <2>3 DEF ChangeEndsSessions, At
<1>20. ASSUME NEW r \in Requests, NEW e \in Emails, AdminCreateUser(r, e)
       PROVE  ChangeEndsSessions'
  <2>1. \A q \in Requests \ {r} : req'[q] = req[q]
    BY <1>20, <1>0 DEF AdminCreateUser, TypeOK
  <2>2. change' = change /\ sessions' = sessions
    BY <1>20 DEF AdminCreateUser, historyVars, database
  <2>3. ~At(r, "done")' \/ ~change[r].set
    BY <1>20, <1>0 DEF AdminCreateUser, ChangeOK, StepOK, At, TypeOK
  <2>. QED
    BY <1>0, <2>1, <2>2, <2>3 DEF ChangeEndsSessions, At
<1>21. ASSUME NEW r \in Requests, AdminMagicLink(r)
       PROVE  ChangeEndsSessions'
  <2>1. \A q \in Requests \ {r} : req'[q] = req[q]
    BY <1>21, <1>0 DEF AdminMagicLink, TypeOK
  <2>2. change' = change /\ sessions' = sessions
    BY <1>21 DEF AdminMagicLink, historyVars, database
  <2>3. ~At(r, "done")' \/ ~change[r].set
    BY <1>21, <1>0 DEF AdminMagicLink, ChangeOK, StepOK, At, TypeOK
  <2>. QED
    BY <1>0, <2>1, <2>2, <2>3 DEF ChangeEndsSessions, At
<1>22. ASSUME NEW r \in Requests, Fails(r)
       PROVE  ChangeEndsSessions'
  <2>1. \A q \in Requests \ {r} : req'[q] = req[q]
    BY <1>22, <1>0 DEF Fails, Ends, TypeOK
  <2>2. change' = change /\ sessions' = sessions
    BY <1>22 DEF Fails, historyVars, database
  <2>3. ~At(r, "done")' \/ ~change[r].set
    BY <1>22, <1>0 DEF Fails, Ends, Idle, ChangeOK, StepOK, At, TypeOK
  <2>. QED
    BY <1>0, <2>1, <2>2, <2>3 DEF ChangeEndsSessions, At
<1>23. ASSUME NEW s \in sessions, EndSession(s)
       PROVE  ChangeEndsSessions'
  BY <1>23, <1>0 DEF EndSession, ChangeEndsSessions, At, historyVars
<1>24. ASSUME NEW l \in Links, Expire(l)
       PROVE  ChangeEndsSessions'
  BY <1>24, <1>0 DEF Expire, ChangeEndsSessions, At, historyVars
<1>25. ASSUME DeleteExpiredTokens
       PROVE  ChangeEndsSessions'
  BY <1>25, <1>0 DEF DeleteExpiredTokens, ChangeEndsSessions, At, historyVars
<1>26. CASE UNCHANGED accountVars
  BY <1>0, <1>26 DEF ChangeEndsSessions, At, accountVars, database, historyVars
<1>. QED
  BY <1>1, <1>2, <1>3, <1>4, <1>5, <1>6, <1>7, <1>8, <1>9, <1>10, <1>11, <1>12, <1>13,
     <1>14, <1>15, <1>16, <1>17, <1>18, <1>19, <1>20, <1>21, <1>22, <1>23, <1>24, <1>25,
     <1>26 DEF Next, Serve

\* The invariant that makes a reported change end the sessions before it.
THEOREM AccountInvariant == Spec => []AccountInv
  <1>1. Init => AccountInv
    <2>. SUFFICES ASSUME Init PROVE AccountInv
      OBVIOUS
    <2>1. req = [r \in Requests |-> Idle] /\ Idle \in Request
      BY DEF Init, Unasked, Idle, Request, Ops, Steps
    <2>2. TypeOK
      <3>1. /\ proved \in [UserIds -> SUBSET Emails] /\ given \in [UserIds -> SUBSET Emails]
            /\ epoch \in [UserIds -> Nat] /\ change \in [Requests -> Change]
        BY DEF Init, Unasked, User, Change
      <3>. QED
        BY <2>1, <3>1 DEF Init, Unasked, TypeOK
    <2>3. SessionsOK
      BY DEF Init, SessionsOK
    <2>4. \A r \in Requests : StepOK(r) /\ ChangeOK(r) /\ ReadersOK(r)
      <3>1. ASSUME NEW r \in Requests
            PROVE  req[r].step = "idle" /\ ~change[r].set
        BY <2>1 DEF Init, Unasked, Idle
      <3>. QED
        BY <3>1 DEF StepOK, ChangeOK, ReadersOK, At, AccountSteps, LinkSteps
    <2>5. ChangeEndsSessions
      BY <2>1 DEF Idle, ChangeEndsSessions, At
    <2>. QED
      BY <2>2, <2>3, <2>4, <2>5 DEF AccountInv
  <1>2. AccountInv /\ [Next]_accountVars => AccountInv'
    <2>. SUFFICES ASSUME AccountInv, [Next]_accountVars PROVE AccountInv'
      OBVIOUS
    <2>0. TypeOK /\ SessionsOK /\ (\A r \in Requests : StepOK(r) /\ ChangeOK(r) /\ ReadersOK(r))
          /\ ChangeEndsSessions
      BY DEF AccountInv
    <2>1. TypeOK' /\ SessionsOK' /\ (\A r \in Requests : StepOK(r)')
      BY <2>0, TypeStep, SessionStep, StepStep
    <2>2. (\A r \in Requests : ChangeOK(r)') /\ (\A r \in Requests : ReadersOK(r)')
      BY <2>0, ChangeStep, ReadersStep
    <2>3. ChangeEndsSessions'
      BY <2>0, RevocationStep
    <2>. QED
      BY <2>1, <2>2, <2>3 DEF AccountInv
  <1>. QED
    BY <1>1, <1>2, PTL DEF Spec

\* A reported change or reset of a password leaves no older session but those of
\* requests that were signing in when the password was set.
THEOREM ReportedChangeEndsSessions == Spec => []ChangeEndsSessions
  <1>1. AccountInv => ChangeEndsSessions
    BY DEF AccountInv
  <1>. QED
    BY <1>1, AccountInvariant, PTL

-----------------------------------------------------------------------------
(* Links.                                                                  *)

\* All that a step other than those on links may do to links.
Quiet ==
    /\ served' = served /\ unspent' = unspent
    /\ \A l \in Links : links[l].state = "gone" => links'[l].state = "gone"
    /\ \A q \in Requests : At(q, "spend")' => At(q, "spend") /\ req'[q] = req[q]

\* Every other handler, and whatever ends sessions and links, is quiet about them.
LEMMA QuietSteps ==
    ASSUME TypeOK, \A r \in Requests : StepOK(r), [Next]_accountVars
    PROVE  \/ Quiet
           \/ \E r \in Requests, l \in Links : FindToken(r, l)
           \/ \E r \in Requests : SpendToken(r) \/ DiscardToken(r)
<1>0. TypeOK /\ \A r \in Requests : StepOK(r)
  OBVIOUS
<1>1. ASSUME NEW r \in Requests, NEW u \in UserIds, NEW p \in Passwords, LoginPassword(r, u, p)
       PROVE  Quiet
  BY <1>1, <1>0 DEF LoginPassword, Quiet, StepOK, At, Idle, SignInStep, TypeOK, Link,
    database, historyVars
<1>2. ASSUME NEW r \in Requests, PromoteAdmin(r)
       PROVE  Quiet
  BY <1>2, <1>0 DEF PromoteAdmin, Quiet, StepOK, At, Goes, TypeOK, Link
<1>3. ASSUME NEW r \in Requests, SetSession(r)
       PROVE  Quiet
  BY <1>3, <1>0 DEF SetSession, Quiet, StepOK, At, Ends, Idle, TypeOK, Link, historyVars
<1>4. ASSUME NEW r \in Requests, NEW e \in Emails, Register(r, e)
       PROVE  Quiet
  BY <1>4, <1>0 DEF Register, Quiet, StepOK, At, Begins, Idle, TypeOK, Link, database,
    historyVars
<1>5. ASSUME NEW r \in Requests, NEW e \in Emails, RequestMagicLink(r, e)
       PROVE  Quiet
  BY <1>5, <1>0 DEF RequestMagicLink, Quiet, StepOK, At, Begins, Idle, TypeOK, Link,
    database, historyVars
<1>6. ASSUME NEW r \in Requests, NEW e \in Emails, ForgotPassword(r, e)
       PROVE  Quiet
  BY <1>6, <1>0 DEF ForgotPassword, Quiet, StepOK, At, Begins, Idle, TypeOK, Link,
    database, historyVars
<1>7. ASSUME NEW r \in Requests, NEW u \in UserIds,
             NEW p \in Passwords \union {NoPassword}, NEW role \in Roles,
             CreateUser(r, u, p, role)
       PROVE  Quiet
  <2>1. \A q \in Requests \ {r} : req'[q] = req[q]
    BY <1>7, <1>0 DEF CreateUser, Goes, Ends, TypeOK
  <2>2. req'[r].step \in {"session", "mint", "done"}
    BY <1>7, <1>0 DEF CreateUser, Goes, Ends, Idle, TypeOK, Request
  <2>. QED
    BY <1>7, <2>1, <2>2 DEF CreateUser, Quiet, At, historyVars
<1>8. ASSUME NEW r \in Requests, NEW l \in Links, CreateVerificationToken(r, l)
       PROVE  Quiet
  BY <1>8, <1>0 DEF CreateVerificationToken, Quiet, StepOK, At, Ends, Idle, TypeOK, Link,
    historyVars
<1>12. ASSUME NEW r \in Requests, NEW u \in UserIds, FindByEmail(r, u)
       PROVE  Quiet
  BY <1>12, <1>0 DEF FindByEmail, Quiet, StepOK, At, SignInStep, TypeOK, Link, database
<1>13. ASSUME NEW r \in Requests, MarkEmailVerified(r)
       PROVE  Quiet
  BY <1>13, <1>0 DEF MarkEmailVerified, Quiet, StepOK, At, Goes, TypeOK, Link, historyVars
<1>14. ASSUME NEW r \in Requests, NEW s \in sessions, NEW u \in UserIds,
             NEW op \in {"change", "password", "update", "toggle", "new", "link"},
             Authenticate(r, s, op, u)
       PROVE  Quiet
  BY <1>14, <1>0 DEF Authenticate, Quiet, StepOK, At, Begins, Idle, TypeOK, Link,
    database, historyVars
<1>15. ASSUME NEW r \in Requests, NEW p \in Passwords, VerifyCurrent(r, p)
       PROVE  Quiet
  BY <1>15, <1>0 DEF VerifyCurrent, Quiet, StepOK, At, Goes, TypeOK, Link, database,
    historyVars
<1>16. ASSUME NEW r \in Requests, NEW p \in Passwords, SetPassword(r, p)
       PROVE  Quiet
  BY <1>16, <1>0 DEF SetPassword, Quiet, StepOK, At, Goes, TypeOK, Link
<1>17. ASSUME NEW r \in Requests, DeleteUserSessions(r)
       PROVE  Quiet
  BY <1>17, <1>0 DEF DeleteUserSessions, Quiet, StepOK, At, Ends, Idle, TypeOK, Link,
    historyVars
<1>18. ASSUME NEW r \in Requests, NEW e \in Emails, NEW role \in Roles, AdminUpdate(r, e, role)
       PROVE  Quiet
  BY <1>18, <1>0 DEF AdminUpdate, Quiet, StepOK, At, Ends, Idle, TypeOK, Link
<1>19. ASSUME NEW r \in Requests, AdminToggle(r)
       PROVE  Quiet
  <2>1. \A q \in Requests \ {r} : req'[q] = req[q]
    BY <1>19, <1>0 DEF AdminToggle, Goes, Ends, TypeOK
  <2>2. req'[r].step \in {"deactivate", "activate", "done"}
    BY <1>19, <1>0 DEF AdminToggle, Goes, Ends, Idle, TypeOK, Request
  <2>. QED
    BY <1>19, <2>1, <2>2 DEF AdminToggle, Quiet, At, historyVars
<1>20. ASSUME NEW r \in Requests, NEW e \in Emails, AdminCreateUser(r, e)
       PROVE  Quiet
  BY <1>20, <1>0 DEF AdminCreateUser, Quiet, StepOK, At, TypeOK, Link, database,
    historyVars
<1>21. ASSUME NEW r \in Requests, AdminMagicLink(r)
       PROVE  Quiet
  BY <1>21, <1>0 DEF AdminMagicLink, Quiet, StepOK, At, TypeOK, Link, database,
    historyVars
<1>22. ASSUME NEW r \in Requests, Fails(r)
       PROVE  Quiet
  BY <1>22, <1>0 DEF Fails, Quiet, StepOK, At, Ends, Idle, TypeOK, Link, database,
    historyVars
<1>23. ASSUME NEW s \in sessions, EndSession(s)
       PROVE  Quiet
  BY <1>23, <1>0 DEF EndSession, Quiet, StepOK, At, TypeOK, Link, historyVars
<1>24. ASSUME NEW l \in Links, Expire(l)
       PROVE  Quiet
  BY <1>24, <1>0 DEF Expire, Quiet, StepOK, At, TypeOK, Link, historyVars
<1>25. ASSUME DeleteExpiredTokens
       PROVE  Quiet
  BY <1>25, <1>0 DEF DeleteExpiredTokens, Quiet, StepOK, At, TypeOK, Link, historyVars
<1>26. CASE UNCHANGED accountVars
  BY <1>26 DEF Quiet, At, accountVars, database, historyVars
<1>. QED
  BY <1>1, <1>2, <1>3, <1>4, <1>5, <1>6, <1>7, <1>8, <1>12, <1>13, <1>14, <1>15, <1>16,
     <1>17, <1>18, <1>19, <1>20, <1>21, <1>22, <1>23, <1>24, <1>25, <1>26 DEF Next, Serve

\* The step of the invariant of links.
LEMMA LinkStep ==
    ASSUME TypeOK, \A r \in Requests : StepOK(r), LinkInv, [Next]_accountVars
    PROVE  LinkInv'
<1>0. TypeOK /\ (\A r \in Requests : StepOK(r)) /\ LinkInv
  OBVIOUS
<1>1. CASE Quiet
  <2>1. /\ \A p \in served' : p.link \notin unspent' => links'[p.link].state = "gone"
        /\ \A p \in served', r \in Requests :
             At(r, "spend")' /\ req'[r].link = p.link /\ p.by # r /\ p.link \notin unspent' =>
                 p.by \in req'[r].rivals \/ r \in p.rivals
    BY <1>0, <1>1 DEF Quiet, LinkInv, TypeOK
  <2>2. \A q, r \in Requests :
          At(q, "spend")' /\ At(r, "spend")' /\ req'[q].link = req'[r].link /\ q # r =>
              q \in req'[r].rivals \/ r \in req'[q].rivals
    BY <1>0, <1>1 DEF Quiet, LinkInv
  <2>3. LinkServesOnce'
    BY <1>0, <1>1 DEF Quiet, LinkInv, LinkServesOnce
  <2>. QED
    BY <2>1, <2>2, <2>3 DEF LinkInv
<1>2. ASSUME NEW r \in Requests, NEW l \in Links, FindToken(r, l)
      PROVE  LinkInv'
  <2>1. /\ \A q \in Requests \ {r} : req'[q] = req[q]
        /\ links' = links /\ served' = served /\ unspent' = unspent
        /\ links[l].state \in {"valid", "expired"}
    BY <1>0, <1>2 DEF FindToken, TypeOK, database, historyVars
  <2>2. /\ req'[r].link = l
        /\ req'[r].rivals = {q \in Requests : At(q, "spend") /\ req[q].link = l}
    BY <1>0, <1>2 DEF FindToken, TypeOK, Idle
  <2>3. ~At(r, "spend")
    BY <1>2 DEF FindToken, At
  <2>4. \A p \in served : p.link = l => l \in unspent
    BY <1>0, <2>1 DEF LinkInv
  <2>5. \A p \in served', q \in Requests :
          At(q, "spend")' /\ req'[q].link = p.link /\ p.by # q /\ p.link \notin unspent' =>
              p.by \in req'[q].rivals \/ q \in p.rivals
    BY <1>0, <2>1, <2>2, <2>4 DEF LinkInv, At
  <2>6. \A q, q2 \in Requests :
          At(q, "spend")' /\ At(q2, "spend")' /\ req'[q].link = req'[q2].link /\ q # q2 =>
              q \in req'[q2].rivals \/ q2 \in req'[q].rivals
    BY <1>0, <2>1, <2>2 DEF LinkInv, At
  <2>7. /\ \A p \in served' : p.link \notin unspent' => links'[p.link].state = "gone"
        /\ LinkServesOnce'
    BY <1>0, <2>1 DEF LinkInv, LinkServesOnce
  <2>. QED
    BY <2>5, <2>6, <2>7 DEF LinkInv
<1>3. ASSUME NEW r \in Requests, SpendToken(r) \/ DiscardToken(r)
      PROVE  LinkInv'
  <2>0. PICK l \in Links : l = req[r].link
    BY <1>0, <1>3 DEF SpendToken, DiscardToken, StepOK, At, LinkSteps
  <2>1. /\ \A q \in Requests \ {r} : req'[q] = req[q]
        /\ ~At(r, "spend")'
    BY <1>0, <1>3 DEF SpendToken, DiscardToken, Goes, Ends, Idle, At, TypeOK, Request
  <2>2. /\ unspent \subseteq unspent'
        /\ \A k \in Links : links[k].state = "gone" => links'[k].state = "gone"
        /\ links'[l].state = "gone" \/ l \in unspent'
    <3>1. Spends(l)
      BY <1>3, <2>0 DEF SpendToken, DiscardToken
    <3>. QED
      BY <1>0, <3>1 DEF Spends, TypeOK, Link
  <2>3. \/ served' = served
        \/ At(r, "spend") /\ served' = served \union {[by |-> r, link |-> l, rivals |-> req[r].rivals]}
    BY <1>3, <2>0 DEF SpendToken, DiscardToken
  <2>4. \A p \in served' : p.link \notin unspent' => links'[p.link].state = "gone"
    BY <1>0, <2>2, <2>3 DEF LinkInv, TypeOK
  <2>5. \A p \in served', q \in Requests :
          At(q, "spend")' /\ req'[q].link = p.link /\ p.by # q /\ p.link \notin unspent' =>
              p.by \in req'[q].rivals \/ q \in p.rivals
    BY <1>0, <2>0, <2>1, <2>2, <2>3 DEF LinkInv, At
  <2>6. \A q, q2 \in Requests :
          At(q, "spend")' /\ At(q2, "spend")' /\ req'[q].link = req'[q2].link /\ q # q2 =>
              q \in req'[q2].rivals \/ q2 \in req'[q].rivals
    BY <1>0, <2>1 DEF LinkInv, At
  <2>7. LinkServesOnce'
    BY <1>0, <2>0, <2>2, <2>3 DEF LinkInv, LinkServesOnce
  <2>. QED
    BY <2>4, <2>5, <2>6, <2>7 DEF LinkInv
<1>. QED
  BY <1>0, <1>1, <1>2, <1>3, QuietSteps

\* A link lets in two requests only if the second found it before the first
\* deleted it, or its deletion failed.
THEOREM LinksServeOnce == Spec => []LinkServesOnce
  <1>1. Init => LinkInv
    BY DEF Init, Unasked, Idle, LinkInv, LinkServesOnce, At
  <1>2. AccountInv /\ LinkInv /\ [Next]_accountVars => LinkInv'
    BY LinkStep DEF AccountInv
  <1>3. LinkInv => LinkServesOnce
    BY DEF LinkInv
  <1>. QED
    BY <1>1, <1>2, <1>3, AccountInvariant, PTL DEF Spec

-----------------------------------------------------------------------------
(* Promotions.                                                             *)

\* All that most steps may do to addresses and promotions.
Settled ==
    /\ proved' = proved /\ given' = given /\ promoted' = promoted
    /\ \A u \in UserIds : Known(u)' => /\ Known(u)
                                       /\ users'[u].email = users[u].email
                                       /\ users'[u].verified => users[u].verified
    /\ \A q \in Requests : Reaching(q)' \/ Promoting(q)' => req'[q] = req[q]

\* Every handler but these leaves sign-ins and addresses settled.
LEMMA SettledSteps ==
    ASSUME TypeOK, \A r \in Requests : StepOK(r), [Next]_accountVars
    PROVE  \/ Settled
           \/ \E r \in Requests, u \in UserIds, p \in Passwords : LoginPassword(r, u, p)
           \/ \E r \in Requests, u \in UserIds, p \in Passwords \union {NoPassword}, role \in Roles :
                  CreateUser(r, u, p, role)
           \/ \E r \in Requests, u \in UserIds : FindByEmail(r, u)
           \/ \E r \in Requests : PromoteAdmin(r) \/ MarkEmailVerified(r)
           \/ \E r \in Requests, p \in Passwords : SetPassword(r, p)
           \/ \E r \in Requests, e \in Emails, role \in Roles : AdminUpdate(r, e, role)
<1>0. TypeOK /\ \A r \in Requests : StepOK(r)
  OBVIOUS
<1>3. ASSUME NEW r \in Requests, SetSession(r)
       PROVE  Settled
  BY <1>3, <1>0 DEF SetSession, Settled, Reaching, Promoting, Known, StepOK, At, Ends,
    Idle, TypeOK, historyVars
<1>4. ASSUME NEW r \in Requests, NEW e \in Emails, Register(r, e)
       PROVE  Settled
  BY <1>4, <1>0 DEF Register, Settled, Reaching, Promoting, Known, StepOK, At, Begins,
    Idle, TypeOK, database, historyVars
<1>5. ASSUME NEW r \in Requests, NEW e \in Emails, RequestMagicLink(r, e)
       PROVE  Settled
  BY <1>5, <1>0 DEF RequestMagicLink, Settled, Reaching, Promoting, Known, StepOK, At,
    Begins, Idle, TypeOK, database, historyVars
<1>6. ASSUME NEW r \in Requests, NEW e \in Emails, ForgotPassword(r, e)
       PROVE  Settled
  BY <1>6, <1>0 DEF ForgotPassword, Settled, Reaching, Promoting, Known, StepOK, At,
    Begins, Idle, TypeOK, database, historyVars
<1>8. ASSUME NEW r \in Requests, NEW l \in Links, CreateVerificationToken(r, l)
       PROVE  Settled
  BY <1>8, <1>0 DEF CreateVerificationToken, Settled, Reaching, Promoting, Known, StepOK,
    At, Ends, Idle, TypeOK, historyVars
<1>9. ASSUME NEW r \in Requests, NEW l \in Links, FindToken(r, l)
       PROVE  Settled
  BY <1>9, <1>0 DEF FindToken, Settled, Reaching, Promoting, Known, StepOK, At, Idle,
    TypeOK, database, historyVars
<1>10. ASSUME NEW r \in Requests, SpendToken(r)
       PROVE  Settled
  BY <1>10, <1>0 DEF SpendToken, Settled, Reaching, Promoting, Known, StepOK, At, TypeOK
<1>11. ASSUME NEW r \in Requests, DiscardToken(r)
       PROVE  Settled
  BY <1>11, <1>0 DEF DiscardToken, Settled, Reaching, Promoting, Known, StepOK, At, Ends,
    Idle, TypeOK
<1>14. ASSUME NEW r \in Requests, NEW s \in sessions, NEW u \in UserIds,
             NEW op \in {"change", "password", "update", "toggle", "new", "link"},
             Authenticate(r, s, op, u)
       PROVE  Settled
  BY <1>14, <1>0 DEF Authenticate, Settled, Reaching, Promoting, Known, StepOK, At,
    Begins, Idle, TypeOK, database, historyVars
<1>15. ASSUME NEW r \in Requests, NEW p \in Passwords, VerifyCurrent(r, p)
       PROVE  Settled
  BY <1>15, <1>0 DEF VerifyCurrent, Settled, Reaching, Promoting, Known, StepOK, At, Goes,
    TypeOK, database, historyVars
<1>17. ASSUME NEW r \in Requests, DeleteUserSessions(r)
       PROVE  Settled
  BY <1>17, <1>0 DEF DeleteUserSessions, Settled, Reaching, Promoting, Known, StepOK, At,
    Ends, Idle, TypeOK, historyVars
<1>19. ASSUME NEW r \in Requests, AdminToggle(r)
       PROVE  Settled
  <2>1. \A q \in Requests \ {r} : req'[q] = req[q]
    BY <1>19, <1>0 DEF AdminToggle, Goes, Ends, TypeOK
  <2>2. req'[r].step \in {"deactivate", "activate", "done"}
    BY <1>19, <1>0 DEF AdminToggle, Goes, Ends, Idle, TypeOK, Request
  <2>3. \A u \in UserIds : /\ Known(u)' => Known(u)
                           /\ users'[u].email = users[u].email
                           /\ users'[u].verified = users[u].verified
    BY <1>19, <1>0 DEF AdminToggle, Known, TypeOK, User
  <2>. QED
    BY <1>19, <2>1, <2>2, <2>3 DEF AdminToggle, Settled, Reaching, Promoting, At,
       historyVars
<1>20. ASSUME NEW r \in Requests, NEW e \in Emails, AdminCreateUser(r, e)
       PROVE  Settled
  BY <1>20, <1>0 DEF AdminCreateUser, Settled, Reaching, Promoting, Known, StepOK, At,
    TypeOK, database, historyVars
<1>21. ASSUME NEW r \in Requests, AdminMagicLink(r)
       PROVE  Settled
  BY <1>21, <1>0 DEF AdminMagicLink, Settled, Reaching, Promoting, Known, StepOK, At,
    TypeOK, database, historyVars
<1>22. ASSUME NEW r \in Requests, Fails(r)
       PROVE  Settled
  BY <1>22, <1>0 DEF Fails, Settled, Reaching, Promoting, Known, StepOK, At, Ends, Idle,
    TypeOK, database, historyVars
<1>23. ASSUME NEW s \in sessions, EndSession(s)
       PROVE  Settled
  BY <1>23, <1>0 DEF EndSession, Settled, Reaching, Promoting, Known, StepOK, At, TypeOK,
    historyVars
<1>24. ASSUME NEW l \in Links, Expire(l)
       PROVE  Settled
  BY <1>24, <1>0 DEF Expire, Settled, Reaching, Promoting, Known, StepOK, At, TypeOK,
    historyVars
<1>25. ASSUME DeleteExpiredTokens
       PROVE  Settled
  BY <1>25, <1>0 DEF DeleteExpiredTokens, Settled, Reaching, Promoting, Known, StepOK, At,
    TypeOK, historyVars
<1>26. CASE UNCHANGED accountVars
  BY <1>26 DEF Settled, Reaching, Promoting, Known, At, accountVars, database, historyVars
<1>. QED
  BY <1>3, <1>4, <1>5, <1>6, <1>8, <1>9, <1>10, <1>11, <1>14, <1>15, <1>17, <1>19, <1>20,
     <1>21, <1>22, <1>23, <1>24, <1>25, <1>26 DEF Next, Serve

\* The step of the invariant of promotions.
LEMMA PromotionStep ==
    ASSUME TypeOK, \A r \in Requests : StepOK(r), PromotionInv, [Next]_accountVars
    PROVE  PromotionInv'
<1>0. TypeOK /\ (\A r \in Requests : StepOK(r)) /\ PromotionInv
  OBVIOUS
<1>A. \A q \in Requests : Reaching(q) \/ Promoting(q) =>
          req[q].acct \in UserIds /\ Known(req[q].acct)
  BY <1>0 DEF Reaching, Promoting, StepOK, At, AccountSteps
<1>K. \A x \in UserIds : Known(x) => Known(x)'
  BY KnownStays
<1>1. CASE Settled
  <2>1. \A q \in Requests : /\ Reaching(q)' => Reaching(q)
                            /\ Promoting(q)' => Promoting(q)
    BY <1>1 DEF Settled, Reaching, Promoting, At
  <2>3. \A u \in UserIds : Known(u)' /\ Reached(u) => Reached(u)'
    BY <1>1 DEF Settled, Reached, ReachedAt
  <2>4. ASSUME NEW q \in Requests, Reaching(q)'
        PROVE  Reached(req[q].acct)'
    <3>1. PICK u \in UserIds : u = req[q].acct /\ Known(u) /\ Reached(u)
      BY <1>0, <1>A, <2>1, <2>4 DEF PromotionInv
    <3>2. Reached(u)' /\ req'[q].acct = u
      BY <1>1, <1>K, <2>3, <2>4, <3>1 DEF Settled
    <3>. QED
      BY <3>2 DEF Reached, ReachedAt
  <2>5. \A u \in UserIds : Known(u)' /\ users'[u].verified => Reached(u)'
    BY <1>0, <1>1, <2>3 DEF Settled, PromotionInv
  <2>6. ASSUME NEW q \in Requests, Promoting(q)'
        PROVE  req'[q].mail \in AdminEmails /\ ReachedAt(req[q].acct, req[q].mail)'
    <3>1. req'[q] = req[q] /\ proved' = proved /\ given' = given
      BY <1>1, <2>6 DEF Settled
    <3>2. req[q].mail \in AdminEmails /\ ReachedAt(req[q].acct, req[q].mail)
      BY <1>0, <2>1, <2>6 DEF PromotionInv
    <3>. QED
      BY <3>1, <3>2 DEF ReachedAt
  <2>7. PromotedAddressWasProved'
    BY <1>0, <1>1 DEF Settled, PromotionInv, PromotedAddressWasProved
  <2>. QED
    BY <2>4, <2>5, <2>6, <2>7 DEF PromotionInv, Reached, ReachedAt
<1>2. ASSUME NEW r \in Requests, NEW u \in UserIds, NEW p \in Passwords, LoginPassword(r, u, p)
      PROVE  PromotionInv'
  <2>1. /\ \A q \in Requests \ {r} : req'[q] = req[q]
        /\ req'[r] = [Idle EXCEPT !.op = "login", !.step = SignInStep(users[u]),
                        !.acct = u, !.since = epoch[u], !.mail = users[u].email]
        /\ UNCHANGED <<users, proved, given, promoted>>
        /\ Known(u)
    BY <1>0, <1>2 DEF LoginPassword, TypeOK, database, historyVars
  <2>2. ~Reaching(r)'
    BY <2>1 DEF Reaching, SignInStep, At, Idle
  <2>3. ASSUME Promoting(r)'
        PROVE  req'[r].mail \in AdminEmails /\ ReachedAt(u, users[u].email) /\ req'[r].acct = u
    <3>1. Promotable(users[u])
      BY <2>1, <2>3 DEF Promoting, SignInStep, At, Idle
    <3>. QED
      BY <1>0, <2>1, <3>1 DEF Promotable, PromotionInv, Reached, Idle
  <2>4. \A q \in Requests : Promoting(q)' =>
           req'[q].mail \in AdminEmails /\ ReachedAt(req[q].acct, req[q].mail)'
    <3>1. req'[r].mail = users[u].email
      BY <2>1 DEF Idle
    <3>2. ASSUME NEW q \in Requests \ {r}, Promoting(q)'
          PROVE  req'[q].mail \in AdminEmails /\ ReachedAt(req[q].acct, req[q].mail)'
      BY <1>0, <2>1, <3>2 DEF PromotionInv, Promoting, At, ReachedAt
    <3>3. Promoting(r)' => req'[r].mail \in AdminEmails /\ ReachedAt(req[r].acct, req[r].mail)'
      BY <2>1, <2>3, <3>1 DEF ReachedAt
    <3>. QED
      BY <3>2, <3>3
  <2>5. \A q \in Requests : Reaching(q)' => Reached(req[q].acct)'
    BY <1>0, <2>1, <2>2 DEF PromotionInv, Reaching, At, Reached, ReachedAt
  <2>. QED
    BY <1>0, <2>1, <2>4, <2>5
    DEF PromotionInv, PromotedAddressWasProved, Reached, ReachedAt, Known
<1>3. ASSUME NEW r \in Requests, NEW u \in UserIds, NEW p \in Passwords \union {NoPassword},
             NEW role \in Roles, CreateUser(r, u, p, role)
      PROVE  PromotionInv'
  <2>1. /\ \A q \in Requests \ {r} : req'[q] = req[q]
        /\ UNCHANGED <<proved, given, promoted>>
        /\ ~Known(u)
        /\ \A v \in UserIds \ {u} : users'[v] = users[v]
        /\ ~users'[u].verified
    BY <1>0, <1>3 DEF CreateUser, Goes, Ends, TypeOK, historyVars
  <2>2. req'[r].step \in {"session", "mint", "done"}
    BY <1>0, <1>3 DEF CreateUser, Goes, Ends, Idle, TypeOK, Request
  <2>3. ~Reaching(r)' /\ ~Promoting(r)'
    BY <2>2 DEF Reaching, Promoting, At
  <2>4. \A q \in Requests : Reaching(q)' \/ Promoting(q)' => req[q].acct # u /\ req'[q] = req[q]
    BY <1>A, <2>1, <2>3 DEF Reaching, Promoting, At
  <2>5. \A q \in Requests : Reaching(q)' => Reached(req[q].acct)'
    BY <1>0, <1>A, <2>1, <2>3, <2>4 DEF PromotionInv, Reaching, At, Reached, ReachedAt
  <2>6. \A q \in Requests : Promoting(q)' =>
           req'[q].mail \in AdminEmails /\ ReachedAt(req[q].acct, req[q].mail)'
    BY <1>0, <2>1, <2>4 DEF PromotionInv, Promoting, At, ReachedAt
  <2>7. \A v \in UserIds : Known(v)' /\ users'[v].verified => Reached(v)'
    BY <1>0, <2>1 DEF PromotionInv, Known, Reached, ReachedAt
  <2>. QED
    BY <1>0, <2>1, <2>5, <2>6, <2>7 DEF PromotionInv, PromotedAddressWasProved
<1>4. ASSUME NEW r \in Requests, NEW u \in UserIds, FindByEmail(r, u)
      PROVE  PromotionInv'
  <2>1. /\ \A q \in Requests \ {r} : req'[q] = req[q]
        /\ UNCHANGED <<users, given, promoted>>
        /\ proved' = [proved EXCEPT ![u] = @ \union {req[r].mail}]
        /\ users[u].email = req[r].mail
        /\ req'[r].acct = u /\ req'[r].mail = req[r].mail
    BY <1>0, <1>4 DEF FindByEmail, TypeOK, Request, database
  <2>2. Reached(u)' /\ ReachedAt(u, req[r].mail)'
    BY <1>0, <2>1 DEF Reached, ReachedAt, TypeOK
  <2>3. \A e : \A v \in UserIds : ReachedAt(v, e) => ReachedAt(v, e)'
    BY <1>0, <2>1 DEF ReachedAt, TypeOK
  <2>4. Promoting(r)' => req[r].mail \in AdminEmails
    <3>1. CASE req[r].op = "magic"
      <4>1. /\ req'[r].step = "verify"
            /\ req'[r].then = SignInStep([users[u] EXCEPT !.verified = TRUE])
        BY <1>0, <1>4, <3>1 DEF FindByEmail, TypeOK, Request
      <4>. QED
        BY <1>0, <2>1, <4>1 DEF Promoting, At, SignInStep, Promotable, TypeOK, User
    <3>2. CASE req[r].op # "magic"
      <4>1. req'[r].step = "set"
        BY <1>0, <1>4, <3>2 DEF FindByEmail, TypeOK, Request
      <4>. QED
        BY <4>1 DEF Promoting, At
    <3>. QED
      BY <3>1, <3>2
  <2>5. \A q \in Requests : Reaching(q)' => Reached(req[q].acct)'
    BY <1>0, <1>A, <2>1, <2>2, <2>3 DEF PromotionInv, Reaching, At, Reached
  <2>6. \A q \in Requests : Promoting(q)' =>
           req'[q].mail \in AdminEmails /\ ReachedAt(req[q].acct, req[q].mail)'
    <3>1. \A q \in Requests \ {r} : Promoting(q)' =>
             Promoting(q) /\ ReachedAt(req[q].acct, req[q].mail)'
      BY <1>0, <1>A, <2>1, <2>3 DEF PromotionInv, Promoting, At
    <3>. QED
      BY <1>0, <2>1, <2>2, <2>4, <3>1 DEF PromotionInv, ReachedAt
  <2>7. PromotedAddressWasProved'
    BY <1>0, <2>1 DEF PromotionInv, PromotedAddressWasProved, TypeOK
  <2>. QED
    BY <1>0, <2>1, <2>3, <2>5, <2>6, <2>7 DEF PromotionInv, Known, Reached
<1>5. ASSUME NEW r \in Requests, PromoteAdmin(r)
      PROVE  PromotionInv'
  <2>1. /\ \A q \in Requests \ {r} : req'[q] = req[q]
        /\ UNCHANGED <<proved, given>>
        /\ promoted' = promoted \/ promoted' = promoted \union {<<req[r].acct, req[r].mail>>}
        /\ Promoting(r)
        /\ req'[r].step = "session"
    BY <1>0, <1>5 DEF PromoteAdmin, Promoting, Goes, TypeOK, Request
  <2>2. \A v \in UserIds : /\ Known(v)' => Known(v)
                           /\ users'[v].email = users[v].email
                           /\ users'[v].verified = users[v].verified
    BY <1>0, <1>5 DEF PromoteAdmin, Known, TypeOK, User
  <2>3. \A q \in Requests : Reaching(q)' \/ Promoting(q)' => q # r /\ req'[q] = req[q]
    BY <2>1 DEF Reaching, Promoting, At
  <2>4. \A q \in Requests : Reaching(q)' => Reached(req[q].acct)'
    BY <1>0, <1>A, <2>1, <2>2, <2>3 DEF PromotionInv, Reaching, At, Reached, ReachedAt
  <2>5. \A q \in Requests : Promoting(q)' =>
           req'[q].mail \in AdminEmails /\ ReachedAt(req[q].acct, req[q].mail)'
    BY <1>0, <2>1, <2>3 DEF PromotionInv, Promoting, At, ReachedAt
  <2>6. PromotedAddressWasProved'
    BY <1>0, <2>1 DEF PromotionInv, PromotedAddressWasProved, ReachedAt
  <2>. QED
    BY <1>0, <2>1, <2>2, <2>4, <2>5, <2>6 DEF PromotionInv, Reached, ReachedAt
<1>6. ASSUME NEW r \in Requests, MarkEmailVerified(r)
      PROVE  PromotionInv'
  <2>1. /\ \A q \in Requests \ {r} : req'[q] = req[q]
        /\ UNCHANGED <<proved, given, promoted>>
        /\ Reaching(r)
        /\ req'[r] = [req[r] EXCEPT !.step = req[r].then]
    BY <1>0, <1>6 DEF MarkEmailVerified, Reaching, Goes, TypeOK, historyVars
  <2>2. \A v \in UserIds : /\ Known(v)' => Known(v)
                           /\ users'[v].email = users[v].email
                           /\ users'[v].verified => users[v].verified \/ v = req[r].acct
    BY <1>0, <1>6 DEF MarkEmailVerified, Known, TypeOK, User
  <2>3. /\ At(r, "verify") /\ req[r].then \in {"promote", "session", "revoke"}
        /\ req'[r].step = req[r].then
        /\ req'[r].mail = req[r].mail /\ req'[r].acct = req[r].acct
    BY <1>0, <1>6, <2>1 DEF MarkEmailVerified, StepOK, At, TypeOK, Request
  <2>4. (Promoting(r)' => Promoting(r)) /\ ~Reaching(r)'
    BY <2>3 DEF Promoting, Reaching, At
  <2>5. ASSUME NEW q \in Requests, Reaching(q)'
        PROVE  Reached(req[q].acct)'
    <3>1. q # r /\ req'[q] = req[q] /\ Reaching(q)
      BY <2>1, <2>4, <2>5 DEF Reaching, At
    <3>2. PICK u \in UserIds : u = req[q].acct /\ Reached(u)
      BY <1>0, <1>A, <3>1 DEF PromotionInv
    <3>. QED
      BY <2>1, <2>2, <3>1, <3>2 DEF Reached, ReachedAt
  <2>6. \A q \in Requests : Promoting(q)' =>
           req'[q].mail \in AdminEmails /\ ReachedAt(req[q].acct, req[q].mail)'
    BY <1>0, <2>1, <2>3, <2>4 DEF PromotionInv, Promoting, At, ReachedAt
  <2>7. \A v \in UserIds : Known(v)' /\ users'[v].verified => Reached(v)'
    <3>1. PICK u \in UserIds : u = req[r].acct /\ Reached(u)
      BY <1>0, <1>A, <2>1 DEF PromotionInv
    <3>2. ASSUME NEW v \in UserIds, Known(v)', users'[v].verified
          PROVE  Reached(v)
      BY <1>0, <2>2, <3>1, <3>2 DEF PromotionInv
    <3>. QED
      BY <2>1, <2>2, <3>2 DEF Reached, ReachedAt
  <2>. QED
    BY <1>0, <2>1, <2>5, <2>6, <2>7 DEF PromotionInv, PromotedAddressWasProved
<1>7. ASSUME NEW r \in Requests, NEW p \in Passwords, SetPassword(r, p)
      PROVE  PromotionInv'
  <2>1. /\ \A q \in Requests \ {r} : req'[q] = req[q]
        /\ UNCHANGED <<proved, given, promoted>>
        /\ req'[r] = [req[r] EXCEPT !.step = IF req[r].op = "reset" THEN "verify" ELSE "revoke"]
        /\ At(r, "set")
    BY <1>0, <1>7 DEF SetPassword, Goes, TypeOK
  <2>2. \A v \in UserIds : /\ Known(v)' => Known(v)
                           /\ users'[v].email = users[v].email
                           /\ users'[v].verified = users[v].verified
    BY <1>0, <1>7 DEF SetPassword, Known, TypeOK, User
  <2>3. /\ Reaching(r)' => Reaching(r) /\ req'[r].acct = req[r].acct
        /\ ~Promoting(r)'
    BY <1>0, <2>1 DEF Reaching, Promoting, At, StepOK, TypeOK, Request
  <2>4. \A q \in Requests : Reaching(q)' => Reached(req[q].acct)'
    <3>1. \A q \in Requests : Reaching(q)' => Reaching(q) /\ req'[q].acct = req[q].acct
      BY <2>1, <2>3 DEF Reaching, At
    <3>. QED
      BY <1>0, <1>A, <2>1, <2>2, <3>1 DEF PromotionInv, Reached, ReachedAt
  <2>5. \A q \in Requests : Promoting(q)' =>
           req'[q].mail \in AdminEmails /\ ReachedAt(req[q].acct, req[q].mail)'
    BY <1>0, <2>1, <2>3 DEF PromotionInv, Promoting, At, ReachedAt
  <2>. QED
    BY <1>0, <2>1, <2>2, <2>4, <2>5
    DEF PromotionInv, PromotedAddressWasProved, Reached, ReachedAt
<1>8. ASSUME NEW r \in Requests, NEW e \in Emails, NEW role \in Roles, AdminUpdate(r, e, role)
      PROVE  PromotionInv'
  <2>0. PICK u \in UserIds : u = req[r].acct
    BY <1>0, <1>8 DEF AdminUpdate, StepOK, At, AccountSteps
  <2>1. /\ \A q \in Requests \ {r} : req'[q] = req[q]
        /\ UNCHANGED <<proved, promoted>>
        /\ given' = [given EXCEPT ![u] = @ \union {e}]
        /\ req'[r].step = "done"
    BY <1>0, <1>8, <2>0 DEF AdminUpdate, Ends, Idle, TypeOK
  <2>2. \A v \in UserIds : /\ Known(v)' => Known(v)
                           /\ users'[v].email = IF v = u THEN e ELSE users[v].email
                           /\ users'[v].verified = users[v].verified
    <3>1. users' = [users EXCEPT ![u] = [users[u] EXCEPT !.email = e, !.role = role]]
      BY <1>0, <1>8, <2>0 DEF AdminUpdate, TypeOK
    <3>2. users \in [UserIds -> User]
      BY <1>0 DEF TypeOK
    <3>. QED
      BY <3>1, <3>2 DEF Known, User
  <2>3. \A q \in Requests : Reaching(q)' \/ Promoting(q)' => q # r /\ req'[q] = req[q]
    BY <2>1 DEF Reaching, Promoting, At
  <2>4. \A v \in UserIds : Reached(v) => Reached(v)'
    <3>1. ASSUME NEW v \in UserIds, v # u, Reached(v)
          PROVE  Reached(v)'
      <4>1. given'[v] = given[v] /\ proved'[v] = proved[v] /\ users'[v].email = users[v].email
        BY <1>0, <2>1, <2>2, <3>1 DEF TypeOK
      <4>. QED
        BY <3>1, <4>1 DEF Reached, ReachedAt
    <3>2. Reached(u) => Reached(u)'
      BY <1>0, <2>1, <2>2 DEF Reached, ReachedAt, TypeOK
    <3>. QED
      BY <3>1, <3>2
  <2>5. \A a : \A v \in UserIds : ReachedAt(v, a) => ReachedAt(v, a)'
    BY <1>0, <2>1 DEF ReachedAt, TypeOK
  <2>6. \A q \in Requests : Reaching(q)' => Reached(req[q].acct)'
    BY <1>0, <1>A, <2>3, <2>4 DEF PromotionInv, Reaching, At, Reached
  <2>7. \A q \in Requests : Promoting(q)' =>
           req'[q].mail \in AdminEmails /\ ReachedAt(req[q].acct, req[q].mail)'
    <3>1. \A q \in Requests : Promoting(q)' => Promoting(q) /\ ReachedAt(req[q].acct, req[q].mail)'
      BY <1>0, <1>A, <2>3, <2>5 DEF PromotionInv, Promoting, At
    <3>. QED
      BY <1>0, <2>3, <3>1 DEF PromotionInv, ReachedAt
  <2>8. PromotedAddressWasProved'
    BY <1>0, <2>1 DEF PromotionInv, PromotedAddressWasProved, TypeOK
  <2>. QED
    <3>1. \A v \in UserIds : Known(v)' /\ users'[v].verified => Reached(v)'
      BY <1>0, <2>2, <2>4 DEF PromotionInv
    <3>. QED
      BY <2>6, <2>7, <2>8, <3>1 DEF PromotionInv
<1>. QED
  BY <1>0, <1>1, <1>2, <1>3, <1>4, <1>5, <1>6, <1>7, <1>8, SettledSteps

\* An account is promoted at sign-in only under an address proved or given.
THEOREM PromotionsAreProved == Spec => []PromotedAddressWasProved
  <1>1. Init => PromotionInv
    BY DEF Init, Unasked, Idle, User, PromotionInv, PromotedAddressWasProved, Reaching,
       Promoting, Reached, ReachedAt, At
  <1>2. AccountInv /\ PromotionInv /\ [Next]_accountVars => PromotionInv'
    BY PromotionStep DEF AccountInv
  <1>3. PromotionInv => PromotedAddressWasProved
    BY DEF PromotionInv
  <1>. QED
    BY <1>1, <1>2, <1>3, AccountInvariant, PTL DEF Spec

=============================================================================
