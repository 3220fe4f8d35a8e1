-------------------------------- MODULE Accounts --------------------------------
(***************************************************************************)
(* Accounts, the links that are mailed and the sessions that are opened    *)
(* (service/auth_service.go, service/admin_service.go, store/users.go,     *)
(* store/tokens.go, store/sessions.go, auth/middleware.go).                *)
(*                                                                         *)
(* A request is a sequence of statements on the database, none of them in  *)
(* a transaction with another, so every statement is a step.  A statement  *)
(* may fail, and the server may stop, between any two of them.  Sign-up is *)
(* enabled, and LIMITED accounts count as USER: the role matters here only *)
(* for who is an administrator.                                            *)
(***************************************************************************)
EXTENDS Naturals

CONSTANTS
    Requests,     \* requests, each served once
    UserIds,      \* ids of accounts
    Emails,       \* addresses
    AdminEmails,  \* the ADMIN_EMAILS among them
    Passwords,
    NoPassword,   \* the password of an account that has none
    Links,        \* the random tokens of links
    Before,       \* opened the sessions of the initial state
    None          \* nothing of its kind

ASSUME AccountsAssumption ==
    /\ AdminEmails \subseteq Emails
    /\ NoPassword \notin Passwords
    /\ Before \notin Requests
    /\ None \notin UserIds \union Links

VARIABLES
    users,     \* users: id -> row
    links,     \* verification_tokens: token -> row
    sessions,  \* sessions
    req,       \* what each request is doing
    epoch,     \* history: how often the password of an account was set
    change,    \* history: the password a request has set
    served,    \* history: the requests a link let through
    unspent,   \* history: links whose deletion failed
    proved,    \* history: the addresses an account was reached at
    given,     \* history: the addresses an administrator gave an account
    promoted   \* history: accounts promoted, with their address

database == <<users, links, sessions>>
historyVars == <<epoch, change, served, unspent, proved, given, promoted>>
accountVars == <<database, req, historyVars>>

-----------------------------------------------------------------------------
(* Rows and requests.                                                      *)

Roles == {"USER", "ADMIN"}
Purposes == {"magic", "reset"}

User == [exists: BOOLEAN, email: Emails, verified: BOOLEAN, role: Roles,
         password: Passwords \union {NoPassword}, active: BOOLEAN]

Link == [state: {"none", "valid", "expired", "gone"}, email: Emails, purpose: Purposes]

\* by: the request that opened it; epoch: the one its account was read in.
Session == [by: Requests \union {Before}, user: UserIds, epoch: Nat]

Known(u) == users[u].exists
Taken(e) == \E u \in UserIds : Known(u) /\ users[u].email = e

\* acct, since: the account a request works on and the epoch it read it in;
\* then: the step that follows from what it read; mail, link: what it was given;
\* rivals: the requests that had found the link before and not deleted it yet.
Idle == [op |-> "none", step |-> "idle", acct |-> None, since |-> 0, then |-> "none",
         mail |-> None, link |-> None, rivals |-> {}]

At(r, step) == req[r].step = step
Goes(r, step) == req' = [req EXCEPT ![r].step = step]
Ends(r, how) == req' = [req EXCEPT ![r] = [Idle EXCEPT !.step = how]]
Begins(r, op, step, mail, acct) ==
    /\ At(r, "idle")
    /\ req' = [req EXCEPT ![r] = [Idle EXCEPT !.op = op, !.step = step,
                                              !.mail = mail, !.acct = acct]]

\* Mutant: an address is taken for its owner's without a proof.
PromotableUnverified(row) == row.role # "ADMIN" /\ row.email \in AdminEmails

\* promoteAdminIfNeeded: it never demotes.
Promotable(row) == row.role # "ADMIN" /\ row.verified /\ row.email \in AdminEmails

SignInStep(row) == IF Promotable(row) THEN "promote" ELSE "session"

\* The requests on their way to a session of u.
SigningIn(u) ==
    {r \in Requests : /\ req[r].acct = u
                      /\ \/ req[r].step \in {"promote", "session"}
                         \/ At(r, "verify") /\ req[r].op = "magic"}

-----------------------------------------------------------------------------
(* Signing in.                                                             *)

\* One statement reads the row; the comparison of the hashes follows.
LoginPassword(r, u, p) ==
    /\ Known(u) /\ users[u].active
    /\ users[u].password = p
    /\ At(r, "idle")
    /\ req' = [req EXCEPT ![r] = [Idle EXCEPT !.op = "login", !.step = SignInStep(users[u]),
                                   !.acct = u, !.since = epoch[u], !.mail = users[u].email]]
    /\ UNCHANGED <<database, historyVars>>

\* A failure to promote is ignored.
PromoteAdmin(r) ==
    /\ At(r, "promote")
    /\ \/ /\ users' = [users EXCEPT ![req[r].acct].role = "ADMIN"]
          /\ promoted' = promoted \union {<<req[r].acct, req[r].mail>>}
       \/ UNCHANGED <<users, promoted>>
    /\ Goes(r, "session")
    /\ UNCHANGED <<links, sessions, epoch, change, served, unspent, proved, given>>

SetSession(r) ==
    /\ At(r, "session")
    /\ sessions' = sessions \union {[by |-> r, user |-> req[r].acct, epoch |-> req[r].since]}
    /\ Ends(r, "done")
    /\ UNCHANGED <<users, links, historyVars>>

-----------------------------------------------------------------------------
(* New accounts and links.                                                 *)

\* Register, AdminCreateUser and RequestMagicLink look whether the address has
\* an account, and create it with another statement.
Register(r, e) ==
    /\ ~Taken(e)
    /\ Begins(r, "register", "create", e, None)
    /\ UNCHANGED <<database, historyVars>>

RequestMagicLink(r, e) ==
    /\ Begins(r, "magic", IF Taken(e) THEN "mint" ELSE "create", e, None)
    /\ UNCHANGED <<database, historyVars>>

ForgotPassword(r, e) ==
    /\ Taken(e)
    /\ Begins(r, "reset", "mint", e, None)
    /\ UNCHANGED <<database, historyVars>>

\* The column is UNIQUE: the second of two requests fails.
CreateUser(r, u, p, role) ==
    /\ At(r, "create")
    /\ ~Known(u) /\ ~Taken(req[r].mail)
    /\ req[r].op = "register" => p # NoPassword
    /\ req[r].op = "magic" => p = NoPassword
    /\ req[r].op # "new" => role = "USER"
    /\ users' = [users EXCEPT ![u] =
                   [exists |-> TRUE, email |-> req[r].mail, verified |-> FALSE,
                    role |-> role, password |-> p, active |-> TRUE]]
    /\ CASE req[r].op = "register" ->
              req' = [req EXCEPT ![r].step = "session", ![r].acct = u, ![r].since = epoch[u]]
         [] req[r].op = "magic" -> Goes(r, "mint")
         [] OTHER -> Ends(r, "done")
    /\ UNCHANGED <<links, sessions, historyVars>>

CreateVerificationToken(r, l) ==
    /\ At(r, "mint")
    /\ links[l].state = "none"
    /\ links' = [links EXCEPT ![l] = [state |-> "valid", email |-> req[r].mail,
                                      purpose |-> req[r].op]]
    /\ Ends(r, "done")
    /\ UNCHANGED <<users, sessions, historyVars>>

-----------------------------------------------------------------------------
(* A link is found by one statement and deleted by another, whether or not *)
(* it has expired, and then leads to the account that has its address now. *)

FindToken(r, l) ==
    /\ At(r, "idle")
    /\ links[l].state \in {"valid", "expired"}
    /\ req' = [req EXCEPT ![r] =
                 [Idle EXCEPT !.op = links[l].purpose, !.link = l, !.mail = links[l].email,
                              !.step = IF links[l].state = "valid" THEN "spend" ELSE "discard",
                              !.rivals = {q \in Requests : At(q, "spend") /\ req[q].link = l}]]
    /\ UNCHANGED <<database, historyVars>>

\* Mutant: the link stays.
SpendsNothing(l) == UNCHANGED <<links, unspent>>

\* The code ignores a failure of the deletion.
Spends(l) ==
    \/ links' = [links EXCEPT ![l].state = "gone"] /\ UNCHANGED unspent
    \/ unspent' = unspent \union {l} /\ UNCHANGED links

SpendToken(r) ==
    /\ At(r, "spend")
    /\ Spends(req[r].link)
    /\ req' = [req EXCEPT ![r].step = "find", ![r].link = None, ![r].rivals = {}]
    /\ served' = served \union {[by |-> r, link |-> req[r].link, rivals |-> req[r].rivals]}
    /\ UNCHANGED <<users, sessions, epoch, change, proved, given, promoted>>

DiscardToken(r) ==
    /\ At(r, "discard")
    /\ Spends(req[r].link)
    /\ Ends(r, "refused")
    /\ UNCHANGED <<users, sessions, epoch, change, served, proved, given, promoted>>

\* A reset does not ask whether the account is active.
FindByEmail(r, u) ==
    /\ At(r, "find")
    /\ Known(u) /\ users[u].email = req[r].mail
    /\ req[r].op = "magic" => users[u].active
    /\ req' = [req EXCEPT ![r].acct = u, ![r].since = epoch[u],
                 ![r].step = IF req[r].op = "magic" THEN "verify" ELSE "set",
                 ![r].then = IF req[r].op = "magic"
                               THEN SignInStep([users[u] EXCEPT !.verified = TRUE])
                               ELSE "revoke"]
    /\ proved' = [proved EXCEPT ![u] = @ \union {req[r].mail}]
    /\ UNCHANGED <<database, epoch, change, served, unspent, given, promoted>>

\* A failure to mark it is ignored.
MarkEmailVerified(r) ==
    /\ At(r, "verify")
    /\ \/ users' = [users EXCEPT ![req[r].acct].verified = TRUE]
       \/ UNCHANGED users
    /\ Goes(r, req[r].then)
    /\ UNCHANGED <<links, sessions, historyVars>>

-----------------------------------------------------------------------------
(* Passwords.                                                              *)

\* Authenticate reads the session and its account; an administrator's request
\* is about any account u, another's about its own.
Authenticate(r, s, op, u) ==
    /\ s \in sessions
    /\ users[s.user].active
    /\ op # "change" => users[s.user].role = "ADMIN" /\ Known(u)
    /\ op \in {"change", "new"} => u = s.user
    /\ Begins(r, op, CASE op = "change" -> "current"
                       [] op = "password" -> "set"
                       [] OTHER -> op,
              None, u)
    /\ UNCHANGED <<database, historyVars>>

\* An account without a password is not asked for the current one.
VerifyCurrent(r, p) ==
    /\ At(r, "current")
    /\ users[req[r].acct].password \in {p, NoPassword}
    /\ Goes(r, "set")
    /\ UNCHANGED <<database, historyVars>>

\* Mutant: only a reset revokes the sessions.
SetPasswordOnly(r, p) ==
    LET u == req[r].acct IN
    /\ At(r, "set")
    /\ users' = [users EXCEPT ![u].password = p]
    /\ IF req[r].op = "reset" THEN Goes(r, "verify") ELSE Ends(r, "done")
    /\ epoch' = [epoch EXCEPT ![u] = @ + 1]
    /\ change' = [change EXCEPT ![r] = [set |-> TRUE, acct |-> u, epoch |-> epoch[u] + 1,
                                       overlapped |-> SigningIn(u)]]
    /\ UNCHANGED <<links, sessions, served, unspent, proved, given, promoted>>

SetPassword(r, p) ==
    LET u == req[r].acct IN
    /\ At(r, "set")
    /\ users' = [users EXCEPT ![u].password = p]
    /\ Goes(r, IF req[r].op = "reset" THEN "verify" ELSE "revoke")
    /\ epoch' = [epoch EXCEPT ![u] = @ + 1]
    /\ change' = [change EXCEPT ![r] = [set |-> TRUE, acct |-> u, epoch |-> epoch[u] + 1,
                                       overlapped |-> SigningIn(u)]]
    /\ UNCHANGED <<links, sessions, served, unspent, proved, given, promoted>>

\* The handler of a change then ends the request's own session: one of these.
DeleteUserSessions(r) ==
    /\ At(r, "revoke")
    /\ sessions' = {s \in sessions : s.user # req[r].acct}
    /\ Ends(r, "done")
    /\ UNCHANGED <<users, links, historyVars>>

-----------------------------------------------------------------------------
(* Administration.                                                         *)

\* The form sends the address and the role of the page the administrator saw;
\* those that the handler keeps from its read are among the choices here.
AdminUpdate(r, e, role) ==
    LET u == req[r].acct IN
    /\ At(r, "update")
    /\ \A v \in UserIds \ {u} : Known(v) => users[v].email # e
    /\ users' = [users EXCEPT ![u].email = e, ![u].role = role]
    /\ given' = [given EXCEPT ![u] = @ \union {e}]
    /\ Ends(r, "done")
    /\ UNCHANGED <<links, sessions, epoch, change, served, unspent, proved, promoted>>

\* Reads whether the account is active, then sets the opposite.
AdminToggle(r) ==
    LET u == req[r].acct IN
    /\ \/ /\ At(r, "toggle")
          /\ Goes(r, IF users[u].active THEN "deactivate" ELSE "activate")
          /\ UNCHANGED users
       \/ /\ req[r].step \in {"deactivate", "activate"}
          /\ users' = [users EXCEPT ![u].active = At(r, "activate")]
          /\ Ends(r, "done")
    /\ UNCHANGED <<links, sessions, historyVars>>

AdminCreateUser(r, e) ==
    /\ At(r, "new")
    /\ ~Taken(e)
    /\ req' = [req EXCEPT ![r].mail = e, ![r].step = "create"]
    /\ UNCHANGED <<database, historyVars>>

\* The administrator is shown a link for the address the row had when read.
AdminMagicLink(r) ==
    /\ At(r, "link")
    /\ req' = [req EXCEPT ![r].op = "magic", ![r].step = "mint", ![r].acct = None,
                          ![r].mail = users[req[r].acct].email]
    /\ UNCHANGED <<database, historyVars>>

-----------------------------------------------------------------------------
(* What happens meanwhile.                                                 *)

\* A failing statement or the end of the server ends the request.
Fails(r) ==
    /\ req[r].step \notin {"idle", "done", "refused"}
    /\ Ends(r, "refused")
    /\ UNCHANGED <<database, historyVars>>

\* ClearSession, or the end of its time, which whoever reads it acts on.
EndSession(s) ==
    /\ s \in sessions
    /\ sessions' = sessions \ {s}
    /\ UNCHANGED <<users, links, req, historyVars>>

Expire(l) ==
    /\ links[l].state = "valid"
    /\ links' = [links EXCEPT ![l].state = "expired"]
    /\ UNCHANGED <<users, sessions, req, historyVars>>

DeleteExpiredTokens ==
    /\ \E l \in Links : links[l].state = "expired"
    /\ links' = [l \in Links |-> IF links[l].state = "expired"
                                 THEN [links[l] EXCEPT !.state = "gone"] ELSE links[l]]
    /\ UNCHANGED <<users, sessions, req, historyVars>>

Serve(r) ==
    \/ \E u \in UserIds, p \in Passwords : LoginPassword(r, u, p)
    \/ PromoteAdmin(r) \/ SetSession(r)
    \/ \E e \in Emails : Register(r, e) \/ RequestMagicLink(r, e) \/ ForgotPassword(r, e)
    \/ \E u \in UserIds, p \in Passwords \union {NoPassword}, role \in Roles :
           CreateUser(r, u, p, role)
    \/ \E l \in Links : CreateVerificationToken(r, l) \/ FindToken(r, l)
    \/ SpendToken(r) \/ DiscardToken(r)
    \/ \E u \in UserIds : FindByEmail(r, u)
    \/ MarkEmailVerified(r)
    \/ \E s \in sessions, op \in {"change", "password", "update", "toggle", "new", "link"},
          u \in UserIds : Authenticate(r, s, op, u)
    \/ \E p \in Passwords : VerifyCurrent(r, p) \/ SetPassword(r, p)
    \/ DeleteUserSessions(r)
    \/ \E e \in Emails, role \in Roles : AdminUpdate(r, e, role)
    \/ AdminToggle(r) \/ AdminMagicLink(r)
    \/ \E e \in Emails : AdminCreateUser(r, e)
    \/ Fails(r)

Next ==
    \/ \E r \in Requests : Serve(r)
    \/ \E s \in sessions : EndSession(s)
    \/ \E l \in Links : Expire(l)
    \/ DeleteExpiredTokens

Unasked ==
    /\ req = [r \in Requests |-> Idle]
    /\ epoch = [u \in UserIds |-> 0]
    /\ change = [r \in Requests |-> [set |-> FALSE, acct |-> None, epoch |-> 0, overlapped |-> {}]]
    /\ served = {} /\ unspent = {} /\ promoted = {}
    /\ proved = [u \in UserIds |-> IF users[u].verified THEN {users[u].email} ELSE {}]
    /\ given = [u \in UserIds |-> {}]

Init ==
    /\ users \in [UserIds -> User]
    /\ \A u, v \in UserIds : Known(u) /\ Known(v) /\ u # v => users[u].email # users[v].email
    /\ links \in [Links -> Link]
    /\ sessions \in SUBSET {s \in Session : s.by = Before /\ s.epoch = 0 /\ Known(s.user)}
    /\ Unasked

Spec == Init /\ [][Next]_accountVars

-----------------------------------------------------------------------------
(* Properties.                                                             *)

\* Once a change or a reset of a password is reported, no session of that
\* account is left that was opened before the password was set, and the only
\* sessions still to come from the account as it was then are those of requests
\* that had read it by that moment.  SetPassword and DeleteUserSessions are two
\* statements with other requests between them (auth_service.go:178).
ChangeEndsSessions ==
    \A r \in Requests : At(r, "done") /\ change[r].set =>
        \A s \in sessions : s.user = change[r].acct /\ s.epoch < change[r].epoch =>
            s.by \in change[r].overlapped

\* A link lets two requests through only if its deletion failed or the second
\* had found it before the first deleted it: UseVerificationToken selects it by
\* one statement and deletes it by another (tokens.go:23).
LinkServesOnce ==
    \A p, q \in served :
        p.link = q.link /\ p.by # q.by /\ p.link \notin unspent =>
            p.by \in q.rivals \/ q.by \in p.rivals

\* An account is promoted at sign-in only under an address it was reached at, or
\* under one that an administrator gave an account reached at another: the mark
\* is the account's, and changing the address keeps it (auth_service.go:230).
PromotedAddressWasProved ==
    \A p \in promoted : p[2] \in AdminEmails /\ proved[p[1]] # {} /\
                        p[2] \in proved[p[1]] \union given[p[1]]

=============================================================================
