-------------------------------- MODULE Editing --------------------------------
(***************************************************************************)
(* Recording, editing and deleting expenses: the handlers of               *)
(* src/internal/httpapp/handlers_expenses.go and handlers_convert.go with  *)
(* the service calls they make (src/internal/service/expense_service.go).  *)
(*                                                                         *)
(* A session is one browser tab of one user.  It loads a page, the page    *)
(* carries the row's version, and a later request posts that version back; *)
(* any number of other requests run in between.  A request itself is       *)
(* several statements: it reads the row and decides, then writes.  The     *)
(* statement after a saved split, which records the typed-in inputs, is in *)
(* module Notices.                                                         *)
(*                                                                         *)
(* Ids are the rows under study, a window on the table.  The netting pass   *)
(* that may follow a settlement writes rows of its own and touches no row   *)
(* there is; what it writes is the subject of another module, so here a     *)
(* pass shows as the one row of it that falls in the window.  Who belongs   *)
(* to which group, who is related to whom and who is an admin are fixed.    *)
(***************************************************************************)
EXTENDS ExpenseStore

CONSTANTS
    Sessions,    \* browser tabs
    Actor,       \* the user signed in to each session
    Admins,      \* users with the ADMIN role
    Members,     \* group_users: the members of each group
    Related,     \* pairs of users Store.AreRelated accepts
    Drafts,      \* the splits a form may post (bounds the amounts)
    NoDraft,     \* a posted form that parses to no split
    MaxVersion   \* bounds the writes one row sees

ASSUME EditingAssumption ==
    /\ Actor \in [Sessions -> Users]
    /\ Admins \subseteq Users
    /\ Members \in [Groups -> SUBSET Users]
    /\ \A d \in Drafts : d \in Draft
    /\ MaxVersion \in Nat

VARIABLES
    at,        \* what each session waits for
    target,    \* the row its page or request is about
    token,     \* the version its page carries
    base,      \* that row as the server read it when it issued the token
    informed,  \* the user was shown that row, or warned that it had changed
    intent     \* the kind and split its request is about to write

sessionVars == <<at, target, token, base, informed, intent>>
vars == <<storeVars, sessionVars>>

Places == {"idle", "form", "save", "detail", "delete"}

Snapshot(id) == [status |-> status[id], body |-> body[id]]

NoSnapshot == [status |-> "unborn", body |-> NoBody]

Intent(kind, d) == [kind |-> kind, draft |-> d]

NoIntent == Intent("SPLIT", NoDraft)

-------------------------------------------------------------------------------
(* Who may do what.                                                        *)

Immutable(b) == b.kind = "NETTING"

IsConversion(b) == b.kind = "CURRENCY_CONVERSION" \/ b.link # NoId

\* Rows that can be edited; a deletion needs CanEditExpense alone.
Movable(id) ==
    /\ status[id] = "live"
    /\ ~IsConversion(body[id])
    /\ body[id].kind # "ARCHIVE"
    /\ ~Immutable(body[id])

IsTransactionMember(u, b) == u \in Parties(b)

CanEditExpense(u, b) ==
    /\ ~Immutable(b)
    /\ IsTransactionMember(u, b) \/ u \in Admins

CanViewExpense(u, b) ==
    \/ IsTransactionMember(u, b)
    \/ b.draft.group # NoGroup /\ u \in Members[b.draft.group]
    \/ u \in Admins

People(d) == {d.payer} \cup d.people

assertRelated(owner, people) == \A v \in people \ {owner} : <<owner, v>> \in Related

assertGroupMembers(g, people) == people \subseteq Members[g]

\* What AddExpense demands of a posted split.
MayAdd(u, d) ==
    IF d.group = NoGroup THEN assertRelated(u, People(d))
                         ELSE assertGroupMembers(d.group, People(d) \cup {u})

\* What MoveExpense demands: an admin stands behind the payer, outside a group
\* only when no party to the row.
MayMove(u, b, d) ==
    IF d.group = NoGroup
    THEN assertRelated(IF IsTransactionMember(u, b) THEN u ELSE d.payer, People(d))
    ELSE assertGroupMembers(d.group, People(d) \cup (IF u \in Admins THEN {} ELSE {u}))

\* The two rows of a payment: the payer gains what exactly one other loses.
IsTransfer(d) ==
    \E other \in Users \ {d.payer} :
        /\ d.people = {d.payer, other}
        /\ d.shares[d.payer] > 0
        /\ d.shares[other] = - d.shares[d.payer]

\* UpdateSettlement keeps the pair, the direction and the currency; outside a
\* group it checks nobody.
MayRewriteSettlement(u, b, d) ==
    /\ IsTransfer(d)
    /\ d.payer = b.draft.payer
    /\ d.people = b.draft.people
    /\ d.cur = b.draft.cur
    /\ d.group # NoGroup =>
         assertGroupMembers(d.group, People(d) \cup (IF u \in Admins THEN {} ELSE {u}))

\* Whether the service goes on to write posted split d over the row.
Accepts(u, id, d, acknowledged) ==
    LET b == body[id]
    IN  /\ d # NoDraft
        /\ Movable(id)
        /\ d.group = b.draft.group \/ acknowledged
        /\ IF b.kind = "SETTLEMENT" THEN MayRewriteSettlement(u, b, d)
                                    ELSE MayMove(u, b, d)

-------------------------------------------------------------------------------
Init ==
    /\ EmptyStore
    /\ at = [p \in Sessions |-> "idle"]
    /\ target = [p \in Sessions |-> NoId]
    /\ token = [p \in Sessions |-> 0]
    /\ base = [p \in Sessions |-> NoSnapshot]
    /\ informed = [p \in Sessions |-> FALSE]
    /\ intent = [p \in Sessions |-> NoIntent]

\* The session is given a page, or re-given one, about row id as it is now.
Issue(p, page, id, told) ==
    /\ at' = [at EXCEPT ![p] = page]
    /\ target' = [target EXCEPT ![p] = id]
    /\ token' = [token EXCEPT ![p] = version[id]]
    /\ base' = [base EXCEPT ![p] = Snapshot(id)]
    /\ informed' = [informed EXCEPT ![p] = told]
    /\ intent' = [intent EXCEPT ![p] = NoIntent]

Leave(p) ==
    /\ at' = [at EXCEPT ![p] = "idle"]
    /\ target' = [target EXCEPT ![p] = NoId]
    /\ token' = [token EXCEPT ![p] = 0]
    /\ base' = [base EXCEPT ![p] = NoSnapshot]
    /\ informed' = [informed EXCEPT ![p] = FALSE]
    /\ intent' = [intent EXCEPT ![p] = NoIntent]

\* The request goes on to the statement that writes, with the page's token.
Proceed(p, step, what) ==
    /\ at' = [at EXCEPT ![p] = step]
    /\ intent' = [intent EXCEPT ![p] = what]
    /\ UNCHANGED <<target, token, base, informed>>

-------------------------------------------------------------------------------
(* Recording.                                                              *)

\* handleExpenseCreate and AddExpense.
AddExpense(p, id, d) ==
    /\ at[p] = "idle"
    /\ MayAdd(Actor[p], d)
    /\ InsertExpenses({id}, [n \in {id} |-> Row("SPLIT", Actor[p], NoId, d)])
    /\ UNCHANGED sessionVars

\* A friend payment needs related people; a group payment is between members,
\* and a member settling the whole group records it between two others.
\* settleDirection reads the balance without the payment's transaction, so
\* either direction can be recorded.
Settle(p, id, d) ==
    /\ at[p] = "idle"
    /\ IsTransfer(d)
    /\ IF d.group = NoGroup
       THEN Actor[p] \in People(d) /\ assertRelated(Actor[p], People(d))
       ELSE assertGroupMembers(d.group, People(d) \cup {Actor[p]})
    /\ InsertExpenses({id}, [n \in {id} |-> Row("SETTLEMENT", Actor[p], NoId, d)])
    /\ UNCHANGED sessionVars

\* handleConvert: the from-leg points at the to-leg, whose payer is the other
\* of the two people.
CreateConversionPair(p, fromId, toId, from, to) ==
    /\ at[p] = "idle"
    /\ fromId # toId
    /\ from.group = NoGroup /\ to.group = NoGroup
    /\ IsTransfer(from) /\ IsTransfer(to)
    /\ from.people = to.people /\ from.payer # to.payer
    /\ from.cur # to.cur
    /\ Actor[p] \in from.people
    /\ assertRelated(Actor[p], from.people)
    /\ InsertExpenses({fromId, toId},
           [n \in {fromId, toId} |->
               IF n = fromId THEN Row("CURRENCY_CONVERSION", Actor[p], toId, from)
                             ELSE Row("CURRENCY_CONVERSION", Actor[p], NoId, to)])
    /\ UNCHANGED sessionVars

\* ReplanGroup after a settlement or a tidy-up, by a member of the group, or by
\* an admin who edited one of its settlements.
RecordNetting(p, id, d) ==
    /\ at[p] = "idle"
    /\ d.group # NoGroup
    /\ IsTransfer(d)
    /\ assertGroupMembers(d.group, People(d) \cup ({Actor[p]} \ Admins))
    /\ InsertExpenses({id}, [n \in {id} |-> Row("NETTING", Actor[p], NoId, d)])
    /\ UNCHANGED sessionVars

-------------------------------------------------------------------------------
(* Editing.                                                                *)

\* handleExpenseMovePage
OpenForm(p, id) ==
    /\ at[p] = "idle"
    /\ Present(id)
    /\ CanEditExpense(Actor[p], body[id])
    /\ Movable(id)
    /\ Issue(p, "form", id, TRUE)
    /\ UNCHANGED storeVars

\* Mutant: the settlement branch of the handler forgotten.
PostEditAsSplit(p, d, acknowledged) ==
    LET id == target[p]
        u  == Actor[p]
    IN  /\ at[p] = "form"
        /\ IF ~Present(id) \/ ~CanEditExpense(u, body[id]) THEN Leave(p)
           ELSE IF Accepts(u, id, d, acknowledged)
           THEN Proceed(p, "save", Intent("SPLIT", d))
           ELSE Issue(p, "form", id, informed[p] /\ token[p] = version[id])
        /\ UNCHANGED storeVars

\* handleExpenseMove and MoveExpense or UpdateSettlement up to the statement
\* that writes.  The handler and the service each read the row and repeat the
\* checks; the two reads are one here.  A refusal renders the form again with what the user typed and
\* the version of the row as this request read it.
PostEdit(p, d, acknowledged) ==
    LET id == target[p]
        u  == Actor[p]
    IN  /\ at[p] = "form"
        /\ IF ~Present(id) \/ ~CanEditExpense(u, body[id]) THEN Leave(p)
           ELSE IF Accepts(u, id, d, acknowledged)
           THEN Proceed(p, "save",
                    Intent(IF body[id].kind = "SETTLEMENT" THEN "SETTLEMENT" ELSE "SPLIT", d))
           ELSE Issue(p, "form", id, informed[p] /\ token[p] = version[id])
        /\ UNCHANGED storeVars

\* The UPDATE conditional on the version.  When it matches nothing the form
\* comes back with the row's current version and a conflict warning; a row gone
\* by then leaves a form every later post of which is answered "not found".
CommitEdit(p) ==
    LET id == target[p]
    IN  /\ at[p] = "save"
        /\ IF UpdateMatches(id, token[p])
           THEN /\ version[id] < MaxVersion
                /\ UpdateExpense(id, token[p], intent[p].kind, intent[p].draft)
                /\ Leave(p)
           ELSE /\ IF Present(id) THEN Issue(p, "form", id, TRUE) ELSE Leave(p)
                /\ UNCHANGED storeVars

-------------------------------------------------------------------------------
(* Deleting.                                                               *)

\* handleExpenseDetail; the page has a delete button for who may delete.
OpenDetail(p, id) ==
    /\ at[p] = "idle"
    /\ status[id] = "live"
    /\ CanViewExpense(Actor[p], body[id])
    /\ CanEditExpense(Actor[p], body[id])
    /\ Issue(p, "detail", id, TRUE)
    /\ UNCHANGED storeVars

\* handleExpenseDelete and DeleteExpense up to the statement that writes.
PostDelete(p) ==
    LET id == target[p]
    IN  /\ at[p] = "detail"
        /\ IF Present(id) /\ CanEditExpense(Actor[p], body[id])
           THEN Proceed(p, "delete", NoIntent)
           ELSE Leave(p)
        /\ UNCHANGED storeVars

\* A leg of a conversion takes the other with it; a stale version is refused.
CommitDelete(p) ==
    LET id == target[p]
    IN  /\ at[p] = "delete"
        /\ IF SoftDeleteMatches(id, token[p])
           THEN /\ version[id] < MaxVersion
                /\ IF IsConversion(body[id]) THEN SoftDeleteConversion(id, token[p])
                                             ELSE SoftDeleteExpense(id, token[p])
           ELSE UNCHANGED storeVars
        /\ Leave(p)

\* A tab is closed, or a request fails before its write.
Abandon(p) ==
    /\ at[p] # "idle"
    /\ Leave(p)
    /\ UNCHANGED storeVars

-------------------------------------------------------------------------------
\* The steps that save no split.
OtherStep(p) ==
    \/ \E id \in Ids, d \in Drafts : Settle(p, id, d) \/ RecordNetting(p, id, d)
    \/ \E fromId, toId \in Ids, from, to \in Drafts :
           CreateConversionPair(p, fromId, toId, from, to)
    \/ \E id \in Ids : OpenForm(p, id) \/ OpenDetail(p, id)
    \/ \E d \in Drafts \cup {NoDraft}, acknowledged \in BOOLEAN :
           PostEdit(p, d, acknowledged)
    \/ PostDelete(p)
    \/ CommitDelete(p)
    \/ Abandon(p)

SessionStep(p) ==
    \/ \E id \in Ids, d \in Drafts : AddExpense(p, id, d)
    \/ CommitEdit(p)
    \/ OtherStep(p)

Next == \E p \in Sessions : SessionStep(p)

Spec == Init /\ [][Next]_vars

-------------------------------------------------------------------------------
(* Properties.                                                             *)

\* Every variable keeps its type; a row has contents once it exists.
TypeOK ==
    /\ status \in [Ids -> {"unborn", "live", "deleted", "archived"}]
    /\ version \in [Ids -> Nat]
    /\ body \in [Ids -> Body \cup {NoBody}]
    /\ \A id \in Ids : status[id] = "unborn" <=> body[id] = NoBody
    /\ into \in [Ids -> Ids \cup {NoId}]
    /\ at \in [Sessions -> Places]
    /\ target \in [Sessions -> Ids \cup {NoId}]
    /\ \A p \in Sessions : at[p] # "idle" => target[p] \in Ids
    /\ token \in [Sessions -> Nat]
    /\ base \in [Sessions -> [status : {"unborn", "live", "deleted"},
                              body : Body \cup {NoBody}]]
    /\ informed \in [Sessions -> BOOLEAN]
    /\ intent \in [Sessions -> [kind : Kinds, draft : Drafts \cup {NoDraft}]]
    /\ \A p \in Sessions : at[p] = "save" => intent[p].draft \in Drafts

Holding(p) == at[p] # "idle"

\* The token session p holds is the version the row still has.
Fresh(p) == Holding(p) /\ Present(target[p]) /\ token[p] = version[target[p]]

\* A version number names one state of a row for good: whoever holds a row's
\* current version was given exactly the row as it is now, however many edits,
\* deletions and re-rendered forms came between.
TokenNamesRow ==
    \A p \in Sessions :
        Holding(p) => /\ Present(target[p]) => token[p] <= version[target[p]]
                      /\ Fresh(p) => base[p] = Snapshot(target[p])

\* What a request decided from the row it read still holds of the row the
\* conditional write would change: it can be edited by this user, and the write
\* keeps its kind, so no settlement turns into a split.
SaveDecided ==
    \A p \in Sessions :
        Fresh(p) =>
            /\ at[p] = "save" =>
                  /\ Movable(target[p])
                  /\ CanEditExpense(Actor[p], body[target[p]])
                  /\ intent[p].kind = body[target[p]].kind
            /\ at[p] = "delete" => CanEditExpense(Actor[p], body[target[p]])

\* The legs of a conversion are in the books together or not at all, whichever
\* leg is deleted and whatever races the deletion; a leg belongs to one
\* conversion.
ConversionWhole ==
    \A id \in Ids :
        status[id] # "unborn" /\ body[id].link # NoId =>
            LET leg == body[id].link
            IN  /\ leg \in Ids
                /\ body[id].kind = "CURRENCY_CONVERSION"
                /\ status[leg] = status[id]
                /\ body[leg].kind = "CURRENCY_CONVERSION"
                /\ body[leg].link = NoId
                /\ \A other \in Ids \ {id} :
                      status[other] # "unborn" => body[other].link # leg

\* The books: a row as its pages see it, and the pages that hold a token.
Books == INSTANCE Ledger WITH
    Docs   <- Ids,
    NoDoc  <- NoId,
    Pages  <- Sessions,
    doc    <- [id \in Ids |-> Snapshot(id)],
    about  <- target,
    shown  <- base

\* Versioned rows and conditional writes implement the ledger, which compares
\* contents and has no versions.
ImplementsLedger == Books!Spec

\* A user never changes a row they have no part in as it stands at the moment
\* of the change (admins aside), even though the right was decided on an earlier
\* read of the row.
WritersArePartiesNow ==
    [][\A p \in Sessions, id \in Ids :
          /\ at[p] \in {"save", "delete"} /\ at'[p] # at[p]
          /\ target[p] = id
          /\ Present(id) /\ version'[id] # version[id]
          => CanEditExpense(Actor[p], body[id])]_vars

\* What docs/architecture.md:112 says of the version check: an edit is never
\* saved over a change its user was neither shown nor warned about.
NoSilentOverwrite ==
    [][\A p \in Sessions :
          at[p] = "save" /\ body'[target[p]] # body[target[p]] /\ at'[p] # "save"
          => informed[p]]_vars
===============================================================================
