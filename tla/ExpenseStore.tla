----------------------------- MODULE ExpenseStore -----------------------------
(***************************************************************************)
(* The expenses table and the statements that write it                     *)
(* (src/internal/store/expenses.go).  One variable per column the          *)
(* concurrency rules read; a row's remaining columns and its participant   *)
(* rows are its "body".  Every statement or transaction of the store is    *)
(* one action: the database runs it atomically.  Names, categories, notes, *)
(* dates and receipts are left out: no rule of the store reads them, and a *)
(* date only decides which rows lie before an archive cutoff.              *)
(***************************************************************************)
EXTENDS Integers

CONSTANTS
    Users,       \* account ids, ordered as the code orders them
    Groups,      \* group ids
    NoGroup,     \* group_id IS NULL: money directly between people
    Currencies,
    Ids,         \* the UUIDs the store may hand out (bounds the rows)
    NoId,        \* a NULL conversion_to_id
    NoBody       \* the id has no row

ASSUME StoreAssumption ==
    /\ Users \subseteq Int
    /\ NoGroup \notin Groups
    /\ NoId \notin Ids

VARIABLES
    status,   \* where the row of each id is
    version,  \* expenses.version
    body,     \* the other columns with the participant rows
    into      \* archived_expenses.archive_expense_id

storeVars == <<status, version, body, into>>

Kinds == {"SPLIT", "SETTLEMENT", "CURRENCY_CONVERSION", "NETTING", "ARCHIVE"}

\* A payer, and participant rows: who has one, and what each user gains or
\* loses (0 without a row).
Draft == [payer : Users, cur : Currencies, group : Groups \cup {NoGroup},
          people : SUBSET Users, shares : [Users -> Int]]

Body == [kind : Kinds, addedBy : Users, link : Ids \cup {NoId},
         draft : Draft]

ASSUME NoBodyAssumption == NoBody \notin Body

\* A row holding draft d.
Row(kind, by, link, d) ==
    [kind |-> kind, addedBy |-> by, link |-> link, draft |-> d]

InitialVersion == 1

\* The row is in the expenses table (soft-deleted rows included).
Present(id) == status[id] \in {"live", "deleted"}

\* Everyone the row names: payer, creator and participants.
Parties(b) == {b.draft.payer, b.addedBy} \cup b.draft.people

-------------------------------------------------------------------------------
EmptyStore ==
    /\ status = [id \in Ids |-> "unborn"]
    /\ version = [id \in Ids |-> 0]
    /\ body = [id \in Ids |-> NoBody]
    /\ into = [id \in Ids |-> NoId]

\* insertExpenseTx for every id of a set in one transaction: UUIDs are fresh
\* and the version is written, not left to a default.
InsertExpenses(new, rowOf) ==
    /\ \A id \in new : status[id] = "unborn"
    /\ status' = [id \in Ids |-> IF id \in new THEN "live" ELSE status[id]]
    /\ version' = [id \in Ids |-> IF id \in new THEN InitialVersion ELSE version[id]]
    /\ body' = [id \in Ids |-> IF id \in new THEN rowOf[id] ELSE body[id]]
    /\ UNCHANGED into

\* Mutant: an UPDATE without the version in its WHERE clause.
UpdateMatchesAnyVersion(id, expected) == Present(id)

\* UPDATE ... WHERE id = ? AND version = ?: the deleted_at column is not
\* consulted, and created_at, added_by and conversion_to_id are not written.
UpdateMatches(id, expected) == Present(id) /\ version[id] = expected

UpdateExpense(id, expected, kind, d) ==
    /\ UpdateMatches(id, expected)
    /\ version' = [version EXCEPT ![id] = @ + 1]
    /\ body' = [body EXCEPT ![id] = Row(kind, @.addedBy, @.link, d)]
    /\ UNCHANGED <<status, into>>

\* Mutant: a deletion without the version in its WHERE clause.
SoftDeleteMatchesAnyVersion(id, expected) == status[id] = "live"

\* UPDATE ... WHERE id = ? AND deleted_at IS NULL AND version = ?
SoftDeleteMatches(id, expected) ==
    status[id] = "live" /\ version[id] = expected

\* Mutant: the partner looked for on one side of the link only.
PartnersPointedAt(id) == {q \in Ids : Present(q) /\ body[id].link = q}

\* The other leg of a conversion: the row id points at, or the row that
\* points at id.
Partners(id) ==
    {q \in Ids : /\ Present(q)
                 /\ body[id].link = q \/ body[q].link = id}

\* Mutant: deleted_at set without "version = version + 1".
MarkDeletedSameVersion(gone) ==
    /\ status' = [id \in Ids |-> IF id \in gone THEN "deleted" ELSE status[id]]
    /\ UNCHANGED <<version, body, into>>

MarkDeleted(gone) ==
    /\ status' = [id \in Ids |-> IF id \in gone THEN "deleted" ELSE status[id]]
    /\ version' = [id \in Ids |-> IF id \in gone THEN version[id] + 1 ELSE version[id]]
    /\ UNCHANGED <<body, into>>

SoftDeleteExpense(id, expected) ==
    /\ SoftDeleteMatches(id, expected)
    /\ MarkDeleted({id})

\* Both legs in one transaction; a partner already deleted is left alone.
SoftDeleteConversion(id, expected) ==
    /\ SoftDeleteMatches(id, expected)
    /\ MarkDeleted({id} \cup {q \in Partners(id) : status[q] = "live"})

\* One transaction per collapse: insert each synthetic row, copy the origins
\* still in the table to the archive tables, delete them.  Nothing here re-reads
\* what the batch was computed from.  originsOf[s] are the rows that synthetic
\* row s replaces.
CollapseToHistorical(synthetics, rowOf, originsOf) ==
    LET moved(s) == {o \in originsOf[s] : Present(o)}
        allMoved == UNION {moved(s) : s \in synthetics}
    IN  /\ \A s \in synthetics : status[s] = "unborn"
        /\ status' = [id \in Ids |->
                        IF id \in synthetics THEN "live"
                        ELSE IF id \in allMoved THEN "archived" ELSE status[id]]
        /\ version' = [id \in Ids |->
                        IF id \in synthetics THEN InitialVersion ELSE version[id]]
        /\ body' = [id \in Ids |->
                        IF id \in synthetics THEN rowOf[id] ELSE body[id]]
        /\ into' = [id \in Ids |->
                        IF id \in allMoved
                        THEN CHOOSE s \in synthetics : id \in moved(s)
                        ELSE into[id]]
===============================================================================
