-------------------------------- MODULE History --------------------------------
(***************************************************************************)
(* Editing together with the other two things that hold on to rows of the  *)
(* expenses table: collapsing history into one summary per currency        *)
(* (src/internal/service/archive_service.go, handlers_archive.go) and      *)
(* recurrences, whose foreign key keeps a template row in the table        *)
(* (recurrence_service.go, store/recurrences.go).                          *)
(*                                                                         *)
(* A collapse is not one transaction: it lists the rows, reads each row's  *)
(* participants with a query of its own, and only then writes.  A date     *)
(* decides which rows lie before the cutoff; dates are left out, so any    *)
(* nonempty set of eligible rows may be listed.                            *)
(***************************************************************************)
EXTENDS Editing, FiniteSets, Functions

CONSTANTS
    Archivers,   \* requests that collapse history
    ArchActor    \* the user behind each

ASSUME HistoryAssumption ==
    /\ ArchActor \in [Archivers -> Users]
    /\ IsFiniteSet(Ids) /\ IsFiniteSet(Users)

VARIABLES
    templates,   \* rows a recurrence points at
    batch        \* what each collapse has listed and read so far

archVars == <<templates, batch>>
historyVars == <<vars, archVars>>

\* group: the scope; rows: what the list returned, with each row's currency;
\* parts: the participant rows read since.
NoBatch == [group |-> NoGroup, rows |-> <<>>, parts |-> <<>>]

ListedRows(a) == DOMAIN batch[a].rows
ReadRows(a) == DOMAIN batch[a].parts

PartsOf(id) ==
    IF Present(id) THEN [people |-> body[id].draft.people,
                         shares |-> body[id].draft.shares]
                   ELSE [people |-> {}, shares |-> [u \in Users |-> 0]]

-------------------------------------------------------------------------------
(* Collapsing.                                                             *)

notCollapsible(id) == body[id].kind = "CURRENCY_CONVERSION" \/ id \in templates

ListGroupCollapsible(g) ==
    {id \in Ids : status[id] = "live" /\ body[id].draft.group = g /\ ~notCollapsible(id)}

ListDirectCollapsible(me, friend) ==
    {id \in Ids : /\ status[id] = "live"
                  /\ body[id].draft.group = NoGroup
                  /\ body[id].draft.people = {me, friend}
                  /\ ~notCollapsible(id)}

StartBatch(a, g, rows) ==
    /\ batch[a] = NoBatch
    /\ rows # {}
    /\ batch' = [batch EXCEPT ![a] = [group |-> g,
                                      rows |-> [id \in rows |-> body[id].draft.cur],
                                      parts |-> <<>>]]
    /\ UNCHANGED <<vars, templates>>

\* handleGroupCollapse, ArchiveGroup: members only.
ArchiveGroup(a, g, rows) ==
    /\ ArchActor[a] \in Members[g]
    /\ rows \subseteq ListGroupCollapsible(g)
    /\ StartBatch(a, g, rows)

\* handleFriendCollapse, ArchiveDirect: any other user may be named.
ArchiveDirect(a, friend, rows) ==
    /\ friend # ArchActor[a]
    /\ rows \subseteq ListDirectCollapsible(ArchActor[a], friend)
    /\ StartBatch(a, NoGroup, rows)

\* buildBatches reads the participants row by row; a row that has left the
\* table meanwhile has none.
GetParticipants(a, id) ==
    /\ id \in ListedRows(a) \ ReadRows(a)
    /\ batch' = [batch EXCEPT ![a].parts =
                    [r \in ReadRows(a) \cup {id} |->
                        IF r = id THEN PartsOf(id) ELSE batch[a].parts[r]]]
    /\ UNCHANGED <<vars, templates>>

BatchCurrencies(a) == {batch[a].rows[id] : id \in ListedRows(a)}

OriginIDs(a, cur) == {id \in ListedRows(a) : batch[a].rows[id] = cur}

Involved(a, cur) == UNION {batch[a].parts[id].people : id \in OriginIDs(a, cur)}

BatchNet(a, cur, u) ==
    SumFunction([id \in OriginIDs(a, cur) |-> batch[a].parts[id].shares[u]])

\* The highest net, of equals the lowest id; the actor when nobody is left.
PaidBy(a, cur) ==
    IF Involved(a, cur) = {} THEN ArchActor[a]
    ELSE CHOOSE u \in Involved(a, cur) : \A v \in Involved(a, cur) :
            \/ BatchNet(a, cur, u) > BatchNet(a, cur, v)
            \/ BatchNet(a, cur, u) = BatchNet(a, cur, v) /\ u <= v

\* Mutant: the summary of a group recorded outside the group.
HistoricalUngrouped(a, cur) ==
    Row("ARCHIVE", ArchActor[a], NoId,
        [payer |-> PaidBy(a, cur), cur |-> cur, group |-> NoGroup,
         people |-> Involved(a, cur),
         shares |-> [u \in Users |-> BatchNet(a, cur, u)]])

\* Mutant: the summary recorded as an ordinary settlement.
HistoricalAsSettlement(a, cur) ==
    Row("SETTLEMENT", ArchActor[a], NoId,
        [payer |-> PaidBy(a, cur), cur |-> cur, group |-> batch[a].group,
         people |-> Involved(a, cur),
         shares |-> [u \in Users |-> BatchNet(a, cur, u)]])

Historical(a, cur) ==
    Row("ARCHIVE", ArchActor[a], NoId,
        [payer |-> PaidBy(a, cur), cur |-> cur, group |-> batch[a].group,
         people |-> Involved(a, cur),
         shares |-> [u \in Users |-> BatchNet(a, cur, u)]])

\* Mutant: no foreign key from a recurrence to its template.
CollapseTakesTemplates(a, idOf) ==
    LET curs == BatchCurrencies(a)
        new  == {idOf[cur] : cur \in curs}
        curOf(id) == CHOOSE cur \in curs : idOf[cur] = id
    IN  /\ batch[a] # NoBatch
        /\ ReadRows(a) = ListedRows(a)
        /\ \A c1, c2 \in curs : idOf[c1] = idOf[c2] => c1 = c2
        /\ CollapseToHistorical(new, [id \in new |-> Historical(a, curOf(id))],
                                [id \in new |-> OriginIDs(a, curOf(id))])
        /\ batch' = [batch EXCEPT ![a] = NoBatch]
        /\ UNCHANGED <<sessionVars, templates>>

\* The write, with idOf the id of each currency's synthetic row.  Deleting an
\* origin that has become a template fails, and with it the transaction.
Collapse(a, idOf) ==
    LET curs == BatchCurrencies(a)
        new  == {idOf[cur] : cur \in curs}
        curOf(id) == CHOOSE cur \in curs : idOf[cur] = id
        gone == {id \in ListedRows(a) : Present(id)}
    IN  /\ batch[a] # NoBatch
        /\ ReadRows(a) = ListedRows(a)
        /\ \A c1, c2 \in curs : idOf[c1] = idOf[c2] => c1 = c2
        /\ IF gone \cap templates = {}
           THEN CollapseToHistorical(new, [id \in new |-> Historical(a, curOf(id))],
                                     [id \in new |-> OriginIDs(a, curOf(id))])
           ELSE UNCHANGED storeVars
        /\ batch' = [batch EXCEPT ![a] = NoBatch]
        /\ UNCHANGED <<sessionVars, templates>>

-------------------------------------------------------------------------------
(* Recurrences, as far as they hold rows.                                  *)

\* CreateRecurrence: a party to the row, not on conversions or automatic
\* entries; a deleted row is accepted.
CreateRecurrence(p, id) ==
    /\ at[p] = "idle"
    /\ Present(id)
    /\ IsTransactionMember(Actor[p], body[id])
    /\ ~IsConversion(body[id])
    /\ body[id].kind # "ARCHIVE" /\ ~Immutable(body[id])
    /\ templates' = templates \cup {id}
    /\ UNCHANGED <<vars, batch>>

DeleteRecurrence(p, id) ==
    /\ at[p] = "idle"
    /\ id \in templates
    /\ templates' = templates \ {id}
    /\ UNCHANGED <<vars, batch>>

-------------------------------------------------------------------------------
HistoryInit ==
    /\ Init
    /\ templates = {}
    /\ batch = [a \in Archivers |-> NoBatch]

ArchiveStep(a) ==
    \/ \E g \in Groups, rows \in SUBSET Ids : ArchiveGroup(a, g, rows)
    \/ \E friend \in Users, rows \in SUBSET Ids : ArchiveDirect(a, friend, rows)
    \/ \E id \in Ids : GetParticipants(a, id)
    \/ \E idOf \in [BatchCurrencies(a) -> Ids] : Collapse(a, idOf)

HistoryNext ==
    \/ Next /\ UNCHANGED archVars
    \/ \E a \in Archivers : ArchiveStep(a)
    \/ \E p \in Sessions, id \in Ids : CreateRecurrence(p, id) \/ DeleteRecurrence(p, id)

HistorySpec == HistoryInit /\ [][HistoryNext]_historyVars

-------------------------------------------------------------------------------
(* Properties.                                                             *)

\* A recurrence always finds its template in the table, though the collapse
\* that would take it away was listed before the recurrence was made.
TemplatesStay == \A id \in templates : Present(id)

\* What user u is owed in currency cur within scope g.
Net(u, cur, g) ==
    LET scope == {id \in Ids : /\ status[id] = "live"
                               /\ body[id].draft.cur = cur
                               /\ body[id].draft.group = g}
    IN  SumFunction([id \in scope |-> body[id].draft.shares[u]])

KeepsNets ==
    \A u \in Users, cur \in Currencies, g \in Groups \cup {NoGroup} :
        Net(u, cur, g)' = Net(u, cur, g)

\* Nothing touched the rows of the collapse since it listed and read them.
Undisturbed(a) ==
    \A id \in ListedRows(a) :
        /\ status[id] = "live"
        /\ body[id].draft.cur = batch[a].rows[id]
        /\ body[id].draft.group = batch[a].group
        /\ PartsOf(id) = batch[a].parts[id]

Commits(a) == batch[a] # NoBatch /\ batch'[a] = NoBatch

\* "Each member's net position per currency ... is preserved exactly"
\* (archive_service.go:44), as far as it goes: a collapse whose rows nobody else
\* wrote since it read them leaves every net as it was, per person, currency and
\* scope, whatever else was recorded, edited, deleted or collapsed meanwhile.
UndisturbedCollapseKeepsNets ==
    [][\A a \in Archivers : Commits(a) /\ Undisturbed(a) => KeepsNets]_historyVars
===============================================================================
