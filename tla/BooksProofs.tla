------------------------------ MODULE BooksProofs ------------------------------
(*****************************************************************************)
(* What Editing and History promise of the books, for any number of users,   *)
(* groups, rows, tabs, drafts, writes, collapses and recurrences: three      *)
(* parts.                                                                    *)
(*                                                                           *)
(* Editing. The argument is one inductive invariant, Inv, in two parts.      *)
(* RowsOK is about the table: its rows are formed, and conversions are       *)
(* whole. SessionOK(q) is about one tab: the version it holds is not ahead   *)
(* of the row, and while the row still has that version, the row is the      *)
(* one the tab was given and the one its request decided on. A step of       *)
(* another tab preserves SessionOK(q) because every write either makes a     *)
(* row, raises its version or takes it out of the table (Advance).           *)
(*                                                                           *)
(* The ledger. Editing implements it (Books): each step of a session is      *)
(* one step of the ledger, or none. SessionOK is what makes a conditional    *)
(* write on a version number a comparison of contents.                       *)
(*                                                                           *)
(* History. Inv survives a collapse because no leg of a conversion is ever   *)
(* listed, and no edit turns a listed row into one (BatchOK). A template     *)
(* stays because the steps of Editing never take a row out of the table      *)
(* and a collapse that would take a template writes nothing. Nets are sums   *)
(* over the rows of the table: the summaries of a collapse hold the sums     *)
(* of the rows they replace, so a total stays what it was (SumReplaced) if   *)
(* the rows are as they were read. That a summary has its types takes a      *)
(* payer, somebody whose net nobody's exceeds (SomebodyPays).                *)
(*****************************************************************************)
EXTENDS History, SumLemmas, TLAPS

-------------------------------------------------------------------------------
(*****************************************************************************)
(* Editing.                                                                  *)
(*****************************************************************************)

Statuses == {"unborn", "live", "deleted", "archived"}

\* The types Inv needs; rows and pages are functions, of any values.
StoreShape ==
    /\ status \in [Ids -> Statuses]
    /\ version \in [Ids -> Nat]
    /\ body = [id \in Ids |-> body[id]]

SessionShape ==
    /\ at \in [Sessions -> Places]
    /\ target \in [Sessions -> Ids \cup {NoId}]
    /\ token \in [Sessions -> Nat]
    /\ base = [p \in Sessions |-> base[p]]
    /\ informed = [p \in Sessions |-> informed[p]]
    /\ intent = [p \in Sessions |-> intent[p]]

RowsFormed ==
    \A id \in Ids :
        IF status[id] = "unborn"
        THEN body[id] = NoBody
        ELSE body[id].kind \in Kinds /\ body[id].link \in Ids \cup {NoId}

RowsOK == RowsFormed /\ ConversionWhole

SessionOK(q) ==
    at[q] # "idle" =>
        /\ target[q] \in Ids
        /\ status[target[q]] # "unborn"
        /\ Present(target[q]) => token[q] <= version[target[q]]
        /\ Fresh(q) =>
              /\ base[q] = Snapshot(target[q])
              /\ at[q] = "save" =>
                    /\ Movable(target[q])
                    /\ CanEditExpense(Actor[q], body[target[q]])
                    /\ intent[q].kind = body[target[q]].kind
              /\ at[q] = "delete" => CanEditExpense(Actor[q], body[target[q]])

Inv == StoreShape /\ SessionShape /\ RowsOK /\ \A q \in Sessions : SessionOK(q)

\* What a step of the store may do to a row.
Advance ==
    \A id \in Ids :
        \/ status[id] = "unborn"
        \/ (status'[id] = status[id] /\ version'[id] = version[id] /\ body'[id] = body[id])
        \/ /\ Present(id) /\ status'[id] # "unborn"
           /\ version'[id] = version[id] + 1
        \/ status'[id] = "archived"

\* A step that leaves session q alone.
SessionKept(q) ==
    UNCHANGED <<at[q], target[q], token[q], base[q], intent[q]>>

-------------------------------------------------------------------------------
\* What a session holds stays good under any step of the others.
LEMMA OthersKeepSession ==
    ASSUME NEW q \in Sessions, StoreShape, SessionShape, SessionOK(q), Advance, SessionKept(q)
    PROVE  SessionOK(q)'
<1> SUFFICES ASSUME at[q] # "idle" PROVE SessionOK(q)'
    BY DEF SessionOK, SessionKept
<1> DEFINE row == target[q]
<1>1. /\ row \in Ids /\ status[row] # "unborn"
      /\ version[row] \in Nat /\ token[q] \in Nat
    BY DEF SessionOK, StoreShape, SessionShape
<1>2. CASE (status'[row] = status[row] /\ version'[row] = version[row] /\ body'[row] = body[row])
    BY <1>1, <1>2 DEF SessionOK, SessionKept, Fresh, Holding, Present, Snapshot, Movable
<1>3. CASE Present(row) /\ status'[row] # "unborn" /\ version'[row] = version[row] + 1
    BY <1>1, <1>3 DEF SessionOK, SessionKept, Fresh, Holding, Present
<1>4. CASE status'[row] = "archived"
    BY <1>1, <1>4 DEF SessionOK, SessionKept, Fresh, Holding, Present
<1>5. \/ (status'[row] = status[row] /\ version'[row] = version[row] /\ body'[row] = body[row])
      \/ Present(row) /\ status'[row] # "unborn" /\ version'[row] = version[row] + 1
      \/ status'[row] = "archived"
    BY <1>1 DEF Advance
<1> QED
    BY <1>2, <1>3, <1>4, <1>5

\* Every session but p keeps its state, and p's is of the right shape.
OnlySession(p) ==
    /\ SessionShape'
    /\ \A q \in Sessions \ {p} : SessionKept(q)

\* So a step of session p is good if it is good for p and for the store.
LEMMA StepOfOne ==
    ASSUME Inv, NEW p \in Sessions, StoreShape', RowsOK', Advance,
           OnlySession(p), SessionOK(p)'
    PROVE  Inv'
<1>1. ASSUME NEW q \in Sessions PROVE SessionOK(q)'
  <2>1. CASE q = p
      BY <2>1
  <2>2. CASE q # p
      BY <2>2, OthersKeepSession DEF Inv, OnlySession
  <2> QED
      BY <2>1, <2>2
<1> QED
    BY <1>1 DEF Inv, OnlySession

\* A tab that lets go of its page has nothing left to be wrong.
LEMMA LeaveIsGood ==
    ASSUME SessionShape, NEW p \in Sessions, Leave(p)
    PROVE  OnlySession(p) /\ SessionOK(p)'
<1>1. SessionShape'
    BY DEF Leave, SessionShape, Places
<1> QED
    BY <1>1 DEF Leave, SessionShape, OnlySession, SessionKept, SessionOK

\* A page just issued shows the row as it is.
LEMMA IssueIsGood ==
    ASSUME StoreShape, SessionShape, NEW p \in Sessions, NEW id \in Ids, NEW told,
           NEW page \in {"form", "detail"}, Present(id),
           Issue(p, page, id, told), UNCHANGED storeVars
    PROVE  OnlySession(p) /\ SessionOK(p)'
<1>1. SessionShape'
    BY DEF Issue, SessionShape, StoreShape, Places
<1>2. /\ at'[p] = page /\ target'[p] = id /\ token'[p] = version[id]
      /\ base'[p] = Snapshot(id)
    BY DEF Issue, SessionShape
<1>3. SessionOK(p)'
    BY <1>2 DEF SessionOK, Fresh, Holding, Present, Snapshot, StoreShape, storeVars
<1> QED
    BY <1>1, <1>3 DEF Issue, SessionShape, OnlySession, SessionKept

\* A request that goes on to its write has decided on the row as it is.
LEMMA ProceedIsGood ==
    ASSUME StoreShape, SessionShape, NEW p \in Sessions, SessionOK(p),
           at[p] # "idle", NEW step \in {"save", "delete"}, NEW what,
           Proceed(p, step, what), UNCHANGED storeVars,
           CanEditExpense(Actor[p], body[target[p]]),
           step = "save" => Movable(target[p]) /\ what.kind = body[target[p]].kind
    PROVE  OnlySession(p) /\ SessionOK(p)'
<1>1. SessionShape'
    BY DEF Proceed, SessionShape, Places
<1>2. at'[p] = step /\ intent'[p] = what
    BY DEF Proceed, SessionShape
<1>3. SessionOK(p)'
    BY <1>2 DEF SessionOK, Proceed, Fresh, Holding, Present, Snapshot, Movable,
                storeVars
<1> QED
    BY <1>1, <1>3 DEF Proceed, SessionShape, OnlySession, SessionKept

-------------------------------------------------------------------------------
(* The statements of the store.                                            *)

\* A step that leaves the table alone keeps it good.
LEMMA UnchangedIsGood ==
    ASSUME StoreShape, RowsOK, UNCHANGED storeVars
    PROVE  StoreShape' /\ RowsOK' /\ Advance
BY DEF StoreShape, RowsOK, RowsFormed, ConversionWhole, Advance, storeVars

\* Rows that may be inserted together: whoever points at a row points at one of
\* them, and the two are a conversion.
WellLinked(new, rowOf) ==
    \A n \in new :
        /\ rowOf[n].kind \in Kinds
        /\ rowOf[n].link # NoId =>
              /\ rowOf[n].link \in new
              /\ rowOf[n].kind = "CURRENCY_CONVERSION"
              /\ rowOf[rowOf[n].link].kind = "CURRENCY_CONVERSION"
              /\ rowOf[rowOf[n].link].link = NoId
              /\ \A m \in new \ {n} : rowOf[m].link # rowOf[n].link

\* Rows inserted together keep the table good.
LEMMA InsertIsGood ==
    ASSUME StoreShape, RowsOK, NEW new \in SUBSET Ids, NEW rowOf,
           WellLinked(new, rowOf), InsertExpenses(new, rowOf)
    PROVE  StoreShape' /\ RowsOK' /\ Advance
<1>1. /\ \A id \in new : /\ status[id] = "unborn"
                         /\ status'[id] = "live" /\ body'[id] = rowOf[id]
      /\ \A id \in Ids \ new : /\ status'[id] = status[id]
                               /\ version'[id] = version[id]
                               /\ body'[id] = body[id]
    BY DEF InsertExpenses
<1>2. StoreShape'
    BY DEF StoreShape, InsertExpenses, Statuses, InitialVersion
<1>3. Advance
    BY <1>1 DEF Advance
<1>4. RowsFormed'
    BY <1>1 DEF RowsOK, RowsFormed, WellLinked
<1>5. ConversionWhole'
  <2> SUFFICES ASSUME NEW id \in Ids, status'[id] # "unborn", body'[id].link # NoId
               PROVE  LET leg == body'[id].link
                      IN  /\ leg \in Ids
                          /\ body'[id].kind = "CURRENCY_CONVERSION"
                          /\ status'[leg] = status'[id]
                          /\ body'[leg].kind = "CURRENCY_CONVERSION"
                          /\ body'[leg].link = NoId
                          /\ \A other \in Ids \ {id} :
                                status'[other] # "unborn" => body'[other].link # leg
      BY DEF ConversionWhole
  <2>1. CASE id \in new
    <3>1. ASSUME NEW other \in Ids \ new, status[other] # "unborn"
          PROVE  body[other].link \notin new
        BY <1>1, <3>1, StoreAssumption DEF RowsOK, RowsFormed, ConversionWhole
    <3> QED
        BY <1>1, <2>1, <3>1 DEF WellLinked
  <2>2. CASE id \notin new
    <3>1. /\ status[id] # "unborn" /\ body[id].link # NoId
          /\ body'[id] = body[id] /\ status'[id] = status[id]
        BY <1>1, <2>2
    <3>2. body[id].link \in Ids \ new
        BY <1>1, <3>1 DEF RowsOK, ConversionWhole
    <3>3. ASSUME NEW other \in Ids \ {id}, status'[other] # "unborn"
          PROVE  body'[other].link # body[id].link
        BY <1>1, <3>1, <3>2, <3>3, StoreAssumption DEF RowsOK, ConversionWhole, WellLinked
    <3> QED
        BY <1>1, <3>1, <3>2, <3>3 DEF RowsOK, ConversionWhole
  <2> QED
      BY <2>1, <2>2
<1> QED
    BY <1>2, <1>3, <1>4, <1>5 DEF RowsOK

\* Saving a split over a row that can be edited keeps the table good.
LEMMA UpdateIsGood ==
    ASSUME StoreShape, RowsOK, NEW id \in Ids, NEW expected, NEW d,
           Movable(id), UpdateExpense(id, expected, body[id].kind, d)
    PROVE  StoreShape' /\ RowsOK' /\ Advance
<1>1. /\ status' = status /\ status[id] # "unborn" /\ Present(id)
      /\ version'[id] = version[id] + 1
      /\ body'[id].kind = body[id].kind /\ body'[id].link = body[id].link
      /\ \A row \in Ids \ {id} : version'[row] = version[row] /\ body'[row] = body[row]
    BY DEF UpdateExpense, UpdateMatches, Movable, StoreShape, Row, Present
<1>2. StoreShape'
    BY DEF StoreShape, UpdateExpense, UpdateMatches
<1>3. Advance
    BY <1>1 DEF Advance
<1>4. RowsFormed'
    BY <1>1 DEF RowsOK, RowsFormed
<1>5. \A row \in Ids : status[row] # "unborn" =>
                         /\ body'[row].kind = body[row].kind
                         /\ body'[row].link = body[row].link
    BY <1>1
<1>6. ConversionWhole'
    BY <1>1, <1>5 DEF RowsOK, RowsFormed, ConversionWhole
<1> QED
    BY <1>2, <1>3, <1>4, <1>6 DEF RowsOK

\* What a deletion takes: the row, and the live legs of its conversion.
Taken(id) ==
    IF IsConversion(body[id])
    THEN {id} \cup {q \in Partners(id) : status[q] = "live"}
    ELSE {id}

\* Deleting a row with its live legs keeps the table good.
LEMMA DeleteIsGood ==
    ASSUME StoreShape, RowsOK, NEW id \in Ids,
           status[id] = "live", MarkDeleted(Taken(id))
    PROVE  StoreShape' /\ RowsOK' /\ Advance
<1> DEFINE gone == Taken(id)
<1>1. /\ body' = body
      /\ \A row \in gone : /\ row \in Ids /\ status[row] = "live"
                          /\ status'[row] = "deleted"
                          /\ version'[row] = version[row] + 1
      /\ \A row \in Ids \ gone : /\ status'[row] = status[row]
                                /\ version'[row] = version[row]
    BY DEF MarkDeleted, Taken, Partners
<1>2. StoreShape'
    BY <1>1 DEF StoreShape, MarkDeleted, Statuses
<1>3. Advance
    BY <1>1 DEF Advance, Present
<1>4. RowsFormed'
    BY <1>1 DEF RowsOK, RowsFormed
<1>5. ConversionWhole'
  <2>1. ASSUME NEW row \in Ids, status[row] # "unborn", body[row].link # NoId
        PROVE  row \in gone <=> body[row].link \in gone
    <3> DEFINE leg == body[row].link
    <3>1. /\ leg \in Ids /\ status[leg] = status[row] /\ body[leg].link = NoId
          /\ body[row].kind = "CURRENCY_CONVERSION"
          /\ body[leg].kind = "CURRENCY_CONVERSION"
          /\ \A other \in Ids \ {row} : status[other] # "unborn" => body[other].link # leg
        BY <2>1 DEF RowsOK, ConversionWhole
    <3>2. CASE row = id
        BY <3>1, <3>2 DEF Taken, Partners, Present, IsConversion
    <3>3. CASE leg = id
        BY <2>1, <3>1, <3>3 DEF Taken, Partners, Present, IsConversion
    <3>4. CASE row # id /\ leg # id
      <4>1. row \notin Partners(id)
        <5>1. body[id].link = row => body[row].link = NoId
            BY <1>1, <2>1, StoreAssumption DEF Taken, RowsOK, ConversionWhole
        <5> QED
            BY <2>1, <3>4, <5>1 DEF Partners
      <4>2. leg \notin Partners(id)
          BY <3>1, <3>4, StoreAssumption DEF Partners
      <4> QED
          BY <3>4, <4>1, <4>2 DEF Taken
    <3> QED
        BY <3>2, <3>3, <3>4
  <2>2. ASSUME NEW row \in Ids, status[row] # "unborn", body[row].link # NoId
        PROVE  status'[body[row].link] = status'[row]
      BY <2>1, <2>2, <1>1 DEF RowsOK, ConversionWhole
  <2>3. \A row \in Ids : status'[row] # "unborn" <=> status[row] # "unborn"
      BY <1>1
  <2> QED
      BY <2>2, <2>3, <1>1 DEF RowsOK, ConversionWhole
<1> QED
    BY <1>2, <1>3, <1>4, <1>5 DEF RowsOK

-------------------------------------------------------------------------------
(* The steps.                                                              *)

\* A request that writes the store and then lets go of its page.
LEMMA WriteAndLeave ==
    ASSUME Inv, NEW p \in Sessions, Leave(p), StoreShape', RowsOK', Advance
    PROVE  Inv'
BY LeaveIsGood, StepOfOne DEF Inv

\* A request that adds rows and keeps no page.
LEMMA InsertKeepsInv ==
    ASSUME Inv, NEW p \in Sessions, UNCHANGED sessionVars,
           NEW new \in SUBSET Ids, NEW rowOf, WellLinked(new, rowOf),
           InsertExpenses(new, rowOf)
    PROVE  Inv'
<1>1. StoreShape' /\ RowsOK' /\ Advance
    BY InsertIsGood DEF Inv
<1>2. SessionShape' /\ \A q \in Sessions : SessionKept(q)
    BY DEF Inv, SessionShape, SessionKept, sessionVars
<1>3. \A q \in Sessions : SessionOK(q)'
    BY <1>1, <1>2, OthersKeepSession DEF Inv
<1> QED
    BY <1>1, <1>2, <1>3 DEF Inv

\* Recording a split, a payment or a netting entry keeps Inv.
LEMMA AddKeepsInv ==
    ASSUME Inv, NEW p \in Sessions, NEW id \in Ids, NEW d,
           AddExpense(p, id, d) \/ Settle(p, id, d) \/ RecordNetting(p, id, d)
    PROVE  Inv'
<1>1. PICK kind \in Kinds : /\ InsertExpenses({id}, [n \in {id} |-> Row(kind, Actor[p], NoId, d)])
                            /\ UNCHANGED sessionVars
    BY DEF AddExpense, Settle, RecordNetting, Kinds
<1>2. WellLinked({id}, [n \in {id} |-> Row(kind, Actor[p], NoId, d)])
    BY DEF WellLinked, Row
<1> QED
    BY <1>1, <1>2, InsertKeepsInv

\* Recording a conversion keeps Inv.
LEMMA ConvertKeepsInv ==
    ASSUME Inv, NEW p \in Sessions, NEW fromId \in Ids, NEW toId \in Ids,
           NEW from, NEW to, CreateConversionPair(p, fromId, toId, from, to)
    PROVE  Inv'
<1> DEFINE rowOf == [n \in {fromId, toId} |->
                        IF n = fromId THEN Row("CURRENCY_CONVERSION", Actor[p], toId, from)
                                      ELSE Row("CURRENCY_CONVERSION", Actor[p], NoId, to)]
<1>1. /\ rowOf[fromId].kind = "CURRENCY_CONVERSION" /\ rowOf[fromId].link = toId
      /\ rowOf[toId].kind = "CURRENCY_CONVERSION" /\ rowOf[toId].link = NoId
      /\ fromId # toId
    BY DEF CreateConversionPair, Row
<1>2. WellLinked({fromId, toId}, rowOf)
    BY <1>1, StoreAssumption DEF WellLinked, Kinds
<1> QED
    BY <1>2, InsertKeepsInv DEF CreateConversionPair

\* Loading a form or a detail page keeps Inv.
LEMMA OpenKeepsInv ==
    ASSUME Inv, NEW p \in Sessions, NEW id \in Ids, OpenForm(p, id) \/ OpenDetail(p, id)
    PROVE  Inv'
<1>1. PICK page \in {"form", "detail"} : Issue(p, page, id, TRUE)
    BY DEF OpenForm, OpenDetail
<1>2. Present(id) /\ UNCHANGED storeVars
    BY DEF OpenForm, OpenDetail, Present
<1>3. OnlySession(p) /\ SessionOK(p)'
    BY <1>1, <1>2, IssueIsGood DEF Inv
<1> QED
    BY <1>2, <1>3, UnchangedIsGood, StepOfOne DEF Inv

\* An edit up to its write keeps Inv.
LEMMA PostEditKeepsInv ==
    ASSUME Inv, NEW p \in Sessions, NEW d, NEW acknowledged,
           PostEdit(p, d, acknowledged)
    PROVE  Inv'
<1> DEFINE id == target[p]
           kind == IF body[id].kind = "SETTLEMENT" THEN "SETTLEMENT" ELSE "SPLIT"
<1>1. /\ at[p] = "form" /\ UNCHANGED storeVars /\ id \in Ids
      /\ SessionOK(p) /\ StoreShape /\ SessionShape
    BY DEF PostEdit, Inv, SessionOK
<1>2. CASE Leave(p)
    BY <1>1, <1>2, LeaveIsGood, UnchangedIsGood, StepOfOne DEF Inv
<1>3. CASE /\ Present(id) /\ CanEditExpense(Actor[p], body[id])
           /\ Accepts(Actor[p], id, d, acknowledged)
           /\ Proceed(p, "save", Intent(kind, d))
  <2>1. Movable(id) /\ kind = body[id].kind /\ Intent(kind, d).kind = kind
      BY <1>1, <1>3 DEF Accepts, Movable, IsConversion, Immutable, Inv, RowsOK,
                        RowsFormed, Kinds, Intent
  <2>2. OnlySession(p) /\ SessionOK(p)'
      BY <1>1, <1>3, <2>1, ProceedIsGood
  <2> QED
      BY <1>1, <2>2, UnchangedIsGood, StepOfOne DEF Inv
<1>4. CASE /\ Present(id)
           /\ Issue(p, "form", id, informed[p] /\ token[p] = version[id])
  <2>1. OnlySession(p) /\ SessionOK(p)'
      BY <1>1, <1>4, IssueIsGood
  <2> QED
      BY <1>1, <2>1, UnchangedIsGood, StepOfOne DEF Inv
<1> QED
    BY <1>1, <1>2, <1>3, <1>4 DEF PostEdit

\* The conditional write of an edit keeps Inv.
LEMMA CommitEditKeepsInv ==
    ASSUME Inv, NEW p \in Sessions, CommitEdit(p)
    PROVE  Inv'
<1> DEFINE id == target[p]
<1>1. /\ at[p] = "save" /\ id \in Ids
      /\ SessionOK(p) /\ StoreShape /\ SessionShape /\ RowsOK
    BY DEF CommitEdit, Inv, SessionOK
<1>2. CASE UpdateMatches(id, token[p])
  <2>1. Movable(id) /\ intent[p].kind = body[id].kind
      BY <1>1, <1>2 DEF SessionOK, Fresh, Holding, UpdateMatches
  <2>2. UpdateExpense(id, token[p], body[id].kind, intent[p].draft) /\ Leave(p)
      BY <1>2, <2>1 DEF CommitEdit
  <2>3. StoreShape' /\ RowsOK' /\ Advance
      BY <1>1, <2>1, <2>2, UpdateIsGood
  <2> QED
      BY <2>2, <2>3, WriteAndLeave
<1>3. CASE ~UpdateMatches(id, token[p])
  <2>1. UNCHANGED storeVars /\ (Leave(p) \/ (Present(id) /\ Issue(p, "form", id, TRUE)))
      BY <1>3 DEF CommitEdit
  <2>2. OnlySession(p) /\ SessionOK(p)'
      BY <1>1, <2>1, LeaveIsGood, IssueIsGood
  <2> QED
      BY <1>1, <2>1, <2>2, UnchangedIsGood, StepOfOne
<1> QED
    BY <1>2, <1>3

\* A deletion up to its write keeps Inv.
LEMMA PostDeleteKeepsInv ==
    ASSUME Inv, NEW p \in Sessions, PostDelete(p)
    PROVE  Inv'
<1>1. /\ at[p] = "detail" /\ UNCHANGED storeVars
      /\ SessionOK(p) /\ StoreShape /\ SessionShape /\ RowsOK
    BY DEF PostDelete, Inv
<1>2. OnlySession(p) /\ SessionOK(p)'
    BY <1>1, LeaveIsGood, ProceedIsGood DEF PostDelete
<1> QED
    BY <1>1, <1>2, UnchangedIsGood, StepOfOne

\* The conditional write of a deletion keeps Inv.
LEMMA CommitDeleteKeepsInv ==
    ASSUME Inv, NEW p \in Sessions, CommitDelete(p)
    PROVE  Inv'
<1> DEFINE id == target[p]
<1>1. /\ at[p] = "delete" /\ id \in Ids /\ Leave(p)
      /\ StoreShape /\ RowsOK
    BY DEF CommitDelete, Inv, SessionOK
<1>2. CASE SoftDeleteMatches(id, token[p])
  <2>1. status[id] = "live" /\ MarkDeleted(Taken(id))
      BY <1>2 DEF CommitDelete, SoftDeleteMatches, SoftDeleteConversion,
                  SoftDeleteExpense, Taken
  <2> QED
      BY <1>1, <2>1, DeleteIsGood, WriteAndLeave
<1>3. CASE ~SoftDeleteMatches(id, token[p])
  <2>1. UNCHANGED storeVars
      BY <1>3 DEF CommitDelete
  <2> QED
      BY <1>1, <2>1, UnchangedIsGood, WriteAndLeave
<1> QED
    BY <1>2, <1>3

\* Inv holds of the empty table.
LEMMA InitInv == Init => Inv
<1> SUFFICES ASSUME Init PROVE Inv
    OBVIOUS
<1>1. StoreShape /\ SessionShape
    BY DEF Init, EmptyStore, StoreShape, SessionShape, Statuses, Places
<1>2. RowsOK
    BY DEF Init, EmptyStore, RowsOK, RowsFormed, ConversionWhole
<1>3. \A q \in Sessions : SessionOK(q)
    BY DEF Init, SessionOK
<1> QED
    BY <1>1, <1>2, <1>3 DEF Inv

\* Every step keeps Inv.
LEMMA StepInv == Inv /\ [Next]_vars => Inv'
<1> SUFFICES ASSUME Inv, [Next]_vars PROVE Inv'
    OBVIOUS
<1>1. ASSUME NEW p \in Sessions, SessionStep(p) PROVE Inv'
  <2>1. CASE \E id \in Ids, d \in Drafts :
                AddExpense(p, id, d) \/ Settle(p, id, d) \/ RecordNetting(p, id, d)
      BY <2>1, AddKeepsInv
  <2>2. CASE \E fromId, toId \in Ids, from, to \in Drafts :
                CreateConversionPair(p, fromId, toId, from, to)
      BY <2>2, ConvertKeepsInv
  <2>3. CASE \E id \in Ids : OpenForm(p, id) \/ OpenDetail(p, id)
      BY <2>3, OpenKeepsInv
  <2>4. CASE \E d \in Drafts \cup {NoDraft}, acknowledged \in BOOLEAN :
                PostEdit(p, d, acknowledged)
      BY <2>4, PostEditKeepsInv
  <2>5. CASE CommitEdit(p)
      BY <2>5, CommitEditKeepsInv
  <2>6. CASE PostDelete(p)
      BY <2>6, PostDeleteKeepsInv
  <2>7. CASE CommitDelete(p)
      BY <2>7, CommitDeleteKeepsInv
  <2>8. CASE Abandon(p)
    <3>1. UNCHANGED storeVars /\ Leave(p)
        BY <2>8 DEF Abandon
    <3> QED
        BY <3>1, UnchangedIsGood, WriteAndLeave DEF Inv
  <2> QED
      BY <1>1, <2>1, <2>2, <2>3, <2>4, <2>5, <2>6, <2>7, <2>8
      DEF SessionStep, OtherStep
<1>2. CASE UNCHANGED vars
  <2>1. StoreShape' /\ RowsOK' /\ Advance
      BY <1>2, UnchangedIsGood DEF Inv, vars
  <2>2. SessionShape' /\ \A q \in Sessions : SessionKept(q)
      BY <1>2 DEF Inv, SessionShape, SessionKept, vars, sessionVars
  <2> QED
      BY <2>1, <2>2, OthersKeepSession DEF Inv
<1> QED
    BY <1>1, <1>2 DEF Next

-------------------------------------------------------------------------------
(* Types.  TypeOK is inductive by itself.                                  *)

\* TypeOK, the store's part and the sessions' part.
StoreTypeOK ==
    /\ status \in [Ids -> Statuses]
    /\ version \in [Ids -> Nat]
    /\ body \in [Ids -> Body \cup {NoBody}]
    /\ \A id \in Ids : status[id] = "unborn" <=> body[id] = NoBody
    /\ into \in [Ids -> Ids \cup {NoId}]

SessionTypeOK ==
    /\ at \in [Sessions -> Places]
    /\ target \in [Sessions -> Ids \cup {NoId}]
    /\ \A p \in Sessions : at[p] # "idle" => target[p] \in Ids
    /\ token \in [Sessions -> Nat]
    /\ base \in [Sessions -> [status : {"unborn", "live", "deleted"},
                              body : Body \cup {NoBody}]]
    /\ informed \in [Sessions -> BOOLEAN]
    /\ intent \in [Sessions -> [kind : Kinds, draft : Drafts \cup {NoDraft}]]
    /\ \A p \in Sessions : at[p] = "save" => intent[p].draft \in Drafts

\* Together they are TypeOK.
LEMMA TypeParts == TypeOK <=> StoreTypeOK /\ SessionTypeOK
BY DEF TypeOK, StoreTypeOK, SessionTypeOK, Statuses

\* A row made of a draft is a row.
LEMMA RowType ==
    ASSUME NEW kind \in Kinds, NEW by \in Users, NEW link \in Ids \cup {NoId},
           NEW d \in Drafts
    PROVE  Row(kind, by, link, d) \in Body
BY EditingAssumption DEF Row, Body

\* Inserting rows keeps the store's types.
LEMMA InsertTypes ==
    ASSUME StoreTypeOK, NEW new \in SUBSET Ids, NEW rowOf,
           \A n \in new : rowOf[n] \in Body, InsertExpenses(new, rowOf)
    PROVE  StoreTypeOK'
<1>1. /\ status' \in [Ids -> Statuses] /\ version' \in [Ids -> Nat]
      /\ body' \in [Ids -> Body \cup {NoBody}] /\ into' \in [Ids -> Ids \cup {NoId}]
    BY DEF StoreTypeOK, InsertExpenses, Statuses, InitialVersion
<1>2. \A id \in Ids : status'[id] = "unborn" <=> body'[id] = NoBody
    BY NoBodyAssumption DEF StoreTypeOK, InsertExpenses
<1> QED
    BY <1>1, <1>2 DEF StoreTypeOK

\* So does saving an edit.
LEMMA UpdateTypes ==
    ASSUME StoreTypeOK, NEW id \in Ids, NEW expected, NEW kind \in Kinds,
           NEW d \in Drafts, UpdateExpense(id, expected, kind, d)
    PROVE  StoreTypeOK'
<1>1. body[id] \in Body
    BY DEF UpdateExpense, UpdateMatches, Present, StoreTypeOK
<1>2. body[id].addedBy \in Users /\ body[id].link \in Ids \cup {NoId}
    BY <1>1 DEF Body
<1>3. Row(kind, body[id].addedBy, body[id].link, d) \in Body
    BY <1>2, RowType
<1>4. /\ status' = status /\ into' = into /\ version' \in [Ids -> Nat]
      /\ body' = [body EXCEPT ![id] = Row(kind, body[id].addedBy, body[id].link, d)]
    BY DEF UpdateExpense, StoreTypeOK
<1>5. body' \in [Ids -> Body \cup {NoBody}]
    BY <1>3, <1>4 DEF StoreTypeOK
<1>6. \A row \in Ids : status'[row] = "unborn" <=> body'[row] = NoBody
    BY <1>1, <1>3, <1>4, NoBodyAssumption DEF StoreTypeOK
<1> QED
    BY <1>4, <1>5, <1>6 DEF StoreTypeOK

\* So does deleting rows that are in the table.
LEMMA DeleteTypes ==
    ASSUME StoreTypeOK, NEW gone, \A id \in gone : status[id] = "live", MarkDeleted(gone)
    PROVE  StoreTypeOK'
BY DEF StoreTypeOK, MarkDeleted, Statuses

\* Letting go of a page keeps the sessions' types.
LEMMA LeaveTypes ==
    ASSUME SessionTypeOK, NEW p \in Sessions, Leave(p)
    PROVE  SessionTypeOK'
<1>1. NoSnapshot \in [status : {"unborn", "live", "deleted"}, body : Body \cup {NoBody}]
    BY DEF NoSnapshot
<1>2. NoIntent \in [kind : Kinds, draft : Drafts \cup {NoDraft}]
    BY DEF NoIntent, Intent, Kinds
<1> QED
    BY <1>1, <1>2 DEF SessionTypeOK, Leave, Places

\* So does being given a page about a row in the table.
LEMMA IssueTypes ==
    ASSUME StoreTypeOK, SessionTypeOK, NEW p \in Sessions, NEW id \in Ids, Present(id),
           NEW page \in {"form", "detail"}, NEW told \in BOOLEAN, Issue(p, page, id, told)
    PROVE  SessionTypeOK'
<1>1. Snapshot(id) \in [status : {"unborn", "live", "deleted"}, body : Body \cup {NoBody}]
    BY DEF Snapshot, Present, StoreTypeOK
<1>2. NoIntent \in [kind : Kinds, draft : Drafts \cup {NoDraft}]
    BY DEF NoIntent, Intent, Kinds
<1>3. version[id] \in Nat
    BY DEF StoreTypeOK
<1> QED
    BY <1>1, <1>2, <1>3 DEF SessionTypeOK, Issue, Places

\* So does going on to a write.
LEMMA ProceedTypes ==
    ASSUME SessionTypeOK, NEW p \in Sessions, at[p] # "idle",
           NEW step \in {"save", "delete"},
           NEW what \in [kind : Kinds, draft : Drafts \cup {NoDraft}],
           step = "save" => what.draft \in Drafts, Proceed(p, step, what)
    PROVE  SessionTypeOK'
BY DEF SessionTypeOK, Proceed, Places

\* Every step keeps the types.
LEMMA StepTypes == TypeOK /\ [Next]_vars => TypeOK'
<1> SUFFICES ASSUME StoreTypeOK, SessionTypeOK, [Next]_vars
             PROVE  StoreTypeOK' /\ SessionTypeOK'
    BY TypeParts, PTL
<1> USE DEF Kinds
<1>1. ASSUME UNCHANGED storeVars PROVE StoreTypeOK'
    BY <1>1 DEF StoreTypeOK, storeVars
<1>2. ASSUME UNCHANGED sessionVars PROVE SessionTypeOK'
    BY <1>2 DEF SessionTypeOK, sessionVars
<1>3. ASSUME NEW p \in Sessions, SessionStep(p) PROVE StoreTypeOK' /\ SessionTypeOK'
  <2>0. Actor[p] \in Users
      BY EditingAssumption
  <2>1. ASSUME NEW id \in Ids, NEW d \in Drafts,
               AddExpense(p, id, d) \/ Settle(p, id, d) \/ RecordNetting(p, id, d)
        PROVE  StoreTypeOK' /\ SessionTypeOK'
    <3>1. PICK kind \in Kinds : /\ InsertExpenses({id}, [n \in {id} |-> Row(kind, Actor[p], NoId, d)])
                                /\ UNCHANGED sessionVars
        BY <2>1 DEF AddExpense, Settle, RecordNetting
    <3>2. Row(kind, Actor[p], NoId, d) \in Body
        BY <2>0, RowType
    <3> QED
        BY <1>2, <3>1, <3>2, InsertTypes
  <2>2. ASSUME NEW fromId \in Ids, NEW toId \in Ids, NEW from \in Drafts, NEW to \in Drafts,
               CreateConversionPair(p, fromId, toId, from, to)
        PROVE  StoreTypeOK' /\ SessionTypeOK'
    <3>1. /\ Row("CURRENCY_CONVERSION", Actor[p], toId, from) \in Body
          /\ Row("CURRENCY_CONVERSION", Actor[p], NoId, to) \in Body
        BY <2>0, RowType
    <3> DEFINE rowOf == [n \in {fromId, toId} |->
                            IF n = fromId THEN Row("CURRENCY_CONVERSION", Actor[p], toId, from)
                                          ELSE Row("CURRENCY_CONVERSION", Actor[p], NoId, to)]
    <3>2. \A n \in {fromId, toId} : rowOf[n] \in Body
        BY <3>1
    <3> QED
        BY <1>2, <2>2, <3>2, InsertTypes DEF CreateConversionPair
  <2>3. ASSUME NEW id \in Ids, OpenForm(p, id) \/ OpenDetail(p, id)
        PROVE  StoreTypeOK' /\ SessionTypeOK'
      BY <1>1, <2>3, IssueTypes DEF OpenForm, OpenDetail, Present
  <2>4. ASSUME NEW d \in Drafts \cup {NoDraft}, NEW acknowledged \in BOOLEAN,
               PostEdit(p, d, acknowledged)
        PROVE  StoreTypeOK' /\ SessionTypeOK'
    <3> DEFINE id == target[p]
               kind == IF body[id].kind = "SETTLEMENT" THEN "SETTLEMENT" ELSE "SPLIT"
    <3>1. at[p] = "form" /\ id \in Ids /\ informed[p] \in BOOLEAN
        BY <2>4 DEF PostEdit, SessionTypeOK
    <3>2. CASE Leave(p)
        BY <1>1, <2>4, <3>2, LeaveTypes DEF PostEdit
    <3>3. CASE Accepts(Actor[p], id, d, acknowledged) /\ Proceed(p, "save", Intent(kind, d))
      <4>1. d \in Drafts
          BY <3>3 DEF Accepts
      <4>2. /\ Intent(kind, d) \in [kind : Kinds, draft : Drafts \cup {NoDraft}]
            /\ Intent(kind, d).draft \in Drafts
          BY <4>1 DEF Intent
      <4> QED
          BY <1>1, <2>4, <3>1, <3>3, <4>2, ProceedTypes DEF PostEdit
    <3>4. CASE /\ Present(id)
               /\ Issue(p, "form", id, informed[p] /\ token[p] = version[id])
      <4>1. (informed[p] /\ token[p] = version[id]) \in BOOLEAN
          OBVIOUS
      <4> QED
          BY <1>1, <2>4, <3>1, <3>4, <4>1, IssueTypes DEF PostEdit
    <3> QED
        BY <2>4, <3>2, <3>3, <3>4 DEF PostEdit
  <2>5. CASE CommitEdit(p)
    <3>1. at[p] = "save" /\ target[p] \in Ids /\ intent[p].draft \in Drafts /\ intent[p].kind \in Kinds
        BY <2>5 DEF CommitEdit, SessionTypeOK
    <3>2. CASE UpdateMatches(target[p], token[p])
        BY <2>5, <3>1, <3>2, UpdateTypes, LeaveTypes DEF CommitEdit
    <3>3. CASE ~UpdateMatches(target[p], token[p])
        BY <1>1, <2>5, <3>1, <3>3, IssueTypes, LeaveTypes DEF CommitEdit
    <3> QED
        BY <3>2, <3>3
  <2>6. CASE PostDelete(p)
    <3>1. NoIntent \in [kind : Kinds, draft : Drafts \cup {NoDraft}]
        BY DEF NoIntent, Intent
    <3> QED
        BY <1>1, <2>6, <3>1, ProceedTypes, LeaveTypes DEF PostDelete
  <2>7. CASE CommitDelete(p)
    <3>1. StoreTypeOK'
      <4>1. CASE SoftDeleteMatches(target[p], token[p])
          BY <2>7, <4>1, DeleteTypes DEF CommitDelete, SoftDeleteMatches,
             SoftDeleteConversion, SoftDeleteExpense
      <4>2. CASE ~SoftDeleteMatches(target[p], token[p])
          BY <1>1, <2>7, <4>2 DEF CommitDelete
      <4> QED
          BY <4>1, <4>2
    <3> QED
        BY <2>7, <3>1, LeaveTypes DEF CommitDelete
  <2>8. CASE Abandon(p)
      BY <1>1, <2>8, LeaveTypes DEF Abandon
  <2> QED
      BY <1>3, <2>1, <2>2, <2>3, <2>4, <2>5, <2>6, <2>7, <2>8 DEF SessionStep, OtherStep
<1> QED
    BY <1>1, <1>2, <1>3 DEF Next, vars

-------------------------------------------------------------------------------
(* The theorems.                                                           *)

\* The invariant of the argument above holds of every reachable state.
THEOREM Invariance == Spec => []Inv
<1>1. Init => Inv
    BY InitInv
<1>2. Inv /\ [Next]_vars => Inv'
    BY StepInv
<1> QED
    BY <1>1, <1>2, PTL DEF Spec

\* Whoever holds a row's current version holds the row as it is.
THEOREM VersionsNameRows == Spec => []TokenNamesRow
<1>1. Inv => TokenNamesRow
    BY DEF Inv, SessionOK, TokenNamesRow, Holding
<1> QED
    BY <1>1, Invariance, PTL

\* What a request decided holds of the row its conditional write changes.
THEOREM DecisionsStand == Spec => []SaveDecided
<1>1. Inv => SaveDecided
    BY DEF Inv, SessionOK, SaveDecided, Fresh, Holding
<1> QED
    BY <1>1, Invariance, PTL

\* No deletion and no edit leaves half a conversion.
THEOREM ConversionsStayWhole == Spec => []ConversionWhole
<1>1. Inv => ConversionWhole
    BY DEF Inv, RowsOK
<1> QED
    BY <1>1, Invariance, PTL

\* The empty table is of its type.
LEMMA InitTypes == Init => TypeOK
<1> SUFFICES ASSUME Init PROVE StoreTypeOK /\ SessionTypeOK
    BY TypeParts
<1>1. StoreTypeOK
    BY DEF Init, EmptyStore, StoreTypeOK, Statuses
<1>2. SessionTypeOK
    BY DEF Init, SessionTypeOK, Places, NoSnapshot, NoIntent, Intent, Kinds
<1> QED
    BY <1>1, <1>2

\* Every variable keeps its type, and a row has contents once it exists.
THEOREM Types == Spec => []TypeOK
<1>1. Init => TypeOK
    BY InitTypes
<1>2. TypeOK /\ [Next]_vars => TypeOK'
    BY StepTypes
<1> QED
    BY <1>1, <1>2, PTL DEF Spec

\* Whoever changes a row has the right to it as it stands at that moment.
THEOREM WritersAreParties == Spec => WritersArePartiesNow
<1>1. Inv /\ [Next]_vars =>
        \A p \in Sessions, id \in Ids :
            /\ at[p] \in {"save", "delete"} /\ at'[p] # at[p]
            /\ target[p] = id
            /\ Present(id) /\ version'[id] # version[id]
            => CanEditExpense(Actor[p], body[id])
  <2> SUFFICES ASSUME Inv, [Next]_vars, NEW p \in Sessions, NEW id \in Ids,
                      at[p] \in {"save", "delete"}, at'[p] # at[p], target[p] = id,
                      Present(id), version'[id] # version[id]
               PROVE  CanEditExpense(Actor[p], body[id])
      OBVIOUS
  <2>1. PICK q \in Sessions : SessionStep(q)
      BY DEF Next, vars, sessionVars
  <2>2. CASE CommitEdit(q)
    <3>1. q = p
        BY <2>2 DEF CommitEdit, Leave, Issue, Inv, SessionShape
    <3>2. UpdateMatches(id, token[p]) /\ at[p] = "save"
        BY <2>2, <3>1 DEF CommitEdit, storeVars
    <3> QED
        BY <3>2 DEF Inv, SessionOK, Fresh, Holding, UpdateMatches
  <2>3. CASE CommitDelete(q)
    <3>1. q = p
        BY <2>3 DEF CommitDelete, Leave, Inv, SessionShape
    <3>2. SoftDeleteMatches(id, token[p]) /\ at[p] = "delete"
        BY <2>3, <3>1 DEF CommitDelete, storeVars
    <3> QED
        BY <3>2 DEF Inv, SessionOK, Fresh, Holding, SoftDeleteMatches
  <2>4. CASE ~CommitEdit(q) /\ ~CommitDelete(q)
    <3>1. UNCHANGED storeVars \/ UNCHANGED sessionVars
        BY <2>1, <2>4 DEF SessionStep, OtherStep, AddExpense, Settle, RecordNetting,
           CreateConversionPair, OpenForm, OpenDetail, PostEdit, PostDelete, Abandon
    <3> QED
        BY <3>1 DEF storeVars, sessionVars
  <2> QED
      BY <2>2, <2>3, <2>4
<1> QED
    BY <1>1, Invariance, PTL DEF Spec, WritersArePartiesNow

-------------------------------------------------------------------------------
(*****************************************************************************)
(* The ledger.                                                               *)
(*****************************************************************************)

\* The ledger's step or stutter.
LedgerStep == [Books!Next]_(Books!vars)

\* The rows as the ledger sees them, unchanged.
DocsKept == UNCHANGED [id \in Ids |-> Snapshot(id)]

\* A step that leaves the store alone leaves the documents alone.
LEMMA KeptStoreKeepsDocs == ASSUME UNCHANGED storeVars PROVE DocsKept
BY DEF storeVars, DocsKept, Snapshot

\* A page closed without a write is a close of the ledger.
LEMMA LeaveCloses ==
    ASSUME NEW p \in Sessions, Leave(p), UNCHANGED storeVars
    PROVE  LedgerStep
<1>1. DocsKept
    BY KeptStoreKeepsDocs
<1>2. Books!Close(p)
    BY <1>1 DEF Leave, DocsKept, Books!Close, Books!Closed, Books!Blank, NoSnapshot
<1> QED
    BY <1>2 DEF LedgerStep, Books!Next

\* A page given, or given again, is an opening of the ledger.
LEMMA IssueOpens ==
    ASSUME NEW p \in Sessions, NEW id \in Ids, NEW page, NEW told, Present(id),
           Issue(p, page, id, told), UNCHANGED storeVars
    PROVE  LedgerStep
<1>1. DocsKept
    BY KeptStoreKeepsDocs
<1>2. Books!InBooks(id)
    BY DEF Present, Books!InBooks, Snapshot
<1>3. Books!Open(p, id)
    BY <1>1, <1>2 DEF Issue, DocsKept, Books!Open
<1> QED
    BY <1>3 DEF LedgerStep, Books!Next

\* Going on to a write changes nothing the ledger sees.
LEMMA ProceedStutters ==
    ASSUME NEW p \in Sessions, NEW step, NEW what, Proceed(p, step, what),
           UNCHANGED storeVars
    PROVE  LedgerStep
<1>1. DocsKept
    BY KeptStoreKeepsDocs
<1> QED
    BY <1>1 DEF Proceed, DocsKept, LedgerStep, Books!vars

\* Rows inserted together are recorded together.
LEMMA InsertRecords ==
    ASSUME Inv, NEW new \in SUBSET Ids, NEW rowOf, WellLinked(new, rowOf),
           InsertExpenses(new, rowOf), UNCHANGED sessionVars
    PROVE  LedgerStep
<1>1. /\ \A id \in new : /\ status[id] = "unborn" /\ body[id] = NoBody
                         /\ status'[id] = "live" /\ body'[id] = rowOf[id]
      /\ \A id \in Ids \ new : status'[id] = status[id] /\ body'[id] = body[id]
    BY DEF InsertExpenses, Inv, RowsOK, RowsFormed
<1>2. Books!OnlyChanges(new)
    BY <1>1 DEF Books!OnlyChanges, Snapshot
<1>3. \A id \in new : /\ Snapshot(id) = Books!Blank
                      /\ Snapshot(id)'.status = "live"
                      /\ Snapshot(id)'.body.link \in new \cup {NoId}
    BY <1>1 DEF Snapshot, Books!Blank, WellLinked
<1>4. Books!Record(new)
    BY <1>2, <1>3 DEF Books!Record, sessionVars
<1> QED
    BY <1>4 DEF LedgerStep, Books!Next

\* A save that finds its version is a replacement of the document shown.
LEMMA SaveReplaces ==
    ASSUME Inv, NEW p \in Sessions, CommitEdit(p), UpdateMatches(target[p], token[p])
    PROVE  LedgerStep
<1>0. PICK id \in Ids : id = target[p]
    BY DEF CommitEdit, Inv, SessionOK
<1>1. /\ at[p] = "save" /\ SessionOK(p) /\ Leave(p)
      /\ UpdateExpense(id, token[p], intent[p].kind, intent[p].draft)
    BY <1>0 DEF CommitEdit, Inv
<1>2. /\ base[p] = Snapshot(id) /\ Movable(id) /\ intent[p].kind = body[id].kind
    BY <1>0, <1>1 DEF SessionOK, Fresh, Holding, UpdateMatches
<1>3. body[id].kind \in {"SPLIT", "SETTLEMENT"} /\ body[id].link = NoId
    BY <1>1, <1>2 DEF Movable, IsConversion, Immutable, Inv, RowsOK, RowsFormed, Kinds
<1>4. /\ status' = status
      /\ body'[id] = Row(body[id].kind, body[id].addedBy, body[id].link, intent[p].draft)
      /\ \A row \in Ids \ {id} : body'[row] = body[row]
    BY <1>1, <1>2 DEF UpdateExpense, Inv, StoreShape
<1>5. Books!Current(p) /\ base[p].status = "live" /\ Books!Editable(base[p].body)
    BY <1>0, <1>1, <1>2, <1>3 DEF Books!Current, Books!InBooks, Snapshot, Movable, Books!Editable
<1>6. Books!OnlyChanges({id})
    BY <1>4 DEF Books!OnlyChanges, Snapshot
<1>7. Snapshot(id)' = [status |-> "live",
                       body |-> [kind |-> body[id].kind, addedBy |-> body[id].addedBy,
                                 link |-> body[id].link, draft |-> intent[p].draft]]
    BY <1>2, <1>4 DEF Snapshot, Row, Movable
<1>8. Books!Closed(p)
    BY <1>1 DEF Leave, Books!Closed, Books!Blank, NoSnapshot
<1> DEFINE old == base[p].body
<1>9. Snapshot(id)' = [status |-> "live",
                       body |-> [kind |-> old.kind, addedBy |-> old.addedBy,
                                 link |-> old.link, draft |-> Snapshot(id)'.body.draft]]
  <2>1. old = body[id]
      BY <1>2 DEF Snapshot
  <2>2. Snapshot(id)'.body.draft = intent[p].draft
      BY <1>7
  <2> QED
      BY <1>7, <2>1, <2>2
<1>10. Books!Replace(p)
    BY <1>0, <1>5, <1>6, <1>8, <1>9 DEF Books!Replace
<1> QED
    BY <1>10 DEF LedgerStep, Books!Next

\* A deletion takes exactly the document and its legs, all of them live.
LEMMA TakenAreLegs ==
    ASSUME Inv, NEW id \in Ids, status[id] = "live"
    PROVE  /\ Taken(id) = {id} \cup {e \in Ids : Books!Legs(id, e)}
           /\ \A row \in Taken(id) : row \in Ids /\ status[row] = "live"
<1>1. ASSUME NEW e \in Ids, Books!Legs(id, e)
      PROVE  IsConversion(body[id]) /\ e \in Partners(id) /\ status[e] = "live"
  <2>1. e # id /\ status[e] # "unborn" /\ (body[id].link = e \/ body[e].link = id)
      BY <1>1 DEF Books!Legs, Snapshot, Books!Blank, Inv, RowsOK, RowsFormed
  <2>2. CASE body[id].link = e
      BY <2>1, <2>2, StoreAssumption DEF Inv, RowsOK, ConversionWhole, IsConversion,
                                         Partners, Present
  <2>3. CASE body[e].link = id
      BY <2>1, <2>3, StoreAssumption DEF Inv, RowsOK, ConversionWhole, IsConversion,
                                         Partners, Present
  <2> QED
      BY <2>1, <2>2, <2>3
<1>2. ASSUME NEW e \in Ids, e \in Partners(id), e # id, status[e] = "live"
      PROVE  Books!Legs(id, e)
    BY <1>2 DEF Partners, Books!Legs, Snapshot, Books!Blank
<1>3. Taken(id) \subseteq {id} \cup {e \in Ids : Books!Legs(id, e)}
    BY <1>2 DEF Taken, Partners
<1>4. {id} \cup {e \in Ids : Books!Legs(id, e)} \subseteq Taken(id)
    BY <1>1 DEF Taken
<1> QED
    BY <1>1, <1>3, <1>4

\* A deletion that finds its version is a deletion of the document shown.
LEMMA RemovalDeletes ==
    ASSUME Inv, NEW p \in Sessions, CommitDelete(p), SoftDeleteMatches(target[p], token[p])
    PROVE  LedgerStep
<1>0. PICK id \in Ids : id = target[p]
    BY DEF CommitDelete, Inv, SessionOK
<1>1. /\ at[p] = "delete" /\ SessionOK(p) /\ Leave(p) /\ status[id] = "live"
      /\ MarkDeleted(Taken(id))
    BY <1>0 DEF CommitDelete, Inv, SessionOK, SoftDeleteMatches, SoftDeleteConversion,
           SoftDeleteExpense, Taken
<1>2. base[p] = Snapshot(id) /\ CanEditExpense(Actor[p], body[id])
    BY <1>0, <1>1 DEF SessionOK, Fresh, Holding, SoftDeleteMatches, Present
<1>3. /\ Taken(id) = {id} \cup {e \in Ids : Books!Legs(id, e)}
      /\ \A row \in Taken(id) : row \in Ids /\ status[row] = "live"
    BY <1>1, TakenAreLegs
<1>4. /\ \A row \in Taken(id) : status'[row] = "deleted"
      /\ \A row \in Ids \ Taken(id) : status'[row] = status[row]
      /\ body' = body
    BY <1>1, <1>3 DEF MarkDeleted
<1>5. Books!Current(p) /\ base[p].body.kind # "NETTING"
    BY <1>0, <1>1, <1>2 DEF Books!Current, Books!InBooks, Snapshot, CanEditExpense, Immutable
<1>6. Books!OnlyChanges(Taken(id))
    BY <1>4 DEF Books!OnlyChanges, Snapshot
<1>7. \A row \in Taken(id) :
          /\ Snapshot(row).status = "live"
          /\ Snapshot(row)' = [status |-> "deleted", body |-> Snapshot(row).body]
    BY <1>3, <1>4 DEF Snapshot
<1>8. Books!Closed(p)
    BY <1>1 DEF Leave, Books!Closed, Books!Blank, NoSnapshot
<1>9. Books!Delete(p)
    BY <1>0, <1>3, <1>5, <1>6, <1>7, <1>8 DEF Books!Delete
<1> QED
    BY <1>9 DEF LedgerStep, Books!Next

\* Every step of Editing is a step of the ledger or none.
LEMMA StepImplements == Inv /\ [Next]_vars => LedgerStep
<1> SUFFICES ASSUME Inv, [Next]_vars PROVE LedgerStep
    OBVIOUS
<1>1. ASSUME NEW p \in Sessions, SessionStep(p) PROVE LedgerStep
  <2>1. CASE \E id \in Ids, d \in Drafts :
                AddExpense(p, id, d) \/ Settle(p, id, d) \/ RecordNetting(p, id, d)
    <3>1. PICK id \in Ids, kind \in Kinds, d \in Drafts :
              /\ InsertExpenses({id}, [n \in {id} |-> Row(kind, Actor[p], NoId, d)])
              /\ UNCHANGED sessionVars
        BY <2>1 DEF AddExpense, Settle, RecordNetting, Kinds
    <3>2. WellLinked({id}, [n \in {id} |-> Row(kind, Actor[p], NoId, d)])
        BY DEF WellLinked, Row
    <3> QED
        BY <3>1, <3>2, InsertRecords
  <2>2. CASE \E fromId, toId \in Ids, from, to \in Drafts :
                CreateConversionPair(p, fromId, toId, from, to)
    <3>1. PICK fromId \in Ids, toId \in Ids, from \in Drafts, to \in Drafts :
              CreateConversionPair(p, fromId, toId, from, to)
        BY <2>2
    <3> DEFINE rowOf == [n \in {fromId, toId} |->
                            IF n = fromId THEN Row("CURRENCY_CONVERSION", Actor[p], toId, from)
                                          ELSE Row("CURRENCY_CONVERSION", Actor[p], NoId, to)]
    <3>2. /\ rowOf[fromId].kind = "CURRENCY_CONVERSION" /\ rowOf[fromId].link = toId
          /\ rowOf[toId].kind = "CURRENCY_CONVERSION" /\ rowOf[toId].link = NoId
          /\ fromId # toId
        BY <3>1 DEF CreateConversionPair, Row
    <3>3. WellLinked({fromId, toId}, rowOf)
        BY <3>2, StoreAssumption DEF WellLinked, Kinds
    <3> QED
        BY <3>1, <3>3, InsertRecords DEF CreateConversionPair
  <2>3. CASE \E id \in Ids : OpenForm(p, id) \/ OpenDetail(p, id)
    <3>1. PICK id \in Ids, page \in {"form", "detail"} :
              Present(id) /\ Issue(p, page, id, TRUE) /\ UNCHANGED storeVars
        BY <2>3 DEF OpenForm, OpenDetail, Present
    <3> QED
        BY <3>1, IssueOpens
  <2>4. CASE \E d \in Drafts \cup {NoDraft}, acknowledged \in BOOLEAN :
                PostEdit(p, d, acknowledged)
    <3>1. at[p] = "form" /\ target[p] \in Ids /\ UNCHANGED storeVars
        BY <2>4 DEF PostEdit, Inv, SessionOK
    <3> QED
        BY <2>4, <3>1, LeaveCloses, IssueOpens, ProceedStutters DEF PostEdit
  <2>5. CASE CommitEdit(p)
    <3>1. CASE UpdateMatches(target[p], token[p])
        BY <2>5, <3>1, SaveReplaces
    <3>2. CASE ~UpdateMatches(target[p], token[p])
      <4>1. target[p] \in Ids /\ UNCHANGED storeVars
          BY <2>5, <3>2 DEF CommitEdit, Inv, SessionOK
      <4> QED
          BY <2>5, <3>2, <4>1, LeaveCloses, IssueOpens DEF CommitEdit
    <3> QED
        BY <3>1, <3>2
  <2>6. CASE PostDelete(p)
      BY <2>6, LeaveCloses, ProceedStutters DEF PostDelete
  <2>7. CASE CommitDelete(p)
    <3>1. CASE SoftDeleteMatches(target[p], token[p])
        BY <2>7, <3>1, RemovalDeletes
    <3>2. CASE ~SoftDeleteMatches(target[p], token[p])
        BY <2>7, <3>2, LeaveCloses DEF CommitDelete
    <3> QED
        BY <3>1, <3>2
  <2>8. CASE Abandon(p)
      BY <2>8, LeaveCloses DEF Abandon
  <2> QED
      BY <1>1, <2>1, <2>2, <2>3, <2>4, <2>5, <2>6, <2>7, <2>8
      DEF SessionStep, OtherStep
<1>2. CASE UNCHANGED vars
  <2>1. DocsKept
      BY <1>2, KeptStoreKeepsDocs DEF vars
  <2> QED
      BY <1>2, <2>1 DEF vars, sessionVars, DocsKept, LedgerStep, Books!vars
<1> QED
    BY <1>1, <1>2 DEF Next

\* The handlers and statements of Editing implement the ledger: no page's save
\* or deletion ever takes effect on a row that differs from what was read when
\* the page's version was issued.
THEOREM Implementation == Spec => ImplementsLedger
<1>1. Init => Books!Init
    BY DEF Init, EmptyStore, Books!Init, Books!Blank, Snapshot, NoSnapshot
<1>2. Inv /\ [Next]_vars => [Books!Next]_(Books!vars)
    BY StepImplements DEF LedgerStep
<1> QED
    BY <1>1, <1>2, Invariance, PTL DEF Spec, ImplementsLedger, Books!Spec

-------------------------------------------------------------------------------
(*****************************************************************************)
(* History.                                                                  *)
(*****************************************************************************)

IsLeg(id) == body[id].kind = "CURRENCY_CONVERSION"

\* A listed row has been in the table, and is no leg of a conversion.
BatchOK(a) ==
    /\ batch[a] = [group |-> batch[a].group, rows |-> batch[a].rows, parts |-> batch[a].parts]
    /\ \A id \in ListedRows(a) : id \in Ids /\ status[id] # "unborn" /\ ~IsLeg(id)

HistoryInv ==
    /\ Inv
    /\ templates \subseteq Ids
    /\ TemplatesStay
    /\ batch = [a \in Archivers |-> batch[a]]
    /\ \A a \in Archivers : BatchOK(a)

-------------------------------------------------------------------------------
(* Steps of Editing.                                                       *)

\* What a step of Editing does to a row there is: it stays in the table if it
\* was there, and it remains a leg or remains none.
RowStays(id) ==
    status[id] # "unborn" =>
        /\ status'[id] # "unborn"
        /\ Present(id) => Present(id)'
        /\ IsLeg(id)' <=> IsLeg(id)

\* Inserted rows disturb no row there is.
LEMMA InsertLeavesRows ==
    ASSUME NEW new, NEW rowOf, InsertExpenses(new, rowOf), NEW id \in Ids
    PROVE  RowStays(id)
<1>1. CASE id \in new
    BY <1>1 DEF InsertExpenses, RowStays
<1>2. CASE id \notin new
  <2>1. status'[id] = status[id] /\ body'[id] = body[id]
      BY <1>2 DEF InsertExpenses
  <2> QED
      BY <2>1 DEF RowStays, Present, IsLeg
<1> QED
    BY <1>1, <1>2

\* A saved split keeps its row in the table, and no leg is ever saved over.
LEMMA SaveLeavesRows ==
    ASSUME Inv, NEW p \in Sessions, CommitEdit(p), NEW id \in Ids
    PROVE  RowStays(id)
<1>1. CASE UpdateMatches(target[p], token[p])
  <2>1. /\ at[p] = "save" /\ SessionOK(p)
        /\ UpdateExpense(target[p], token[p], intent[p].kind, intent[p].draft)
      BY <1>1 DEF CommitEdit, Inv
  <2>2. target[p] \in Ids /\ intent[p].kind = body[target[p]].kind
      BY <1>1, <2>1 DEF SessionOK, Fresh, Holding, UpdateMatches
  <2>3. /\ status' = status
        /\ body'[target[p]].kind = intent[p].kind
        /\ \A row \in Ids \ {target[p]} : body'[row] = body[row]
      BY <2>1, <2>2 DEF UpdateExpense, Inv, StoreShape, Row
  <2>4. body'[id].kind = body[id].kind
      BY <2>2, <2>3
  <2> QED
      BY <2>3, <2>4 DEF RowStays, Present, IsLeg
<1>2. CASE ~UpdateMatches(target[p], token[p])
  <2>1. UNCHANGED storeVars
      BY <1>2 DEF CommitEdit
  <2> QED
      BY <2>1 DEF storeVars, RowStays, Present, IsLeg
<1> QED
    BY <1>1, <1>2

\* A deleted row stays in the table.
LEMMA DeletionLeavesRows ==
    ASSUME Inv, NEW p \in Sessions, CommitDelete(p), NEW id \in Ids
    PROVE  RowStays(id)
<1>1. CASE SoftDeleteMatches(target[p], token[p])
  <2>1. PICK gone : MarkDeleted(gone) /\ \A row \in gone : status[row] = "live"
      BY <1>1 DEF CommitDelete, SoftDeleteMatches, SoftDeleteConversion, SoftDeleteExpense
  <2>2. body' = body /\ (status'[id] = status[id] \/ (status[id] = "live" /\ status'[id] = "deleted"))
      BY <2>1 DEF MarkDeleted
  <2> QED
      BY <2>2 DEF RowStays, Present, IsLeg
<1>2. CASE ~SoftDeleteMatches(target[p], token[p])
  <2>1. UNCHANGED storeVars
      BY <1>2 DEF CommitDelete
  <2> QED
      BY <2>1 DEF storeVars, RowStays, Present, IsLeg
<1> QED
    BY <1>1, <1>2

\* Every step of Editing leaves the rows there are in the table, and legs legs.
LEMMA EditingLeavesRows ==
    ASSUME Inv, [Next]_vars, NEW id \in Ids
    PROVE  RowStays(id)
<1>1. ASSUME NEW p \in Sessions, SessionStep(p) PROVE RowStays(id)
  <2>1. CASE \E row \in Ids, d \in Drafts :
                AddExpense(p, row, d) \/ Settle(p, row, d) \/ RecordNetting(p, row, d)
    <3>1. PICK new, rowOf : InsertExpenses(new, rowOf)
        BY <2>1 DEF AddExpense, Settle, RecordNetting
    <3> QED
        BY <3>1, InsertLeavesRows
  <2>2. CASE \E fromId, toId \in Ids, from, to \in Drafts :
                CreateConversionPair(p, fromId, toId, from, to)
    <3>1. PICK new, rowOf : InsertExpenses(new, rowOf)
        BY <2>2 DEF CreateConversionPair
    <3> QED
        BY <3>1, InsertLeavesRows
  <2>3. CASE CommitEdit(p)
      BY <2>3, SaveLeavesRows
  <2>4. CASE CommitDelete(p)
      BY <2>4, DeletionLeavesRows
  <2>5. CASE UNCHANGED storeVars
      BY <2>5 DEF storeVars, RowStays, Present, IsLeg
  <2>6. CASE \/ \E row \in Ids : OpenForm(p, row) \/ OpenDetail(p, row)
             \/ \E d \in Drafts \cup {NoDraft}, acknowledged \in BOOLEAN :
                    PostEdit(p, d, acknowledged)
             \/ PostDelete(p) \/ Abandon(p)
    <3>1. UNCHANGED storeVars
        BY <2>6 DEF OpenForm, OpenDetail, PostEdit, PostDelete, Abandon
    <3> QED
        BY <2>5, <3>1
  <2> QED
      BY <1>1, <2>1, <2>2, <2>3, <2>4, <2>6 DEF SessionStep, OtherStep
<1>2. CASE UNCHANGED vars
    BY <1>2 DEF vars, storeVars, RowStays, Present, IsLeg
<1> QED
    BY <1>1, <1>2 DEF Next

-------------------------------------------------------------------------------
(* The write of a collapse.                                                *)

\* The rows a collapse takes: those it listed that are still in the table.
TakenBy(a) == {id \in ListedRows(a) : Present(id)}

\* The write moves only rows it listed that are in the table and no templates,
\* and puts in rows of kind ARCHIVE that no id had.
Moves(new, olds) ==
    /\ new \in SUBSET Ids /\ olds \in SUBSET Ids
    /\ \A id \in new : /\ status[id] = "unborn" /\ status'[id] = "live"
                       /\ version'[id] = InitialVersion
                       /\ body'[id].kind = "ARCHIVE" /\ body'[id].link = NoId
    /\ \A id \in olds : /\ Present(id) /\ ~IsLeg(id) /\ id \notin templates
                        /\ status'[id] = "archived"
    /\ \A id \in Ids \ new : version'[id] = version[id] /\ body'[id] = body[id]
    /\ \A id \in Ids \ (new \cup olds) : status'[id] = status[id]
    /\ status' \in [Ids -> Statuses] /\ version' \in [Ids -> Nat]
    /\ body' = [id \in Ids |-> body'[id]]

\* The ids of the summaries.
SummaryIds(a, idOf) == {idOf[cur] : cur \in BatchCurrencies(a)}

\* Each listed row has one summary: that of its currency.
LEMMA SummaryOf ==
    ASSUME NEW a \in Archivers, NEW idOf, Collapse(a, idOf), NEW cur \in BatchCurrencies(a)
    PROVE  (CHOOSE c \in BatchCurrencies(a) : idOf[c] = idOf[cur]) = cur
<1> DEFINE chosen == CHOOSE c \in BatchCurrencies(a) : idOf[c] = idOf[cur]
<1>1. chosen \in BatchCurrencies(a) /\ idOf[chosen] = idOf[cur]
    OBVIOUS
<1>2. \A c1, c2 \in BatchCurrencies(a) : idOf[c1] = idOf[c2] => c1 = c2
    BY DEF Collapse
<1> QED
    BY <1>1, <1>2

\* A collapse that writes moves every row it listed that is still there, and
\* puts in the summary of each currency.
LEMMA CollapseMoves ==
    ASSUME HistoryInv, NEW a \in Archivers, NEW idOf \in [BatchCurrencies(a) -> Ids],
           Collapse(a, idOf), TakenBy(a) \cap templates = {}
    PROVE  /\ Moves(SummaryIds(a, idOf), TakenBy(a))
           /\ \A cur \in BatchCurrencies(a) : body'[idOf[cur]] = Historical(a, cur)
           /\ \A id \in Ids : into'[id] \in {into[id]} \cup SummaryIds(a, idOf)
           /\ into' = [id \in Ids |-> into'[id]]
<1> DEFINE curs == BatchCurrencies(a)
           new == SummaryIds(a, idOf)
           curOf(id) == CHOOSE cur \in curs : idOf[cur] = id
           rowOf == [id \in new |-> Historical(a, curOf(id))]
           originsOf == [id \in new |-> OriginIDs(a, curOf(id))]
           moved(s) == {o \in originsOf[s] : Present(o)}
           olds == UNION {moved(s) : s \in new}
<1>1. CollapseToHistorical(new, rowOf, originsOf)
    BY DEF Collapse, TakenBy, SummaryIds
<1>2. new \in SUBSET Ids
    BY DEF SummaryIds
<1>3. \A cur \in curs : idOf[cur] \in new /\ curOf(idOf[cur]) = cur
    BY SummaryOf DEF SummaryIds
<1>4. olds = TakenBy(a)
  <2>1. olds \subseteq TakenBy(a)
      BY DEF TakenBy, OriginIDs
  <2>2. ASSUME NEW id \in TakenBy(a) PROVE id \in olds
    <3> DEFINE cur == batch[a].rows[id]
    <3>1. cur \in curs /\ id \in OriginIDs(a, cur) /\ Present(id)
        BY DEF TakenBy, BatchCurrencies, OriginIDs
    <3>2. idOf[cur] \in new /\ originsOf[idOf[cur]] = OriginIDs(a, cur)
        BY <1>3, <3>1
    <3>3. id \in moved(idOf[cur])
        BY <3>1, <3>2
    <3> QED
        BY <3>2, <3>3
  <2> QED
      BY <2>1, <2>2
<1>5. \A id \in TakenBy(a) : id \in Ids /\ Present(id) /\ ~IsLeg(id) /\ id \notin templates
    BY DEF HistoryInv, BatchOK, TakenBy
<1>6. \A id \in olds : (CHOOSE s \in new : id \in moved(s)) \in new
    OBVIOUS
<1>7. /\ \A id \in new : rowOf[id].kind = "ARCHIVE" /\ rowOf[id].link = NoId
      /\ \A cur \in curs : rowOf[idOf[cur]] = Historical(a, cur)
    BY <1>3 DEF Historical, Row
<1> HIDE DEF originsOf, moved, olds, new, curs, rowOf, curOf
<1>8. /\ \A id \in new : status[id] = "unborn"
      /\ status' = [id \in Ids |-> IF id \in new THEN "live"
                                   ELSE IF id \in olds THEN "archived" ELSE status[id]]
      /\ version' = [id \in Ids |-> IF id \in new THEN InitialVersion ELSE version[id]]
      /\ body' = [id \in Ids |-> IF id \in new THEN rowOf[id] ELSE body[id]]
      /\ into' = [id \in Ids |-> IF id \in olds THEN CHOOSE s \in new : id \in moved(s)
                                 ELSE into[id]]
    BY <1>1 DEF CollapseToHistorical, olds, moved
<1>9. \A id \in olds : id \notin new /\ id \in Ids /\ Present(id) /\ ~IsLeg(id) /\ id \notin templates
    BY <1>4, <1>5, <1>8 DEF Present
<1>10. \A id \in new : /\ status'[id] = "live" /\ version'[id] = InitialVersion
                       /\ body'[id].kind = "ARCHIVE" /\ body'[id].link = NoId
    BY <1>2, <1>7, <1>8
<1>11. /\ \A id \in olds : status'[id] = "archived"
       /\ \A id \in Ids \ new : version'[id] = version[id] /\ body'[id] = body[id]
       /\ \A id \in Ids \ (new \cup olds) : status'[id] = status[id]
    BY <1>8, <1>9
<1>12. /\ status' \in [Ids -> Statuses] /\ version' \in [Ids -> Nat]
       /\ body' = [id \in Ids |-> body'[id]]
    BY <1>8 DEF HistoryInv, Inv, StoreShape, Statuses, InitialVersion
<1>13. Moves(new, olds)
    BY <1>2, <1>8, <1>9, <1>10, <1>11, <1>12 DEF Moves
<1>14. \A cur \in curs : body'[idOf[cur]] = Historical(a, cur)
    BY <1>2, <1>3, <1>7, <1>8
<1>15. /\ \A id \in Ids : into'[id] \in {into[id]} \cup new
       /\ into' = [id \in Ids |-> into'[id]]
    BY <1>6, <1>8
<1> QED
    BY <1>4, <1>13, <1>14, <1>15 DEF curs, new

\* Rows moved to the archive and summaries put in keep the table good.
LEMMA MovesAreGood ==
    ASSUME StoreShape, RowsOK, NEW new, NEW olds, Moves(new, olds)
    PROVE  StoreShape' /\ RowsOK' /\ Advance
<1>1. StoreShape'
    BY DEF StoreShape, Moves
<1>2. \A id \in Ids : IF status'[id] = "unborn" THEN status[id] = "unborn"
                                                ELSE id \in new \/ status[id] # "unborn"
    BY DEF Moves, Present
<1>3. RowsFormed'
    BY <1>2 DEF RowsOK, RowsFormed, Moves, Kinds
<1>4. Advance
    BY DEF Advance, Moves
<1>5. ASSUME NEW id \in Ids, status'[id] # "unborn", body'[id].link # NoId
      PROVE  /\ id \notin new /\ id \notin olds
             /\ status[id] # "unborn" /\ body'[id] = body[id] /\ status'[id] = status[id]
  <2>1. id \notin new /\ body'[id] = body[id] /\ status[id] # "unborn"
      BY <1>2, <1>5 DEF Moves
  <2>2. id \notin olds
      BY <1>5, <2>1 DEF Moves, IsLeg, RowsOK, ConversionWhole
  <2> QED
      BY <2>1, <2>2 DEF Moves
<1>6. ConversionWhole'
  <2> SUFFICES ASSUME NEW id \in Ids, status'[id] # "unborn", body'[id].link # NoId
               PROVE  LET leg == body'[id].link
                      IN  /\ leg \in Ids
                          /\ body'[id].kind = "CURRENCY_CONVERSION"
                          /\ status'[leg] = status'[id]
                          /\ body'[leg].kind = "CURRENCY_CONVERSION"
                          /\ body'[leg].link = NoId
                          /\ \A other \in Ids \ {id} :
                                status'[other] # "unborn" => body'[other].link # leg
      BY DEF ConversionWhole
  <2> DEFINE leg == body[id].link
  <2>1. /\ status[id] # "unborn" /\ leg # NoId
        /\ body'[id] = body[id] /\ status'[id] = status[id]
      BY <1>5
  <2>2. /\ leg \in Ids /\ body[id].kind = "CURRENCY_CONVERSION" /\ status[leg] = status[id]
        /\ body[leg].kind = "CURRENCY_CONVERSION" /\ body[leg].link = NoId
        /\ \A other \in Ids \ {id} : status[other] # "unborn" => body[other].link # leg
      BY <2>1 DEF RowsOK, ConversionWhole
  <2>3. leg \notin new /\ leg \notin olds
      BY <2>1, <2>2 DEF Moves, IsLeg
  <2>4. body'[leg] = body[leg] /\ status'[leg] = status[leg]
      BY <2>2, <2>3 DEF Moves
  <2>5. \A other \in Ids \ {id} : status'[other] # "unborn" => body'[other].link # leg
    <3>1. ASSUME NEW other \in Ids \ {id}, status'[other] # "unborn", body'[other].link = leg
          PROVE  FALSE
      <4>1. status[other] # "unborn" /\ body'[other] = body[other]
          BY <1>5, <2>1, <3>1
      <4> QED
          BY <2>2, <3>1, <4>1
    <3> QED
        BY <3>1
  <2> QED
      BY <2>1, <2>2, <2>4, <2>5
<1> QED
    BY <1>1, <1>3, <1>4, <1>6 DEF RowsOK

-------------------------------------------------------------------------------
(* The steps.                                                              *)

\* Listing, reading and the making of recurrences leave rows and pages alone.
LEMMA QuietIsGood == ASSUME Inv, UNCHANGED vars PROVE Inv'
BY StepInv

\* Listing rows starts a batch of rows there are, none of them a leg.
LEMMA ListingKeepsInv ==
    ASSUME HistoryInv, NEW a \in Archivers, NEW g, NEW rows, StartBatch(a, g, rows),
           \A id \in rows : id \in Ids /\ status[id] = "live" /\ ~notCollapsible(id)
    PROVE  HistoryInv'
<1>1. UNCHANGED vars /\ templates' = templates /\ Inv'
    BY QuietIsGood DEF StartBatch, HistoryInv
<1>2. /\ batch' = [b \in Archivers |-> batch'[b]]
      /\ batch'[a] = [group |-> g, rows |-> [id \in rows |-> body[id].draft.cur],
                      parts |-> <<>>]
      /\ \A b \in Archivers \ {a} : batch'[b] = batch[b]
    BY DEF StartBatch, HistoryInv
<1>3. \A id \in Ids : status'[id] = status[id] /\ body'[id] = body[id]
    BY <1>1 DEF vars, storeVars
<1>4. BatchOK(a)'
    BY <1>2, <1>3 DEF BatchOK, ListedRows, notCollapsible, IsLeg
<1>5. ASSUME NEW b \in Archivers \ {a} PROVE BatchOK(b)'
    BY <1>2, <1>3 DEF BatchOK, ListedRows, IsLeg, HistoryInv
<1>6. TemplatesStay'
    BY <1>1, <1>3 DEF HistoryInv, TemplatesStay, Present
<1> QED
    BY <1>1, <1>2, <1>4, <1>5, <1>6 DEF HistoryInv

\* Reading participants changes nothing a batch listed.
LEMMA ReadingKeepsInv ==
    ASSUME HistoryInv, NEW a \in Archivers, NEW id \in Ids, GetParticipants(a, id)
    PROVE  HistoryInv'
<1>1. UNCHANGED vars /\ templates' = templates /\ Inv'
    BY QuietIsGood DEF GetParticipants, HistoryInv
<1>2. /\ batch' = [b \in Archivers |-> batch'[b]]
      /\ \A b \in Archivers \ {a} : batch'[b] = batch[b]
    BY DEF GetParticipants, HistoryInv
<1>3. /\ batch'[a].rows = batch[a].rows
      /\ batch'[a] = [group |-> batch'[a].group, rows |-> batch'[a].rows,
                      parts |-> batch'[a].parts]
  <2> DEFINE read == [r \in ReadRows(a) \cup {id} |->
                         IF r = id THEN PartsOf(id) ELSE batch[a].parts[r]]
  <2> HIDE DEF read
  <2>1. batch' = [batch EXCEPT ![a].parts = read]
      BY DEF GetParticipants, read
  <2> QED
      BY <2>1 DEF HistoryInv, BatchOK
<1>4. \A row \in Ids : status'[row] = status[row] /\ body'[row] = body[row]
    BY <1>1 DEF vars, storeVars
<1>5. ASSUME NEW b \in Archivers PROVE BatchOK(b)'
  <2>1. /\ batch'[b].rows = batch[b].rows
        /\ batch'[b] = [group |-> batch'[b].group, rows |-> batch'[b].rows,
                        parts |-> batch'[b].parts]
      BY <1>2, <1>3 DEF HistoryInv, BatchOK
  <2> QED
      BY <1>4, <2>1 DEF BatchOK, ListedRows, IsLeg, HistoryInv
<1>6. TemplatesStay'
    BY <1>1, <1>4 DEF HistoryInv, TemplatesStay, Present
<1> QED
    BY <1>1, <1>2, <1>5, <1>6 DEF HistoryInv

\* The write of a collapse keeps the invariant, whether it writes or fails.
LEMMA CollapseKeepsInv ==
    ASSUME HistoryInv, NEW a \in Archivers, NEW idOf \in [BatchCurrencies(a) -> Ids],
           Collapse(a, idOf)
    PROVE  HistoryInv'
<1>1. /\ UNCHANGED sessionVars /\ templates' = templates
      /\ batch' = [batch EXCEPT ![a] = NoBatch]
    BY DEF Collapse
<1>2. /\ batch' = [b \in Archivers |-> batch'[b]]
      /\ batch'[a] = NoBatch
      /\ \A b \in Archivers \ {a} : batch'[b] = batch[b]
    BY <1>1 DEF HistoryInv
<1>3. BatchOK(a)'
    BY <1>2 DEF BatchOK, ListedRows, NoBatch
<1>4. CASE TakenBy(a) \cap templates # {}
  <2>1. UNCHANGED vars
      BY <1>1, <1>4 DEF Collapse, TakenBy, vars
  <2>2. \A id \in Ids : status'[id] = status[id] /\ body'[id] = body[id]
      BY <2>1 DEF vars, storeVars
  <2>3. ASSUME NEW b \in Archivers PROVE BatchOK(b)'
      BY <1>2, <1>3, <2>2 DEF BatchOK, ListedRows, IsLeg, HistoryInv
  <2>4. TemplatesStay'
      BY <1>1, <2>2 DEF HistoryInv, TemplatesStay, Present
  <2> QED
      BY <1>1, <1>2, <2>1, <2>3, <2>4, QuietIsGood DEF HistoryInv
<1>5. CASE TakenBy(a) \cap templates = {}
  <2>1. PICK new, olds : Moves(new, olds)
      BY <1>5, CollapseMoves
  <2>2. StoreShape' /\ RowsOK' /\ Advance
      BY <2>1, MovesAreGood DEF HistoryInv, Inv
  <2>3. SessionShape' /\ \A q \in Sessions : SessionKept(q)
      BY <1>1 DEF HistoryInv, Inv, SessionShape, SessionKept, sessionVars
  <2>4. Inv'
      BY <2>2, <2>3, OthersKeepSession DEF HistoryInv, Inv
  <2>5. ASSUME NEW id \in Ids, status[id] # "unborn"
        PROVE  status'[id] # "unborn" /\ body'[id] = body[id]
      BY <2>1, <2>5 DEF Moves
  <2>6. ASSUME NEW b \in Archivers PROVE BatchOK(b)'
      BY <1>2, <1>3, <2>5 DEF BatchOK, ListedRows, IsLeg, HistoryInv
  <2>7. ASSUME NEW id \in templates PROVE Present(id)'
    <3>1. Present(id) /\ id \in Ids /\ id \notin new /\ id \notin olds
        BY <2>1 DEF HistoryInv, TemplatesStay, Moves, Present
    <3> QED
        BY <2>1, <3>1 DEF Moves, Present
  <2> QED
      BY <1>1, <1>2, <2>4, <2>6, <2>7 DEF HistoryInv, TemplatesStay
<1> QED
    BY <1>4, <1>5

\* A recurrence is made of a row that is in the table.
LEMMA RecurrenceKeepsInv ==
    ASSUME HistoryInv, NEW p \in Sessions, NEW id \in Ids,
           CreateRecurrence(p, id) \/ DeleteRecurrence(p, id)
    PROVE  HistoryInv'
<1>1. UNCHANGED vars /\ batch' = batch /\ Inv'
    BY QuietIsGood DEF CreateRecurrence, DeleteRecurrence, HistoryInv
<1>2. \A row \in Ids : status'[row] = status[row] /\ body'[row] = body[row]
    BY <1>1 DEF vars, storeVars
<1>3. \A row \in templates' : row \in Ids /\ Present(row)
    BY DEF CreateRecurrence, DeleteRecurrence, HistoryInv, TemplatesStay
<1>4. TemplatesStay' /\ templates' \subseteq Ids
    BY <1>2, <1>3 DEF TemplatesStay, Present
<1>5. ASSUME NEW b \in Archivers PROVE BatchOK(b)'
    BY <1>1, <1>2 DEF BatchOK, ListedRows, IsLeg, HistoryInv
<1> QED
    BY <1>1, <1>4, <1>5 DEF HistoryInv

\* A step of Editing leaves listed rows and templates as they have to be.
LEMMA EditingKeepsHistory ==
    ASSUME HistoryInv, [Next]_vars, UNCHANGED archVars
    PROVE  HistoryInv'
<1>1. Inv' /\ batch' = batch /\ templates' = templates
    BY StepInv DEF HistoryInv, archVars
<1>2. \A id \in Ids : RowStays(id)
    BY EditingLeavesRows DEF HistoryInv
<1>3. ASSUME NEW b \in Archivers PROVE BatchOK(b)'
    BY <1>1, <1>2 DEF BatchOK, ListedRows, IsLeg, HistoryInv, RowStays
<1>4. \A id \in templates : Present(id)'
  <2> SUFFICES ASSUME NEW id \in templates PROVE Present(id)'
      OBVIOUS
  <2>1. id \in Ids /\ Present(id)
      BY DEF HistoryInv, TemplatesStay
  <2>2. status[id] # "unborn"
      BY <2>1 DEF Present
  <2> QED
      BY <1>2, <2>1, <2>2 DEF RowStays
<1> QED
    BY <1>1, <1>3, <1>4 DEF HistoryInv, TemplatesStay

\* Every step of History keeps the invariant.
LEMMA HistoryStep == HistoryInv /\ [HistoryNext]_historyVars => HistoryInv'
<1> SUFFICES ASSUME HistoryInv, [HistoryNext]_historyVars PROVE HistoryInv'
    OBVIOUS
<1>1. CASE Next /\ UNCHANGED archVars
    BY <1>1, EditingKeepsHistory
<1>2. CASE UNCHANGED historyVars
    BY <1>2, EditingKeepsHistory DEF historyVars
<1>3. ASSUME NEW a \in Archivers, ArchiveStep(a) PROVE HistoryInv'
  <2>1. ASSUME NEW g \in Groups, NEW rows \in SUBSET Ids, ArchiveGroup(a, g, rows)
        PROVE  HistoryInv'
    <3>1. StartBatch(a, g, rows)
        BY <2>1 DEF ArchiveGroup
    <3>2. \A id \in rows : id \in Ids /\ status[id] = "live" /\ ~notCollapsible(id)
        BY <2>1 DEF ArchiveGroup, ListGroupCollapsible
    <3> QED
        BY <3>1, <3>2, ListingKeepsInv
  <2>2. ASSUME NEW friend \in Users, NEW rows \in SUBSET Ids, ArchiveDirect(a, friend, rows)
        PROVE  HistoryInv'
    <3>1. StartBatch(a, NoGroup, rows)
        BY <2>2 DEF ArchiveDirect
    <3>2. \A id \in rows : id \in Ids /\ status[id] = "live" /\ ~notCollapsible(id)
        BY <2>2 DEF ArchiveDirect, ListDirectCollapsible
    <3> QED
        BY <3>1, <3>2, ListingKeepsInv
  <2> QED
      BY <1>3, <2>1, <2>2, ReadingKeepsInv, CollapseKeepsInv DEF ArchiveStep
<1> QED
    BY <1>1, <1>2, <1>3, RecurrenceKeepsInv DEF HistoryNext

\* It holds at the start and so throughout.
LEMMA HistoryInvariance == HistorySpec => []HistoryInv
<1>1. HistoryInit => HistoryInv
  <2> SUFFICES ASSUME HistoryInit PROVE HistoryInv
      OBVIOUS
  <2>1. Inv
      BY InitInv DEF HistoryInit
  <2>2. \A a \in Archivers : BatchOK(a)
      BY DEF HistoryInit, BatchOK, ListedRows, NoBatch
  <2> QED
      BY <2>1, <2>2 DEF HistoryInit, HistoryInv, TemplatesStay
<1> QED
    BY <1>1, HistoryStep, PTL DEF HistorySpec

\* A recurrence always finds its template in the table: no collapse takes a row
\* that became a template after the collapse listed it.
THEOREM TemplatesAlwaysStay == HistorySpec => []TemplatesStay
<1>1. HistoryInv => TemplatesStay
    BY DEF HistoryInv
<1> QED
    BY <1>1, HistoryInvariance, PTL

-------------------------------------------------------------------------------
(* The ledger.                                                             *)

\* Rows moved to the archive and summaries put in are a collapse of the ledger.
LEMMA MovesCollapse ==
    ASSUME Inv, NEW new, NEW olds, Moves(new, olds), UNCHANGED sessionVars
    PROVE  LedgerStep
<1>1. /\ \A id \in new : body[id] = NoBody /\ status[id] = "unborn"
      /\ \A id \in olds : id \notin new
    BY DEF Moves, Inv, RowsOK, RowsFormed, Present
<1>2. Books!OnlyChanges(olds \cup new)
    BY DEF Moves, Books!OnlyChanges, Snapshot
<1>3. \A id \in olds : /\ Books!InBooks(id)
                       /\ Snapshot(id).body.kind # "CURRENCY_CONVERSION"
                       /\ Snapshot(id)' = [status |-> "archived", body |-> Snapshot(id).body]
    BY <1>1 DEF Moves, Books!InBooks, Snapshot, Present, IsLeg
<1>4. \A id \in new : /\ Snapshot(id) = Books!Blank
                      /\ Snapshot(id)'.status = "live"
                      /\ Snapshot(id)'.body.kind = "ARCHIVE"
    BY <1>1 DEF Moves, Snapshot, Books!Blank
<1>5. Books!Collapse(olds, new)
    BY <1>2, <1>3, <1>4 DEF Books!Collapse, Moves, sessionVars
<1>6. olds \in SUBSET Ids /\ new \in SUBSET Ids
    BY DEF Moves
<1> QED
    BY <1>5, <1>6 DEF LedgerStep, Books!Next

\* Every step of History is a step of the ledger or none.
LEMMA HistoryImplements == HistoryInv /\ [HistoryNext]_historyVars => LedgerStep
<1> SUFFICES ASSUME HistoryInv, [HistoryNext]_historyVars PROVE LedgerStep
    OBVIOUS
<1>1. Inv
    BY DEF HistoryInv
<1>2. CASE [Next]_vars
    BY <1>1, <1>2, StepImplements
<1>3. ASSUME NEW a \in Archivers, ArchiveStep(a) PROVE LedgerStep
  <2>1. CASE \E idOf \in [BatchCurrencies(a) -> Ids] : Collapse(a, idOf)
    <3>1. PICK idOf \in [BatchCurrencies(a) -> Ids] : Collapse(a, idOf)
        BY <2>1
    <3>2. UNCHANGED sessionVars
        BY <3>1 DEF Collapse
    <3>3. CASE TakenBy(a) \cap templates = {}
        BY <1>1, <3>1, <3>2, <3>3, CollapseMoves, MovesCollapse
    <3>4. CASE TakenBy(a) \cap templates # {}
      <4>1. UNCHANGED vars
          BY <3>1, <3>2, <3>4 DEF Collapse, TakenBy, vars
      <4> QED
          BY <1>2, <4>1
    <3> QED
        BY <3>3, <3>4
  <2>2. CASE \/ \E g \in Groups, rows \in SUBSET Ids : ArchiveGroup(a, g, rows)
             \/ \E friend \in Users, rows \in SUBSET Ids : ArchiveDirect(a, friend, rows)
             \/ \E id \in Ids : GetParticipants(a, id)
    <3>1. UNCHANGED vars
        BY <2>2 DEF ArchiveGroup, ArchiveDirect, StartBatch, GetParticipants
    <3> QED
        BY <1>2, <3>1
  <2> QED
      BY <1>3, <2>1, <2>2 DEF ArchiveStep
<1>4. CASE \E p \in Sessions, id \in Ids : CreateRecurrence(p, id) \/ DeleteRecurrence(p, id)
  <2>1. UNCHANGED vars
      BY <1>4 DEF CreateRecurrence, DeleteRecurrence
  <2> QED
      BY <1>2, <2>1
<1>5. CASE UNCHANGED historyVars
    BY <1>2, <1>5 DEF historyVars
<1> QED
    BY <1>2, <1>3, <1>4, <1>5 DEF HistoryNext

\* Editing, collapses and recurrences together implement the ledger: whatever a
\* collapse takes away between a page's reading and its write, no save or
\* deletion takes effect on a row that is not as the page shows it, and a
\* collapse takes no leg of a conversion.
THEOREM HistoryImplementsLedger == HistorySpec => ImplementsLedger
<1>1. HistoryInit => Books!Init
    BY DEF HistoryInit, Init, EmptyStore, Books!Init, Books!Blank, Snapshot, NoSnapshot
<1>2. HistoryInv /\ [HistoryNext]_historyVars => [Books!Next]_(Books!vars)
    BY HistoryImplements DEF LedgerStep
<1> QED
    BY <1>1, <1>2, HistoryInvariance, PTL DEF HistorySpec, ImplementsLedger, Books!Spec

-------------------------------------------------------------------------------
(* Types.  A summary is a row like any other: what a batch read are shares *)
(* of users, and somebody always is the one to pay.                        *)

BatchTyped(a) ==
    /\ batch[a].group \in Groups \cup {NoGroup}
    /\ \A id \in ListedRows(a) : batch[a].rows[id] \in Currencies
    /\ \A id \in ReadRows(a) : /\ batch[a].parts[id].people \in SUBSET Users
                               /\ batch[a].parts[id].shares \in [Users -> Int]

HistoryTypes == TypeOK /\ \A a \in Archivers : BatchTyped(a)

\* Of any people with nets somebody has the highest, of equals the lowest id.
LEMMA SomebodyPays ==
    ASSUME NEW S \in SUBSET Users, S # {}, NEW net \in [S -> Int]
    PROVE  \E u \in S : \A v \in S : net[u] > net[v] \/ (net[u] = net[v] /\ u <= v)
<1> DEFINE first(u, T) == \A v \in T : net[u] > net[v] \/ (net[u] = net[v] /\ u <= v)
           Bad == {T \in SUBSET S : T # {} /\ ~ \E u \in T : first(u, T)}
<1> SUFFICES ASSUME Bad # {} PROVE FALSE
  <2>1. SUFFICES ASSUME ~ \E u \in S : first(u, S) PROVE FALSE
      OBVIOUS
  <2>2. S \in Bad
      BY <2>1
  <2> QED
      BY <2>2
<1>1. IsFiniteSet(S)
    BY HistoryAssumption, FS_Subset
<1>2. PICK T \in Bad : \A U \in SUBSET T : U # T => U \notin Bad
  <2>1. Bad \subseteq SUBSET S
      OBVIOUS
  <2> HIDE DEF Bad
  <2> QED
      BY <1>1, <2>1, SmallestSet
<1>3. T \in SUBSET S /\ T # {} /\ ~ \E u \in T : first(u, T)
    BY <1>2
<1>4. PICK x \in T : TRUE
    BY <1>3
<1>5. \A u \in T : u \in Int /\ net[u] \in Int
    BY <1>3, StoreAssumption
<1>6. T \ {x} # {}
    BY <1>3, <1>4, <1>5
<1>7. PICK b \in T \ {x} : first(b, T \ {x})
  <2>1. T \ {x} \in SUBSET T /\ T \ {x} # T /\ T \ {x} \in SUBSET S
      BY <1>3, <1>4
  <2>2. T \ {x} \notin Bad
      BY <1>2, <2>1
  <2> QED
      BY <1>6, <2>1, <2>2
<1>8. CASE net[x] > net[b] \/ (net[x] = net[b] /\ x <= b)
  <2>1. first(x, T)
      BY <1>4, <1>5, <1>7, <1>8
  <2> QED
      BY <1>3, <1>4, <2>1
<1>9. CASE net[b] > net[x] \/ (net[b] = net[x] /\ b <= x)
  <2>1. first(b, T)
      BY <1>4, <1>5, <1>7, <1>9
  <2> QED
      BY <1>3, <1>7, <2>1
<1> QED
    BY <1>4, <1>5, <1>7, <1>8, <1>9

\* What a batch sums up for a person is an amount.
LEMMA BatchNetType ==
    ASSUME HistoryInv, NEW a \in Archivers, BatchTyped(a), ReadRows(a) = ListedRows(a),
           NEW cur, NEW u \in Users
    PROVE  BatchNet(a, cur, u) \in Int
<1> DEFINE S == OriginIDs(a, cur)
           f == [id \in S |-> batch[a].parts[id].shares[u]]
<1>1. S \in SUBSET Ids
    BY DEF OriginIDs, HistoryInv, BatchOK
<1>2. IsFiniteSet(S)
    BY <1>1, HistoryAssumption, FS_Subset
<1>3. \A id \in S : f[id] \in Int
    BY DEF OriginIDs, BatchTyped
<1>4. SumFunctionOnSet(f, S) \in Int
  <2> HIDE DEF f, S
  <2> QED
      BY <1>2, <1>3, SumInt
<1> QED
    BY <1>4 DEF BatchNet, SumFunction

\* The summary of a currency is a row.
LEMMA HistoricalType ==
    ASSUME HistoryInv, NEW a \in Archivers, BatchTyped(a), ReadRows(a) = ListedRows(a),
           NEW cur \in BatchCurrencies(a)
    PROVE  Historical(a, cur) \in Body
<1> DEFINE S == Involved(a, cur)
           net == [u \in S |-> BatchNet(a, cur, u)]
<1>1. S \in SUBSET Users
    BY DEF Involved, OriginIDs, BatchTyped
<1>2. \A u \in Users : BatchNet(a, cur, u) \in Int
    BY BatchNetType
<1>3. PaidBy(a, cur) \in Users
  <2>1. CASE S = {}
      BY <2>1, HistoryAssumption DEF PaidBy
  <2>2. CASE S # {}
    <3>1. net \in [S -> Int]
        BY <1>1, <1>2
    <3>2. \E u \in S : \A v \in S : net[u] > net[v] \/ (net[u] = net[v] /\ u <= v)
      <4> HIDE DEF S, net
      <4> QED
          BY <1>1, <2>2, <3>1, SomebodyPays
    <3>3. \E u \in S : \A v \in S :
              \/ BatchNet(a, cur, u) > BatchNet(a, cur, v)
              \/ BatchNet(a, cur, u) = BatchNet(a, cur, v) /\ u <= v
        BY <3>2
    <3>4. PaidBy(a, cur) \in S
        BY <2>2, <3>3 DEF PaidBy
    <3> QED
        BY <1>1, <3>4
  <2> QED
      BY <2>1, <2>2
<1>4. cur \in Currencies /\ batch[a].group \in Groups \cup {NoGroup} /\ ArchActor[a] \in Users
    BY HistoryAssumption DEF BatchCurrencies, BatchTyped
<1> DEFINE owed == [u \in Users |-> BatchNet(a, cur, u)]
<1>5. owed \in [Users -> Int]
    BY <1>2
<1> HIDE DEF S, owed
<1>6. [payer |-> PaidBy(a, cur), cur |-> cur, group |-> batch[a].group,
       people |-> S, shares |-> owed] \in Draft
    BY <1>1, <1>3, <1>4, <1>5 DEF Draft
<1>7. Historical(a, cur) = [kind |-> "ARCHIVE", addedBy |-> ArchActor[a], link |-> NoId,
                            draft |-> [payer |-> PaidBy(a, cur), cur |-> cur,
                                       group |-> batch[a].group,
                                       people |-> S, shares |-> owed]]
    BY DEF Historical, Row, S, owed
<1> QED
    BY <1>4, <1>6, <1>7 DEF Body, Kinds

\* A step that leaves the rows and the pages alone keeps their types.
LEMMA QuietTypes == ASSUME TypeOK, UNCHANGED vars PROVE TypeOK'
BY StepTypes

\* What is read of a row are shares of users.
LEMMA PartsType ==
    ASSUME TypeOK, NEW id \in Ids
    PROVE  PartsOf(id).people \in SUBSET Users /\ PartsOf(id).shares \in [Users -> Int]
<1>1. CASE Present(id)
  <2>1. body[id] \in Body
      BY <1>1 DEF TypeOK, Present
  <2>2. body[id].draft \in Draft
      BY <2>1 DEF Body
  <2> QED
      BY <1>1, <2>2 DEF PartsOf, Draft
<1>2. CASE ~Present(id)
    BY <1>2 DEF PartsOf
<1> QED
    BY <1>1, <1>2

\* Listing rows lists their currencies.
LEMMA ListingKeepsTypes ==
    ASSUME HistoryInv, HistoryTypes, NEW a \in Archivers, NEW g \in Groups \cup {NoGroup},
           NEW rows, StartBatch(a, g, rows), \A id \in rows : id \in Ids /\ status[id] = "live"
    PROVE  HistoryTypes'
<1>1. TypeOK'
    BY QuietTypes DEF StartBatch, HistoryTypes
<1>2. /\ batch'[a] = [group |-> g, rows |-> [id \in rows |-> body[id].draft.cur],
                      parts |-> <<>>]
      /\ \A b \in Archivers \ {a} : batch'[b] = batch[b]
    BY DEF StartBatch, HistoryInv
<1>3. ASSUME NEW id \in rows PROVE body[id].draft.cur \in Currencies
  <2>1. body[id] \in Body
      BY DEF HistoryTypes, TypeOK
  <2>2. body[id].draft \in Draft
      BY <2>1 DEF Body
  <2> QED
      BY <2>2 DEF Draft
<1>4. BatchTyped(a)'
    BY <1>2, <1>3 DEF BatchTyped, ListedRows, ReadRows
<1>5. ASSUME NEW b \in Archivers \ {a} PROVE BatchTyped(b)'
    BY <1>2 DEF BatchTyped, ListedRows, ReadRows, HistoryTypes
<1> QED
    BY <1>1, <1>4, <1>5 DEF HistoryTypes

\* Reading participants reads shares.
LEMMA ReadingKeepsTypes ==
    ASSUME HistoryInv, HistoryTypes, NEW a \in Archivers, NEW id \in Ids,
           GetParticipants(a, id)
    PROVE  HistoryTypes'
<1> DEFINE read == [r \in ReadRows(a) \cup {id} |->
                       IF r = id THEN PartsOf(id) ELSE batch[a].parts[r]]
<1>1. TypeOK'
    BY QuietTypes DEF GetParticipants, HistoryTypes
<1>2. \A r \in ReadRows(a) \cup {id} : /\ read[r].people \in SUBSET Users
                                       /\ read[r].shares \in [Users -> Int]
    BY PartsType DEF HistoryTypes, BatchTyped
<1>3. DOMAIN read = ReadRows(a) \cup {id}
    OBVIOUS
<1>4. batch' = [batch EXCEPT ![a].parts = read]
    BY DEF GetParticipants
<1> HIDE DEF read
<1>5. /\ batch'[a].rows = batch[a].rows /\ batch'[a].group = batch[a].group
      /\ batch'[a].parts = read
      /\ \A b \in Archivers \ {a} : batch'[b] = batch[b]
    BY <1>4 DEF HistoryInv, BatchOK
<1>6. BatchTyped(a)'
    BY <1>2, <1>3, <1>5 DEF BatchTyped, ListedRows, ReadRows, HistoryTypes
<1>7. ASSUME NEW b \in Archivers \ {a} PROVE BatchTyped(b)'
    BY <1>5 DEF BatchTyped, ListedRows, ReadRows, HistoryTypes
<1> QED
    BY <1>1, <1>6, <1>7 DEF HistoryTypes

\* The write puts in rows.
LEMMA CollapseKeepsTypes ==
    ASSUME HistoryInv, HistoryTypes, NEW a \in Archivers,
           NEW idOf \in [BatchCurrencies(a) -> Ids], Collapse(a, idOf)
    PROVE  HistoryTypes'
<1>1. /\ UNCHANGED sessionVars
      /\ batch'[a] = NoBatch
      /\ \A b \in Archivers \ {a} : batch'[b] = batch[b]
    BY DEF Collapse, HistoryInv
<1>2. BatchTyped(a)'
    BY <1>1 DEF BatchTyped, NoBatch, ListedRows, ReadRows
<1>3. ASSUME NEW b \in Archivers \ {a} PROVE BatchTyped(b)'
    BY <1>1 DEF BatchTyped, ListedRows, ReadRows, HistoryTypes
<1>4. TypeOK'
  <2>1. CASE TakenBy(a) \cap templates # {}
    <3>1. UNCHANGED vars
        BY <1>1, <2>1 DEF Collapse, TakenBy, vars
    <3> QED
        BY <3>1, QuietTypes DEF HistoryTypes
  <2>2. CASE TakenBy(a) \cap templates = {}
    <3> DEFINE new == SummaryIds(a, idOf)
               olds == TakenBy(a)
    <3>1. /\ Moves(new, olds)
          /\ \A cur \in BatchCurrencies(a) : body'[idOf[cur]] = Historical(a, cur)
          /\ \A id \in Ids : into'[id] \in {into[id]} \cup new
          /\ into' = [id \in Ids |-> into'[id]]
        BY <2>2, CollapseMoves
    <3>2. \A cur \in BatchCurrencies(a) : Historical(a, cur) \in Body
        BY HistoricalType DEF Collapse, HistoryTypes
    <3>3. \A id \in new : body'[id] \in Body
        BY <3>1, <3>2 DEF SummaryIds
    <3> HIDE DEF new, olds
    <3>4. StoreTypeOK
        BY TypeParts DEF HistoryTypes
    <3>5. \A id \in Ids : /\ body'[id] \in Body \cup {NoBody}
                          /\ status'[id] = "unborn" <=> body'[id] = NoBody
      <4> SUFFICES ASSUME NEW id \in Ids
                   PROVE  /\ body'[id] \in Body \cup {NoBody}
                          /\ status'[id] = "unborn" <=> body'[id] = NoBody
          OBVIOUS
      <4>1. CASE id \in new
          BY <3>1, <3>3, <4>1, NoBodyAssumption DEF Moves
      <4>2. CASE id \notin new
        <5>1. body'[id] = body[id]
            BY <3>1, <4>2 DEF Moves
        <5>2. status'[id] = "unborn" <=> status[id] = "unborn"
            BY <3>1, <4>2 DEF Moves, Present
        <5> QED
            BY <3>4, <5>1, <5>2 DEF StoreTypeOK
      <4> QED
          BY <4>1, <4>2
    <3>6. /\ status' \in [Ids -> Statuses] /\ version' \in [Ids -> Nat]
          /\ body' \in [Ids -> Body \cup {NoBody}]
        BY <3>1, <3>5 DEF Moves
    <3>7. into' \in [Ids -> Ids \cup {NoId}]
        BY <3>1, <3>4 DEF Moves, StoreTypeOK
    <3>8. StoreTypeOK'
        BY <3>5, <3>6, <3>7 DEF StoreTypeOK
    <3>9. SessionTypeOK'
        BY <1>1, TypeParts DEF HistoryTypes, SessionTypeOK, sessionVars
    <3>10. StoreTypeOK' /\ SessionTypeOK' => TypeOK'
        BY TypeParts, PTL
    <3> QED
        BY <3>8, <3>9, <3>10
  <2> QED
      BY <2>1, <2>2
<1> QED
    BY <1>2, <1>3, <1>4 DEF HistoryTypes

\* Every step keeps the types.
LEMMA HistoryStepTypes ==
    HistoryInv /\ HistoryTypes /\ [HistoryNext]_historyVars => HistoryTypes'
<1> SUFFICES ASSUME HistoryInv, HistoryTypes, [HistoryNext]_historyVars PROVE HistoryTypes'
    OBVIOUS
<1>1. ASSUME TypeOK', batch' = batch PROVE HistoryTypes'
    BY <1>1 DEF HistoryTypes, BatchTyped, ListedRows, ReadRows
<1>2. CASE Next /\ UNCHANGED archVars
    BY <1>1, <1>2, StepTypes DEF HistoryTypes, archVars
<1>3. CASE UNCHANGED historyVars
    BY <1>1, <1>3, QuietTypes DEF HistoryTypes, historyVars, archVars
<1>4. CASE \E p \in Sessions, id \in Ids : CreateRecurrence(p, id) \/ DeleteRecurrence(p, id)
    BY <1>1, <1>4, QuietTypes DEF HistoryTypes, CreateRecurrence, DeleteRecurrence
<1>5. ASSUME NEW a \in Archivers, ArchiveStep(a) PROVE HistoryTypes'
  <2>1. ASSUME NEW g \in Groups, NEW rows \in SUBSET Ids, ArchiveGroup(a, g, rows)
        PROVE  HistoryTypes'
    <3>1. StartBatch(a, g, rows) /\ \A id \in rows : id \in Ids /\ status[id] = "live"
        BY <2>1 DEF ArchiveGroup, ListGroupCollapsible
    <3> QED
        BY <3>1, ListingKeepsTypes
  <2>2. ASSUME NEW friend \in Users, NEW rows \in SUBSET Ids, ArchiveDirect(a, friend, rows)
        PROVE  HistoryTypes'
    <3>1. StartBatch(a, NoGroup, rows) /\ \A id \in rows : id \in Ids /\ status[id] = "live"
        BY <2>2 DEF ArchiveDirect, ListDirectCollapsible
    <3> QED
        BY <3>1, ListingKeepsTypes
  <2> QED
      BY <1>5, <2>1, <2>2, ReadingKeepsTypes, CollapseKeepsTypes DEF ArchiveStep
<1> QED
    BY <1>2, <1>3, <1>4, <1>5 DEF HistoryNext

\* Types hold at the start and so throughout.
LEMMA HistoryTypesInvariance == HistorySpec => []HistoryTypes
<1>1. HistoryInit => HistoryTypes
  <2> SUFFICES ASSUME HistoryInit PROVE HistoryTypes
      OBVIOUS
  <2>1. TypeOK
      BY InitTypes DEF HistoryInit
  <2>2. \A a \in Archivers : BatchTyped(a)
      BY DEF HistoryInit, BatchTyped, ListedRows, ReadRows, NoBatch
  <2> QED
      BY <2>1, <2>2 DEF HistoryTypes
<1> QED
    BY <1>1, HistoryStepTypes, HistoryInvariance, PTL DEF HistorySpec

\* Every variable keeps its type, rows that collapses write included: the
\* payer a summary names is a user even when its rows had left the table.
THEOREM HistoryTypeCorrect == HistorySpec => []TypeOK
<1>1. HistoryTypes => TypeOK
    BY DEF HistoryTypes
<1> QED
    BY <1>1, HistoryTypesInvariance, PTL

-------------------------------------------------------------------------------
(* Nets.                                                                   *)

\* A collapse lets go of its batch only when it writes.
LEMMA OnlyWritesCommit ==
    ASSUME HistoryInv, HistoryNext, NEW a \in Archivers, Commits(a)
    PROVE  \E idOf \in [BatchCurrencies(a) -> Ids] : Collapse(a, idOf)
<1>1. batch[a] # NoBatch /\ batch'[a] = NoBatch
    BY DEF Commits
<1>2. ~ UNCHANGED batch
    BY <1>1
<1>3. PICK b \in Archivers : ArchiveStep(b)
    BY <1>2 DEF HistoryNext, archVars, CreateRecurrence, DeleteRecurrence
<1>4. ASSUME NEW g, NEW rows, StartBatch(b, g, rows) PROVE FALSE
    BY <1>1, <1>4 DEF StartBatch, HistoryInv, NoBatch
<1>5. ASSUME NEW id \in Ids, GetParticipants(b, id) PROVE FALSE
  <2> DEFINE read == [r \in ReadRows(b) \cup {id} |->
                         IF r = id THEN PartsOf(id) ELSE batch[b].parts[r]]
  <2>1. batch' = [batch EXCEPT ![b].parts = read]
      BY <1>5 DEF GetParticipants
  <2>2. DOMAIN read # {}
      OBVIOUS
  <2> HIDE DEF read
  <2>3. a = b
      BY <1>1, <2>1 DEF HistoryInv
  <2>4. batch'[a].parts = read
      BY <2>1, <2>3 DEF HistoryInv, BatchOK
  <2>5. DOMAIN NoBatch.parts = {}
      BY DEF NoBatch
  <2> QED
      BY <1>1, <2>2, <2>4, <2>5
<1>6. PICK idOf \in [BatchCurrencies(b) -> Ids] : Collapse(b, idOf)
    BY <1>3, <1>4, <1>5 DEF ArchiveStep, ArchiveGroup, ArchiveDirect
<1>7. a = b
    BY <1>1, <1>6 DEF Collapse, HistoryInv
<1> QED
    BY <1>6, <1>7

\* A sum over some rows is the sum, over them, of what every row holds.
LEMMA SumWithin ==
    ASSUME NEW F, NEW S, IsFiniteSet(S)
    PROVE  SumFunction([id \in S |-> F[id]]) = SumFunctionOnSet(F, S)
<1> DEFINE f == [id \in S |-> F[id]]
<1>1. DOMAIN f = S /\ \A id \in S : f[id] = F[id]
    OBVIOUS
<1> HIDE DEF f
<1>2. SumFunctionOnSet(f, S) = SumFunctionOnSet(F, S)
    BY <1>1, SumEqual
<1>3. SumFunction(f) = SumFunctionOnSet(f, S)
    BY <1>1 DEF SumFunction
<1> QED
    BY <1>2, <1>3 DEF f

\* Rows replaced by one row that holds their sum leave a total as it was.
LEMMA SumReplaced ==
    ASSUME NEW F, NEW G, NEW S, NEW old \in SUBSET S, NEW x, x \notin S, IsFiniteSet(S),
           \A id \in S : F[id] \in Int, \A id \in S \ old : G[id] = F[id],
           G[x] = SumFunctionOnSet(F, old)
    PROVE  SumFunctionOnSet(G, (S \ old) \cup {x}) = SumFunctionOnSet(F, S)
<1> DEFINE kept == S \ old
<1>1. IsFiniteSet(old) /\ IsFiniteSet(kept) /\ IsFiniteSet({x})
    BY FS_Subset, FS_Singleton
<1>2. S = kept \cup old /\ kept \cap old = {} /\ kept \cap {x} = {}
    OBVIOUS
<1> HIDE DEF kept
<1>3. SumFunctionOnSet(F, S) = SumFunctionOnSet(F, kept) + SumFunctionOnSet(F, old)
    BY <1>1, <1>2, SumUnion
<1>4. SumFunctionOnSet(F, old) \in Int
    BY <1>1, <1>2, SumInt
<1>5. \A id \in kept : G[id] = F[id] /\ G[id] \in Int
    BY DEF kept
<1>6. SumFunctionOnSet(G, kept) = SumFunctionOnSet(F, kept)
    BY <1>1, <1>5, SumEqual
<1>7. \A id \in kept \cup {x} : G[id] \in Int
    BY <1>4, <1>5
<1>8. SumFunctionOnSet(G, kept \cup {x}) = SumFunctionOnSet(G, kept) + SumFunctionOnSet(G, {x})
    BY <1>1, <1>2, <1>7, SumUnion
<1>9. SumFunctionOnSet(G, {x}) = G[x]
    BY <1>4, SumSingle
<1> QED
    BY <1>3, <1>6, <1>8, <1>9 DEF kept

\* A collapse whose rows are as it read them moves their sum into its summaries.
LEMMA CollapseKeepsNets ==
    ASSUME HistoryInv, HistoryTypes, NEW a \in Archivers,
           NEW idOf \in [BatchCurrencies(a) -> Ids], Collapse(a, idOf), Undisturbed(a),
           TakenBy(a) \cap templates = {},
           NEW u \in Users, NEW cur \in Currencies, NEW g \in Groups \cup {NoGroup}
    PROVE  Net(u, cur, g)' = Net(u, cur, g)
<1> DEFINE curs == BatchCurrencies(a)
           new == SummaryIds(a, idOf)
           listed == ListedRows(a)
           F == [id \in Ids |-> body[id].draft.shares[u]]
           G == [id \in Ids |-> body'[id].draft.shares[u]]
           before == {id \in Ids : /\ status[id] = "live"
                                   /\ body[id].draft.cur = cur
                                   /\ body[id].draft.group = g}
           after == {id \in Ids : /\ status'[id] = "live"
                                  /\ body'[id].draft.cur = cur
                                  /\ body'[id].draft.group = g}
<1>1. Moves(new, listed) /\ \A c \in curs : body'[idOf[c]] = Historical(a, c)
  <2>1. TakenBy(a) = listed
      BY DEF TakenBy, Undisturbed, Present
  <2> QED
      BY <2>1, CollapseMoves
<1>2. Net(u, cur, g) = SumFunctionOnSet(F, before)
  <2>1. IsFiniteSet(before)
      BY HistoryAssumption, FS_Subset
  <2>2. [id \in before |-> body[id].draft.shares[u]] = [id \in before |-> F[id]]
      OBVIOUS
  <2>3. Net(u, cur, g) = SumFunction([id \in before |-> body[id].draft.shares[u]])
      BY DEF Net
  <2> HIDE DEF before, F
  <2> QED
      BY <2>1, <2>2, <2>3, SumWithin
<1>3. Net(u, cur, g)' = SumFunctionOnSet(G, after)
  <2>1. IsFiniteSet(after)
      BY HistoryAssumption, FS_Subset
  <2>2. [id \in after |-> body'[id].draft.shares[u]] = [id \in after |-> G[id]]
      OBVIOUS
  <2>3. Net(u, cur, g)' = SumFunction([id \in after |-> body'[id].draft.shares[u]])
      BY DEF Net
  <2> HIDE DEF after, G
  <2> QED
      BY <2>1, <2>2, <2>3, SumWithin
<1>4. \A id \in before : F[id] \in Int
  <2> SUFFICES ASSUME NEW id \in before PROVE body[id].draft.shares[u] \in Int
      OBVIOUS
  <2>1. body[id] \in Body
      BY DEF HistoryTypes, TypeOK
  <2>2. body[id].draft \in Draft
      BY <2>1 DEF Body
  <2> QED
      BY <2>2 DEF Draft
<1>5. IsFiniteSet(before)
    BY HistoryAssumption, FS_Subset
<1>6. \A id \in listed : /\ id \in Ids /\ status[id] = "live"
                         /\ body[id].draft.cur = batch[a].rows[id]
                         /\ body[id].draft.group = batch[a].group
                         /\ batch[a].parts[id].shares[u] = body[id].draft.shares[u]
  <2> SUFFICES ASSUME NEW id \in listed
               PROVE  /\ id \in Ids /\ status[id] = "live"
                      /\ body[id].draft.cur = batch[a].rows[id]
                      /\ body[id].draft.group = batch[a].group
                      /\ batch[a].parts[id].shares[u] = body[id].draft.shares[u]
      OBVIOUS
  <2>1. /\ id \in Ids /\ status[id] = "live"
        /\ body[id].draft.cur = batch[a].rows[id]
        /\ body[id].draft.group = batch[a].group
        /\ PartsOf(id) = batch[a].parts[id]
      BY DEF HistoryInv, BatchOK, Undisturbed
  <2>2. PartsOf(id).shares = body[id].draft.shares
      BY <2>1 DEF PartsOf, Present
  <2> QED
      BY <2>1, <2>2
<1>7. \A c \in curs : /\ idOf[c] \in new /\ body'[idOf[c]].draft.cur = c
                      /\ body'[idOf[c]].draft.group = batch[a].group
                      /\ body'[idOf[c]].draft.shares[u] = BatchNet(a, c, u)
  <2> SUFFICES ASSUME NEW c \in curs
               PROVE  /\ idOf[c] \in new /\ body'[idOf[c]].draft.cur = c
                      /\ body'[idOf[c]].draft.group = batch[a].group
                      /\ body'[idOf[c]].draft.shares[u] = BatchNet(a, c, u)
      OBVIOUS
  <2>1. /\ Historical(a, c).draft.cur = c
        /\ Historical(a, c).draft.group = batch[a].group
        /\ Historical(a, c).draft.shares = [v \in Users |-> BatchNet(a, c, v)]
      BY DEF Historical, Row
  <2>2. Historical(a, c).draft.shares[u] = BatchNet(a, c, u)
      BY <2>1
  <2>3. body'[idOf[c]] = Historical(a, c)
      BY <1>1
  <2> QED
      BY <2>1, <2>2, <2>3 DEF SummaryIds
<1>8. \A id \in new : \E c \in curs : id = idOf[c]
    BY DEF SummaryIds
<1>9. /\ \A id \in new : id \in Ids /\ status[id] = "unborn" /\ status'[id] = "live"
      /\ \A id \in listed : status'[id] = "archived"
      /\ \A id \in Ids \ new : body'[id] = body[id]
      /\ \A id \in Ids \ (new \cup listed) : status'[id] = status[id]
    BY <1>1 DEF Moves
<1>10. \A id \in listed : batch[a].rows[id] \in curs
    BY DEF BatchCurrencies
<1>11. CASE cur \in curs /\ g = batch[a].group
  <2> DEFINE old == OriginIDs(a, cur)
             x == idOf[cur]
  <2>1. old \in SUBSET before /\ old \subseteq listed
      BY <1>6, <1>11 DEF OriginIDs
  <2>2. x \in new /\ x \in Ids /\ x \notin before
      BY <1>7, <1>9, <1>11
  <2>3. after = (before \ old) \cup {x}
    <3>1. \A id \in before \ old : id \notin new /\ id \notin listed
        BY <1>6, <1>9 DEF OriginIDs
    <3>2. before \ old \subseteq after
        BY <1>9, <3>1
    <3>3. x \in after
        BY <1>7, <1>9, <1>11, <2>2
    <3>4. ASSUME NEW id \in after PROVE id \in (before \ old) \cup {x}
      <4>1. CASE id \in new
          BY <1>7, <1>8, <3>4, <4>1
      <4>2. CASE id \notin new
        <5>1. id \notin listed
            BY <1>9, <3>4
        <5>2. status'[id] = status[id] /\ body'[id] = body[id]
            BY <1>9, <4>2, <5>1
        <5> QED
            BY <2>1, <3>4, <5>1, <5>2
      <4> QED
          BY <4>1, <4>2
    <3> QED
        BY <3>2, <3>3, <3>4
  <2>4. \A id \in before \ old : G[id] = F[id]
      BY <1>9
  <2>5. G[x] = SumFunctionOnSet(F, old)
    <3>1. IsFiniteSet(old)
        BY <1>5, <2>1, FS_Subset
    <3>2. \A id \in old : batch[a].parts[id].shares[u] = F[id]
        BY <1>6, <2>1
    <3>3. [id \in old |-> batch[a].parts[id].shares[u]] = [id \in old |-> F[id]]
        BY <3>2
    <3>4. BatchNet(a, cur, u) = SumFunction([id \in old |-> batch[a].parts[id].shares[u]])
        BY DEF BatchNet
    <3>5. G[x] = BatchNet(a, cur, u)
        BY <1>7, <1>11, <2>2
    <3> HIDE DEF old, F, G
    <3>6. SumFunction([id \in old |-> F[id]]) = SumFunctionOnSet(F, old)
        BY <3>1, SumWithin
    <3> QED
        BY <3>3, <3>4, <3>5, <3>6
  <2> HIDE DEF old, x, F, G, before, after
  <2>6. SumFunctionOnSet(G, (before \ old) \cup {x}) = SumFunctionOnSet(F, before)
      BY <1>4, <1>5, <2>1, <2>2, <2>4, <2>5, SumReplaced
  <2> QED
      BY <1>2, <1>3, <2>3, <2>6
<1>12. CASE ~ (cur \in curs /\ g = batch[a].group)
  <2>1. \A id \in before : id \notin new /\ id \notin listed
      BY <1>6, <1>9, <1>10, <1>12
  <2>2. \A id \in after : id \notin new /\ id \notin listed
      BY <1>7, <1>8, <1>9, <1>12
  <2>3. after = before
      BY <1>9, <2>1, <2>2
  <2>4. \A id \in before : F[id] = G[id]
      BY <1>9, <2>1
  <2> HIDE DEF F, G, before, after
  <2>5. SumFunctionOnSet(F, before) = SumFunctionOnSet(G, before)
      BY <1>5, <2>4, SumEqual
  <2> QED
      BY <1>2, <1>3, <2>3, <2>5
<1> QED
    BY <1>11, <1>12

\* A collapse that nobody disturbed leaves what every person is owed, in every
\* currency and scope, exactly as it was, for any number of rows and amounts.
THEOREM CollapsesKeepNets == HistorySpec => UndisturbedCollapseKeepsNets
<1>1. ASSUME HistoryInv, HistoryTypes, HistoryNext, NEW a \in Archivers,
             Commits(a), Undisturbed(a)
      PROVE  KeepsNets
  <2>1. PICK idOf \in [BatchCurrencies(a) -> Ids] : Collapse(a, idOf)
      BY <1>1, OnlyWritesCommit
  <2>2. CASE TakenBy(a) \cap templates = {}
      BY <1>1, <2>1, <2>2, CollapseKeepsNets DEF KeepsNets
  <2>3. CASE TakenBy(a) \cap templates # {}
    <3>1. status' = status /\ body' = body
        BY <2>1, <2>3 DEF Collapse, TakenBy, storeVars
    <3> QED
        BY <3>1 DEF KeepsNets, Net
  <2> QED
      BY <2>2, <2>3
<1>2. HistoryInv /\ HistoryTypes /\ [HistoryNext]_historyVars
      => [\A a \in Archivers : Commits(a) /\ Undisturbed(a) => KeepsNets]_historyVars
    BY <1>1
<1> QED
    BY <1>2, HistoryInvariance, HistoryTypesInvariance, PTL
    DEF HistorySpec, UndisturbedCollapseKeepsNets

===============================================================================
