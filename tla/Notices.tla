-------------------------------- MODULE Notices ---------------------------------
(***************************************************************************)
(* Who is told of an expense (service/notify_service.go,                   *)
(* store/notifications.go, store/push.go, push/push.go): the requests of   *)
(* expense_service.go from their checks to their notifications, and the    *)
(* deliveries that run after a request has been answered.                  *)
(*                                                                         *)
(* Who may save what is in Editing; here it is who takes part, and that    *)
(* the page is current.                                                    *)
(***************************************************************************)
EXTENDS People

CONSTANTS
    Endpoints,  \* push endpoints of browsers
    OptedIn     \* users who asked for mail

ASSUME NoticesAssumption == IsFiniteSet(Endpoints)

VARIABLES
    inputs,         \* expense_split_inputs: the version they were typed for, or 0
    notices,        \* notifications
    subscriptions,  \* push_notifications: pairs <<user, endpoint>>
    delivery,       \* the delivery of each request, in the background
    recorded        \* history: notifications ever recorded

noticeVars == <<inputs, notices, subscriptions, delivery, recorded>>
vars == <<peopleVars, req, noticeVars>>

-----------------------------------------------------------------------------
(* The requests.                                                           *)

Deleted(x) == Recent(x).kind = "deleted"

\* Requests that have saved a version of x and not yet what was typed for it.
Pending(x) ==
    {r \in Requests : /\ <<"inputs">> \in ToSet(req[r].todo)
                      /\ \E e \in ToSet(req[r].about) : e.row = x /\ e.share > 0}

\* by: the request that saved it; kind: "added", "settled", "converted", "updated"
\* or "deleted".
Version(r, kind, x, parts, g) ==
    [by |-> r, actor |-> req[r].actor, kind |-> kind, parts |-> parts, group |-> g,
     pending |-> Pending(x)]

\* Payer, creator or participant.
Party(x, a) == a \in Recent(x).parts \union {rows[x][1].actor}

AddExpense(r, a, payer, parts, g) ==
    LET Pal(u) == IF g = None THEN AddFriend(payer, u, FALSE) ELSE <<>>
    IN Begins(r, a, << <<"check", g, parts \union {payer}>>, <<"add", "added", parts, g>> >>
                    \o << <<"reread">>, <<"inputs">> >> \o Each(SetToSeq(parts \ {payer}), Pal)
                    \o << <<"record">> >>)

Settle(r, a, pair, g) ==
    /\ a \in pair
    /\ g # None => \A u \in pair : IsGroupMember(g, u)
    /\ Begins(r, a, (IF g = None THEN << <<"check", g, pair>> >> ELSE <<>>)
                    \o << <<"add", "settled", pair, g>>, <<"reread">>, <<"record">> >>)

\* One settlement per transfer; a failure leaves those before it.
SettleAll(r, a, g, pair1, pair2) ==
    LET Transfer(pair) == << <<"add", "settled", pair, g>>, <<"reread">> >>
    IN /\ \A u \in {a} \union pair1 \union pair2 : IsGroupMember(g, u)
       /\ Begins(r, a, Transfer(pair1) \o Transfer(pair2) \o << <<"record batch">> >>)

\* A balance with a friend is moved into another currency.
Convert(r, a, friend) ==
    Begins(r, a, << <<"check", None, {a, friend}>>, <<"convert", {a, friend}>> >>)

\* MoveExpense, UpdateSettlement and DeleteExpense start from a page.
FromPage(r, a, x, todo) ==
    /\ req[r] = Idle /\ Known(a)
    /\ rows[x] # <<>>
    /\ req' = [req EXCEPT ![r] = [Idle EXCEPT !.actor = a, !.form = Len(rows[x]),
                                              !.todo = todo, !.how = "busy"]]
    /\ UNCHANGED peopleVars

\* A settlement keeps its two people, who are not checked again outside a group;
\* a conversion is not edited.
Edit(r, a, x, parts) ==
    LET settled == rows[x][1].kind = "settled"
        g == Recent(x).group
    IN /\ rows[x] # <<>> /\ rows[x][1].kind # "converted"
       /\ settled => parts = rows[x][1].parts
       /\ FromPage(r, a, x, << <<"mine", x>> >>
                            \o (IF settled /\ g = None THEN <<>> ELSE << <<"check", g, parts>> >>)
                            \o << <<"update", x, parts>> >>
                            \o (IF settled THEN <<>> ELSE << <<"inputs">> >>)
                            \o << <<"reread">>, <<"record">> >>)

DeleteExpense(r, a, x) ==
    FromPage(r, a, x, << <<"mine", x>>, <<"participants", x>>, <<"delete", x>>, <<"record">> >>)

PushTest(r, a) ==
    LET Sub(e) == << <<"prune", e>> >>
    IN Begins(r, a, Each(SetToSeq({e \in Endpoints : <<a, e>> \in subscriptions}), Sub))

-----------------------------------------------------------------------------
(* The statements.                                                         *)

Checks(r) ==
    LET a == req[r].actor
        Allowed(g, ids) == IF g = None THEN \A u \in ids \ {a} : AreRelated(a, u)
                           ELSE \A u \in ids \union {a} : IsGroupMember(g, u)
    IN /\ \/ /\ Doing(r, "check")
             /\ IF Allowed(Arg(r, 2), Arg(r, 3)) THEN Does(r, Rest(r)) ELSE Refused(r)
          \/ /\ Doing(r, "mine")
             /\ LET x == Arg(r, 2)
                IN IF Party(x, a) /\ ~Deleted(x)
                   THEN req' = [req EXCEPT ![r].todo = Tail(@),
                                  ![r].about = <<[row |-> x, title |-> Len(rows[x]), share |-> 0]>>]
                   ELSE Refused(r)
       /\ UNCHANGED <<peopleVars, noticeVars>>

\* CreateExpense, up to its commit.
Insert(r) ==
    LET x == CHOOSE y \in Rows : rows[y] = <<>>
    IN /\ Doing(r, "add")
       /\ \E y \in Rows : rows[y] = <<>>
       /\ rows' = [rows EXCEPT ![x] = <<Version(r, Arg(r, 2), x, Arg(r, 3), Arg(r, 4))>>]
       /\ req' = [req EXCEPT ![r].todo = Tail(@),
                    ![r].about = Append(@, [row |-> x, title |-> 1, share |-> 1])]
       /\ UNCHANGED <<accounts, hidden, friends, groups, members, torn, noticeVars>>

\* CreateConversionPair, and the read that follows it and may fail.  The row
\* stands for both legs, which are made, and later deleted, in one transaction.
CreateConversionPair(r) ==
    LET x == CHOOSE y \in Rows : rows[y] = <<>> IN
    /\ Doing(r, "convert")
    /\ \E y \in Rows : rows[y] = <<>>
    /\ rows' = [rows EXCEPT ![x] = <<Version(r, "converted", x, Arg(r, 2), None)>>]
    /\ \E how \in {"done", "failed"} : Ends(r, how)
    /\ UNCHANGED <<accounts, hidden, friends, groups, members, torn, noticeVars>>

\* Mutant: what was typed for the split before stays.
KeepsInputs(x) == UNCHANGED inputs

\* UpdateExpense, in its transaction.
DropsInputs(x) == inputs' = [inputs EXCEPT ![x] = 0]

\* UPDATE and the deletion name the version of the page.
Update(r) ==
    LET x == Arg(r, 2)
        v == Len(rows[x]) + 1
    IN /\ Doing(r, "update")
       /\ IF req[r].form # Len(rows[x])
          THEN Refused(r) /\ UNCHANGED <<rows, inputs>>
          ELSE /\ rows' = [rows EXCEPT ![x] =
                             Append(@, Version(r, "updated", x, Arg(r, 3), Recent(x).group))]
               /\ DropsInputs(x)
               /\ req' = [req EXCEPT ![r].todo = Tail(@),
                            ![r].about = <<[row |-> x, title |-> v, share |-> v]>>]
       /\ UNCHANGED <<accounts, hidden, friends, groups, members, torn,
                      notices, subscriptions, delivery, recorded>>

\* Best effort, and tied to no version.
RecordSplitInputs(r) ==
    LET e == Last(req[r].about) IN
    /\ Doing(r, "inputs")
    /\ inputs' \in {inputs, [inputs EXCEPT ![e.row] = e.share]}
    /\ Does(r, Rest(r))
    /\ UNCHANGED <<peopleVars, notices, subscriptions, delivery, recorded>>

\* Mutant: whatever the row is by now is deleted.
MayDeleteAny(r, x) == ~Deleted(x)

MayDelete(r, x) == ~Deleted(x) /\ req[r].form = Len(rows[x])

SoftDelete(r) ==
    LET x == Arg(r, 2) IN
    /\ Doing(r, "delete")
    /\ IF MayDelete(r, x)
       THEN /\ rows' = [rows EXCEPT ![x] =
                          Append(@, Version(r, "deleted", x, Recent(x).parts, Recent(x).group))]
            /\ Does(r, Rest(r))
       ELSE Refused(r) /\ UNCHANGED rows
    /\ UNCHANGED <<accounts, hidden, friends, groups, members, torn, noticeVars>>

\* The name and the currency that are told are read again after the commit; the
\* shares of a deletion are read before it, and are left untold if that fails.
Reads(r) ==
    /\ \/ /\ Doing(r, "reread")
          /\ LET last == Len(req[r].about)
             IN req' = [req EXCEPT ![r].todo = Tail(@),
                          ![r].about[last].title = Len(rows[req[r].about[last].row])]
       \/ /\ Doing(r, "participants")
          /\ \/ req' = [req EXCEPT ![r].todo = Tail(@), ![r].about[1].share = Len(rows[Arg(r, 2)])]
             \/ req' = [req EXCEPT ![r].todo = Front(Tail(@)), ![r].how = "untold"]
    /\ UNCHANGED <<peopleVars, noticeVars>>

\* Mutant: whoever recorded the row is taken to know.
RecipientsOfOthers(x, v, actor) == rows[x][v].parts \ {rows[x][1].actor}

\* notificationsFor: everyone but the actor.
Recipients(x, v, actor) == rows[x][v].parts \ {actor}

Notifications(r) ==
    UNION {{[by |-> r, user |-> u, actor |-> req[r].actor, row |-> e.row,
             title |-> e.title, share |-> e.share,
             kind |-> IF Deleted(e.row) /\ Recent(e.row).by = r THEN "deleted"
                      ELSE rows[e.row][e.share].kind] :
                u \in Recipients(e.row, e.share, req[r].actor)} : e \in ToSet(req[r].about)}

\* All of them in one transaction.  A failure leaves them unrecorded and
\* undelivered, and the request is answered as done.
CreateNotifications(r) ==
    LET ns == Notifications(r) IN
    /\ Doing(r, "record") \/ Doing(r, "record batch")
    /\ \/ /\ notices' = notices \union {[n |-> n, read |-> FALSE] : n \in ns}
          /\ recorded' = recorded \union ns
          /\ delivery' = IF ns = {} THEN delivery
                         ELSE [delivery EXCEPT ![r] = [step |-> "list", todo |-> {},
                                                       batch |-> Doing(r, "record batch")]]
          /\ Does(r, Rest(r))
       \/ /\ ns # {}
          /\ Ends(r, "untold")
          /\ UNCHANGED <<notices, recorded, delivery>>
    /\ UNCHANGED <<peopleVars, inputs, subscriptions>>

-----------------------------------------------------------------------------
(* The delivery.  It is given up at any moment if the server stops.        *)

NoDelivery == [step |-> "none", todo |-> {}, batch |-> FALSE]
Told(r) == {n \in recorded : n.by = r}
Delivers(r, todo) ==
    delivery' = [delivery EXCEPT ![r] = IF todo = {} THEN NoDelivery
                                        ELSE [@ EXCEPT !.step = "send", !.todo = todo]]

\* A toast per subscription and a mail to those who asked for it; for a batch
\* one toast about the group to each of those it names, and no mail.
ListPushSubscriptions(r) ==
    LET batch == delivery[r].batch
        Ways(u) == {s[2] : s \in {s \in subscriptions : s[1] = u}}
                   \union (IF u \in OptedIn /\ ~batch THEN {"mail"} ELSE {})
    IN /\ delivery[r].step = "list"
       /\ Delivers(r, UNION {{<<n.user, IF batch THEN None ELSE n.row, way>> :
                                 way \in Ways(n.user)} : n \in Told(r)})
       /\ UNCHANGED <<peopleVars, req, inputs, notices, subscriptions, recorded>>

\* Sending may fail, which nobody is told of.  A subscription that the push
\* service calls gone is deleted, by its endpoint.
Send(r) ==
    /\ delivery[r].step = "send"
    /\ \E t \in delivery[r].todo :
         /\ Delivers(r, delivery[r].todo \ {t})
         /\ subscriptions' \in {subscriptions, subscriptions \ {<<t[1], t[3]>>}}
    /\ UNCHANGED <<peopleVars, req, inputs, notices, recorded>>

Stops(r) ==
    /\ delivery[r].step # "none"
    /\ Delivers(r, {})
    /\ UNCHANGED <<peopleVars, req, inputs, notices, subscriptions, recorded>>

-----------------------------------------------------------------------------
(* What their readers do.  Each is one statement, and the request is over. *)

Answered(r, a) ==
    /\ req[r] = Idle /\ Known(a)
    /\ Ends(r, "done")
    /\ UNCHANGED <<peopleVars, inputs, delivery, recorded>>

PushSubscribe(r, a, e) ==
    /\ Answered(r, a)
    /\ subscriptions' \in {subscriptions \union {<<a, e>>}, subscriptions \ {<<a, e>>}}
    /\ UNCHANGED notices

\* One of one's own, or all.
NotificationsRead(r, a) ==
    /\ Answered(r, a)
    /\ LET own == {m \in notices : m.n.user = a}
       IN \E those \in {{m} : m \in own} \union {own} :
            notices' = (notices \ those) \union {[m EXCEPT !.read = TRUE] : m \in those}
    /\ UNCHANGED subscriptions

Prune(r) ==
    /\ Doing(r, "prune")
    /\ subscriptions' \in {subscriptions, subscriptions \ {<<req[r].actor, Arg(r, 2)>>}}
    /\ Does(r, Rest(r))
    /\ UNCHANGED <<peopleVars, inputs, notices, delivery, recorded>>

\* The rows of an age: the read ones go first.
DeleteNotificationsBefore ==
    /\ notices # {}
    /\ notices' \in {{}, {m \in notices : ~m.read}}
    /\ UNCHANGED <<peopleVars, req, inputs, subscriptions, delivery, recorded>>

Handle(r) ==
    \/ \E a, payer \in Users, parts \in SUBSET Users, g \in Groups \union {None} :
         /\ payer \in parts /\ Cardinality(parts) > 1
         /\ AddExpense(r, a, payer, parts, g)
    \/ \E a \in Users, pair \in kSubset(2, Users), g \in Groups \union {None} :
         Settle(r, a, pair, g)
    \/ \E a \in Users, g \in Groups, pair1, pair2 \in kSubset(2, Users) :
         pair1 # pair2 /\ SettleAll(r, a, g, pair1, pair2)
    \/ \E a, friend \in Users : a # friend /\ Convert(r, a, friend)
    \/ \E a \in Users, x \in Rows : DeleteExpense(r, a, x)
    \/ \E a \in Users, x \in Rows, parts \in SUBSET Users :
         Cardinality(parts) > 1 /\ Edit(r, a, x, parts)
    \/ \E a \in Users : PushTest(r, a)

NoticeStep(r) ==
    \/ Handle(r) /\ UNCHANGED noticeVars
    \/ Checks(r) \/ Insert(r) \/ CreateConversionPair(r) \/ Update(r) \/ RecordSplitInputs(r)
    \/ SoftDelete(r) \/ Reads(r) \/ CreateNotifications(r) \/ ListPushSubscriptions(r) \/ Send(r) \/ Stops(r)
    \/ \E a \in Users, e \in Endpoints : PushSubscribe(r, a, e)
    \/ \E a \in Users : NotificationsRead(r, a)
    \/ Prune(r)

Next ==
    \/ \E r \in Requests : PeopleStep(r) /\ UNCHANGED noticeVars
    \/ \E r \in Requests : NoticeStep(r)
    \/ DeleteNotificationsBefore

\* Any database between requests: what earlier ones left is by nobody known here.
Init ==
    /\ accounts \in [Users -> {"none", "LIMITED", "USER"}]
    /\ hidden \in [Users -> SUBSET Users]
    /\ friends \in SUBSET (Users \X Users)
    /\ torn \in SUBSET SUBSET Users
    /\ \A a, b \in Users : AreFriends(a, b) /\ ~AreFriends(b, a) => {a, b} \in torn
    /\ groups \in [Groups -> [exists : BOOLEAN, by : {None}, creator : Users \union {None},
                             foreign : DOMAIN Foreign \union {None}, archived : BOOLEAN,
                             simplify : BOOLEAN, rivals : {{}}]]
    /\ \A g \in Groups : groups[g].exists \/ groups[g] = NoGroup
    /\ members \in SUBSET (Groups \X Users)
    /\ rows \in [Rows -> Seq([by : {None}, actor : Users, parts : SUBSET Users,
                             kind : {"added", "settled", "converted", "updated", "deleted"},
                             group : Groups \union {None}, pending : {{}}])]
    /\ \A x \in Rows : \A v \in DOMAIN rows[x] :
          /\ rows[x][v].kind \in {"added", "settled", "converted"} <=> v = 1
          /\ rows[x][v].kind = "deleted" => v = Len(rows[x])
    /\ inputs \in [Rows -> Nat]
    /\ \A x \in Rows : inputs[x] <= Len(rows[x]) /\ \A v \in inputs[x] + 1 .. Len(rows[x]) :
          inputs[x] = 0 \/ rows[x][v].kind # "updated"
    /\ req = [r \in Requests |-> Idle]
    /\ notices = {} /\ recorded = {}
    /\ subscriptions \in SUBSET (Users \X Endpoints)
    /\ delivery = [r \in Requests |-> NoDelivery]

Spec == Init /\ [][Next]_vars

-----------------------------------------------------------------------------
(* Properties.                                                             *)

\* Once a request is answered as done, everyone it recorded a share of money for
\* has been notified of it, but whoever made it, and nobody else.  A conversion
\* is the exception by design: CreateConversionExact notifies nobody
\* (currency_service.go:81), but the deletion of one is told like any other.  The
\* exceptions by failure are the answers whose notifications failed
\* (notify_service.go:65) and a settle-all that failed part way
\* (expense_service.go:240).  What no request asks for, an expense of a recurrence
\* (recurrence_service.go:156), a netting entry or a collapse, is told nobody
\* either, and is not among these rows.
NobodyIsMissed ==
    \A x \in Rows : \A v \in DOMAIN rows[x] :
        LET w == rows[x][v] IN
        w.by # None /\ req[w.by].how = "done" =>
            {n.user : n \in {n \in recorded : n.by = w.by /\ n.row = x}} =
                IF w.kind = "converted" THEN {} ELSE w.parts \ {w.actor}

\* A notification names people and amounts of one version of the row: for a
\* deletion the one that was deleted, name and currency included, and for any
\* other the one its request saved.  Its name and currency may be of a later one
\* only if someone else saved in between (expense_service.go:362).  Whatever a
\* delivery is going to send was recorded (notify_service.go:48).
NoticesAreTrue ==
    /\ \A n \in recorded :
         LET versions == rows[n.row] IN
         /\ n.user \in versions[n.share].parts \ {n.actor}
         /\ IF n.kind = "deleted"
            THEN n.title = n.share /\ versions[n.share + 1].by = n.by
            ELSE /\ versions[n.share].by = n.by
                 /\ n.title # n.share => n.title > n.share /\ versions[n.share + 1].by # n.by
    /\ \A r \in Requests : \A t \in delivery[r].todo :
         \E n \in recorded : n.by = r /\ n.user = t[1] /\ t[2] \in {n.row, None}

\* What was typed in for a split, and is shown and repeated in place of its
\* amounts, is of the split the row has: UpdateExpense drops what it replaces
\* (expenses.go:349).  The exception is a request that had saved its split
\* already and records what was typed for it after a later save, because
\* recordSplitInputs is a statement of its own (expense_service.go:81).
InputsDescribeRow ==
    \A x \in Rows : \A v \in inputs[x] + 1 .. Len(rows[x]) :
        inputs[x] # 0 /\ rows[x][v].kind = "updated" =>
            rows[x][inputs[x]].by \in rows[x][v].pending

=============================================================================
