------------------------------ MODULE GroupBooks -------------------------------
(***************************************************************************)
(* One group whose members pay each other while netting passes rewire the  *)
(* pairs to the simplified debts (src/internal/service/netting_service.go, *)
(* expense_service.go, store/replan.go, httpapp/handlers_expenses.go).     *)
(*                                                                         *)
(* A settlement is written by a statement of its own and followed by a     *)
(* pass, a transaction that locks the group's row, reads the balances and  *)
(* writes the entries it planned from them.  On Postgres an ordinary write *)
(* may commit at any of these points; SQLite's one connection allows fewer *)
(* interleavings.  Any step may fail or run out of time.                   *)
(***************************************************************************)
EXTENDS Balance, Bags

CONSTANTS
    Bills,        \* expenses that may be recorded in the group and deleted
    BillDebts,    \* what each makes the pairs owe
    Amounts,      \* amounts a settlement may be recorded or edited with
    Requests,     \* requests and recurring settlements at work at one time
    None,         \* no request
    MaxPayments   \* bound on the settlements in the books or on their way

ASSUME GroupAssumption ==
    /\ BillDebts \in [Bills -> [Pairs -> Int]]
    /\ Amounts \subseteq Nat \ {0}
    /\ None \notin Requests
    /\ MaxPayments \in Nat

VARIABLES
    bills,     \* the expenses in the books
    payments,  \* the settlements in the books, a bag
    netted,    \* what all netting entries so far make the pairs owe
    simplify,  \* groups.simplify_debts
    lock,      \* the request whose transaction holds the group's row
    request,   \* where each request is
    late,      \* history: requests since whose last read someone else wrote
    excused    \* history: no pass has run since a write that owes none

booksVars == <<bills, payments, netted, simplify>>
groupVars == <<booksVars, lock, request, late, excused>>

\* stage: what the request does next; todo: transfers to record; all: it is a
\* settle-all; tidy: its pass is a tidy-up; plan: the entries to write.
Idle == [stage |-> "idle", todo |-> <<>>, all |-> FALSE, tidy |-> FALSE, plan |-> Square]

Transfers == {t \in [from : Users, to : Users, amount : Nat \ {0}] : t.from # t.to}

\* What a settlement makes the pairs owe.
Effect(t) == Moved(Square, t.from, t.to, t.amount)

\* balance_view: the sum over every expense in the group.
Owed ==
    [p \in Pairs |->
        SumFunction([b \in bills |-> BillDebts[b][p]])
        + SumFunction([t \in BagToSet(payments) |-> payments[t] * Effect(t)[p]])
        + netted[p]]

Outstanding == SumFunction([r \in Requests |-> Len(request[r].todo)])

Room(n) == BagCardinality(payments) + Outstanding + n <= MaxPayments

At(r, stage) == request[r].stage = stage

Goes(r, stage) == request' = [request EXCEPT ![r].stage = stage]

\* Requests at work now, other than r: an ordinary write makes their reads old.
Others(r) == {q \in Requests \ {r} : ~ At(q, "idle")}

Starts(r, req) == At(r, "idle") /\ request' = [request EXCEPT ![r] = req]

Ends(r) ==
    /\ request' = [request EXCEPT ![r] = Idle]
    /\ late' = late \ {r}

-------------------------------------------------------------------------------
(* Expenses come and go without a pass; the toggle runs none either.       *)

AddBill(b) ==
    /\ b \notin bills
    /\ bills' = bills \cup {b}
    /\ late' = late \cup Others(None)
    /\ excused' = TRUE
    /\ UNCHANGED <<payments, netted, simplify, lock, request>>

RemoveBill(b) ==
    /\ b \in bills
    /\ bills' = bills \ {b}
    /\ late' = late \cup Others(None)
    /\ excused' = TRUE
    /\ UNCHANGED <<payments, netted, simplify, lock, request>>

\* The toggle writes the group's row and so waits for a pass to let go of it.
SetGroupSimplify ==
    /\ lock = None
    /\ simplify' = ~ simplify
    /\ excused' = TRUE
    /\ UNCHANGED <<bills, payments, netted, lock, request, late>>

-------------------------------------------------------------------------------
(* Recording settlements.                                                  *)

Suggested == IF simplify THEN ToSet(Simplify(Nets(Owed))) ELSE RawRows(Owed)

\* The suggestion for the pair says who pays whom; without one, whoever
\* records the settlement pays.  (The flag and the balances are two reads in
\* the code; no property tells them apart.)
settleDirection(me, other) ==
    IF \E t \in Suggested : t.from = other /\ t.to = me
    THEN <<other, me>> ELSE <<me, other>>

Single(from, to, amount) ==
    [Idle EXCEPT !.stage = "pay",
                 !.todo = <<[from |-> from, to |-> to, amount |-> amount]>>]

BeginSettle(r, me, other, amount) ==
    LET way == settleDirection(me, other)
    IN  /\ me # other
        /\ Room(1)
        /\ Starts(r, Single(way[1], way[2], amount))
        /\ UNCHANGED <<booksVars, lock, late, excused>>

\* A recurrence repeats its template's direction whatever is owed by now, and
\* a settlement moved in from another group keeps its own.
BeginFixed(r, from, to, amount) ==
    /\ from # to
    /\ Room(1)
    /\ Starts(r, Single(from, to, amount))
    /\ UNCHANGED <<booksVars, lock, late, excused>>

\* The transfers are computed from the balances of this moment.
BeginSettleAll(r) ==
    LET transfers == Simplify(Nets(Owed))
    IN  /\ transfers # <<>>
        /\ Room(Len(transfers))
        /\ Starts(r, [Idle EXCEPT !.stage = "pay", !.todo = transfers, !.all = TRUE])
        /\ UNCHANGED <<booksVars, lock, late, excused>>

\* Mutant: after a settle-all, too, the flag decides whether a pass runs.
AfterLastAsksFlag(req) == "flag"

\* A settle-all always runs a pass, a single settlement only where the group
\* shows simplified debts.
AfterLast(req) == IF req.all THEN "pass" ELSE "flag"

\* One settlement is one statement.
Pay(r) ==
    LET rest == Tail(request[r].todo)
    IN  /\ At(r, "pay")
        /\ payments' = payments (+) SetToBag({request[r].todo[1]})
        /\ request' = [request EXCEPT
                ![r].todo = rest,
                ![r].stage = IF rest = <<>> THEN AfterLast(request[r]) ELSE "pay"]
        /\ late' = late \cup Others(r)
        /\ UNCHANGED <<bills, netted, simplify, lock, excused>>

\* An edit keeps the pair and the direction.
EditPayment(r, t, amount) ==
    /\ BagIn(t, payments)
    /\ Starts(r, [Idle EXCEPT !.stage = "flag"])
    /\ payments' = (payments (-) SetToBag({t})) (+) SetToBag({[t EXCEPT !.amount = amount]})
    /\ late' = late \cup Others(r)
    /\ UNCHANGED <<bills, netted, simplify, lock, excused>>

\* Deleted, or moved out to another group.
DeletePayment(r, t) ==
    /\ BagIn(t, payments)
    /\ Starts(r, [Idle EXCEPT !.stage = "flag"])
    /\ payments' = payments (-) SetToBag({t})
    /\ late' = late \cup Others(r)
    /\ UNCHANGED <<bills, netted, simplify, lock, excused>>

-------------------------------------------------------------------------------
(* The netting pass.                                                       *)

renetIfSimplified(r) ==
    /\ At(r, "flag")
    /\ IF simplify THEN Goes(r, "pass") /\ UNCHANGED late ELSE Ends(r)
    /\ UNCHANGED <<booksVars, lock, excused>>

BeginTidy(r) ==
    /\ Starts(r, [Idle EXCEPT !.stage = "pass", !.tidy = TRUE])
    /\ UNCHANGED <<booksVars, lock, late, excused>>

\* Mutant: the transaction does not touch the group's row first.
LockGroupNoWait(r) ==
    /\ At(r, "pass")
    /\ Goes(r, "locked")
    /\ UNCHANGED <<booksVars, lock, late, excused>>

LockGroup(r) ==
    /\ At(r, "pass")
    /\ lock = None
    /\ lock' = r
    /\ Goes(r, "locked")
    /\ UNCHANGED <<booksVars, late, excused>>

PlanPass(r) ==
    LET idle == request[r].tidy /\ ~ NeedsTidy(Owed)
    IN  /\ At(r, "locked")
        /\ request' = [request EXCEPT
                ![r].stage = "planned",
                ![r].plan = IF idle THEN Square ELSE Rewire(Owed)]
        /\ UNCHANGED <<booksVars, lock, late, excused>>

\* Mutant: the entries are committed one by one, and the last one is lost.
CommitPassPartly(r) ==
    LET moved == {p \in Pairs : request[r].plan[p] # 0}
    IN  /\ At(r, "planned")
        /\ netted' = [p \in Pairs |->
                netted[p] + IF Cardinality(moved) > 1 /\ p = CHOOSE q \in moved : TRUE
                            THEN 0 ELSE request[r].plan[p]]
        /\ lock' = None
        /\ Ends(r)
        /\ UNCHANGED <<bills, payments, simplify, excused>>

\* All the entries at once.
CommitPass(r) ==
    /\ At(r, "planned")
    /\ netted' = Plus(netted, request[r].plan)
    /\ lock' = None
    /\ Ends(r)
    /\ excused' = (excused /\ (request[r].tidy \/ r \in late))
    /\ UNCHANGED <<bills, payments, simplify>>

\* A statement fails, the time limit passes or the process stops.  What a
\* settle-all recorded before stays, and no pass follows it.
Fail(r) ==
    /\ ~ At(r, "idle")
    /\ lock' = IF lock = r THEN None ELSE lock
    /\ Ends(r)
    /\ excused' = TRUE
    /\ UNCHANGED booksVars

-------------------------------------------------------------------------------
GroupInit ==
    /\ bills = {}
    /\ payments = EmptyBag
    /\ netted = Square
    /\ simplify = TRUE
    /\ lock = None
    /\ request = [r \in Requests |-> Idle]
    /\ late = {}
    /\ excused = FALSE

Settling(r) ==
    \/ \E me, other \in Users, amount \in Amounts :
            BeginSettle(r, me, other, amount) \/ BeginFixed(r, me, other, amount)
    \/ BeginSettleAll(r)
    \/ Pay(r)
    \/ \E t \in BagToSet(payments) :
            DeletePayment(r, t) \/ \E amount \in Amounts : EditPayment(r, t, amount)

Netting(r) ==
    \/ renetIfSimplified(r)
    \/ BeginTidy(r)
    \/ LockGroup(r)
    \/ PlanPass(r)
    \/ CommitPass(r)

GroupNext ==
    \/ \E b \in Bills : AddBill(b) \/ RemoveBill(b)
    \/ SetGroupSimplify
    \/ \E r \in Requests : Settling(r) \/ Netting(r) \/ Fail(r)

GroupSpec == GroupInit /\ [][GroupNext]_groupVars

-------------------------------------------------------------------------------
(* Properties.                                                             *)

\* Netting entries change who owes whom, never how much anyone owes or is owed
\* in total, whatever commits while a pass is planning (netting_service.go:21).
NettingIsNeutral == Settled(netted)

\* Where a group shows simplified debts and nobody is at work, every settlement
\* ever recorded, edited or deleted has been followed by a pass that saw it:
\* the stored pairs are the debts the page shows.  Only what the code says
\* waits for a later pass is excused: expenses, the toggle, a failed pass.
PairsAsShown ==
    simplify /\ ~ excused /\ (\A r \in Requests : At(r, "idle")) => Owed = Target(Owed)

\* "After a full settle-up every pair in the group reads zero"
\* (expense_service.go:249): if nobody else wrote meanwhile.
SettleAllClears ==
    [][\A r \in Requests :
        request[r].all /\ r \notin late /\ request'[r] = Idle /\ ~ Fail(r)
            => \A p \in Pairs : Owed[p]' = 0]_groupVars

\* A tidy-up "must not reshape debts that are still owed"
\* (netting_service.go:29): it writes nothing, or clears a settled group.
TidyOnlyClears ==
    [][\A r \in Requests :
        request[r].tidy /\ r \notin late /\ netted' # netted /\ CommitPass(r)
            => Settled(Owed) /\ \A p \in Pairs : Owed[p]' = 0]_groupVars
===============================================================================
