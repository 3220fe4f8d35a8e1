-------------------------------- MODULE Balance --------------------------------
(***************************************************************************)
(* The arithmetic of who owes whom (src/internal/balance), for one         *)
(* currency: the code keeps currencies apart everywhere, and never adds    *)
(* one to another.                                                         *)
(*                                                                         *)
(* The balances of a group are a function "owed" on pairs a < b: owed is   *)
(* how much b owes a, negative when a owes b.                              *)
(***************************************************************************)
EXTENDS Integers, Sequences, SequencesExt, FiniteSetsExt

CONSTANT Users   \* user ids: integers, their order breaks ties

ASSUME BalanceAssumption == Users \subseteq Int /\ IsFiniteSet(Users)

Pairs == {p \in Users \X Users : p[1] < p[2]}

Square == [p \in Pairs |-> 0]   \* nobody owes anybody

\* A directed row of balance_view: friend owes user the amount.
Row(owed, u, f) == IF u < f THEN owed[<<u, f>>] ELSE - owed[<<f, u>>]

\* What moves when payer hands amount to other: other owes payer more.
Moved(owed, payer, other, amount) ==
    IF payer < other
    THEN [owed EXCEPT ![<<payer, other>>] = @ + amount]
    ELSE [owed EXCEPT ![<<other, payer>>] = @ - amount]

\* The signed rows of one expense as the view shows them: whoever is not the
\* payer owes the payer, and a negative share the other way round.
Booked(owed, payer, rows) ==
    [p \in Pairs |->
        owed[p] + (IF p[1] = payer /\ p[2] \in DOMAIN rows THEN - rows[p[2]]
                   ELSE IF p[2] = payer /\ p[1] \in DOMAIN rows THEN rows[p[1]] ELSE 0)]

\* A person's net position; positive: is owed.
Net(owed, u) == SumFunction([v \in Users \ {u} |-> Row(owed, u, v)])
Nets(owed) == [u \in Users |-> Net(owed, u)]

Settled(owed) == \A u \in Users : Net(owed, u) = 0

-------------------------------------------------------------------------------
(* Simplify: creditors and debtors, largest first, then by id; the first   *)
(* creditor is paid by the first debtor until one of the two is done.      *)

Node(u, amount) == [id |-> u, amt |-> amount]

Before(m, n) == m.amt > n.amt \/ (m.amt = n.amt /\ m.id < n.id)

\* The nodes in that order: before the i-th come as many as are counted there.
Ranked(nodes) ==
    [i \in 1..Cardinality(nodes) |->
        CHOOSE n \in nodes : Cardinality({m \in nodes : Before(m, n)}) = i - 1]

Creditors(net) == Ranked({Node(u, net[u]) : u \in {v \in Users : net[v] > 0}})
Debtors(net) == Ranked({Node(u, - net[u]) : u \in {v \in Users : net[v] < 0}})

\* Mutant: whoever is done stays, and the other leaves.
TakeWrongEnd(queue, pay) ==
    IF queue[1].amt # pay THEN Tail(queue)
    ELSE <<Node(queue[1].id, queue[1].amt - pay)>> \o Tail(queue)

\* The first of a queue has amt less to give or to get, and leaves at nothing.
Take(queue, pay) ==
    IF queue[1].amt = pay THEN Tail(queue)
    ELSE <<Node(queue[1].id, queue[1].amt - pay)>> \o Tail(queue)

\* Mutant: the debtor is charged all the creditor is to get.
SimplifyStepUnbounded(s) ==
    IF s.creditors = <<>> \/ s.debtors = <<>> THEN s
    ELSE LET pay == s.creditors[1].amt
         IN  [creditors |-> Tail(s.creditors),
              debtors   |-> Take(s.debtors, Min({pay, s.debtors[1].amt})),
              res       |-> Append(s.res, [from |-> s.debtors[1].id,
                                           to |-> s.creditors[1].id, amount |-> pay])]

SimplifyStep(s) ==
    IF s.creditors = <<>> \/ s.debtors = <<>> THEN s
    ELSE LET to   == s.creditors[1]
             from == s.debtors[1]
             pay  == Min({to.amt, from.amt})
         IN  [creditors |-> Take(s.creditors, pay),
              debtors   |-> Take(s.debtors, pay),
              res       |-> Append(s.res, [from |-> from.id, to |-> to.id,
                                           amount |-> pay])]

\* Every step sees off a creditor or a debtor.
Simplify(net) ==
    LET start == [creditors |-> Creditors(net), debtors |-> Debtors(net), res |-> <<>>]
        most  == Len(start.creditors) + Len(start.debtors)
        after[k \in 0..most] == IF k = 0 THEN start ELSE SimplifyStep(after[k - 1])
    IN  after[most].res

\* Each pair's own debt, from debtor to creditor (rawSettlementRows).
RawRows(owed) ==
    {[from |-> IF owed[p] > 0 THEN p[2] ELSE p[1],
      to   |-> IF owed[p] > 0 THEN p[1] ELSE p[2],
      amount |-> IF owed[p] > 0 THEN owed[p] ELSE - owed[p]] :
        p \in {q \in Pairs : owed[q] # 0}}

-------------------------------------------------------------------------------
(* Rewire: the entries that turn the pairs into the simplified debts.      *)

\* What a set of transfers leaves each pair owing.
DebtsOf(transfers) ==
    [p \in Pairs |->
        SumFunction([t \in ToSet(transfers) |->
            IF <<t.to, t.from>> = p THEN t.amount
            ELSE IF <<t.from, t.to>> = p THEN - t.amount ELSE 0])]

Target(owed) == DebtsOf(Simplify(Nets(owed)))

\* Mutant: a pair that has no balance yet gets no entry.
RewireOldPairs(owed) ==
    LET target == Target(owed)
    IN  [p \in Pairs |-> IF owed[p] = 0 THEN 0 ELSE target[p] - owed[p]]

\* Per pair, how much more b comes to owe a.
Rewire(owed) ==
    LET target == Target(owed)
    IN  [p \in Pairs |-> target[p] - owed[p]]

Plus(owed, shifts) == [p \in Pairs |-> owed[p] + shifts[p]]

\* Mutant: any leftover pair counts, whether or not people still owe.
NeedsTidyAnyway(owed) == owed # Square

\* A group is settled, yet some pair still shows a balance.
NeedsTidy(owed) == owed # Square /\ Settled(owed)
===============================================================================
