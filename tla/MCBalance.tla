------------------------------- MODULE MCBalance -------------------------------
(***************************************************************************)
(* Balance and Split over every table of balances, and every expense form, *)
(* within a bound.  A form that is accepted makes the first balances of a  *)
(* group.  From each table a netting pass may rewire the pairs, and people *)
(* may pay the transfers the group page suggests, one after the other and  *)
(* each in full.                                                           *)
(***************************************************************************)
EXTENDS Balance, Split

CONSTANTS
    MaxOwed,      \* largest balance a pair starts with
    Payers,       \* who pays a bill
    Splitters,    \* who may share it
    Totals,       \* what it comes to
    Typed,        \* per method, the numbers a person may type
    Texts,        \* amounts as text
    NoBill        \* no form is sent

ASSUME BillAssumption ==
    /\ MaxOwed \in Nat
    /\ Payers \subseteq Users /\ Splitters \subseteq Users
    /\ Totals \subseteq (- MaxInt)..MaxInt
    /\ \A m \in UserSelectable : Typed[m] \subseteq (- MaxInt)..MaxInt
    /\ Typed["EQUAL"] \subseteq {0}
    /\ Texts \subseteq [neg : BOOLEAN, whole : Nat, frac : Seq(0..9)]

VARIABLES
    owed,   \* the balances of the group
    bill    \* the form that is sent, if any

vars == <<owed, bill>>

Tables == [Pairs -> (- MaxOwed)..MaxOwed]

BillForms ==
    UNION {{[method |-> m, total |-> n, payer |-> p, values |-> v] :
                n \in Totals, p \in Payers,
                v \in UNION {[S -> Typed[m]] : S \in SUBSET Splitters}} :
           m \in UserSelectable}

\* The order the seed gives to n lines: any.
Orders(n) == {f \in [1..n -> 1..n] : \A i, j \in 1..n : i # j => f[i] # f[j]}

Rows(b, perm) ==
    Compute(b.method, b.total, b.payer, b.values, FormLines(DOMAIN b.values), perm)

AsListed(b) == [i \in 1..Cardinality(DOMAIN b.values) |-> i]

Init ==
    \/ owed = Square /\ bill \in BillForms
    \/ owed \in Tables /\ bill = NoBill

RecordBill ==
    /\ bill # NoBill
    /\ Accepted(bill.method, bill.total, bill.values)
    /\ Computable(bill.method, bill.values)
    /\ \E perm \in Orders(Cardinality(DOMAIN bill.values)) :
          owed' = Booked(owed, bill.payer, Rows(bill, perm))
    /\ bill' = NoBill

Pass == owed' = Plus(owed, Rewire(owed)) /\ UNCHANGED bill

PaySuggestion ==
    /\ \E t \in ToSet(Simplify(Nets(owed))) : owed' = Moved(owed, t.from, t.to, t.amount)
    /\ UNCHANGED bill

PayRaw ==
    /\ \E t \in RawRows(owed) : owed' = Moved(owed, t.from, t.to, t.amount)
    /\ UNCHANGED bill

Next == RecordBill \/ Pass \/ PaySuggestion \/ PayRaw

Spec == Init /\ [][Next]_vars

-------------------------------------------------------------------------------
(* Reference: lay the creditors end to end, and the debtors beside them.   *)
(* A debtor pays a creditor the length on which the two overlap.           *)

Upto(queue, i) == Sum([k \in 1..i |-> queue[k].amt])

Overlap(cs, ds, i, j) ==
    Min({Upto(cs, i), Upto(ds, j)}) - Max({Upto(cs, i - 1), Upto(ds, j - 1)})

Overlaps(cs, ds) ==
    {[from |-> ds[ij[2]].id, to |-> cs[ij[1]].id, amount |-> Overlap(cs, ds, ij[1], ij[2])] :
        ij \in {x \in (DOMAIN cs) \X (DOMAIN ds) : Overlap(cs, ds, x[1], x[2]) > 0}}

\* Simplify (balance/simplify.go:19) pays exactly the overlaps, each once: the
\* loop neither loses nor repeats an amount when one or both sides run out.
SimplifyIsOverlap ==
    LET net == Nets(owed)
    IN  /\ ToSet(Simplify(net)) = Overlaps(Creditors(net), Debtors(net))
        /\ Len(Simplify(net)) = Cardinality(ToSet(Simplify(net)))

\* "It preserves each participant's net exactly ... and never makes a
\* participant both pay and receive" (balance/simplify.go:1), with fewer
\* transfers than people who owe or are owed.
SuggestionsAreFair ==
    LET suggested == ToSet(Simplify(Nets(owed)))
        froms     == {t.from : t \in suggested}
        tos       == {t.to : t \in suggested}
    IN  /\ Nets(Target(owed)) = Nets(owed)
        /\ froms \cap tos = {}
        /\ suggested # {} => Cardinality(suggested) < Cardinality(froms \cup tos)

\* "When the pairs already are the simplified debts the result is empty, so
\* applying it twice is the same as once" (balance/rewire.go:104): rewiring
\* keeps every net, and a second pass over its result moves nothing.
RewireOnce ==
    LET after == Plus(owed, Rewire(owed))
    IN  Nets(after) = Nets(owed) /\ Rewire(after) = Square

Nearer(was, is) == (0 <= is /\ is <= was) \/ (was <= is /\ is <= 0)

\* Suggestions may be paid in any order, and each payment changes the list
\* that is shown next (it may even get longer).  Yet none ever turns a debtor
\* into a creditor or draws in someone settled: every net moves towards zero.
PayingDrawsNobodyIn ==
    [][PaySuggestion => \A u \in Users : Nearer(Net(owed, u), Net(owed', u))]_vars

-------------------------------------------------------------------------------
(* What is due, in whole numbers: u's part of the total is Part over Whole, *)
(* after what is typed as an exact addition is set apart.                  *)

Part(b, u) == IF b.method \in {"PERCENTAGE", "SHARE"} THEN b.values[u] ELSE 1

Whole(b) ==
    IF b.method \in {"PERCENTAGE", "SHARE"} THEN Sum(b.values)
    ELSE Cardinality(DOMAIN b.values)

Divided(b) == IF b.method = "ADJUSTMENT" THEN b.total - Sum(b.values) ELSE b.total
Added(b, u) == IF b.method = "ADJUSTMENT" THEN b.values[u] ELSE 0

Due(b, u) ==
    IF b.method = "EXACT" THEN b.values[u] * Whole(b)
    ELSE Part(b, u) * Divided(b) + Added(b, u) * Whole(b)

\* No product leaves int64.
InRange(b) ==
    b.method \in {"PERCENTAGE", "SHARE"} =>
        \A u \in DOMAIN b.values : Size(b.values[u] * b.total) <= MaxInt

\* Nor does a sum or a difference.
Fits(b) ==
    LET base == BaseShares(b.method, b.total, b.values)
        part == Quot(b.total - Sum(b.values), Cardinality(DOMAIN b.values))
    IN  /\ Size(Sum(b.values)) <= MaxInt
        /\ Size(b.total - Sum(base)) <= MaxInt
        /\ b.method = "ADJUSTMENT" =>
              /\ Size(b.total - Sum(b.values)) <= MaxInt
              /\ \A u \in DOMAIN b.values : Size(part + b.values[u]) <= MaxInt

\* Nor what the form shows of it when it is opened again.
ShownFits(b) ==
    /\ b.method = "EXACT" =>
          Size(b.total) + Sum([u \in DOMAIN b.values |-> Size(b.values[u])]) <= MaxInt
    /\ \A perm \in Orders(Cardinality(DOMAIN b.values)), u \in DOMAIN b.values :
          LET share == Shares(b.method, b.total, b.values, FormLines(DOMAIN b.values), perm)[u]
          IN  /\ Size(share) <= MaxInt
              /\ b.method = "PERCENTAGE" /\ InRange(b) =>
                    Size(share * BasisPointsFull) <= MaxInt

IsRecorded ==
    /\ bill # NoBill
    /\ Accepted(bill.method, bill.total, bill.values)
    /\ Computable(bill.method, bill.values)

AllOrders == Orders(Cardinality(DOMAIN bill.values))

\* "Every branch guarantees sum(shares) == total via deterministic remainder
\* distribution, so finalize yields zero-sum rows" (split/split.go:126): the
\* balances a form leaves are its signed rows, also for refunds, for a payer
\* who takes no share, for typed numbers that do not divide the total, and even
\* where a product overflows.  While none does, nobody is charged more than a
\* unit above or below what is due, whoever the seeded order favours, and
\* people who typed the same are at most one unit apart (split/split.go:235).
SplitIsExact ==
    IsRecorded => \A perm \in AllOrders :
        LET b      == bill
            rows   == Rows(b, perm)
            shares == Shares(b.method, b.total, b.values, FormLines(DOMAIN b.values), perm)
        IN  /\ Sum(rows) = 0
            /\ b.payer \in DOMAIN shares \/ rows[b.payer] = b.total
            /\ \A u \in Users : Net(Booked(owed, b.payer, rows), u)
                                   = IF u \in DOMAIN rows THEN rows[u] ELSE 0
            /\ InRange(b) => \A u, v \in DOMAIN shares :
                  /\ Size(shares[u] * Whole(b) - Due(b, u)) <= Whole(b)
                  /\ b.values[u] = b.values[v] => Size(shares[u] - shares[v]) <= 1

\* "so an untouched edit re-posts the same digits" and "re-saving an unchanged
\* edit could silently shift money" (httpapp/handlers_expenses.go:347 and 285):
\* the form of an expense, or of one a recurrence made of it, comes back with
\* what was typed, and saving it changes no row, whatever order the seed gives.
\* An equal or exact split, and an adjustment shown as one, do so even when
\* they are derived from the rows, if the payer has a share.
UntouchedEditMovesNothing ==
    IsRecorded => \A perm \in AllOrders :
        LET b        == bill
            rows     == Rows(b, perm)
            payload  == EncodeInputs(b.method, b.values)
            Reopened(p) ==
                Posted(PrefillEdit(Users, b.method, b.total, b.payer, rows, p), "USD")
            Saved(form, order) ==
                Compute(form.method, b.total, b.payer, form.values,
                        FormLines(DOMAIN form.values), order)
            stored   == Reopened(payload)
            derived  == Reopened(NoInputs)
        IN  /\ stored.values = b.values
            /\ Saved(stored, perm) = rows
            /\ GenerateOne(b.method, b.total, b.payer, Rows(b, AsListed(b)), payload, perm) = rows
            /\ b.method \in {"EXACT", "ADJUSTMENT"}
                  => Saved(derived, AsListed(derived)) = rows
            /\ b.method = "EQUAL" /\ (b.payer \notin DOMAIN b.values \/ rows[b.payer] # b.total)
                  => Saved(derived, perm) = rows

\* "so the values the form renders still satisfy the split engine when they are
\* posted back unchanged" (httpapp/handlers_expenses.go:611): though people have
\* left the group and percentages were derived from rounded shares.  Weights
\* need someone left who has one, and derived ones a positive total.
FormStaysValid ==
    IsRecorded => \A cands \in SUBSET Users, current \in BOOLEAN :
        LET b       == bill
            payload == IF current THEN EncodeInputs(b.method, b.values) ELSE NoInputs
            form    == PrefillEdit(IF current THEN cands ELSE Users, b.method, b.total,
                                   b.payer, Rows(b, AsListed(b)), payload)
            again   == Posted(form, "USD")
            usable  == IF current THEN b.method = "SHARE" => Sum(form.values) > 0
                       ELSE b.total > 0 /\ InRange(b)
        IN  DOMAIN form.values # {} /\ usable
                => Accepted(again.method, b.total, again.values)

\* "whole*10^d + frac must fit, or it would wrap into a different amount"
\* (money/money.go:106): what is typed is read as exactly that amount or
\* refused, in every currency, and an amount that is shown is read back.
ParsedIsTyped ==
    bill = NoBill /\ owed = Square =>
        \A cur \in {"JPY", "USD", "KWD"}, text \in Texts :
            LET d    == Decimals(cur)
                size == text.whole * pow10(d) + Fraction(text, d)
            IN  /\ Parse(text, d) = IF Len(text.frac) > d \/ size > MaxInt THEN Refused
                                    ELSE IF text.neg THEN - size ELSE size
                /\ Parse(text, d) # Refused => Parse(Format(Parse(text, d), d), d) = Parse(text, d)

-------------------------------------------------------------------------------
MCTotals == {-8, 0, 1, 10, 105, 250}

MCTyped ==
    [EQUAL |-> {0}, PERCENTAGE |-> {0, 3333, 3334, 5000, 10000},
     EXACT |-> {-7, 0, 1, 5, 9, 10}, SHARE |-> {-1, 0, 1, 2, 3}, ADJUSTMENT |-> {-1, 0, 4}]

MCTexts ==
    [neg : BOOLEAN, whole : {0, 1, 7, 1047, 1048, 10485, 10486, MaxInt - 1, MaxInt},
     frac : UNION {[1..n -> {0, 5, 7, 9}] : n \in 0..3}]
===============================================================================
