--------------------------------- MODULE Split ---------------------------------
(***************************************************************************)
(* From what people type into the expense form to the signed rows of an    *)
(* expense, and back into the form: src/internal/split, src/internal/money *)
(* and the two ways the edit form is filled again.                         *)
(*                                                                         *)
(* "values" is a function on the people who split: the one number each of  *)
(* them typed.  A permutation "perm" of positions stands for seededOrder,  *)
(* a hash of the sorted base shares and the date: any permutation, and the *)
(* same one whenever the shares and the date are the same.                 *)
(***************************************************************************)
EXTENDS Integers, Sequences, SequencesExt, FiniteSetsExt

CONSTANTS
    MaxInt,   \* largest int64
    Refused   \* an amount that cannot be read

ASSUME SplitAssumption == MaxInt \in Nat \ {0} /\ Refused \notin Int

\* A sum or a product that leaves int64 comes round at the other end.
Wrap(n) == ((n + MaxInt + 1) % (2 * (MaxInt + 1))) - (MaxInt + 1)

Size(n) == IF n < 0 THEN - n ELSE n
Sign(n) == IF n < 0 THEN -1 ELSE 1

\* Integer division of Go: towards zero.
Quot(a, b) == Sign(a) * Sign(b) * (Size(a) \div Size(b))

Sum(f) == SumFunction(f)

-------------------------------------------------------------------------------
(* Amounts as text: a sign, the digits before the point and those behind.  *)

Decimals(cur) == IF cur = "JPY" THEN 0 ELSE IF cur = "KWD" THEN 3 ELSE 2

\* No currency has more than three.
pow10(n) == <<1, 10, 100, 1000>>[n + 1]

Format(minor, d) ==
    [neg   |-> minor < 0,
     whole |-> Size(minor) \div pow10(d),
     frac  |-> [i \in 1..d |-> (Size(minor) \div pow10(d - i)) % 10]]

\* The digits behind the point, filled up with zeros.
Fraction(text, d) ==
    Sum([i \in 1..Len(text.frac) |-> text.frac[i] * pow10(d - i)])

\* Mutant: the room the digits behind the point take is forgotten.
TooLargeWholeOnly(text, d) == text.whole > MaxInt \div pow10(d)

TooLarge(text, d) == text.whole > (MaxInt - Fraction(text, d)) \div pow10(d)

Parse(text, d) ==
    IF Len(text.frac) > d \/ TooLarge(text, d) THEN Refused
    ELSE (IF text.neg THEN -1 ELSE 1) * Wrap(text.whole * pow10(d) + Fraction(text, d))

-------------------------------------------------------------------------------
(* The split engine.                                                       *)

BasisPointsFull == 10000

UserSelectable == {"EQUAL", "PERCENTAGE", "EXACT", "SHARE", "ADJUSTMENT"}

\* What Compute and computeShares refuse.
Accepted(method, total, values) ==
    /\ DOMAIN values # {}
    /\ method \in UserSelectable
    /\ method \in {"PERCENTAGE", "SHARE"} => \A u \in DOMAIN values : values[u] >= 0
    /\ method = "PERCENTAGE" => Wrap(Sum(values)) = BasisPointsFull
    /\ method = "EXACT" => Wrap(Sum(values)) = total
    /\ method = "SHARE" => Wrap(Sum(values)) > 0

Gcd(values) ==
    Max({g \in 1..Max({values[u] : u \in DOMAIN values}) :
            \A u \in DOMAIN values : values[u] % g = 0})

\* Weights whose sum comes round below their common divisor are divided by
\* zero: the request panics before anything is stored.
Computable(method, values) == method = "SHARE" => Wrap(Sum(values)) >= Gcd(values)

\* What each line comes to before the remainder is handed out.
BaseShare(method, total, values, u) ==
    LET n == Cardinality(DOMAIN values)
    IN  CASE method = "EQUAL"      -> Quot(total, n)
          [] method = "PERCENTAGE" -> Quot(Wrap(values[u] * total), BasisPointsFull)
          [] method = "EXACT"      -> values[u]
          [] method = "SHARE"      -> LET g == Gcd(values)
                                      IN  Quot(Wrap((values[u] \div g) * total),
                                               Wrap(Sum(values)) \div g)
          [] method = "ADJUSTMENT" -> Wrap(Quot(Wrap(total - Sum(values)), n) + values[u])

BaseShares(method, total, values) ==
    [u \in DOMAIN values |-> BaseShare(method, total, values, u)]

\* Mutant: only a shortage is handed out.
DistributeShortage(shares, total, order) ==
    LET n    == Len(order)
        rest == Wrap(total - Sum(shares))
    IN  [u \in DOMAIN shares |->
            LET i == CHOOSE k \in 1..n : order[k] = u
            IN  IF rest <= 0 THEN shares[u]
                ELSE shares[u] + (rest \div n) + (IF i <= rest % n THEN 1 ELSE 0)]

\* Mutant: whoever comes first takes it all.
DistributeToFirst(shares, total, order) ==
    [shares EXCEPT ![order[1]] = @ + Wrap(total - Sum(shares))]

\* The two loops of distributeRemainder in closed form: one unit at a time,
\* round and round in the given order.
DistributeRemainder(shares, total, order) ==
    LET n    == Len(order)
        rest == Wrap(total - Sum(shares))
    IN  [u \in DOMAIN shares |->
            LET i == CHOOSE k \in 1..n : order[k] = u
            IN  shares[u] + Sign(rest) * ((Size(rest) \div n)
                                          + (IF i <= Size(rest) % n THEN 1 ELSE 0))]

\* "lines" is the order the caller lists people in; the seed permutes it.
Shares(method, total, values, lines, perm) ==
    DistributeRemainder(BaseShares(method, total, values), total,
                        [i \in 1..Len(lines) |-> lines[perm[i]]])

\* The signed rows: the payer always has one, the others owe their share.
Finalize(total, payer, shares) ==
    [u \in (DOMAIN shares) \cup {payer} |->
        IF u # payer THEN - shares[u]
        ELSE total - (IF payer \in DOMAIN shares THEN shares[payer] ELSE 0)]

Compute(method, total, payer, values, lines, perm) ==
    Finalize(total, payer, Shares(method, total, values, lines, perm))

\* The form's people, sorted by id before they are split.
FormLines(people) ==
    [i \in 1..Cardinality(people) |->
        CHOOSE u \in people : Cardinality({v \in people : v < u}) = i - 1]

-------------------------------------------------------------------------------
(* Opening the form of an expense again.                                   *)

\* A percentage is typed with two decimals, a weight with none, the others in
\* the currency of the expense.
FieldDecimals(method, cur) ==
    CASE method = "PERCENTAGE" -> 2 [] method = "SHARE" -> 0 [] OTHER -> Decimals(cur)

FormatValue(method, v, cur) ==
    IF method = "EQUAL" THEN Format(0, 0) ELSE Format(v, FieldDecimals(method, cur))

ValueForMethod(method, text, cur) ==
    IF method = "EQUAL" THEN 0 ELSE Parse(text, FieldDecimals(method, cur))

\* Does a method's values have to add up to something, and to what?
SumTarget(method, total) ==
    IF method = "PERCENTAGE" THEN {BasisPointsFull}
    ELSE IF method = "EXACT" THEN {total} ELSE {}

\* Mutant: a gap is closed from the wrong side.
RebalanceAway(values, target) ==
    LET hi == CHOOSE u \in DOMAIN values : \A v \in DOMAIN values : values[u] >= values[v]
    IN  [values EXCEPT ![hi] = @ + Sum(values) - target]

\* The whole difference goes onto the largest entry.
RebalanceToTarget(values, target) ==
    LET hi == CHOOSE u \in DOMAIN values : \A v \in DOMAIN values : values[u] >= values[v]
    IN  [values EXCEPT ![hi] = Wrap(@ + target - Sum(values))]

Rebalanced(method, total, values) ==
    IF DOMAIN values = {} \/ SumTarget(method, total) = {} THEN values
    ELSE RebalanceToTarget(values, CHOOSE t \in SumTarget(method, total) : TRUE)

\* What is stored beside an expense, and whether it still speaks of its split.
EncodeInputs(method, values) == [method |-> method, values |-> values]

NoInputs == [method |-> "none", values |-> <<>>]

Decodes(payload, method) == payload.method = method /\ DOMAIN payload.values # {}

\* The recorded inputs, for the people who can still be chosen.
PrefillStored(cands, method, total, inputs) ==
    Rebalanced(method, total, [u \in cands \cap DOMAIN inputs |-> inputs[u]])

DerivedMethod(method) == IF method = "ADJUSTMENT" THEN "EXACT" ELSE method

\* No inputs recorded: worked out from the rows.  A payer without a share has a
\* row all the same, and is left out of an equal split.
PrefillDerived(cands, method, total, payer, rows) ==
    LET share(u) == IF u = payer THEN total - rows[u] ELSE - rows[u]
        shown    == {u \in cands \cap DOMAIN rows :
                        ~(method = "EQUAL" /\ u = payer /\ share(u) = 0)}
        value(u) == CASE method = "EQUAL" \/ (method = "PERCENTAGE" /\ total = 0) -> 0
                      [] method = "PERCENTAGE" ->
                            Quot(Wrap(share(u) * BasisPointsFull), total)
                      [] OTHER -> share(u)
        values   == [u \in shown |-> value(u)]
    IN  IF method = "PERCENTAGE" /\ total # 0 /\ shown # {}
        THEN RebalanceToTarget(values, BasisPointsFull)
        ELSE values

\* The form: a method and a value for everybody who is ticked.
PrefillEdit(cands, method, total, payer, rows, payload) ==
    IF Decodes(payload, method)
    THEN [method |-> method, values |-> PrefillStored(cands, method, total, payload.values)]
    ELSE [method |-> DerivedMethod(method),
          values |-> PrefillDerived(cands, method, total, payer, rows)]

\* What the browser posts back when nobody touches the form.
Posted(form, cur) ==
    [form EXCEPT !.values =
        [u \in DOMAIN @ |-> ValueForMethod(form.method, FormatValue(form.method, @[u], cur), cur)]]

\* Mutant: the rows come back with the payer first.
TemplateLinesPayerFirst(people, payer) ==
    IF payer \in people THEN <<payer>> \o FormLines(people \ {payer}) ELSE FormLines(people)

\* The people of a template, as GetParticipants orders its rows.
TemplateLines(people, payer) == FormLines(people)

\* An expense generated from a template: split again from the recorded inputs,
\* with the permutation of its own date; its rows are copied where the inputs
\* do not do any more.
GenerateOne(method, total, payer, rows, payload, perm) ==
    LET people == (DOMAIN rows) \cap DOMAIN payload.values
        values == [u \in people |-> payload.values[u]]
    IN  IF Decodes(payload, method) /\ Accepted(method, total, values)
        THEN Compute(method, total, payer, values, TemplateLines(people, payer), perm)
        ELSE rows
===============================================================================
