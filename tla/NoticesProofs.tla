----------------------------- MODULE NoticesProofs ------------------------------
(***************************************************************************)
(* What holds of friends, groups, expenses and notifications, for any      *)
(* number of people, requests and rows, and from any database.             *)
(***************************************************************************)
EXTENDS Notices, SumLemmas, SequenceTheorems

-------------------------------------------------------------------------------
(* The statements a request may have to execute.                           *)

\* Those that only ever come first, put there by the statement before them.
Immediate ==
    ({"create"} \X Users)
    \cup ({"befriend back"} \X Users \X Users \X BOOLEAN)
    \cup ({"insert group"} \X DOMAIN Foreign)

Planned ==
    ({"find", "are friends"} \X Users)
    \cup ({"befriend"} \X Users \X Users \X BOOLEAN)
    \cup ({"join"} \X Groups \X Users \X BOOLEAN)
    \cup ({"hide"} \X (SUBSET Users))
    \cup ({"insert group"} \X {None})
    \cup ({"archive", "simplify"} \X Groups \X BOOLEAN)
    \cup ({"find group"} \X DOMAIN Foreign)
    \cup ({"check"} \X (Groups \cup {None}) \X (SUBSET Users))
    \cup ({"add"} \X {"added", "settled"} \X (SUBSET Users) \X (Groups \cup {None}))
    \cup ({"mine", "participants", "delete"} \X Rows)
    \cup ({"update"} \X Rows \X (SUBSET Users))
    \cup ({"convert"} \X (SUBSET Users))
    \cup ({"prune"} \X Endpoints)
    \cup {<<op>> : op \in {"inputs", "reread", "record", "record batch"}}

Statements == Planned \cup Immediate

\* What a request that saves something ends with.
Closing == {"record", "record batch", "convert"}
Expenses == {"check", "add", "mine", "participants", "delete", "update", "inputs", "reread"}
                \cup Closing

\* May t come later in a list than s?  Notifications are recorded last; whether
\* a row is one's own is asked first, and its participants are read next; it is
\* saved once, after nothing but reads.  A conversion is made after its check.
May(s, t) ==
    /\ t \in Planned
    /\ s[1] \notin Closing
    /\ t[1] = "convert" => s[1] = "check"
    /\ t[1] # "mine"
    /\ t[1] = "participants" => s[1] = "mine"
    /\ t[1] = "delete" => s[1] \in {"mine", "participants"}
    /\ t[1] = "update" => s[1] \in {"mine", "check"}
    /\ t[1] \in {"participants", "delete", "update"} /\ s[1] # "check" => s[2] = t[2]
    /\ s[1] \in {"mine", "participants", "delete", "update"} => t[1] # "add"
    /\ s[1] \in {"participants", "delete"} => t[1] \notin {"inputs", "reread"}
    /\ s[1] = "inputs" => t[1] # "add"

InList(q) ==
    /\ q \in Seq(Statements)
    /\ \A i, j \in 1..Len(q) : i < j => May(q[i], q[j])

Has(q, ops) == \E i \in 1..Len(q) : q[i][1] \in ops

\* What a statement's name says of its arguments.
Says(s) ==
    /\ s[1] = "insert group" => s[2] \in DOMAIN Foreign \cup {None}
    /\ s[1] \in {"befriend", "befriend back"} =>
          s[2] \in Users /\ s[3] \in Users /\ s[4] \in BOOLEAN
    /\ s[1] = "join" => s[2] \in Groups /\ s[3] \in Users /\ s[4] \in BOOLEAN
    /\ s[1] = "hide" => s[2] \in SUBSET Users
    /\ s[1] \in {"archive", "simplify"} => s[2] \in Groups /\ s[3] \in BOOLEAN
    /\ s[1] \in {"find", "create", "are friends"} => s[2] \in Users
    /\ s[1] = "find group" => s[2] \in DOMAIN Foreign
    /\ s[1] = "check" => s[2] \in Groups \cup {None} /\ s[3] \in SUBSET Users
    /\ s[1] = "add" => /\ s[2] \in {"added", "settled"} /\ s[3] \in SUBSET Users
                       /\ s[4] \in Groups \cup {None}
    /\ s[1] \in {"mine", "participants", "delete", "update"} => s[2] \in Rows
    /\ s[1] = "update" => s[3] \in SUBSET Users
    /\ s[1] = "convert" => s[2] \in SUBSET Users
    /\ s[1] \in {"inputs", "reread", "record", "record batch"} => s = <<s[1]>>

LEMMA PlannedIs ==
    ASSUME NEW s \in Planned
    PROVE  /\ s[1] \notin {"create", "befriend back"}
           /\ s[1] = "insert group" => s[2] = None
           /\ Says(s)
<1> DEFINE Claim == /\ s[1] \notin {"create", "befriend back"}
                    /\ s[1] = "insert group" => s[2] = None
                    /\ Says(s)
<1>1. CASE s \in {"find", "are friends"} \X Users
    BY <1>1 DEF Says
<1>2. CASE s \in {"befriend"} \X Users \X Users \X BOOLEAN
    BY <1>2 DEF Says
<1>3. CASE s \in {"join"} \X Groups \X Users \X BOOLEAN
    BY <1>3 DEF Says
<1>4. CASE s \in {"hide"} \X (SUBSET Users)
    BY <1>4 DEF Says
<1>5. CASE s \in {"insert group"} \X {None}
    BY <1>5 DEF Says
<1>6. CASE s \in {"archive", "simplify"} \X Groups \X BOOLEAN
    BY <1>6 DEF Says
<1>7. CASE s \in {"find group"} \X DOMAIN Foreign
    BY <1>7 DEF Says
<1>8. CASE s \in {"check"} \X (Groups \cup {None}) \X (SUBSET Users)
    BY <1>8 DEF Says
<1>9. CASE s \in {"add"} \X {"added", "settled"} \X (SUBSET Users) \X (Groups \cup {None})
    BY <1>9 DEF Says
<1>10. CASE s \in {"mine", "participants", "delete"} \X Rows
    BY <1>10 DEF Says
<1>11. CASE s \in {"update"} \X Rows \X (SUBSET Users)
    BY <1>11 DEF Says
<1>12. CASE s \in {"prune"} \X Endpoints
    BY <1>12 DEF Says
<1>13. CASE s \in {<<op>> : op \in {"inputs", "reread", "record", "record batch"}}
  <2>1. PICK op \in {"inputs", "reread", "record", "record batch"} : s = <<op>>
      BY <1>13
  <2>2. s[1] = op
      BY <2>1
  <2> QED
      BY <2>1, <2>2 DEF Says
<1>14. CASE s \in {"convert"} \X (SUBSET Users)
    BY <1>14 DEF Says
<1> HIDE DEF Claim
<1>15. Claim
    BY <1>1, <1>2, <1>3, <1>4, <1>5, <1>6, <1>7, <1>8, <1>9, <1>10, <1>11, <1>12, <1>13, <1>14, Zenon
       DEF Planned, Claim
<1> QED
    BY <1>15 DEF Claim

LEMMA ImmediateIs ==
    ASSUME NEW s \in Immediate
    PROVE  /\ s[1] \in {"create", "befriend back", "insert group"}
           /\ s[1] = "insert group" => s[2] # None
           /\ Says(s) /\ s \notin Planned
<1>1. \A x \in DOMAIN Foreign : x # None
    BY PeopleAssumption
<1>2. CASE s \in {"create"} \X Users
    BY <1>2, PlannedIs DEF Says
<1>3. CASE s \in {"befriend back"} \X Users \X Users \X BOOLEAN
    BY <1>3, PlannedIs DEF Says
<1>4. CASE s \in {"insert group"} \X DOMAIN Foreign
    BY <1>1, <1>4, PlannedIs DEF Says
<1> QED
    BY <1>2, <1>3, <1>4 DEF Immediate

LEMMA StatementIs ==
    ASSUME NEW s \in Statements
    PROVE  /\ Says(s)
           /\ s[1] \in {"create", "befriend back"} => s \notin Planned
           /\ s[1] = "insert group" => (s \in Planned <=> s[2] = None)
           /\ s[1] \notin {"create", "befriend back", "insert group"} => s \in Planned
BY PlannedIs, ImmediateIs, Zenon DEF Statements

LEMMA Forms ==
    /\ \A u \in Users : /\ <<"find", u>> \in Planned /\ <<"are friends", u>> \in Planned
                        /\ <<"create", u>> \in Immediate
    /\ \A u, v \in Users, strict \in BOOLEAN :
          /\ <<"befriend", u, v, strict>> \in Planned
          /\ <<"befriend back", u, v, strict>> \in Immediate
    /\ \A g \in Groups, u \in Users, strict \in BOOLEAN : <<"join", g, u, strict>> \in Planned
    /\ \A us \in SUBSET Users : <<"hide", us>> \in Planned
    /\ <<"insert group", None>> \in Planned
    /\ \A f \in DOMAIN Foreign :
          <<"insert group", f>> \in Immediate /\ <<"find group", f>> \in Planned
    /\ \A g \in Groups, b \in BOOLEAN :
          <<"archive", g, b>> \in Planned /\ <<"simplify", g, b>> \in Planned
    /\ \A g \in Groups \cup {None}, us \in SUBSET Users :
          /\ <<"check", g, us>> \in Planned
          /\ <<"add", "added", us, g>> \in Planned /\ <<"add", "settled", us, g>> \in Planned
    /\ \A x \in Rows : /\ <<"mine", x>> \in Planned /\ <<"participants", x>> \in Planned
                       /\ <<"delete", x>> \in Planned
                       /\ \A us \in SUBSET Users : <<"update", x, us>> \in Planned
    /\ \A us \in SUBSET Users : <<"convert", us>> \in Planned
    /\ \A e \in Endpoints : <<"prune", e>> \in Planned
    /\ <<"inputs">> \in Planned /\ <<"reread">> \in Planned
    /\ <<"record">> \in Planned /\ <<"record batch">> \in Planned
<1>1. \A u \in Users : /\ <<"find", u>> \in Planned /\ <<"are friends", u>> \in Planned
                       /\ <<"create", u>> \in Immediate
    BY DEF Planned, Immediate
<1>2. \A u, v \in Users, strict \in BOOLEAN :
          /\ <<"befriend", u, v, strict>> \in Planned
          /\ <<"befriend back", u, v, strict>> \in Immediate
    BY DEF Planned, Immediate
<1>3. \A g \in Groups, u \in Users, strict \in BOOLEAN : <<"join", g, u, strict>> \in Planned
    BY DEF Planned
<1>4. \A us \in SUBSET Users : <<"hide", us>> \in Planned
    BY DEF Planned
<1>5. <<"insert group", None>> \in Planned
    BY DEF Planned
<1>6. \A f \in DOMAIN Foreign :
          <<"insert group", f>> \in Immediate /\ <<"find group", f>> \in Planned
    BY DEF Planned, Immediate
<1>7. \A g \in Groups, b \in BOOLEAN :
          <<"archive", g, b>> \in Planned /\ <<"simplify", g, b>> \in Planned
    BY DEF Planned
<1>8. \A g \in Groups \cup {None}, us \in SUBSET Users :
          /\ <<"check", g, us>> \in Planned
          /\ <<"add", "added", us, g>> \in Planned /\ <<"add", "settled", us, g>> \in Planned
    BY DEF Planned
<1>9. \A x \in Rows : /\ <<"mine", x>> \in Planned /\ <<"participants", x>> \in Planned
                      /\ <<"delete", x>> \in Planned
                      /\ \A us \in SUBSET Users : <<"update", x, us>> \in Planned
    BY DEF Planned
<1>10. \A e \in Endpoints : <<"prune", e>> \in Planned
    BY DEF Planned
<1>11. /\ <<"inputs">> \in Planned /\ <<"reread">> \in Planned
       /\ <<"record">> \in Planned /\ <<"record batch">> \in Planned
    BY DEF Planned
<1>12. \A us \in SUBSET Users : <<"convert", us>> \in Planned
    BY DEF Planned
<1> QED
    BY <1>1, <1>2, <1>3, <1>4, <1>5, <1>6, <1>7, <1>8, <1>9, <1>10, <1>11, <1>12

-------------------------------------------------------------------------------
(* Lists of statements.                                                    *)

\* Everything in q may come after s.
Before(s, q) == \A i \in 1..Len(q) : May(s, q[i])

LEMMA ListEmpty == InList(<<>>) /\ \A ops : ~ Has(<<>>, ops)
BY EmptySeq DEF InList, Has

LEMMA ListFirst ==
    ASSUME NEW q, InList(q), q # <<>>
    PROVE  /\ Head(q) \in Statements /\ Tail(q) \in Seq(Statements)
           /\ InList(Tail(q)) /\ Before(Head(q), Tail(q)) /\ Tail(q) \in Seq(Planned)
           /\ \A ops : Has(q, ops) <=> Head(q)[1] \in ops \/ Has(Tail(q), ops)
<1> DEFINE t == Tail(q)
<1>1. /\ q \in Seq(Statements) /\ Len(q) \in Nat \ {0}
      /\ \A i, j \in 1..Len(q) : i < j => May(q[i], q[j])
    BY EmptySeq DEF InList
<1>2. /\ Head(q) \in Statements /\ t \in Seq(Statements) /\ Len(t) = Len(q) - 1 /\ Len(t) \in Nat
      /\ \A i \in 1..Len(t) : t[i] = q[i + 1]
      /\ Head(q) = q[1]
    BY <1>1, HeadTailProperties, LenProperties
<1> HIDE DEF t
<1>3. \A i \in 1..Len(t) : i + 1 \in 1..Len(q) /\ 1 < i + 1
    BY <1>1, <1>2
<1>4. Before(Head(q), t)
    BY <1>1, <1>2, <1>3 DEF Before
<1>5. InList(t)
  <2>1. ASSUME NEW i \in 1..Len(t), NEW j \in 1..Len(t), i < j PROVE May(t[i], t[j])
    <3>1. i + 1 \in 1..Len(q) /\ j + 1 \in 1..Len(q) /\ i + 1 < j + 1
        BY <1>3, <2>1
    <3> QED
        BY <1>1, <1>2, <3>1
  <2> QED
      BY <1>2, <2>1 DEF InList
<1>6. t \in Seq(Planned)
  <2>1. \A i \in 1..Len(t) : t[i] \in Planned
      BY <1>4 DEF Before, May
  <2>2. t = [i \in 1..Len(t) |-> t[i]]
      BY <1>2
  <2> QED
      BY <1>2, <2>1, <2>2
<1>7. ASSUME NEW ops PROVE Has(q, ops) <=> Head(q)[1] \in ops \/ Has(t, ops)
  <2>1. ASSUME NEW i \in 1..Len(q), q[i][1] \in ops
        PROVE  Head(q)[1] \in ops \/ Has(t, ops)
    <3>1. i = 1 \/ (i - 1 \in 1..Len(t) /\ q[(i - 1) + 1] = q[i])
        BY <1>1, <1>2
    <3> QED
        BY <1>2, <2>1, <3>1 DEF Has
  <2>2. ASSUME NEW i \in 1..Len(t), t[i][1] \in ops PROVE Has(q, ops)
      BY <1>2, <1>3, <2>2 DEF Has
  <2>3. Head(q)[1] \in ops => Has(q, ops)
      BY <1>1, <1>2 DEF Has
  <2> QED
      BY <2>1, <2>2, <2>3 DEF Has
<1> QED
    BY <1>2, <1>4, <1>5, <1>6, <1>7 DEF t

LEMMA ListConcat ==
    ASSUME NEW p, InList(p), NEW q, InList(q), \A i \in 1..Len(p) : Before(p[i], q)
    PROVE  /\ InList(p \o q)
           /\ \A ops : Has(p \o q, ops) <=> Has(p, ops) \/ Has(q, ops)
           /\ \A s : Before(s, p \o q) <=> Before(s, p) /\ Before(s, q)
<1> DEFINE l == p \o q
<1>1. /\ p \in Seq(Statements) /\ q \in Seq(Statements) /\ Len(p) \in Nat /\ Len(q) \in Nat
      /\ \A i, j \in 1..Len(p) : i < j => May(p[i], p[j])
      /\ \A i, j \in 1..Len(q) : i < j => May(q[i], q[j])
    BY LenProperties DEF InList
<1>2. /\ l \in Seq(Statements) /\ Len(l) = Len(p) + Len(q)
      /\ \A i \in 1..Len(l) : l[i] = IF i <= Len(p) THEN p[i] ELSE q[i - Len(p)]
    BY <1>1, ConcatProperties
<1> HIDE DEF l
<1>3. \A i \in 1..Len(l) : \/ i \in 1..Len(p) /\ l[i] = p[i]
                           \/ i - Len(p) \in 1..Len(q) /\ l[i] = q[i - Len(p)] /\ i > Len(p)
    BY <1>1, <1>2
<1>4. /\ \A i \in 1..Len(p) : i \in 1..Len(l) /\ l[i] = p[i]
      /\ \A i \in 1..Len(q) : i + Len(p) \in 1..Len(l) /\ l[i + Len(p)] = q[i]
  <2>1. ASSUME NEW i \in 1..Len(q)
        PROVE  i + Len(p) \in 1..Len(l) /\ l[i + Len(p)] = q[i]
    <3>1. /\ i + Len(p) \in 1..Len(l) /\ ~ (i + Len(p) <= Len(p))
          /\ (i + Len(p)) - Len(p) = i
        BY <1>1, <1>2
    <3> QED
        BY <1>2, <3>1
  <2> QED
      BY <1>1, <1>2, <2>1
<1>5. InList(l)
  <2> SUFFICES ASSUME NEW i \in 1..Len(l), NEW j \in 1..Len(l), i < j PROVE May(l[i], l[j])
      BY <1>2 DEF InList
  <2>1. CASE i \in 1..Len(p) /\ j \in 1..Len(p)
      BY <1>1, <1>4, <2>1
  <2>2. CASE i \in 1..Len(p) /\ j - Len(p) \in 1..Len(q) /\ l[j] = q[j - Len(p)]
      BY <1>4, <2>2 DEF Before
  <2>3. CASE i - Len(p) \in 1..Len(q) /\ l[i] = q[i - Len(p)]
             /\ j - Len(p) \in 1..Len(q) /\ l[j] = q[j - Len(p)]
    <3>1. i - Len(p) < j - Len(p)
        BY <1>1
    <3> QED
        BY <1>1, <2>3, <3>1
  <2> QED
      BY <1>1, <1>3, <2>1, <2>2, <2>3
<1>6. \A ops : Has(l, ops) <=> Has(p, ops) \/ Has(q, ops)
    BY <1>3, <1>4 DEF Has
<1>7. \A s : Before(s, l) <=> Before(s, p) /\ Before(s, q)
    BY <1>3, <1>4 DEF Before
<1> QED
    BY <1>5, <1>6, <1>7 DEF l

LEMMA ListOne ==
    ASSUME NEW s \in Statements
    PROVE  /\ InList(<<s>>)
           /\ \A ops : Has(<<s>>, ops) <=> s[1] \in ops
           /\ \A t : Before(t, <<s>>) <=> May(t, s)
           /\ <<s>>[1] = s /\ Len(<<s>>) = 1
<1>1. <<s>> \in Seq(Statements) /\ Len(<<s>>) = 1 /\ <<s>>[1] = s /\ 1..1 = {1}
    OBVIOUS
<1> QED
    BY <1>1 DEF InList, Has, Before

LEMMA ListPush ==
    ASSUME NEW s \in Statements, NEW q, InList(q), Before(s, q)
    PROVE  /\ InList(<<s>> \o q) /\ <<s>> \o q # <<>>
           /\ Head(<<s>> \o q) = s /\ Tail(<<s>> \o q) = q
           /\ \A ops : Has(<<s>> \o q, ops) <=> s[1] \in ops \/ Has(q, ops)
           /\ \A t : Before(t, <<s>> \o q) <=> May(t, s) /\ Before(t, q)
<1>1. /\ InList(<<s>>) /\ Len(<<s>>) = 1 /\ <<s>>[1] = s
      /\ \A ops : Has(<<s>>, ops) <=> s[1] \in ops
      /\ \A t : Before(t, <<s>>) <=> May(t, s)
    BY ListOne
<1>2. \A i \in 1..Len(<<s>>) : Before(<<s>>[i], q)
    BY <1>1
<1>3. /\ InList(<<s>> \o q)
      /\ \A ops : Has(<<s>> \o q, ops) <=> Has(<<s>>, ops) \/ Has(q, ops)
      /\ \A t : Before(t, <<s>> \o q) <=> Before(t, <<s>>) /\ Before(t, q)
    BY <1>1, <1>2, ListConcat
<1>4. q \in Seq(Statements)
    BY DEF InList
<1>5. Head(<<s>> \o q) = s /\ Tail(<<s>> \o q) = q /\ <<s>> \o q # <<>>
    BY <1>4
<1> QED
    BY <1>1, <1>3, <1>5

-------------------------------------------------------------------------------
(* Lists made from lists.                                                  *)

\* The lists put together so far, one by one.
Joined(seqs) ==
    CHOOSE f : f = [i \in 1..Len(seqs) |-> IF i = 1 THEN seqs[i] ELSE f[i - 1] \o seqs[i]]

LEMMA JoinedExists ==
    ASSUME NEW S, NEW seqs \in Seq(Seq(S))
    PROVE  \E f : f = [i \in 1..Len(seqs) |-> IF i = 1 THEN seqs[i] ELSE f[i - 1] \o seqs[i]]
<1> DEFINE Is(f, m) == f = [i \in 1..m |-> IF i = 1 THEN seqs[i] ELSE f[i - 1] \o seqs[i]]
           G == {m \in Nat : \E f : Is(f, m)}
<1>1. 0 \in G
  <2>1. Is([i \in 1..0 |-> seqs[i]], 0)
      OBVIOUS
  <2> QED
      BY <2>1
<1>2. ASSUME NEW m \in Nat, m \in G PROVE m + 1 \in G
  <2>1. PICK f : Is(f, m)
      BY <1>2
  <2> DEFINE more == IF m = 0 THEN seqs[1] ELSE f[m] \o seqs[m + 1]
             g == [i \in 1..(m + 1) |-> IF i <= m THEN f[i] ELSE more]
  <2>2. ASSUME NEW i \in 1..(m + 1)
        PROVE  g[i] = IF i = 1 THEN seqs[i] ELSE g[i - 1] \o seqs[i]
    <3>1. CASE i <= m
      <4>1. i \in 1..m /\ g[i] = f[i] /\ (i # 1 => g[i - 1] = f[i - 1])
          BY <3>1
      <4>2. f[i] = IF i = 1 THEN seqs[i] ELSE f[i - 1] \o seqs[i]
          BY <2>1, <4>1
      <4> QED
          BY <4>1, <4>2
    <3>2. CASE i = m + 1 /\ m = 0
        BY <3>2
    <3>3. CASE i = m + 1 /\ m # 0
      <4>1. /\ m + 1 \in 1..(m + 1) /\ m \in 1..(m + 1) /\ ~ (m + 1 <= m) /\ m <= m
            /\ i # 1 /\ i - 1 = m
          BY <3>3
      <4>2. more = f[m] \o seqs[m + 1]
          BY <3>3
      <4> HIDE DEF more
      <4>3. g[m + 1] = more /\ g[m] = f[m]
          BY <4>1
      <4> HIDE DEF g
      <4> QED
          BY <3>3, <4>1, <4>2, <4>3
    <3> QED
        BY <3>1, <3>2, <3>3
  <2>3. Is(g, m + 1)
      BY <2>2
  <2>4. \E h : Is(h, m + 1)
    <3> HIDE DEF Is
    <3> QED
        BY <2>3
  <2> HIDE DEF Is
  <2> QED
      BY <2>4
<1>3. Len(seqs) \in G
  <2>1. Len(seqs) \in Nat
      BY LenProperties
  <2> HIDE DEF G
  <2> QED
      BY <1>1, <1>2, <2>1, NumberInduction
<1> QED
    BY <1>3

LEMMA FlattenType ==
    ASSUME NEW S, NEW seqs \in Seq(Seq(S))
    PROVE  FlattenSeq(seqs) \in Seq(S)
<1> DEFINE f == Joined(seqs)
           G == {m \in Nat : m \in 1..Len(seqs) => f[m] \in Seq(S)}
<1>1. Len(seqs) \in Nat /\ \A i \in 1..Len(seqs) : seqs[i] \in Seq(S)
    BY LenProperties, ElementOfSeq
<1>2. f = [i \in 1..Len(seqs) |-> IF i = 1 THEN seqs[i] ELSE f[i - 1] \o seqs[i]]
    BY JoinedExists DEF Joined
<1>3. FlattenSeq(seqs) = IF Len(seqs) = 0 THEN seqs ELSE f[Len(seqs)]
    BY DEF FlattenSeq, Joined
<1> HIDE DEF f
<1>4. \A i \in 1..Len(seqs) : f[i] = IF i = 1 THEN seqs[i] ELSE f[i - 1] \o seqs[i]
    BY <1>2
<1>5. 0 \in G
    BY <1>1
<1>6. ASSUME NEW m \in Nat, m \in G PROVE m + 1 \in G
  <2>1. SUFFICES ASSUME m + 1 \in 1..Len(seqs) PROVE f[m + 1] \in Seq(S)
      BY <1>6
  <2>2. f[m + 1] = IF m + 1 = 1 THEN seqs[m + 1] ELSE f[(m + 1) - 1] \o seqs[m + 1]
      BY <1>4, <2>1
  <2>3. (m + 1) - 1 = m /\ (m + 1 = 1 \/ m \in 1..Len(seqs))
      BY <1>1, <2>1
  <2>4. seqs[m + 1] \in Seq(S)
      BY <1>1, <2>1
  <2>5. CASE m + 1 = 1
      BY <2>2, <2>4, <2>5
  <2>6. CASE m \in 1..Len(seqs) /\ m + 1 # 1
    <3>1. f[m] \in Seq(S) /\ f[m + 1] = f[m] \o seqs[m + 1]
        BY <1>6, <2>2, <2>3, <2>6
    <3> QED
        BY <2>4, <3>1, ConcatProperties
  <2> QED
      BY <2>3, <2>5, <2>6
<1>7. \A m \in Nat : m \in G
  <2> HIDE DEF G
  <2> QED
      BY <1>5, <1>6, NumberInduction
<1>8. CASE Len(seqs) = 0
  <2>1. seqs = <<>>
      BY <1>8, EmptySeq
  <2> QED
      BY <1>3, <1>8, <2>1, EmptySeq
<1>9. CASE Len(seqs) # 0
  <2>1. Len(seqs) \in 1..Len(seqs) /\ Len(seqs) \in G
      BY <1>1, <1>7, <1>9
  <2> QED
      BY <1>3, <1>9, <2>1
<1> QED
    BY <1>8, <1>9

LEMMA SetToSeqType == ASSUME NEW S, IsFiniteSet(S) PROVE SetToSeq(S) \in Seq(S)
<1>1. Cardinality(S) \in Nat /\ ExistsBijection(1..Cardinality(S), S)
    BY FS_CardinalityType
<1>2. PICK f \in Bijection(1..Cardinality(S), S) : TRUE
    BY <1>1 DEF ExistsBijection
<1>3. f \in [1..Cardinality(S) -> S] /\ IsInjective(f)
    BY <1>2 DEF Bijection, Injection, IsInjective
<1>4. SetToSeq(S) \in [1..Cardinality(S) -> S]
    BY <1>3, Zenon DEF SetToSeq
<1> QED
    BY <1>1, <1>4

-------------------------------------------------------------------------------
(* Statements that are about no expense: they come in any order.           *)

Personal == {s \in Planned : s[1] \notin Expenses}
Mild(t) == t \in Planned /\ t[1] \notin {"mine", "participants", "delete", "update", "convert"}
MildList(q) == \A i \in 1..Len(q) : Mild(q[i])

LEMMA MildIs ==
    ASSUME NEW s \in Statements, s[1] \notin Expenses
    PROVE  /\ \A t : Mild(t) <=> May(s, t)
           /\ \A q : MildList(q) <=> Before(s, q)
<1>1. ASSUME NEW t PROVE Mild(t) <=> May(s, t)
    BY DEF Mild, May, Expenses, Closing
<1> QED
    BY <1>1 DEF MildList, Before

LEMMA PersonalIs ==
    ASSUME NEW s \in Personal
    PROVE  s \in Statements /\ s[1] \notin Expenses /\ Mild(s)
BY DEF Personal, Statements, Mild, Expenses, Closing

LEMMA PersonalForms ==
    /\ \A u \in Users : <<"find", u>> \in Personal /\ <<"are friends", u>> \in Personal
    /\ \A u, v \in Users, strict \in BOOLEAN : <<"befriend", u, v, strict>> \in Personal
    /\ \A g \in Groups, u \in Users, strict \in BOOLEAN : <<"join", g, u, strict>> \in Personal
    /\ \A us \in SUBSET Users : <<"hide", us>> \in Personal
    /\ <<"insert group", None>> \in Personal
    /\ \A f \in DOMAIN Foreign : <<"find group", f>> \in Personal
    /\ \A g \in Groups, b \in BOOLEAN :
          <<"archive", g, b>> \in Personal /\ <<"simplify", g, b>> \in Personal
    /\ \A e \in Endpoints : <<"prune", e>> \in Personal
<1>1. \A u \in Users : <<"find", u>> \in Personal /\ <<"are friends", u>> \in Personal
    BY Forms DEF Personal, Expenses, Closing
<1>2. \A u, v \in Users, strict \in BOOLEAN : <<"befriend", u, v, strict>> \in Personal
    BY Forms DEF Personal, Expenses, Closing
<1>3. \A g \in Groups, u \in Users, strict \in BOOLEAN : <<"join", g, u, strict>> \in Personal
    BY Forms DEF Personal, Expenses, Closing
<1>4. \A us \in SUBSET Users : <<"hide", us>> \in Personal
    BY Forms DEF Personal, Expenses, Closing
<1>5. <<"insert group", None>> \in Personal
    BY Forms DEF Personal, Expenses, Closing
<1>6. \A f \in DOMAIN Foreign : <<"find group", f>> \in Personal
    BY Forms DEF Personal, Expenses, Closing
<1>7. \A g \in Groups, b \in BOOLEAN :
          <<"archive", g, b>> \in Personal /\ <<"simplify", g, b>> \in Personal
    BY Forms DEF Personal, Expenses, Closing
<1>8. \A e \in Endpoints : <<"prune", e>> \in Personal
    BY Forms DEF Personal, Expenses, Closing
<1> QED
    BY <1>1, <1>2, <1>3, <1>4, <1>5, <1>6, <1>7, <1>8

LEMMA PersonalList ==
    ASSUME NEW q \in Seq(Personal)
    PROVE  /\ InList(q) /\ ~ Has(q, Expenses) /\ MildList(q)
           /\ \A i \in 1..Len(q) : q[i] \in Personal
<1>1. \A i \in 1..Len(q) : q[i] \in Personal
    BY ElementOfSeq
<1>2. q \in Seq(Statements)
  <2>1. Personal \subseteq Statements
      BY PersonalIs
  <2> QED
      BY <2>1, SeqMonotonic
<1>3. \A i, j \in 1..Len(q) : i < j => May(q[i], q[j])
    BY <1>1, PersonalIs, MildIs
<1> QED
    BY <1>1, <1>2, <1>3, PersonalIs DEF InList, Has, MildList

\* What a request may be given to do before the rest.
LEMMA PersonalPush ==
    ASSUME NEW p \in Seq(Personal), NEW q, InList(q), MildList(q)
    PROVE  /\ InList(p \o q) /\ MildList(p \o q)
           /\ \A ops \in SUBSET Expenses : Has(p \o q, ops) <=> Has(q, ops)
<1>1. /\ InList(p) /\ ~ Has(p, Expenses) /\ MildList(p)
      /\ \A i \in 1..Len(p) : p[i] \in Personal
    BY PersonalList
<1>2. \A i \in 1..Len(p) : Before(p[i], q)
    BY <1>1, PersonalIs, MildIs
<1>3. /\ InList(p \o q)
      /\ \A ops : Has(p \o q, ops) <=> Has(p, ops) \/ Has(q, ops)
      /\ \A s : Before(s, p \o q) <=> Before(s, p) /\ Before(s, q)
    BY <1>1, <1>2, ListConcat
<1>4. \A ops \in SUBSET Expenses : ~ Has(p, ops)
    BY <1>1 DEF Has
<1>5. MildList(p \o q)
  <2>1. <<"insert group", None>> \in Personal
      BY PersonalForms
  <2>2. /\ <<"insert group", None>> \in Statements
        /\ <<"insert group", None>>[1] \notin Expenses
      BY <2>1, PersonalIs
  <2>3. \A l : MildList(l) <=> Before(<<"insert group", None>>, l)
      BY <2>2, MildIs
  <2> QED
      BY <1>1, <1>3, <2>3
<1> QED
    BY <1>3, <1>4, <1>5

-------------------------------------------------------------------------------
(* Requests are what the model says they are.                              *)

Telling == [row : Rows, title : Nat, share : Nat]
Request ==
    [actor : Users \cup {None}, todo : Seq(Statements), form : Nat, about : Seq(Telling),
     how : {"idle", "busy", "untold", "done", "failed"}]
Over(h) == [actor |-> None, todo |-> <<>>, form |-> 0, about |-> <<>>, how |-> h]

\* A request that has something to do is under way, and one that has not begun
\* is as it was at first.
RequestsTyped ==
    /\ req \in [Requests -> Request]
    /\ \A r \in Requests :
         /\ InList(req[r].todo)
         /\ Busy(r) => req[r].how \in {"busy", "untold"} /\ req[r].actor \in Users
         /\ req[r].how = "idle" => req[r] = Idle

LEMMA RequestIs ==
    ASSUME RequestsTyped, NEW r \in Requests
    PROVE  /\ req[r] \in Request
           /\ req[r] = [actor |-> req[r].actor, todo |-> req[r].todo, form |-> req[r].form,
                        about |-> req[r].about, how |-> req[r].how]
<1>1. req[r] \in Request
    BY DEF RequestsTyped
<1> QED
    BY <1>1 DEF Request

LEMMA OverIs == ASSUME NEW h PROVE [Idle EXCEPT !.how = h] = Over(h) /\ Over("idle") = Idle
BY DEF Idle, Over

\* A request that changes alone.
LEMMA RequestChanges ==
    ASSUME RequestsTyped, NEW r \in Requests, NEW now \in Request,
           InList(now.todo),
           now.todo # <<>> => now.how \in {"busy", "untold"} /\ now.actor \in Users,
           now.how = "idle" => now = Idle,
           req' = [req EXCEPT ![r] = now]
    PROVE  /\ RequestsTyped' /\ req'[r] = now
           /\ \A p \in Requests \ {r} : req'[p] = req[p]
<1>1. /\ req' \in [Requests -> Request] /\ req'[r] = now
      /\ \A p \in Requests \ {r} : req'[p] = req[p]
    BY DEF RequestsTyped
<1>2. ASSUME NEW p \in Requests
      PROVE  /\ InList(req'[p].todo)
             /\ req'[p].todo # <<>> =>
                  req'[p].how \in {"busy", "untold"} /\ req'[p].actor \in Users
             /\ req'[p].how = "idle" => req'[p] = Idle
  <2>1. CASE p = r
      BY <1>1, <2>1
  <2>2. CASE p # r
      BY <1>1, <2>2 DEF RequestsTyped, Busy
  <2> QED
      BY <2>1, <2>2
<1> QED
    BY <1>1, <1>2 DEF RequestsTyped, Busy

LEMMA RequestEnds ==
    ASSUME RequestsTyped, NEW r \in Requests, NEW h \in {"done", "failed", "untold", "busy"},
           Ends(r, h)
    PROVE  /\ RequestsTyped' /\ req'[r] = Over(h)
           /\ \A p \in Requests \ {r} : req'[p] = req[p]
<1>1. req' = [req EXCEPT ![r] = Over(h)]
    BY OverIs DEF Ends
<1>2. Over(h) \in Request /\ InList(Over(h).todo) /\ Over(h).todo = <<>> /\ Over(h).how = h
    BY ListEmpty, EmptySeq DEF Over, Request
<1> QED
    BY <1>1, <1>2, RequestChanges

\* What a request is after a statement that leaves q to do.
After(r, q) ==
    IF q # <<>> THEN [req[r] EXCEPT !.todo = q]
    ELSE Over(IF req[r].how = "busy" THEN "done" ELSE req[r].how)

LEMMA RequestDoes ==
    ASSUME RequestsTyped, NEW r \in Requests, Busy(r), NEW q, InList(q), Does(r, q)
    PROVE  /\ RequestsTyped' /\ req'[r] = After(r, q)
           /\ \A p \in Requests \ {r} : req'[p] = req[p]
<1>1. req[r] \in Request /\ req[r].how \in {"busy", "untold"} /\ req[r].actor \in Users
    BY DEF RequestsTyped
<1>2. CASE q # <<>>
  <2> DEFINE now == [req[r] EXCEPT !.todo = q]
  <2>1. req' = [req EXCEPT ![r] = now]
      BY <1>2 DEF Does
  <2>2. q \in Seq(Statements)
      BY DEF InList
  <2>3. now \in Request /\ now.todo = q /\ now.how = req[r].how /\ now.actor = req[r].actor
      BY <1>1, <2>2 DEF Request
  <2> HIDE DEF now
  <2>4. /\ RequestsTyped' /\ req'[r] = now
        /\ \A p \in Requests \ {r} : req'[p] = req[p]
      BY <1>1, <2>1, <2>3, RequestChanges
  <2> QED
      BY <1>2, <2>4 DEF After, now
<1>3. CASE q = <<>>
  <2> DEFINE h == IF req[r].how = "busy" THEN "done" ELSE req[r].how
  <2>1. Ends(r, h) /\ h \in {"done", "failed", "untold", "busy"}
      BY <1>1, <1>3 DEF Does
  <2>2. After(r, q) = Over(h)
      BY <1>3 DEF After
  <2> HIDE DEF h
  <2> QED
      BY <2>1, <2>2, RequestEnds
<1> QED
    BY <1>2, <1>3

Begun(a, n, q) == [actor |-> a, todo |-> q, form |-> n, about |-> <<>>, how |-> "busy"]

LEMMA RequestBegins ==
    ASSUME RequestsTyped, NEW r \in Requests, NEW a \in Users, NEW n \in Nat, NEW q, InList(q),
           req' = [req EXCEPT ![r] = [Idle EXCEPT !.actor = a, !.form = n, !.todo = q, !.how = "busy"]]
    PROVE  /\ RequestsTyped' /\ req'[r] = Begun(a, n, q)
           /\ \A p \in Requests \ {r} : req'[p] = req[p]
<1>1. [Idle EXCEPT !.actor = a, !.form = n, !.todo = q, !.how = "busy"] = Begun(a, n, q)
  <2> DEFINE i1 == [actor |-> a, todo |-> <<>>, form |-> 0, about |-> <<>>, how |-> "idle"]
             i2 == [actor |-> a, todo |-> <<>>, form |-> n, about |-> <<>>, how |-> "idle"]
             i3 == [actor |-> a, todo |-> q, form |-> n, about |-> <<>>, how |-> "idle"]
  <2>1. [Idle EXCEPT !.actor = a] = i1
      BY DEF Idle
  <2>2. [i1 EXCEPT !.form = n] = i2
      OBVIOUS
  <2>3. [i2 EXCEPT !.todo = q] = i3
      OBVIOUS
  <2>4. [i3 EXCEPT !.how = "busy"] = Begun(a, n, q)
      BY DEF Begun
  <2> HIDE DEF i1, i2, i3
  <2> QED
      BY <2>1, <2>2, <2>3, <2>4
<1>2. /\ Begun(a, n, q) \in Request /\ Begun(a, n, q).todo = q
      /\ Begun(a, n, q).how = "busy" /\ Begun(a, n, q).actor = a
    BY EmptySeq DEF Begun, Request, InList
<1>3. req' = [req EXCEPT ![r] = Begun(a, n, q)]
    BY <1>1
<1> QED
    BY <1>2, <1>3, RequestChanges, ZenonT(30)

LEMMA BeginsIs ==
    ASSUME RequestsTyped, NEW r \in Requests, NEW a \in Users, NEW q, InList(q), Begins(r, a, q)
    PROVE  /\ RequestsTyped' /\ req[r] = Idle /\ req'[r] = Begun(a, 0, q)
           /\ \A p \in Requests \ {r} : req'[p] = req[p]
<1>1. [Idle EXCEPT !.actor = a, !.todo = q, !.how = "busy"]
         = [Idle EXCEPT !.actor = a, !.form = 0, !.todo = q, !.how = "busy"]
  <2> DEFINE i1 == [actor |-> a, todo |-> <<>>, form |-> 0, about |-> <<>>, how |-> "idle"]
  <2>1. [Idle EXCEPT !.actor = a] = i1
      BY DEF Idle
  <2>2. [i1 EXCEPT !.form = 0] = i1
      OBVIOUS
  <2> HIDE DEF i1
  <2> QED
      BY <2>1, <2>2
<1>2. req' = [req EXCEPT ![r] = [Idle EXCEPT !.actor = a, !.form = 0, !.todo = q, !.how = "busy"]]
    BY <1>1 DEF Begins
<1>3. req[r] = Idle /\ 0 \in Nat
    BY DEF Begins
<1> QED
    BY <1>2, <1>3, RequestBegins

-------------------------------------------------------------------------------
(* The database, and what the steps about people do to a request.          *)

Group ==
    [exists : BOOLEAN, by : Requests \cup {None}, creator : Users \cup {None},
     foreign : DOMAIN Foreign \cup {None}, archived : BOOLEAN, simplify : BOOLEAN,
     rivals : SUBSET Requests]
Saving ==
    [by : Requests \cup {None}, actor : Users \cup {None},
     kind : {"added", "settled", "converted", "updated", "deleted"}, parts : SUBSET Users,
     group : Groups \cup {None}, pending : SUBSET Requests]

Typed ==
    /\ hidden \in [Users -> SUBSET Users]
    /\ groups \in [Groups -> Group]
    /\ rows \in [Rows -> Seq(Saving)]
    /\ RequestsTyped

\* Nothing that only a statement before it may have put there comes first.
Calm(q) ==
    q # <<>> => /\ Head(q)[1] # "befriend back"
                /\ Head(q)[1] = "insert group" => Head(q)[2] = None

LEMMA PlannedCalm == ASSUME NEW q \in Seq(Planned) PROVE Calm(q)
<1>1. q # <<>> => Head(q) \in Planned
    BY HeadTailProperties
<1> QED
    BY <1>1, PlannedIs DEF Calm

LEMMA PersonalCalm == ASSUME NEW q \in Seq(Personal) PROVE Calm(q)
<1>1. q \in Seq(Planned)
  <2>1. Personal \subseteq Planned
      BY DEF Personal
  <2> QED
      BY <2>1, SeqMonotonic
<1> QED
    BY <1>1, PlannedCalm

\* q goes on from a statement about people as the rest would.
Follows(r, q) ==
    /\ InList(q)
    /\ \A ops \in SUBSET Expenses : Has(q, ops) <=> Has(Rest(r), ops)

LEMMA RestIs ==
    ASSUME RequestsTyped, NEW r \in Requests, Busy(r)
    PROVE  /\ InList(req[r].todo) /\ Head(req[r].todo) \in Statements /\ Says(Head(req[r].todo))
           /\ InList(Rest(r)) /\ Calm(Rest(r)) /\ Follows(r, Rest(r))
           /\ Before(Head(req[r].todo), Rest(r))
           /\ Head(req[r].todo)[1] \notin Expenses => MildList(Rest(r))
           /\ \A ops : Has(req[r].todo, ops) <=> Head(req[r].todo)[1] \in ops \/ Has(Rest(r), ops)
<1>1. InList(req[r].todo) /\ req[r].todo # <<>>
    BY DEF RequestsTyped, Busy
<1>2. /\ Head(req[r].todo) \in Statements
      /\ InList(Rest(r)) /\ Before(Head(req[r].todo), Rest(r)) /\ Rest(r) \in Seq(Planned)
      /\ \A ops : Has(req[r].todo, ops) <=> Head(req[r].todo)[1] \in ops \/ Has(Rest(r), ops)
    BY <1>1, ListFirst DEF Rest
<1>3. Head(req[r].todo)[1] \notin Expenses => MildList(Rest(r))
    BY <1>2, MildIs
<1> QED
    BY <1>1, <1>2, <1>3, PlannedCalm, StatementIs DEF Follows

\* A statement about people, and what is left to do after it.
Goes(r, q) ==
    /\ Busy(r) /\ Head(req[r].todo)[1] \notin Expenses
    /\ Follows(r, q) /\ req'[r] = After(r, q)

OthersStay(r) == \A p \in Requests \ {r} : req'[p] = req[p]

\* What a step about people does to the requests.
Effect(r) ==
    /\ RequestsTyped' /\ OthersStay(r)
    /\ \/ /\ req[r] = Idle
          /\ \E a \in Users, q \in Seq(Personal) : req'[r] = Begun(a, 0, q)
       \/ req[r] = Idle /\ req'[r] = Over("done")
       \/ Busy(r) /\ req'[r] = Over("failed")
       \/ \E q : Goes(r, q)

\* The same, if no request comes to what only a statement before it may ask for.
CalmEffect(r) ==
    /\ RequestsTyped' /\ OthersStay(r)
    /\ \/ /\ req[r] = Idle
          /\ \E a \in Users, q \in Seq(Personal) : req'[r] = Begun(a, 0, q)
       \/ req[r] = Idle /\ req'[r] = Over("done")
       \/ Busy(r) /\ req'[r] = Over("failed")
       \/ \E q : Goes(r, q) /\ Calm(q)

LEMMA BeginsCalmly ==
    ASSUME Typed, NEW r \in Requests, NEW a \in Users, NEW q \in Seq(Personal), Begins(r, a, q)
    PROVE  CalmEffect(r) /\ UNCHANGED peopleVars
<1>1. InList(q)
    BY PersonalList
<1>2. /\ RequestsTyped' /\ req[r] = Idle /\ req'[r] = Begun(a, 0, q)
      /\ OthersStay(r)
    BY <1>1, BeginsIs DEF Typed, OthersStay
<1> QED
    BY <1>2 DEF CalmEffect, Begins

LEMMA RefusedCalmly ==
    ASSUME Typed, NEW r \in Requests, Busy(r), Refused(r)
    PROVE  CalmEffect(r)
<1>1. RequestsTyped' /\ req'[r] = Over("failed") /\ OthersStay(r)
    BY RequestEnds DEF Typed, OthersStay, Refused
<1> QED
    BY <1>1 DEF CalmEffect

LEMMA GoesOn ==
    ASSUME Typed, NEW r \in Requests, Busy(r), Head(req[r].todo)[1] \notin Expenses,
           NEW q, Follows(r, q), Does(r, q)
    PROVE  RequestsTyped' /\ OthersStay(r) /\ Goes(r, q)
<1>1. RequestsTyped' /\ req'[r] = After(r, q) /\ OthersStay(r)
    BY RequestDoes DEF Typed, OthersStay, Follows
<1> QED
    BY <1>1 DEF Goes

LEMMA RestCalmly ==
    ASSUME Typed, NEW r \in Requests, Busy(r), Head(req[r].todo)[1] \notin Expenses,
           Does(r, Rest(r))
    PROVE  CalmEffect(r)
<1>1. Follows(r, Rest(r)) /\ Calm(Rest(r))
    BY RestIs DEF Typed
<1> QED
    BY <1>1, GoesOn DEF CalmEffect

\* A statement put before the rest.
LEMMA PushFollows ==
    ASSUME Typed, NEW r \in Requests, Busy(r), Head(req[r].todo)[1] \notin Expenses,
           NEW s \in Statements, s[1] \notin Expenses
    PROVE  /\ Follows(r, <<s>> \o Rest(r)) /\ <<s>> \o Rest(r) # <<>>
           /\ Head(<<s>> \o Rest(r)) = s
<1>1. InList(Rest(r)) /\ MildList(Rest(r))
    BY RestIs DEF Typed
<1>2. Before(s, Rest(r))
    BY <1>1, MildIs
<1>3. /\ InList(<<s>> \o Rest(r)) /\ <<s>> \o Rest(r) # <<>> /\ Head(<<s>> \o Rest(r)) = s
      /\ \A ops : Has(<<s>> \o Rest(r), ops) <=> s[1] \in ops \/ Has(Rest(r), ops)
    BY <1>1, <1>2, ListPush
<1> QED
    BY <1>3 DEF Follows

LEMMA ListFollows ==
    ASSUME Typed, NEW r \in Requests, Busy(r), Head(req[r].todo)[1] \notin Expenses,
           NEW p \in Seq(Personal)
    PROVE  Follows(r, p \o Rest(r)) /\ Calm(p \o Rest(r))
<1>1. InList(Rest(r)) /\ MildList(Rest(r)) /\ Calm(Rest(r))
    BY RestIs DEF Typed
<1>2. /\ InList(p \o Rest(r))
      /\ \A ops \in SUBSET Expenses : Has(p \o Rest(r), ops) <=> Has(Rest(r), ops)
      /\ MildList(p \o Rest(r))
    BY <1>1, PersonalPush
<1>3. Calm(p \o Rest(r))
  <2>1. SUFFICES ASSUME p \o Rest(r) # <<>> PROVE Head(p \o Rest(r)) \in Planned
      BY PlannedIs DEF Calm
  <2>2. p \o Rest(r) \in Seq(Statements)
      BY <1>2 DEF InList
  <2>3. /\ Len(p \o Rest(r)) \in Nat \ {0}
        /\ Head(p \o Rest(r)) = (p \o Rest(r))[1]
      BY <2>1, <2>2, EmptySeq, HeadTailProperties
  <2> QED
      BY <1>2, <2>3 DEF MildList, Mild
<1> QED
    BY <1>2, <1>3 DEF Follows

-------------------------------------------------------------------------------
(* The steps about people.                                                 *)

LEMMA OneOf == ASSUME NEW s \in Personal PROVE <<s>> \in Seq(Personal)
OBVIOUS

LEMMA TwoOf == ASSUME NEW s \in Personal, NEW t \in Personal PROVE <<s, t>> \in Seq(Personal)
OBVIOUS

LEMMA AddFriendList ==
    ASSUME NEW a \in Users, NEW b \in Users, NEW strict \in BOOLEAN
    PROVE  AddFriend(a, b, strict) \in Seq(Personal)
<1>1. <<"befriend", a, b, strict>> \in Personal
    BY PersonalForms
<1>2. AddFriend(a, b, strict) = <<>> \/ AddFriend(a, b, strict) = << <<"befriend", a, b, strict>> >>
    BY DEF AddFriend
<1> QED
    BY <1>1, <1>2, OneOf, EmptySeq

LEMMA FillList ==
    ASSUME NEW a \in Users, NEW g \in Groups, NEW s \in DOMAIN Foreign
    PROVE  Fill(a, g, s) \in Seq(Personal)
<1> DEFINE Member(u) == << <<"find", u>>, AddGroupMember(g, u, FALSE)>>
           lists == [i \in DOMAIN Foreign[s] |-> Member(Foreign[s][i])]
<1>1. ASSUME NEW u \in Users PROVE Member(u) \in Seq(Personal)
  <2>1. <<"find", u>> \in Personal /\ <<"join", g, u, FALSE>> \in Personal
      BY PersonalForms
  <2> QED
      BY <2>1, TwoOf DEF AddGroupMember
<1>2. Foreign[s] \in Seq(Users)
    BY PeopleAssumption
<1>3. lists \in Seq(Seq(Personal))
  <2>1. DOMAIN Foreign[s] = 1..Len(Foreign[s]) /\ Len(Foreign[s]) \in Nat
      BY <1>2, LenProperties
  <2>2. \A i \in 1..Len(Foreign[s]) : Foreign[s][i] \in Users
      BY <1>2, ElementOfSeq
  <2> HIDE DEF Member
  <2>3. lists \in [1..Len(Foreign[s]) -> Seq(Personal)]
      BY <1>1, <2>1, <2>2
  <2> QED
      BY <2>1, <2>3
<1>4. FlattenSeq(lists) \in Seq(Personal)
  <2> HIDE DEF lists
  <2> QED
      BY <1>3, FlattenType
<1>5. <<AddGroupMember(g, a, FALSE)>> \in Seq(Personal)
  <2>1. <<"join", g, a, FALSE>> \in Personal
      BY PersonalForms
  <2> QED
      BY <2>1, OneOf DEF AddGroupMember
<1>6. Fill(a, g, s) = <<AddGroupMember(g, a, FALSE)>> \o FlattenSeq(lists)
    BY DEF Fill, Each
<1> QED
    BY <1>4, <1>5, <1>6, ConcatProperties

LEMMA ImportList ==
    ASSUME NEW a \in Users, NEW r \in Requests, ImportFromSplitwise(r, a)
    PROVE  \E q \in Seq(Personal) : Begins(r, a, q)
<1> DEFINE Pal(u) == << <<"find", u>> >> \o AddFriend(a, u, TRUE)
           Listed(s) == << <<"find group", s>> >>
           ids == SetToSeq(DOMAIN Foreign)
           pals == [i \in DOMAIN ForeignPals |-> Pal(ForeignPals[i])]
           theirs == [i \in DOMAIN ids |-> Listed(ids[i])]
<1>1. ASSUME NEW u \in Users PROVE Pal(u) \in Seq(Personal)
  <2>1. << <<"find", u>> >> \in Seq(Personal)
      BY PersonalForms, OneOf
  <2> QED
      BY <2>1, AddFriendList, ConcatProperties
<1>2. ASSUME NEW s \in DOMAIN Foreign PROVE Listed(s) \in Seq(Personal)
    BY PersonalForms, OneOf
<1>3. pals \in Seq(Seq(Personal))
  <2>1. DOMAIN ForeignPals = 1..Len(ForeignPals) /\ Len(ForeignPals) \in Nat
      BY PeopleAssumption, LenProperties
  <2>2. \A i \in 1..Len(ForeignPals) : ForeignPals[i] \in Users
      BY PeopleAssumption, ElementOfSeq
  <2> HIDE DEF Pal
  <2>3. pals \in [1..Len(ForeignPals) -> Seq(Personal)]
      BY <1>1, <2>1, <2>2
  <2> QED
      BY <2>1, <2>3
<1>4. theirs \in Seq(Seq(Personal))
  <2>0. ids \in Seq(DOMAIN Foreign)
      BY PeopleAssumption, SetToSeqType
  <2> HIDE DEF ids
  <2>1. DOMAIN ids = 1..Len(ids) /\ Len(ids) \in Nat
      BY <2>0, LenProperties
  <2>2. \A i \in 1..Len(ids) : ids[i] \in DOMAIN Foreign
      BY <2>0, ElementOfSeq
  <2> HIDE DEF Listed
  <2>3. theirs \in [1..Len(ids) -> Seq(Personal)]
      BY <1>2, <2>1, <2>2
  <2> QED
      BY <2>1, <2>3
<1>5. Begins(r, a, FlattenSeq(pals) \o FlattenSeq(theirs))
    BY DEF ImportFromSplitwise, Each
<1> HIDE DEF pals, theirs
<1>6. FlattenSeq(pals) \o FlattenSeq(theirs) \in Seq(Personal)
    BY <1>3, <1>4, FlattenType, ConcatProperties
<1> QED
    BY <1>5, <1>6

LEMMA HandlersOfFriends ==
    ASSUME Typed, NEW r \in Requests, NEW a \in Users, NEW b \in Users,
           AddFriendByEmail(r, a, b) \/ ToggleHiddenFriend(r, a, b)
    PROVE  CalmEffect(r) /\ UNCHANGED peopleVars
<1>1. CASE AddFriendByEmail(r, a, b)
  <2>1. << <<"find", b>> >> \in Seq(Personal)
      BY PersonalForms, OneOf
  <2>2. << <<"find", b>> >> \o AddFriend(a, b, TRUE) \in Seq(Personal)
      BY <2>1, AddFriendList, ConcatProperties
  <2> QED
      BY <1>1, <2>2, BeginsCalmly DEF AddFriendByEmail
<1>2. CASE ToggleHiddenFriend(r, a, b)
  <2> DEFINE us == IF b \in hidden[a] THEN hidden[a] \ {b} ELSE hidden[a] \union {b}
  <2>1. us \in SUBSET Users
      BY DEF Typed
  <2>2. Begins(r, a, << <<"hide", us>> >>)
      BY <1>2 DEF ToggleHiddenFriend
  <2> HIDE DEF us
  <2>3. << <<"hide", us>> >> \in Seq(Personal)
      BY <2>1, PersonalForms, OneOf
  <2> QED
      BY <2>2, <2>3, BeginsCalmly
<1> QED
    BY <1>1, <1>2

LEMMA HandlersAlone ==
    ASSUME Typed, NEW r \in Requests, NEW a \in Users, CreateGroup(r, a) \/ ImportFromSplitwise(r, a)
    PROVE  CalmEffect(r) /\ UNCHANGED peopleVars
<1>1. CASE CreateGroup(r, a)
  <2>1. << <<"insert group", None>> >> \in Seq(Personal)
      BY PersonalForms, OneOf
  <2> QED
      BY <1>1, <2>1, BeginsCalmly DEF CreateGroup
<1>2. CASE ImportFromSplitwise(r, a)
    BY <1>2, ImportList, BeginsCalmly
<1> QED
    BY <1>1, <1>2

LEMMA HandlersOfGroups ==
    ASSUME Typed, NEW r \in Requests, NEW a \in Users, NEW b, NEW g \in Groups,
           \/ b \in Users /\ (InviteToGroup(r, a, g, b) \/ AddFriendToGroup(r, a, g, b))
           \/ GroupArchive(r, a, g) \/ GroupSimplify(r, a, g)
    PROVE  CalmEffect(r) /\ UNCHANGED peopleVars
<1>1. CASE b \in Users /\ InviteToGroup(r, a, g, b)
  <2>1. <<"find", b>> \in Personal /\ <<"join", g, b, TRUE>> \in Personal
      BY <1>1, PersonalForms
  <2>2. << <<"find", b>>, AddGroupMember(g, b, TRUE) >> \in Seq(Personal)
      BY <2>1, TwoOf DEF AddGroupMember
  <2> QED
      BY <1>1, <2>2, BeginsCalmly DEF InviteToGroup
<1>2. CASE b \in Users /\ AddFriendToGroup(r, a, g, b)
  <2>1. <<"are friends", b>> \in Personal /\ <<"join", g, b, TRUE>> \in Personal
      BY <1>2, PersonalForms
  <2>2. << <<"are friends", b>>, AddGroupMember(g, b, TRUE) >> \in Seq(Personal)
      BY <2>1, TwoOf DEF AddGroupMember
  <2> QED
      BY <1>2, <2>2, BeginsCalmly DEF AddFriendToGroup
<1>3. CASE GroupArchive(r, a, g)
  <2>1. (~ groups[g].archived) \in BOOLEAN
      OBVIOUS
  <2>2. << <<"archive", g, ~groups[g].archived>> >> \in Seq(Personal)
      BY <2>1, PersonalForms, OneOf
  <2> QED
      BY <1>3, <2>2, BeginsCalmly DEF GroupArchive
<1>4. CASE GroupSimplify(r, a, g)
  <2>1. (~ groups[g].simplify) \in BOOLEAN
      OBVIOUS
  <2>2. << <<"simplify", g, ~groups[g].simplify>> >> \in Seq(Personal)
      BY <2>1, PersonalForms, OneOf
  <2> QED
      BY <1>4, <2>2, BeginsCalmly DEF GroupSimplify
<1> QED
    BY <1>1, <1>2, <1>3, <1>4

LEMMA PeopleOps ==
    \A op \in {"find", "create", "are friends", "befriend", "befriend back", "join", "hide",
              "archive", "simplify", "find group", "insert group", "prune"} : op \notin Expenses
BY DEF Expenses, Closing

LEMMA HeadIs ==
    ASSUME Typed, NEW r \in Requests, NEW op, Doing(r, op)
    PROVE  /\ Busy(r) /\ Head(req[r].todo)[1] = op /\ req[r].actor \in Users
           /\ Head(req[r].todo) \in Statements /\ Says(Head(req[r].todo))
           /\ op \in {"find", "create", "are friends", "befriend", "befriend back", "join", "hide",
                      "archive", "simplify", "find group", "insert group", "prune"} =>
                Head(req[r].todo)[1] \notin Expenses
<1>1. Busy(r) /\ Head(req[r].todo)[1] = op
    BY DEF Doing
<1>2. RequestsTyped
    BY DEF Typed
<1>3. Head(req[r].todo) \in Statements /\ Says(Head(req[r].todo))
    BY <1>1, <1>2, RestIs
<1>4. req[r].actor \in Users
    BY <1>1, <1>2 DEF RequestsTyped
<1> QED
    BY <1>1, <1>3, <1>4, PeopleOps

\* The arguments of the statement that comes next.
LEMMA ArgIs ==
    ASSUME Typed, NEW r \in Requests, NEW op, Doing(r, op)
    PROVE  /\ op = "insert group" => Arg(r, 2) \in DOMAIN Foreign \cup {None}
           /\ op \in {"befriend", "befriend back"} =>
                Arg(r, 2) \in Users /\ Arg(r, 3) \in Users /\ Arg(r, 4) \in BOOLEAN
           /\ op = "join" => Arg(r, 2) \in Groups /\ Arg(r, 3) \in Users /\ Arg(r, 4) \in BOOLEAN
           /\ op = "hide" => Arg(r, 2) \in SUBSET Users
           /\ op \in {"archive", "simplify"} => Arg(r, 2) \in Groups /\ Arg(r, 3) \in BOOLEAN
           /\ op \in {"find", "create", "are friends"} => Arg(r, 2) \in Users
           /\ op = "find group" => Arg(r, 2) \in DOMAIN Foreign
           /\ op = "check" => Arg(r, 2) \in Groups \cup {None} /\ Arg(r, 3) \in SUBSET Users
           /\ op = "add" => /\ Arg(r, 2) \in {"added", "settled"} /\ Arg(r, 3) \in SUBSET Users
                           /\ Arg(r, 4) \in Groups \cup {None}
           /\ op \in {"mine", "participants", "delete", "update"} => Arg(r, 2) \in Rows
           /\ op = "update" => Arg(r, 3) \in SUBSET Users
           /\ op = "convert" => Arg(r, 2) \in SUBSET Users
           /\ op \in {"inputs", "reread", "record", "record batch"} =>
                Head(req[r].todo) = <<op>>
<1>1. Says(Head(req[r].todo)) /\ Head(req[r].todo)[1] = op
    BY HeadIs
<1> QED
    BY <1>1, ZenonT(30) DEF Says, Arg

LEMMA FindUserCalm == ASSUME Typed, NEW r \in Requests, FindUser(r) PROVE CalmEffect(r)
<1>1. Doing(r, "find")
    BY DEF FindUser
<1>2. /\ Busy(r) /\ Head(req[r].todo)[1] = "find" /\ Head(req[r].todo)[1] \notin Expenses
      /\ Arg(r, 2) \in Users
    BY <1>1, HeadIs, ArgIs
<1>3. CASE Known(Arg(r, 2))
  <2>1. Does(r, Rest(r))
      BY <1>3 DEF FindUser
  <2> QED
      BY <1>2, <2>1, RestCalmly
<1>4. CASE ~ Known(Arg(r, 2))
  <2> DEFINE s == <<"create", Arg(r, 2)>>
  <2>1. Does(r, <<s>> \o Rest(r))
      BY <1>4 DEF FindUser
  <2>2. s \in Statements /\ s[1] = "create" /\ s[1] \notin Expenses
      BY <1>2, Forms DEF Statements, Expenses, Closing
  <2> HIDE DEF s
  <2>3. /\ Follows(r, <<s>> \o Rest(r)) /\ Head(<<s>> \o Rest(r)) = s
      BY <1>2, <2>2, PushFollows
  <2>4. Calm(<<s>> \o Rest(r))
      BY <2>2, <2>3 DEF Calm
  <2> QED
      BY <1>2, <2>1, <2>3, <2>4, GoesOn DEF CalmEffect
<1> QED
    BY <1>3, <1>4

LEMMA CreateUserCalm == ASSUME Typed, NEW r \in Requests, CreateUser(r) PROVE CalmEffect(r)
<1>1. Doing(r, "create")
    BY DEF CreateUser
<1>2. Busy(r) /\ Head(req[r].todo)[1] \notin Expenses
    BY <1>1, HeadIs
<1>3. Refused(r) \/ Does(r, Rest(r))
    BY DEF CreateUser
<1> QED
    BY <1>2, <1>3, RefusedCalmly, RestCalmly

LEMMA SimpleCalm ==
    ASSUME Typed, NEW r \in Requests,
           InsertFriendBack(r) \/ InsertMember(r) \/ SetHiddenFriends(r) \/ SetGroupFlag(r)
    PROVE  CalmEffect(r)
<1>1. \E op \in {"befriend back", "join", "hide", "archive", "simplify"} : Doing(r, op)
    BY DEF InsertFriendBack, InsertMember, SetHiddenFriends, SetGroupFlag
<1>2. Busy(r) /\ Head(req[r].todo)[1] \notin Expenses
    BY <1>1, HeadIs
<1>3. Does(r, Rest(r))
    BY DEF InsertFriendBack, InsertMember, SetHiddenFriends, SetGroupFlag
<1> QED
    BY <1>2, <1>3, RestCalmly

LEMMA CheckFriendsCalm == ASSUME Typed, NEW r \in Requests, CheckFriends(r) PROVE CalmEffect(r)
<1>1. Doing(r, "are friends")
    BY DEF CheckFriends
<1>2. Busy(r) /\ Head(req[r].todo)[1] \notin Expenses
    BY <1>1, HeadIs
<1>3. Refused(r) \/ Does(r, Rest(r))
    BY DEF CheckFriends
<1> QED
    BY <1>2, <1>3, RefusedCalmly, RestCalmly

NewGroup == CHOOSE h \in Groups : ~ groups[h].exists

Made(r, a, s, others) ==
    [NoGroup EXCEPT !.exists = TRUE, !.by = r, !.creator = a, !.foreign = s, !.rivals = others]

LEMMA MadeIs ==
    ASSUME NEW r, NEW a, NEW s, NEW others
    PROVE  /\ Made(r, a, s, others).exists /\ Made(r, a, s, others).by = r
           /\ Made(r, a, s, others).creator = a /\ Made(r, a, s, others).foreign = s
           /\ Made(r, a, s, others).rivals = others
BY DEF Made, NoGroup

LEMMA MadeType ==
    ASSUME NEW r \in Requests, NEW a \in Users, NEW s \in DOMAIN Foreign \cup {None},
           NEW others \in SUBSET Requests
    PROVE  Made(r, a, s, others) \in Group
<1>1. NoGroup \in Group
    BY DEF NoGroup, Group
<1> QED
    BY <1>1 DEF Made, Group

\* The requests that have looked for a group of Splitwise's, but for r.
Rivals(r, s) == {q \in Requests \ {r} : Doing(q, "insert group") /\ Arg(q, 2) = s}

LEMMA InsertGroupIs ==
    ASSUME Typed, NEW r \in Requests, InsertGroup(r)
    PROVE  /\ CalmEffect(r) /\ NewGroup \in Groups /\ ~ groups[NewGroup].exists
           /\ req[r].actor \in Users /\ Arg(r, 2) \in DOMAIN Foreign \cup {None}
           /\ req'[r] # Over("failed")
           /\ req'[r].todo # <<>> /\ Head(req'[r].todo) = <<"join", NewGroup, req[r].actor, TRUE>>
           /\ req'[r].how = req[r].how
           /\ groups' = [groups EXCEPT ![NewGroup] =
                           Made(r, req[r].actor, Arg(r, 2), Rivals(r, Arg(r, 2)))]
<1> DEFINE s == Arg(r, 2)
           a == req[r].actor
           g == NewGroup
           first == AddGroupMember(g, a, TRUE)
           fill == IF s = None THEN <<>> ELSE Fill(a, g, s)
<1>1. Doing(r, "insert group")
    BY DEF InsertGroup
<1>2. /\ Busy(r) /\ Head(req[r].todo)[1] \notin Expenses /\ a \in Users
      /\ s \in DOMAIN Foreign \cup {None}
    BY <1>1, HeadIs, ArgIs
<1>3. g \in Groups /\ ~ groups[g].exists
    BY Zenon DEF InsertGroup, NewGroup
<1>4. /\ groups' = [groups EXCEPT ![g] = Made(r, a, s, Rivals(r, s))]
      /\ Does(r, <<first>> \o fill \o Rest(r))
    BY Zenon DEF InsertGroup, NewGroup, Rivals, Made
<1>5. first \in Personal /\ first = <<"join", g, a, TRUE>>
    BY <1>2, <1>3, PersonalForms DEF AddGroupMember
<1>6. fill \in Seq(Personal)
    BY <1>2, <1>3, FillList, EmptySeq
<1> HIDE DEF fill, first, g, a, s
<1>7. <<first>> \o fill \in Seq(Personal)
    BY <1>5, <1>6, OneOf, ConcatProperties
<1> DEFINE q == (<<first>> \o fill) \o Rest(r)
<1>8. Follows(r, q) /\ Calm(q)
    BY <1>2, <1>7, ListFollows
<1>9. RequestsTyped' /\ OthersStay(r) /\ Goes(r, q)
    BY <1>2, <1>4, <1>8, GoesOn
<1>10. q # <<>> /\ Head(q) = first
  <2>1. Rest(r) \in Seq(Statements)
      BY <1>2, RestIs DEF Typed, InList
  <2>2. <<first>> \o fill \in Seq(Statements)
    <3>1. Personal \subseteq Statements
        BY PersonalIs
    <3> QED
        BY <1>7, <3>1, SeqMonotonic
  <2>3. Len(<<first>> \o fill) = 1 + Len(fill) /\ (<<first>> \o fill)[1] = first /\ Len(fill) \in Nat
    <3>1. <<first>> \in Seq(Personal) /\ Len(<<first>>) = 1 /\ <<first>>[1] = first
        BY <1>5, OneOf
    <3>2. /\ Len(<<first>> \o fill) = Len(<<first>>) + Len(fill) /\ Len(fill) \in Nat
          /\ \A i \in 1..Len(<<first>>) + Len(fill) : (<<first>> \o fill)[i] =
                 IF i <= Len(<<first>>) THEN <<first>>[i] ELSE fill[i - Len(<<first>>)]
        BY <1>6, <3>1, ConcatProperties, LenProperties
    <3> QED
        BY <3>1, <3>2
  <2>4. /\ Len(q) = (1 + Len(fill)) + Len(Rest(r)) /\ Len(Rest(r)) \in Nat
        /\ \A i \in 1..(1 + Len(fill)) + Len(Rest(r)) :
              q[i] = IF i <= 1 + Len(fill) THEN (<<first>> \o fill)[i]
                     ELSE Rest(r)[i - (1 + Len(fill))]
        /\ q \in Seq(Statements)
      BY <2>1, <2>2, <2>3, ConcatProperties, LenProperties
  <2> HIDE DEF q
  <2>5. Len(q) # 0 /\ q[1] = first
      BY <2>3, <2>4
  <2>6. q # <<>>
      BY <2>5, EmptySeq
  <2> QED
      BY <2>4, <2>5, <2>6, HeadTailProperties
<1> HIDE DEF q
<1>11. req'[r] = [req[r] EXCEPT !.todo = q]
    BY <1>9, <1>10 DEF Goes, After
<1>12. req'[r].todo = q /\ req'[r].how = req[r].how
    BY <1>11, RequestIs DEF Typed
<1>13. req'[r] # Over("failed")
    BY <1>10, <1>12 DEF Over
<1> QED
    BY <1>2, <1>3, <1>4, <1>5, <1>8, <1>9, <1>10, <1>12, <1>13 DEF CalmEffect, g, a, s

LEMMA FailsCalm == ASSUME Typed, NEW r \in Requests, Fails(r) PROVE CalmEffect(r)
<1>1. Busy(r)
    BY DEF Fails
<1>2. CASE Refused(r)
    BY <1>1, <1>2, RefusedCalmly
<1>3. CASE Head(req[r].todo)[1] \in {"befriend", "befriend back", "join"} /\ Does(r, Rest(r))
  <2>1. Head(req[r].todo)[1] \notin Expenses
      BY <1>3 DEF Expenses, Closing
  <2> QED
      BY <1>1, <1>3, <2>1, RestCalmly
<1> QED
    BY <1>2, <1>3 DEF Fails

LEMMA RemoveFriendCalm ==
    ASSUME Typed, NEW r \in Requests, NEW a, NEW b, RemoveFriend(r, a, b)
    PROVE  CalmEffect(r)
<1>1. req[r] = Idle /\ Ends(r, "done")
    BY DEF RemoveFriend
<1>2. RequestsTyped' /\ req'[r] = Over("done") /\ OthersStay(r)
    BY <1>1, RequestEnds DEF Typed, OthersStay
<1> QED
    BY <1>1, <1>2 DEF CalmEffect

LEMMA InsertFriendIs ==
    ASSUME Typed, NEW r \in Requests, InsertFriend(r)
    PROVE  /\ RequestsTyped' /\ OthersStay(r) /\ Doing(r, "befriend")
           /\ \E q : /\ Goes(r, q) /\ q # <<>>
                     /\ Head(q) = <<"befriend back", Arg(r, 2), Arg(r, 3), Arg(r, 4)>>
           /\ req'[r].todo # <<>>
           /\ Head(req'[r].todo) = <<"befriend back", Arg(r, 2), Arg(r, 3), Arg(r, 4)>>
           /\ Arg(r, 2) \in Users /\ Arg(r, 3) \in Users
<1> DEFINE s == <<"befriend back", Arg(r, 2), Arg(r, 3), Arg(r, 4)>>
           q == <<s>> \o Rest(r)
<1>1. Doing(r, "befriend") /\ Does(r, q)
    BY DEF InsertFriend
<1>2. /\ Busy(r) /\ Head(req[r].todo)[1] \notin Expenses
      /\ Arg(r, 2) \in Users /\ Arg(r, 3) \in Users /\ Arg(r, 4) \in BOOLEAN
    BY <1>1, HeadIs, ArgIs
<1>3. s \in Statements /\ s[1] \notin Expenses
    BY <1>2, Forms DEF Statements, Expenses, Closing
<1> HIDE DEF s
<1>4. Follows(r, q) /\ q # <<>> /\ Head(q) = s
    BY <1>2, <1>3, PushFollows
<1> HIDE DEF q
<1>5. RequestsTyped' /\ OthersStay(r) /\ Goes(r, q)
    BY <1>1, <1>2, <1>4, GoesOn
<1>6. req'[r].todo = q
  <2>1. req'[r] = [req[r] EXCEPT !.todo = q]
      BY <1>4, <1>5 DEF Goes, After
  <2> QED
      BY <2>1, RequestIs DEF Typed
<1> QED
    BY <1>1, <1>2, <1>4, <1>5, <1>6 DEF s

LEMMA FindGroupIs ==
    ASSUME Typed, NEW r \in Requests, FindGroup(r)
    PROVE  /\ RequestsTyped' /\ OthersStay(r)
           /\ \/ CalmEffect(r)
              \/ /\ \E q : Goes(r, q)
                 /\ Arg(r, 2) \in DOMAIN Foreign /\ Found(Arg(r, 2), req[r].actor) = {}
                 /\ req'[r].todo # <<>> /\ Head(req'[r].todo) = <<"insert group", Arg(r, 2)>>
           /\ req[r].todo # <<>> /\ Head(req[r].todo)[1] = "find group"
<1>1. Doing(r, "find group")
    BY DEF FindGroup
<1>2. /\ Busy(r) /\ Head(req[r].todo)[1] = "find group" /\ Head(req[r].todo)[1] \notin Expenses
      /\ Arg(r, 2) \in DOMAIN Foreign /\ req[r].actor \in Users
    BY <1>1, HeadIs, ArgIs
<1>3. CASE Found(Arg(r, 2), req[r].actor) = {} /\ Does(r, << <<"insert group", Arg(r, 2)>> >> \o Rest(r))
  <2> DEFINE s == <<"insert group", Arg(r, 2)>>
             q == <<s>> \o Rest(r)
  <2>1. s \in Statements /\ s[1] \notin Expenses
      BY <1>2, Forms DEF Statements, Expenses, Closing
  <2>2. Does(r, q)
      BY <1>3
  <2> HIDE DEF s
  <2>3. Follows(r, q) /\ q # <<>> /\ Head(q) = s
      BY <1>2, <2>1, PushFollows
  <2> HIDE DEF q
  <2>4. RequestsTyped' /\ OthersStay(r) /\ Goes(r, q)
      BY <1>2, <2>2, <2>3, GoesOn
  <2>5. req'[r].todo = q
    <3>1. req'[r] = [req[r] EXCEPT !.todo = q]
        BY <2>3, <2>4 DEF Goes, After
    <3> QED
        BY <3>1, RequestIs DEF Typed
  <2> QED
      BY <1>2, <1>3, <2>3, <2>4, <2>5 DEF s, Busy
<1>4. CASE \E g \in Found(Arg(r, 2), req[r].actor) :
             Does(r, Fill(req[r].actor, g, Arg(r, 2)) \o Rest(r))
  <2>1. PICK g \in Groups : Does(r, Fill(req[r].actor, g, Arg(r, 2)) \o Rest(r))
      BY <1>4 DEF Found
  <2> DEFINE fill == Fill(req[r].actor, g, Arg(r, 2))
  <2>2. fill \in Seq(Personal)
      BY <1>2, FillList
  <2> HIDE DEF fill
  <2>3. Follows(r, fill \o Rest(r)) /\ Calm(fill \o Rest(r))
      BY <1>2, <2>2, ListFollows
  <2>4. RequestsTyped' /\ OthersStay(r) /\ Goes(r, fill \o Rest(r))
      BY <1>2, <2>1, <2>3, GoesOn DEF fill
  <2> QED
      BY <1>2, <2>3, <2>4 DEF CalmEffect, Busy
<1> QED
    BY <1>3, <1>4 DEF FindGroup

LEMMA CalmIsEffect == ASSUME NEW r, CalmEffect(r) PROVE Effect(r)
BY DEF CalmEffect, Effect

LEMMA PeopleStepIs ==
    ASSUME Typed, NEW r \in Requests, PeopleStep(r)
    PROVE  /\ Effect(r) /\ rows' = rows
           /\ CalmEffect(r) \/ InsertFriend(r) \/ FindGroup(r)
<1>1. CASE \E a, b \in Users : \/ AddFriendByEmail(r, a, b) \/ ToggleHiddenFriend(r, a, b)
  <2>1. PICK a \in Users, b \in Users : AddFriendByEmail(r, a, b) \/ ToggleHiddenFriend(r, a, b)
      BY <1>1
  <2>2. CalmEffect(r) /\ UNCHANGED peopleVars
      BY <2>1, HandlersOfFriends
  <2> QED
      BY <2>2, CalmIsEffect DEF peopleVars
<1>2. CASE \E a, b \in Users : RemoveFriend(r, a, b)
    BY <1>2, RemoveFriendCalm, CalmIsEffect DEF RemoveFriend
<1>3. CASE \E a \in Users : CreateGroup(r, a) \/ ImportFromSplitwise(r, a)
    BY <1>3, HandlersAlone, CalmIsEffect DEF peopleVars
<1>4. CASE \E a, b \in Users, g \in Groups : InviteToGroup(r, a, g, b) \/ AddFriendToGroup(r, a, g, b)
    BY <1>4, HandlersOfGroups, CalmIsEffect DEF peopleVars
<1>5. CASE \E a \in Users, g \in Groups : GroupArchive(r, a, g) \/ GroupSimplify(r, a, g)
    BY <1>5, HandlersOfGroups, CalmIsEffect DEF peopleVars
<1>6. CASE FindUser(r)
    BY <1>6, FindUserCalm, CalmIsEffect DEF FindUser, peopleVars
<1>7. CASE CreateUser(r)
    BY <1>7, CreateUserCalm, CalmIsEffect DEF CreateUser
<1>8. CASE InsertFriend(r)
  <2>1. Effect(r)
      BY <1>8, InsertFriendIs DEF Effect
  <2> QED
      BY <1>8, <2>1 DEF InsertFriend
<1>9. CASE InsertFriendBack(r) \/ InsertMember(r) \/ SetHiddenFriends(r) \/ SetGroupFlag(r)
  <2>1. CalmEffect(r)
      BY <1>9, SimpleCalm
  <2> QED
      BY <1>9, <2>1, CalmIsEffect
         DEF InsertFriendBack, InsertMember, SetHiddenFriends, SetGroupFlag
<1>10. CASE CheckFriends(r)
    BY <1>10, CheckFriendsCalm, CalmIsEffect DEF CheckFriends, peopleVars
<1>11. CASE FindGroup(r)
  <2>1. Effect(r)
      BY <1>11, FindGroupIs, CalmIsEffect DEF Effect
  <2> QED
      BY <1>11, <2>1 DEF FindGroup, peopleVars
<1>12. CASE InsertGroup(r)
    BY <1>12, InsertGroupIs, CalmIsEffect DEF InsertGroup
<1>13. CASE Fails(r)
    BY <1>13, FailsCalm, CalmIsEffect DEF Fails
<1> QED
    BY <1>1, <1>2, <1>3, <1>4, <1>5, <1>6, <1>7, <1>8, <1>9, <1>10, <1>11, <1>12, <1>13
       DEF PeopleStep

LEMMA PeopleKeepTyped ==
    ASSUME Typed, NEW r \in Requests, PeopleStep(r) PROVE Typed'
<1>1. RequestsTyped' /\ rows' = rows
    BY PeopleStepIs DEF Effect
<1>2. hidden' \in [Users -> SUBSET Users]
  <2>1. CASE SetHiddenFriends(r)
    <3>1. Arg(r, 2) \in SUBSET Users
        BY <2>1, ArgIs DEF SetHiddenFriends
    <3> QED
        BY <2>1, <3>1 DEF SetHiddenFriends, Typed
  <2>2. CASE ~ SetHiddenFriends(r)
    <3>1. hidden' = hidden
        BY <2>2 DEF PeopleStep, AddFriendByEmail, ToggleHiddenFriend, RemoveFriend, CreateGroup,
             ImportFromSplitwise, InviteToGroup, AddFriendToGroup, GroupArchive, GroupSimplify,
             FindUser, CreateUser, InsertFriend, InsertFriendBack, InsertMember, SetGroupFlag,
             CheckFriends, FindGroup, InsertGroup, Fails, Begins, peopleVars
    <3> QED
        BY <3>1 DEF Typed
  <2> QED
      BY <2>1, <2>2
<1>3. groups' \in [Groups -> Group]
  <2>1. CASE SetGroupFlag(r)
    <3>1. \/ Doing(r, "archive") /\ groups' = [groups EXCEPT ![Arg(r, 2)].archived = Arg(r, 3)]
          \/ Doing(r, "simplify") /\ groups' = [groups EXCEPT ![Arg(r, 2)].simplify = Arg(r, 3)]
        BY <2>1 DEF SetGroupFlag
    <3>2. Arg(r, 2) \in Groups /\ Arg(r, 3) \in BOOLEAN
        BY <3>1, ArgIs
    <3>3. groups[Arg(r, 2)] \in Group
        BY <3>2 DEF Typed
    <3>4. [groups[Arg(r, 2)] EXCEPT !.archived = Arg(r, 3)] \in Group
        BY <3>2, <3>3 DEF Group
    <3>5. [groups[Arg(r, 2)] EXCEPT !.simplify = Arg(r, 3)] \in Group
        BY <3>2, <3>3 DEF Group
    <3> QED
        BY <3>1, <3>4, <3>5 DEF Typed
  <2>2. CASE InsertGroup(r)
    <3>1. Made(r, req[r].actor, Arg(r, 2), Rivals(r, Arg(r, 2))) \in Group
        BY <2>2, InsertGroupIs, MadeType DEF Rivals
    <3> QED
        BY <2>2, <3>1, InsertGroupIs DEF Typed
  <2>3. CASE ~ SetGroupFlag(r) /\ ~ InsertGroup(r)
    <3>1. groups' = groups
        BY <2>3 DEF PeopleStep, AddFriendByEmail, ToggleHiddenFriend, RemoveFriend, CreateGroup,
             ImportFromSplitwise, InviteToGroup, AddFriendToGroup, GroupArchive, GroupSimplify,
             FindUser, CreateUser, InsertFriend, InsertFriendBack, InsertMember, SetHiddenFriends,
             CheckFriends, FindGroup, Fails, Begins, peopleVars
    <3> QED
        BY <3>1 DEF Typed
  <2> QED
      BY <2>1, <2>2, <2>3
<1> QED
    BY <1>1, <1>2, <1>3 DEF Typed

-------------------------------------------------------------------------------
(* What a request about an expense has to do.                              *)

Between(p, q) == \A i \in 1..Len(p) : Before(p[i], q)

LEMMA ListsJoin ==
    ASSUME NEW p, InList(p), NEW q, InList(q), Between(p, q)
    PROVE  /\ InList(p \o q)
           /\ \A ops : Has(p \o q, ops) <=> Has(p, ops) \/ Has(q, ops)
           /\ \A l : Between(p \o q, l) <=> Between(p, l) /\ Between(q, l)
<1> DEFINE l == p \o q
<1>1. p \in Seq(Statements) /\ q \in Seq(Statements) /\ Len(p) \in Nat /\ Len(q) \in Nat
    BY LenProperties DEF InList
<1>2. /\ Len(l) = Len(p) + Len(q)
      /\ \A i \in 1..Len(l) : l[i] = IF i <= Len(p) THEN p[i] ELSE q[i - Len(p)]
    BY <1>1, ConcatProperties
<1>3. /\ InList(l)
      /\ \A ops : Has(l, ops) <=> Has(p, ops) \/ Has(q, ops)
    BY ListConcat DEF Between
<1> HIDE DEF l
<1>4. \A i \in 1..Len(l) : \/ i \in 1..Len(p) /\ l[i] = p[i]
                           \/ i - Len(p) \in 1..Len(q) /\ l[i] = q[i - Len(p)]
    BY <1>1, <1>2
<1>5. /\ \A i \in 1..Len(p) : i \in 1..Len(l) /\ l[i] = p[i]
      /\ \A i \in 1..Len(q) : i + Len(p) \in 1..Len(l) /\ l[i + Len(p)] = q[i]
  <2>1. ASSUME NEW i \in 1..Len(q)
        PROVE  i + Len(p) \in 1..Len(l) /\ l[i + Len(p)] = q[i]
    <3>1. /\ i + Len(p) \in 1..Len(l) /\ ~ (i + Len(p) <= Len(p))
          /\ (i + Len(p)) - Len(p) = i
        BY <1>1, <1>2
    <3> QED
        BY <1>2, <3>1
  <2> QED
      BY <1>1, <1>2, <2>1
<1>6. \A m : Between(l, m) <=> Between(p, m) /\ Between(q, m)
    BY <1>4, <1>5 DEF Between
<1> QED
    BY <1>3, <1>6 DEF l

LEMMA OneStatement ==
    ASSUME NEW s \in Planned
    PROVE  /\ InList(<<s>>) /\ s \in Statements
           /\ \A ops : Has(<<s>>, ops) <=> s[1] \in ops
           /\ \A q : Between(<<s>>, q) <=> Before(s, q)
           /\ \A q : Between(q, <<s>>) <=> \A i \in 1..Len(q) : May(q[i], s)
           /\ \A t : Before(t, <<s>>) <=> May(t, s)
<1>1. s \in Statements /\ 1..1 = {1}
    BY DEF Statements
<1>2. /\ InList(<<s>>) /\ \A ops : Has(<<s>>, ops) <=> s[1] \in ops
      /\ \A t : Before(t, <<s>>) <=> May(t, s)
      /\ <<s>>[1] = s /\ Len(<<s>>) = 1
    BY <1>1, ListOne
<1> QED
    BY <1>1, <1>2 DEF Between

LEMMA TwoStatements ==
    ASSUME NEW s \in Planned, NEW t \in Planned, May(s, t)
    PROVE  /\ InList(<<s, t>>)
           /\ \A ops : Has(<<s, t>>, ops) <=> s[1] \in ops \/ t[1] \in ops
           /\ \A q : Between(<<s, t>>, q) <=> Before(s, q) /\ Before(t, q)
           /\ \A u : Before(u, <<s, t>>) <=> May(u, s) /\ May(u, t)
<1>1. /\ <<s, t>> \in Seq(Statements) /\ Len(<<s, t>>) = 2
      /\ <<s, t>>[1] = s /\ <<s, t>>[2] = t /\ 1..2 = {1, 2}
    BY DEF Statements
<1> QED
    BY <1>1 DEF InList, Has, Between, Before

LEMMA MayBefore ==
    /\ \A s \in Statements, t \in Personal : s[1] \notin Closing => May(s, t)
    /\ \A s \in Statements : s[1] \notin Closing =>
          May(s, <<"record">>) /\ May(s, <<"record batch">>)
<1>1. ASSUME NEW s \in Statements, NEW t \in Personal, s[1] \notin Closing PROVE May(s, t)
    BY <1>1 DEF Personal, Expenses, May, Closing
<1>2. ASSUME NEW s \in Statements, s[1] \notin Closing
      PROVE  May(s, <<"record">>) /\ May(s, <<"record batch">>)
    BY <1>2, Forms DEF May, Closing
<1> QED
    BY <1>1, <1>2

Others == {"mine", "participants", "update", "delete"}

LEMMA AddList ==
    ASSUME NEW parts \in SUBSET Users, NEW payers \in SUBSET Users, NEW g \in Groups \cup {None},
           NEW pals \in Seq(Personal),
           NEW q, q = (( << <<"check", g, payers>>, <<"add", "added", parts, g>> >>
                         \o << <<"reread">>, <<"inputs">> >>) \o pals) \o << <<"record">> >>
    PROVE  InList(q) /\ ~ Has(q, Others) /\ Has(q, Closing) /\ Has(q, {"add"})
<1> DEFINE c == <<"check", g, payers>>
           a == <<"add", "added", parts, g>>
           l1 == <<c, a>>
           l2 == << <<"reread">>, <<"inputs">> >>
           l3 == << <<"record">> >>
<1>1. /\ c \in Planned /\ a \in Planned /\ c[1] = "check" /\ a[1] = "add"
      /\ <<"reread">> \in Planned /\ <<"inputs">> \in Planned /\ <<"record">> \in Planned
    BY Forms
<1> HIDE DEF c, a
<1>2. /\ May(c, a) /\ May(<<"reread">>, <<"inputs">>)
      /\ May(c, <<"reread">>) /\ May(c, <<"inputs">>)
      /\ May(a, <<"reread">>) /\ May(a, <<"inputs">>)
    BY <1>1 DEF May, Closing
<1>3. /\ InList(l1) /\ \A ops : Has(l1, ops) <=> "check" \in ops \/ "add" \in ops
      /\ \A l : Between(l1, l) <=> Before(c, l) /\ Before(a, l)
  <2>1. /\ InList(l1) /\ \A ops : Has(l1, ops) <=> c[1] \in ops \/ a[1] \in ops
        /\ \A l : Between(l1, l) <=> Before(c, l) /\ Before(a, l)
      BY <1>1, <1>2, TwoStatements
  <2> HIDE DEF l1
  <2> QED
      BY <1>1, <2>1
<1>4. /\ InList(l2) /\ \A ops : Has(l2, ops) <=> "reread" \in ops \/ "inputs" \in ops
      /\ \A l : Between(l2, l) <=> Before(<<"reread">>, l) /\ Before(<<"inputs">>, l)
      /\ \A u : Before(u, l2) <=> May(u, <<"reread">>) /\ May(u, <<"inputs">>)
    BY <1>1, <1>2, TwoStatements
<1>5. /\ InList(l3) /\ \A ops : Has(l3, ops) <=> "record" \in ops
      /\ \A t : Before(t, l3) <=> May(t, <<"record">>)
      /\ \A l : Between(l, l3) <=> \A i \in 1..Len(l) : May(l[i], <<"record">>)
    BY <1>1, OneStatement
<1>6. /\ InList(pals) /\ ~ Has(pals, Expenses)
      /\ \A i \in 1..Len(pals) : pals[i] \in Personal
    BY PersonalList
<1> HIDE DEF l1, l2, l3
<1>7. Between(l1, l2)
    BY <1>2, <1>3, <1>4
<1>8. /\ InList(l1 \o l2)
      /\ \A ops : Has(l1 \o l2, ops) <=> Has(l1, ops) \/ Has(l2, ops)
      /\ \A l : Between(l1 \o l2, l) <=> Between(l1, l) /\ Between(l2, l)
    BY <1>3, <1>4, <1>7, ListsJoin
<1>9. \A s \in {c, a, <<"reread">>, <<"inputs">>} :
         s \in Statements /\ s[1] \notin Closing
  <2>1. <<"reread">>[1] = "reread" /\ <<"inputs">>[1] = "inputs"
      OBVIOUS
  <2>2. "check" \notin Closing /\ "add" \notin Closing /\ "reread" \notin Closing
        /\ "inputs" \notin Closing
      BY DEF Closing
  <2> QED
      BY <1>1, <2>1, <2>2, Zenon DEF Statements
<1>10. \A s \in {c, a, <<"reread">>, <<"inputs">>} : Before(s, pals) /\ Before(s, l3)
    BY <1>5, <1>6, <1>9, MayBefore DEF Before
<1>11. Between(l1 \o l2, pals) /\ Between(l1 \o l2, l3)
    BY <1>3, <1>4, <1>8, <1>10
<1>12. /\ InList((l1 \o l2) \o pals)
       /\ \A ops : Has((l1 \o l2) \o pals, ops) <=> Has(l1 \o l2, ops) \/ Has(pals, ops)
       /\ \A l : Between((l1 \o l2) \o pals, l) <=> Between(l1 \o l2, l) /\ Between(pals, l)
    BY <1>6, <1>8, <1>11, ListsJoin
<1>13. Between(pals, l3)
    BY <1>5, <1>6, MayBefore, PersonalIs DEF Expenses
<1>14. /\ InList(((l1 \o l2) \o pals) \o l3)
       /\ \A ops : Has(((l1 \o l2) \o pals) \o l3, ops) <=> Has((l1 \o l2) \o pals, ops) \/ Has(l3, ops)
    BY <1>5, <1>11, <1>12, <1>13, ListsJoin
<1>15. q = ((l1 \o l2) \o pals) \o l3
    BY DEF l1, l2, l3, c, a
<1>16. ~ Has(pals, Others) /\ ~ Has(pals, {"add"})
    BY <1>6 DEF Has, Others, Expenses
<1> HIDE DEF l1, l2, l3
<1>17. /\ "check" \notin Others /\ "add" \notin Others /\ "reread" \notin Others
       /\ "inputs" \notin Others /\ "record" \notin Others /\ "record" \in Closing
    BY DEF Others, Closing
<1> QED
    BY <1>3, <1>4, <1>5, <1>8, <1>12, <1>14, <1>15, <1>16, <1>17

LEMMA MaybeStatement ==
    ASSUME NEW s \in Planned, NEW c \in {<<>>, <<s>>}
    PROVE  /\ InList(c) /\ \A ops : Has(c, ops) => s[1] \in ops
           /\ \A q : Before(s, q) => Between(c, q)
           /\ \A u : May(u, s) => Before(u, c)
<1>1. CASE c = <<>>
  <2>1. Len(c) = 0 /\ 1..0 = {}
      BY <1>1
  <2> QED
      BY <1>1, <2>1, ListEmpty DEF Between, Before
<1>2. CASE c = <<s>>
    BY <1>2, OneStatement
<1> QED
    BY <1>1, <1>2

LEMMA ThreeStatements ==
    ASSUME NEW s \in Planned, NEW t \in Planned, NEW u \in Planned,
           May(s, t), May(s, u), May(t, u)
    PROVE  /\ InList(<<s, t, u>>)
           /\ \A ops : Has(<<s, t, u>>, ops) <=> s[1] \in ops \/ t[1] \in ops \/ u[1] \in ops
           /\ \A q : Between(<<s, t, u>>, q) <=> Before(s, q) /\ Before(t, q) /\ Before(u, q)
           /\ \A v : Before(v, <<s, t, u>>) <=> May(v, s) /\ May(v, t) /\ May(v, u)
<1>1. /\ <<s, t, u>> \in Seq(Statements) /\ Len(<<s, t, u>>) = 3
      /\ <<s, t, u>>[1] = s /\ <<s, t, u>>[2] = t /\ <<s, t, u>>[3] = u /\ 1..3 = {1, 2, 3}
    BY DEF Statements
<1> QED
    BY <1>1 DEF InList, Has, Between, Before

LEMMA SettleList ==
    ASSUME NEW pair \in SUBSET Users, NEW g \in Groups \cup {None},
           NEW q, q = (IF g = None THEN << <<"check", g, pair>> >> ELSE <<>>)
                      \o << <<"add", "settled", pair, g>>, <<"reread">>, <<"record">> >>
    PROVE  InList(q) /\ ~ Has(q, Others) /\ Has(q, Closing) /\ ~ Has(q, {"inputs"})
<1> DEFINE c == <<"check", g, pair>>
           a == <<"add", "settled", pair, g>>
           l1 == IF g = None THEN <<c>> ELSE <<>>
           d == <<"reread">>
           e == <<"record">>
           l2 == <<a, d, e>>
<1>1. /\ c \in Planned /\ a \in Planned /\ c[1] = "check" /\ a[1] = "add"
      /\ d \in Planned /\ e \in Planned /\ d[1] = "reread" /\ e[1] = "record"
    BY Forms
<1>2. q = l1 \o l2
    OBVIOUS
<1> HIDE DEF c, a, d, e
<1>3. May(a, d) /\ May(a, e) /\ May(d, e) /\ May(c, a) /\ May(c, d) /\ May(c, e)
    BY <1>1 DEF May, Closing
<1>4. /\ InList(l2)
      /\ \A ops : Has(l2, ops) <=> "add" \in ops \/ "reread" \in ops \/ "record" \in ops
      /\ Before(c, l2)
  <2>1. /\ InList(l2) /\ \A ops : Has(l2, ops) <=> a[1] \in ops \/ d[1] \in ops \/ e[1] \in ops
        /\ \A v : Before(v, l2) <=> May(v, a) /\ May(v, d) /\ May(v, e)
      BY <1>1, <1>3, ThreeStatements
  <2> HIDE DEF l2
  <2> QED
      BY <1>1, <1>3, <2>1
<1>5. l1 \in {<<>>, <<c>>}
    OBVIOUS
<1> HIDE DEF l1, l2
<1>6. InList(l1) /\ Between(l1, l2) /\ \A ops : Has(l1, ops) => "check" \in ops
    BY <1>1, <1>4, <1>5, MaybeStatement
<1>7. InList(l1 \o l2) /\ \A ops : Has(l1 \o l2, ops) <=> Has(l1, ops) \/ Has(l2, ops)
    BY <1>4, <1>6, ListsJoin
<1>8. /\ "check" \notin Others /\ "add" \notin Others /\ "reread" \notin Others
      /\ "record" \notin Others /\ "record" \in Closing
    BY DEF Others, Closing
<1> QED
    BY <1>2, <1>4, <1>6, <1>7, <1>8

LEMMA SettleAllList ==
    ASSUME NEW pair1 \in SUBSET Users, NEW pair2 \in SUBSET Users, NEW g \in Groups,
           NEW q, q = (<< <<"add", "settled", pair1, g>>, <<"reread">> >>
                       \o << <<"add", "settled", pair2, g>>, <<"reread">> >>)
                      \o << <<"record batch">> >>
    PROVE  InList(q) /\ ~ Has(q, Others) /\ Has(q, Closing) /\ ~ Has(q, {"inputs"})
<1> DEFINE a == <<"add", "settled", pair1, g>>
           b == <<"add", "settled", pair2, g>>
           l1 == <<a, <<"reread">> >>
           l2 == <<b, <<"reread">> >>
           l3 == << <<"record batch">> >>
<1>1. /\ a \in Planned /\ b \in Planned /\ a[1] = "add" /\ b[1] = "add"
      /\ <<"reread">> \in Planned /\ <<"record batch">> \in Planned
      /\ <<"reread">>[1] = "reread" /\ <<"record batch">>[1] = "record batch"
    BY Forms
<1>2. q = (l1 \o l2) \o l3
    OBVIOUS
<1> HIDE DEF a, b
<1>3. /\ May(a, b) /\ May(a, <<"reread">>) /\ May(a, <<"record batch">>)
      /\ May(b, <<"reread">>) /\ May(b, <<"record batch">>)
      /\ May(<<"reread">>, b) /\ May(<<"reread">>, <<"reread">>)
      /\ May(<<"reread">>, <<"record batch">>)
    BY <1>1 DEF May, Closing
<1>4. /\ InList(l1) /\ \A ops : Has(l1, ops) <=> a[1] \in ops \/ <<"reread">>[1] \in ops
      /\ \A l : Between(l1, l) <=> Before(a, l) /\ Before(<<"reread">>, l)
    BY <1>1, <1>3, TwoStatements
<1>5. /\ InList(l2) /\ \A ops : Has(l2, ops) <=> b[1] \in ops \/ <<"reread">>[1] \in ops
      /\ \A l : Between(l2, l) <=> Before(b, l) /\ Before(<<"reread">>, l)
      /\ \A u : Before(u, l2) <=> May(u, b) /\ May(u, <<"reread">>)
    BY <1>1, <1>3, TwoStatements
<1>6. /\ InList(l3) /\ \A ops : Has(l3, ops) <=> <<"record batch">>[1] \in ops
      /\ \A t : Before(t, l3) <=> May(t, <<"record batch">>)
    BY <1>1, OneStatement
<1> HIDE DEF l1, l2, l3
<1>7. Between(l1, l2) /\ Between(l1, l3) /\ Between(l2, l3)
    BY <1>3, <1>4, <1>5, <1>6
<1>8. /\ InList(l1 \o l2) /\ Between(l1 \o l2, l3)
      /\ \A ops : Has(l1 \o l2, ops) <=> Has(l1, ops) \/ Has(l2, ops)
    BY <1>4, <1>5, <1>7, ListsJoin
<1>9. /\ InList((l1 \o l2) \o l3)
      /\ \A ops : Has((l1 \o l2) \o l3, ops) <=> Has(l1 \o l2, ops) \/ Has(l3, ops)
    BY <1>6, <1>8, ListsJoin
<1>10. /\ "add" \notin Others /\ "reread" \notin Others
       /\ "record batch" \notin Others /\ "record batch" \in Closing
    BY DEF Others, Closing
<1> QED
    BY <1>1, <1>2, <1>4, <1>5, <1>6, <1>8, <1>9, <1>10

LEMMA ConcatHead ==
    ASSUME NEW S, NEW p \in Seq(S), NEW q \in Seq(S), p # <<>>
    PROVE  p \o q \in Seq(S) /\ p \o q # <<>> /\ Head(p \o q) = Head(p)
<1>1. Len(p) \in Nat \ {0} /\ Len(q) \in Nat /\ Head(p) = p[1]
    BY EmptySeq, LenProperties, HeadTailProperties
<1>2. /\ p \o q \in Seq(S) /\ Len(p \o q) = Len(p) + Len(q)
      /\ \A j \in 1..Len(p) + Len(q) : (p \o q)[j] = IF j <= Len(p) THEN p[j] ELSE q[j - Len(p)]
    BY ConcatProperties
<1>3. Len(p \o q) # 0 /\ (p \o q)[1] = p[1]
    BY <1>1, <1>2
<1> DEFINE l == p \o q
<1> HIDE DEF l
<1>4. l \in Seq(S) /\ Len(l) # 0 => l # <<>> /\ Head(l) = l[1]
    BY EmptySeq, HeadTailProperties
<1> QED
    BY <1>1, <1>2, <1>3, <1>4 DEF l

LEMMA EditList ==
    ASSUME NEW x \in Rows, NEW parts \in SUBSET Users, NEW g \in Groups \cup {None},
           NEW c \in {<<>>, << <<"check", g, parts>> >>}, NEW i \in {<<>>, << <<"inputs">> >>},
           NEW q, q = ((( << <<"mine", x>> >> \o c) \o << <<"update", x, parts>> >>) \o i)
                      \o << <<"reread">>, <<"record">> >>
    PROVE  /\ InList(q) /\ q # <<>> /\ Head(q) = <<"mine", x>>
           /\ Has(q, Closing) /\ Has(q, {"update"}) /\ ~ Has(q, {"participants", "delete"})
<1> DEFINE m == <<"mine", x>>
           k == <<"check", g, parts>>
           u == <<"update", x, parts>>
           n == <<"inputs">>
           l1 == <<m>>
           l3 == <<u>>
           l5 == << <<"reread">>, <<"record">> >>
<1>1. /\ m \in Planned /\ k \in Planned /\ u \in Planned /\ n \in Planned
      /\ <<"reread">> \in Planned /\ <<"record">> \in Planned
      /\ m[1] = "mine" /\ k[1] = "check" /\ u[1] = "update" /\ n[1] = "inputs"
      /\ <<"reread">>[1] = "reread" /\ <<"record">>[1] = "record"
      /\ m[2] = x /\ u[2] = x
    BY Forms
<1>2. q = (((l1 \o c) \o l3) \o i) \o l5 /\ c \in {<<>>, <<k>>} /\ i \in {<<>>, <<n>>}
    OBVIOUS
<1> HIDE DEF m, k, u, n
<1>3. /\ May(m, k) /\ May(m, u) /\ May(m, n) /\ May(m, <<"reread">>) /\ May(m, <<"record">>)
      /\ May(k, u) /\ May(k, n) /\ May(k, <<"reread">>) /\ May(k, <<"record">>)
      /\ May(u, n) /\ May(u, <<"reread">>) /\ May(u, <<"record">>)
      /\ May(n, <<"reread">>) /\ May(n, <<"record">>) /\ May(<<"reread">>, <<"record">>)
    BY <1>1 DEF May, Closing
<1>4. /\ InList(l1) /\ \A ops : Has(l1, ops) <=> m[1] \in ops
      /\ \A l : Between(l1, l) <=> Before(m, l)
    BY <1>1, OneStatement
<1>5. /\ InList(c) /\ \A ops : Has(c, ops) => k[1] \in ops
      /\ \A l : Before(k, l) => Between(c, l)
      /\ \A t : May(t, k) => Before(t, c)
    BY <1>1, <1>2, MaybeStatement
<1>6. /\ InList(l3) /\ \A ops : Has(l3, ops) <=> u[1] \in ops
      /\ \A l : Between(l3, l) <=> Before(u, l)
      /\ \A t : Before(t, l3) <=> May(t, u)
    BY <1>1, OneStatement
<1>7. /\ InList(i) /\ \A ops : Has(i, ops) => n[1] \in ops
      /\ \A l : Before(n, l) => Between(i, l)
      /\ \A t : May(t, n) => Before(t, i)
    BY <1>1, <1>2, MaybeStatement
<1>8. /\ InList(l5)
      /\ \A ops : Has(l5, ops) <=> <<"reread">>[1] \in ops \/ <<"record">>[1] \in ops
      /\ \A t : Before(t, l5) <=> May(t, <<"reread">>) /\ May(t, <<"record">>)
    BY <1>1, <1>3, TwoStatements
<1> HIDE DEF l1, l3, l5
<1>9. /\ Between(l1, c) /\ Between(l1, l3) /\ Between(l1, i) /\ Between(l1, l5)
      /\ Between(c, l3) /\ Between(c, i) /\ Between(c, l5)
      /\ Between(l3, i) /\ Between(l3, l5) /\ Between(i, l5)
    BY <1>3, <1>4, <1>5, <1>6, <1>7, <1>8
<1> DEFINE p2 == l1 \o c
           p3 == p2 \o l3
           p4 == p3 \o i
<1>10. /\ InList(p2) /\ \A ops : Has(p2, ops) <=> Has(l1, ops) \/ Has(c, ops)
       /\ \A l : Between(p2, l) <=> Between(l1, l) /\ Between(c, l)
    BY <1>4, <1>5, <1>9, ListsJoin
<1> HIDE DEF p2
<1>11. /\ InList(p3) /\ \A ops : Has(p3, ops) <=> Has(p2, ops) \/ Has(l3, ops)
       /\ \A l : Between(p3, l) <=> Between(p2, l) /\ Between(l3, l)
    BY <1>6, <1>9, <1>10, ListsJoin
<1> HIDE DEF p3
<1>12. /\ InList(p4) /\ \A ops : Has(p4, ops) <=> Has(p3, ops) \/ Has(i, ops)
       /\ \A l : Between(p4, l) <=> Between(p3, l) /\ Between(i, l)
    BY <1>7, <1>9, <1>10, <1>11, ListsJoin
<1> HIDE DEF p4
<1>13. InList(p4 \o l5) /\ \A ops : Has(p4 \o l5, ops) <=> Has(p4, ops) \/ Has(l5, ops)
    BY <1>8, <1>9, <1>10, <1>11, <1>12, ListsJoin
<1>14. q = p4 \o l5
    BY <1>2 DEF p2, p3, p4
<1>15. q # <<>> /\ Head(q) = m
  <2>1. /\ l1 \in Seq(Statements) /\ c \in Seq(Statements) /\ l3 \in Seq(Statements)
        /\ i \in Seq(Statements) /\ l5 \in Seq(Statements) /\ Len(l1) = 1 /\ l1[1] = m
        /\ q \in Seq(Statements) /\ Len(c) \in Nat /\ Len(l3) \in Nat /\ Len(i) \in Nat
        /\ Len(l5) \in Nat
    <3>1. Len(l1) = 1 /\ l1[1] = m
        BY DEF l1
    <3> QED
        BY <1>4, <1>5, <1>6, <1>7, <1>8, <1>13, <1>14, <3>1, LenProperties DEF InList
  <2>2. l1 # <<>> /\ Head(l1) = m
      BY <2>1, EmptySeq, HeadTailProperties
  <2>3. p2 \in Seq(Statements) /\ p2 # <<>> /\ Head(p2) = m
      BY <2>1, <2>2, ConcatHead DEF p2
  <2>4. p3 \in Seq(Statements) /\ p3 # <<>> /\ Head(p3) = m
      BY <2>1, <2>3, ConcatHead DEF p3
  <2>5. p4 \in Seq(Statements) /\ p4 # <<>> /\ Head(p4) = m
      BY <2>1, <2>4, ConcatHead DEF p4
  <2>6. p4 \o l5 # <<>> /\ Head(p4 \o l5) = m
      BY <2>1, <2>5, ConcatHead
  <2> QED
      BY <1>14, <2>6
<1>16. /\ "record" \in Closing /\ "update" \in {"update"}
       /\ \A op \in {"mine", "check", "update", "inputs", "reread", "record"} :
             op \notin {"participants", "delete"}
    BY DEF Closing
<1>17. Has(q, Closing) /\ Has(q, {"update"})
    BY <1>1, <1>6, <1>8, <1>11, <1>12, <1>13, <1>14, <1>16
<1>18. ~ Has(q, {"participants", "delete"})
    BY <1>1, <1>4, <1>5, <1>6, <1>7, <1>8, <1>10, <1>11, <1>12, <1>13, <1>14, <1>16
<1> QED
    BY <1>13, <1>14, <1>15, <1>17, <1>18 DEF m

\* What is left of the deletion of x.
Deletion(x) == << <<"mine", x>>, <<"participants", x>>, <<"delete", x>>, <<"record">> >>
Reading(x) == << <<"participants", x>>, <<"delete", x>>, <<"record">> >>
Deleting(x) == << <<"delete", x>>, <<"record">> >>
Untelling(x) == << <<"delete", x>> >>

LEMMA DeletionList ==
    ASSUME NEW x \in Rows
    PROVE  /\ InList(Deletion(x)) /\ Has(Deletion(x), Closing)
           /\ Deletion(x) # <<>> /\ Head(Deletion(x)) = <<"mine", x>> /\ Tail(Deletion(x)) = Reading(x)
           /\ InList(Reading(x)) /\ Has(Reading(x), Closing)
           /\ Reading(x) # <<>> /\ Head(Reading(x)) = <<"participants", x>>
           /\ Tail(Reading(x)) = Deleting(x)
           /\ InList(Deleting(x)) /\ Has(Deleting(x), Closing)
           /\ Deleting(x) # <<>> /\ Head(Deleting(x)) = <<"delete", x>>
           /\ Tail(Deleting(x)) = << <<"record">> >> /\ Front(Deleting(x)) = Untelling(x)
           /\ InList(Untelling(x))
           /\ Untelling(x) # <<>> /\ Head(Untelling(x)) = <<"delete", x>>
           /\ Tail(Untelling(x)) = <<>>
<1> DEFINE m == <<"mine", x>>
           p == <<"participants", x>>
           d == <<"delete", x>>
           e == <<"record">>
<1>1. /\ m \in Planned /\ p \in Planned /\ d \in Planned /\ e \in Planned
      /\ m[1] = "mine" /\ p[1] = "participants" /\ d[1] = "delete" /\ e[1] = "record"
      /\ m[2] = x /\ p[2] = x /\ d[2] = x
    BY Forms
<1>2. /\ Deletion(x) = <<m, p, d, e>> /\ Reading(x) = <<p, d, e>>
      /\ Deleting(x) = <<d, e>> /\ Untelling(x) = <<d>>
    BY DEF Deletion, Reading, Deleting, Untelling
<1> HIDE DEF m, p, d, e
<1>3. May(m, p) /\ May(m, d) /\ May(m, e) /\ May(p, d) /\ May(p, e) /\ May(d, e)
    BY <1>1 DEF May, Closing
<1>4. /\ InList(<<p, d, e>>) /\ Before(m, <<p, d, e>>)
      /\ \A ops : Has(<<p, d, e>>, ops) <=> p[1] \in ops \/ d[1] \in ops \/ e[1] \in ops
    BY <1>1, <1>3, ThreeStatements
<1>5. InList(<<d, e>>) /\ \A ops : Has(<<d, e>>, ops) <=> d[1] \in ops \/ e[1] \in ops
    BY <1>1, <1>3, TwoStatements
<1>6. InList(<<d>>) /\ m \in Statements
    BY <1>1, OneStatement
<1>7. <<m, p, d, e>> = <<m>> \o <<p, d, e>>
    OBVIOUS
<1>8. /\ InList(<<m, p, d, e>>)
      /\ \A ops : Has(<<m, p, d, e>>, ops) <=> m[1] \in ops \/ Has(<<p, d, e>>, ops)
  <2>1. /\ InList(<<m>> \o <<p, d, e>>)
        /\ \A ops : Has(<<m>> \o <<p, d, e>>, ops) <=> m[1] \in ops \/ Has(<<p, d, e>>, ops)
      BY <1>4, <1>6, ListPush
  <2> QED
      BY <1>7, <2>1
<1>9. "record" \in Closing
    BY DEF Closing
<1>10. /\ Head(<<m, p, d, e>>) = m /\ Tail(<<m, p, d, e>>) = <<p, d, e>> /\ <<m, p, d, e>> # <<>>
       /\ Head(<<p, d, e>>) = p /\ Tail(<<p, d, e>>) = <<d, e>> /\ <<p, d, e>> # <<>>
       /\ Head(<<d, e>>) = d /\ Tail(<<d, e>>) = <<e>> /\ <<d, e>> # <<>>
       /\ Head(<<d>>) = d /\ Tail(<<d>>) = <<>> /\ <<d>> # <<>>
    OBVIOUS
<1>11. Front(<<d, e>>) = <<d>>
  <2>1. Len(<<d, e>>) = 2 /\ <<d, e>>[1] = d /\ <<d, e>> \in Seq(Planned)
      BY <1>1
  <2>2. /\ SubSeq(<<d, e>>, 1, 1) \in Seq(Planned) /\ Len(SubSeq(<<d, e>>, 1, 1)) = 1
        /\ SubSeq(<<d, e>>, 1, 1)[1] = d
    <3>1. \A i \in 1..1 : <<d, e>>[i] \in Planned
        BY <1>1, <2>1
    <3>2. /\ SubSeq(<<d, e>>, 1, 1) \in Seq(Planned)
          /\ Len(SubSeq(<<d, e>>, 1, 1)) = IF 1 <= 1 THEN 1 - 1 + 1 ELSE 0
          /\ \A i \in 1..1 - 1 + 1 : SubSeq(<<d, e>>, 1, 1)[i] = <<d, e>>[1 + i - 1]
        BY <3>1, SubSeqProperties
    <3>3. 1 <= 1 /\ 1 - 1 + 1 = 1 /\ 1 + 1 - 1 = 1 /\ 1 \in 1..1 - 1 + 1
        OBVIOUS
    <3> QED
        BY <2>1, <3>2, <3>3
  <2>3. SubSeq(<<d, e>>, 1, 1) = <<d>>
    <3>1. \A l \in Seq(Planned) : Len(l) = 1 => l = <<l[1]>>
        OBVIOUS
    <3> QED
        BY <2>2, <3>1
  <2>4. Front(<<d, e>>) = SubSeq(<<d, e>>, 1, 1)
      BY <2>1 DEF Front
  <2> QED
      BY <2>3, <2>4
<1>12. Has(<<p, d, e>>, Closing) /\ Has(<<d, e>>, Closing) /\ Has(<<m, p, d, e>>, Closing)
    BY <1>1, <1>4, <1>5, <1>8, <1>9
<1> QED
    BY <1>2, <1>4, <1>5, <1>6, <1>8, <1>10, <1>11, <1>12 DEF m, p, d, e

-------------------------------------------------------------------------------
(* What the steps about expenses do to a request.                          *)

Now(r, todo, about, how) ==
    [actor |-> req[r].actor, todo |-> todo, form |-> req[r].form, about |-> about, how |-> how]

LEMMA RequestNow ==
    ASSUME RequestsTyped, NEW r \in Requests, Busy(r),
           NEW todo, InList(todo), NEW about \in Seq(Telling), NEW how \in {"busy", "untold"},
           req' = [req EXCEPT ![r] = Now(r, todo, about, how)]
    PROVE  RequestsTyped' /\ OthersStay(r) /\ req'[r] = Now(r, todo, about, how)
<1>1. req[r] \in Request /\ req[r].actor \in Users
    BY DEF RequestsTyped
<1>2. PICK now : now = Now(r, todo, about, how)
    OBVIOUS
<1>3. now \in Request /\ now.todo = todo /\ now.how = how /\ now.actor = req[r].actor
    BY <1>1, <1>2 DEF Request, Now, InList
<1>4. InList(now.todo) /\ req' = [req EXCEPT ![r] = now]
    BY <1>2, <1>3
<1>5. now.how # "idle" /\ now.how \in {"busy", "untold"} /\ now.actor \in Users
    BY <1>1, <1>3
<1>6. RequestsTyped' /\ req'[r] = now /\ \A p \in Requests \ {r} : req'[p] = req[p]
    BY <1>3, <1>4, <1>5, RequestChanges
<1> QED
    BY <1>2, <1>6 DEF OthersStay

LEMMA FieldsChange ==
    ASSUME NEW a, NEW t, NEW f, NEW b, NEW h, NEW n,
           NEW q, q = [actor |-> a, todo |-> t, form |-> f, about |-> b, how |-> h]
    PROVE  /\ [q EXCEPT !.todo = n] = [actor |-> a, todo |-> n, form |-> f, about |-> b, how |-> h]
           /\ [q EXCEPT !.about = n] = [actor |-> a, todo |-> t, form |-> f, about |-> n, how |-> h]
           /\ [q EXCEPT !.how = n] = [actor |-> a, todo |-> t, form |-> f, about |-> b, how |-> n]
           /\ q.about = b
OBVIOUS

\* A request that changes in two fields.
LEMMA NowWith ==
    ASSUME RequestsTyped, NEW r \in Requests, NEW todo, NEW n
    PROVE  /\ [[req[r] EXCEPT !.todo = todo] EXCEPT !.about = n] = Now(r, todo, n, req[r].how)
           /\ [[req[r] EXCEPT !.todo = todo] EXCEPT !.how = "untold"]
                = Now(r, todo, req[r].about, "untold")
           /\ [req[r] EXCEPT !.todo = todo].about = req[r].about
           /\ req \in [Requests -> Request]
<1>1. PICK a, t, f, b, h :
           /\ a = req[r].actor /\ t = req[r].todo /\ f = req[r].form /\ b = req[r].about
           /\ h = req[r].how
    OBVIOUS
<1>2. PICK q : q = req[r]
    OBVIOUS
<1>3. q = [actor |-> a, todo |-> t, form |-> f, about |-> b, how |-> h]
    BY <1>1, <1>2, RequestIs
<1>4. PICK p : p = [q EXCEPT !.todo = todo]
    OBVIOUS
<1>5. p = [actor |-> a, todo |-> todo, form |-> f, about |-> b, how |-> h]
    BY <1>3, <1>4, FieldsChange
<1>6. /\ [p EXCEPT !.about = n] = [actor |-> a, todo |-> todo, form |-> f, about |-> n, how |-> h]
      /\ p.about = b
    BY <1>5, FieldsChange
<1>7. [p EXCEPT !.how = "untold"]
         = [actor |-> a, todo |-> todo, form |-> f, about |-> b, how |-> "untold"]
    BY <1>5
<1>8. /\ [[req[r] EXCEPT !.todo = todo] EXCEPT !.about = n] = Now(r, todo, n, req[r].how)
      /\ [[req[r] EXCEPT !.todo = todo] EXCEPT !.how = "untold"]
           = Now(r, todo, req[r].about, "untold")
      /\ [req[r] EXCEPT !.todo = todo].about = req[r].about
    BY <1>1, <1>2, <1>4, <1>6, <1>7 DEF Now
<1>9. req \in [Requests -> Request]
    BY DEF RequestsTyped
<1> QED
    BY <1>8, <1>9

LEMMA NowWithAbout ==
    ASSUME RequestsTyped, NEW r \in Requests, NEW todo, NEW about
    PROVE  [req EXCEPT ![r].todo = todo, ![r].about = about]
             = [req EXCEPT ![r] = Now(r, todo, about, req[r].how)]
<1>1. /\ [[req[r] EXCEPT !.todo = todo] EXCEPT !.about = about] = Now(r, todo, about, req[r].how)
      /\ req \in [Requests -> Request]
    BY NowWith
<1> QED
    BY <1>1

Retitled(about, k, n) == [about EXCEPT ![k].title = n]
WithTitle(r, todo, k, n) == [req EXCEPT ![r].todo = todo, ![r].about[k].title = n]

LEMMA NowWithTitle ==
    ASSUME RequestsTyped, NEW r \in Requests, NEW todo, NEW k, NEW n
    PROVE  WithTitle(r, todo, k, n)
             = [req EXCEPT ![r] = Now(r, todo, Retitled(req[r].about, k, n), req[r].how)]
<1>1. /\ [[req[r] EXCEPT !.todo = todo] EXCEPT !.about = [req[r].about EXCEPT ![k].title = n]]
           = Now(r, todo, [req[r].about EXCEPT ![k].title = n], req[r].how)
      /\ [req[r] EXCEPT !.todo = todo].about = req[r].about
      /\ req \in [Requests -> Request]
    BY NowWith
<1>2. [[req[r] EXCEPT !.todo = todo] EXCEPT !.about[k].title = n]
         = Now(r, todo, [req[r].about EXCEPT ![k].title = n], req[r].how)
    BY <1>1
<1> QED
    BY <1>1, <1>2 DEF WithTitle, Retitled

Reshared(about, k, n) == [about EXCEPT ![k].share = n]
WithShare(r, todo, k, n) == [req EXCEPT ![r].todo = todo, ![r].about[k].share = n]

LEMMA NowWithShare ==
    ASSUME RequestsTyped, NEW r \in Requests, NEW todo, NEW k, NEW n
    PROVE  WithShare(r, todo, k, n)
             = [req EXCEPT ![r] = Now(r, todo, Reshared(req[r].about, k, n), req[r].how)]
<1>1. /\ [[req[r] EXCEPT !.todo = todo] EXCEPT !.about = [req[r].about EXCEPT ![k].share = n]]
           = Now(r, todo, [req[r].about EXCEPT ![k].share = n], req[r].how)
      /\ [req[r] EXCEPT !.todo = todo].about = req[r].about
      /\ req \in [Requests -> Request]
    BY NowWith
<1>2. [[req[r] EXCEPT !.todo = todo] EXCEPT !.about[k].share = n]
         = Now(r, todo, [req[r].about EXCEPT ![k].share = n], req[r].how)
    BY <1>1
<1> QED
    BY <1>1, <1>2 DEF WithShare, Reshared

LEMMA NowUntold ==
    ASSUME RequestsTyped, NEW r \in Requests, NEW todo
    PROVE  [req EXCEPT ![r].todo = todo, ![r].how = "untold"]
             = [req EXCEPT ![r] = Now(r, todo, req[r].about, "untold")]
<1>1. /\ [[req[r] EXCEPT !.todo = todo] EXCEPT !.how = "untold"]
           = Now(r, todo, req[r].about, "untold")
      /\ req \in [Requests -> Request]
    BY NowWith
<1> QED
    BY <1>1

LEMMA AboutChanges ==
    ASSUME NEW about \in Seq(Telling), NEW k, NEW n \in Nat
    PROVE  /\ Retitled(about, k, n) \in Seq(Telling)
           /\ Reshared(about, k, n) \in Seq(Telling)
<1>1. Len(about) \in Nat /\ about \in [1..Len(about) -> Telling]
    BY LenProperties
<1>2. \A e \in Telling : [e EXCEPT !.title = n] \in Telling /\ [e EXCEPT !.share = n] \in Telling
    BY DEF Telling
<1>3. [about EXCEPT ![k].title = n] \in [1..Len(about) -> Telling]
    BY <1>1, <1>2
<1>4. [about EXCEPT ![k].share = n] \in [1..Len(about) -> Telling]
    BY <1>1, <1>2
<1> QED
    BY <1>1, <1>3, <1>4 DEF Retitled, Reshared

-------------------------------------------------------------------------------
(* The invariant.  Of a request q, that is r's, and the rows db.           *)

Saved(r, db) == \E x \in Rows : \E v \in 1..Len(db[x]) : db[x][v].by = r

\* A version saved for a that others are to hear of.
Tellable(w, a) == w.actor = a /\ w.kind # "converted"

\* A row that is deleted stays as it is, and no request saves two versions of one.
RowsSound(db) ==
    \A x \in Rows : \A v \in 1..Len(db[x]) :
        /\ db[x][v].kind = "deleted" => v = Len(db[x])
        /\ \A w \in 1..Len(db[x]) : db[x][v].by # None /\ db[x][v].by = db[x][w].by => v = w

\* What r is to tell with e is of the version it saved, or deleted.
TellsSaved(e, r, db) ==
    /\ e.share \in 1..Len(db[e.row]) /\ db[e.row][e.share].by = r
    /\ db[e.row][e.share].kind # "deleted"
    /\ e.share <= e.title /\ e.title <= Len(db[e.row])

TellsDeleted(e, r, db) ==
    /\ e.share \in 1..Len(db[e.row]) /\ e.share + 1 \in 1..Len(db[e.row])
    /\ e.title = e.share
    /\ db[e.row][e.share + 1].by = r /\ db[e.row][e.share + 1].kind = "deleted"
    /\ db[e.row][e.share + 1].parts = db[e.row][e.share].parts

Tells(e, r, db) == TellsSaved(e, r, db) \/ TellsDeleted(e, r, db)

\* A change or a deletion before anything is saved, by what it has asked so far:
\* whether the row is one's own,
Asking(q, db) ==
    /\ q.how = "busy" /\ q.about = <<>>
    /\ \E x \in Rows : /\ q.todo # <<>> /\ Head(q.todo) = <<"mine", x>>
                       /\ q.form <= Len(db[x])
                       /\ \/ q.todo = Deletion(x)
                          \/ /\ Has(q.todo, {"update"})
                             /\ ~ Has(q.todo, {"participants", "delete"})

\* which leaves nothing but the change,
Changing(q, db) ==
    /\ q.how = "busy" /\ Len(q.about) = 1 /\ q.about[1].share = 0
    /\ Has(q.todo, {"update"}) /\ ~ Has(q.todo, {"mine", "participants", "delete"})
    /\ \A i \in 1..Len(q.todo) : q.todo[i][1] = "update" =>
          /\ q.form <= Len(db[q.todo[i][2]])
          /\ db[q.todo[i][2]][q.form].kind # "deleted"

\* or the participants of what is to be deleted,
AskingParticipants(q, db) ==
    \E x \in Rows : /\ q.todo = Reading(x) /\ q.how = "busy"
                    /\ Len(q.about) = 1 /\ q.about[1].row = x
                    /\ q.form <= q.about[1].title /\ q.about[1].title <= Len(db[x])

\* and then the deletion, with them or without.
AboutToDelete(q, db) ==
    \E x \in Rows : /\ q.todo = Deleting(x) /\ q.how = "busy"
                    /\ Len(q.about) = 1 /\ q.about[1].row = x
                    /\ q.form <= q.about[1].title /\ q.about[1].title <= q.about[1].share
                    /\ q.about[1].share <= Len(db[x])

WillNotTell(q) == q.how = "untold" /\ \E x \in Rows : q.todo = Untelling(x)

Page(q, db) ==
    \/ Asking(q, db) \/ Changing(q, db) \/ AskingParticipants(q, db) \/ AboutToDelete(q, db)
    \/ WillNotTell(q)

\* A request on its way: it tells of everything it saves, and of nothing else.
Sound(q, r, db) ==
    /\ q.how = "idle" => ~ Saved(r, db)
    /\ q.todo # <<>> =>
         \A x \in Rows : \A v \in 1..Len(db[x]) : db[x][v].by = r => Tellable(db[x][v], q.actor)
    /\ Has(q.todo, {"convert"}) => ~ Saved(r, db)
    /\ Has(q.todo, Others) => ~ Saved(r, db) /\ q.form # 0 /\ Page(q, db)
    /\ q.todo # <<>> /\ q.how = "untold" => Has(q.todo, Others)
    /\ q.todo # <<>> /\ ~ Has(q.todo, Others) =>
         /\ \A i \in 1..Len(q.about) : Tells(q.about[i], r, db)
         /\ \A x \in Rows : \A v \in 1..Len(db[x]) : db[x][v].by = r =>
               \E i \in 1..Len(q.about) : q.about[i].row = x
    /\ q.todo # <<>> /\ q.how = "busy" /\ (Has(q.todo, Expenses) \/ Saved(r, db)) =>
         Has(q.todo, Closing)
    /\ Has(q.todo, {"reread"}) =>
         \A x \in Rows : \A v \in 1..Len(db[x]) : db[x][v].by = r => db[x][v].kind # "deleted"
    /\ Has(q.todo, {"inputs"}) => q.about # <<>> \/ Has(q.todo, {"add", "mine"})

\* Whoever changes the split that r has typed something for knows it is to come.
Awaited(q, r, db) ==
    Has(q.todo, {"inputs"}) /\ ~ Has(q.todo, Others) /\ q.about # <<>> =>
        LET e == q.about[Len(q.about)] IN
        \A v \in 1..Len(db[e.row]) : e.share < v /\ db[e.row][v].kind = "updated" =>
            r \in db[e.row][v].pending

InputsSound ==
    /\ inputs \in [Rows -> Nat]
    /\ \A x \in Rows : inputs[x] <= Len(rows[x])
    /\ InputsDescribeRow

\* A notification that was recorded is of what its request saved.
Noticed(n, db) ==
    /\ n.row \in Rows /\ n.share \in 1..Len(db[n.row])
    /\ n.title \in Nat /\ n.title <= Len(db[n.row])
    /\ n.user \in db[n.row][n.share].parts \ {n.actor}
    /\ n.kind = "deleted" => /\ n.share + 1 <= Len(db[n.row]) /\ n.title = n.share
                             /\ db[n.row][n.share + 1].by = n.by
    /\ n.kind # "deleted" => /\ db[n.row][n.share].by = n.by /\ n.share <= n.title
                             /\ n.title # n.share => db[n.row][n.share + 1].by # n.by

NoticesSound == \A n \in recorded : n.by \in Requests /\ req[n.by].how = "done" /\ Noticed(n, rows)

DeliveriesSound ==
    /\ delivery = [r \in Requests |-> [step |-> delivery[r].step, todo |-> delivery[r].todo,
                                       batch |-> delivery[r].batch]]
    /\ \A r \in Requests : \A t \in delivery[r].todo :
         \E n \in recorded : n.by = r /\ n.user = t[1] /\ t[2] \in {n.row, None}

BookInv ==
    /\ Typed /\ RowsSound(rows)
    /\ \A r \in Requests : Sound(req[r], r, rows) /\ Awaited(req[r], r, rows)
    /\ InputsSound /\ NoticesSound /\ NobodyIsMissed /\ DeliveriesSound

-------------------------------------------------------------------------------
(* Other requests' rows.                                                   *)

Books == [Rows -> Seq(Saving)]

\* How rows change: r saves a version of some of them.
Later(db, new) ==
    \A x \in Rows : /\ Len(db[x]) <= Len(new[x])
                    /\ \A v \in 1..Len(db[x]) : v \in 1..Len(new[x]) /\ new[x][v] = db[x][v]
NewBy(r, db, new) ==
    \A x \in Rows : \A v \in 1..Len(new[x]) :
        v \in 1..Len(db[x]) \/ (v = Len(db[x]) + 1 /\ Len(new[x]) = v /\ new[x][v].by = r)
NewAwait(db, new) ==
    \A x \in Rows : \A v \in 1..Len(new[x]) :
        v \in 1..Len(db[x]) \/ new[x][v].pending = Pending(x)

LEMMA SavedStays ==
    ASSUME NEW r, NEW p, p # r, NEW db \in Books, NEW new \in Books,
           Later(db, new), NewBy(r, db, new)
    PROVE  Saved(p, new) <=> Saved(p, db)
<1>1. ASSUME Saved(p, new) PROVE Saved(p, db)
  <2>1. PICK x \in Rows : \E v \in 1..Len(new[x]) : new[x][v].by = p
      BY <1>1 DEF Saved
  <2>2. PICK v \in 1..Len(new[x]) : new[x][v].by = p
      BY <2>1
  <2>3. v \in 1..Len(db[x]) /\ new[x][v] = db[x][v]
      BY <2>2 DEF NewBy, Later
  <2> QED
      BY <2>2, <2>3 DEF Saved
<1>2. ASSUME Saved(p, db) PROVE Saved(p, new)
  <2>1. PICK x \in Rows : \E v \in 1..Len(db[x]) : db[x][v].by = p
      BY <1>2 DEF Saved
  <2>2. PICK v \in 1..Len(db[x]) : db[x][v].by = p
      BY <2>1
  <2> QED
      BY <2>2 DEF Saved, Later
<1> QED
    BY <1>1, <1>2

LEMMA TellsStays ==
    ASSUME NEW r, NEW e \in Telling, NEW db \in Books, NEW new \in Books, Later(db, new), Tells(e, r, db)
    PROVE  Tells(e, r, new)
<1> DEFINE x == e.row
<1>1. x \in Rows /\ e.share \in Nat /\ e.title \in Nat
    BY DEF Telling
<1>2. /\ Len(db[x]) \in Nat /\ Len(new[x]) \in Nat /\ Len(db[x]) <= Len(new[x])
      /\ \A v \in 1..Len(db[x]) : v \in 1..Len(new[x]) /\ new[x][v] = db[x][v]
    BY <1>1, LenProperties DEF Later, Books
<1>3. CASE TellsSaved(e, r, db)
    BY <1>1, <1>2, <1>3 DEF TellsSaved, Tells
<1>4. CASE TellsDeleted(e, r, db)
    BY <1>1, <1>2, <1>4 DEF TellsDeleted, Tells
<1> QED
    BY <1>3, <1>4 DEF Tells

LEMMA PageStays ==
    ASSUME NEW q \in Request, NEW db \in Books, NEW new \in Books, Later(db, new),
           q.form # 0, Page(q, db)
    PROVE  Page(q, new)
<1>1. /\ q.form \in Nat /\ q.about \in Seq(Telling) /\ q.todo \in Seq(Statements)
    BY DEF Request
<1>2. \A x \in Rows : Len(db[x]) \in Nat /\ Len(new[x]) \in Nat /\ Len(db[x]) <= Len(new[x])
    BY LenProperties DEF Later, Books
<1>3. Len(q.about) = 1 => q.about[1].title \in Nat /\ q.about[1].share \in Nat
  <2>1. SUFFICES ASSUME Len(q.about) = 1 PROVE q.about[1] \in Telling
      BY DEF Telling
  <2> QED
      BY <1>1, <2>1, ElementOfSeq
<1>4. CASE Asking(q, db)
    BY <1>1, <1>2, <1>4 DEF Asking, Page
<1>5. CASE Changing(q, db)
  <2>1. ASSUME NEW i \in 1..Len(q.todo), q.todo[i][1] = "update"
        PROVE  /\ q.form <= Len(new[q.todo[i][2]])
               /\ new[q.todo[i][2]][q.form].kind # "deleted"
    <3>1. q.todo[i] \in Statements
        BY <1>1, ElementOfSeq
    <3>2. q.todo[i][2] \in Rows
        BY <2>1, <3>1, StatementIs DEF Says
    <3>3. q.form <= Len(db[q.todo[i][2]]) /\ db[q.todo[i][2]][q.form].kind # "deleted"
        BY <1>5, <2>1 DEF Changing
    <3>4. q.form \in 1..Len(db[q.todo[i][2]])
        BY <1>1, <1>2, <3>2, <3>3
    <3> QED
        BY <1>1, <1>2, <3>2, <3>3, <3>4 DEF Later
  <2>2. Changing(q, new)
      BY <1>5, <2>1 DEF Changing
  <2> QED
      BY <2>2 DEF Page
<1>6. CASE AskingParticipants(q, db)
    BY <1>1, <1>2, <1>3, <1>6 DEF AskingParticipants, Page
<1>7. CASE AboutToDelete(q, db)
    BY <1>1, <1>2, <1>3, <1>7 DEF AboutToDelete, Page
<1>8. CASE WillNotTell(q)
    BY <1>8 DEF Page
<1> QED
    BY <1>4, <1>5, <1>6, <1>7, <1>8 DEF Page

LEMMA SoundStays ==
    ASSUME NEW q \in Request, NEW r, NEW p, p # r, NEW db \in Books, NEW new \in Books,
           Later(db, new), NewBy(r, db, new), Sound(q, p, db)
    PROVE  Sound(q, p, new)
<1>1. Saved(p, new) <=> Saved(p, db)
    BY SavedStays
<1>2. Has(q.todo, Others) => ~ Saved(p, new) /\ q.form # 0 /\ Page(q, new)
    BY <1>1, PageStays DEF Sound
<1>3. \A x \in Rows : \A v \in 1..Len(new[x]) : new[x][v].by = p =>
         v \in 1..Len(db[x]) /\ new[x][v] = db[x][v]
    BY DEF NewBy, Later
<1>4. ASSUME q.todo # <<>>, ~ Has(q.todo, Others)
      PROVE  /\ \A i \in 1..Len(q.about) : Tells(q.about[i], p, new)
             /\ \A x \in Rows : \A v \in 1..Len(new[x]) : new[x][v].by = p =>
                   \E i \in 1..Len(q.about) : q.about[i].row = x
  <2>1. /\ \A i \in 1..Len(q.about) : Tells(q.about[i], p, db)
        /\ \A x \in Rows : \A v \in 1..Len(db[x]) : db[x][v].by = p =>
              \E i \in 1..Len(q.about) : q.about[i].row = x
      BY <1>4 DEF Sound
  <2>2. \A i \in 1..Len(q.about) : q.about[i] \in Telling
      BY ElementOfSeq DEF Request
  <2>3. \A i \in 1..Len(q.about) : Tells(q.about[i], p, new)
      BY <2>1, <2>2, TellsStays
  <2> QED
      BY <1>3, <2>1, <2>3
<1>5. Has(q.todo, {"reread"}) =>
         \A x \in Rows : \A v \in 1..Len(new[x]) : new[x][v].by = p => new[x][v].kind # "deleted"
    BY <1>3 DEF Sound
<1>6. q.todo # <<>> =>
         \A x \in Rows : \A v \in 1..Len(new[x]) : new[x][v].by = p => Tellable(new[x][v], q.actor)
    BY <1>3 DEF Sound
<1> QED
    BY <1>1, <1>2, <1>4, <1>5, <1>6 DEF Sound

LEMMA AwaitedStays ==
    ASSUME Typed, NEW p \in Requests, NEW new \in Books, Later(rows, new), NewAwait(rows, new),
           Sound(req[p], p, rows), Awaited(req[p], p, rows)
    PROVE  Awaited(req[p], p, new)
<1> DEFINE q == req[p]
           e == q.about[Len(q.about)]
<1>1. SUFFICES ASSUME Has(q.todo, {"inputs"}), ~ Has(q.todo, Others), q.about # <<>>,
                      NEW v \in 1..Len(new[e.row]), e.share < v, new[e.row][v].kind = "updated"
               PROVE  p \in new[e.row][v].pending
    BY DEF Awaited
<1>2. q \in Request /\ q.about \in Seq(Telling) /\ q.todo \in Seq(Statements)
    BY DEF Typed, RequestsTyped, Request
<1>3. Len(q.about) \in Nat \ {0} /\ Len(q.about) \in 1..Len(q.about)
    BY <1>1, <1>2, EmptySeq
<1>4. e \in Telling
    BY <1>2, <1>3, ElementOfSeq
<1>5. e.row \in Rows /\ e.share \in Nat
    BY <1>4 DEF Telling
<1>6. CASE v \in 1..Len(rows[e.row])
  <2>1. new[e.row][v] = rows[e.row][v]
      BY <1>5, <1>6 DEF Later
  <2>2. p \in rows[e.row][v].pending
      BY <1>1, <1>6, <2>1 DEF Awaited
  <2> QED
      BY <2>1, <2>2
<1>7. CASE v \notin 1..Len(rows[e.row])
  <2>1. new[e.row][v].pending = Pending(e.row)
      BY <1>5, <1>7 DEF NewAwait
  <2>2. q.todo # <<>>
      BY <1>1, ListEmpty
  <2>3. Tells(e, p, rows)
      BY <1>1, <1>3, <2>2 DEF Sound
  <2>4. e.share > 0
    <3>1. e.share \in 1..Len(rows[e.row])
        BY <2>3 DEF Tells, TellsSaved, TellsDeleted
    <3> HIDE DEF e
    <3> QED
        BY <3>1
  <2>5. <<"inputs">> \in ToSet(q.todo)
    <3>1. PICK i \in 1..Len(q.todo) : q.todo[i][1] = "inputs"
        BY <1>1 DEF Has
    <3>2. q.todo[i] \in Statements
        BY <1>2, ElementOfSeq
    <3>3. q.todo[i] = <<"inputs">>
        BY <3>1, <3>2, StatementIs DEF Says
    <3>4. i \in DOMAIN q.todo
        BY <1>2, LenProperties
    <3> QED
        BY <3>3, <3>4 DEF ToSet
  <2>6. e \in ToSet(q.about)
    <3>1. Len(q.about) \in DOMAIN q.about
        BY <1>2, <1>3, LenProperties
    <3> QED
        BY <3>1 DEF ToSet
  <2> QED
      BY <2>1, <2>4, <2>5, <2>6 DEF Pending
<1> QED
    BY <1>6, <1>7

-------------------------------------------------------------------------------
(* A step of r leaves the books of the others as they were.                *)

Moves(r) ==
    /\ Typed' /\ OthersStay(r)
    /\ Later(rows, rows') /\ NewBy(r, rows, rows') /\ NewAwait(rows, rows')
    /\ RowsSound(rows') /\ Sound(req'[r], r, rows') /\ Awaited(req'[r], r, rows')
    /\ req'[r] = req[r] \/ req[r].how # "done"
    /\ req'[r].how = "done" => (req'[r] = req[r] /\ rows' = rows) \/ ~ Saved(r, rows')

LEMMA RowsStay ==
    ASSUME NEW r, rows' = rows
    PROVE  Later(rows, rows') /\ NewBy(r, rows, rows') /\ NewAwait(rows, rows')
BY DEF Later, NewBy, NewAwait

LEMMA MovesKeepSound ==
    ASSUME BookInv, NEW r \in Requests, Moves(r)
    PROVE  /\ Typed' /\ RowsSound(rows')
           /\ \A p \in Requests : Sound(req'[p], p, rows') /\ Awaited(req'[p], p, rows')
<1>1. rows \in Books /\ rows' \in Books
    BY DEF BookInv, Moves, Typed, Books
<1>2. ASSUME NEW p \in Requests, p # r
      PROVE  Sound(req'[p], p, rows') /\ Awaited(req'[p], p, rows')
  <2>1. req'[p] = req[p] /\ req[p] \in Request
      BY <1>2 DEF Moves, OthersStay, BookInv, Typed, RequestsTyped
  <2>2. Sound(req[p], p, rows) /\ Awaited(req[p], p, rows)
      BY DEF BookInv
  <2>3. Later(rows, rows') /\ NewBy(r, rows, rows') /\ NewAwait(rows, rows')
      BY DEF Moves
  <2>4. Sound(req[p], p, rows')
      BY <1>1, <1>2, <2>1, <2>2, <2>3, SoundStays
  <2>5. Awaited(req[p], p, rows')
      BY <1>1, <2>2, <2>3, AwaitedStays DEF BookInv
  <2> QED
      BY <2>1, <2>4, <2>5
<1> QED
    BY <1>2 DEF Moves

LEMMA NoticedStays ==
    ASSUME NEW n, NEW db \in Books, NEW new \in Books, Later(db, new), Noticed(n, db)
    PROVE  Noticed(n, new)
<1> DEFINE x == n.row
<1>1. x \in Rows /\ n.share \in Nat /\ n.title \in Nat /\ n.share \in 1..Len(db[x])
    BY DEF Noticed
<1>2. /\ Len(db[x]) \in Nat /\ Len(new[x]) \in Nat /\ Len(db[x]) <= Len(new[x])
      /\ \A v \in 1..Len(db[x]) : v \in 1..Len(new[x]) /\ new[x][v] = db[x][v]
    BY <1>1, LenProperties DEF Later, Books
<1>3. n.kind = "deleted" => n.share + 1 \in 1..Len(db[x])
    BY <1>1, <1>2 DEF Noticed
<1>4. n.kind # "deleted" /\ n.title # n.share => n.share + 1 \in 1..Len(db[x])
    BY <1>1, <1>2 DEF Noticed
<1>5. new[x][n.share] = db[x][n.share] /\ n.share \in 1..Len(new[x]) /\ n.title <= Len(new[x])
  <2>1. n.title <= Len(db[x])
      BY DEF Noticed
  <2> QED
      BY <1>1, <1>2, <2>1
<1>6. n.share + 1 \in 1..Len(db[x]) =>
         new[x][n.share + 1] = db[x][n.share + 1] /\ n.share + 1 <= Len(new[x])
    BY <1>1, <1>2
<1> HIDE DEF x
<1>7. /\ n.user \in db[x][n.share].parts \ {n.actor}
      /\ n.kind = "deleted" => n.title = n.share /\ db[x][n.share + 1].by = n.by
      /\ n.kind # "deleted" => /\ db[x][n.share].by = n.by /\ n.share <= n.title
                               /\ n.title # n.share => db[x][n.share + 1].by # n.by
    BY DEF Noticed, x
<1> QED
    BY <1>1, <1>3, <1>4, <1>5, <1>6, <1>7 DEF Noticed, x

\* Whom NobodyIsMissed is about.
Hearers(w) == IF w.kind = "converted" THEN {} ELSE w.parts \ {w.actor}

\* A step that saves nothing and records nothing, or saves and is not over.
LEMMA QuietKeeps ==
    ASSUME BookInv, NEW r \in Requests, Moves(r), recorded' = recorded, delivery' = delivery,
           InputsSound'
    PROVE  BookInv'
<1>1. rows \in Books /\ rows' \in Books /\ Later(rows, rows')
    BY DEF BookInv, Moves, Typed, Books
<1>2. \A p \in Requests : req'[p] = req[p] \/ (p = r /\ req[r].how # "done")
    BY DEF Moves, OthersStay
<1>3. NoticesSound'
  <2>1. ASSUME NEW n \in recorded
        PROVE  n.by \in Requests /\ req'[n.by].how = "done" /\ Noticed(n, rows')
    <3>1. n.by \in Requests /\ req[n.by].how = "done" /\ Noticed(n, rows)
        BY DEF BookInv, NoticesSound
    <3>2. Noticed(n, rows')
        BY <1>1, <3>1, NoticedStays
    <3> QED
        BY <1>2, <3>1, <3>2
  <2> QED
      BY <2>1 DEF NoticesSound
<1>4. NobodyIsMissed'
  <2>1. ASSUME NEW x \in Rows, NEW v \in DOMAIN rows'[x], rows'[x][v].by # None,
               req'[rows'[x][v].by].how = "done"
        PROVE  {n.user : n \in {n \in recorded : n.by = rows'[x][v].by /\ n.row = x}}
                  = Hearers(rows'[x][v])
    <3> DEFINE w == rows'[x][v]
    <3>1. /\ v \in 1..Len(rows'[x]) /\ rows[x] \in Seq(Saving) /\ DOMAIN rows[x] = 1..Len(rows[x])
          /\ w \in Saving
      <4>1. rows'[x] \in Seq(Saving) /\ rows[x] \in Seq(Saving)
          BY <1>1 DEF Books
      <4>2. v \in 1..Len(rows'[x])
          BY <4>1, LenProperties
      <4> QED
          BY <4>1, <4>2, LenProperties, ElementOfSeq
    <3>2. w.by \in Requests
        BY <2>1, <3>1 DEF Saving
    <3>3. ASSUME w.by = r PROVE req'[r] = req[r] /\ rows' = rows
      <4>1. Saved(r, rows')
          BY <3>1, <3>3 DEF Saved
      <4> QED
          BY <2>1, <3>3, <4>1 DEF Moves
    <3>4. v \in 1..Len(rows[x])
      <4>1. CASE w.by = r
          BY <3>1, <3>3, <4>1
      <4>2. CASE w.by # r
          BY <3>1, <4>2 DEF Moves, NewBy
      <4> QED
          BY <4>1, <4>2
    <3>5. rows[x][v] = w
        BY <1>1, <3>4 DEF Later
    <3>6. req'[w.by] = req[w.by]
        BY <1>2, <3>2, <3>3
    <3>7. v \in DOMAIN rows[x] /\ rows[x][v].by # None /\ req[rows[x][v].by].how = "done"
        BY <2>1, <3>1, <3>4, <3>5, <3>6
    <3>8. {n.user : n \in {n \in recorded : n.by = rows[x][v].by /\ n.row = x}}
             = Hearers(rows[x][v])
        BY <3>7 DEF BookInv, NobodyIsMissed, Hearers
    <3> QED
        BY <3>5, <3>8
  <2> QED
      BY <2>1 DEF NobodyIsMissed, Hearers
<1>5. DeliveriesSound'
    BY DEF BookInv, DeliveriesSound
<1>6. /\ Typed' /\ RowsSound(rows')
      /\ \A p \in Requests : Sound(req'[p], p, rows') /\ Awaited(req'[p], p, rows')
    BY MovesKeepSound
<1> QED
    BY <1>3, <1>4, <1>5, <1>6 DEF BookInv

\* Rows that change without a change of what is split.
LEMMA InputsStay ==
    ASSUME BookInv, rows' \in Books, Later(rows, rows'), inputs' = inputs,
           \A x \in Rows : \A v \in 1..Len(rows'[x]) :
               v \in 1..Len(rows[x]) \/ rows'[x][v].kind # "updated"
    PROVE  InputsSound'
<1>1. inputs \in [Rows -> Nat]
    BY DEF BookInv, InputsSound
<1>2. \A x \in Rows : /\ inputs[x] \in Nat /\ inputs[x] <= Len(rows[x])
                      /\ Len(rows[x]) \in Nat /\ Len(rows'[x]) \in Nat
                      /\ Len(rows[x]) <= Len(rows'[x])
    BY LenProperties DEF BookInv, InputsSound, Later, Books, Typed
<1>3. InputsDescribeRow'
  <2>1. ASSUME NEW x \in Rows, NEW v \in inputs[x] + 1 .. Len(rows'[x]),
               inputs[x] # 0, rows'[x][v].kind = "updated"
        PROVE  rows'[x][inputs[x]].by \in rows'[x][v].pending
    <3>1. v \in 1..Len(rows'[x]) /\ inputs[x] \in 1..Len(rows[x])
        BY <1>2, <2>1
    <3>2. v \in 1..Len(rows[x])
        BY <2>1, <3>1
    <3>3. rows'[x][v] = rows[x][v] /\ rows'[x][inputs[x]] = rows[x][inputs[x]]
        BY <3>1, <3>2 DEF Later
    <3>4. v \in inputs[x] + 1 .. Len(rows[x])
        BY <1>2, <2>1, <3>2
    <3>5. rows[x][inputs[x]].by \in rows[x][v].pending
        BY <2>1, <3>3, <3>4 DEF BookInv, InputsSound, InputsDescribeRow
    <3> QED
        BY <3>3, <3>5
  <2> QED
      BY <2>1 DEF InputsDescribeRow
<1> QED
    BY <1>1, <1>2, <1>3 DEF InputsSound

-------------------------------------------------------------------------------
(* Steps that save nothing: a request ends, begins or goes on.             *)

LEMMA OverSound ==
    ASSUME NEW h, h # "idle", NEW r, NEW db
    PROVE  Sound(Over(h), r, db) /\ Awaited(Over(h), r, db)
<1>1. Over(h).todo = <<>> /\ Over(h).how = h
    BY DEF Over
<1> QED
    BY <1>1, ListEmpty DEF Sound, Awaited

LEMMA OverMoves ==
    ASSUME BookInv, NEW r \in Requests, NEW h \in {"done", "failed", "untold"},
           req'[r] = Over(h), OthersStay(r), Typed', rows' = rows, req[r].how # "done",
           h = "done" => ~ Saved(r, rows)
    PROVE  Moves(r)
<1>1. Sound(Over(h), r, rows) /\ Awaited(Over(h), r, rows) /\ Over(h).how = h
    BY OverSound DEF Over
<1>2. RowsSound(rows)
    BY DEF BookInv
<1> QED
    BY <1>1, <1>2, RowsStay DEF Moves

LEMMA BegunMoves ==
    ASSUME BookInv, NEW r \in Requests, NEW a \in Users, NEW n \in Nat, NEW q, InList(q),
           req[r] = Idle, req'[r] = Begun(a, n, q), OthersStay(r), Typed', rows' = rows,
           Has(q, Others) => n # 0 /\ Page(Begun(a, n, q), rows),
           Has(q, Expenses) => Has(q, Closing),
           Has(q, {"inputs"}) => Has(q, {"add", "mine"})
    PROVE  Moves(r)
<1> DEFINE now == Begun(a, n, q)
<1>1. /\ now.todo = q /\ now.how = "busy" /\ now.form = n /\ now.about = <<>> /\ Len(now.about) = 0
      /\ 1..0 = {}
    BY DEF Begun
<1>2. ~ Saved(r, rows) /\ RowsSound(rows) /\ req[r].how = "idle"
    BY DEF BookInv, Sound, Idle
<1>3. \A x \in Rows : \A v \in 1..Len(rows[x]) : rows[x][v].by # r
    BY <1>2 DEF Saved
<1> HIDE DEF now
<1>4. Sound(now, r, rows)
    BY <1>1, <1>2, <1>3 DEF Sound, now
<1>5. Awaited(now, r, rows)
    BY <1>1 DEF Awaited
<1> QED
    BY <1>1, <1>2, <1>4, <1>5, RowsStay DEF Moves, now

LEMMA Onward ==
    ASSUME NEW q, NEW p, NEW r, NEW db, q.todo # <<>>,
           p.actor = q.actor, p.form = q.form, p.about = q.about, p.how = q.how,
           \A ops \in SUBSET Expenses : Has(p.todo, ops) => Has(q.todo, ops),
           \A ops \in SUBSET (Expenses \ {"check", "inputs", "reread"}) :
               Has(q.todo, ops) => Has(p.todo, ops),
           Has(p.todo, Others) /\ Page(q, db) => Page(p, db),
           Sound(q, r, db), Awaited(q, r, db)
    PROVE  Sound(p, r, db) /\ Awaited(p, r, db)
<1>1. /\ Others \in SUBSET (Expenses \ {"check", "inputs", "reread"})
      /\ Closing \in SUBSET (Expenses \ {"check", "inputs", "reread"})
      /\ {"add", "mine"} \in SUBSET (Expenses \ {"check", "inputs", "reread"})
      /\ {"reread"} \in SUBSET Expenses /\ {"inputs"} \in SUBSET Expenses
      /\ {"convert"} \in SUBSET Expenses
      /\ Expenses \in SUBSET Expenses /\ Others \in SUBSET Expenses
    BY DEF Expenses, Others, Closing
<1>2. /\ Has(p.todo, Others) <=> Has(q.todo, Others)
      /\ Has(q.todo, Closing) => Has(p.todo, Closing)
      /\ Has(q.todo, {"add", "mine"}) => Has(p.todo, {"add", "mine"})
      /\ Has(p.todo, {"reread"}) => Has(q.todo, {"reread"})
      /\ Has(p.todo, {"inputs"}) => Has(q.todo, {"inputs"})
      /\ Has(p.todo, {"convert"}) => Has(q.todo, {"convert"})
      /\ Has(p.todo, Expenses) => Has(q.todo, Expenses)
    BY <1>1
<1>3. Has(p.todo, Others) => ~ Saved(r, db) /\ p.form # 0 /\ Page(p, db)
    BY <1>2 DEF Sound
<1>4. /\ p.how = "idle" => ~ Saved(r, db)
      /\ p.todo # <<>> =>
           \A x \in Rows : \A v \in 1..Len(db[x]) : db[x][v].by = r => Tellable(db[x][v], p.actor)
      /\ Has(p.todo, {"convert"}) => ~ Saved(r, db)
      /\ p.todo # <<>> /\ p.how = "untold" => Has(p.todo, Others)
    BY <1>2 DEF Sound
<1>5. p.todo # <<>> /\ ~ Has(p.todo, Others) =>
         /\ \A i \in 1..Len(p.about) : Tells(p.about[i], r, db)
         /\ \A x \in Rows : \A v \in 1..Len(db[x]) : db[x][v].by = r =>
               \E i \in 1..Len(p.about) : p.about[i].row = x
    BY <1>2 DEF Sound
<1>6. /\ p.todo # <<>> /\ p.how = "busy" /\ (Has(p.todo, Expenses) \/ Saved(r, db)) =>
           Has(p.todo, Closing)
      /\ Has(p.todo, {"inputs"}) => p.about # <<>> \/ Has(p.todo, {"add", "mine"})
    BY <1>2 DEF Sound
<1>7. Has(p.todo, {"reread"}) =>
         \A x \in Rows : \A v \in 1..Len(db[x]) : db[x][v].by = r => db[x][v].kind # "deleted"
    BY <1>2 DEF Sound
<1>8. Awaited(p, r, db)
    BY <1>2 DEF Awaited
<1> QED
    BY <1>3, <1>4, <1>5, <1>6, <1>7, <1>8 DEF Sound

LEMMA AfterMoves ==
    ASSUME BookInv, NEW r \in Requests, Busy(r), NEW q, InList(q), req'[r] = After(r, q),
           OthersStay(r), Typed', rows' = rows,
           \A ops \in SUBSET Expenses : Has(q, ops) => Has(req[r].todo, ops),
           \A ops \in SUBSET (Expenses \ {"check", "inputs", "reread"}) :
               Has(req[r].todo, ops) => Has(q, ops),
           Has(q, Others) /\ Page(req[r], rows) => Page([req[r] EXCEPT !.todo = q], rows)
    PROVE  Moves(r)
<1>1. /\ Sound(req[r], r, rows) /\ Awaited(req[r], r, rows) /\ RowsSound(rows)
      /\ req[r].todo # <<>> /\ req[r].how \in {"busy", "untold"}
    BY DEF BookInv, Typed, RequestsTyped, Busy
<1>2. CASE q # <<>>
  <2> DEFINE p == [req[r] EXCEPT !.todo = q]
  <2>1. /\ p.todo = q /\ p.actor = req[r].actor /\ p.form = req[r].form
        /\ p.about = req[r].about /\ p.how = req[r].how
      BY RequestIs DEF BookInv, Typed
  <2>2. req'[r] = p
      BY <1>2 DEF After
  <2> HIDE DEF p
  <2>3. Has(p.todo, Others) /\ Page(req[r], rows) => Page(p, rows)
      BY <2>1 DEF p
  <2>4. Sound(p, r, rows) /\ Awaited(p, r, rows)
    <3>1. /\ \A ops \in SUBSET Expenses : Has(p.todo, ops) => Has(req[r].todo, ops)
          /\ \A ops \in SUBSET (Expenses \ {"check", "inputs", "reread"}) :
                Has(req[r].todo, ops) => Has(p.todo, ops)
        BY <2>1
    <3> QED
        BY <1>1, <2>1, <2>3, <3>1, Onward
  <2> QED
      BY <1>1, <2>1, <2>2, <2>4, RowsStay DEF Moves
<1>3. CASE q = <<>>
  <2>1. PICK h : h = IF req[r].how = "busy" THEN "done" ELSE req[r].how
      OBVIOUS
  <2>2. h \in {"done", "untold"} /\ req'[r] = Over(h) /\ (h = "done" => req[r].how = "busy")
      BY <1>1, <1>3, <2>1 DEF After
  <2>3. ~ Has(q, Closing)
      BY <1>3, ListEmpty
  <2>4. Closing \in SUBSET (Expenses \ {"check", "inputs", "reread"})
      BY DEF Expenses, Closing
  <2>5. ~ Has(req[r].todo, Closing)
      BY <2>3, <2>4
  <2>6. h = "done" => ~ Saved(r, rows)
      BY <1>1, <2>2, <2>5 DEF Sound
  <2> QED
      BY <1>1, <2>2, <2>6, OverMoves
<1> QED
    BY <1>2, <1>3

LEMMA PeopleMoves ==
    ASSUME BookInv, NEW r \in Requests, PeopleStep(r)
    PROVE  Moves(r)
<1>1. Typed /\ Typed' /\ Effect(r) /\ rows' = rows /\ OthersStay(r) /\ RequestsTyped
    BY PeopleStepIs, PeopleKeepTyped DEF BookInv, Effect, Typed
<1>2. req[r] = Idle => req[r].how = "idle"
    BY DEF Idle
<1>3. Busy(r) => req[r].how \in {"busy", "untold"}
    BY <1>1 DEF RequestsTyped
<1>4. ASSUME req[r] = Idle, NEW a \in Users, NEW q \in Seq(Personal), req'[r] = Begun(a, 0, q)
      PROVE  Moves(r)
  <2>1. InList(q) /\ ~ Has(q, Expenses)
      BY PersonalList
  <2>2. ~ Has(q, Others) /\ ~ Has(q, {"inputs"})
      BY <2>1 DEF Has, Expenses, Others
  <2> QED
      BY <1>1, <1>4, <2>1, <2>2, BegunMoves
<1>5. CASE req[r] = Idle /\ req'[r] = Over("done")
  <2>1. ~ Saved(r, rows)
      BY <1>2, <1>5 DEF BookInv, Sound
  <2> QED
      BY <1>1, <1>2, <1>5, <2>1, OverMoves
<1>6. CASE Busy(r) /\ req'[r] = Over("failed")
    BY <1>1, <1>3, <1>6, OverMoves
<1>7. ASSUME NEW q, Goes(r, q) PROVE Moves(r)
  <2>1. /\ Busy(r) /\ Head(req[r].todo)[1] \notin Expenses /\ InList(q) /\ req'[r] = After(r, q)
        /\ \A ops \in SUBSET Expenses : Has(q, ops) <=> Has(Rest(r), ops)
      BY <1>7 DEF Goes, Follows
  <2>2. /\ \A ops : Has(req[r].todo, ops) <=> Head(req[r].todo)[1] \in ops \/ Has(Rest(r), ops)
        /\ MildList(Rest(r))
      BY <1>1, <2>1, RestIs
  <2>3. \A ops \in SUBSET Expenses : Has(q, ops) <=> Has(req[r].todo, ops)
      BY <2>1, <2>2
  <2>4. ~ Has(Rest(r), Others)
      BY <2>2 DEF MildList, Mild, Has, Others
  <2>5. Others \in SUBSET Expenses
      BY DEF Others, Expenses
  <2>6. ~ Has(q, Others)
      BY <2>1, <2>4, <2>5
  <2> QED
      BY <1>1, <2>1, <2>3, <2>6, AfterMoves
<1> QED
    BY <1>1, <1>4, <1>5, <1>6, <1>7 DEF Effect
-------------------------------------------------------------------------------
(* The steps about expenses.                                               *)

LEMMA RestFacts ==
    ASSUME NEW s, NEW l, InList(l), Before(s, l)
    PROVE  /\ s[1] \notin {"check", "mine", "participants"} => ~ Has(l, Others)
           /\ s[1] # "mine" => ~ Has(l, {"participants"})
           /\ s[1] \notin {"mine", "participants"} => ~ Has(l, {"delete"})
           /\ ~ Has(l, {"mine"})
           /\ s[1] \in Closing => l = <<>>
           /\ s[1] = "inputs" => ~ Has(l, {"add"})
           /\ s[1] # "check" => ~ Has(l, {"convert"})
           /\ s[1] = "delete" => ~ Has(l, {"reread", "inputs"})
           /\ s[1] = "mine" => \A i \in 1..Len(l) : l[i][1] = "update" => l[i][2] = s[2]
<1>1. \A i \in 1..Len(l) : May(s, l[i])
    BY DEF Before
<1>2. s[1] \notin {"check", "mine", "participants"} => ~ Has(l, Others)
    BY <1>1 DEF Has, Others, May
<1>3. /\ s[1] # "mine" => ~ Has(l, {"participants"})
      /\ s[1] \notin {"mine", "participants"} => ~ Has(l, {"delete"})
      /\ ~ Has(l, {"mine"})
    BY <1>1 DEF Has, May
<1>4. s[1] \in Closing => l = <<>>
  <2>1. ASSUME s[1] \in Closing, l # <<>> PROVE FALSE
    <3>1. Len(l) \in Nat \ {0}
        BY <2>1, EmptySeq, LenProperties DEF InList
    <3>2. 1 \in 1..Len(l)
        BY <3>1
    <3> QED
        BY <1>1, <2>1, <3>2 DEF May
  <2> QED
      BY <2>1
<1>5. /\ s[1] = "inputs" => ~ Has(l, {"add"})
      /\ s[1] # "check" => ~ Has(l, {"convert"})
      /\ s[1] = "delete" => ~ Has(l, {"reread", "inputs"})
      /\ s[1] = "mine" => \A i \in 1..Len(l) : l[i][1] = "update" => l[i][2] = s[2]
    BY <1>1 DEF Has, May
<1> QED
    BY <1>2, <1>3, <1>4, <1>5

\* What a request that is to save something has come to, by the statement it is at.
LEMMA PageIs ==
    ASSUME Typed, NEW r \in Requests, Busy(r), NEW db, Page(req[r], db)
    PROVE  /\ Doing(r, "mine") => Asking(req[r], db)
           /\ Doing(r, "participants") => AskingParticipants(req[r], db)
           /\ Doing(r, "delete") => AboutToDelete(req[r], db) \/ WillNotTell(req[r])
           /\ Doing(r, "update") \/ Doing(r, "check") => Changing(req[r], db)
<1>1. \A ops : Head(req[r].todo)[1] \in ops => Has(req[r].todo, ops)
    BY RestIs DEF Typed
<1>2. Asking(req[r], db) => Head(req[r].todo)[1] = "mine"
    BY DEF Asking
<1>3. Changing(req[r], db) => Head(req[r].todo)[1] \notin {"mine", "participants", "delete"}
    BY <1>1 DEF Changing
<1>4. AskingParticipants(req[r], db) => Head(req[r].todo)[1] = "participants"
    BY DeletionList DEF AskingParticipants
<1>5. AboutToDelete(req[r], db) => Head(req[r].todo)[1] = "delete"
    BY DeletionList DEF AboutToDelete
<1>6. WillNotTell(req[r]) => Head(req[r].todo)[1] = "delete"
    BY DeletionList DEF WillNotTell
<1> QED
    BY <1>2, <1>3, <1>4, <1>5, <1>6 DEF Page, Doing

LEMMA SoundBefore ==
    ASSUME NEW q, NEW r, NEW db, Has(q.todo, Others), ~ Saved(r, db), q.form # 0, Page(q, db),
           q.how = "busy" => Has(q.todo, Closing),
           Has(q.todo, {"inputs"}) => q.about # <<>> \/ Has(q.todo, {"add", "mine"})
    PROVE  Sound(q, r, db) /\ Awaited(q, r, db)
<1>1. \A x \in Rows : \A v \in 1..Len(db[x]) : db[x][v].by # r
    BY DEF Saved
<1> QED
    BY <1>1 DEF Sound, Awaited

LEMMA SoundAfter ==
    ASSUME NEW q, NEW r, NEW db, ~ Has(q.todo, Others), q.how = "busy", q.about # <<>>,
           Has(q.todo, Closing), ~ Has(q.todo, {"convert"}),
           \A i \in 1..Len(q.about) : Tells(q.about[i], r, db),
           \A x \in Rows : \A v \in 1..Len(db[x]) : db[x][v].by = r =>
               /\ \E i \in 1..Len(q.about) : q.about[i].row = x
               /\ Tellable(db[x][v], q.actor)
               /\ Has(q.todo, {"reread"}) => db[x][v].kind # "deleted"
    PROVE  Sound(q, r, db)
BY DEF Sound

LEMMA StaysTyped ==
    ASSUME Typed, RequestsTyped', hidden' = hidden, groups' = groups, rows' \in Books
    PROVE  Typed'
BY DEF Typed, Books

LEMMA RefusedMoves ==
    ASSUME BookInv, NEW r \in Requests, Busy(r), Refused(r),
           hidden' = hidden, groups' = groups, rows' = rows
    PROVE  Moves(r) /\ Calm(req'[r].todo)
<1>1. RequestsTyped /\ rows \in Books /\ Typed /\ req[r].how # "done"
    BY DEF BookInv, Typed, Books, RequestsTyped, Busy
<1>2. RequestsTyped' /\ req'[r] = Over("failed") /\ OthersStay(r)
    BY <1>1, RequestEnds DEF Refused, OthersStay
<1>3. Typed'
    BY <1>1, <1>2, StaysTyped
<1> QED
    BY <1>1, <1>2, <1>3, OverMoves DEF Over, Calm

\* A request that goes on to the rest, having saved nothing.
LEMMA RestMoves ==
    ASSUME BookInv, NEW r \in Requests, NEW op \in {"check", "inputs", "prune"}, Doing(r, op),
           Does(r, Rest(r)), hidden' = hidden, groups' = groups, rows' = rows
    PROVE  Moves(r) /\ Calm(req'[r].todo)
<1>1. Typed /\ RequestsTyped /\ rows \in Books /\ Busy(r)
    BY DEF BookInv, Typed, Books, Doing
<1>2. /\ InList(Rest(r)) /\ Calm(Rest(r)) /\ Before(Head(req[r].todo), Rest(r))
      /\ \A ops : Has(req[r].todo, ops) <=> Head(req[r].todo)[1] \in ops \/ Has(Rest(r), ops)
    BY <1>1, RestIs
<1>3. RequestsTyped' /\ req'[r] = After(r, Rest(r)) /\ OthersStay(r)
    BY <1>1, <1>2, RequestDoes DEF OthersStay
<1>4. Typed'
    BY <1>1, <1>3, StaysTyped
<1>5. Head(req[r].todo)[1] = op
    BY DEF Doing
<1>6. /\ \A ops \in SUBSET Expenses : Has(Rest(r), ops) => Has(req[r].todo, ops)
      /\ \A ops \in SUBSET (Expenses \ {"check", "inputs", "reread"}) :
            Has(req[r].todo, ops) => Has(Rest(r), ops)
  <2>1. op \notin Expenses \ {"check", "inputs", "reread"}
      BY DEF Expenses, Closing
  <2> QED
      BY <1>2, <1>5, <2>1
<1>7. ASSUME Has(Rest(r), Others), Page(req[r], rows)
      PROVE  Page([req[r] EXCEPT !.todo = Rest(r)], rows)
  <2> DEFINE p == [req[r] EXCEPT !.todo = Rest(r)]
  <2>1. /\ p.todo = Rest(r) /\ p.form = req[r].form /\ p.about = req[r].about
        /\ p.how = req[r].how
      BY <1>1, RequestIs
  <2>2. op = "check"
      BY <1>2, <1>5, <1>7, RestFacts
  <2>3. Changing(req[r], rows)
      BY <1>1, <1>7, <2>2, PageIs
  <2>4. Has(Rest(r), {"update"}) /\ ~ Has(Rest(r), {"mine", "participants", "delete"})
      BY <1>2, <1>5, <2>2, <2>3 DEF Changing
  <2>5. ASSUME NEW i \in 1..Len(Rest(r)), Rest(r)[i][1] = "update"
        PROVE  /\ req[r].form <= Len(rows[Rest(r)[i][2]])
               /\ rows[Rest(r)[i][2]][req[r].form].kind # "deleted"
    <3>1. /\ Len(req[r].todo) \in Nat /\ Len(Rest(r)) = Len(req[r].todo) - 1
          /\ Rest(r)[i] = req[r].todo[i + 1]
      <4>1. req[r].todo \in Seq(Statements) /\ req[r].todo # <<>>
          BY <1>1 DEF RequestsTyped, InList, Busy
      <4> QED
          BY <4>1, HeadTailProperties, LenProperties DEF Rest
    <3>2. i + 1 \in 1..Len(req[r].todo)
        BY <3>1
    <3> QED
        BY <2>3, <2>5, <3>1, <3>2 DEF Changing
  <2> HIDE DEF p
  <2>6. Changing(p, rows)
      BY <2>1, <2>3, <2>4, <2>5 DEF Changing
  <2> QED
      BY <2>6 DEF Page, p
<1>8. Moves(r)
    BY <1>1, <1>2, <1>3, <1>4, <1>6, <1>7, AfterMoves
<1>9. req'[r].todo = Rest(r) \/ req'[r].todo = <<>>
    BY <1>1, <1>3, RequestIs DEF After, Over
<1> QED
    BY <1>2, <1>8, <1>9 DEF Calm

\* A request is sure that the row is its own, and neither deleted nor changed.
LEMMA MineMoves ==
    ASSUME BookInv, NEW r \in Requests, Doing(r, "mine"), NEW x, x = Arg(r, 2), ~ Deleted(x),
           req' = [req EXCEPT ![r].todo = Tail(@),
                     ![r].about = <<[row |-> x, title |-> Len(rows[x]), share |-> 0]>>],
           hidden' = hidden, groups' = groups, rows' = rows
    PROVE  Moves(r) /\ Calm(req'[r].todo)
<1> DEFINE e == [row |-> x, title |-> Len(rows[x]), share |-> 0]
           now == Now(r, Rest(r), <<e>>, req[r].how)
<1>1. /\ Typed /\ RequestsTyped /\ rows \in Books /\ RowsSound(rows) /\ Busy(r)
      /\ Head(req[r].todo)[1] = "mine" /\ Sound(req[r], r, rows)
      /\ req[r] \in Request /\ req[r].how \in {"busy", "untold"}
    BY DEF BookInv, Typed, Books, Doing, RequestsTyped, Busy
<1>2. /\ InList(Rest(r)) /\ Calm(Rest(r)) /\ Before(Head(req[r].todo), Rest(r))
      /\ \A ops : Has(req[r].todo, ops) <=> Head(req[r].todo)[1] \in ops \/ Has(Rest(r), ops)
    BY <1>1, RestIs
<1>3. x \in Rows /\ Head(req[r].todo)[2] = x
    BY <1>1, ArgIs DEF Arg
<1>4. Len(rows[x]) \in Nat /\ req[r].form \in Nat
    BY <1>1, <1>3, LenProperties DEF Books, Request
<1>5. ~ Saved(r, rows) /\ req[r].form # 0 /\ Asking(req[r], rows)
  <2>1. Has(req[r].todo, Others)
      BY <1>1, <1>2 DEF Others
  <2> QED
      BY <1>1, <2>1, PageIs DEF Sound
<1>6. /\ req[r].how = "busy" /\ req[r].form <= Len(rows[x])
      /\ \/ req[r].todo = Deletion(x)
         \/ Has(req[r].todo, {"update"}) /\ ~ Has(req[r].todo, {"participants", "delete"})
  <2>1. PICK y \in Rows : /\ Head(req[r].todo) = <<"mine", y>> /\ req[r].form <= Len(rows[y])
                          /\ \/ req[r].todo = Deletion(y)
                             \/ /\ Has(req[r].todo, {"update"})
                                /\ ~ Has(req[r].todo, {"participants", "delete"})
      BY <1>5 DEF Asking
  <2>2. y = x
      BY <1>3, <2>1
  <2> QED
      BY <1>5, <2>1, <2>2 DEF Asking
<1>7. e \in Telling /\ <<e>> \in Seq(Telling)
    BY <1>3, <1>4 DEF Telling
<1>8. /\ now.todo = Rest(r) /\ now.form = req[r].form /\ now.about = <<e>> /\ now.how = "busy"
      /\ Len(now.about) = 1 /\ now.about[1].row = x /\ now.about[1].title = Len(rows[x])
      /\ now.about[1].share = 0 /\ now.about # <<>>
    BY <1>6 DEF Now
<1>9. RequestsTyped' /\ OthersStay(r) /\ req'[r] = now
  <2>1. req' = [req EXCEPT ![r].todo = Rest(r), ![r].about = <<e>>]
      BY <1>1 DEF Rest, RequestsTyped
  <2>2. PICK about : about = <<e>>
      OBVIOUS
  <2>3. req' = [req EXCEPT ![r].todo = Rest(r), ![r].about = about]
      BY <2>1, <2>2
  <2>4. req' = [req EXCEPT ![r] = Now(r, Rest(r), about, req[r].how)]
      BY <1>1, <2>3, NowWithAbout
  <2>5. now = Now(r, Rest(r), about, req[r].how)
      BY <2>2
  <2>6. RequestsTyped /\ Busy(r) /\ InList(Rest(r)) /\ req[r].how \in {"busy", "untold"}
        /\ about \in Seq(Telling)
      BY <1>1, <1>2, <1>7, <2>2
  <2> HIDE DEF e, now
  <2>7. RequestsTyped' /\ OthersStay(r) /\ req'[r] = Now(r, Rest(r), about, req[r].how)
      BY <2>4, <2>6, RequestNow
  <2> QED
      BY <2>5, <2>7
<1> HIDE DEF now, e
<1>10. Typed'
    BY <1>1, <1>9, StaysTyped
<1>11. rows[x][req[r].form].kind # "deleted"
  <2>1. req[r].form \in 1..Len(rows[x])
      BY <1>4, <1>5, <1>6
  <2>2. rows[x][Len(rows[x])].kind # "deleted"
      BY DEF Deleted, Recent
  <2> QED
      BY <1>1, <1>3, <2>1, <2>2 DEF RowsSound
<1>12. Has(Rest(r), Others) /\ Page(now, rows) /\ Has(Rest(r), Closing)
  <2>1. CASE req[r].todo = Deletion(x)
    <3>1. Rest(r) = Reading(x) /\ Has(Reading(x), Closing) /\ InList(Reading(x))
          /\ Reading(x) # <<>> /\ Head(Reading(x)) = <<"participants", x>>
        BY <1>3, <2>1, DeletionList DEF Rest
    <3>2. Has(Reading(x), Others)
      <4>1. Head(Reading(x))[1] \in Others
          BY <3>1 DEF Others
      <4> QED
          BY <3>1, <4>1, ListFirst
    <3>3. AskingParticipants(now, rows)
        BY <1>3, <1>4, <1>6, <1>8, <3>1 DEF AskingParticipants
    <3> QED
        BY <3>1, <3>2, <3>3 DEF Page
  <2>2. CASE Has(req[r].todo, {"update"}) /\ ~ Has(req[r].todo, {"participants", "delete"})
    <3>1. Has(Rest(r), {"update"}) /\ ~ Has(Rest(r), {"participants", "delete"})
          /\ ~ Has(Rest(r), {"mine"})
        BY <1>1, <1>2, <2>2, RestFacts
    <3>2. ~ Has(Rest(r), {"mine", "participants", "delete"}) /\ Has(Rest(r), Others)
        BY <3>1 DEF Has, Others
    <3>3. \A i \in 1..Len(Rest(r)) : Rest(r)[i][1] = "update" => Rest(r)[i][2] = x
        BY <1>1, <1>2, <1>3, RestFacts
    <3>4. Changing(now, rows)
        BY <1>6, <1>8, <1>11, <3>1, <3>2, <3>3 DEF Changing
    <3>5. Has(Rest(r), Closing)
      <4>1. Has(req[r].todo, Expenses)
          BY <1>1, <1>2 DEF Expenses
      <4>2. Has(req[r].todo, Closing)
          BY <1>1, <1>6, <4>1 DEF Sound, Busy
      <4> QED
          BY <1>1, <1>2, <4>2 DEF Closing
    <3> QED
        BY <3>2, <3>4, <3>5 DEF Page
  <2> QED
      BY <1>6, <2>1, <2>2
<1>13. Sound(now, r, rows) /\ Awaited(now, r, rows)
    BY <1>5, <1>8, <1>12, SoundBefore
<1> QED
    BY <1>1, <1>2, <1>8, <1>9, <1>10, <1>13, RowsStay DEF Moves

-------------------------------------------------------------------------------
(* The steps that save.                                                    *)

\* r saves w as the next version of x.
Saves(r, x, w) ==
    /\ x \in Rows /\ w \in Saving /\ w.by = r /\ w.pending = Pending(x)
    /\ rows' = [rows EXCEPT ![x] = Append(@, w)]

LEMMA SavesIs ==
    ASSUME rows \in Books, NEW r, NEW x, NEW w, Saves(r, x, w)
    PROVE  /\ rows' \in Books
           /\ Later(rows, rows') /\ NewBy(r, rows, rows') /\ NewAwait(rows, rows')
           /\ Len(rows[x]) \in Nat /\ Len(rows'[x]) = Len(rows[x]) + 1
           /\ rows'[x][Len(rows[x]) + 1] = w
           /\ \A y \in Rows : \A v \in 1..Len(rows'[y]) :
                 \/ v \in 1..Len(rows[y]) /\ rows'[y][v] = rows[y][v]
                 \/ y = x /\ v = Len(rows[x]) + 1
<1>1. /\ x \in Rows /\ w \in Saving /\ w.by = r /\ w.pending = Pending(x)
      /\ rows' = [rows EXCEPT ![x] = Append(rows[x], w)] /\ rows[x] \in Seq(Saving)
    BY DEF Saves, Books
<1> DEFINE new == Append(rows[x], w)
<1>2. /\ new \in Seq(Saving) /\ Len(new) = Len(rows[x]) + 1 /\ Len(rows[x]) \in Nat
      /\ \A v \in 1..Len(rows[x]) : new[v] = rows[x][v]
      /\ new[Len(rows[x]) + 1] = w
    BY <1>1, AppendProperties, LenProperties
<1>3. rows' = [rows EXCEPT ![x] = new]
    BY <1>1
<1> HIDE DEF new
<1>4. rows' \in Books /\ rows'[x] = new /\ \A y \in Rows \ {x} : rows'[y] = rows[y]
    BY <1>1, <1>2, <1>3 DEF Books
<1>5. \A y \in Rows : Len(rows[y]) \in Nat
    BY LenProperties DEF Books
<1>6. ASSUME NEW y \in Rows, NEW v \in 1..Len(rows'[y])
      PROVE  \/ v \in 1..Len(rows[y]) /\ rows'[y][v] = rows[y][v]
             \/ y = x /\ v = Len(rows[x]) + 1
  <2>1. CASE y = x
    <3>1. v \in 1..Len(rows[x]) \/ v = Len(rows[x]) + 1
        BY <1>2, <1>4, <2>1
    <3> QED
        BY <1>2, <1>4, <2>1, <3>1
  <2>2. CASE y # x
      BY <1>4, <2>2
  <2> QED
      BY <2>1, <2>2
<1>7. Later(rows, rows')
  <2>1. ASSUME NEW y \in Rows
        PROVE  /\ Len(rows[y]) <= Len(rows'[y])
               /\ \A v \in 1..Len(rows[y]) : v \in 1..Len(rows'[y]) /\ rows'[y][v] = rows[y][v]
    <3>1. CASE y = x
        BY <1>2, <1>4, <3>1
    <3>2. CASE y # x
        BY <1>4, <1>5, <3>2
    <3> QED
        BY <3>1, <3>2
  <2> QED
      BY <2>1 DEF Later
<1>8. NewBy(r, rows, rows')
    BY <1>1, <1>2, <1>4, <1>6 DEF NewBy
<1>9. NewAwait(rows, rows')
    BY <1>1, <1>2, <1>4, <1>6 DEF NewAwait
<1> QED
    BY <1>2, <1>4, <1>6, <1>7, <1>8, <1>9

LEMMA SavesSoundly ==
    ASSUME rows \in Books, RowsSound(rows), NEW r \in Requests, NEW x, NEW w, Saves(r, x, w),
           \A v \in 1..Len(rows[x]) : rows[x][v].kind # "deleted" /\ rows[x][v].by # r
    PROVE  RowsSound(rows')
<1>1. /\ Len(rows[x]) \in Nat /\ Len(rows'[x]) = Len(rows[x]) + 1
      /\ rows'[x][Len(rows[x]) + 1] = w /\ w.by = r /\ x \in Rows
      /\ \A y \in Rows : \A v \in 1..Len(rows'[y]) :
            \/ v \in 1..Len(rows[y]) /\ rows'[y][v] = rows[y][v]
            \/ y = x /\ v = Len(rows[x]) + 1
  <2>1. w.by = r /\ x \in Rows
      BY DEF Saves
  <2> QED
      BY <2>1, SavesIs
<1>2. \A y \in Rows \ {x} : rows'[y] = rows[y]
    BY DEF Saves, Books
<1>3. ASSUME NEW y \in Rows, NEW v \in 1..Len(rows'[y])
      PROVE  /\ rows'[y][v].kind = "deleted" => v = Len(rows'[y])
             /\ \A u \in 1..Len(rows'[y]) :
                   rows'[y][v].by # None /\ rows'[y][v].by = rows'[y][u].by => v = u
  <2>1. CASE y # x
      BY <1>2, <2>1 DEF RowsSound
  <2>2. CASE y = x
    <3>1. \A u \in 1..Len(rows'[x]) :
             \/ u \in 1..Len(rows[x]) /\ rows'[x][u] = rows[x][u]
             \/ u = Len(rows[x]) + 1 /\ rows'[x][u] = w
        BY <1>1
    <3>2. rows'[y][v].kind = "deleted" => v = Len(rows'[y])
        BY <1>1, <2>2, <3>1
    <3>3. \A u \in 1..Len(rows[x]), t \in 1..Len(rows[x]) :
             rows[x][u].by # None /\ rows[x][u].by = rows[x][t].by => u = t
        BY <1>1 DEF RowsSound
    <3> QED
        BY <1>1, <2>2, <3>1, <3>2, <3>3
  <2> QED
      BY <2>1, <2>2
<1> QED
    BY <1>3 DEF RowsSound

LEMMA VersionIs ==
    ASSUME Typed, NEW r \in Requests, Busy(r), NEW x \in Rows,
           NEW kind \in {"added", "settled", "converted", "updated", "deleted"},
           NEW parts \in SUBSET Users,
           NEW g \in Groups \cup {None}
    PROVE  /\ Version(r, kind, x, parts, g) \in Saving
           /\ Version(r, kind, x, parts, g).by = r
           /\ Version(r, kind, x, parts, g).actor = req[r].actor
           /\ Version(r, kind, x, parts, g).kind = kind
           /\ Version(r, kind, x, parts, g).parts = parts
           /\ Version(r, kind, x, parts, g).pending = Pending(x)
<1>1. req[r].actor \in Users /\ Pending(x) \in SUBSET Requests
    BY DEF Typed, RequestsTyped, Pending
<1> QED
    BY <1>1 DEF Version, Saving

\* What a request tells of once it has saved a new row, or the next version of one.
LEMMA TellsNew ==
    ASSUME rows \in Books, NEW r \in Requests, NEW x, NEW w, Saves(r, x, w), w.kind # "deleted",
           NEW e, e = [row |-> x, title |-> Len(rows[x]) + 1, share |-> Len(rows[x]) + 1]
    PROVE  e \in Telling /\ Tells(e, r, rows')
<1>1. /\ Len(rows[x]) \in Nat /\ Len(rows'[x]) = Len(rows[x]) + 1
      /\ rows'[x][Len(rows[x]) + 1] = w /\ w.by = r /\ x \in Rows
    BY SavesIs DEF Saves
<1>2. e.row = x /\ e.title = Len(rows[x]) + 1 /\ e.share = Len(rows[x]) + 1
    OBVIOUS
<1>3. e \in Telling
    BY <1>1 DEF Telling
<1>4. TellsSaved(e, r, rows')
    BY <1>1, <1>2 DEF TellsSaved
<1> QED
    BY <1>3, <1>4 DEF Tells

LEMMA InsertMoves ==
    ASSUME BookInv, NEW r \in Requests, Insert(r)
    PROVE  Moves(r) /\ Calm(req'[r].todo) /\ InputsSound'
<1>1. /\ Typed /\ RequestsTyped /\ rows \in Books /\ RowsSound(rows) /\ Busy(r)
      /\ Doing(r, "add") /\ Head(req[r].todo)[1] = "add" /\ Sound(req[r], r, rows)
      /\ req[r] \in Request /\ req[r].how \in {"busy", "untold"}
      /\ hidden' = hidden /\ groups' = groups /\ inputs' = inputs
    BY DEF BookInv, Typed, Books, Doing, RequestsTyped, Busy, Insert, noticeVars
<1>2. /\ InList(Rest(r)) /\ Calm(Rest(r)) /\ Before(Head(req[r].todo), Rest(r))
      /\ \A ops : Has(req[r].todo, ops) <=> Head(req[r].todo)[1] \in ops \/ Has(Rest(r), ops)
    BY <1>1, RestIs
<1>3. /\ Arg(r, 2) \in {"added", "settled"} /\ Arg(r, 3) \in SUBSET Users
      /\ Arg(r, 4) \in Groups \cup {None}
    BY <1>1, ArgIs
<1>4. PICK x \in Rows :
           /\ rows[x] = <<>>
           /\ rows' = [rows EXCEPT ![x] = <<Version(r, Arg(r, 2), x, Arg(r, 3), Arg(r, 4))>>]
           /\ req' = [req EXCEPT ![r].todo = Tail(@),
                        ![r].about = Append(@, [row |-> x, title |-> 1, share |-> 1])]
    BY Zenon DEF Insert
<1> DEFINE w == Version(r, Arg(r, 2), x, Arg(r, 3), Arg(r, 4))
           e == [row |-> x, title |-> 1, share |-> 1]
           about == Append(req[r].about, e)
           now == Now(r, Rest(r), about, req[r].how)
<1>5. /\ w \in Saving /\ w.by = r /\ w.kind \in {"added", "settled"}
      /\ Tellable(w, req[r].actor) /\ w.pending = Pending(x)
    BY <1>1, <1>3, VersionIs DEF Tellable
<1>6. rows' = [rows EXCEPT ![x] = <<w>>]
    BY <1>4
<1> HIDE DEF w
<1>7. Saves(r, x, w) /\ Len(rows[x]) = 0
  <2>1. Append(<<>>, w) = <<w>>
      OBVIOUS
  <2>2. rows' = [rows EXCEPT ![x] = Append(rows[x], w)]
      BY <1>4, <1>6, <2>1
  <2> QED
      BY <1>4, <1>5, <2>2 DEF Saves
<1>8. /\ rows' \in Books /\ Later(rows, rows') /\ NewBy(r, rows, rows') /\ NewAwait(rows, rows')
      /\ \A y \in Rows : \A v \in 1..Len(rows'[y]) :
            \/ v \in 1..Len(rows[y]) /\ rows'[y][v] = rows[y][v]
            \/ y = x /\ rows'[y][v] = w
      /\ Len(rows'[x]) = 1
  <2>1. /\ rows' \in Books
        /\ Later(rows, rows') /\ NewBy(r, rows, rows') /\ NewAwait(rows, rows')
        /\ Len(rows'[x]) = Len(rows[x]) + 1 /\ rows'[x][Len(rows[x]) + 1] = w
        /\ \A y \in Rows : \A v \in 1..Len(rows'[y]) :
              \/ v \in 1..Len(rows[y]) /\ rows'[y][v] = rows[y][v]
              \/ y = x /\ v = Len(rows[x]) + 1
      BY <1>1, <1>7, SavesIs
  <2> QED
      BY <1>7, <2>1
<1>9. RowsSound(rows')
  <2>1. \A v \in 1..Len(rows[x]) : rows[x][v].kind # "deleted" /\ rows[x][v].by # r
      BY <1>7
  <2> QED
      BY <1>1, <1>7, <2>1, SavesSoundly
<1>10. e \in Telling /\ Tells(e, r, rows')
  <2>1. e = [row |-> x, title |-> Len(rows[x]) + 1, share |-> Len(rows[x]) + 1]
      BY <1>7
  <2> QED
      BY <1>1, <1>5, <1>7, <2>1, TellsNew
<1>11. e.row = x /\ e.share = 1
    OBVIOUS
<1> HIDE DEF e
<1>12. /\ about \in Seq(Telling) /\ Len(req[r].about) \in Nat /\ Len(about) = Len(req[r].about) + 1
       /\ about # <<>> /\ about[Len(about)] = e
       /\ \A i \in 1..Len(req[r].about) : about[i] = req[r].about[i] /\ req[r].about[i] \in Telling
  <2>1. req[r].about \in Seq(Telling)
      BY <1>1 DEF Request
  <2>2. /\ about \in Seq(Telling) /\ Len(about) = Len(req[r].about) + 1
        /\ \A i \in 1..Len(req[r].about) : about[i] = req[r].about[i]
        /\ about[Len(req[r].about) + 1] = e
      BY <1>10, <2>1, AppendProperties
  <2>3. /\ Len(req[r].about) \in Nat
        /\ \A i \in 1..Len(req[r].about) : req[r].about[i] \in Telling
      BY <2>1, LenProperties, ElementOfSeq
  <2>4. Len(about) # 0
      BY <2>2, <2>3
  <2> HIDE DEF about
  <2> QED
      BY <2>2, <2>3, <2>4, EmptySeq
<1>13. ~ Has(Rest(r), Others) /\ ~ Has(req[r].todo, Others) /\ ~ Has(Rest(r), {"convert"})
  <2>1. "add" \notin Others
      BY DEF Others
  <2> QED
      BY <1>1, <1>2, <2>1, RestFacts
<1>14. /\ req[r].how = "busy"
       /\ \A i \in 1..Len(req[r].about) : Tells(req[r].about[i], r, rows)
       /\ \A y \in Rows : \A v \in 1..Len(rows[y]) : rows[y][v].by = r =>
             /\ \E i \in 1..Len(req[r].about) : req[r].about[i].row = y
             /\ Tellable(rows[y][v], req[r].actor)
             /\ Has(req[r].todo, {"reread"}) => rows[y][v].kind # "deleted"
    BY <1>1, <1>13 DEF Sound, Busy
<1>15. Has(Rest(r), Closing)
  <2>1. Has(req[r].todo, Expenses) /\ "add" \notin Closing
      BY <1>1, <1>2 DEF Expenses, Closing
  <2>2. Has(req[r].todo, Closing)
      BY <1>1, <1>14, <2>1 DEF Sound, Busy
  <2> QED
      BY <1>1, <1>2, <2>1, <2>2
<1>16. RequestsTyped' /\ OthersStay(r) /\ req'[r] = now
  <2>1. PICK told : told = about
      OBVIOUS
  <2>2. req' = [req EXCEPT ![r].todo = Rest(r), ![r].about = told]
    <3>1. req' = [req EXCEPT ![r].todo = Tail(@), ![r].about = Append(@, e)]
        BY <1>4 DEF e
    <3>2. [req[r] EXCEPT !.todo = Rest(r)].about = req[r].about
        BY <1>1, RequestIs
    <3> QED
        BY <1>1, <2>1, <3>1, <3>2 DEF Rest, RequestsTyped
  <2>3. req' = [req EXCEPT ![r] = Now(r, Rest(r), told, req[r].how)]
      BY <1>1, <2>2, NowWithAbout
  <2> HIDE DEF about
  <2> QED
      BY <1>1, <1>2, <1>12, <2>1, <2>3, RequestNow
<1>17. /\ now.todo = Rest(r) /\ now.about = about /\ now.how = "busy" /\ now.actor = req[r].actor
    BY <1>14 DEF Now
<1> HIDE DEF now, about
<1>18. \A i \in 1..Len(about) : Tells(about[i], r, rows')
  <2>1. ASSUME NEW i \in 1..Len(about) PROVE Tells(about[i], r, rows')
    <3>1. CASE i \in 1..Len(req[r].about)
        BY <1>1, <1>8, <1>12, <1>14, <3>1, TellsStays
    <3>2. CASE i = Len(about)
        BY <1>10, <1>12, <3>2
    <3> QED
        BY <1>12, <3>1, <3>2
  <2> QED
      BY <2>1
<1>19. ASSUME NEW y \in Rows, NEW v \in 1..Len(rows'[y]), rows'[y][v].by = r
       PROVE  /\ \E i \in 1..Len(about) : about[i].row = y
              /\ Tellable(rows'[y][v], req[r].actor)
              /\ Has(Rest(r), {"reread"}) => rows'[y][v].kind # "deleted"
  <2>1. CASE v \in 1..Len(rows[y]) /\ rows'[y][v] = rows[y][v]
    <3>1. PICK i \in 1..Len(req[r].about) : req[r].about[i].row = y
        BY <1>14, <1>19, <2>1
    <3>2. i \in 1..Len(about) /\ about[i].row = y
        BY <1>12, <3>1
    <3> QED
        BY <1>2, <1>14, <1>19, <2>1, <3>2
  <2>2. CASE y = x /\ rows'[y][v] = w
    <3>1. Len(about) \in 1..Len(about) /\ about[Len(about)].row = x
        BY <1>11, <1>12
    <3> QED
        BY <1>5, <2>2, <3>1
  <2> QED
      BY <1>8, <2>1, <2>2
<1>20. Sound(now, r, rows')
    BY <1>12, <1>13, <1>15, <1>17, <1>18, <1>19, SoundAfter
<1>21. Awaited(now, r, rows')
  <2>1. \A v \in 1..Len(rows'[x]) : ~ (1 < v)
      BY <1>8
  <2> QED
      BY <1>11, <1>12, <1>17, <2>1 DEF Awaited
<1>22. Typed'
    BY <1>1, <1>8, <1>16, StaysTyped
<1>23. InputsSound'
    BY <1>1, <1>5, <1>8, InputsStay
<1> QED
    BY <1>1, <1>2, <1>8, <1>9, <1>16, <1>17, <1>20, <1>21, <1>22, <1>23 DEF Moves

\* A request that was answered its page is stale saves nothing.
LEMMA RefusedQuietly ==
    ASSUME BookInv, NEW r \in Requests, Busy(r), Refused(r),
           hidden' = hidden, groups' = groups, rows' = rows, inputs' = inputs
    PROVE  Moves(r) /\ Calm(req'[r].todo) /\ InputsSound'
<1>1. Moves(r) /\ Calm(req'[r].todo)
    BY RefusedMoves
<1>2. rows \in Books /\ \A x \in Rows : Len(rows[x]) \in Nat
    BY LenProperties DEF BookInv, Typed, Books
<1>3. InputsSound'
    BY <1>2, InputsStay DEF Later
<1> QED
    BY <1>1, <1>3

LEMMA UpdateMoves ==
    ASSUME BookInv, NEW r \in Requests, Update(r)
    PROVE  Moves(r) /\ Calm(req'[r].todo) /\ InputsSound'
<1> DEFINE x == Arg(r, 2)
           w == Version(r, "updated", x, Arg(r, 3), Recent(x).group)
           v == Len(rows[x]) + 1
           e == [row |-> x, title |-> v, share |-> v]
           now == Now(r, Rest(r), <<e>>, req[r].how)
<1>1. /\ Typed /\ RequestsTyped /\ rows \in Books /\ RowsSound(rows) /\ Busy(r)
      /\ Doing(r, "update") /\ Head(req[r].todo)[1] = "update" /\ Sound(req[r], r, rows)
      /\ req[r] \in Request /\ req[r].how \in {"busy", "untold"}
      /\ hidden' = hidden /\ groups' = groups
    BY DEF BookInv, Typed, Books, Doing, RequestsTyped, Busy, Update
<1>2. CASE req[r].form # Len(rows[x])
    BY <1>1, <1>2, RefusedQuietly DEF Update
<1>3. CASE req[r].form = Len(rows[x])
  <2>1. /\ rows' = [rows EXCEPT ![x] = Append(@, w)]
        /\ inputs' = [inputs EXCEPT ![x] = 0]
        /\ req' = [req EXCEPT ![r].todo = Tail(@), ![r].about = <<e>>]
      BY <1>3 DEF Update, DropsInputs
  <2>2. /\ InList(Rest(r)) /\ Calm(Rest(r)) /\ Before(Head(req[r].todo), Rest(r))
        /\ \A ops : Has(req[r].todo, ops) <=> Head(req[r].todo)[1] \in ops \/ Has(Rest(r), ops)
      BY <1>1, RestIs
  <2>3. x \in Rows /\ Arg(r, 3) \in SUBSET Users
      BY <1>1, ArgIs
  <2>4. ~ Saved(r, rows) /\ req[r].form # 0 /\ Changing(req[r], rows)
    <3>1. Has(req[r].todo, Others)
        BY <1>1, <2>2 DEF Others
    <3> QED
        BY <1>1, <3>1, PageIs DEF Sound
  <2>5. req[r].how = "busy" /\ rows[x][Len(rows[x])].kind # "deleted"
    <3>1. /\ req[r].todo \in Seq(Statements) /\ Len(req[r].todo) \in Nat \ {0}
          /\ Head(req[r].todo) = req[r].todo[1]
      <4>1. req[r].todo \in Seq(Statements) /\ req[r].todo # <<>>
          BY <1>1 DEF RequestsTyped, InList, Busy
      <4> QED
          BY <4>1, EmptySeq, LenProperties, HeadTailProperties
    <3>2. 1 \in 1..Len(req[r].todo)
        BY <3>1
    <3> QED
        BY <1>1, <1>3, <2>4, <3>1, <3>2 DEF Changing, Arg
  <2>6. Len(rows[x]) \in Nat \ {0} /\ rows[x] \in Seq(Saving) /\ Recent(x).group \in Groups \cup {None}
    <3>1. rows[x] \in Seq(Saving) /\ Len(rows[x]) \in Nat \ {0}
        BY <1>1, <1>3, <2>3, <2>4, LenProperties DEF Books, Request
    <3>2. rows[x][Len(rows[x])] \in Saving
      <4>1. Len(rows[x]) \in 1..Len(rows[x])
          BY <3>1
      <4> QED
          BY <3>1, <4>1, ElementOfSeq
    <3> QED
        BY <3>1, <3>2 DEF Recent, Saving
  <2> HIDE DEF x
  <2>7. /\ w \in Saving /\ w.by = r /\ w.kind = "updated" /\ Tellable(w, req[r].actor)
        /\ w.pending = Pending(x)
      BY <1>1, <2>3, <2>6, VersionIs DEF Tellable
  <2>8. Saves(r, x, w)
      BY <2>1, <2>3, <2>7 DEF Saves
  <2> HIDE DEF w
  <2>9. /\ rows' \in Books /\ Later(rows, rows') /\ NewBy(r, rows, rows') /\ NewAwait(rows, rows')
        /\ Len(rows'[x]) = v /\ rows'[x][v] = w
        /\ \A y \in Rows : \A u \in 1..Len(rows'[y]) :
              \/ u \in 1..Len(rows[y]) /\ rows'[y][u] = rows[y][u]
              \/ y = x /\ u = v
      BY <1>1, <2>8, SavesIs
  <2>10. \A y \in Rows : \A u \in 1..Len(rows[y]) : rows[y][u].by # r
      BY <2>4 DEF Saved
  <2>11. RowsSound(rows')
    <3>1. \A u \in 1..Len(rows[x]) : rows[x][u].kind # "deleted" /\ rows[x][u].by # r
        BY <1>1, <2>3, <2>5, <2>10 DEF RowsSound
    <3> QED
        BY <1>1, <2>8, <3>1, SavesSoundly
  <2>12. e \in Telling /\ Tells(e, r, rows')
      BY <1>1, <2>7, <2>8, TellsNew
  <2>13. e.row = x /\ e.share = v
      OBVIOUS
  <2> HIDE DEF e
  <2>14. ~ Has(Rest(r), Others) /\ ~ Has(Rest(r), {"convert"})
      BY <1>1, <2>2, RestFacts
  <2>15. Has(Rest(r), Closing)
    <3>1. Has(req[r].todo, Expenses) /\ "update" \notin Closing
        BY <1>1, <2>2 DEF Expenses, Closing
    <3>2. Has(req[r].todo, Closing)
        BY <1>1, <2>5, <3>1 DEF Sound, Busy
    <3> QED
        BY <1>1, <2>2, <3>1, <3>2
  <2>16. RequestsTyped' /\ OthersStay(r) /\ req'[r] = now
    <3>1. PICK told : told = <<e>>
        OBVIOUS
    <3>2. req' = [req EXCEPT ![r].todo = Rest(r), ![r].about = told]
        BY <1>1, <2>1, <3>1 DEF Rest, RequestsTyped
    <3>3. req' = [req EXCEPT ![r] = Now(r, Rest(r), told, req[r].how)]
        BY <1>1, <3>2, NowWithAbout
    <3>4. told \in Seq(Telling)
        BY <2>12, <3>1
    <3> QED
        BY <1>1, <2>2, <3>1, <3>3, <3>4, RequestNow
  <2>17. /\ now.todo = Rest(r) /\ now.about = <<e>> /\ now.how = "busy" /\ now.actor = req[r].actor
         /\ Len(now.about) = 1 /\ now.about[1] = e /\ now.about # <<>> /\ 1..1 = {1}
      BY <2>5 DEF Now
  <2> HIDE DEF now
  <2>18. ASSUME NEW y \in Rows, NEW u \in 1..Len(rows'[y]), rows'[y][u].by = r
         PROVE  /\ \E i \in 1..Len(now.about) : now.about[i].row = y
                /\ Tellable(rows'[y][u], now.actor)
                /\ Has(now.todo, {"reread"}) => rows'[y][u].kind # "deleted"
    <3>1. y = x /\ rows'[y][u] = w
        BY <2>9, <2>10, <2>18
    <3> QED
        BY <2>7, <2>13, <2>17, <3>1
  <2>19. Sound(now, r, rows')
    <3>1. /\ ~ Has(now.todo, Others) /\ Has(now.todo, Closing) /\ ~ Has(now.todo, {"convert"})
          /\ \A i \in 1..Len(now.about) : Tells(now.about[i], r, rows')
        BY <2>12, <2>14, <2>15, <2>17
    <3> QED
        BY <2>17, <2>18, <3>1, SoundAfter
  <2>20. Awaited(now, r, rows')
    <3>1. v \in Nat
        BY <2>6
    <3> HIDE DEF v
    <3>2. \A u \in 1..Len(rows'[x]) : ~ (v < u)
        BY <2>9, <3>1
    <3> QED
        BY <2>13, <2>17, <3>2 DEF Awaited
  <2>21. Typed'
      BY <1>1, <2>9, <2>16, StaysTyped
  <2>22. InputsSound'
    <3>1. /\ inputs \in [Rows -> Nat] /\ \A y \in Rows : inputs[y] <= Len(rows[y])
          /\ InputsDescribeRow
        BY DEF BookInv, InputsSound
    <3>2. inputs' \in [Rows -> Nat] /\ inputs'[x] = 0 /\ \A y \in Rows \ {x} : inputs'[y] = inputs[y]
        BY <2>1, <2>3, <3>1
    <3>3. \A y \in Rows \ {x} : rows'[y] = rows[y]
        BY <1>1, <2>1, <2>3 DEF Books
    <3>4. \A y \in Rows : inputs'[y] <= Len(rows'[y])
        BY <2>6, <2>9, <3>1, <3>2, <3>3
    <3>5. InputsDescribeRow'
        BY <3>1, <3>2, <3>3 DEF InputsDescribeRow
    <3> QED
        BY <3>2, <3>4, <3>5 DEF InputsSound
  <2> QED
      BY <1>1, <2>2, <2>5, <2>9, <2>11, <2>16, <2>17, <2>19, <2>20, <2>21, <2>22 DEF Moves
<1> QED
    BY <1>2, <1>3

\* A deletion tells of the version it deletes, unless it does not know of whom.
LEMMA DeleteMoves ==
    ASSUME BookInv, NEW r \in Requests, SoftDelete(r)
    PROVE  Moves(r) /\ Calm(req'[r].todo) /\ InputsSound'
<1> DEFINE x == Arg(r, 2)
           w == Version(r, "deleted", x, Recent(x).parts, Recent(x).group)
<1>1. /\ Typed /\ RequestsTyped /\ rows \in Books /\ RowsSound(rows) /\ Busy(r)
      /\ Doing(r, "delete") /\ Head(req[r].todo)[1] = "delete" /\ Sound(req[r], r, rows)
      /\ req[r] \in Request /\ req[r].how \in {"busy", "untold"}
      /\ hidden' = hidden /\ groups' = groups /\ inputs' = inputs
    BY DEF BookInv, Typed, Books, Doing, RequestsTyped, Busy, SoftDelete, noticeVars
<1>2. CASE ~ MayDelete(r, x)
    BY <1>1, <1>2, RefusedQuietly DEF SoftDelete
<1>3. CASE MayDelete(r, x)
  <2>1. /\ rows' = [rows EXCEPT ![x] = Append(@, w)]
        /\ Does(r, Rest(r))
      BY <1>3 DEF SoftDelete
  <2>2. /\ InList(Rest(r)) /\ Calm(Rest(r)) /\ Before(Head(req[r].todo), Rest(r))
        /\ \A ops : Has(req[r].todo, ops) <=> Head(req[r].todo)[1] \in ops \/ Has(Rest(r), ops)
      BY <1>1, RestIs
  <2>3. x \in Rows
      BY <1>1, ArgIs
  <2>4. /\ ~ Saved(r, rows) /\ req[r].form # 0
        /\ AboutToDelete(req[r], rows) \/ WillNotTell(req[r])
    <3>1. Has(req[r].todo, Others)
        BY <1>1, <2>2 DEF Others
    <3> QED
        BY <1>1, <3>1, PageIs DEF Sound
  <2>5. /\ req[r].form = Len(rows[x]) /\ rows[x][Len(rows[x])].kind # "deleted"
      BY <1>3 DEF MayDelete, Deleted, Recent
  <2>6. /\ Len(rows[x]) \in Nat \ {0} /\ rows[x] \in Seq(Saving)
        /\ Recent(x).group \in Groups \cup {None} /\ Recent(x).parts \in SUBSET Users
    <3>1. rows[x] \in Seq(Saving) /\ Len(rows[x]) \in Nat \ {0}
        BY <1>1, <2>3, <2>4, <2>5, LenProperties DEF Books, Request
    <3>2. rows[x][Len(rows[x])] \in Saving
      <4>1. Len(rows[x]) \in 1..Len(rows[x])
          BY <3>1
      <4> QED
          BY <3>1, <4>1, ElementOfSeq
    <3> QED
        BY <3>1, <3>2 DEF Recent, Saving
  <2>7. x = Head(req[r].todo)[2]
      BY DEF Arg
  <2> HIDE DEF x
  <2>8. /\ w \in Saving /\ w.by = r /\ w.kind = "deleted" /\ Tellable(w, req[r].actor)
        /\ w.pending = Pending(x) /\ w.parts = rows[x][Len(rows[x])].parts
    <3>1. /\ w \in Saving /\ w.by = r /\ w.kind = "deleted" /\ w.actor = req[r].actor
          /\ w.pending = Pending(x) /\ w.parts = Recent(x).parts
        BY <1>1, <2>3, <2>6, VersionIs
    <3> QED
        BY <3>1 DEF Recent, Tellable
  <2>9. Saves(r, x, w)
      BY <2>1, <2>3, <2>8 DEF Saves
  <2> HIDE DEF w
  <2>10. /\ rows' \in Books /\ Later(rows, rows') /\ NewBy(r, rows, rows') /\ NewAwait(rows, rows')
         /\ Len(rows'[x]) = Len(rows[x]) + 1 /\ rows'[x][Len(rows[x]) + 1] = w
         /\ \A y \in Rows : \A u \in 1..Len(rows'[y]) :
               \/ u \in 1..Len(rows[y]) /\ rows'[y][u] = rows[y][u]
               \/ y = x /\ u = Len(rows[x]) + 1
      BY <1>1, <2>9, SavesIs
  <2>11. \A y \in Rows : \A u \in 1..Len(rows[y]) : rows[y][u].by # r
      BY <2>4 DEF Saved
  <2>12. RowsSound(rows')
    <3>1. \A u \in 1..Len(rows[x]) : rows[x][u].kind # "deleted" /\ rows[x][u].by # r
        BY <1>1, <2>3, <2>5, <2>11 DEF RowsSound
    <3> QED
        BY <1>1, <2>9, <3>1, SavesSoundly
  <2>13. RequestsTyped' /\ req'[r] = After(r, Rest(r)) /\ OthersStay(r)
      BY <1>1, <2>1, <2>2, RequestDoes DEF OthersStay
  <2>14. Typed'
      BY <1>1, <2>10, <2>13, StaysTyped
  <2>15. InputsSound'
    <3>1. \A y \in Rows : \A u \in 1..Len(rows'[y]) :
             u \in 1..Len(rows[y]) \/ rows'[y][u].kind # "updated"
        BY <2>8, <2>10
    <3> QED
        BY <1>1, <2>10, <3>1, InputsStay
  <2>16. ASSUME NEW y \in Rows, NEW u \in 1..Len(rows'[y]), rows'[y][u].by = r
         PROVE  y = x /\ Tellable(rows'[y][u], req[r].actor)
      BY <2>8, <2>10, <2>11, <2>16
  <2>17. CASE AboutToDelete(req[r], rows)
    <3> DEFINE now == [req[r] EXCEPT !.todo = << <<"record">> >>]
               e == req[r].about[1]
    <3>1. /\ Rest(r) = << <<"record">> >> /\ req[r].how = "busy" /\ Len(req[r].about) = 1
          /\ e.row = x /\ req[r].form <= e.title /\ e.title <= e.share /\ e.share <= Len(rows[x])
      <4>1. PICK y \in Rows : /\ req[r].todo = Deleting(y) /\ req[r].how = "busy"
                              /\ Len(req[r].about) = 1 /\ e.row = y
                              /\ req[r].form <= e.title /\ e.title <= e.share
                              /\ e.share <= Len(rows[y])
          BY <2>17 DEF AboutToDelete
      <4>2. Head(req[r].todo) = <<"delete", y>> /\ Rest(r) = << <<"record">> >>
          BY <4>1, DeletionList DEF Rest
      <4>3. y = x
          BY <2>7, <4>2
      <4> QED
          BY <4>1, <4>2, <4>3
    <3>2. e.title = Len(rows[x]) /\ e.share = Len(rows[x])
      <4>1. e.title \in Nat /\ e.share \in Nat
        <5>1. req[r].about \in Seq(Telling) /\ 1 \in 1..Len(req[r].about)
            BY <1>1, <3>1 DEF Request
        <5>2. e \in Telling
            BY <5>1, ElementOfSeq
        <5> QED
            BY <5>2 DEF Telling
      <4> QED
          BY <2>5, <2>6, <3>1, <4>1
    <3>3. /\ now.todo = << <<"record">> >> /\ now.how = "busy" /\ now.about = req[r].about
          /\ now.actor = req[r].actor
      <4>1. PICK q : q = << <<"record">> >>
          OBVIOUS
      <4>2. /\ [req[r] EXCEPT !.todo = q].todo = q /\ [req[r] EXCEPT !.todo = q].how = req[r].how
            /\ [req[r] EXCEPT !.todo = q].about = req[r].about
            /\ [req[r] EXCEPT !.todo = q].actor = req[r].actor
          BY <1>1, RequestIs
      <4> QED
          BY <3>1, <4>1, <4>2
    <3>4. req'[r] = now
      <4>1. << <<"record">> >> # <<>>
          OBVIOUS
      <4> QED
          BY <2>13, <3>1, <4>1 DEF After
    <3> HIDE DEF now, e
    <3>5. /\ ~ Has(now.todo, Others) /\ Has(now.todo, Closing)
          /\ ~ Has(now.todo, {"inputs"}) /\ ~ Has(now.todo, {"convert"})
      <4>1. \A ops : Has(<< <<"record">> >>, ops) <=> <<"record">>[1] \in ops
        <5>1. <<"record">> \in Statements
            BY Forms DEF Statements
        <5> QED
            BY <5>1, ListOne
      <4>2. <<"record">>[1] = "record"
          OBVIOUS
      <4> QED
          BY <3>3, <4>1, <4>2 DEF Others, Closing
    <3>6. Tells(e, r, rows')
      <4>1. /\ Len(rows[x]) \in 1..Len(rows'[x]) /\ Len(rows[x]) + 1 \in 1..Len(rows'[x])
            /\ rows'[x][Len(rows[x])] = rows[x][Len(rows[x])]
        <5>1. Len(rows[x]) \in 1..Len(rows[x])
            BY <2>6
        <5> QED
            BY <2>3, <2>6, <2>10, <5>1 DEF Later
      <4>2. TellsDeleted(e, r, rows')
          BY <2>8, <2>10, <3>1, <3>2, <4>1 DEF TellsDeleted
      <4> QED
          BY <4>2 DEF Tells
    <3>7. /\ now.about # <<>> /\ Len(now.about) = 1 /\ now.about[1] = e /\ 1..1 = {1}
      <4>1. req[r].about \in Seq(Telling)
          BY <1>1 DEF Request
      <4>2. req[r].about # <<>>
        <5>1. PICK told : told = req[r].about
            OBVIOUS
        <5>2. told \in Seq(Telling) /\ Len(told) = 1
            BY <3>1, <4>1, <5>1
        <5>3. told # <<>>
          <6>1. Len(told) # 0
              BY <5>2
          <6> QED
              BY <5>2, <6>1, EmptySeq
        <5> QED
            BY <5>1, <5>3
      <4> QED
          BY <3>1, <3>3, <4>2 DEF e
    <3>8. Sound(now, r, rows')
      <4>1. \A i \in 1..Len(now.about) : Tells(now.about[i], r, rows')
          BY <3>6, <3>7
      <4>2. ~ Has(now.todo, {"reread"})
        <5>1. ~ Has(Rest(r), {"reread", "inputs"})
            BY <1>1, <2>2, RestFacts
        <5> QED
            BY <3>1, <3>3, <5>1 DEF Has
      <4>3. \A y \in Rows : \A u \in 1..Len(rows'[y]) : rows'[y][u].by = r =>
               /\ \E i \in 1..Len(now.about) : now.about[i].row = y
               /\ Tellable(rows'[y][u], now.actor)
          BY <2>16, <3>1, <3>3, <3>7
      <4> QED
          BY <3>3, <3>5, <3>7, <4>1, <4>2, <4>3, SoundAfter
    <3>9. Awaited(now, r, rows')
        BY <3>5 DEF Awaited
    <3> QED
        BY <1>1, <2>2, <2>10, <2>12, <2>14, <2>15, <2>13, <3>1, <3>3, <3>4, <3>8, <3>9 DEF Moves
  <2>18. CASE WillNotTell(req[r])
    <3>1. Rest(r) = <<>> /\ req[r].how = "untold"
        BY <2>18, DeletionList DEF WillNotTell, Rest
    <3>2. req'[r] = Over("untold")
        BY <2>13, <3>1 DEF After
    <3>3. Sound(Over("untold"), r, rows') /\ Awaited(Over("untold"), r, rows')
        BY OverSound
    <3>4. Over("untold").how = "untold" /\ Over("untold").todo = <<>>
        BY DEF Over
    <3> QED
        BY <1>1, <2>10, <2>12, <2>13, <2>14, <2>15, <3>2, <3>3, <3>4 DEF Moves, Calm
  <2> QED
      BY <2>4, <2>17, <2>18
<1> QED
    BY <1>2, <1>3

LEMMA InputsAsTheyWere ==
    ASSUME BookInv, rows' = rows, inputs' = inputs
    PROVE  InputsSound'
BY DEF BookInv, InputsSound, InputsDescribeRow

\* What a request that reads again tells, and knows.
LEMMA RereadFacts ==
    ASSUME BookInv, NEW r \in Requests, Doing(r, "reread")
    PROVE  /\ ~ Has(Rest(r), Others) /\ ~ Has(req[r].todo, Others)
           /\ req[r].how = "busy" /\ Has(Rest(r), Closing) /\ ~ Has(Rest(r), {"convert"})
           /\ \A ops : Has(req[r].todo, ops) <=> "reread" \in ops \/ Has(Rest(r), ops)
           /\ req[r].about \in Seq(Telling)
           /\ \A i \in 1..Len(req[r].about) : Tells(req[r].about[i], r, rows)
           /\ \A x \in Rows : \A v \in 1..Len(rows[x]) : rows[x][v].by = r =>
                 /\ \E i \in 1..Len(req[r].about) : req[r].about[i].row = x
                 /\ Tellable(rows[x][v], req[r].actor)
                 /\ rows[x][v].kind # "deleted"
<1>1. /\ Typed /\ RequestsTyped /\ rows \in Books /\ Busy(r)
      /\ Head(req[r].todo)[1] = "reread" /\ Sound(req[r], r, rows)
      /\ req[r] \in Request /\ req[r].how \in {"busy", "untold"} /\ req[r].todo # <<>>
    BY DEF BookInv, Typed, Books, Doing, RequestsTyped, Busy
<1>2. /\ InList(Rest(r)) /\ Before(Head(req[r].todo), Rest(r))
      /\ \A ops : Has(req[r].todo, ops) <=> Head(req[r].todo)[1] \in ops \/ Has(Rest(r), ops)
    BY <1>1, RestIs
<1>3. /\ ~ Has(Rest(r), Others) /\ ~ Has(req[r].todo, Others) /\ ~ Has(Rest(r), {"convert"})
      /\ Has(req[r].todo, {"reread"}) /\ Has(req[r].todo, Expenses) /\ "reread" \notin Closing
  <2>1. "reread" \notin Others /\ "reread" \in Expenses /\ "reread" \notin Closing
      BY DEF Others, Expenses, Closing
  <2> QED
      BY <1>1, <1>2, <2>1, RestFacts
<1>4. req[r].how = "busy" /\ Has(Rest(r), Closing)
    BY <1>1, <1>2, <1>3 DEF Sound
<1>5. /\ \A i \in 1..Len(req[r].about) : Tells(req[r].about[i], r, rows)
      /\ \A x \in Rows : \A v \in 1..Len(rows[x]) : rows[x][v].by = r =>
            /\ \E i \in 1..Len(req[r].about) : req[r].about[i].row = x
            /\ Tellable(rows[x][v], req[r].actor)
            /\ rows[x][v].kind # "deleted"
    BY <1>1, <1>3 DEF Sound
<1>6. req[r].about \in Seq(Telling)
    BY <1>1 DEF Request
<1> QED
    BY <1>1, <1>2, <1>3, <1>4, <1>5, <1>6

\* What is told once the name and the currency of the last row are read again.
Reread(r) ==
    Retitled(req[r].about, Len(req[r].about), Len(rows[req[r].about[Len(req[r].about)].row]))

LEMMA RereadTells ==
    ASSUME BookInv, NEW r \in Requests, Doing(r, "reread")
    PROVE  /\ Reread(r) \in Seq(Telling) /\ Len(Reread(r)) = Len(req[r].about)
           /\ \A i \in 1..Len(Reread(r)) : /\ Reread(r)[i].row = req[r].about[i].row
                                           /\ Reread(r)[i].share = req[r].about[i].share
                                           /\ Tells(Reread(r)[i], r, rows)
<1>1. PICK about : about = req[r].about
    OBVIOUS
<1>2. PICK last : last = Len(about)
    OBVIOUS
<1>3. PICK n : n = Len(rows[about[last].row])
    OBVIOUS
<1>4. PICK told : told = Retitled(about, last, n)
    OBVIOUS
<1>5. told = Reread(r)
    BY <1>1, <1>2, <1>3, <1>4 DEF Reread
<1>6. /\ rows \in Books /\ about \in Seq(Telling)
      /\ \A i \in 1..last : Tells(about[i], r, rows)
      /\ \A x \in Rows : \A v \in 1..Len(rows[x]) : rows[x][v].by = r => rows[x][v].kind # "deleted"
  <2>1. rows \in Books
      BY DEF BookInv, Typed, Books
  <2> QED
      BY <1>1, <1>2, <2>1, RereadFacts
<1>7. told = [about EXCEPT ![last].title = n]
    BY <1>4 DEF Retitled
<1>8. last \in Nat /\ \A i \in 1..last : about[i] \in Telling
    BY <1>2, <1>6, LenProperties, ElementOfSeq
<1>9. about # <<>> => last \in 1..last /\ n \in Nat
  <2>1. SUFFICES ASSUME about # <<>> PROVE last \in 1..last /\ n \in Nat
      OBVIOUS
  <2>2. last \in 1..last
      BY <1>8, <1>2, <1>6, <2>1, EmptySeq
  <2>3. about[last].row \in Rows
      BY <1>8, <2>2 DEF Telling
  <2> QED
      BY <1>3, <1>6, <2>2, <2>3, LenProperties DEF Books
<1>10. /\ told \in Seq(Telling) /\ Len(told) = last
      /\ \A i \in 1..last : /\ told[i].row = about[i].row /\ told[i].share = about[i].share
                            /\ Tells(told[i], r, rows)
  <2>1. CASE about = <<>>
    <3>1. told = <<>>
        BY <1>7, <2>1
    <3>2. last = 0
        BY <1>2, <2>1
    <3>3. <<>> \in Seq(Telling) /\ Len(<<>>) = 0
        BY EmptySeq
    <3> QED
        BY <2>1, <3>1, <3>2, <3>3
  <2>2. CASE about # <<>>
    <3>1. told \in Seq(Telling)
        BY <1>9, <1>4, <1>6, <2>2, AboutChanges
    <3>2. DOMAIN told = 1..last /\ \A i \in 1..last : i # last => told[i] = about[i]
        BY <1>7, <1>2, <1>6
    <3>3. Len(told) = last
        BY <1>8, <3>1, <3>2, LenProperties
    <3>4. told[last] = [about[last] EXCEPT !.title = n]
        BY <1>7, <1>9, <1>2, <1>6, <2>2
    <3>5. PICK e \in Telling : e = about[last]
        BY <1>8, <1>9, <2>2
    <3>6. PICK f : f = [e EXCEPT !.title = n]
        OBVIOUS
    <3>7. f.row = e.row /\ f.share = e.share /\ f.title = n
        BY <3>6 DEF Telling
    <3>8. Tells(f, r, rows)
      <4>1. e.row \in Rows /\ n = Len(rows[e.row])
          BY <1>3, <3>5 DEF Telling
      <4>2. TellsSaved(e, r, rows)
        <5>1. Tells(e, r, rows)
            BY <1>9, <1>6, <2>2, <3>5
        <5>2. ~ TellsDeleted(e, r, rows)
            BY <1>6, <4>1 DEF TellsDeleted
        <5> QED
            BY <5>1, <5>2 DEF Tells
      <4>3. TellsSaved(f, r, rows)
          BY <1>9, <2>2, <3>7, <4>1, <4>2 DEF TellsSaved
      <4> QED
          BY <4>3 DEF Tells
    <3>9. told[last] = f /\ about[last] = e
        BY <3>4, <3>5, <3>6
    <3> QED
        BY <1>6, <3>1, <3>2, <3>3, <3>7, <3>8, <3>9
  <2> QED
      BY <2>1, <2>2
<1> QED
    BY <1>10, <1>1, <1>2, <1>5

\* What is told changes in nothing but the titles.
LEMMA RereadMoves ==
    ASSUME BookInv, NEW r \in Requests, Doing(r, "reread"),
           NEW told \in Seq(Telling), Len(told) = Len(req[r].about),
           \A i \in 1..Len(told) : /\ told[i].row = req[r].about[i].row
                                   /\ told[i].share = req[r].about[i].share
                                   /\ Tells(told[i], r, rows),
           req' = [req EXCEPT ![r] = Now(r, Rest(r), told, req[r].how)],
           hidden' = hidden, groups' = groups, rows' = rows
    PROVE  Moves(r) /\ Calm(req'[r].todo)
<1>1. /\ Typed /\ RequestsTyped /\ rows \in Books /\ RowsSound(rows) /\ Busy(r)
      /\ Sound(req[r], r, rows) /\ Awaited(req[r], r, rows) /\ req[r].how # "done"
    BY DEF BookInv, Typed, Books, Doing, RequestsTyped, Busy
<1>2. InList(Rest(r)) /\ Calm(Rest(r))
    BY <1>1, RestIs
<1>3. /\ ~ Has(Rest(r), Others) /\ ~ Has(req[r].todo, Others)
      /\ req[r].how = "busy" /\ Has(Rest(r), Closing) /\ ~ Has(Rest(r), {"convert"})
      /\ \A ops : Has(req[r].todo, ops) <=> "reread" \in ops \/ Has(Rest(r), ops)
      /\ req[r].about \in Seq(Telling)
      /\ \A x \in Rows : \A v \in 1..Len(rows[x]) : rows[x][v].by = r =>
            /\ \E i \in 1..Len(req[r].about) : req[r].about[i].row = x
            /\ Tellable(rows[x][v], req[r].actor)
            /\ rows[x][v].kind # "deleted"
    BY RereadFacts
<1>4. told # <<>> <=> req[r].about # <<>>
  <2>1. PICK about : about = req[r].about
      OBVIOUS
  <2>2. about \in Seq(Telling) /\ Len(told) = Len(about)
      BY <1>3, <2>1
  <2>3. told # <<>> <=> about # <<>>
      BY <2>2, EmptySeq
  <2> QED
      BY <2>1, <2>3
<1>5. PICK now : now = Now(r, Rest(r), told, req[r].how)
    OBVIOUS
<1>6. RequestsTyped' /\ OthersStay(r) /\ req'[r] = now
  <2>1. /\ RequestsTyped /\ Busy(r) /\ InList(Rest(r)) /\ req[r].how \in {"busy", "untold"}
      BY <1>1, <1>2, <1>3
  <2> QED
      BY <1>5, <2>1, RequestNow
<1>7. /\ now.todo = Rest(r) /\ now.about = told /\ now.how = "busy" /\ now.actor = req[r].actor
    BY <1>3, <1>5 DEF Now
<1>8. Sound(now, r, rows)
  <2>1. \A i \in 1..Len(now.about) : Tells(now.about[i], r, rows)
      BY <1>7
  <2>2. ASSUME NEW x \in Rows, NEW v \in 1..Len(rows[x]), rows[x][v].by = r
        PROVE  /\ \E i \in 1..Len(now.about) : now.about[i].row = x
               /\ Tellable(rows[x][v], now.actor)
               /\ rows[x][v].kind # "deleted"
    <3>1. PICK i \in 1..Len(req[r].about) : req[r].about[i].row = x
        BY <1>3, <2>2
    <3>2. i \in 1..Len(now.about) /\ now.about[i].row = x
        BY <1>7, <3>1
    <3> QED
        BY <1>3, <1>7, <2>2, <3>2
  <2>3. Has(now.todo, {"inputs"}) => now.about # <<>> \/ Has(now.todo, {"add", "mine"})
    <3>1. Has(req[r].todo, {"inputs"}) => req[r].about # <<>> \/ Has(req[r].todo, {"add", "mine"})
        BY <1>1 DEF Sound
    <3> QED
        BY <1>3, <1>4, <1>7, <3>1
  <2> QED
      BY <1>3, <1>7, <2>1, <2>2, <2>3 DEF Sound
<1>9. Awaited(now, r, rows)
  <2>1. PICK last : last = Len(told)
      OBVIOUS
  <2>2. SUFFICES ASSUME Has(now.todo, {"inputs"}), told # <<>>,
                        NEW v \in 1..Len(rows[told[last].row]),
                        told[last].share < v, rows[told[last].row][v].kind = "updated"
                 PROVE  r \in rows[told[last].row][v].pending
      BY <1>7, <2>1 DEF Awaited
  <2>3. last \in 1..Len(told)
      BY <2>1, <2>2, EmptySeq
  <2>4. told[last].row = req[r].about[last].row /\ told[last].share = req[r].about[last].share
      BY <2>3
  <2>5. /\ Has(req[r].todo, {"inputs"}) /\ ~ Has(req[r].todo, Others) /\ req[r].about # <<>>
        /\ last = Len(req[r].about)
      BY <1>3, <1>4, <1>7, <2>1, <2>2
  <2>6. \A u \in 1..Len(rows[req[r].about[last].row]) :
           req[r].about[last].share < u /\ rows[req[r].about[last].row][u].kind = "updated" =>
               r \in rows[req[r].about[last].row][u].pending
      BY <1>1, <2>5 DEF Awaited
  <2> QED
      BY <2>2, <2>4, <2>6
<1>10. Typed'
    BY <1>1, <1>6, StaysTyped
<1> QED
    BY <1>1, <1>2, <1>3, <1>6, <1>7, <1>8, <1>9, <1>10, RowsStay DEF Moves

\* A deletion that reads of whom it is, or finds it cannot.
LEMMA ParticipantsMoves ==
    ASSUME BookInv, NEW r \in Requests, Doing(r, "participants"),
           NEW x, x = Arg(r, 2),
           \/ req' = [req EXCEPT ![r] =
                        Now(r, Rest(r), Reshared(req[r].about, 1, Len(rows[x])), req[r].how)]
           \/ req' = [req EXCEPT ![r] = Now(r, Front(Rest(r)), req[r].about, "untold")],
           hidden' = hidden, groups' = groups, rows' = rows
    PROVE  Moves(r) /\ Calm(req'[r].todo)
<1>1. /\ Typed /\ RequestsTyped /\ rows \in Books /\ RowsSound(rows) /\ Busy(r)
      /\ Head(req[r].todo)[1] = "participants" /\ Sound(req[r], r, rows)
      /\ req[r] \in Request /\ req[r].how # "done"
    BY DEF BookInv, Typed, Books, Doing, RequestsTyped, Busy
<1>2. /\ InList(Rest(r)) /\ Calm(Rest(r))
      /\ \A ops : Has(req[r].todo, ops) <=> Head(req[r].todo)[1] \in ops \/ Has(Rest(r), ops)
    BY <1>1, RestIs
<1>3. ~ Saved(r, rows) /\ req[r].form # 0 /\ AskingParticipants(req[r], rows)
  <2>1. Has(req[r].todo, Others)
      BY <1>1, <1>2 DEF Others
  <2> QED
      BY <1>1, <2>1, PageIs DEF Sound
<1>4. PICK about : about = req[r].about
    OBVIOUS
<1>5. /\ x \in Rows /\ req[r].todo = Reading(x) /\ req[r].how = "busy"
      /\ Len(about) = 1 /\ about[1].row = x
      /\ req[r].form <= about[1].title /\ about[1].title <= Len(rows[x])
  <2>1. PICK y \in Rows : /\ req[r].todo = Reading(y) /\ req[r].how = "busy"
                          /\ Len(about) = 1 /\ about[1].row = y
                          /\ req[r].form <= about[1].title /\ about[1].title <= Len(rows[y])
      BY <1>3, <1>4 DEF AskingParticipants
  <2>2. Head(req[r].todo) = <<"participants", y>>
      BY <2>1, DeletionList
  <2>3. y = x
      BY <2>2 DEF Arg
  <2> QED
      BY <2>1, <2>3
<1>6. /\ Rest(r) = Deleting(x) /\ Front(Rest(r)) = Untelling(x)
      /\ Has(Deleting(x), Closing) /\ InList(Untelling(x))
      /\ Has(Deleting(x), Others) /\ Has(Untelling(x), Others)
      /\ Calm(Untelling(x)) /\ ~ Has(Untelling(x), {"inputs"})
  <2>1. /\ Rest(r) = Deleting(x) /\ Front(Deleting(x)) = Untelling(x)
        /\ Has(Deleting(x), Closing) /\ InList(Untelling(x)) /\ InList(Deleting(x))
        /\ Deleting(x) # <<>> /\ Head(Deleting(x)) = <<"delete", x>>
        /\ Untelling(x) # <<>> /\ Head(Untelling(x)) = <<"delete", x>> /\ Tail(Untelling(x)) = <<>>
      BY <1>5, DeletionList DEF Rest
  <2>2. <<"delete", x>>[1] = "delete" /\ "delete" \in Others
      BY DEF Others
  <2>3. Has(Deleting(x), Others) /\ Has(Untelling(x), Others)
      BY <2>1, <2>2, ListFirst
  <2>4. ~ Has(Untelling(x), {"inputs"})
    <3>1. Has(Untelling(x), {"inputs"}) <=> "delete" \in {"inputs"} \/ Has(<<>>, {"inputs"})
        BY <2>1, <2>2, ListFirst
    <3> QED
        BY <3>1, ListEmpty
  <2> QED
      BY <2>1, <2>2, <2>3, <2>4 DEF Calm
<1>7. about \in Seq(Telling) /\ about[1] \in Telling /\ Len(rows[x]) \in Nat /\ about # <<>>
  <2>1. about \in Seq(Telling)
      BY <1>1, <1>4 DEF Request
  <2>2. Len(about) # 0 /\ 1 \in 1..Len(about)
      BY <1>5
  <2> QED
      BY <1>1, <1>5, <2>1, <2>2, EmptySeq, ElementOfSeq, LenProperties DEF Books
<1>8. CASE req' = [req EXCEPT ![r] =
                     Now(r, Rest(r), Reshared(req[r].about, 1, Len(rows[x])), req[r].how)]
  <2>1. PICK n : n = Len(rows[x])
      OBVIOUS
  <2>2. PICK told : told = Reshared(about, 1, n)
      OBVIOUS
  <2>3. told \in Seq(Telling)
      BY <1>7, <2>1, <2>2, AboutChanges
  <2>4. /\ Len(told) = 1 /\ told[1].row = x /\ told[1].title = about[1].title
        /\ told[1].share = Len(rows[x])
    <3>1. told = [about EXCEPT ![1].share = n]
        BY <2>2 DEF Reshared
    <3>2. DOMAIN about = 1..1
        BY <1>5, <1>7
    <3>3. DOMAIN told = 1..1 /\ told[1] = [about[1] EXCEPT !.share = n]
        BY <3>1, <3>2
    <3>4. Len(told) = 1
        BY <2>3, <3>3, LenProperties
    <3>5. PICK e \in Telling : e = about[1]
        BY <1>7
    <3>6. PICK f : f = [e EXCEPT !.share = n]
        OBVIOUS
    <3>7. f.row = e.row /\ f.title = e.title /\ f.share = n
        BY <3>6 DEF Telling
    <3> QED
        BY <1>5, <2>1, <3>3, <3>4, <3>5, <3>6, <3>7
  <2>5. PICK now : now = Now(r, Rest(r), told, req[r].how)
      OBVIOUS
  <2>6. req' = [req EXCEPT ![r] = Now(r, Rest(r), told, req[r].how)]
      BY <1>4, <1>8, <2>1, <2>2
  <2>7. RequestsTyped' /\ OthersStay(r) /\ req'[r] = now
    <3>1. /\ RequestsTyped /\ Busy(r) /\ InList(Rest(r)) /\ req[r].how \in {"busy", "untold"}
        BY <1>1, <1>2, <1>5
    <3> QED
        BY <2>3, <2>5, <2>6, <3>1, RequestNow
  <2>8. /\ now.todo = Deleting(x) /\ now.form = req[r].form /\ now.about = told /\ now.how = "busy"
        /\ now.about # <<>>
    <3>1. Len(told) # 0
        BY <2>4
    <3>2. told # <<>>
        BY <2>3, <3>1, EmptySeq
    <3> QED
        BY <1>5, <1>6, <2>5, <3>2 DEF Now
  <2>9. Page(now, rows)
    <3>1. Len(rows[x]) <= Len(rows[x])
        BY <1>7
    <3>2. AboutToDelete(now, rows)
        BY <1>5, <2>4, <2>8, <3>1 DEF AboutToDelete
    <3> QED
        BY <3>2 DEF Page
  <2>10. Sound(now, r, rows) /\ Awaited(now, r, rows)
      BY <1>3, <1>6, <2>8, <2>9, SoundBefore
  <2>11. Typed'
      BY <1>1, <2>7, StaysTyped
  <2> QED
      BY <1>1, <1>2, <1>6, <2>7, <2>8, <2>10, <2>11, RowsStay DEF Moves
<1>9. CASE req' = [req EXCEPT ![r] = Now(r, Front(Rest(r)), req[r].about, "untold")]
  <2>1. PICK how : how = "untold"
      OBVIOUS
  <2>2. PICK now : now = Now(r, Untelling(x), about, how)
      OBVIOUS
  <2>3. req' = [req EXCEPT ![r] = Now(r, Untelling(x), about, how)]
      BY <1>4, <1>6, <1>9, <2>1
  <2>4. RequestsTyped' /\ OthersStay(r) /\ req'[r] = now
      BY <1>1, <1>6, <1>7, <2>1, <2>2, <2>3, RequestNow
  <2>5. now.todo = Untelling(x) /\ now.form = req[r].form /\ now.how = "untold"
      BY <2>1, <2>2 DEF Now
  <2>6. Page(now, rows)
      BY <1>5, <2>5 DEF WillNotTell, Page
  <2>7. Sound(now, r, rows) /\ Awaited(now, r, rows)
      BY <1>3, <1>6, <2>5, <2>6, SoundBefore
  <2>8. Typed'
      BY <1>1, <2>4, StaysTyped
  <2> QED
      BY <1>1, <1>6, <2>4, <2>5, <2>7, <2>8, RowsStay DEF Moves
<1> QED
    BY <1>8, <1>9

LEMMA ReadsMoves ==
    ASSUME BookInv, NEW r \in Requests, Reads(r)
    PROVE  Moves(r) /\ Calm(req'[r].todo) /\ InputsSound'
<1>1. /\ hidden' = hidden /\ groups' = groups /\ rows' = rows /\ inputs' = inputs
      /\ RequestsTyped
    BY DEF Reads, peopleVars, noticeVars, BookInv, Typed
<1>2. req[r].todo \in Seq(Statements) /\ req \in [Requests -> Request]
    BY <1>1 DEF RequestsTyped, InList
<1>3. CASE Doing(r, "reread")
  <2>1. PICK last : last = Len(req[r].about)
      OBVIOUS
  <2>2. PICK n : n = Len(rows[req[r].about[last].row])
      OBVIOUS
  <2>3. req' = WithTitle(r, Rest(r), last, n)
    <3>1. ~ Doing(r, "participants")
        BY <1>3 DEF Doing
    <3>2. LET l == Len(req[r].about)
          IN req' = [req EXCEPT ![r].todo = Tail(@),
                       ![r].about[l].title = Len(rows[req[r].about[l].row])]
        BY <3>1 DEF Reads
    <3> QED
        BY <2>1, <2>2, <3>2 DEF WithTitle, Rest
  <2>4. req' = [req EXCEPT ![r] = Now(r, Rest(r), Retitled(req[r].about, last, n), req[r].how)]
      BY <1>1, <2>3, NowWithTitle
  <2>5. PICK told : told = Reread(r)
      OBVIOUS
  <2>6. req' = [req EXCEPT ![r] = Now(r, Rest(r), told, req[r].how)]
      BY <2>1, <2>2, <2>4, <2>5 DEF Reread
  <2>7. /\ told \in Seq(Telling) /\ Len(told) = Len(req[r].about)
        /\ \A i \in 1..Len(told) : /\ told[i].row = req[r].about[i].row
                                   /\ told[i].share = req[r].about[i].share
                                   /\ Tells(told[i], r, rows)
      BY <1>3, <2>5, RereadTells
  <2>8. Moves(r) /\ Calm(req'[r].todo)
      BY <1>1, <1>3, <2>6, <2>7, RereadMoves
  <2> QED
      BY <1>1, <2>8, InputsAsTheyWere
<1>4. CASE Doing(r, "participants")
  <2>1. \/ req' = WithShare(r, Rest(r), 1, Len(rows[Arg(r, 2)]))
        \/ req' = [req EXCEPT ![r].todo = Front(Rest(r)), ![r].how = "untold"]
    <3>1. ~ Doing(r, "reread")
        BY <1>4 DEF Doing
    <3>2. \/ req' = [req EXCEPT ![r].todo = Tail(@), ![r].about[1].share = Len(rows[Arg(r, 2)])]
          \/ req' = [req EXCEPT ![r].todo = Front(Tail(@)), ![r].how = "untold"]
        BY <3>1 DEF Reads
    <3> QED
        BY <3>2 DEF WithShare, Rest
  <2>2. \/ req' = [req EXCEPT ![r] =
                     Now(r, Rest(r), Reshared(req[r].about, 1, Len(rows[Arg(r, 2)])), req[r].how)]
        \/ req' = [req EXCEPT ![r] = Now(r, Front(Rest(r)), req[r].about, "untold")]
    <3>1. PICK n : n = Len(rows[Arg(r, 2)])
        OBVIOUS
    <3>2. CASE req' = WithShare(r, Rest(r), 1, n)
      <4>1. req' = [req EXCEPT ![r] = Now(r, Rest(r), Reshared(req[r].about, 1, n), req[r].how)]
          BY <1>1, <3>2, NowWithShare
      <4> QED
          BY <3>1, <4>1
    <3>3. CASE req' = [req EXCEPT ![r].todo = Front(Rest(r)), ![r].how = "untold"]
      <4>1. req' = [req EXCEPT ![r] = Now(r, Front(Rest(r)), req[r].about, "untold")]
          BY <1>1, <3>3, NowUntold
      <4> QED
          BY <4>1
    <3> QED
        BY <2>1, <3>1, <3>2, <3>3
  <2>3. Moves(r) /\ Calm(req'[r].todo)
      BY <1>1, <1>4, <2>2, ParticipantsMoves
  <2> QED
      BY <1>1, <2>3, InputsAsTheyWere
<1> QED
    BY <1>3, <1>4 DEF Reads

LEMMA ChecksMoves ==
    ASSUME BookInv, NEW r \in Requests, Checks(r)
    PROVE  Moves(r) /\ Calm(req'[r].todo) /\ InputsSound'
<1>1. hidden' = hidden /\ groups' = groups /\ rows' = rows /\ inputs' = inputs
    BY DEF Checks, peopleVars, noticeVars
<1>2. CASE Doing(r, "check")
  <2>1. ~ Doing(r, "mine") /\ Busy(r)
      BY <1>2 DEF Doing
  <2>2. Does(r, Rest(r)) \/ Refused(r)
      BY <2>1, Zenon DEF Checks
  <2>3. CASE Does(r, Rest(r))
      BY <1>1, <1>2, <2>3, RestMoves, InputsAsTheyWere
  <2>4. CASE Refused(r)
      BY <1>1, <2>1, <2>4, RefusedQuietly
  <2> QED
      BY <2>2, <2>3, <2>4
<1>3. CASE Doing(r, "mine")
  <2>1. ~ Doing(r, "check") /\ Busy(r)
      BY <1>3 DEF Doing
  <2>2. \/ /\ ~ Deleted(Arg(r, 2))
           /\ req' = [req EXCEPT ![r].todo = Tail(@),
                        ![r].about = <<[row |-> Arg(r, 2), title |-> Len(rows[Arg(r, 2)]),
                                        share |-> 0]>>]
        \/ Refused(r)
      BY <2>1, Zenon DEF Checks
  <2>3. CASE Refused(r)
      BY <1>1, <2>1, <2>3, RefusedQuietly
  <2>4. CASE ~ Refused(r)
    <3>1. Moves(r) /\ Calm(req'[r].todo)
        BY <1>1, <1>3, <2>2, <2>4, MineMoves
    <3> QED
        BY <1>1, <3>1, InputsAsTheyWere
  <2> QED
      BY <2>3, <2>4
<1> QED
    BY <1>2, <1>3 DEF Checks

LEMMA PruneMoves ==
    ASSUME BookInv, NEW r \in Requests, Prune(r)
    PROVE  Moves(r) /\ Calm(req'[r].todo) /\ InputsSound'
<1>1. /\ hidden' = hidden /\ groups' = groups /\ rows' = rows /\ inputs' = inputs
      /\ Doing(r, "prune") /\ Does(r, Rest(r))
    BY DEF Prune, peopleVars
<1> QED
    BY <1>1, RestMoves, InputsAsTheyWere

\* What was typed is of the split its request has saved; whoever has changed
\* that since knew of it.
LEMMA RecordInputsMoves ==
    ASSUME BookInv, NEW r \in Requests, RecordSplitInputs(r)
    PROVE  Moves(r) /\ Calm(req'[r].todo) /\ InputsSound'
<1>1. /\ hidden' = hidden /\ groups' = groups /\ rows' = rows
      /\ Doing(r, "inputs") /\ Does(r, Rest(r))
    BY DEF RecordSplitInputs, peopleVars
<1>2. Moves(r) /\ Calm(req'[r].todo)
    BY <1>1, RestMoves
<1>3. PICK about : about = req[r].about
    OBVIOUS
<1>4. PICK e : e = about[Len(about)]
    OBVIOUS
<1>5. inputs' = inputs \/ inputs' = [inputs EXCEPT ![e.row] = e.share]
    BY <1>3, <1>4 DEF RecordSplitInputs, Last
<1>6. /\ Typed /\ RequestsTyped /\ rows \in Books /\ RowsSound(rows) /\ Busy(r)
      /\ Head(req[r].todo)[1] = "inputs" /\ Sound(req[r], r, rows) /\ Awaited(req[r], r, rows)
      /\ req[r].todo # <<>> /\ about \in Seq(Telling)
    BY <1>1, <1>3 DEF BookInv, Typed, Books, Doing, RequestsTyped, Busy, Request
<1>7. /\ InList(Rest(r)) /\ Before(Head(req[r].todo), Rest(r))
      /\ \A ops : Has(req[r].todo, ops) <=> Head(req[r].todo)[1] \in ops \/ Has(Rest(r), ops)
    BY <1>6, RestIs
<1>8. Has(req[r].todo, {"inputs"}) /\ ~ Has(req[r].todo, Others) /\ ~ Has(req[r].todo, {"add", "mine"})
  <2>1. "inputs" \notin Others /\ "inputs" \notin {"add", "mine"}
      BY DEF Others
  <2>2. ~ Has(Rest(r), Others) /\ ~ Has(Rest(r), {"mine"}) /\ ~ Has(Rest(r), {"add"})
      BY <1>6, <1>7, RestFacts
  <2>3. ~ Has(Rest(r), {"add", "mine"})
      BY <2>2 DEF Has
  <2> QED
      BY <1>6, <1>7, <2>1, <2>2, <2>3
<1>9. about # <<>>
    BY <1>3, <1>6, <1>8 DEF Sound
<1>10. /\ e \in Telling /\ Tells(e, r, rows)
       /\ \A v \in 1..Len(rows[e.row]) :
             e.share < v /\ rows[e.row][v].kind = "updated" => r \in rows[e.row][v].pending
  <2>1. Len(about) \in 1..Len(about)
      BY <1>6, <1>9, EmptySeq
  <2>2. e \in Telling
      BY <1>4, <1>6, <2>1, ElementOfSeq
  <2>3. Tells(e, r, rows)
      BY <1>3, <1>4, <1>6, <1>8, <2>1 DEF Sound
  <2>4. \A v \in 1..Len(rows[e.row]) :
           e.share < v /\ rows[e.row][v].kind = "updated" => r \in rows[e.row][v].pending
      BY <1>3, <1>4, <1>6, <1>8, <1>9 DEF Awaited
  <2> QED
      BY <2>2, <2>3, <2>4
<1>11. CASE inputs' = inputs
    BY <1>1, <1>2, <1>11, InputsAsTheyWere
<1>12. CASE inputs' = [inputs EXCEPT ![e.row] = e.share]
  <2>1. /\ e.row \in Rows /\ e.share \in 1..Len(rows[e.row]) /\ Len(rows[e.row]) \in Nat
        /\ e.share \in Nat
      BY <1>6, <1>10, LenProperties DEF Telling, Tells, TellsSaved, TellsDeleted, Books
  <2>2. /\ inputs \in [Rows -> Nat] /\ \A y \in Rows : inputs[y] <= Len(rows[y])
        /\ InputsDescribeRow
      BY DEF BookInv, InputsSound
  <2>3. /\ inputs' \in [Rows -> Nat] /\ inputs'[e.row] = e.share
        /\ \A y \in Rows \ {e.row} : inputs'[y] = inputs[y]
      BY <1>12, <2>1, <2>2
  <2>4. \A y \in Rows : inputs'[y] <= Len(rows[y])
      BY <2>1, <2>2, <2>3
  <2>5. ASSUME NEW v \in e.share + 1 .. Len(rows[e.row]), rows[e.row][v].kind = "updated"
        PROVE  rows[e.row][e.share].by \in rows[e.row][v].pending
    <3>1. v \in 1..Len(rows[e.row]) /\ e.share < v
        BY <2>1, <2>5
    <3>2. r \in rows[e.row][v].pending
        BY <1>10, <2>5, <3>1
    <3>3. ~ TellsDeleted(e, r, rows)
      <4>1. SUFFICES ASSUME TellsDeleted(e, r, rows) PROVE FALSE
          OBVIOUS
      <4>2. e.share + 1 \in 1..Len(rows[e.row]) /\ rows[e.row][e.share + 1].kind = "deleted"
          BY <4>1 DEF TellsDeleted
      <4>3. e.share + 1 = Len(rows[e.row])
          BY <1>6, <2>1, <4>2 DEF RowsSound
      <4>4. v = e.share + 1
          BY <2>1, <2>5, <4>3
      <4> QED
          BY <2>5, <4>2, <4>4
    <3> QED
        BY <1>10, <3>2, <3>3 DEF Tells, TellsSaved
  <2>6. InputsDescribeRow'
    <3>1. ASSUME NEW y \in Rows, NEW v \in inputs'[y] + 1 .. Len(rows[y]),
                 inputs'[y] # 0, rows[y][v].kind = "updated"
          PROVE  rows[y][inputs'[y]].by \in rows[y][v].pending
      <4>1. CASE y = e.row
          BY <2>3, <2>5, <3>1, <4>1
      <4>2. CASE y # e.row
          BY <2>2, <2>3, <3>1, <4>2 DEF InputsDescribeRow
      <4> QED
          BY <4>1, <4>2
    <3> QED
        BY <1>1, <3>1 DEF InputsDescribeRow
  <2> QED
      BY <1>1, <1>2, <2>3, <2>4, <2>6 DEF InputsSound
<1> QED
    BY <1>5, <1>11, <1>12

-------------------------------------------------------------------------------
(* The requests begin.                                                     *)

LEMMA BeginsMoves ==
    ASSUME BookInv, NEW r \in Requests, NEW a \in Users, NEW q, InList(q), Calm(q),
           Begins(r, a, q), inputs' = inputs, ~ Has(q, Others),
           Has(q, Expenses) => Has(q, Closing), Has(q, {"inputs"}) => Has(q, {"add"})
    PROVE  Moves(r) /\ Calm(req'[r].todo) /\ InputsSound'
<1>1. hidden' = hidden /\ groups' = groups /\ rows' = rows
    BY DEF Begins, peopleVars
<1>2. Typed /\ RequestsTyped /\ rows \in Books
    BY DEF BookInv, Typed, Books
<1>3. RequestsTyped' /\ req[r] = Idle /\ req'[r] = Begun(a, 0, q) /\ OthersStay(r)
    BY <1>2, BeginsIs DEF OthersStay
<1>4. Typed'
    BY <1>1, <1>2, <1>3, StaysTyped
<1>5. Has(q, {"inputs"}) => Has(q, {"add", "mine"})
    BY Zenon DEF Has
<1>6. Moves(r)
    BY <1>1, <1>3, <1>4, <1>5, 0 \in Nat, BegunMoves
<1>7. req'[r].todo = q
    BY <1>3 DEF Begun
<1> QED
    BY <1>1, <1>6, <1>7, InputsAsTheyWere

LEMMA FromPageMoves ==
    ASSUME BookInv, NEW r \in Requests, NEW a \in Users, NEW x \in Rows, NEW q, InList(q),
           q # <<>>, Head(q) = <<"mine", x>>, Has(q, Closing),
           \/ q = Deletion(x)
           \/ Has(q, {"update"}) /\ ~ Has(q, {"participants", "delete"}),
           FromPage(r, a, x, q), inputs' = inputs
    PROVE  Moves(r) /\ Calm(req'[r].todo) /\ InputsSound'
<1>1. /\ hidden' = hidden /\ groups' = groups /\ rows' = rows
      /\ rows[x] # <<>> /\ req[r] = Idle
    BY DEF FromPage, peopleVars
<1>2. Typed /\ RequestsTyped /\ rows \in Books
    BY DEF BookInv, Typed, Books
<1>3. PICK n : n = Len(rows[x])
    OBVIOUS
<1>4. n \in Nat /\ n # 0
  <2>1. rows[x] \in Seq(Saving)
      BY <1>2 DEF Books
  <2> QED
      BY <1>1, <1>3, <2>1, LenProperties, EmptySeq
<1>5. RequestsTyped' /\ req'[r] = Begun(a, n, q) /\ OthersStay(r)
  <2>1. req' = [req EXCEPT ![r] = [Idle EXCEPT !.actor = a, !.form = n, !.todo = q, !.how = "busy"]]
      BY <1>3 DEF FromPage
  <2> QED
      BY <1>2, <1>4, <2>1, RequestBegins DEF OthersStay
<1>6. Typed'
    BY <1>1, <1>2, <1>5, StaysTyped
<1>7. PICK b : b = Begun(a, n, q)
    OBVIOUS
<1>8. b.how = "busy" /\ b.about = <<>> /\ b.todo = q /\ b.form = n
    BY <1>7 DEF Begun
<1>9. Page(b, rows)
  <2>1. n <= Len(rows[x])
      BY <1>3, <1>4
  <2> QED
      BY <1>8, <2>1, Zenon DEF Page, Asking
<1>10. Has(q, {"add", "mine"})
  <2>1. Head(q)[1] = "mine"
      OBVIOUS
  <2> QED
      BY <2>1, ListFirst
<1>11. Moves(r)
    BY <1>1, <1>4, <1>5, <1>6, <1>7, <1>9, <1>10, BegunMoves
<1>12. Calm(q)
  <2>1. Head(q)[1] = "mine"
      OBVIOUS
  <2> QED
      BY <2>1 DEF Calm
<1>13. req'[r].todo = q
    BY <1>5, <1>7, <1>8
<1> QED
    BY <1>1, <1>11, <1>12, <1>13, InputsAsTheyWere

LEMMA PlannedLists ==
    ASSUME NEW s \in Planned, NEW t \in Planned, NEW u \in Planned
    PROVE  /\ <<s>> \in Seq(Planned) /\ <<s, t>> \in Seq(Planned) /\ <<s, t, u>> \in Seq(Planned)
           /\ <<>> \in Seq(Planned)
OBVIOUS

LEMMA EachIs ==
    ASSUME NEW S, NEW T, NEW s \in Seq(S), NEW f, f \in [1..Len(s) -> Seq(T)]
    PROVE  FlattenSeq(f) \in Seq(T)
<1>1. f \in Seq(Seq(T))
    BY LenProperties
<1> QED
    BY <1>1, FlattenType

LEMMA AddExpenseMoves ==
    ASSUME BookInv, NEW r \in Requests, NEW a \in Users, NEW payer \in Users,
           NEW parts \in SUBSET Users, NEW g \in Groups \union {None},
           AddExpense(r, a, payer, parts, g), inputs' = inputs
    PROVE  Moves(r) /\ Calm(req'[r].todo) /\ InputsSound'
<1> DEFINE Pal(u) == IF g = None THEN AddFriend(payer, u, FALSE) ELSE <<>>
           ids == SetToSeq(parts \ {payer})
           each == [i \in DOMAIN ids |-> Pal(ids[i])]
           payers == parts \union {payer}
<1>1. ASSUME NEW u \in Users PROVE Pal(u) \in Seq(Personal)
  <2>1. PICK no : no = FALSE
      OBVIOUS
  <2>2. AddFriend(payer, u, no) \in Seq(Personal)
      BY <2>1, AddFriendList
  <2>3. <<>> \in Seq(Personal)
      BY EmptySeq
  <2> QED
      BY <2>1, <2>2, <2>3
<1>2. FlattenSeq(each) \in Seq(Personal)
  <2>1. IsFiniteSet(parts \ {payer})
      BY PeopleAssumption, FS_Subset
  <2>2. ids \in Seq(parts \ {payer})
      BY <2>1, SetToSeqType
  <2> HIDE DEF ids
  <2>3. DOMAIN ids = 1..Len(ids)
      BY <2>2, LenProperties
  <2>4. \A i \in 1..Len(ids) : ids[i] \in Users
      BY <2>2, ElementOfSeq
  <2> HIDE DEF Pal
  <2>5. each \in [1..Len(ids) -> Seq(Personal)]
      BY <1>1, <2>3, <2>4
  <2> HIDE DEF each
  <2> QED
      BY <2>2, <2>5, EachIs
<1>3. PICK pals \in Seq(Personal) : pals = FlattenSeq(each)
    BY <1>2
<1>4. PICK q : q = (( << <<"check", g, payers>>, <<"add", "added", parts, g>> >>
                        \o << <<"reread">>, <<"inputs">> >>) \o pals) \o << <<"record">> >>
    OBVIOUS
<1>5. Begins(r, a, q)
    BY <1>3, <1>4 DEF AddExpense, Each
<1>6. payers \in SUBSET Users
    OBVIOUS
<1> HIDE DEF payers, each
<1>7. InList(q) /\ ~ Has(q, Others) /\ Has(q, Closing) /\ Has(q, {"add"})
    BY <1>4, <1>6, AddList
<1>8. Calm(q)
  <2>1. <<"check", g, payers>> \in Planned /\ <<"add", "added", parts, g>> \in Planned
      BY <1>6, Forms
  <2>2. <<"reread">> \in Planned /\ <<"inputs">> \in Planned /\ <<"record">> \in Planned
      BY Forms
  <2>3. PICK c, d : c = <<"check", g, payers>> /\ d = <<"add", "added", parts, g>>
      OBVIOUS
  <2>4. <<c, d>> \in Seq(Planned) /\ << <<"reread">>, <<"inputs">> >> \in Seq(Planned)
        /\ << <<"record">> >> \in Seq(Planned)
      BY <2>1, <2>2, <2>3, PlannedLists
  <2>5. pals \in Seq(Planned)
      BY <1>3 DEF Personal
  <2>6. ((<<c, d>> \o << <<"reread">>, <<"inputs">> >>) \o pals) \o << <<"record">> >> \in Seq(Planned)
      BY <2>4, <2>5, ConcatProperties
  <2> QED
      BY <1>4, <2>3, <2>6, PlannedCalm
<1> QED
    BY <1>5, <1>7, <1>8, BeginsMoves

LEMMA SettleMoves ==
    ASSUME BookInv, NEW r \in Requests, NEW a \in Users, NEW pair \in SUBSET Users,
           NEW g \in Groups \union {None}, Settle(r, a, pair, g), inputs' = inputs
    PROVE  Moves(r) /\ Calm(req'[r].todo) /\ InputsSound'
<1>1. PICK q : q = (IF g = None THEN << <<"check", g, pair>> >> ELSE <<>>)
                      \o << <<"add", "settled", pair, g>>, <<"reread">>, <<"record">> >>
    OBVIOUS
<1>2. Begins(r, a, q)
    BY <1>1 DEF Settle
<1>3. InList(q) /\ ~ Has(q, Others) /\ Has(q, Closing) /\ ~ Has(q, {"inputs"})
    BY <1>1, SettleList
<1>4. Calm(q)
  <2>1. /\ <<"check", g, pair>> \in Planned /\ <<"add", "settled", pair, g>> \in Planned
        /\ <<"reread">> \in Planned /\ <<"record">> \in Planned
      BY Forms
  <2>2. PICK c, d : c = <<"check", g, pair>> /\ d = <<"add", "settled", pair, g>>
      OBVIOUS
  <2>3. <<c>> \in Seq(Planned) /\ <<d, <<"reread">>, <<"record">> >> \in Seq(Planned)
        /\ <<>> \in Seq(Planned)
      BY <2>1, <2>2, PlannedLists
  <2>4. PICK p : p = IF g = None THEN <<c>> ELSE <<>>
      OBVIOUS
  <2>5. p \o <<d, <<"reread">>, <<"record">> >> \in Seq(Planned)
      BY <2>3, <2>4, ConcatProperties
  <2> QED
      BY <1>1, <2>2, <2>4, <2>5, PlannedCalm
<1> QED
    BY <1>2, <1>3, <1>4, BeginsMoves

LEMMA SettleAllMoves ==
    ASSUME BookInv, NEW r \in Requests, NEW a \in Users, NEW g \in Groups,
           NEW pair1 \in SUBSET Users, NEW pair2 \in SUBSET Users,
           SettleAll(r, a, g, pair1, pair2), inputs' = inputs
    PROVE  Moves(r) /\ Calm(req'[r].todo) /\ InputsSound'
<1>1. PICK q : q = (<< <<"add", "settled", pair1, g>>, <<"reread">> >>
                     \o << <<"add", "settled", pair2, g>>, <<"reread">> >>)
                    \o << <<"record batch">> >>
    OBVIOUS
<1>2. Begins(r, a, q)
    BY <1>1 DEF SettleAll
<1>3. InList(q) /\ ~ Has(q, Others) /\ Has(q, Closing) /\ ~ Has(q, {"inputs"})
    BY <1>1, SettleAllList
<1>4. Calm(q)
  <2>1. /\ <<"add", "settled", pair1, g>> \in Planned /\ <<"add", "settled", pair2, g>> \in Planned
        /\ <<"reread">> \in Planned /\ <<"record batch">> \in Planned
      BY Forms
  <2>2. PICK c, d : c = <<"add", "settled", pair1, g>> /\ d = <<"add", "settled", pair2, g>>
      OBVIOUS
  <2>3. <<c, <<"reread">> >> \in Seq(Planned) /\ <<d, <<"reread">> >> \in Seq(Planned)
        /\ << <<"record batch">> >> \in Seq(Planned)
      BY <2>1, <2>2, PlannedLists
  <2>4. (<<c, <<"reread">> >> \o <<d, <<"reread">> >>) \o << <<"record batch">> >> \in Seq(Planned)
      BY <2>3, ConcatProperties
  <2> QED
      BY <1>1, <2>2, <2>4, PlannedCalm
<1> QED
    BY <1>2, <1>3, <1>4, BeginsMoves

LEMMA ConvertMoves ==
    ASSUME BookInv, NEW r \in Requests, NEW a \in Users, NEW friend \in Users,
           Convert(r, a, friend), inputs' = inputs
    PROVE  Moves(r) /\ Calm(req'[r].todo) /\ InputsSound'
<1>1. PICK c, d : c = <<"check", None, {a, friend}>> /\ d = <<"convert", {a, friend}>>
    OBVIOUS
<1>2. Begins(r, a, <<c, d>>)
    BY <1>1 DEF Convert
<1>3. c \in Planned /\ d \in Planned /\ c[1] = "check" /\ d[1] = "convert"
    BY <1>1, Forms
<1>4. May(c, d)
    BY <1>3 DEF May, Closing
<1>5. InList(<<c, d>>) /\ \A ops : Has(<<c, d>>, ops) <=> c[1] \in ops \/ d[1] \in ops
    BY <1>3, <1>4, TwoStatements
<1>6. /\ ~ Has(<<c, d>>, Others) /\ Has(<<c, d>>, Closing) /\ ~ Has(<<c, d>>, {"inputs"})
    BY <1>3, <1>5 DEF Others, Closing
<1>7. Calm(<<c, d>>)
    BY <1>3, PlannedLists, PlannedCalm
<1> QED
    BY <1>2, <1>5, <1>6, <1>7, BeginsMoves

LEMMA EditMoves ==
    ASSUME BookInv, NEW r \in Requests, NEW a \in Users, NEW x \in Rows,
           NEW parts \in SUBSET Users, Edit(r, a, x, parts), inputs' = inputs
    PROVE  Moves(r) /\ Calm(req'[r].todo) /\ InputsSound'
<1>0. rows \in Books /\ rows[x] # <<>>
    BY DEF BookInv, Typed, Books, Edit
<1>1. PICK settled, g : settled = (rows[x][1].kind = "settled") /\ g = Recent(x).group
    OBVIOUS
<1>2. g \in Groups \cup {None}
  <2>1. rows[x] \in Seq(Saving)
      BY <1>0 DEF Books
  <2>2. Len(rows[x]) \in Nat /\ Len(rows[x]) # 0
      BY <1>0, <2>1, LenProperties, EmptySeq
  <2>3. Len(rows[x]) \in 1..Len(rows[x])
      BY <2>2
  <2>4. Recent(x) \in Saving
      BY <2>1, <2>3, ElementOfSeq DEF Recent
  <2> QED
      BY <1>1, <2>4 DEF Saving
<1>3. PICK c : c = IF settled /\ g = None THEN <<>> ELSE << <<"check", g, parts>> >>
    OBVIOUS
<1>4. PICK i : i = IF settled THEN <<>> ELSE << <<"inputs">> >>
    OBVIOUS
<1>5. PICK q : q = ((( << <<"mine", x>> >> \o c) \o << <<"update", x, parts>> >>) \o i)
                      \o << <<"reread">>, <<"record">> >>
    OBVIOUS
<1>6. FromPage(r, a, x, q)
    BY <1>1, <1>3, <1>4, <1>5 DEF Edit
<1>7. c \in {<<>>, << <<"check", g, parts>> >>} /\ i \in {<<>>, << <<"inputs">> >>}
    BY <1>3, <1>4
<1>8. /\ InList(q) /\ q # <<>> /\ Head(q) = <<"mine", x>>
      /\ Has(q, Closing) /\ Has(q, {"update"}) /\ ~ Has(q, {"participants", "delete"})
    BY <1>2, <1>5, <1>7, EditList, ZenonT(60)
<1> QED
    BY <1>6, <1>8, FromPageMoves

LEMMA DeleteExpenseMoves ==
    ASSUME BookInv, NEW r \in Requests, NEW a \in Users, NEW x \in Rows,
           DeleteExpense(r, a, x), inputs' = inputs
    PROVE  Moves(r) /\ Calm(req'[r].todo) /\ InputsSound'
<1>1. PICK q : q = Deletion(x)
    OBVIOUS
<1>2. FromPage(r, a, x, q)
    BY <1>1 DEF DeleteExpense, Deletion
<1> QED
    BY <1>1, <1>2, DeletionList, FromPageMoves

LEMMA PushTestMoves ==
    ASSUME BookInv, NEW r \in Requests, NEW a \in Users, PushTest(r, a), inputs' = inputs
    PROVE  Moves(r) /\ Calm(req'[r].todo) /\ InputsSound'
<1> DEFINE Sub(e) == << <<"prune", e>> >>
           own == {e \in Endpoints : <<a, e>> \in subscriptions}
           ids == SetToSeq(own)
           each == [i \in DOMAIN ids |-> Sub(ids[i])]
<1>1. FlattenSeq(each) \in Seq(Personal)
  <2>1. IsFiniteSet(own)
      BY NoticesAssumption, FS_Subset
  <2>2. ids \in Seq(own)
      BY <2>1, SetToSeqType
  <2> HIDE DEF ids
  <2>3. DOMAIN ids = 1..Len(ids)
      BY <2>2, LenProperties
  <2>4. \A i \in 1..Len(ids) : ids[i] \in Endpoints
      BY <2>2, ElementOfSeq
  <2>5. \A e \in Endpoints : Sub(e) \in Seq(Personal)
      BY PersonalForms, OneOf
  <2> HIDE DEF Sub
  <2>6. each \in [1..Len(ids) -> Seq(Personal)]
      BY <2>3, <2>4, <2>5
  <2> HIDE DEF each
  <2> QED
      BY <2>2, <2>6, EachIs
<1>2. PICK q \in Seq(Personal) : q = FlattenSeq(each)
    BY <1>1
<1>3. Begins(r, a, q)
    BY <1>2 DEF PushTest, Each
<1> HIDE DEF each
<1>4. InList(q) /\ ~ Has(q, Expenses) /\ Calm(q)
    BY PersonalList, PersonalCalm
<1>5. ~ Has(q, Others) /\ ~ Has(q, {"inputs"})
    BY <1>4, Zenon DEF Has, Others, Expenses
<1> QED
    BY <1>3, <1>4, <1>5, BeginsMoves

LEMMA HandleMoves ==
    ASSUME BookInv, NEW r \in Requests, Handle(r), UNCHANGED noticeVars
    PROVE  Moves(r) /\ Calm(req'[r].todo) /\ InputsSound'
<1>1. inputs' = inputs
    BY DEF noticeVars
<1>2. \A pair \in kSubset(2, Users) : pair \in SUBSET Users
    BY DEF kSubset
<1>3. ASSUME NEW a \in Users, NEW payer \in Users, NEW parts \in SUBSET Users,
             NEW g \in Groups \union {None}, AddExpense(r, a, payer, parts, g)
      PROVE  Moves(r) /\ Calm(req'[r].todo) /\ InputsSound'
    BY <1>1, <1>3, AddExpenseMoves
<1>4. ASSUME NEW a \in Users, NEW pair \in kSubset(2, Users), NEW g \in Groups \union {None},
             Settle(r, a, pair, g)
      PROVE  Moves(r) /\ Calm(req'[r].todo) /\ InputsSound'
    BY <1>1, <1>2, <1>4, SettleMoves
<1>5. ASSUME NEW a \in Users, NEW g \in Groups, NEW pair1 \in kSubset(2, Users),
             NEW pair2 \in kSubset(2, Users), SettleAll(r, a, g, pair1, pair2)
      PROVE  Moves(r) /\ Calm(req'[r].todo) /\ InputsSound'
    BY <1>1, <1>2, <1>5, SettleAllMoves
<1>6. ASSUME NEW a \in Users, NEW x \in Rows, DeleteExpense(r, a, x)
      PROVE  Moves(r) /\ Calm(req'[r].todo) /\ InputsSound'
    BY <1>1, <1>6, DeleteExpenseMoves
<1>7. ASSUME NEW a \in Users, NEW x \in Rows, NEW parts \in SUBSET Users, Edit(r, a, x, parts)
      PROVE  Moves(r) /\ Calm(req'[r].todo) /\ InputsSound'
    BY <1>1, <1>7, EditMoves
<1>8. ASSUME NEW a \in Users, PushTest(r, a)
      PROVE  Moves(r) /\ Calm(req'[r].todo) /\ InputsSound'
    BY <1>1, <1>8, PushTestMoves
<1>9. ASSUME NEW a \in Users, NEW friend \in Users, Convert(r, a, friend)
      PROVE  Moves(r) /\ Calm(req'[r].todo) /\ InputsSound'
    BY <1>1, <1>9, ConvertMoves
<1> QED
    BY <1>3, <1>4, <1>5, <1>6, <1>7, <1>8, <1>9, Zenon DEF Handle

-------------------------------------------------------------------------------
(* Notifications are recorded.                                             *)

LEMMA RecordFacts ==
    ASSUME BookInv, NEW r \in Requests, Doing(r, "record") \/ Doing(r, "record batch")
    PROVE  /\ Busy(r) /\ Rest(r) = <<>> /\ req[r].how = "busy" /\ req[r].about \in Seq(Telling)
           /\ \A i \in 1..Len(req[r].about) : Tells(req[r].about[i], r, rows)
           /\ \A x \in Rows : \A v \in 1..Len(rows[x]) : rows[x][v].by = r =>
                 /\ \E i \in 1..Len(req[r].about) : req[r].about[i].row = x
                 /\ Tellable(rows[x][v], req[r].actor)
<1>1. RequestsTyped /\ Sound(req[r], r, rows)
    BY DEF BookInv, Typed
<1>2. Busy(r) /\ Head(req[r].todo)[1] \in Closing /\ req[r].todo # <<>>
    BY DEF Doing, Busy, Closing
<1>3. /\ InList(Rest(r)) /\ Before(Head(req[r].todo), Rest(r))
      /\ \A ops : Has(req[r].todo, ops) <=> Head(req[r].todo)[1] \in ops \/ Has(Rest(r), ops)
    BY <1>1, <1>2, RestIs
<1>4. Rest(r) = <<>>
    BY <1>2, <1>3, RestFacts
<1>5. ~ Has(req[r].todo, Others)
  <2>1. Head(req[r].todo)[1] \notin Others
      BY <1>2 DEF Closing, Others
  <2> QED
      BY <1>3, <1>4, <2>1, ListEmpty
<1>6. req[r].how = "busy"
    BY <1>1, <1>2, <1>5 DEF RequestsTyped, Sound
<1>7. req[r].about \in Seq(Telling)
    BY <1>1, RequestIs DEF Request
<1> QED
    BY <1>1, <1>2, <1>4, <1>5, <1>6, <1>7 DEF Sound

LEMMA ToldParts ==
    ASSUME BookInv, NEW r \in Requests, NEW e \in Telling, Tells(e, r, rows),
           NEW v \in 1..Len(rows[e.row]), rows[e.row][v].by = r
    PROVE  rows[e.row][e.share].parts = rows[e.row][v].parts
<1>1. e.row \in Rows /\ r # None
    BY PeopleAssumption DEF Telling
<1>2. \A w \in 1..Len(rows[e.row]) : rows[e.row][w].by = r => v = w
    BY <1>1 DEF BookInv, RowsSound
<1> QED
    BY <1>2 DEF Tells, TellsSaved, TellsDeleted

LEMMA ToldTruly ==
    ASSUME BookInv, NEW r \in Requests, NEW e \in Telling, Tells(e, r, rows),
           NEW n, n.by = r, n.row = e.row, n.title = e.title, n.share = e.share,
           n.user \in rows[e.row][e.share].parts \ {n.actor},
           n.kind = IF Deleted(e.row) /\ Recent(e.row).by = r THEN "deleted"
                    ELSE rows[e.row][e.share].kind
    PROVE  Noticed(n, rows)
<1> DEFINE versions == rows[e.row]
<1>1. e.row \in Rows /\ r # None /\ e.title \in Nat /\ e.share \in Nat
    BY PeopleAssumption DEF Telling
<1>2. Len(versions) \in Nat
  <2>1. versions \in Seq(Saving)
      BY <1>1 DEF BookInv, Typed
  <2> QED
      BY <2>1, LenProperties
<1>3. \A v, w \in 1..Len(versions) : versions[v].by = r /\ versions[w].by = r => v = w
    BY <1>1 DEF BookInv, RowsSound
<1>4. \A v \in 1..Len(versions) : versions[v].kind = "deleted" => v = Len(versions)
    BY <1>1 DEF BookInv, RowsSound
<1>5. Deleted(e.row) = (versions[Len(versions)].kind = "deleted")
      /\ Recent(e.row) = versions[Len(versions)]
    BY DEF Deleted, Recent
<1>6. CASE TellsSaved(e, r, rows)
  <2>1. /\ e.share \in 1..Len(versions) /\ versions[e.share].by = r
        /\ versions[e.share].kind # "deleted" /\ e.share <= e.title /\ e.title <= Len(versions)
      BY <1>6 DEF TellsSaved
  <2> HIDE DEF versions
  <2>2. Len(versions) \in 1..Len(versions)
      BY <1>2, <2>1
  <2>3. ~ (Deleted(e.row) /\ Recent(e.row).by = r)
      BY <1>3, <1>5, <2>1, <2>2
  <2>4. n.kind # "deleted"
      BY <2>1, <2>3 DEF versions
  <2>5. ASSUME e.title # e.share PROVE versions[e.share + 1].by # r
    <3>1. e.share + 1 \in 1..Len(versions) /\ e.share + 1 # e.share
        BY <1>1, <1>2, <2>1, <2>5
    <3> QED
        BY <1>3, <2>1, <3>1
  <2> QED
      BY <1>1, <2>1, <2>4, <2>5 DEF Noticed, versions
<1>7. CASE TellsDeleted(e, r, rows)
  <2>1. /\ e.share \in 1..Len(versions) /\ e.share + 1 \in 1..Len(versions) /\ e.title = e.share
        /\ versions[e.share + 1].by = r /\ versions[e.share + 1].kind = "deleted"
      BY <1>7 DEF TellsDeleted
  <2> HIDE DEF versions
  <2>2. e.share + 1 = Len(versions)
      BY <1>4, <2>1
  <2>3. n.kind = "deleted"
      BY <1>5, <2>1, <2>2
  <2>4. e.title <= Len(versions) /\ e.share + 1 <= Len(versions)
      BY <1>1, <1>2, <2>1
  <2> QED
      BY <1>1, <2>1, <2>3, <2>4 DEF Noticed, versions
<1> QED
    BY <1>6, <1>7 DEF Tells

Notice(e, u, r) ==
    [by |-> r, user |-> u, actor |-> req[r].actor, row |-> e.row,
     title |-> e.title, share |-> e.share,
     kind |-> IF Deleted(e.row) /\ Recent(e.row).by = r THEN "deleted"
              ELSE rows[e.row][e.share].kind]

LEMMA NotificationsAre ==
    ASSUME NEW r
    PROVE  /\ \A n \in Notifications(r) : \E e \in ToSet(req[r].about) :
                 \E u \in rows[e.row][e.share].parts \ {req[r].actor} : n = Notice(e, u, r)
           /\ \A e \in ToSet(req[r].about) : \A u \in rows[e.row][e.share].parts \ {req[r].actor} :
                 Notice(e, u, r) \in Notifications(r)
<1> DEFINE Of(e) == {Notice(e, u, r) : u \in Recipients(e.row, e.share, req[r].actor)}
<1>1. Notifications(r) = UNION {Of(e) : e \in ToSet(req[r].about)}
    BY DEF Notifications, Notice
<1>2. \A e, n : n \in Of(e) <=>
          \E u \in rows[e.row][e.share].parts \ {req[r].actor} : n = Notice(e, u, r)
    BY DEF Recipients
<1> HIDE DEF Of
<1>3. \A n : n \in Notifications(r) <=> \E e \in ToSet(req[r].about) : n \in Of(e)
    BY <1>1, Zenon
<1>4. ASSUME NEW n \in Notifications(r)
      PROVE  \E e \in ToSet(req[r].about) :
                 \E u \in rows[e.row][e.share].parts \ {req[r].actor} : n = Notice(e, u, r)
    BY <1>2, <1>3, <1>4
<1>5. ASSUME NEW e \in ToSet(req[r].about), NEW u \in rows[e.row][e.share].parts \ {req[r].actor}
      PROVE  Notice(e, u, r) \in Notifications(r)
  <2>1. Notice(e, u, r) \in Of(e)
      BY <1>2
  <2> QED
      BY <1>3, <2>1
<1> QED
    BY <1>4, <1>5

LEMMA AboutIs ==
    ASSUME BookInv, NEW r \in Requests, Doing(r, "record") \/ Doing(r, "record batch"), NEW e
    PROVE  /\ e \in ToSet(req[r].about) <=> \E i \in 1..Len(req[r].about) : e = req[r].about[i]
           /\ e \in ToSet(req[r].about) => e \in Telling /\ Tells(e, r, rows)
<1>1. PICK about : about = req[r].about
    OBVIOUS
<1>2. about \in Seq(Telling) /\ \A i \in 1..Len(about) : Tells(about[i], r, rows)
    BY <1>1, RecordFacts
<1>3. DOMAIN about = 1..Len(about) /\ \A i \in 1..Len(about) : about[i] \in Telling
    BY <1>2, LenProperties, ElementOfSeq
<1>4. e \in ToSet(about) <=> \E i \in 1..Len(about) : e = about[i]
    BY <1>3 DEF ToSet
<1> QED
    BY <1>1, <1>2, <1>3, <1>4

LEMMA NotificationIs ==
    ASSUME BookInv, NEW r \in Requests, Doing(r, "record") \/ Doing(r, "record batch"),
           NEW n \in Notifications(r)
    PROVE  /\ n.by = r /\ Noticed(n, rows)
           /\ \E e \in Telling : /\ Tells(e, r, rows) /\ n.row = e.row
                               /\ n.user \in rows[e.row][e.share].parts \ {req[r].actor}
<1>1. PICK e \in ToSet(req[r].about) :
          \E u \in rows[e.row][e.share].parts \ {req[r].actor} : n = Notice(e, u, r)
    BY NotificationsAre, Zenon
<1>2. e \in Telling /\ Tells(e, r, rows)
    BY AboutIs
<1>3. PICK u \in rows[e.row][e.share].parts \ {req[r].actor} : n = Notice(e, u, r)
    BY <1>1
<1>4. /\ n.by = r /\ n.row = e.row /\ n.title = e.title /\ n.share = e.share
      /\ n.actor = req[r].actor /\ n.user = u
      /\ n.kind = IF Deleted(e.row) /\ Recent(e.row).by = r THEN "deleted"
                  ELSE rows[e.row][e.share].kind
    BY <1>3 DEF Notice
<1>5. n.user \in rows[e.row][e.share].parts \ {n.actor}
    BY <1>3, <1>4
<1>6. Noticed(n, rows)
    BY <1>2, <1>4, <1>5, ToldTruly
<1> QED
    BY <1>2, <1>4, <1>5, <1>6

ToldAbout(x, r) == {n.user : n \in {n \in Notifications(r) : n.row = x}}

\* Everyone r recorded a share for is told, and nobody else.
LEMMA EveryoneIsTold ==
    ASSUME BookInv, NEW r \in Requests, Doing(r, "record") \/ Doing(r, "record batch"),
           NEW x \in Rows, NEW v \in 1..Len(rows[x]), rows[x][v].by = r
    PROVE  ToldAbout(x, r) = Hearers(rows[x][v])
<1>1. rows[x][v].actor = req[r].actor /\ rows[x][v].kind # "converted"
  <2>1. Tellable(rows[x][v], req[r].actor)
      BY RecordFacts
  <2> QED
      BY <2>1 DEF Tellable
<1>2. \A e \in Telling : Tells(e, r, rows) /\ e.row = x =>
          rows[e.row][e.share].parts = rows[x][v].parts
    BY ToldParts
<1>3. ASSUME NEW n \in Notifications(r), n.row = x
      PROVE  n.user \in rows[x][v].parts \ {rows[x][v].actor}
  <2>1. PICK e \in Telling : /\ Tells(e, r, rows) /\ n.row = e.row
                           /\ n.user \in rows[e.row][e.share].parts \ {req[r].actor}
      BY NotificationIs
  <2> QED
      BY <1>1, <1>2, <1>3, <2>1
<1>4. ASSUME NEW u \in rows[x][v].parts \ {rows[x][v].actor}
      PROVE  \E n \in Notifications(r) : n.row = x /\ n.user = u
  <2>1. PICK i \in 1..Len(req[r].about) : req[r].about[i].row = x
      BY RecordFacts
  <2>2. PICK e : e = req[r].about[i]
      OBVIOUS
  <2>3. e \in Telling /\ Tells(e, r, rows) /\ e \in ToSet(req[r].about) /\ e.row = x
      BY <2>1, <2>2, AboutIs
  <2>4. u \in rows[e.row][e.share].parts \ {req[r].actor}
      BY <1>1, <1>2, <2>3
  <2>5. Notice(e, u, r) \in Notifications(r)
      BY <2>3, <2>4, NotificationsAre
  <2>6. PICK n : n = Notice(e, u, r)
      OBVIOUS
  <2>7. n.row = x /\ n.user = u
      BY <2>3, <2>6 DEF Notice
  <2> QED
      BY <2>5, <2>6, <2>7
<1> DEFINE told == {n \in Notifications(r) : n.row = x}
<1>5. \A n : n \in told <=> n \in Notifications(r) /\ n.row = x
    OBVIOUS
<1> HIDE DEF told
<1>6. ASSUME NEW u
      PROVE  u \in {n.user : n \in told} <=> u \in rows[x][v].parts \ {rows[x][v].actor}
  <2>1. u \in {n.user : n \in told} <=> \E n \in told : u = n.user
      OBVIOUS
  <2> QED
      BY <1>3, <1>4, <1>5, <2>1
<1>7. {n.user : n \in told} = Hearers(rows[x][v])
    BY <1>1, <1>6 DEF Hearers
<1> QED
    BY <1>7 DEF told, ToldAbout

LEMMA OverFields ==
    ASSUME NEW q, NEW h, q = Over(h)
    PROVE  q.how = h /\ q.todo = <<>> /\ Calm(q.todo)
<1>1. q.how = h /\ q.todo = <<>>
    BY DEF Over
<1> QED
    BY <1>1 DEF Calm

LEMMA NoticesAdded ==
    ASSUME BookInv, NEW r \in Requests, Doing(r, "record") \/ Doing(r, "record batch"),
           recorded' = recorded \union Notifications(r), rows' = rows,
           req'[r] = Over("done"), OthersStay(r)
    PROVE  NoticesSound' /\ NobodyIsMissed'
<1>1. \A n \in Notifications(r) : n.by = r /\ Noticed(n, rows)
    BY NotificationIs
<1>2. req[r].how = "busy" /\ req'[r].how = "done"
  <2>1. PICK q : q = req'[r]
      OBVIOUS
  <2>2. q.how = "done"
      BY <2>1, OverFields
  <2> QED
      BY <2>1, <2>2, RecordFacts
<1>3. \A n \in recorded : n.by \in Requests /\ req[n.by].how = "done" /\ Noticed(n, rows)
    BY DEF BookInv, NoticesSound
<1>4. \A n \in recorded : n.by # r
    BY <1>2, <1>3
<1>5. ASSUME NEW n \in recorded'
      PROVE  n.by \in Requests /\ req'[n.by].how = "done" /\ Noticed(n, rows')
  <2>1. CASE n \in recorded
      BY <1>3, <1>4, <2>1 DEF OthersStay
  <2>2. CASE n \in Notifications(r)
      BY <1>1, <1>2, <2>2
  <2> QED
      BY <2>1, <2>2
<1>6. \A x \in Rows : \A v \in 1..Len(rows[x]) : rows[x][v].by = r =>
          ToldAbout(x, r) = Hearers(rows[x][v])
    BY EveryoneIsTold
<1>7. ASSUME NEW x \in Rows, NEW v \in DOMAIN rows[x], rows[x][v].by # None,
             req'[rows[x][v].by].how = "done"
      PROVE  {n.user : n \in {n \in recorded' : n.by = rows[x][v].by /\ n.row = x}}
                = Hearers(rows[x][v])
  <2>1. v \in 1..Len(rows[x]) /\ rows[x][v] \in Saving
    <3>1. rows[x] \in Seq(Saving)
        BY DEF BookInv, Typed
    <3> QED
        BY <3>1, LenProperties, ElementOfSeq
  <2>2. rows[x][v].by \in Requests
      BY <1>7, <2>1 DEF Saving
  <2>3. CASE rows[x][v].by = r
    <3>1. {n \in recorded' : n.by = rows[x][v].by /\ n.row = x}
             = {n \in Notifications(r) : n.row = x}
        BY <1>1, <1>4, <2>3
    <3>2. ToldAbout(x, r) = Hearers(rows[x][v])
        BY <1>6, <2>1, <2>3
    <3> QED
        BY <3>1, <3>2 DEF ToldAbout
  <2>4. CASE rows[x][v].by # r
    <3>1. {n \in recorded' : n.by = rows[x][v].by /\ n.row = x}
             = {n \in recorded : n.by = rows[x][v].by /\ n.row = x}
        BY <1>1, <2>4
    <3>2. req[rows[x][v].by].how = "done"
        BY <1>7, <2>2, <2>4 DEF OthersStay
    <3>3. NobodyIsMissed
        BY DEF BookInv
    <3>4. {n.user : n \in {n \in recorded : n.by = rows[x][v].by /\ n.row = x}}
             = Hearers(rows[x][v])
        BY <1>7, <3>2, <3>3 DEF NobodyIsMissed, Hearers
    <3> QED
        BY <3>1, <3>4
  <2> QED
      BY <2>3, <2>4
<1>8. NoticesSound'
    BY <1>5 DEF NoticesSound
<1>9. NobodyIsMissed'
  <2>1. ASSUME NEW x \in Rows, NEW v \in DOMAIN rows'[x], rows'[x][v].by # None,
               req'[rows'[x][v].by].how = "done"
        PROVE  {n.user : n \in {n \in recorded' : n.by = rows'[x][v].by /\ n.row = x}}
                  = Hearers(rows'[x][v])
      BY <1>7, <2>1
  <2> QED
      BY <2>1 DEF NobodyIsMissed, Hearers
<1> QED
    BY <1>8, <1>9

\* A delivery that changes, or that has more to draw on.
LEMMA DeliveryChanges ==
    ASSUME DeliveriesSound, NEW r \in Requests, recorded \subseteq recorded',
           NEW d, d = [step |-> d.step, todo |-> d.todo, batch |-> d.batch],
           \A t \in d.todo : \E n \in recorded' : n.by = r /\ n.user = t[1] /\ t[2] \in {n.row, None},
           delivery' = delivery \/ delivery' = [delivery EXCEPT ![r] = d]
    PROVE  DeliveriesSound'
<1> DEFINE D(e) == [step |-> e.step, todo |-> e.todo, batch |-> e.batch]
<1>1. delivery = [p \in Requests |-> D(delivery[p])] /\ d = D(d)
    BY DEF DeliveriesSound
<1> HIDE DEF D
<1>2. /\ delivery' = [p \in Requests |-> D(delivery'[p])]
      /\ \A p \in Requests : delivery'[p] \in {delivery[p], d}
      /\ \A p \in Requests \ {r} : delivery'[p] = delivery[p]
    BY <1>1
<1>3. ASSUME NEW p \in Requests, NEW t \in delivery'[p].todo
      PROVE  \E n \in recorded' : n.by = p /\ n.user = t[1] /\ t[2] \in {n.row, None}
  <2>1. CASE t \in delivery[p].todo
      BY <2>1 DEF DeliveriesSound
  <2>2. CASE p = r /\ t \in d.todo
      BY <2>2
  <2> QED
      BY <1>2, <1>3, <2>1, <2>2
<1> QED
    BY <1>2, <1>3 DEF DeliveriesSound, D

LEMMA CreateKeeps ==
    ASSUME BookInv, NEW r \in Requests, CreateNotifications(r)
    PROVE  BookInv' /\ OthersStay(r) /\ Calm(req'[r].todo)
<1>1. /\ hidden' = hidden /\ groups' = groups /\ rows' = rows /\ inputs' = inputs
      /\ Doing(r, "record") \/ Doing(r, "record batch")
    BY DEF CreateNotifications, peopleVars
<1>2. Typed /\ RequestsTyped /\ rows \in Books
    BY DEF BookInv, Typed, Books
<1>3. Busy(r) /\ Rest(r) = <<>> /\ req[r].how = "busy"
    BY <1>1, RecordFacts
<1>4. InputsSound'
    BY <1>1, InputsAsTheyWere
<1>5. CASE /\ recorded' = recorded \union Notifications(r)
           /\ delivery' = IF Notifications(r) = {} THEN delivery
                          ELSE [delivery EXCEPT ![r] = [step |-> "list", todo |-> {},
                                                        batch |-> Doing(r, "record batch")]]
           /\ Does(r, Rest(r))
  <2>1. RequestsTyped' /\ req'[r] = Over("done") /\ OthersStay(r)
    <3>1. Ends(r, "done")
        BY <1>3, <1>5 DEF Does
    <3> QED
        BY <1>2, <3>1, RequestEnds DEF OthersStay
  <2>2. Typed'
      BY <1>1, <1>2, <2>1, StaysTyped
  <2>3. NoticesSound' /\ NobodyIsMissed'
      BY <1>1, <1>5, <2>1, NoticesAdded
  <2>4. DeliveriesSound'
    <3>1. PICK batch \in BOOLEAN : batch = Doing(r, "record batch")
        BY DEF Doing
    <3>2. PICK d : d = [step |-> "list", todo |-> {}, batch |-> batch]
        OBVIOUS
    <3>3. d = [step |-> d.step, todo |-> d.todo, batch |-> d.batch] /\ d.todo = {}
        BY <3>2
    <3>4. delivery' = delivery \/ delivery' = [delivery EXCEPT ![r] = d]
        BY <1>5, <3>1, <3>2
    <3>5. DeliveriesSound /\ recorded \subseteq recorded'
        BY <1>5 DEF BookInv
    <3> QED
        BY <3>3, <3>4, <3>5, DeliveryChanges
  <2>5. \A p \in Requests : Sound(req'[p], p, rows') /\ Awaited(req'[p], p, rows')
    <3>1. Sound(Over("done"), r, rows) /\ Awaited(Over("done"), r, rows)
      <4>1. PICK done : done = "done" /\ done # "idle"
          OBVIOUS
      <4>2. Sound(Over(done), r, rows) /\ Awaited(Over(done), r, rows)
          BY <4>1, OverSound
      <4> QED
          BY <4>1, <4>2
    <3>2. \A p \in Requests : Sound(req[p], p, rows) /\ Awaited(req[p], p, rows)
        BY DEF BookInv
    <3>3. ASSUME NEW p \in Requests PROVE Sound(req'[p], p, rows) /\ Awaited(req'[p], p, rows)
      <4>1. CASE p = r
          BY <2>1, <3>1, <4>1
      <4>2. CASE p # r
        <5>1. req'[p] = req[p]
            BY <2>1, <4>2 DEF OthersStay
        <5> QED
            BY <3>2, <5>1
      <4> QED
          BY <4>1, <4>2
    <3> QED
        BY <1>1, <3>3
  <2>6. RowsSound(rows')
      BY <1>1 DEF BookInv
  <2>7. Calm(req'[r].todo)
      BY <2>1, OverFields
  <2> QED
      BY <1>4, <2>1, <2>2, <2>3, <2>4, <2>5, <2>6, <2>7 DEF BookInv
<1>6. CASE Ends(r, "untold") /\ recorded' = recorded /\ delivery' = delivery
  <2>1. RequestsTyped' /\ req'[r] = Over("untold") /\ OthersStay(r)
      BY <1>2, <1>6, RequestEnds DEF OthersStay
  <2>2. Typed'
      BY <1>1, <1>2, <2>1, StaysTyped
  <2>3. Moves(r)
      BY <1>1, <1>3, <2>1, <2>2, OverMoves
  <2>4. Calm(req'[r].todo)
      BY <2>1, OverFields
  <2> QED
      BY <1>4, <1>6, <2>1, <2>3, <2>4, QuietKeeps
<1> QED
    BY <1>5, <1>6 DEF CreateNotifications

\* A conversion is saved and answered in one step, and leaves nobody untold of
\* what the others have saved.
LEMMA ConversionIs ==
    ASSUME BookInv, NEW r \in Requests, CreateConversionPair(r)
    PROVE  /\ Busy(r) /\ Head(req[r].todo)[1] = "convert" /\ ~ Saved(r, rows)
           /\ RequestsTyped' /\ OthersStay(r)
           /\ \E h \in {"done", "failed"} : req'[r] = Over(h)
           /\ \E x \in Rows, w \in Saving :
                 Saves(r, x, w) /\ Len(rows[x]) = 0 /\ w.kind = "converted"
<1>1. /\ Typed /\ RequestsTyped /\ rows \in Books /\ Busy(r) /\ Doing(r, "convert")
      /\ Head(req[r].todo)[1] = "convert" /\ Sound(req[r], r, rows)
    BY DEF BookInv, Typed, Books, Doing, Busy, CreateConversionPair
<1>2. ~ Saved(r, rows)
  <2>1. Has(req[r].todo, {"convert"})
      BY <1>1, RestIs
  <2> QED
      BY <1>1, <2>1 DEF Sound
<1>3. Arg(r, 2) \in SUBSET Users
    BY <1>1, ArgIs
<1>4. PICK x \in Rows :
           /\ rows[x] = <<>>
           /\ rows' = [rows EXCEPT ![x] = <<Version(r, "converted", x, Arg(r, 2), None)>>]
    BY Zenon DEF CreateConversionPair
<1>5. PICK h \in {"done", "failed"} : Ends(r, h)
    BY Zenon DEF CreateConversionPair
<1>6. RequestsTyped' /\ req'[r] = Over(h) /\ OthersStay(r)
    BY <1>1, <1>5, RequestEnds DEF OthersStay
<1>7. PICK w : w = Version(r, "converted", x, Arg(r, 2), None)
    OBVIOUS
<1>8. w \in Saving /\ w.by = r /\ w.kind = "converted" /\ w.pending = Pending(x)
  <2>1. None \in Groups \cup {None}
      OBVIOUS
  <2> QED
      BY <1>1, <1>3, <1>7, <2>1, VersionIs
<1>9. Saves(r, x, w) /\ Len(rows[x]) = 0
  <2>1. Append(<<>>, w) = <<w>> /\ rows' = [rows EXCEPT ![x] = <<w>>]
      BY <1>4, <1>7
  <2>2. rows' = [rows EXCEPT ![x] = Append(rows[x], w)]
      BY <1>4, <2>1
  <2> QED
      BY <1>4, <1>8, <2>2 DEF Saves
<1> QED
    BY <1>1, <1>2, <1>6, <1>8, <1>9

LEMMA ConversionKeeps ==
    ASSUME BookInv, NEW r \in Requests, CreateConversionPair(r)
    PROVE  BookInv' /\ OthersStay(r) /\ Calm(req'[r].todo)
<1>1. /\ Busy(r) /\ ~ Saved(r, rows) /\ RequestsTyped' /\ OthersStay(r)
      /\ Typed /\ RequestsTyped /\ rows \in Books /\ RowsSound(rows) /\ req[r].how # "done"
    BY ConversionIs DEF BookInv, Typed, Books, RequestsTyped, Busy
<1>2. /\ hidden' = hidden /\ groups' = groups /\ inputs' = inputs
      /\ recorded' = recorded /\ delivery' = delivery
    BY DEF CreateConversionPair, noticeVars
<1>3. PICK h \in {"done", "failed"} : req'[r] = Over(h)
    BY ConversionIs
<1>4. PICK x \in Rows, w \in Saving :
           Saves(r, x, w) /\ Len(rows[x]) = 0 /\ w.kind = "converted"
    BY ConversionIs
<1>5. /\ rows' \in Books /\ Later(rows, rows') /\ NewBy(r, rows, rows') /\ NewAwait(rows, rows')
      /\ \A y \in Rows : \A v \in 1..Len(rows'[y]) :
            \/ v \in 1..Len(rows[y]) /\ rows'[y][v] = rows[y][v]
            \/ rows'[y][v] = w
  <2>1. /\ rows' \in Books
        /\ Later(rows, rows') /\ NewBy(r, rows, rows') /\ NewAwait(rows, rows')
        /\ rows'[x][Len(rows[x]) + 1] = w
        /\ \A y \in Rows : \A v \in 1..Len(rows'[y]) :
              \/ v \in 1..Len(rows[y]) /\ rows'[y][v] = rows[y][v]
              \/ y = x /\ v = Len(rows[x]) + 1
      BY <1>1, <1>4, SavesIs
  <2> QED
      BY <1>4, <2>1
<1>6. RowsSound(rows')
  <2>1. \A v \in 1..Len(rows[x]) : rows[x][v].kind # "deleted" /\ rows[x][v].by # r
      BY <1>4
  <2> QED
      BY <1>1, <1>4, <2>1, SavesSoundly
<1>7. Typed'
    BY <1>1, <1>2, <1>5, StaysTyped
<1>8. ASSUME NEW p \in Requests PROVE Sound(req'[p], p, rows') /\ Awaited(req'[p], p, rows')
  <2>1. CASE p = r
      BY <1>3, <2>1, OverSound
  <2>2. CASE p # r
    <3>1. req'[p] = req[p] /\ req[p] \in Request
        BY <1>1, <2>2 DEF OthersStay, RequestsTyped
    <3>2. Sound(req[p], p, rows) /\ Awaited(req[p], p, rows)
        BY DEF BookInv
    <3>3. Sound(req[p], p, rows')
        BY <1>1, <1>5, <2>2, <3>1, <3>2, SoundStays
    <3>4. Awaited(req[p], p, rows')
        BY <1>1, <1>5, <3>2, AwaitedStays
    <3> QED
        BY <3>1, <3>3, <3>4
  <2> QED
      BY <2>1, <2>2
<1>9. InputsSound'
  <2>1. \A y \in Rows : \A v \in 1..Len(rows'[y]) :
           v \in 1..Len(rows[y]) \/ rows'[y][v].kind # "updated"
      BY <1>4, <1>5
  <2> QED
      BY <1>2, <1>5, <2>1, InputsStay
<1>10. \A n \in recorded : n.by \in Requests \ {r} /\ req[n.by].how = "done" /\ Noticed(n, rows)
    BY <1>1 DEF BookInv, NoticesSound
<1>11. NoticesSound'
  <2>1. ASSUME NEW n \in recorded
        PROVE  n.by \in Requests /\ req'[n.by].how = "done" /\ Noticed(n, rows')
    <3>1. Noticed(n, rows')
        BY <1>1, <1>5, <1>10, NoticedStays
    <3> QED
        BY <1>1, <1>10, <3>1 DEF OthersStay
  <2> QED
      BY <1>2, <2>1 DEF NoticesSound
<1>12. ASSUME NEW y \in Rows, NEW v \in DOMAIN rows'[y], rows'[y][v].by # None,
              req'[rows'[y][v].by].how = "done"
       PROVE  {n.user : n \in {n \in recorded : n.by = rows'[y][v].by /\ n.row = y}}
                 = Hearers(rows'[y][v])
  <2>1. /\ v \in 1..Len(rows'[y]) /\ rows'[y][v] \in Saving
        /\ DOMAIN rows[y] = 1..Len(rows[y])
    <3>1. rows'[y] \in Seq(Saving) /\ rows[y] \in Seq(Saving)
        BY <1>1, <1>5 DEF Books
    <3> QED
        BY <3>1, LenProperties, ElementOfSeq
  <2>2. rows'[y][v].by \in Requests
      BY <1>12, <2>1 DEF Saving
  <2>3. CASE rows'[y][v] = w
    <3>1. Hearers(rows'[y][v]) = {} /\ rows'[y][v].by = r
        BY <1>4, <2>3 DEF Hearers, Saves
    <3>2. {n \in recorded : n.by = rows'[y][v].by /\ n.row = y} = {}
        BY <1>10, <3>1
    <3> QED
        BY <3>1, <3>2
  <2>4. CASE v \in 1..Len(rows[y]) /\ rows'[y][v] = rows[y][v]
    <3>1. rows[y][v].by # r
        BY <1>1, <2>4 DEF Saved
    <3>2. req[rows[y][v].by].how = "done" /\ rows[y][v].by # None /\ v \in DOMAIN rows[y]
        BY <1>1, <1>12, <2>1, <2>2, <2>4, <3>1 DEF OthersStay
    <3>3. {n.user : n \in {n \in recorded : n.by = rows[y][v].by /\ n.row = y}}
             = Hearers(rows[y][v])
      <4>1. NobodyIsMissed
          BY DEF BookInv
      <4> QED
          BY <3>2, <4>1 DEF NobodyIsMissed, Hearers
    <3> QED
        BY <2>4, <3>3
  <2> QED
      BY <1>5, <2>1, <2>3, <2>4
<1>13. NobodyIsMissed'
    BY <1>2, <1>12 DEF NobodyIsMissed, Hearers
<1>14. DeliveriesSound'
    BY <1>2 DEF BookInv, DeliveriesSound
<1>15. Calm(req'[r].todo)
    BY <1>3, OverFields
<1> QED
    BY <1>1, <1>6, <1>7, <1>8, <1>9, <1>11, <1>13, <1>14, <1>15 DEF BookInv

LEMMA AnsweredKeeps ==
    ASSUME BookInv, NEW r \in Requests, NEW a, Answered(r, a)
    PROVE  BookInv' /\ OthersStay(r) /\ Calm(req'[r].todo) /\ req[r] = Idle
<1>1. /\ hidden' = hidden /\ groups' = groups /\ rows' = rows /\ inputs' = inputs
      /\ recorded' = recorded /\ delivery' = delivery
      /\ req[r] = Idle /\ Ends(r, "done")
    BY DEF Answered, peopleVars
<1>2. Typed /\ RequestsTyped
    BY DEF BookInv, Typed
<1>3. RequestsTyped' /\ req'[r] = Over("done") /\ OthersStay(r)
    BY <1>1, <1>2, RequestEnds DEF OthersStay
<1>4. Typed'
  <2>1. rows' \in Books
      BY <1>1, <1>2 DEF Typed, Books
  <2> QED
      BY <1>1, <1>2, <1>3, <2>1, StaysTyped
<1>5. req[r].how = "idle"
    BY <1>1 DEF Idle
<1>6. ~ Saved(r, rows)
    BY <1>5 DEF BookInv, Sound
<1>7. Moves(r)
    BY <1>1, <1>3, <1>4, <1>5, <1>6, OverMoves
<1>8. InputsSound'
    BY <1>1, InputsAsTheyWere
<1>9. Calm(req'[r].todo)
    BY <1>3, OverFields
<1> QED
    BY <1>1, <1>3, <1>7, <1>8, <1>9, QuietKeeps

-------------------------------------------------------------------------------
(* Deliveries.                                                             *)

LEMMA DeliveryKeeps ==
    ASSUME BookInv, UNCHANGED <<peopleVars, req, inputs, recorded>>, DeliveriesSound'
    PROVE  BookInv'
<1>1. /\ hidden' = hidden /\ groups' = groups /\ rows' = rows /\ inputs' = inputs /\ req' = req
      /\ recorded' = recorded
    BY DEF peopleVars
<1>2. Typed' /\ RowsSound(rows')
    BY <1>1 DEF BookInv, Typed, RequestsTyped, Busy
<1>3. \A r \in Requests : Sound(req'[r], r, rows') /\ Awaited(req'[r], r, rows')
    BY <1>1 DEF BookInv
<1>4. InputsSound'
    BY <1>1, InputsAsTheyWere
<1>5. NoticesSound' /\ NobodyIsMissed'
    BY <1>1 DEF BookInv, NoticesSound, NobodyIsMissed
<1> QED
    BY <1>2, <1>3, <1>4, <1>5 DEF BookInv

\* What a delivery goes on with, if all of it was recorded.
LEMMA DeliversKeeps ==
    ASSUME BookInv, NEW r \in Requests, NEW todo, Delivers(r, todo),
           UNCHANGED <<peopleVars, req, inputs, recorded>>,
           \A t \in todo : \E n \in recorded : n.by = r /\ n.user = t[1] /\ t[2] \in {n.row, None}
    PROVE  BookInv'
<1>1. DeliveriesSound
    BY DEF BookInv
<1>2. PICK old : old = delivery[r]
    OBVIOUS
<1>3. old = [step |-> old.step, todo |-> old.todo, batch |-> old.batch]
    BY <1>1, <1>2 DEF DeliveriesSound
<1>4. PICK d : d = IF todo = {} THEN NoDelivery ELSE [old EXCEPT !.step = "send", !.todo = todo]
    OBVIOUS
<1>5. d = [step |-> d.step, todo |-> d.todo, batch |-> d.batch] /\ d.todo = todo
  <2>1. CASE todo = {}
      BY <1>4, <2>1 DEF NoDelivery
  <2>2. CASE todo # {}
    <3>1. d = [step |-> "send", todo |-> todo, batch |-> old.batch]
        BY <1>3, <1>4, <2>2
    <3> QED
        BY <3>1
  <2> QED
      BY <2>1, <2>2
<1>6. delivery' = [delivery EXCEPT ![r] = d]
    BY <1>2, <1>4 DEF Delivers
<1>7. recorded' = recorded
    OBVIOUS
<1>8. DeliveriesSound'
    BY <1>1, <1>5, <1>6, <1>7, DeliveryChanges
<1> QED
    BY <1>8, DeliveryKeeps

LEMMA ListKeeps ==
    ASSUME BookInv, NEW r \in Requests, ListPushSubscriptions(r)
    PROVE  BookInv'
<1> DEFINE batch == delivery[r].batch
           Ways(u) == {s[2] : s \in {s \in subscriptions : s[1] = u}}
                         \union (IF u \in OptedIn /\ ~batch THEN {"mail"} ELSE {})
           Toasts(n) == {<<n.user, IF batch THEN None ELSE n.row, way>> : way \in Ways(n.user)}
           todo == UNION {Toasts(n) : n \in Told(r)}
<1>1. Delivers(r, todo) /\ UNCHANGED <<peopleVars, req, inputs, recorded>>
    BY DEF ListPushSubscriptions
<1> HIDE DEF Ways
<1>2. \A n : \A t \in Toasts(n) : t[1] = n.user /\ t[2] \in {n.row, None}
    OBVIOUS
<1> HIDE DEF Toasts
<1>3. ASSUME NEW t \in todo
      PROVE  \E n \in recorded : n.by = r /\ n.user = t[1] /\ t[2] \in {n.row, None}
  <2>1. PICK n \in Told(r) : t \in Toasts(n)
      OBVIOUS
  <2> QED
      BY <1>2, <2>1 DEF Told
<1> HIDE DEF todo
<1> QED
    BY <1>1, <1>3, DeliversKeeps

LEMMA SendKeeps ==
    ASSUME BookInv, NEW r \in Requests, Send(r) \/ Stops(r)
    PROVE  BookInv'
<1>1. UNCHANGED <<peopleVars, req, inputs, recorded>>
    BY DEF Send, Stops
<1>2. \A t \in delivery[r].todo : \E n \in recorded : n.by = r /\ n.user = t[1] /\ t[2] \in {n.row, None}
    BY DEF BookInv, DeliveriesSound
<1>3. PICK todo : Delivers(r, todo) /\ todo \subseteq delivery[r].todo
  <2>1. CASE Send(r)
    <3>1. PICK t \in delivery[r].todo : Delivers(r, delivery[r].todo \ {t})
        BY <2>1 DEF Send
    <3> QED
        BY <3>1
  <2>2. CASE Stops(r)
      BY <2>2 DEF Stops
  <2> QED
      BY <2>1, <2>2
<1> QED
    BY <1>1, <1>2, <1>3, DeliversKeeps

-------------------------------------------------------------------------------
(* All steps.                                                              *)

\* A step that is not about people: it leaves friends and groups alone, and the
\* requests that are at them.
Quiet(r) ==
    /\ friends' = friends /\ groups' = groups /\ members' = members /\ torn' = torn
    /\ OthersStay(r)
    /\ \/ req'[r] = req[r]
       \/ /\ Calm(req'[r].todo)
          /\ req[r] = Idle
             \/ (Busy(r) /\ Head(req[r].todo)[1] \notin {"befriend back", "join"})

LEMMA DoingIs == ASSUME NEW r, NEW op, Doing(r, op) PROVE Busy(r) /\ Head(req[r].todo)[1] = op
BY DEF Doing

LEMMA NoticeStepIs ==
    ASSUME BookInv, NEW r \in Requests, NoticeStep(r)
    PROVE  BookInv' /\ Quiet(r)
<1>1. ASSUME Moves(r), Calm(req'[r].todo), InputsSound', recorded' = recorded, delivery' = delivery,
             friends' = friends, groups' = groups, members' = members, torn' = torn,
             req[r] = Idle \/ (Busy(r) /\ Head(req[r].todo)[1] \in Expenses \cup {"prune"})
      PROVE  BookInv' /\ Quiet(r)
  <2>1. OthersStay(r)
      BY <1>1 DEF Moves
  <2>2. \A op \in Expenses \cup {"prune"} : op \notin {"befriend back", "join"}
      BY DEF Expenses, Closing
  <2> QED
      BY <1>1, <2>1, <2>2, QuietKeeps DEF Quiet
<1>2. CASE Handle(r) /\ UNCHANGED noticeVars
  <2>1. req[r] = Idle /\ UNCHANGED peopleVars
      BY <1>2, Zenon DEF Handle, AddExpense, Settle, SettleAll, Convert, DeleteExpense, Edit,
                         PushTest, FromPage, Begins
  <2>2. /\ friends' = friends /\ groups' = groups /\ members' = members /\ torn' = torn
        /\ recorded' = recorded /\ delivery' = delivery
      BY <1>2, <2>1 DEF peopleVars, noticeVars
  <2> QED
      BY <1>1, <1>2, <2>1, <2>2, HandleMoves
<1>3. CASE Checks(r)
  <2>1. Doing(r, "check") \/ Doing(r, "mine")
      BY <1>3 DEF Checks
  <2>2. /\ friends' = friends /\ groups' = groups /\ members' = members /\ torn' = torn
        /\ recorded' = recorded /\ delivery' = delivery
      BY <1>3 DEF Checks, peopleVars, noticeVars
  <2>3. Busy(r) /\ Head(req[r].todo)[1] \in Expenses \cup {"prune"}
      BY <2>1, DoingIs DEF Expenses
  <2> QED
      BY <1>1, <1>3, <2>2, <2>3, ChecksMoves
<1>4. CASE Insert(r)
  <2>1. Doing(r, "add")
      BY <1>4 DEF Insert
  <2>2. /\ friends' = friends /\ groups' = groups /\ members' = members /\ torn' = torn
        /\ recorded' = recorded /\ delivery' = delivery
      BY <1>4 DEF Insert, noticeVars
  <2>3. Busy(r) /\ Head(req[r].todo)[1] \in Expenses \cup {"prune"}
      BY <2>1, DoingIs DEF Expenses
  <2> QED
      BY <1>1, <1>4, <2>2, <2>3, InsertMoves
<1>5. CASE Update(r)
  <2>1. Doing(r, "update")
      BY <1>5 DEF Update
  <2>2. /\ friends' = friends /\ groups' = groups /\ members' = members /\ torn' = torn
        /\ recorded' = recorded /\ delivery' = delivery
      BY <1>5 DEF Update
  <2>3. Busy(r) /\ Head(req[r].todo)[1] \in Expenses \cup {"prune"}
      BY <2>1, DoingIs DEF Expenses
  <2> QED
      BY <1>1, <1>5, <2>2, <2>3, UpdateMoves
<1>6. CASE RecordSplitInputs(r)
  <2>1. Doing(r, "inputs")
      BY <1>6 DEF RecordSplitInputs
  <2>2. /\ friends' = friends /\ groups' = groups /\ members' = members /\ torn' = torn
        /\ recorded' = recorded /\ delivery' = delivery
      BY <1>6 DEF RecordSplitInputs, peopleVars
  <2>3. Busy(r) /\ Head(req[r].todo)[1] \in Expenses \cup {"prune"}
      BY <2>1, DoingIs DEF Expenses
  <2> QED
      BY <1>1, <1>6, <2>2, <2>3, RecordInputsMoves
<1>7. CASE SoftDelete(r)
  <2>1. Doing(r, "delete")
      BY <1>7 DEF SoftDelete
  <2>2. /\ friends' = friends /\ groups' = groups /\ members' = members /\ torn' = torn
        /\ recorded' = recorded /\ delivery' = delivery
      BY <1>7 DEF SoftDelete, noticeVars
  <2>3. Busy(r) /\ Head(req[r].todo)[1] \in Expenses \cup {"prune"}
      BY <2>1, DoingIs DEF Expenses
  <2> QED
      BY <1>1, <1>7, <2>2, <2>3, DeleteMoves
<1>8. CASE Reads(r)
  <2>1. Doing(r, "reread") \/ Doing(r, "participants")
      BY <1>8 DEF Reads
  <2>2. /\ friends' = friends /\ groups' = groups /\ members' = members /\ torn' = torn
        /\ recorded' = recorded /\ delivery' = delivery
      BY <1>8 DEF Reads, peopleVars, noticeVars
  <2>3. Busy(r) /\ Head(req[r].todo)[1] \in Expenses \cup {"prune"}
      BY <2>1, DoingIs DEF Expenses
  <2> QED
      BY <1>1, <1>8, <2>2, <2>3, ReadsMoves
<1>9. CASE Prune(r)
  <2>1. Doing(r, "prune")
      BY <1>9 DEF Prune
  <2>2. /\ friends' = friends /\ groups' = groups /\ members' = members /\ torn' = torn
        /\ recorded' = recorded /\ delivery' = delivery
      BY <1>9 DEF Prune, peopleVars
  <2>3. Busy(r) /\ Head(req[r].todo)[1] \in Expenses \cup {"prune"}
      BY <2>1, DoingIs
  <2> QED
      BY <1>1, <1>9, <2>2, <2>3, PruneMoves
<1>10. CASE CreateNotifications(r)
  <2>1. Doing(r, "record") \/ Doing(r, "record batch")
      BY <1>10 DEF CreateNotifications
  <2>2. friends' = friends /\ groups' = groups /\ members' = members /\ torn' = torn
      BY <1>10 DEF CreateNotifications, peopleVars
  <2>3. Busy(r) /\ Head(req[r].todo)[1] \notin {"befriend back", "join"}
    <3>1. PICK op \in {"record", "record batch"} : Doing(r, op)
        BY <2>1
    <3>2. op \notin {"befriend back", "join"}
        BY <3>1
    <3> QED
        BY <3>1, <3>2, DoingIs
  <2> QED
      BY <1>10, <2>2, <2>3, CreateKeeps DEF Quiet
<1>11. ASSUME UNCHANGED <<peopleVars, req>> PROVE Quiet(r)
    BY <1>11 DEF Quiet, OthersStay, peopleVars
<1>12. CASE ListPushSubscriptions(r)
    BY <1>11, <1>12, ListKeeps DEF ListPushSubscriptions
<1>13. CASE Send(r) \/ Stops(r)
    BY <1>11, <1>13, SendKeeps DEF Send, Stops
<1>14. ASSUME NEW a \in Users, Answered(r, a)
       PROVE  BookInv' /\ Quiet(r)
  <2>1. friends' = friends /\ groups' = groups /\ members' = members /\ torn' = torn
      BY <1>14 DEF Answered, peopleVars
  <2> QED
      BY <1>14, <2>1, AnsweredKeeps DEF Quiet
<1>15. ASSUME NEW a \in Users, NEW e, PushSubscribe(r, a, e) \/ NotificationsRead(r, a)
       PROVE  BookInv' /\ Quiet(r)
    BY <1>14, <1>15 DEF PushSubscribe, NotificationsRead
<1>16. CASE CreateConversionPair(r)
  <2>1. friends' = friends /\ groups' = groups /\ members' = members /\ torn' = torn
      BY <1>16 DEF CreateConversionPair
  <2>2. Busy(r) /\ Head(req[r].todo)[1] \notin {"befriend back", "join"}
      BY <1>16, ConversionIs
  <2> QED
      BY <1>16, <2>1, <2>2, ConversionKeeps DEF Quiet
<1> QED
    BY <1>2, <1>3, <1>4, <1>5, <1>6, <1>7, <1>8, <1>9, <1>10, <1>12, <1>13, <1>15, <1>16, Zenon
       DEF NoticeStep

LEMMA PeopleKeepBooks ==
    ASSUME BookInv, NEW r \in Requests, PeopleStep(r), UNCHANGED noticeVars
    PROVE  BookInv'
<1>1. inputs' = inputs /\ recorded' = recorded /\ delivery' = delivery
    BY DEF noticeVars
<1>2. rows' = rows
    BY PeopleStepIs DEF BookInv
<1>3. Moves(r) /\ InputsSound'
    BY <1>1, <1>2, PeopleMoves, InputsAsTheyWere
<1> QED
    BY <1>1, <1>3, QuietKeeps

LEMMA PruningKeepsBooks ==
    ASSUME BookInv, DeleteNotificationsBefore PROVE BookInv'
<1>1. UNCHANGED <<peopleVars, req, inputs, recorded, delivery>>
    BY DEF DeleteNotificationsBefore
<1>2. DeliveriesSound'
    BY <1>1 DEF BookInv, DeliveriesSound
<1> QED
    BY <1>1, <1>2, DeliveryKeeps

LEMMA NextKeepsBooks == ASSUME BookInv, [Next]_vars PROVE BookInv'
<1>1. ASSUME NEW r \in Requests, PeopleStep(r), UNCHANGED noticeVars PROVE BookInv'
    BY <1>1, PeopleKeepBooks
<1>2. ASSUME NEW r \in Requests, NoticeStep(r) PROVE BookInv'
    BY <1>2, NoticeStepIs
<1>3. CASE DeleteNotificationsBefore
    BY <1>3, PruningKeepsBooks
<1>4. CASE UNCHANGED vars
  <2>1. UNCHANGED <<peopleVars, req, inputs, recorded, delivery>>
      BY <1>4 DEF vars, noticeVars
  <2>2. DeliveriesSound'
      BY <2>1 DEF BookInv, DeliveriesSound
  <2> QED
      BY <2>1, <2>2, DeliveryKeeps
<1> QED
    BY <1>1, <1>2, <1>3, <1>4, Zenon DEF Next

LEMMA InitRows ==
    ASSUME Init
    PROVE  /\ rows \in Books /\ RowsSound(rows)
           /\ \A x \in Rows : \A v \in 1..Len(rows[x]) : rows[x][v].by = None
           /\ \A x \in Rows : DOMAIN rows[x] = 1..Len(rows[x])
<1> DEFINE Old == [by : {None}, actor : Users, parts : SUBSET Users,
                   kind : {"added", "settled", "converted", "updated", "deleted"},
                   group : Groups \union {None}, pending : {{}}]
<1>1. rows \in [Rows -> Seq(Old)]
    BY DEF Init
<1>2. \A w \in Old : w \in Saving /\ w.by = None
    BY DEF Saving
<1> HIDE DEF Old
<1>3. ASSUME NEW x \in Rows
      PROVE  /\ rows[x] \in Seq(Saving) /\ DOMAIN rows[x] = 1..Len(rows[x])
             /\ \A v \in 1..Len(rows[x]) : rows[x][v].by = None
  <2>1. PICK s \in Seq(Old) : s = rows[x]
      BY <1>1
  <2>2. /\ DOMAIN s = 1..Len(s) /\ Len(s) \in Nat /\ s \in [1..Len(s) -> Old]
        /\ \A v \in 1..Len(s) : s[v] \in Old
      BY <2>1, LenProperties, ElementOfSeq
  <2>3. s \in [1..Len(s) -> Saving]
      BY <1>2, <2>2
  <2>4. s \in Seq(Saving)
      BY <2>2, <2>3
  <2> QED
      BY <1>2, <2>1, <2>2, <2>4
<1>4. rows \in Books
    BY <1>1, <1>3 DEF Books
<1>5. RowsSound(rows)
  <2>1. \A x \in Rows : \A v \in DOMAIN rows[x] : rows[x][v].kind = "deleted" => v = Len(rows[x])
      BY DEF Init
  <2> QED
      BY <1>3, <2>1 DEF RowsSound
<1> QED
    BY <1>3, <1>4, <1>5

LEMMA InitBooks == ASSUME Init PROVE BookInv
<1>1. /\ rows \in Books /\ RowsSound(rows)
      /\ \A x \in Rows : \A v \in 1..Len(rows[x]) : rows[x][v].by = None
      /\ \A x \in Rows : DOMAIN rows[x] = 1..Len(rows[x])
    BY InitRows
<1>2. \A r \in Requests : req[r] = Idle /\ r # None
    BY PeopleAssumption DEF Init
<1>3. Idle.todo = <<>> /\ Idle.how = "idle" /\ Idle.about = <<>>
    BY DEF Idle
<1>4. Typed
  <2>1. groups \in [Groups -> Group]
    <3> DEFINE Old == [exists : BOOLEAN, by : {None}, creator : Users \union {None},
                       foreign : DOMAIN Foreign \union {None}, archived : BOOLEAN,
                       simplify : BOOLEAN, rivals : {{}}]
    <3>1. groups \in [Groups -> Old]
        BY DEF Init
    <3>2. \A g \in Old : g \in Group
        BY DEF Group
    <3> HIDE DEF Old
    <3> QED
        BY <3>1, <3>2
  <2>2. hidden \in [Users -> SUBSET Users]
      BY DEF Init
  <2>3. RequestsTyped
    <3>1. Idle \in Request
      <4>1. <<>> \in Seq(Statements) /\ <<>> \in Seq(Telling)
          BY EmptySeq
      <4> QED
          BY <4>1 DEF Idle, Request
    <3>2. InList(Idle.todo)
        BY <1>3, ListEmpty
    <3>3. req \in [Requests -> Request]
        BY <3>1 DEF Init
    <3> QED
        BY <1>2, <1>3, <3>2, <3>3 DEF RequestsTyped, Busy
  <2> QED
      BY <1>1, <2>1, <2>2, <2>3 DEF Typed, Books
<1>5. ASSUME NEW r \in Requests PROVE Sound(req[r], r, rows) /\ Awaited(req[r], r, rows)
  <2>1. ~ Saved(r, rows)
      BY <1>1, <1>2 DEF Saved
  <2>2. req[r].todo = <<>> /\ \A ops : ~ Has(req[r].todo, ops)
      BY <1>2, <1>3, ListEmpty
  <2> QED
      BY <2>1, <2>2 DEF Sound, Awaited
<1>6. InputsSound
  <2>1. /\ inputs \in [Rows -> Nat]
        /\ \A x \in Rows : inputs[x] <= Len(rows[x]) /\ \A v \in inputs[x] + 1 .. Len(rows[x]) :
              inputs[x] = 0 \/ rows[x][v].kind # "updated"
      BY DEF Init
  <2> QED
      BY <2>1 DEF InputsSound, InputsDescribeRow
<1>7. NoticesSound /\ NobodyIsMissed
  <2>1. recorded = {}
      BY DEF Init
  <2> QED
      BY <1>1, <2>1 DEF NoticesSound, NobodyIsMissed
<1>8. DeliveriesSound
  <2>1. delivery = [r \in Requests |-> NoDelivery]
      BY DEF Init
  <2> QED
      BY <2>1 DEF DeliveriesSound, NoDelivery
<1> QED
    BY <1>1, <1>4, <1>5, <1>6, <1>7, <1>8 DEF BookInv

\* The books are sound in every state that can be reached.
THEOREM NoticesInvariant == Spec => []BookInv
<1>1. Init => BookInv
    BY InitBooks
<1>2. BookInv /\ [Next]_vars => BookInv'
    BY NextKeepsBooks
<1> QED
    BY <1>1, <1>2, PTL DEF Spec

\* What was typed in for a split and is shown in place of its amounts is of the
\* split that the row has, unless whoever changed it knew of a request that had
\* yet to record it: UpdateExpense drops what it replaces, for any number of
\* requests that record what was typed for splits they have saved before.
THEOREM TypedIsOfTheRow == Spec => []InputsDescribeRow
<1>1. BookInv => InputsDescribeRow
    BY DEF BookInv, InputsSound
<1> QED
    BY <1>1, NoticesInvariant, PTL

\* A request that is answered as done has told everyone it recorded a share of
\* money for, and nobody else: CreateNotifications is the last statement of
\* every list but a conversion's, which tells nobody, and its list of rows names
\* each version that was saved.
THEOREM EveryoneHears == Spec => []NobodyIsMissed
<1>1. BookInv => NobodyIsMissed
    BY DEF BookInv
<1> QED
    BY <1>1, NoticesInvariant, PTL

LEMMA BooksTellTruly == ASSUME BookInv PROVE NoticesAreTrue
<1>1. ASSUME NEW n \in recorded
      PROVE  LET versions == rows[n.row] IN
             /\ n.user \in versions[n.share].parts \ {n.actor}
             /\ IF n.kind = "deleted"
                THEN n.title = n.share /\ versions[n.share + 1].by = n.by
                ELSE /\ versions[n.share].by = n.by
                     /\ n.title # n.share => n.title > n.share /\ versions[n.share + 1].by # n.by
  <2>1. Noticed(n, rows)
      BY DEF BookInv, NoticesSound
  <2>2. n.share \in Nat
    <3>1. rows[n.row] \in Seq(Saving)
        BY <2>1 DEF Noticed, BookInv, Typed
    <3> QED
        BY <2>1, <3>1, LenProperties DEF Noticed
  <2> QED
      BY <2>1, <2>2 DEF Noticed
<1>2. \A r \in Requests : \A t \in delivery[r].todo :
          \E n \in recorded : n.by = r /\ n.user = t[1] /\ t[2] \in {n.row, None}
    BY DEF BookInv, DeliveriesSound
<1> QED
    BY <1>1, <1>2 DEF NoticesAreTrue

\* A notification names the people and the amounts of the version its request
\* saved or deleted, although it is put together from rows that are read again
\* after the commit; and nothing is sent that was not recorded.
THEOREM NoticesTellTruly == Spec => []NoticesAreTrue
<1>1. BookInv => NoticesAreTrue
    BY BooksTellTruly
<1> QED
    BY <1>1, NoticesInvariant, PTL

-------------------------------------------------------------------------------
(* Friends.                                                                *)

\* r has put in one half of a friendship, and comes to the other.
Half(r, a, b) == Doing(r, "befriend back") /\ <<Arg(r, 2), Arg(r, 3)>> = <<a, b>>

FriendsInv ==
    /\ FriendshipIsMutual
    /\ \A r \in Requests : \A a, b \in Users :
          Half(r, a, b) => AreFriends(a, b) \/ {a, b} \in torn

LEMMA HalfStays ==
    ASSUME NEW r, OthersStay(r), NEW p \in Requests \ {r}, NEW a, NEW b
    PROVE  Half(p, a, b)' <=> Half(p, a, b)
<1>1. req'[p] = req[p]
    BY DEF OthersStay
<1> QED
    BY <1>1 DEF Half, Doing, Busy, Arg

LEMMA NoHalf ==
    ASSUME NEW r, NEW a, NEW b
    PROVE  /\ Calm(req'[r].todo) => ~ Half(r, a, b)'
           /\ ~ Busy(r) => ~ Half(r, a, b)
           /\ Head(req[r].todo)[1] # "befriend back" => ~ Half(r, a, b)
           /\ req'[r].todo # <<>> /\ Head(req'[r].todo)[1] # "befriend back" => ~ Half(r, a, b)'
BY DEF Half, Doing, Busy, Calm

LEMMA HalvesStay ==
    ASSUME FriendsInv, friends' = friends, torn' = torn,
           \A p \in Requests : \A a, b \in Users : Half(p, a, b)' <=> Half(p, a, b)
    PROVE  FriendsInv'
<1>1. FriendshipIsMutual'
  <2> SUFFICES ASSUME NEW a \in Users, NEW b \in Users, AreFriends(a, b), ~ AreFriends(b, a)
               PROVE  {a, b} \in torn \/ \E p \in Requests : Half(p, a, b)'
      BY DEF FriendshipIsMutual, Half, AreFriends
  <2>1. {a, b} \in torn \/ \E p \in Requests : Half(p, a, b)
      BY DEF FriendsInv, FriendshipIsMutual, Half
  <2> QED
      BY <2>1
<1>2. ASSUME NEW p \in Requests, NEW a \in Users, NEW b \in Users, Half(p, a, b)'
      PROVE  AreFriends(a, b)' \/ {a, b} \in torn'
    BY <1>2 DEF FriendsInv, AreFriends
<1> QED
    BY <1>1, <1>2 DEF FriendsInv

LEMMA FriendsStay ==
    ASSUME FriendsInv, NEW r \in Requests, OthersStay(r), friends' = friends, torn' = torn,
           req'[r] = req[r] \/ \A a, b \in Users : ~ Half(r, a, b) /\ ~ Half(r, a, b)'
    PROVE  FriendsInv'
<1>1. ASSUME NEW p \in Requests, NEW a \in Users, NEW b \in Users
      PROVE  Half(p, a, b)' <=> Half(p, a, b)
  <2>1. CASE p # r
      BY <2>1, HalfStays
  <2>2. CASE p = r /\ req'[r] = req[r]
      BY <2>2 DEF Half, Doing, Busy, Arg
  <2>3. CASE p = r /\ ~ Half(r, a, b) /\ ~ Half(r, a, b)'
      BY <2>3
  <2> QED
      BY <2>1, <2>2, <2>3
<1> QED
    BY <1>1, HalvesStay

\* The first half: r now owes the second.
LEMMA InsertFriendKeeps ==
    ASSUME Typed, FriendsInv, NEW r \in Requests, InsertFriend(r) PROVE FriendsInv'
<1>1. PICK a, b, strict : a = Arg(r, 2) /\ b = Arg(r, 3) /\ strict = Arg(r, 4)
    OBVIOUS
<1>2. /\ OthersStay(r) /\ Doing(r, "befriend")
      /\ req'[r].todo # <<>> /\ Head(req'[r].todo) = <<"befriend back", a, b, strict>>
      /\ a \in Users /\ b \in Users
      /\ friends' = friends \union {<<a, b>>} /\ torn' = torn
    BY <1>1, InsertFriendIs DEF InsertFriend
<1>3. \A c, d : ~ Half(r, c, d)
    BY <1>2 DEF Half, Doing
<1>4. \A c, d : Half(r, c, d)' <=> <<a, b>> = <<c, d>>
  <2>1. PICK s, op : s = Head(req'[r].todo) /\ op = "befriend back"
      OBVIOUS
  <2>2. s = <<op, a, b, strict>>
      BY <1>2, <2>1
  <2>3. s[1] = op /\ s[2] = a /\ s[3] = b
      BY <2>2
  <2>4. req'[r].todo # <<>>
      BY <1>2
  <2> QED
      BY <2>1, <2>3, <2>4 DEF Half, Doing, Busy, Arg
<1>5. FriendshipIsMutual'
  <2> SUFFICES ASSUME NEW c \in Users, NEW d \in Users, <<c, d>> \in friends', <<d, c>> \notin friends'
               PROVE  {c, d} \in torn' \/ \E p \in Requests : Half(p, c, d)'
      BY DEF FriendshipIsMutual, Half, AreFriends
  <2>1. CASE c = a /\ d = b
      BY <1>4, <2>1
  <2>2. CASE ~ (c = a /\ d = b)
    <3>1. AreFriends(c, d) /\ ~ AreFriends(d, c)
        BY <1>2, <2>2 DEF AreFriends
    <3>2. {c, d} \in torn \/ \E p \in Requests : Half(p, c, d)
        BY <3>1 DEF FriendsInv, FriendshipIsMutual, Half
    <3>3. CASE {c, d} \in torn
        BY <1>2, <3>3
    <3>4. ASSUME NEW p \in Requests, Half(p, c, d) PROVE Half(p, c, d)'
      <4>1. p \in Requests \ {r}
          BY <1>3, <3>4
      <4> QED
          BY <1>2, <3>4, <4>1, HalfStays
    <3> QED
        BY <3>2, <3>3, <3>4
  <2> QED
      BY <2>1, <2>2
<1>6. ASSUME NEW p \in Requests, NEW c \in Users, NEW d \in Users, Half(p, c, d)'
      PROVE  AreFriends(c, d)' \/ {c, d} \in torn'
  <2>1. CASE p = r
      BY <1>2, <1>4, <1>6, <2>1 DEF AreFriends
  <2>2. CASE p # r
    <3>1. Half(p, c, d)
      <4>1. p \in Requests \ {r}
          BY <2>2
      <4> QED
          BY <1>2, <1>6, <4>1, HalfStays
    <3>2. AreFriends(c, d) \/ {c, d} \in torn
        BY <3>1 DEF FriendsInv
    <3> QED
        BY <1>2, <3>2 DEF AreFriends
  <2> QED
      BY <2>1, <2>2
<1> QED
    BY <1>5, <1>6 DEF FriendsInv

\* The second: the friendship is whole, or was cut while r was at it.
LEMMA InsertFriendBackKeeps ==
    ASSUME Typed, FriendsInv, NEW r \in Requests, InsertFriendBack(r),
           OthersStay(r), Calm(req'[r].todo)
    PROVE  FriendsInv'
<1>1. PICK a, b : a = Arg(r, 2) /\ b = Arg(r, 3)
    OBVIOUS
<1>2. /\ a \in Users /\ b \in Users
      /\ Half(r, a, b) /\ friends' = friends \union {<<b, a>>}
      /\ torn' = IF AreFriends(a, b) THEN torn \ {{a, b}} ELSE torn
    BY <1>1, ArgIs DEF InsertFriendBack, Half
<1>3. \A c, d : Half(r, c, d) => c = a /\ d = b
    BY <1>1 DEF Half
<1>4. \A c, d : ~ Half(r, c, d)'
    BY NoHalf
<1>5. AreFriends(a, b) \/ {a, b} \in torn
    BY <1>2 DEF FriendsInv
<1>6. \A c, d : {c, d} = {a, b} => (c = a /\ d = b) \/ (c = b /\ d = a)
    OBVIOUS
<1>7. FriendshipIsMutual'
  <2> SUFFICES ASSUME NEW c \in Users, NEW d \in Users, <<c, d>> \in friends', <<d, c>> \notin friends'
               PROVE  {c, d} \in torn' \/ \E p \in Requests : Half(p, c, d)'
      BY DEF FriendshipIsMutual, Half, AreFriends
  <2>1. CASE c = b /\ d = a
    <3>1. ~ AreFriends(a, b) /\ {c, d} = {a, b}
        BY <1>2, <2>1 DEF AreFriends
    <3> QED
        BY <1>2, <1>5, <3>1
  <2>2. CASE ~ (c = b /\ d = a)
    <3>1. ~ (c = a /\ d = b)
        BY <1>2
    <3>2. {c, d} # {a, b}
        BY <1>6, <2>2, <3>1
    <3>3. AreFriends(c, d) /\ ~ AreFriends(d, c)
        BY <1>2, <2>2 DEF AreFriends
    <3>4. {c, d} \in torn \/ \E p \in Requests : Half(p, c, d)
        BY <3>3 DEF FriendsInv, FriendshipIsMutual, Half
    <3>5. CASE {c, d} \in torn
        BY <1>2, <3>2, <3>5
    <3>6. ASSUME NEW p \in Requests, Half(p, c, d) PROVE Half(p, c, d)'
      <4>1. p \in Requests \ {r}
          BY <1>3, <3>1, <3>6
      <4> QED
          BY <3>6, <4>1, HalfStays
    <3> QED
        BY <3>4, <3>5, <3>6
  <2> QED
      BY <2>1, <2>2
<1>8. ASSUME NEW p \in Requests, NEW c \in Users, NEW d \in Users, Half(p, c, d)'
      PROVE  AreFriends(c, d)' \/ {c, d} \in torn'
  <2>1. p \in Requests \ {r}
      BY <1>4, <1>8
  <2>2. Half(p, c, d)
      BY <1>8, <2>1, HalfStays
  <2>3. AreFriends(c, d) \/ {c, d} \in torn
      BY <2>2 DEF FriendsInv
  <2>4. CASE {c, d} = {a, b} /\ AreFriends(a, b)
    <3>1. (c = a /\ d = b) \/ (c = b /\ d = a)
        BY <1>6, <2>4
    <3> QED
        BY <1>2, <2>4, <3>1 DEF AreFriends
  <2>5. CASE ~ ({c, d} = {a, b} /\ AreFriends(a, b))
      BY <1>2, <2>3, <2>5 DEF AreFriends
  <2> QED
      BY <2>4, <2>5
<1> QED
    BY <1>7, <1>8 DEF FriendsInv

\* Both halves go; a request that is between its two is left with one.
LEMMA RemoveFriendKeeps ==
    ASSUME FriendsInv, NEW r \in Requests, NEW a \in Users, NEW b \in Users, RemoveFriend(r, a, b),
           OthersStay(r), Calm(req'[r].todo)
    PROVE  FriendsInv'
<1>1. friends' = friends \ {<<a, b>>, <<b, a>>}
    BY DEF RemoveFriend, Both
<1>2. torn' = IF \E q \in Requests : Doing(q, "befriend back") /\ {Arg(q, 2), Arg(q, 3)} = {a, b}
              THEN torn \union {{a, b}} ELSE torn \ {{a, b}}
    BY DEF RemoveFriend
<1>3. \A c, d : ~ Half(r, c, d) /\ ~ Half(r, c, d)'
  <2>1. req[r] = Idle /\ Idle.todo = <<>>
      BY DEF RemoveFriend, Idle
  <2>2. ~ Busy(r)
      BY <2>1 DEF Busy
  <2> QED
      BY <2>2, NoHalf
<1>4. \A c, d : {c, d} = {a, b} => (c = a /\ d = b) \/ (c = b /\ d = a)
    OBVIOUS
<1>5. \A p \in Requests : \A c, d : Half(p, c, d)' <=> Half(p, c, d)
    BY <1>3, HalfStays
<1>6. \A c, d : {c, d} # {a, b} => ({c, d} \in torn' <=> {c, d} \in torn)
    BY <1>2
<1>7. FriendshipIsMutual'
  <2> SUFFICES ASSUME NEW c \in Users, NEW d \in Users, <<c, d>> \in friends', <<d, c>> \notin friends'
               PROVE  {c, d} \in torn' \/ \E p \in Requests : Half(p, c, d)'
      BY DEF FriendshipIsMutual, Half, AreFriends
  <2>1. {c, d} # {a, b}
      BY <1>1, <1>4
  <2>2. AreFriends(c, d) /\ ~ AreFriends(d, c)
    <3>1. <<d, c>> # <<a, b>> /\ <<d, c>> # <<b, a>>
        BY <1>1
    <3> QED
        BY <1>1, <3>1 DEF AreFriends
  <2>3. {c, d} \in torn \/ \E p \in Requests : Half(p, c, d)
      BY <2>2 DEF FriendsInv, FriendshipIsMutual, Half
  <2> QED
      BY <1>5, <1>6, <2>1, <2>3
<1>8. ASSUME NEW p \in Requests, NEW c \in Users, NEW d \in Users, Half(p, c, d)'
      PROVE  AreFriends(c, d)' \/ {c, d} \in torn'
  <2>1. Half(p, c, d)
      BY <1>5, <1>8
  <2>2. CASE {c, d} = {a, b}
    <3>1. Doing(p, "befriend back") /\ {Arg(p, 2), Arg(p, 3)} = {a, b}
        BY <2>1, <2>2 DEF Half
    <3> QED
        BY <1>2, <2>2, <3>1
  <2>3. CASE {c, d} # {a, b}
    <3>1. AreFriends(c, d) \/ {c, d} \in torn
        BY <2>1 DEF FriendsInv
    <3>2. <<c, d>> # <<a, b>> /\ <<c, d>> # <<b, a>>
        BY <2>3
    <3> QED
        BY <1>1, <1>6, <2>3, <3>1, <3>2 DEF AreFriends
  <2> QED
      BY <2>2, <2>3
<1> QED
    BY <1>7, <1>8 DEF FriendsInv

LEMMA FailsKeeps ==
    ASSUME FriendsInv, NEW r \in Requests, Fails(r), OthersStay(r), Calm(req'[r].todo)
    PROVE  FriendsInv'
<1>1. friends' = friends
    BY DEF Fails
<1>2. torn \subseteq torn' /\ \A c, d : Half(r, c, d) => {c, d} \in torn'
    BY DEF Fails, Half
<1>3. \A c, d : ~ Half(r, c, d)'
    BY NoHalf
<1>4. FriendshipIsMutual'
  <2> SUFFICES ASSUME NEW c \in Users, NEW d \in Users, <<c, d>> \in friends', <<d, c>> \notin friends'
               PROVE  {c, d} \in torn' \/ \E p \in Requests : Half(p, c, d)'
      BY DEF FriendshipIsMutual, Half, AreFriends
  <2>1. {c, d} \in torn \/ \E p \in Requests : Half(p, c, d)
      BY <1>1 DEF FriendsInv, FriendshipIsMutual, Half, AreFriends
  <2>2. ASSUME NEW p \in Requests, Half(p, c, d) PROVE {c, d} \in torn' \/ Half(p, c, d)'
      BY <1>2, <2>2, HalfStays
  <2> QED
      BY <1>2, <2>1, <2>2
<1>5. ASSUME NEW p \in Requests, NEW c \in Users, NEW d \in Users, Half(p, c, d)'
      PROVE  AreFriends(c, d)' \/ {c, d} \in torn'
  <2>1. p \in Requests \ {r}
      BY <1>3, <1>5
  <2>2. Half(p, c, d)
      BY <1>5, <2>1, HalfStays
  <2>3. AreFriends(c, d) \/ {c, d} \in torn
      BY <2>2 DEF FriendsInv
  <2> QED
      BY <1>1, <1>2, <2>3 DEF AreFriends
<1> QED
    BY <1>4, <1>5 DEF FriendsInv

LEMMA QuietKeepsFriends == ASSUME FriendsInv, NEW r \in Requests, Quiet(r) PROVE FriendsInv'
<1>1. OthersStay(r) /\ friends' = friends /\ torn' = torn
    BY DEF Quiet
<1>2. CASE req'[r] = req[r]
    BY <1>1, <1>2, FriendsStay
<1>3. CASE req'[r] # req[r]
  <2>1. Calm(req'[r].todo) /\ (req[r] = Idle \/ Head(req[r].todo)[1] \notin {"befriend back", "join"})
      BY <1>3 DEF Quiet
  <2>2. req[r] = Idle => ~ Busy(r)
    <3>1. Idle.todo = <<>>
        BY DEF Idle
    <3> QED
        BY <3>1 DEF Busy
  <2>3. Head(req[r].todo)[1] # "befriend back" \/ ~ Busy(r)
      BY <2>1, <2>2
  <2> QED
      BY <1>1, <2>1, <2>3, NoHalf, FriendsStay
<1> QED
    BY <1>2, <1>3

LEMMA CalmEffectIs ==
    ASSUME Typed, NEW r \in Requests, CalmEffect(r)
    PROVE  OthersStay(r) /\ Calm(req'[r].todo)
<1>1. ASSUME NEW a \in Users, NEW q \in Seq(Personal), req'[r] = Begun(a, 0, q)
      PROVE  Calm(req'[r].todo)
  <2>1. req'[r].todo = q
      BY <1>1 DEF Begun
  <2> QED
      BY <2>1, PersonalCalm
<1>2. ASSUME NEW h, req'[r] = Over(h) PROVE Calm(req'[r].todo)
    BY <1>2, OverFields
<1>3. ASSUME NEW q, Goes(r, q), Calm(q) PROVE Calm(req'[r].todo)
  <2>1. req'[r] = After(r, q)
      BY <1>3 DEF Goes
  <2>2. CASE q = <<>>
      BY <1>2, <2>1, <2>2 DEF After
  <2>3. CASE q # <<>>
    <3>1. req'[r] = [req[r] EXCEPT !.todo = q]
        BY <2>1, <2>3 DEF After
    <3>2. req'[r].todo = q
        BY <3>1, RequestIs DEF Typed, Request
    <3> QED
        BY <1>3, <3>2
  <2> QED
      BY <2>2, <2>3
<1> QED
    BY <1>1, <1>2, <1>3 DEF CalmEffect

\* The steps that make or mend friendships and groups, and the others.
LEMMA PeopleKinds ==
    ASSUME Typed, NEW r \in Requests, PeopleStep(r)
    PROVE  \/ InsertFriend(r) \/ InsertFriendBack(r) \/ Fails(r)
           \/ \E a, b \in Users : RemoveFriend(r, a, b)
           \/ InsertMember(r) \/ SetGroupFlag(r) \/ FindGroup(r) \/ InsertGroup(r)
           \/ Quiet(r)
<1>0. ASSUME CalmEffect(r), friends' = friends, groups' = groups, members' = members, torn' = torn,
             \/ req[r] = Idle
             \/ Busy(r) /\ Head(req[r].todo)[1] \notin {"befriend back", "join"}
      PROVE  Quiet(r)
    BY <1>0, CalmEffectIs DEF Quiet
<1>1. ASSUME CalmEffect(r), UNCHANGED peopleVars, req[r] = Idle PROVE Quiet(r)
    BY <1>0, <1>1 DEF peopleVars
<1>2. ASSUME NEW a \in Users, NEW b \in Users, AddFriendByEmail(r, a, b) \/ ToggleHiddenFriend(r, a, b)
      PROVE  Quiet(r)
  <2>1. req[r] = Idle
      BY <1>2, Zenon DEF AddFriendByEmail, ToggleHiddenFriend, Begins
  <2> QED
      BY <1>1, <1>2, <2>1, HandlersOfFriends
<1>3. ASSUME NEW a \in Users, CreateGroup(r, a) \/ ImportFromSplitwise(r, a)
      PROVE  Quiet(r)
  <2>1. req[r] = Idle
      BY <1>3, Zenon DEF CreateGroup, ImportFromSplitwise, Begins
  <2> QED
      BY <1>1, <1>3, <2>1, HandlersAlone
<1>4. ASSUME NEW a \in Users, NEW b \in Users, NEW g \in Groups,
             InviteToGroup(r, a, g, b) \/ AddFriendToGroup(r, a, g, b)
      PROVE  Quiet(r)
  <2>1. req[r] = Idle
      BY <1>4, Zenon DEF InviteToGroup, AddFriendToGroup, Begins
  <2> QED
      BY <1>1, <1>4, <2>1, HandlersOfGroups
<1>5. ASSUME NEW a \in Users, NEW g \in Groups, GroupArchive(r, a, g) \/ GroupSimplify(r, a, g)
      PROVE  Quiet(r)
  <2>1. req[r] = Idle
      BY <1>5, Zenon DEF GroupArchive, GroupSimplify, Begins
  <2> QED
      BY <1>1, <1>5, <2>1, HandlersOfGroups
<1>6. CASE FindUser(r)
  <2>1. Doing(r, "find") /\ UNCHANGED peopleVars
      BY <1>6 DEF FindUser
  <2>2. Busy(r) /\ Head(req[r].todo)[1] \notin {"befriend back", "join"}
      BY <2>1 DEF Doing
  <2> QED
      BY <1>0, <1>6, <2>1, <2>2, FindUserCalm DEF peopleVars
<1>7. CASE CreateUser(r)
  <2>1. Doing(r, "create") /\ UNCHANGED <<hidden, friends, groups, members, rows, torn>>
      BY <1>7 DEF CreateUser
  <2>2. Busy(r) /\ Head(req[r].todo)[1] \notin {"befriend back", "join"}
      BY <2>1 DEF Doing
  <2> QED
      BY <1>0, <1>7, <2>1, <2>2, CreateUserCalm
<1>8. CASE SetHiddenFriends(r)
  <2>1. Doing(r, "hide") /\ UNCHANGED <<accounts, friends, groups, members, rows, torn>>
      BY <1>8 DEF SetHiddenFriends
  <2>2. Busy(r) /\ Head(req[r].todo)[1] \notin {"befriend back", "join"}
      BY <2>1 DEF Doing
  <2> QED
      BY <1>0, <1>8, <2>1, <2>2, SimpleCalm
<1>9. CASE CheckFriends(r)
  <2>1. Doing(r, "are friends") /\ UNCHANGED peopleVars
      BY <1>9 DEF CheckFriends
  <2>2. Busy(r) /\ Head(req[r].todo)[1] \notin {"befriend back", "join"}
      BY <2>1 DEF Doing
  <2> QED
      BY <1>0, <1>9, <2>1, <2>2, CheckFriendsCalm DEF peopleVars
<1> QED
    BY <1>2, <1>3, <1>4, <1>5, <1>6, <1>7, <1>8, <1>9, Zenon DEF PeopleStep

LEMMA PeopleKeepFriends ==
    ASSUME Typed, FriendsInv, NEW r \in Requests, PeopleStep(r) PROVE FriendsInv'
<1>1. CASE InsertFriend(r)
    BY <1>1, InsertFriendKeeps
<1>2. CASE InsertFriendBack(r)
    BY <1>2, SimpleCalm, CalmEffectIs, InsertFriendBackKeeps
<1>3. CASE Fails(r)
    BY <1>3, FailsCalm, CalmEffectIs, FailsKeeps
<1>4. ASSUME NEW a \in Users, NEW b \in Users, RemoveFriend(r, a, b) PROVE FriendsInv'
    BY <1>4, RemoveFriendCalm, CalmEffectIs, RemoveFriendKeeps
<1>5. ASSUME OthersStay(r), friends' = friends, torn' = torn,
             Head(req[r].todo)[1] # "befriend back", \A a, b : ~ Half(r, a, b)'
      PROVE  FriendsInv'
    BY <1>5, NoHalf, FriendsStay
<1>6. CASE InsertMember(r) \/ SetGroupFlag(r)
  <2>1. friends' = friends /\ torn' = torn
      BY <1>6 DEF InsertMember, SetGroupFlag
  <2>2. Doing(r, "join") \/ Doing(r, "archive") \/ Doing(r, "simplify")
      BY <1>6 DEF InsertMember, SetGroupFlag
  <2>3. Head(req[r].todo)[1] # "befriend back"
      BY <2>2 DEF Doing
  <2> QED
      BY <1>5, <1>6, <2>1, <2>3, SimpleCalm, CalmEffectIs, NoHalf
<1>7. CASE InsertGroup(r)
  <2>1. friends' = friends /\ torn' = torn /\ Doing(r, "insert group")
      BY <1>7 DEF InsertGroup
  <2>2. Head(req[r].todo)[1] # "befriend back"
      BY <2>1 DEF Doing
  <2> QED
      BY <1>5, <1>7, <2>1, <2>2, InsertGroupIs, CalmEffectIs, NoHalf
<1>8. CASE FindGroup(r)
  <2>1. friends' = friends /\ torn' = torn /\ Doing(r, "find group")
      BY <1>8 DEF FindGroup, peopleVars
  <2>2. Head(req[r].todo)[1] # "befriend back"
      BY <2>1 DEF Doing
  <2>3. OthersStay(r) /\ \A a, b : ~ Half(r, a, b)'
    <3>1. CASE CalmEffect(r)
        BY <3>1, CalmEffectIs, NoHalf
    <3>2. CASE req'[r].todo # <<>> /\ Head(req'[r].todo) = <<"insert group", Arg(r, 2)>>
      <4>1. Head(req'[r].todo)[1] # "befriend back"
        <5>1. PICK t, op : t = Head(req'[r].todo) /\ op = "insert group"
            OBVIOUS
        <5>2. t = <<op, Arg(r, 2)>>
            BY <3>2, <5>1
        <5>3. t[1] = op
            BY <5>2
        <5> QED
            BY <5>1, <5>3
      <4> QED
          BY <1>8, <3>2, <4>1, FindGroupIs, NoHalf
    <3> QED
        BY <1>8, <3>1, <3>2, FindGroupIs
  <2> QED
      BY <1>5, <2>1, <2>2, <2>3
<1>9. CASE Quiet(r)
    BY <1>9, QuietKeepsFriends
<1> QED
    BY <1>1, <1>2, <1>3, <1>4, <1>6, <1>7, <1>8, <1>9, PeopleKinds

LEMMA NextKeepsFriends == ASSUME BookInv, FriendsInv, [Next]_vars PROVE FriendsInv'
<1>1. ASSUME NEW r \in Requests, PeopleStep(r) PROVE FriendsInv'
    BY <1>1, PeopleKeepFriends DEF BookInv
<1>2. ASSUME NEW r \in Requests, NoticeStep(r) PROVE FriendsInv'
    BY <1>2, NoticeStepIs, QuietKeepsFriends
<1>3. ASSUME req' = req, friends' = friends, torn' = torn PROVE FriendsInv'
  <2>1. \A p, a, b : Half(p, a, b)' <=> Half(p, a, b)
      BY <1>3 DEF Half, Doing, Busy, Arg
  <2> QED
      BY <1>3, <2>1, HalvesStay
<1>4. CASE DeleteNotificationsBefore \/ UNCHANGED vars
    BY <1>3, <1>4 DEF DeleteNotificationsBefore, vars, peopleVars
<1> QED
    BY <1>1, <1>2, <1>4, Zenon DEF Next

LEMMA InitFriends == ASSUME Init PROVE FriendsInv
<1>1. \A a, b \in Users : AreFriends(a, b) /\ ~AreFriends(b, a) => {a, b} \in torn
    BY DEF Init
<1>2. \A r \in Requests : \A a, b : ~ Half(r, a, b)
  <2>1. \A r \in Requests : req[r] = Idle
      BY DEF Init
  <2>2. Idle.todo = <<>>
      BY DEF Idle
  <2> QED
      BY <2>1, <2>2 DEF Half, Doing, Busy
<1> QED
    BY <1>1, <1>2 DEF FriendsInv, FriendshipIsMutual

\* Whoever has someone as a friend is that person's friend, but for the
\* friendships that a request is at or that a failure or a removal has cut in
\* two, however many requests add and remove the same friend (friends.go:17).
THEOREM FriendshipsHold == Spec => []FriendshipIsMutual
<1>1. Init => FriendsInv
    BY InitFriends
<1>2. BookInv /\ FriendsInv /\ [Next]_vars => FriendsInv'
    BY NextKeepsFriends
<1>3. FriendsInv => FriendshipIsMutual
    BY DEF FriendsInv
<1> QED
    BY <1>1, <1>2, <1>3, NoticesInvariant, PTL DEF Spec

-------------------------------------------------------------------------------
(* Groups.                                                                 *)

\* r has not found the group s of Splitwise, and comes to make it.
Making(r, s) == Doing(r, "insert group") /\ Arg(r, 2) = s

Joins(r, g, a) == Busy(r) /\ Head(req[r].todo) = <<"join", g, a, TRUE>>

FoundersJoin ==
    \A g \in Groups : groups[g].by # None =>
        \/ IsGroupMember(g, groups[g].creator)
        \/ req[groups[g].by].how = "failed"
        \/ req[groups[g].by].how = "busy" /\ Joins(groups[g].by, g, groups[g].creator)

RivalsKnown ==
    /\ \A g \in Groups, h \in Groups : g # h /\ groups[g].by # None /\ groups[h].by # None
                                         /\ groups[g].foreign = groups[h].foreign =>
          \/ groups[g].foreign = None
          \/ groups[g].by \in groups[h].rivals \/ groups[h].by \in groups[g].rivals
    /\ \A r \in Requests, s \in DOMAIN Foreign, h \in Groups :
          Making(r, s) /\ groups[h].by # None /\ groups[h].foreign = s => r \in groups[h].rivals

GroupsInv == FoundersJoin /\ RivalsKnown

GroupsStay ==
    \A g \in Groups : /\ groups'[g].by = groups[g].by /\ groups'[g].creator = groups[g].creator
                      /\ groups'[g].foreign = groups[g].foreign
                      /\ groups'[g].rivals = groups[g].rivals

LEMMA JoinIs ==
    ASSUME Typed, NEW r, NEW g, NEW a, Joins(r, g, a)
    PROVE  Doing(r, "join") /\ Arg(r, 2) = g /\ Arg(r, 3) = a /\ Arg(r, 4) = TRUE
<1>1. PICK s, op, yes : s = Head(req[r].todo) /\ op = "join" /\ yes = TRUE
    OBVIOUS
<1>2. s = <<op, g, a, yes>>
    BY <1>1 DEF Joins
<1>3. s[1] = op /\ s[2] = g /\ s[3] = a /\ s[4] = yes
    BY <1>2
<1> QED
    BY <1>1, <1>3 DEF Joins, Doing, Arg

\* A request at anything but the joining owes no group its creator, and neither
\* does one that has not begun.
LEMMA NothingOwed ==
    ASSUME Typed, FoundersJoin, NEW r \in Requests,
           req[r] = Idle \/ (Busy(r) /\ Head(req[r].todo)[1] # "join"),
           NEW g \in Groups, groups[g].by = r
    PROVE  IsGroupMember(g, groups[g].creator)
<1>1. r # None
    BY PeopleAssumption
<1>2. req[r].how # "failed"
  <2>1. CASE req[r] = Idle
      BY <2>1 DEF Idle
  <2>2. CASE Busy(r)
      BY <2>2 DEF Typed, RequestsTyped
  <2> QED
      BY <2>1, <2>2
<1>3. ~ Joins(r, g, groups[g].creator)
  <2>1. CASE req[r] = Idle
    <3>1. Idle.todo = <<>>
        BY DEF Idle
    <3> QED
        BY <2>1, <3>1 DEF Joins, Busy
  <2>2. CASE Busy(r) /\ Head(req[r].todo)[1] # "join"
      BY <2>2, JoinIs DEF Doing
  <2> QED
      BY <2>1, <2>2
<1> QED
    BY <1>1, <1>2, <1>3 DEF FoundersJoin

LEMMA FoundersStay ==
    ASSUME Typed, FoundersJoin, NEW r \in Requests, OthersStay(r), GroupsStay, members \subseteq members',
           \/ req'[r] = req[r]
           \/ \A g \in Groups : groups[g].by = r =>
                 <<g, groups[g].creator>> \in members' \/ req'[r].how = "failed"
    PROVE  FoundersJoin'
<1> SUFFICES ASSUME NEW g \in Groups, groups[g].by # None
             PROVE  \/ <<g, groups[g].creator>> \in members'
                    \/ req'[groups[g].by].how = "failed"
                    \/ /\ req'[groups[g].by].how = "busy"
                       /\ req'[groups[g].by].todo # <<>>
                       /\ Head(req'[groups[g].by].todo) = <<"join", g, groups[g].creator, TRUE>>
    BY DEF FoundersJoin, GroupsStay, IsGroupMember, Joins, Busy
<1>1. PICK p : p = groups[g].by
    OBVIOUS
<1>2. p \in Requests
  <2>1. groups[g] \in Group
      BY DEF Typed
  <2> QED
      BY <1>1, <2>1 DEF Group
<1>3. \/ <<g, groups[g].creator>> \in members
      \/ req[p].how = "failed"
      \/ /\ req[p].how = "busy" /\ req[p].todo # <<>>
         /\ Head(req[p].todo) = <<"join", g, groups[g].creator, TRUE>>
    BY <1>1 DEF FoundersJoin, IsGroupMember, Joins, Busy
<1>4. CASE req'[p] = req[p]
    BY <1>1, <1>3, <1>4
<1>5. CASE req'[p] # req[p]
    BY <1>1, <1>2, <1>5 DEF OthersStay
<1> QED
    BY <1>4, <1>5

LEMMA RivalsStay ==
    ASSUME RivalsKnown, NEW r \in Requests, OthersStay(r), GroupsStay,
           \A s \in DOMAIN Foreign :
               Making(r, s)' => Making(r, s) \/ \A h \in Groups : groups[h].foreign # s
    PROVE  RivalsKnown'
<1>1. ASSUME NEW p \in Requests, NEW s \in DOMAIN Foreign, NEW h \in Groups,
             Making(p, s)', groups[h].by # None, groups[h].foreign = s
      PROVE  p \in groups[h].rivals
  <2>1. Making(p, s)
    <3>1. CASE p = r
        BY <1>1, <3>1
    <3>2. CASE p # r
      <4>1. req'[p] = req[p]
          BY <3>2 DEF OthersStay
      <4> QED
          BY <1>1, <4>1 DEF Making, Doing, Busy, Arg
    <3> QED
        BY <3>1, <3>2
  <2> QED
      BY <1>1, <2>1 DEF RivalsKnown
<1>2. ASSUME NEW g \in Groups, NEW h \in Groups, g # h, groups[g].by # None, groups[h].by # None,
             groups[g].foreign = groups[h].foreign
      PROVE  \/ groups[g].foreign = None
             \/ groups[g].by \in groups[h].rivals \/ groups[h].by \in groups[g].rivals
    BY <1>2 DEF RivalsKnown
<1> QED
    BY <1>1, <1>2 DEF RivalsKnown, GroupsStay

LEMMA NotMaking ==
    ASSUME NEW r, NEW s \in DOMAIN Foreign, Calm(req'[r].todo)
    PROVE  ~ Making(r, s)'
BY PeopleAssumption DEF Calm, Making, Doing, Busy, Arg

LEMMA QuietKeepsGroups == ASSUME Typed, GroupsInv, NEW r \in Requests, Quiet(r) PROVE GroupsInv'
<1>1. OthersStay(r) /\ GroupsStay /\ members \subseteq members'
    BY DEF Quiet, GroupsStay
<1>2. CASE req'[r] = req[r]
  <2>1. \A s \in DOMAIN Foreign : Making(r, s)' => Making(r, s)
      BY <1>2 DEF Making, Doing, Busy, Arg
  <2> QED
      BY <1>1, <1>2, <2>1, FoundersStay, RivalsStay DEF GroupsInv
<1>3. CASE req'[r] # req[r]
  <2>1. /\ Calm(req'[r].todo)
        /\ req[r] = Idle \/ (Busy(r) /\ Head(req[r].todo)[1] # "join")
      BY <1>3 DEF Quiet
  <2>2. \A g \in Groups : groups[g].by = r => <<g, groups[g].creator>> \in members'
      BY <1>1, <2>1, NothingOwed DEF GroupsInv, IsGroupMember
  <2> QED
      BY <1>1, <2>1, <2>2, NotMaking, FoundersStay, RivalsStay DEF GroupsInv
<1> QED
    BY <1>2, <1>3

\* No request that comes to make a group has left anything untold.
LEMMA MakerIsBusy ==
    ASSUME BookInv, NEW r \in Requests, Doing(r, "insert group")
    PROVE  req[r].how = "busy"
<1>1. Typed /\ RequestsTyped /\ Busy(r) /\ Head(req[r].todo)[1] \notin Expenses
    BY HeadIs DEF BookInv, Typed
<1>2. /\ MildList(Rest(r)) /\ Rest(r) \in Seq(Statements)
      /\ \A ops : Has(req[r].todo, ops) <=> Head(req[r].todo)[1] \in ops \/ Has(Rest(r), ops)
    BY <1>1, RestIs DEF InList
<1>3. ~ Has(Rest(r), Others)
    BY <1>2 DEF MildList, Mild, Has, Others
<1>4. Head(req[r].todo)[1] \notin Others
    BY <1>1 DEF Expenses, Others
<1>5. ~ Has(req[r].todo, Others)
    BY <1>2, <1>3, <1>4
<1> QED
    BY <1>1, <1>5 DEF BookInv, Sound, RequestsTyped, Busy

LEMMA InsertMemberKeeps ==
    ASSUME Typed, GroupsInv, NEW r \in Requests, InsertMember(r) PROVE GroupsInv'
<1>1. /\ Doing(r, "join") /\ members' = members \union {<<Arg(r, 2), Arg(r, 3)>>}
      /\ groups' = groups
    BY DEF InsertMember
<1>2. OthersStay(r) /\ Calm(req'[r].todo)
    BY SimpleCalm, CalmEffectIs
<1>3. ASSUME NEW g \in Groups, groups[g].by = r PROVE <<g, groups[g].creator>> \in members'
  <2>1. r # None /\ req[r].how # "failed"
      BY <1>1, PeopleAssumption DEF Typed, RequestsTyped, Doing
  <2>2. CASE IsGroupMember(g, groups[g].creator)
      BY <1>1, <2>2 DEF IsGroupMember
  <2>3. CASE Joins(r, g, groups[g].creator)
      BY <1>1, <2>3, JoinIs
  <2> QED
      BY <1>3, <2>1, <2>2, <2>3 DEF GroupsInv, FoundersJoin
<1>4. GroupsStay
    BY <1>1 DEF GroupsStay
<1> QED
    BY <1>1, <1>2, <1>3, <1>4, NotMaking, FoundersStay, RivalsStay DEF GroupsInv

LEMMA AtSomethingElse ==
    ASSUME Typed, GroupsInv, NEW r \in Requests, OthersStay(r), GroupsStay, members' = members,
           req[r] = Idle \/ (Busy(r) /\ Head(req[r].todo)[1] # "join"),
           \A s \in DOMAIN Foreign :
               Making(r, s)' => Making(r, s) \/ \A h \in Groups : groups[h].foreign # s
    PROVE  GroupsInv'
<1>1. \A g \in Groups : groups[g].by = r => <<g, groups[g].creator>> \in members'
    BY NothingOwed DEF GroupsInv, IsGroupMember
<1> QED
    BY <1>1, FoundersStay, RivalsStay DEF GroupsInv

LEMMA SetGroupFlagKeeps ==
    ASSUME Typed, GroupsInv, NEW r \in Requests, SetGroupFlag(r) PROVE GroupsInv'
<1>1. PICK g, b : g = Arg(r, 2) /\ b = Arg(r, 3)
    OBVIOUS
<1>2. \/ Doing(r, "archive") /\ groups' = [groups EXCEPT ![g].archived = b]
      \/ Doing(r, "simplify") /\ groups' = [groups EXCEPT ![g].simplify = b]
    BY <1>1 DEF SetGroupFlag
<1>3. GroupsStay
  <2>1. groups \in [Groups -> Group]
      BY DEF Typed
  <2> QED
      BY <1>2, <2>1 DEF GroupsStay, Group
<1>4. members' = members /\ Busy(r) /\ Head(req[r].todo)[1] # "join"
    BY <1>2 DEF SetGroupFlag, Doing
<1>5. OthersStay(r) /\ Calm(req'[r].todo)
    BY SimpleCalm, CalmEffectIs
<1> QED
    BY <1>3, <1>4, <1>5, NotMaking, AtSomethingElse

LEMMA FindGroupKeeps ==
    ASSUME Typed, GroupsInv, NEW r \in Requests, FindGroup(r) PROVE GroupsInv'
<1>1. members' = members /\ groups' = groups /\ Doing(r, "find group")
    BY DEF FindGroup, peopleVars
<1>2. GroupsStay /\ Busy(r) /\ Head(req[r].todo)[1] # "join"
    BY <1>1 DEF GroupsStay, Doing
<1>3. OthersStay(r)
    BY FindGroupIs
<1>4. ASSUME NEW s \in DOMAIN Foreign, Making(r, s)' PROVE \A h \in Groups : groups[h].foreign # s
  <2>1. ~ CalmEffect(r)
      BY <1>4, CalmEffectIs, NotMaking
  <2>2. PICK f : f = Arg(r, 2)
      OBVIOUS
  <2>3. /\ Found(f, req[r].actor) = {}
        /\ req'[r].todo # <<>> /\ Head(req'[r].todo) = <<"insert group", f>>
      BY <2>1, <2>2, FindGroupIs
  <2>4. PICK t, op : t = Head(req'[r].todo) /\ op = "insert group"
      OBVIOUS
  <2>5. t = <<op, f>>
      BY <2>3, <2>4
  <2>6. t[2] = f
      BY <2>5
  <2>7. s = f
      BY <1>4, <2>4, <2>6 DEF Making, Arg
  <2> QED
      BY <2>3, <2>7 DEF Found
<1> QED
    BY <1>1, <1>2, <1>3, <1>4, AtSomethingElse

LEMMA FailsKeepsGroups ==
    ASSUME Typed, GroupsInv, NEW r \in Requests, Fails(r) PROVE GroupsInv'
<1>1. members' = members /\ groups' = groups /\ Busy(r)
    BY DEF Fails
<1>2. OthersStay(r) /\ Calm(req'[r].todo)
    BY FailsCalm, CalmEffectIs
<1>3. GroupsStay
    BY <1>1 DEF GroupsStay
<1>4. CASE Head(req[r].todo)[1] # "join"
    BY <1>1, <1>2, <1>3, <1>4, NotMaking, AtSomethingElse
<1>5. CASE Head(req[r].todo)[1] = "join"
  <2>1. ASSUME NEW g \in Groups, groups[g].by = r
        PROVE  <<g, groups[g].creator>> \in members' \/ req'[r].how = "failed"
    <3>1. CASE Refused(r)
      <4>1. PICK h : h = "failed"
          OBVIOUS
      <4>2. req'[r] = Over("failed")
          BY <3>1, RequestEnds DEF Refused, Typed
      <4>3. req'[r] = Over(h)
          BY <4>1, <4>2
      <4>4. req'[r].how = h
        <5>1. PICK q : q = req'[r]
            OBVIOUS
        <5> QED
            BY <4>3, <5>1, OverFields
      <4> QED
          BY <4>1, <4>4
    <3>2. CASE ~ Arg(r, 4)
      <4>1. ~ Joins(r, g, groups[g].creator)
          BY <3>2, JoinIs
      <4>2. r # None /\ req[r].how # "failed"
          BY <1>1, PeopleAssumption DEF Typed, RequestsTyped
      <4> QED
          BY <1>1, <2>1, <4>1, <4>2 DEF GroupsInv, FoundersJoin, IsGroupMember
    <3> QED
        BY <3>1, <3>2 DEF Fails
  <2> QED
      BY <1>1, <1>2, <1>3, <2>1, NotMaking, FoundersStay, RivalsStay DEF GroupsInv
<1> QED
    BY <1>4, <1>5

\* The new group, whose creator joins it next: r has looked for it, and has
\* every group of the same name that was made since for a rival.
LEMMA InsertGroupKeeps ==
    ASSUME BookInv, GroupsInv, NEW r \in Requests, InsertGroup(r) PROVE GroupsInv'
<1>0. Typed /\ groups \in [Groups -> Group]
    BY DEF BookInv, Typed
<1>1. PICK g, a, s : g = NewGroup /\ a = req[r].actor /\ s = Arg(r, 2)
    OBVIOUS
<1>2. /\ g \in Groups /\ OthersStay(r) /\ Calm(req'[r].todo)
      /\ req'[r].todo # <<>> /\ Head(req'[r].todo) = <<"join", g, a, TRUE>>
      /\ req'[r].how = req[r].how
      /\ groups' = [groups EXCEPT ![g] = Made(r, a, s, Rivals(r, s))]
    BY <1>0, <1>1, InsertGroupIs, CalmEffectIs
<1>3. members' = members /\ Doing(r, "insert group") /\ Making(r, s)
    BY <1>1 DEF InsertGroup, Making
<1>4. /\ groups'[g].by = r /\ groups'[g].creator = a /\ groups'[g].foreign = s
      /\ groups'[g].rivals = Rivals(r, s)
      /\ \A h \in Groups \ {g} : groups'[h] = groups[h]
    BY <1>0, <1>2, MadeIs
<1>5. Busy(r) /\ Head(req[r].todo)[1] # "join" /\ r # None
    BY <1>3, PeopleAssumption DEF Doing
<1>6. FoundersJoin'
  <2>1. Joins(r, g, a)'
      BY <1>2 DEF Joins, Busy
  <2>2. req'[r].how = "busy"
      BY <1>2, <1>3, MakerIsBusy
  <2>3. ASSUME NEW h \in Groups \ {g}, groups[h].by # None
        PROVE  \/ <<h, groups[h].creator>> \in members
               \/ req'[groups[h].by].how = "failed"
               \/ req'[groups[h].by].how = "busy" /\ Joins(groups[h].by, h, groups[h].creator)'
    <3>1. PICK p, c : p = groups[h].by /\ c = groups[h].creator
        OBVIOUS
    <3>2. CASE p = r
        BY <1>0, <1>5, <3>1, <3>2, NothingOwed DEF GroupsInv, IsGroupMember
    <3>3. CASE p # r
      <4>1. p \in Requests
          BY <1>0, <2>3, <3>1 DEF Group
      <4>2. req'[p] = req[p]
          BY <1>2, <3>3, <4>1 DEF OthersStay
      <4>3. Joins(p, h, c) => Joins(p, h, c)'
          BY <4>2 DEF Joins, Busy
      <4>4. <<h, c>> \in members \/ req[p].how = "failed" \/ (req[p].how = "busy" /\ Joins(p, h, c))
          BY <2>3, <3>1 DEF GroupsInv, FoundersJoin, IsGroupMember
      <4>5. groups'[h] = groups[h]
          BY <1>4
      <4> QED
          BY <3>1, <4>2, <4>3, <4>4, <4>5
    <3> QED
        BY <3>2, <3>3
  <2> QED
      BY <1>3, <1>4, <2>1, <2>2, <2>3 DEF FoundersJoin, IsGroupMember
<1>7. ASSUME NEW p \in Requests, NEW f \in DOMAIN Foreign, Making(p, f)'
      PROVE  p # r /\ Making(p, f)
  <2>1. p # r
      BY <1>2, <1>7, NotMaking
  <2>2. req'[p] = req[p]
      BY <1>2, <2>1 DEF OthersStay
  <2> QED
      BY <1>7, <2>1, <2>2 DEF Making, Doing, Busy, Arg
<1>8. ASSUME NEW h \in Groups \ {g}, groups[h].by # None, groups[h].foreign = s
      PROVE  s = None \/ r \in groups[h].rivals
  <2>1. s \in DOMAIN Foreign \cup {None}
      BY <1>0, <1>8 DEF Group
  <2> QED
      BY <1>3, <1>8, <2>1 DEF GroupsInv, RivalsKnown
<1>9. RivalsKnown'
  <2>1. ASSUME NEW h \in Groups, NEW k \in Groups, h # k, groups'[h].by # None, groups'[k].by # None,
               groups'[h].foreign = groups'[k].foreign
        PROVE  \/ groups'[h].foreign = None
               \/ groups'[h].by \in groups'[k].rivals \/ groups'[k].by \in groups'[h].rivals
    <3>1. CASE h = g
        BY <1>4, <1>8, <2>1, <3>1
    <3>2. CASE k = g
        BY <1>4, <1>8, <2>1, <3>2
    <3>3. CASE h # g /\ k # g
        BY <1>4, <2>1, <3>3 DEF GroupsInv, RivalsKnown
    <3> QED
        BY <3>1, <3>2, <3>3
  <2>2. ASSUME NEW p \in Requests, NEW f \in DOMAIN Foreign, NEW h \in Groups,
               Making(p, f)', groups'[h].by # None, groups'[h].foreign = f
        PROVE  p \in groups'[h].rivals
    <3>1. p # r /\ Making(p, f)
        BY <1>7, <2>2
    <3>2. CASE h = g
        BY <1>4, <2>2, <3>1, <3>2 DEF Rivals, Making
    <3>3. CASE h # g
        BY <1>4, <2>2, <3>1, <3>3 DEF GroupsInv, RivalsKnown
    <3> QED
        BY <3>2, <3>3
  <2> QED
      BY <2>1, <2>2 DEF RivalsKnown
<1> QED
    BY <1>6, <1>9 DEF GroupsInv

LEMMA PeopleKeepGroups ==
    ASSUME BookInv, GroupsInv, NEW r \in Requests, PeopleStep(r) PROVE GroupsInv'
<1>1. Typed
    BY DEF BookInv
<1>2. ASSUME OthersStay(r), groups' = groups, members' = members,
             req[r] = Idle \/ (Busy(r) /\ Head(req[r].todo)[1] # "join"),
             \A s \in DOMAIN Foreign : ~ Making(r, s)'
      PROVE  GroupsInv'
  <2>1. GroupsStay
      BY <1>2 DEF GroupsStay
  <2> QED
      BY <1>1, <1>2, <2>1, AtSomethingElse
<1>3. CASE InsertFriend(r)
  <2>1. groups' = groups /\ members' = members /\ Doing(r, "befriend")
      BY <1>3 DEF InsertFriend
  <2>2. Busy(r) /\ Head(req[r].todo)[1] # "join"
      BY <2>1 DEF Doing
  <2>3. \A s \in DOMAIN Foreign : ~ Making(r, s)'
    <3>1. PICK t, op, a, b, strict : /\ t = Head(req'[r].todo) /\ op = "befriend back"
                                     /\ t = <<op, a, b, strict>>
        BY <1>1, <1>3, InsertFriendIs
    <3>2. t = <<op, a, b, strict>>
        BY <3>1
    <3>3. t[1] = op
        BY <3>2
    <3> QED
        BY <3>1, <3>3 DEF Making, Doing
  <2> QED
      BY <1>1, <1>2, <1>3, <2>1, <2>2, <2>3, InsertFriendIs
<1>4. CASE InsertFriendBack(r)
  <2>1. groups' = groups /\ members' = members /\ Doing(r, "befriend back")
      BY <1>4 DEF InsertFriendBack
  <2>2. Busy(r) /\ Head(req[r].todo)[1] # "join"
      BY <2>1 DEF Doing
  <2> QED
      BY <1>1, <1>2, <1>4, <2>1, <2>2, SimpleCalm, CalmEffectIs, NotMaking
<1>5. ASSUME NEW a, NEW b, RemoveFriend(r, a, b) PROVE GroupsInv'
  <2>1. groups' = groups /\ members' = members /\ req[r] = Idle
      BY <1>5 DEF RemoveFriend
  <2> QED
      BY <1>1, <1>2, <1>5, <2>1, RemoveFriendCalm, CalmEffectIs, NotMaking
<1> QED
    BY <1>1, <1>3, <1>4, <1>5, PeopleKinds, FailsKeepsGroups, InsertMemberKeeps, SetGroupFlagKeeps,
       FindGroupKeeps, InsertGroupKeeps, QuietKeepsGroups

LEMMA NextKeepsGroups == ASSUME BookInv, GroupsInv, [Next]_vars PROVE GroupsInv'
<1>1. ASSUME NEW r \in Requests, PeopleStep(r) PROVE GroupsInv'
    BY <1>1, PeopleKeepGroups
<1>2. ASSUME NEW r \in Requests, NoticeStep(r) PROVE GroupsInv'
    BY <1>2, NoticeStepIs, QuietKeepsGroups DEF BookInv
<1>3. ASSUME req' = req, groups' = groups, members' = members PROVE GroupsInv'
  <2>1. \A p, s : Making(p, s)' <=> Making(p, s)
      BY <1>3 DEF Making, Doing, Busy, Arg
  <2>2. \A p, g, a : Joins(p, g, a)' <=> Joins(p, g, a)
      BY <1>3 DEF Joins, Busy
  <2>3. FoundersJoin'
      BY <1>3, <2>2 DEF GroupsInv, FoundersJoin, IsGroupMember
  <2>4. RivalsKnown'
      BY <1>3, <2>1 DEF GroupsInv, RivalsKnown
  <2> QED
      BY <2>3, <2>4 DEF GroupsInv
<1>4. CASE DeleteNotificationsBefore \/ UNCHANGED vars
    BY <1>3, <1>4 DEF DeleteNotificationsBefore, vars, peopleVars
<1> QED
    BY <1>1, <1>2, <1>4, Zenon DEF Next

LEMMA InitGroups == ASSUME Init PROVE GroupsInv
<1>1. \A g \in Groups : groups[g].by = None
    BY DEF Init
<1> QED
    BY <1>1 DEF GroupsInv, FoundersJoin, RivalsKnown

\* The creator of a group is a member of it unless the request that made it has
\* not come to that or has failed there (groups.go:38); and two groups stand for
\* one of Splitwise only if the second import had looked for it before the
\* first made it, for any number of imports (import_service.go:90).
THEOREM GroupsHold == Spec => []GroupsAreWhole
<1>1. Init => GroupsInv
    BY InitGroups
<1>2. BookInv /\ GroupsInv /\ [Next]_vars => GroupsInv'
    BY NextKeepsGroups
<1>3. GroupsInv => GroupsAreWhole
  <2>1. ASSUME GroupsInv, NEW g \in Groups, groups[g].by # None
        PROVE  /\ IsGroupMember(g, groups[g].creator) \/ req[groups[g].by].how \in {"busy", "failed"}
               /\ \A h \in Groups \ {g} : groups[h].by # None /\ groups[g].foreign = groups[h].foreign =>
                     \/ groups[g].foreign = None
                     \/ groups[g].by \in groups[h].rivals \/ groups[h].by \in groups[g].rivals
      BY <2>1 DEF GroupsInv, FoundersJoin, RivalsKnown
  <2> QED
      BY <2>1 DEF GroupsAreWhole
<1> QED
    BY <1>1, <1>2, <1>3, NoticesInvariant, PTL DEF Spec
===============================================================================
