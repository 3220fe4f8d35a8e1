----------------------------- MODULE BalanceProofs -----------------------------
(***************************************************************************)
(* What Balance computes, and what GroupBooks does with it, for any number *)
(* of people, amounts, bills, settlements and requests.                    *)
(***************************************************************************)
EXTENDS GroupBooks, MCBalance, SumLemmas, SequenceTheorems

-------------------------------------------------------------------------------
(* Nets.                                                                   *)

Owings == [Pairs -> Int]

\* Every pair of people is a pair one way round.
LEMMA PairOf ==
    ASSUME NEW u \in Users, NEW v \in Users, u # v
    PROVE  /\ u \in Int /\ v \in Int
           /\ u < v \/ v < u
           /\ u < v => <<u, v>> \in Pairs
           /\ v < u => <<v, u>> \in Pairs
BY BalanceAssumption DEF Pairs

LEMMA PairType ==
    ASSUME NEW p \in Pairs
    PROVE  /\ p[1] \in Users /\ p[2] \in Users /\ p[1] \in Int /\ p[2] \in Int
           /\ p[1] < p[2] /\ p[1] # p[2] /\ p = <<p[1], p[2]>>
<1>1. p \in Users \X Users /\ p[1] < p[2]
    BY DEF Pairs
<1>2. p[1] \in Users /\ p[2] \in Users /\ p = <<p[1], p[2]>>
    BY <1>1
<1>3. p[1] \in Int /\ p[2] \in Int
    BY <1>2, BalanceAssumption
<1> QED
    BY <1>1, <1>2, <1>3

\* What one has of the other is the opposite of what the other has of the one.
LEMMA RowType ==
    ASSUME NEW owing \in Owings, NEW u \in Users, NEW v \in Users, u # v
    PROVE  Row(owing, u, v) \in Int /\ Row(owing, u, v) = - Row(owing, v, u)
BY PairOf DEF Owings, Row

\* Nobody has anything of themselves: Row on everybody.
Table(owing) == [u \in Users |-> [v \in Users |-> IF v = u THEN 0 ELSE Row(owing, u, v)]]

LEMMA TableType ==
    ASSUME NEW owing \in Owings, NEW u \in Users, NEW v \in Users
    PROVE  /\ Table(owing)[u][v] \in Int
           /\ Table(owing)[u][v] = - Table(owing)[v][u]
           /\ v = u => Table(owing)[u][v] = 0
           /\ v # u => Table(owing)[u][v] = Row(owing, u, v)
<1>1. CASE u = v
  <2>1. Table(owing)[u][v] = 0 /\ Table(owing)[v][u] = 0
      BY <1>1 DEF Table
  <2>2. Table(owing)[u][v] \in Int /\ Table(owing)[v][u] \in Int
        /\ Table(owing)[u][v] + Table(owing)[v][u] = 0
      BY <2>1
  <2>3. \A i, j \in Int : i + j = 0 => i = - j
      OBVIOUS
  <2>4. Table(owing)[u][v] = - Table(owing)[v][u]
      BY <2>2, <2>3, Zenon
  <2> QED
      BY <1>1, <2>1, <2>2, <2>4, Zenon
<1>2. CASE u # v
  <2>1. Table(owing)[u][v] = Row(owing, u, v) /\ Table(owing)[v][u] = Row(owing, v, u)
      BY <1>2 DEF Table
  <2> QED
      BY <1>2, <2>1, RowType
<1> QED
    BY <1>1, <1>2

\* A net is the sum of a line of that table.
LEMMA NetIs ==
    ASSUME NEW owing \in Owings, NEW u \in Users
    PROVE  /\ Net(owing, u) = SumFunctionOnSet(Table(owing)[u], Users)
           /\ Net(owing, u) \in Int
<1> DEFINE line == Table(owing)[u]
           others == Users \ {u}
           rows == [v \in others |-> Row(owing, u, v)]
<1>1. IsFiniteSet(Users) /\ IsFiniteSet(others)
    BY BalanceAssumption, FS_Subset
<1>2. \A v \in Users : line[v] \in Int
    BY TableType
<1>3. SumFunctionOnSet(line, Users) = line[u] + SumFunctionOnSet(line, others)
    BY <1>1, <1>2, SumRemove
<1>4. line[u] = 0
    BY TableType
<1>5. SumFunctionOnSet(line, others) \in Int
    BY <1>1, <1>2, SumInt
<1>6. SumFunction(rows) = SumFunctionOnSet(line, others)
  <2>1. \A v \in others : rows[v] = line[v]
      BY TableType
  <2>2. DOMAIN rows = others
      OBVIOUS
  <2> HIDE DEF line, others, rows
  <2> QED
      BY <1>1, <2>1, <2>2, SumOfFunction
<1>7. Net(owing, u) = SumFunction(rows)
    BY DEF Net
<1> HIDE DEF line, others, rows
<1>8. SumFunctionOnSet(line, Users) = SumFunctionOnSet(line, others)
    BY <1>3, <1>4, <1>5
<1>9. Net(owing, u) = SumFunctionOnSet(line, Users) /\ Net(owing, u) \in Int
    BY <1>5, <1>6, <1>7, <1>8
<1> QED
    BY <1>9 DEF line

\* What some are owed others owe: nets add up to nothing.
LEMMA NetsCancel ==
    ASSUME NEW owing \in Owings
    PROVE  SumFunctionOnSet(Nets(owing), Users) = 0
<1> DEFINE M == Table(owing)
           sums == [u \in Users |-> SumFunctionOnSet(M[u], Users)]
<1>1. IsFiniteSet(Users)
    BY BalanceAssumption
<1>2. SumFunctionOnSet(sums, Users) = 0
  <2>1. \A u, v \in Users : M[u][v] \in Int /\ M[u][v] = - M[v][u]
      BY TableType
  <2> HIDE DEF M
  <2> QED
      BY <1>1, <2>1, AntisymmetricSum
<1>3. \A u \in Users : Nets(owing)[u] = sums[u]
    BY NetIs DEF Nets
<1> HIDE DEF sums
<1> QED
    BY <1>1, <1>2, <1>3, SumEqual

LEMMA NetsType == ASSUME NEW owing \in Owings PROVE Nets(owing) \in [Users -> Int]
BY NetIs DEF Nets

LEMMA PlusType ==
    ASSUME NEW owing \in Owings, NEW shifts \in Owings
    PROVE  Plus(owing, shifts) \in Owings
BY DEF Plus, Owings

\* Nets add up as balances do.
LEMMA NetPlus ==
    ASSUME NEW owing \in Owings, NEW shifts \in Owings, NEW u \in Users
    PROVE  /\ Plus(owing, shifts) \in Owings
           /\ Net(Plus(owing, shifts), u) = Net(owing, u) + Net(shifts, u)
<1> DEFINE f == Table(owing)[u]
           g == Table(shifts)[u]
           h == Table(Plus(owing, shifts))[u]
<1>1. Plus(owing, shifts) \in Owings
    BY DEF Plus, Owings
<1>2. ASSUME NEW v \in Users PROVE f[v] \in Int /\ g[v] \in Int /\ h[v] = f[v] + g[v]
  <2>1. f[v] \in Int /\ g[v] \in Int
      BY TableType
  <2>2. CASE v = u
    <3>1. f[v] = 0 /\ g[v] = 0 /\ h[v] = 0
        BY <1>1, <2>2, TableType
    <3> QED
        BY <2>1, <3>1
  <2>3. CASE v # u
    <3>1. f[v] = Row(owing, u, v) /\ g[v] = Row(shifts, u, v) /\ h[v] = Row(Plus(owing, shifts), u, v)
        BY <1>1, <2>3, TableType
    <3>2. Row(Plus(owing, shifts), u, v) = Row(owing, u, v) + Row(shifts, u, v)
      <4>1. CASE u < v
        <5>1. <<u, v>> \in Pairs
            BY <2>3, <4>1, PairOf
        <5> QED
            BY <4>1, <5>1 DEF Row, Plus
      <4>2. CASE ~ (u < v)
        <5>1. <<v, u>> \in Pairs
            BY <2>3, <4>2, PairOf
        <5>2. owing[<<v, u>>] \in Int /\ shifts[<<v, u>>] \in Int
            BY <5>1 DEF Owings
        <5>3. \A i, j \in Int : - (i + j) = (- i) + (- j)
            OBVIOUS
        <5>4. /\ Row(Plus(owing, shifts), u, v) = - (owing[<<v, u>>] + shifts[<<v, u>>])
              /\ Row(owing, u, v) = - owing[<<v, u>>] /\ Row(shifts, u, v) = - shifts[<<v, u>>]
            BY <4>2, <5>1 DEF Row, Plus
        <5> QED
            BY <5>2, <5>3, <5>4
      <4> QED
          BY <4>1, <4>2
    <3> HIDE DEF f, g, h
    <3> QED
        BY <2>1, <3>1, <3>2
  <2> QED
      BY <2>2, <2>3
<1>3. SumFunctionOnSet(h, Users) = SumFunctionOnSet(f, Users) + SumFunctionOnSet(g, Users)
  <2>1. \A v \in Users : f[v] \in Int /\ g[v] \in Int /\ h[v] = f[v] + g[v]
      BY <1>2
  <2>2. IsFiniteSet(Users)
      BY BalanceAssumption
  <2> HIDE DEF f, g, h
  <2> QED
      BY <2>1, <2>2, SumPlus
<1> QED
    BY <1>1, <1>3, NetIs

\* Nobody owes anybody: nets of nothing.
LEMMA NetSquare ==
    /\ Square \in Owings
    /\ \A u \in Users : Net(Square, u) = 0
<1>1. Square \in Owings
    BY DEF Square, Owings
<1>2. ASSUME NEW u \in Users PROVE Net(Square, u) = 0
  <2> DEFINE line == Table(Square)[u]
  <2>1. ASSUME NEW v \in Users PROVE line[v] = 0
    <3>1. CASE v = u
        BY <1>1, <3>1, TableType
    <3>2. CASE v # u
      <4>1. line[v] = Row(Square, u, v)
          BY <1>1, <3>2, TableType
      <4> QED
          BY <3>2, <4>1, PairOf DEF Row, Square
    <3> QED
        BY <3>1, <3>2
  <2>2. SumFunctionOnSet(line, Users) = 0
    <3> HIDE DEF line
    <3> QED
        BY <2>1, SumZero, BalanceAssumption
  <2> QED
      BY <1>1, <2>2, NetIs
<1> QED
    BY <1>1, <1>2

\* A payment moves the nets of the two by its amount, and nobody else's.
LEMMA NetMoved ==
    ASSUME NEW owing \in Owings, NEW payer \in Users, NEW other \in Users, payer # other,
           NEW n \in Int
    PROVE  /\ Moved(owing, payer, other, n) \in Owings
           /\ \A u \in Users :
                Net(Moved(owing, payer, other, n), u) =
                    Net(owing, u) + (IF u = payer THEN n ELSE IF u = other THEN - n ELSE 0)
<1> DEFINE new == Moved(owing, payer, other, n)
<1>1. new \in Owings
    BY PairOf DEF Moved, Owings
<1>2. ASSUME NEW u \in Users
      PROVE  Net(new, u) =
                Net(owing, u) + (IF u = payer THEN n ELSE IF u = other THEN - n ELSE 0)
  <2> DEFINE f == Table(owing)[u]
             g == Table(new)[u]
  <2>1. \A v \in Users : f[v] \in Int /\ g[v] \in Int
      BY <1>1, TableType
  <2>2. ASSUME NEW v \in Users
        PROVE  g[v] = f[v] + (IF u = payer /\ v = other THEN n
                              ELSE IF u = other /\ v = payer THEN - n ELSE 0)
    <3>1. CASE v = u
      <4>1. f[v] = 0 /\ g[v] = 0
          BY <1>1, <3>1, TableType
      <4> QED
          BY <3>1, <4>1
    <3>2. CASE v # u
      <4>1. f[v] = Row(owing, u, v) /\ g[v] = Row(new, u, v)
          BY <1>1, <3>2, TableType
      <4>2. \/ u < v /\ <<u, v>> \in Pairs
            \/ v < u /\ <<v, u>> \in Pairs
          BY <3>2, PairOf
      <4>3. u \in Int /\ v \in Int /\ payer \in Int /\ other \in Int
          BY BalanceAssumption
      <4>4. CASE u < v
        <5>1. f[v] = owing[<<u, v>>] /\ g[v] = new[<<u, v>>] /\ <<u, v>> \in Pairs
            BY <4>1, <4>2, <4>3, <4>4 DEF Row
        <5>2. new[<<u, v>>] = owing[<<u, v>>] + (IF u = payer /\ v = other THEN n
                              ELSE IF u = other /\ v = payer THEN - n ELSE 0)
            BY <4>3, <4>4, <5>1 DEF Moved, Owings
        <5> QED
            BY <5>1, <5>2
      <4>5. CASE v < u
        <5>1. f[v] = - owing[<<v, u>>] /\ g[v] = - new[<<v, u>>] /\ <<v, u>> \in Pairs
            BY <4>1, <4>2, <4>3, <4>5 DEF Row
        <5>2. new[<<v, u>>] = owing[<<v, u>>] + (IF v = payer /\ u = other THEN n
                              ELSE IF v = other /\ u = payer THEN - n ELSE 0)
            BY <4>3, <4>5, <5>1 DEF Moved, Owings
        <5>3. owing[<<v, u>>] \in Int
            BY <5>1 DEF Owings
        <5> QED
            BY <5>1, <5>2, <5>3
      <4> QED
          BY <4>2, <4>4, <4>5
    <3> QED
        BY <3>1, <3>2
  <2>3. Net(owing, u) = SumFunctionOnSet(f, Users) /\ Net(new, u) = SumFunctionOnSet(g, Users)
      BY <1>1, NetIs
  <2>4. IsFiniteSet(Users)
      BY BalanceAssumption
  <2> HIDE DEF f, g, new
  <2>5. CASE u = payer
    <3>1. \A v \in Users : f[v] \in Int /\ g[v] = f[v] + (IF v = other THEN n ELSE 0)
        BY <2>1, <2>2, <2>5
    <3>2. SumFunctionOnSet(g, Users) = SumFunctionOnSet(f, Users) + n
        BY <2>4, <3>1, SumChange
    <3> QED
        BY <2>3, <2>5, <3>2
  <2>6. CASE u = other
    <3>1. \A v \in Users : f[v] \in Int /\ g[v] = f[v] + (IF v = payer THEN - n ELSE 0)
        BY <2>1, <2>2, <2>6
    <3>2. - n \in Int
        OBVIOUS
    <3>3. SumFunctionOnSet(g, Users) = SumFunctionOnSet(f, Users) + (- n)
        BY <2>4, <3>1, <3>2, SumChange
    <3> QED
        BY <2>3, <2>6, <3>3
  <2>7. CASE u # payer /\ u # other
    <3>1. \A v \in Users : f[v] \in Int /\ g[v] = f[v]
        BY <2>1, <2>2, <2>7
    <3>2. SumFunctionOnSet(g, Users) = SumFunctionOnSet(f, Users)
        BY <2>4, <3>1, SumEqual
    <3>3. SumFunctionOnSet(f, Users) \in Int
        BY <2>4, <3>1, SumInt
    <3> QED
        BY <2>3, <2>7, <3>2, <3>3
  <2> QED
      BY <2>5, <2>6, <2>7
<1> QED
    BY <1>1, <1>2

-------------------------------------------------------------------------------
(* Ranking: each node has a place of its own, and each place a node.       *)

LEMMA RankedIs ==
    ASSUME NEW nodes, IsFiniteSet(nodes),
           \A n \in nodes : n.id \in Int /\ n.amt \in Int,
           \A m, n \in nodes : m.id = n.id => m = n
    PROVE  /\ Cardinality(nodes) \in Nat
           /\ Ranked(nodes) \in Seq(nodes)
           /\ Len(Ranked(nodes)) = Cardinality(nodes)
           /\ \A i, j \in 1..Cardinality(nodes) :
                 i # j => Ranked(nodes)[i].id # Ranked(nodes)[j].id
           /\ \A n \in nodes : \E i \in 1..Cardinality(nodes) : Ranked(nodes)[i] = n
<1> DEFINE Ahead(n) == {m \in nodes : Before(m, n)}
           N == Cardinality(nodes)
           rank == [n \in nodes |-> Cardinality(Ahead(n)) + 1]
<1>1. N \in Nat
    BY FS_CardinalityType
<1>2. ASSUME NEW n \in nodes
      PROVE  IsFiniteSet(Ahead(n)) /\ Cardinality(Ahead(n)) \in Nat /\ n \notin Ahead(n)
  <2>1. Ahead(n) \in SUBSET nodes
      OBVIOUS
  <2>2. IsFiniteSet(Ahead(n))
      BY <2>1, FS_Subset
  <2>3. ~ Before(n, n)
      BY DEF Before
  <2> QED
      BY <2>2, <2>3, FS_CardinalityType
<1>3. ASSUME NEW n \in nodes PROVE rank[n] \in 1..N
  <2>1. Ahead(n) \in SUBSET (nodes \ {n})
      BY <1>2
  <2>2. IsFiniteSet(nodes \ {n}) /\ Cardinality(nodes \ {n}) = N - 1
      BY FS_RemoveElement
  <2>3. Cardinality(Ahead(n)) <= N - 1
      BY <2>1, <2>2, FS_Subset
  <2> HIDE DEF Ahead, N
  <2> QED
      BY <1>1, <1>2, <2>3
<1>4. ASSUME NEW m \in nodes, NEW n \in nodes, Before(m, n) PROVE rank[m] < rank[n]
  <2>1. Ahead(m) \cup {m} \in SUBSET Ahead(n)
    <3>1. \A k \in nodes : Before(k, m) => Before(k, n)
        BY <1>4 DEF Before
    <3> QED
        BY <1>4, <3>1
  <2>2. Cardinality(Ahead(m) \cup {m}) = Cardinality(Ahead(m)) + 1
      BY <1>2, FS_AddElement
  <2>3. Cardinality(Ahead(m) \cup {m}) <= Cardinality(Ahead(n))
      BY <1>2, <2>1, FS_Subset
  <2>4. rank[m] = Cardinality(Ahead(m)) + 1 /\ rank[n] = Cardinality(Ahead(n)) + 1
      OBVIOUS
  <2> HIDE DEF Ahead, rank
  <2> QED
      BY <1>2, <2>2, <2>3, <2>4
<1>5. ASSUME NEW m \in nodes, NEW n \in nodes, m # n PROVE rank[m] # rank[n]
  <2>1. Before(m, n) \/ Before(n, m)
      BY <1>5 DEF Before
  <2>2. rank[m] \in Int /\ rank[n] \in Int
      BY <1>3
  <2> HIDE DEF rank
  <2> QED
      BY <1>4, <2>1, <2>2
<1>6. \A i \in 1..N : \E n \in nodes : rank[n] = i
  <2>1. rank \in Injection(nodes, 1..N)
    <3>1. rank \in [nodes -> 1..N]
        BY <1>3
    <3> HIDE DEF rank, N
    <3> QED
        BY <1>5, <3>1 DEF Injection, IsInjective
  <2>2. IsFiniteSet(1..N) /\ Cardinality(1..N) = N
    <3>1. 1 \in Int /\ N \in Int
        BY <1>1
    <3> HIDE DEF N
    <3>2. IsFiniteSet(1..N) /\ Cardinality(1..N) = IF 1 > N THEN 0 ELSE N - 1 + 1
        BY <3>1, FS_Interval
    <3> QED
        BY <1>1, <3>2
  <2>3. rank \in Surjection(nodes, 1..N)
      BY <2>1, <2>2, FS_Injection
  <2> QED
      BY <2>3 DEF Surjection
<1> DEFINE at(i) == CHOOSE n \in nodes : Cardinality({m \in nodes : Before(m, n)}) = i - 1
<1>7. ASSUME NEW i \in 1..N PROVE at(i) \in nodes /\ rank[at(i)] = i
  <2>1. \A n \in nodes : Cardinality(Ahead(n)) \in Nat
      BY <1>2
  <2>2. PICK n \in nodes : rank[n] = i
      BY <1>6
  <2>3. rank[n] = Cardinality(Ahead(n)) + 1
      OBVIOUS
  <2>4. Cardinality(Ahead(n)) = i - 1
    <3> HIDE DEF Ahead, N, rank
    <3> QED
        BY <1>1, <2>1, <2>2, <2>3
  <2>5. at(i) \in nodes /\ Cardinality(Ahead(at(i))) = i - 1
      BY <2>4
  <2>6. rank[at(i)] = Cardinality(Ahead(at(i))) + 1
      BY <2>5
  <2> HIDE DEF at, Ahead, N, rank
  <2> QED
      BY <1>1, <2>5, <2>6
<1>8. Ranked(nodes) = [i \in 1..N |-> at(i)]
    BY DEF Ranked
<1> HIDE DEF at, N, rank
<1>9. Ranked(nodes) \in Seq(nodes) /\ Len(Ranked(nodes)) = N
  <2>1. [i \in 1..N |-> at(i)] \in Seq(nodes)
      BY <1>1, <1>7
  <2>2. Len([i \in 1..N |-> at(i)]) = N
      BY <1>1, <1>7
  <2> QED
      BY <1>8, <2>1, <2>2
<1>10. ASSUME NEW i \in 1..N, NEW j \in 1..N, i # j
       PROVE  Ranked(nodes)[i].id # Ranked(nodes)[j].id
  <2>1. at(i) # at(j) /\ at(i) \in nodes /\ at(j) \in nodes
      BY <1>7, <1>10
  <2> QED
      BY <1>8, <2>1
<1>11. ASSUME NEW n \in nodes PROVE \E i \in 1..N : Ranked(nodes)[i] = n
  <2>1. rank[n] \in 1..N /\ at(rank[n]) \in nodes /\ rank[at(rank[n])] = rank[n]
      BY <1>3, <1>7
  <2>2. at(rank[n]) = n
      BY <1>5, <2>1
  <2> QED
      BY <1>8, <2>1, <2>2
<1> QED
    BY <1>1, <1>9, <1>10, <1>11 DEF N

-------------------------------------------------------------------------------
(* The two queues of Simplify.                                             *)

Waiting == [id : Users, amt : Nat \ {0}]

Queues == {q \in Seq(Waiting) : \A i, j \in 1..Len(q) : i # j => q[i].id # q[j].id}

Ids(q) == {q[i].id : i \in 1..Len(q)}

\* What somebody in a queue has left to give or to get.
Left(q, u) == IF u \in Ids(q) THEN q[CHOOSE i \in 1..Len(q) : q[i].id = u].amt ELSE 0

LEMMA LeftIs ==
    ASSUME NEW q \in Queues, NEW i \in 1..Len(q)
    PROVE  /\ q[i] \in Waiting /\ q[i].id \in Users /\ q[i].amt \in Nat \ {0}
           /\ q[i].id \in Ids(q)
           /\ Left(q, q[i].id) = q[i].amt
<1>1. q \in Seq(Waiting) /\ q[i] \in Waiting
    BY DEF Queues
<1>2. q[i].id \in Ids(q)
    BY DEF Ids
<1> DEFINE k == CHOOSE j \in 1..Len(q) : q[j].id = q[i].id
<1>3. k \in 1..Len(q) /\ q[k].id = q[i].id
    OBVIOUS
<1>4. k = i
    BY <1>3 DEF Queues
<1> QED
    BY <1>1, <1>2, <1>4 DEF Waiting, Left

LEMMA IdsAreUsers == ASSUME NEW q \in Queues PROVE Ids(q) \subseteq Users
BY LeftIs DEF Ids

LEMMA LeftType ==
    ASSUME NEW q \in Queues, NEW u \in Users
    PROVE  Left(q, u) \in Nat /\ (u \in Ids(q) <=> Left(q, u) # 0)
<1>1. CASE u \in Ids(q)
  <2>1. PICK i \in 1..Len(q) : u = q[i].id
      BY <1>1 DEF Ids
  <2> QED
      BY <1>1, <2>1, LeftIs
<1>2. CASE u \notin Ids(q)
    BY <1>2 DEF Left
<1> QED
    BY <1>1, <1>2

\* A queue's first pays off part of what is left, or all of it and leaves.
LEMMA TakeIs ==
    ASSUME NEW q \in Queues, q # <<>>, NEW pay \in Nat \ {0}, pay <= q[1].amt
    PROVE  /\ Take(q, pay) \in Queues
           /\ Ids(Take(q, pay)) \subseteq Ids(q)
           /\ \A u \in Users :
                Left(Take(q, pay), u) = Left(q, u) - (IF u = q[1].id THEN pay ELSE 0)
           /\ pay = q[1].amt => Len(Take(q, pay)) = Len(q) - 1 /\ q[1].id \notin Ids(Take(q, pay))
           /\ pay # q[1].amt => Len(Take(q, pay)) = Len(q)
<1> DEFINE new == Take(q, pay)
<1>1. q \in Seq(Waiting) /\ Len(q) \in Nat \ {0} /\ 1 \in 1..Len(q)
    BY EmptySeq DEF Queues
<1>2. q[1].id \in Users /\ q[1].amt \in Nat \ {0} /\ q[1].id \in Ids(q)
      /\ Left(q, q[1].id) = q[1].amt
    BY <1>1, LeftIs
<1>3. /\ Tail(q) \in Seq(Waiting) /\ Len(Tail(q)) = Len(q) - 1
      /\ \A i \in 1..(Len(q) - 1) : Tail(q)[i] = q[i + 1]
    BY <1>1, HeadTailProperties
<1>4. CASE pay = q[1].amt
  <2>1. new = Tail(q)
      BY <1>4 DEF Take
  <2>2. new \in Queues
    <3>1. ASSUME NEW i \in 1..Len(new), NEW j \in 1..Len(new), i # j
          PROVE  new[i].id # new[j].id
      <4>1. /\ i + 1 \in 1..Len(q) /\ j + 1 \in 1..Len(q) /\ i + 1 # j + 1
            /\ new[i] = q[i + 1] /\ new[j] = q[j + 1]
          BY <1>1, <1>3, <2>1, <3>1
      <4> QED
          BY <4>1 DEF Queues
    <3> QED
        BY <1>3, <2>1, <3>1 DEF Queues
  <2>3. ASSUME NEW i \in 1..Len(q) PROVE i = 1 \/ (i - 1 \in 1..Len(new) /\ new[i - 1] = q[i])
      BY <1>1, <1>3, <2>1
  <2>4. ASSUME NEW i \in 1..Len(new) PROVE i + 1 \in 1..Len(q) /\ new[i] = q[i + 1] /\ i + 1 # 1
      BY <1>1, <1>3, <2>1
  <2>5. Ids(new) \subseteq Ids(q)
      BY <2>4 DEF Ids
  <2>6. q[1].id \notin Ids(new)
    <3>1. \A i \in 1..Len(new) : new[i].id # q[1].id
        BY <1>1, <2>4 DEF Queues
    <3> QED
        BY <3>1 DEF Ids
  <2> HIDE DEF new
  <2>7. ASSUME NEW u \in Users
        PROVE  Left(new, u) = Left(q, u) - (IF u = q[1].id THEN pay ELSE 0)
    <3>1. CASE u = q[1].id
      <4>1. Left(new, u) = 0
          BY <2>6, <3>1 DEF Left
      <4> QED
          BY <1>2, <1>4, <3>1, <4>1
    <3>2. CASE u # q[1].id /\ u \in Ids(q)
      <4>1. PICK i \in 1..Len(q) : u = q[i].id
          BY <3>2 DEF Ids
      <4>2. i - 1 \in 1..Len(new) /\ new[i - 1] = q[i]
          BY <2>3, <3>2, <4>1
      <4>3. Left(new, u) = q[i].amt /\ Left(q, u) = q[i].amt /\ q[i].amt \in Nat
          BY <2>2, <4>1, <4>2, LeftIs
      <4> QED
          BY <3>2, <4>3
    <3>3. CASE u # q[1].id /\ u \notin Ids(q)
      <4>1. Left(new, u) = Left(q, u) /\ Left(q, u) \in Nat
          BY <2>5, <3>3 DEF Left
      <4> QED
          BY <3>3, <4>1
    <3> QED
        BY <3>1, <3>2, <3>3
  <2> QED
      BY <1>3, <1>4, <2>1, <2>2, <2>5, <2>6, <2>7 DEF new
<1>5. CASE pay # q[1].amt
  <2> DEFINE first == Node(q[1].id, q[1].amt - pay)
  <2>1. new = <<first>> \o Tail(q)
      BY <1>5 DEF Take
  <2>2. first \in Waiting /\ first.id = q[1].id /\ first.amt = q[1].amt - pay
      BY <1>2, <1>5 DEF Node, Waiting
  <2>3. /\ new \in Seq(Waiting) /\ Len(new) = Len(q) /\ new[1] = first
        /\ \A i \in 1..Len(q) : i # 1 => new[i] = q[i]
    <3>1. <<first>> \in Seq(Waiting) /\ Len(<<first>>) = 1 /\ <<first>>[1] = first
        BY <2>2
    <3> HIDE DEF first
    <3>2. /\ new \in Seq(Waiting) /\ Len(new) = 1 + Len(Tail(q))
          /\ \A i \in 1..(1 + Len(Tail(q))) :
                new[i] = IF i <= 1 THEN <<first>>[i] ELSE Tail(q)[i - 1]
        BY <1>3, <2>1, <3>1, ConcatProperties
    <3> HIDE DEF new
    <3> QED
        BY <1>1, <1>3, <3>1, <3>2
  <2> HIDE DEF new, first
  <2>4. ASSUME NEW i \in 1..Len(q) PROVE i \in 1..Len(new) /\ new[i].id = q[i].id
      BY <2>2, <2>3
  <2>5. new \in Queues
      BY <2>3, <2>4 DEF Queues
  <2>6. Ids(new) = Ids(q)
      BY <2>3, <2>4 DEF Ids
  <2>7. ASSUME NEW u \in Users
        PROVE  Left(new, u) = Left(q, u) - (IF u = q[1].id THEN pay ELSE 0)
    <3>1. CASE u \in Ids(q)
      <4>1. PICK i \in 1..Len(q) : u = q[i].id
          BY <3>1 DEF Ids
      <4>2. Left(q, u) = q[i].amt /\ q[i].amt \in Nat
          BY <4>1, LeftIs
      <4>3. Left(new, u) = new[i].amt
          BY <2>4, <2>5, <4>1, LeftIs
      <4>4. CASE i = 1
          BY <2>2, <2>3, <4>1, <4>2, <4>3, <4>4
      <4>5. CASE i # 1
        <5>1. u # q[1].id
            BY <1>1, <4>1, <4>5 DEF Queues
        <5> QED
            BY <2>3, <4>2, <4>3, <4>5, <5>1
      <4> QED
          BY <4>4, <4>5
    <3>2. CASE u \notin Ids(q)
      <4>1. Left(new, u) = Left(q, u) /\ Left(q, u) \in Nat /\ u # q[1].id
          BY <1>2, <2>6, <3>2 DEF Left
      <4> QED
          BY <4>1
    <3> QED
        BY <3>1, <3>2
  <2> QED
      BY <1>5, <2>3, <2>5, <2>6, <2>7 DEF new
<1> QED
    BY <1>4, <1>5

-------------------------------------------------------------------------------
(* What transfers leave people owing.                                      *)

LEMMA ToSetIs ==
    ASSUME NEW S, NEW q \in Seq(S)
    PROVE  /\ ToSet(q) \subseteq S
           /\ IsFiniteSet(ToSet(q)) /\ Cardinality(ToSet(q)) <= Len(q)
           /\ \A x \in ToSet(q) : \E i \in 1..Len(q) : q[i] = x
           /\ \A i \in 1..Len(q) : q[i] \in ToSet(q)
<1>1. Len(q) \in Nat /\ DOMAIN q = 1..Len(q) /\ q \in [1..Len(q) -> S]
    BY LenProperties
<1>2. ToSet(q) = {q[i] : i \in 1..Len(q)}
    BY <1>1 DEF ToSet
<1>3. q \in Surjection(1..Len(q), ToSet(q))
    BY <1>1, <1>2 DEF Surjection
<1>4. IsFiniteSet(1..Len(q)) /\ Cardinality(1..Len(q)) = Len(q)
  <2>1. \A n \in Nat : (IF 1 > n THEN 0 ELSE n - 1 + 1) = n
      OBVIOUS
  <2>2. 1 \in Int /\ Len(q) \in Int
      BY <1>1
  <2> QED
      BY <1>1, <2>1, <2>2, FS_Interval
<1>5. IsFiniteSet(ToSet(q)) /\ Cardinality(ToSet(q)) <= Cardinality(1..Len(q))
    BY <1>3, <1>4, FS_Surjection
<1> QED
    BY <1>1, <1>2, <1>4, <1>5

LEMMA ToSetAppend ==
    ASSUME NEW S, NEW q \in Seq(S), NEW x \in S
    PROVE  ToSet(Append(q, x)) = ToSet(q) \cup {x}
<1>1. /\ Append(q, x) \in Seq(S) /\ Len(Append(q, x)) = Len(q) + 1 /\ Len(q) \in Nat
      /\ \A i \in 1..Len(q) : Append(q, x)[i] = q[i]
      /\ Append(q, x)[Len(q) + 1] = x
    BY AppendProperties, LenProperties
<1>2. DOMAIN q = 1..Len(q) /\ DOMAIN Append(q, x) = 1..(Len(q) + 1)
    BY <1>1, LenProperties
<1>3. 1..(Len(q) + 1) = (1..Len(q)) \cup {Len(q) + 1}
    BY <1>1
<1> QED
    BY <1>1, <1>2, <1>3 DEF ToSet

\* What one transfer leaves the pairs owing.
Debt(t) ==
    [p \in Pairs |-> IF <<t.to, t.from>> = p THEN t.amount
                     ELSE IF <<t.from, t.to>> = p THEN - t.amount ELSE 0]

LEMMA TransferType ==
    ASSUME NEW t \in Transfers
    PROVE  /\ t.from \in Users /\ t.to \in Users /\ t.from # t.to
           /\ t.from \in Int /\ t.to \in Int
           /\ t.amount \in Nat /\ t.amount \in Int /\ t.amount > 0
           /\ t = [from |-> t.from, to |-> t.to, amount |-> t.amount]
           /\ Debt(t) \in Owings
<1>1. /\ t.from \in Users /\ t.to \in Users /\ t.from # t.to /\ t.amount \in Nat \ {0}
      /\ t = [from |-> t.from, to |-> t.to, amount |-> t.amount]
    BY DEF Transfers
<1>2. t.from \in Int /\ t.to \in Int
    BY <1>1, BalanceAssumption
<1>3. t.amount \in Int /\ - t.amount \in Int
    BY <1>1
<1> QED
    BY <1>1, <1>2, <1>3 DEF Debt, Owings

LEMMA DebtsOfIs ==
    ASSUME NEW q \in Seq(Transfers)
    PROVE  /\ DebtsOf(q) \in Owings
           /\ \A p \in Pairs :
                DebtsOf(q)[p] = SumFunctionOnSet([t \in Transfers |-> Debt(t)[p]], ToSet(q))
<1>1. ToSet(q) \subseteq Transfers /\ IsFiniteSet(ToSet(q))
    BY ToSetIs
<1>2. ASSUME NEW p \in Pairs
      PROVE  /\ DebtsOf(q)[p] = SumFunctionOnSet([t \in Transfers |-> Debt(t)[p]], ToSet(q))
             /\ DebtsOf(q)[p] \in Int
  <2> DEFINE all == [t \in Transfers |-> Debt(t)[p]]
             these == [t \in ToSet(q) |->
                        IF <<t.to, t.from>> = p THEN t.amount
                        ELSE IF <<t.from, t.to>> = p THEN - t.amount ELSE 0]
  <2>1. \A t \in ToSet(q) : these[t] = all[t]
      BY <1>1 DEF Debt
  <2>2. DOMAIN these = ToSet(q)
      OBVIOUS
  <2>3. \A t \in ToSet(q) : all[t] \in Int
      BY <1>1, TransferType DEF Owings
  <2>4. DebtsOf(q)[p] = SumFunction(these)
      BY DEF DebtsOf
  <2> HIDE DEF all, these
  <2>5. SumFunction(these) = SumFunctionOnSet(all, ToSet(q))
      BY <1>1, <2>1, <2>2, SumOfFunction
  <2>6. SumFunctionOnSet(all, ToSet(q)) \in Int
      BY <1>1, <2>3, SumInt
  <2> QED
      BY <2>4, <2>5, <2>6 DEF all
<1>3. DebtsOf(q) = [p \in Pairs |-> DebtsOf(q)[p]]
    BY DEF DebtsOf
<1>4. DebtsOf(q) \in Owings
  <2>1. \A p \in Pairs : DebtsOf(q)[p] \in Int
      BY <1>2
  <2> HIDE DEF DebtsOf
  <2> QED
      BY <1>3, <2>1 DEF Owings
<1> QED
    BY <1>2, <1>4

LEMMA DebtsOfNone == DebtsOf(<<>>) = Square
<1>1. <<>> \in Seq(Transfers) /\ ToSet(<<>>) = {}
  <2>1. <<>> \in Seq(Transfers) /\ Len(<<>>) = 0
      BY EmptySeq
  <2>2. \A x \in ToSet(<<>>) : \E i \in 1..0 : <<>>[i] = x
      BY <2>1, ToSetIs
  <2> QED
      BY <2>1, <2>2
<1>2. ASSUME NEW p \in Pairs PROVE DebtsOf(<<>>)[p] = 0
    BY <1>1, DebtsOfIs, SumEmpty
<1> QED
    BY <1>2 DEF DebtsOf, Square

\* A set of transfers that gains one: the debtor owes the creditor that more.
LEMMA DebtsOfMore ==
    ASSUME NEW q \in Seq(Transfers), NEW r \in Seq(Transfers), NEW t \in Transfers,
           t \notin ToSet(q), ToSet(r) = ToSet(q) \cup {t}
    PROVE  DebtsOf(r) = Moved(DebtsOf(q), t.to, t.from, t.amount)
<1>1. ASSUME NEW p \in Pairs PROVE DebtsOf(r)[p] = DebtsOf(q)[p] + Debt(t)[p]
  <2> DEFINE f == [x \in Transfers |-> Debt(x)[p]]
  <2>1. DebtsOf(q)[p] = SumFunctionOnSet(f, ToSet(q)) /\ DebtsOf(r)[p] = SumFunctionOnSet(f, ToSet(r))
      BY DebtsOfIs
  <2>2. ToSet(r) \subseteq Transfers /\ IsFiniteSet(ToSet(r))
      BY ToSetIs
  <2>3. \A x \in ToSet(r) : f[x] \in Int
      BY <2>2, TransferType DEF Owings
  <2>4. f[t] = Debt(t)[p]
      OBVIOUS
  <2>5. t \in ToSet(r) /\ ToSet(r) \ {t} = ToSet(q)
      OBVIOUS
  <2> HIDE DEF f
  <2>6. SumFunctionOnSet(f, ToSet(r)) = f[t] + SumFunctionOnSet(f, ToSet(r) \ {t})
      BY <2>2, <2>3, <2>5, SumRemove
  <2>7. SumFunctionOnSet(f, ToSet(q)) \in Int /\ f[t] \in Int
    <3>1. DebtsOf(q)[p] \in Int
        BY DebtsOfIs DEF Owings
    <3> QED
        BY <2>1, <2>3, <2>5, <3>1
  <2>8. SumFunctionOnSet(f, ToSet(r)) = f[t] + SumFunctionOnSet(f, ToSet(q))
      BY <2>5, <2>6
  <2>9. \A i, j \in Int : i + j = j + i
      OBVIOUS
  <2>10. f[t] + SumFunctionOnSet(f, ToSet(q)) = SumFunctionOnSet(f, ToSet(q)) + f[t]
      BY <2>7, <2>9
  <2> QED
      BY <2>1, <2>4, <2>8, <2>10
<1>2. /\ t.from \in Users /\ t.to \in Users /\ t.from # t.to
      /\ t.from \in Int /\ t.to \in Int /\ t.amount \in Int
    BY TransferType
<1>3. DebtsOf(q) \in Owings /\ DebtsOf(r) \in Owings
    BY DebtsOfIs
<1> DEFINE new == Moved(DebtsOf(q), t.to, t.from, t.amount)
<1>4. new \in Owings
    BY <1>2, <1>3, NetMoved
<1>5. ASSUME NEW p \in Pairs PROVE new[p] = DebtsOf(q)[p] + Debt(t)[p]
  <2>1. p[1] < p[2] /\ p[1] \in Int /\ p[2] \in Int /\ p = <<p[1], p[2]>>
      BY PairType
  <2>2. DebtsOf(q)[p] \in Int
      BY <1>3 DEF Owings
  <2>3. CASE t.to < t.from
    <3>1. p # <<t.from, t.to>>
        BY <1>2, <2>1, <2>3
    <3>2. new[p] = IF p = <<t.to, t.from>> THEN DebtsOf(q)[p] + t.amount ELSE DebtsOf(q)[p]
        BY <1>3, <2>3 DEF Moved, Owings
    <3> HIDE DEF new
    <3> QED
        BY <1>2, <2>2, <3>1, <3>2 DEF Debt
  <2>4. CASE ~ (t.to < t.from)
    <3>1. p # <<t.to, t.from>>
        BY <1>2, <2>1, <2>4
    <3>2. new[p] = IF p = <<t.from, t.to>> THEN DebtsOf(q)[p] - t.amount ELSE DebtsOf(q)[p]
        BY <1>3, <2>4 DEF Moved, Owings
    <3> HIDE DEF new
    <3> QED
        BY <1>2, <2>2, <3>1, <3>2 DEF Debt
  <2> QED
      BY <2>3, <2>4
<1> HIDE DEF new
<1>6. \A p \in Pairs : DebtsOf(r)[p] = new[p]
    BY <1>1, <1>5
<1> QED
    BY <1>3, <1>4, <1>6 DEF Owings, new

-------------------------------------------------------------------------------
(* Simplify: what holds between its steps.                                 *)

\* Somebody of a queue is due at least what is left of them.
Covers(q, due) == \A u \in Ids(q) : Left(q, u) <= due[u]

Opposite(net) == [u \in Users |-> - net[u]]

\* A transfer is from somebody who owes to somebody who is owed, within both.
Within(net, t) == t.amount <= net[t.to] /\ t.amount <= - net[t.from]

Distinct(q) ==
    \A i, j \in 1..Len(q) : i # j => q[i].from # q[j].from \/ q[i].to # q[j].to

LoopStates == [creditors : Queues, debtors : Queues, res : Seq(Transfers)]

\* What the transfers so far leave a net of, and what is left, is the net.
Accounted(net, s) ==
    \A u \in Users :
        Net(DebtsOf(s.res), u) + Left(s.creditors, u) - Left(s.debtors, u) = net[u]

\* Whoever are two parties to a transfer are not both still in their queue.
SeenOff(s) ==
    \A t \in ToSet(s.res) : t.to \notin Ids(s.creditors) \/ t.from \notin Ids(s.debtors)

\* There are fewer transfers than were in the queues, once both are empty.
Few(n, s) ==
    /\ Len(s.res) + Len(s.creditors) + Len(s.debtors) <= n
    /\ s.res # <<>> /\ s.creditors = <<>> /\ s.debtors = <<>> => Len(s.res) < n

LoopInv(net, n, s) ==
    /\ s \in LoopStates
    /\ Covers(s.creditors, net)
    /\ Covers(s.debtors, Opposite(net))
    /\ \A t \in ToSet(s.res) : Within(net, t)
    /\ Distinct(s.res)
    /\ SeenOff(s)
    /\ Accounted(net, s)
    /\ Few(n, s)

\* Both queues lose somebody at each step.
Shrinks(n, k, s) ==
    \/ s.creditors = <<>>
    \/ s.debtors = <<>>
    \/ Len(s.creditors) + Len(s.debtors) + k <= n

LEMMA SmallerOfTwo ==
    ASSUME NEW i \in Int, NEW j \in Int
    PROVE  (Min({i, j}) = i \/ Min({i, j}) = j) /\ Min({i, j}) <= i /\ Min({i, j}) <= j
<1>1. \E x \in {i, j} : \A y \in {i, j} : x <= y
    <2>1. CASE i <= j
        BY <2>1
    <2>2. CASE j <= i
        BY <2>2
    <2> QED
        BY <2>1, <2>2
<1>2. Min({i, j}) \in {i, j} /\ \A y \in {i, j} : Min({i, j}) <= y
    BY <1>1 DEF Min
<1> QED
    BY <1>2

LEMMA LoopStep ==
    ASSUME NEW net \in [Users -> Int], NEW n \in Nat, NEW k \in Nat, NEW s,
           LoopInv(net, n, s), Shrinks(n, k, s)
    PROVE  LoopInv(net, n, SimplifyStep(s)) /\ Shrinks(n, k + 1, SimplifyStep(s))
<1> DEFINE c == s.creditors
           d == s.debtors
           pay == Min({c[1].amt, d[1].amt})
           t == [from |-> d[1].id, to |-> c[1].id, amount |-> pay]
           new == [creditors |-> Take(c, pay), debtors |-> Take(d, pay),
                   res |-> Append(s.res, t)]
<1>1. c \in Queues /\ d \in Queues /\ s.res \in Seq(Transfers)
      /\ Len(s.res) \in Nat /\ Len(c) \in Nat /\ Len(d) \in Nat
    BY DEF LoopInv, LoopStates, Queues
<1>2. CASE c = <<>> \/ d = <<>>
  <2>1. SimplifyStep(s) = s
      BY <1>2 DEF SimplifyStep
  <2>2. Shrinks(n, k + 1, s)
      BY <1>2 DEF Shrinks
  <2> QED
      BY <2>1, <2>2
<1>3. CASE c # <<>> /\ d # <<>>
  <2>1. SimplifyStep(s) = new
      BY <1>3 DEF SimplifyStep
  <2>2. 1 \in 1..Len(c) /\ 1 \in 1..Len(d)
      BY <1>1, <1>3, EmptySeq DEF Queues
  <2>3. /\ c[1].id \in Users /\ c[1].amt \in Nat \ {0} /\ c[1].id \in Ids(c)
        /\ Left(c, c[1].id) = c[1].amt
        /\ d[1].id \in Users /\ d[1].amt \in Nat \ {0} /\ d[1].id \in Ids(d)
        /\ Left(d, d[1].id) = d[1].amt
      BY <1>1, <2>2, LeftIs
  <2>4. pay \in Nat \ {0} /\ pay <= c[1].amt /\ pay <= d[1].amt
        /\ (pay = c[1].amt \/ pay = d[1].amt)
    <3>1. c[1].amt \in Int /\ d[1].amt \in Int
        BY <2>3
    <3>2. /\ pay = c[1].amt \/ pay = d[1].amt
          /\ pay <= c[1].amt /\ pay <= d[1].amt
        BY <3>1, SmallerOfTwo
    <3> QED
        BY <2>3, <3>2
  <2>5. /\ Take(c, pay) \in Queues /\ Ids(Take(c, pay)) \subseteq Ids(c)
        /\ \A u \in Users :
             Left(Take(c, pay), u) = Left(c, u) - (IF u = c[1].id THEN pay ELSE 0)
        /\ pay = c[1].amt => Len(Take(c, pay)) = Len(c) - 1 /\ c[1].id \notin Ids(Take(c, pay))
        /\ pay # c[1].amt => Len(Take(c, pay)) = Len(c)
      BY <1>1, <1>3, <2>4, TakeIs
  <2>6. /\ Take(d, pay) \in Queues /\ Ids(Take(d, pay)) \subseteq Ids(d)
        /\ \A u \in Users :
             Left(Take(d, pay), u) = Left(d, u) - (IF u = d[1].id THEN pay ELSE 0)
        /\ pay = d[1].amt => Len(Take(d, pay)) = Len(d) - 1 /\ d[1].id \notin Ids(Take(d, pay))
        /\ pay # d[1].amt => Len(Take(d, pay)) = Len(d)
      BY <1>1, <1>3, <2>4, TakeIs
  <2>7. c[1].amt <= net[c[1].id] /\ d[1].amt <= - net[d[1].id] /\ c[1].id # d[1].id
    <3>1. c[1].amt <= net[c[1].id]
        BY <2>3 DEF LoopInv, Covers
    <3>2. d[1].amt <= - net[d[1].id]
        BY <2>3 DEF LoopInv, Covers, Opposite
    <3>3. net[c[1].id] \in Int /\ net[d[1].id] \in Int
        BY <2>3
    <3>4. net[c[1].id] > 0 /\ net[d[1].id] < 0
        BY <2>3, <3>1, <3>2, <3>3
    <3> QED
        BY <3>1, <3>2, <3>3, <3>4
  <2> HIDE DEF c, d, pay
  <2>8. t \in Transfers /\ t.from = d[1].id /\ t.to = c[1].id /\ t.amount = pay
      BY <2>3, <2>4, <2>7 DEF Transfers
  <2>9. t \notin ToSet(s.res)
      BY <2>3, <2>8 DEF LoopInv, SeenOff, c, d
  <2> HIDE DEF t
  <2>10. /\ new.res \in Seq(Transfers) /\ Len(new.res) = Len(s.res) + 1
         /\ \A i \in 1..Len(s.res) : new.res[i] = s.res[i]
         /\ new.res[Len(s.res) + 1] = t
         /\ ToSet(new.res) = ToSet(s.res) \cup {t}
      BY <1>1, <2>8, AppendProperties, ToSetAppend
  <2>11. new.creditors = Take(c, pay) /\ new.debtors = Take(d, pay)
         /\ new \in LoopStates
      BY <2>5, <2>6, <2>10 DEF LoopStates
  <2> HIDE DEF new
  <2>12. Covers(new.creditors, net)
    <3> SUFFICES ASSUME NEW u \in Ids(Take(c, pay)) PROVE Left(Take(c, pay), u) <= net[u]
        BY <2>11 DEF Covers
    <3>1. u \in Ids(c) /\ u \in Users
      <4>1. Ids(c) \subseteq Users
          BY <1>1, IdsAreUsers
      <4> QED
          BY <2>5, <4>1
    <3>2. Left(c, u) <= net[u] /\ Left(c, u) \in Nat /\ net[u] \in Int
        BY <1>1, <3>1, LeftType DEF LoopInv, Covers, c
    <3>3. Left(Take(c, pay), u) = Left(c, u) - (IF u = c[1].id THEN pay ELSE 0)
        BY <2>5, <3>1
    <3> QED
        BY <2>4, <3>2, <3>3
  <2>13. Covers(new.debtors, Opposite(net))
    <3> SUFFICES ASSUME NEW u \in Ids(Take(d, pay)) PROVE Left(Take(d, pay), u) <= Opposite(net)[u]
        BY <2>11 DEF Covers
    <3>1. u \in Ids(d) /\ u \in Users
      <4>1. Ids(d) \subseteq Users
          BY <1>1, IdsAreUsers
      <4> QED
          BY <2>6, <4>1
    <3>2. Left(d, u) <= Opposite(net)[u] /\ Left(d, u) \in Nat /\ Opposite(net)[u] \in Int
      <4>1. Opposite(net)[u] \in Int
          BY <3>1 DEF Opposite
      <4> QED
          BY <1>1, <3>1, <4>1, LeftType DEF LoopInv, Covers, d
    <3>3. Left(Take(d, pay), u) = Left(d, u) - (IF u = d[1].id THEN pay ELSE 0)
        BY <2>6, <3>1
    <3> QED
        BY <2>4, <3>2, <3>3
  <2>14. \A x \in ToSet(new.res) : Within(net, x)
    <3>1. Within(net, t)
      <4>1. net[c[1].id] \in Int /\ net[d[1].id] \in Int
          BY <2>3
      <4> QED
          BY <2>3, <2>4, <2>7, <2>8, <4>1 DEF Within
    <3> QED
        BY <2>10, <3>1 DEF LoopInv
  <2>15. \A x \in ToSet(s.res) : x.to # t.to \/ x.from # t.from
      BY <2>3, <2>8 DEF LoopInv, SeenOff, c, d
  <2>16. Distinct(new.res)
    <3> SUFFICES ASSUME NEW i \in 1..Len(new.res), NEW j \in 1..Len(new.res), i # j
                 PROVE  new.res[i].from # new.res[j].from \/ new.res[i].to # new.res[j].to
        BY DEF Distinct
    <3>1. \A x \in 1..Len(new.res) : x \in 1..Len(s.res) \/ x = Len(s.res) + 1
        BY <1>1, <2>10
    <3>2. \A x \in 1..Len(s.res) : s.res[x] \in ToSet(s.res)
        BY <1>1, ToSetIs
    <3>3. CASE i \in 1..Len(s.res) /\ j \in 1..Len(s.res)
        BY <2>10, <3>3 DEF LoopInv, Distinct
    <3>4. CASE i \in 1..Len(s.res) /\ j = Len(s.res) + 1
        BY <2>10, <2>15, <3>2, <3>4
    <3>5. CASE i = Len(s.res) + 1 /\ j \in 1..Len(s.res)
        BY <2>10, <2>15, <3>2, <3>5
    <3> QED
        BY <3>1, <3>3, <3>4, <3>5
  <2>17. SeenOff(new)
    <3>1. \A x \in ToSet(s.res) :
             x.to \notin Ids(Take(c, pay)) \/ x.from \notin Ids(Take(d, pay))
        BY <2>5, <2>6 DEF LoopInv, SeenOff, c, d
    <3>2. t.to \notin Ids(Take(c, pay)) \/ t.from \notin Ids(Take(d, pay))
        BY <2>4, <2>5, <2>6, <2>8
    <3> QED
        BY <2>10, <2>11, <3>1, <3>2 DEF SeenOff
  <2>18. Accounted(net, new)
    <3> SUFFICES ASSUME NEW u \in Users
                 PROVE  Net(DebtsOf(new.res), u) + Left(Take(c, pay), u)
                            - Left(Take(d, pay), u) = net[u]
        BY <2>11 DEF Accounted
    <3>1. DebtsOf(s.res) \in Owings
        BY <1>1, DebtsOfIs
    <3>2. DebtsOf(new.res) = Moved(DebtsOf(s.res), t.to, t.from, t.amount)
        BY <1>1, <2>8, <2>9, <2>10, DebtsOfMore
    <3>3. Net(DebtsOf(new.res), u) =
             Net(DebtsOf(s.res), u)
                + (IF u = c[1].id THEN pay ELSE IF u = d[1].id THEN - pay ELSE 0)
      <4> DEFINE owing == DebtsOf(s.res)
                 to == c[1].id
                 from == d[1].id
                 most == pay
      <4>1. /\ owing \in Owings /\ most \in Int /\ to \in Users /\ from \in Users /\ to # from
            /\ DebtsOf(new.res) = Moved(owing, to, from, most)
          BY <2>3, <2>4, <2>7, <2>8, <3>1, <3>2
      <4> HIDE DEF owing, to, from, most
      <4>2. Net(Moved(owing, to, from, most), u) =
               Net(owing, u) + (IF u = to THEN most ELSE IF u = from THEN - most ELSE 0)
          BY <4>1, NetMoved
      <4>3. Net(DebtsOf(new.res), u) =
               Net(owing, u) + (IF u = to THEN most ELSE IF u = from THEN - most ELSE 0)
          BY <4>1, <4>2
      <4> QED
          BY <4>3 DEF owing, to, from, most
    <3>4. Net(DebtsOf(s.res), u) \in Int /\ Left(c, u) \in Int /\ Left(d, u) \in Int
          /\ net[u] \in Int
        BY <1>1, <3>1, LeftType, NetIs
    <3>5. Net(DebtsOf(s.res), u) + Left(c, u) - Left(d, u) = net[u]
        BY DEF LoopInv, Accounted, c, d
    <3>6. /\ Left(Take(c, pay), u) = Left(c, u) - (IF u = c[1].id THEN pay ELSE 0)
          /\ Left(Take(d, pay), u) = Left(d, u) - (IF u = d[1].id THEN pay ELSE 0)
        BY <2>5, <2>6
    <3> QED
        BY <2>4, <2>7, <3>3, <3>4, <3>5, <3>6
  <2>19. /\ Len(Take(c, pay)) \in Nat /\ Len(Take(d, pay)) \in Nat
         /\ Len(c) >= 1 /\ Len(d) >= 1
         /\ Len(Take(c, pay)) + Len(Take(d, pay)) < Len(c) + Len(d)
      BY <1>1, <2>2, <2>4, <2>5, <2>6 DEF Queues
  <2>20. Few(n, new)
    <3>1. Len(s.res) + Len(c) + Len(d) <= n
        BY DEF LoopInv, Few, c, d
    <3>2. Len(new.res) + Len(new.creditors) + Len(new.debtors) <= n
        BY <1>1, <2>10, <2>11, <2>19, <3>1
    <3>3. Len(new.res) < n
        BY <1>1, <2>10, <2>19, <3>1
    <3> QED
        BY <3>2, <3>3 DEF Few
  <2>21. Shrinks(n, k + 1, new)
    <3>1. Len(c) + Len(d) + k <= n
        BY <1>3 DEF Shrinks, c, d
    <3>2. Len(new.creditors) + Len(new.debtors) + (k + 1) <= n
        BY <1>1, <2>11, <2>19, <3>1
    <3> QED
        BY <3>2 DEF Shrinks
  <2> QED
      BY <2>1, <2>11, <2>12, <2>13, <2>14, <2>16, <2>17, <2>18, <2>20, <2>21 DEF LoopInv
<1> QED
    BY <1>2, <1>3

\* A loop that takes n steps: what it has after each.
Steps(start, n) ==
    CHOOSE f : f = [k \in 0..n |-> IF k = 0 THEN start ELSE SimplifyStep(f[k - 1])]

LEMMA StepsExist ==
    ASSUME NEW start, NEW n \in Nat
    PROVE  \E f : f = [k \in 0..n |-> IF k = 0 THEN start ELSE SimplifyStep(f[k - 1])]
<1> DEFINE Is(f, m) == f = [k \in 0..m |-> IF k = 0 THEN start ELSE SimplifyStep(f[k - 1])]
           G == {m \in Nat : \E f : Is(f, m)}
<1>1. 0 \in G
  <2>1. Is([k \in 0..0 |-> start], 0)
      OBVIOUS
  <2> QED
      BY <2>1
<1>2. ASSUME NEW m \in Nat, m \in G PROVE m + 1 \in G
  <2>1. PICK f : Is(f, m)
      BY <1>2
  <2> DEFINE g == [k \in 0..(m + 1) |-> IF k <= m THEN f[k] ELSE SimplifyStep(f[m])]
  <2>2. ASSUME NEW k \in 0..(m + 1)
        PROVE  g[k] = IF k = 0 THEN start ELSE SimplifyStep(g[k - 1])
    <3>1. CASE k = 0
        BY <2>1, <3>1
    <3>2. CASE k # 0 /\ k <= m
      <4>1. g[k] = f[k] /\ g[k - 1] = f[k - 1] /\ k \in 0..m
          BY <3>2
      <4>2. f[k] = SimplifyStep(f[k - 1])
          BY <2>1, <3>2, <4>1
      <4> QED
          BY <3>2, <4>1, <4>2
    <3>3. CASE k = m + 1
      <4>1. g[k] = SimplifyStep(f[m]) /\ g[k - 1] = f[m]
          BY <3>3
      <4> QED
          BY <3>3, <4>1
    <3> QED
        BY <3>1, <3>2, <3>3
  <2>3. Is(g, m + 1)
      BY <2>2
  <2>4. \E h : Is(h, m + 1)
    <3> HIDE DEF Is
    <3> QED
        BY <2>3
  <2> QED
      BY <2>4
<1>3. n \in G
  <2> HIDE DEF G
  <2> QED
      BY <1>1, <1>2, NumberInduction
<1> QED
    BY <1>3

LEMMA StepsIs ==
    ASSUME NEW start, NEW n \in Nat
    PROVE  /\ Steps(start, n)[0] = start
           /\ \A k \in 0..(n - 1) :
                Steps(start, n)[k + 1] = SimplifyStep(Steps(start, n)[k])
<1> DEFINE f == Steps(start, n)
<1>1. f = [k \in 0..n |-> IF k = 0 THEN start ELSE SimplifyStep(f[k - 1])]
    BY StepsExist DEF Steps
<1> HIDE DEF f
<1>2. ASSUME NEW k \in 0..n PROVE f[k] = IF k = 0 THEN start ELSE SimplifyStep(f[k - 1])
    BY <1>1
<1>3. ASSUME NEW k \in 0..(n - 1) PROVE f[k + 1] = SimplifyStep(f[k])
  <2>1. k + 1 \in 0..n /\ k + 1 # 0 /\ (k + 1) - 1 = k
      OBVIOUS
  <2> QED
      BY <1>2, <2>1
<1>4. 0 \in 0..n
    OBVIOUS
<1> QED
    BY <1>2, <1>3, <1>4 DEF f

Start(net) == [creditors |-> Creditors(net), debtors |-> Debtors(net), res |-> <<>>]
Most(net) == Len(Creditors(net)) + Len(Debtors(net))

LEMMA SimplifyIs ==
    ASSUME NEW net
    PROVE  Simplify(net) = Steps(Start(net), Most(net))[Most(net)].res
BY DEF Simplify, Steps, Start, Most

\* Everybody with something due, and nobody else, is in the queue.
LEMMA QueueIs ==
    ASSUME NEW due \in [Users -> Int],
           NEW q, q = Ranked({Node(u, due[u]) : u \in {v \in Users : due[v] > 0}})
    PROVE  /\ q \in Queues
           /\ \A u \in Users : Left(q, u) = IF due[u] > 0 THEN due[u] ELSE 0
           /\ Ids(q) = {u \in Users : due[u] > 0}
           /\ Len(q) = Cardinality(Ids(q))
<1> DEFINE some == {u \in Users : due[u] > 0}
           nodes == {Node(u, due[u]) : u \in some}
           N == Cardinality(nodes)
           node == [u \in some |-> Node(u, due[u])]
<1>1. IsFiniteSet(some)
    BY BalanceAssumption, FS_Subset
<1>2. \A n \in nodes : n \in Waiting /\ n.id \in some /\ n.amt = due[n.id]
    BY DEF Node, Waiting
<1>3. \A n \in nodes : n.id \in Int /\ n.amt \in Int
    BY <1>2, BalanceAssumption DEF Waiting
<1>4. \A m, n \in nodes : m.id = n.id => m = n
    BY <1>2 DEF Node
<1>5. IsFiniteSet(nodes) /\ Cardinality(nodes) = Cardinality(some)
  <2>1. node \in [some -> nodes] /\ (\A n \in nodes : \E u \in some : node[u] = n)
      OBVIOUS
  <2>2. \A u, v \in some : node[u] = node[v] => u = v
      BY DEF Node
  <2> HIDE DEF node, nodes, some
  <2>3. node \in Surjection(some, nodes) /\ node \in Injection(some, nodes)
      BY <2>1, <2>2 DEF Surjection, Injection, IsInjective
  <2> QED
      BY <1>1, <2>3, FS_Surjection
<1>6. /\ N \in Nat /\ q \in Seq(nodes) /\ Len(q) = N
      /\ \A i, j \in 1..N : i # j => q[i].id # q[j].id
      /\ \A n \in nodes : \E i \in 1..N : q[i] = n
  <2>1. q = Ranked(nodes)
      OBVIOUS
  <2> HIDE DEF nodes, N
  <2>2. /\ Cardinality(nodes) \in Nat /\ Ranked(nodes) \in Seq(nodes)
        /\ Len(Ranked(nodes)) = Cardinality(nodes)
        /\ \A i, j \in 1..Cardinality(nodes) :
              i # j => Ranked(nodes)[i].id # Ranked(nodes)[j].id
        /\ \A n \in nodes : \E i \in 1..Cardinality(nodes) : Ranked(nodes)[i] = n
      BY <1>3, <1>4, <1>5, RankedIs
  <2> QED
      BY <2>1, <2>2 DEF N
<1>7. q \in Queues
  <2>1. nodes \subseteq Waiting
      BY <1>2
  <2> HIDE DEF nodes
  <2>2. q \in Seq(Waiting)
      BY <1>6, <2>1, SeqMonotonic
  <2> QED
      BY <1>6, <2>2 DEF Queues
<1>8. \A i \in 1..N : q[i].id \in some /\ q[i].amt = due[q[i].id]
  <2>1. \A i \in 1..N : q[i] \in nodes
    <3> HIDE DEF nodes, N
    <3> QED
        BY <1>6
  <2> QED
      BY <1>2, <2>1
<1>9. Ids(q) = some
  <2>1. ASSUME NEW u \in some PROVE u \in Ids(q)
    <3>1. Node(u, due[u]) \in nodes /\ Node(u, due[u]).id = u
        BY DEF Node
    <3>2. PICK i \in 1..N : q[i] = Node(u, due[u])
        BY <1>6, <3>1
    <3>3. i \in 1..Len(q) /\ q[i].id = u
      <4> HIDE DEF N, nodes
      <4> QED
          BY <1>6, <3>1, <3>2
    <3> QED
        BY <3>3 DEF Ids
  <2>2. Ids(q) \subseteq some
      BY <1>6, <1>8 DEF Ids
  <2> QED
      BY <2>1, <2>2
<1>10. ASSUME NEW u \in Users PROVE Left(q, u) = IF due[u] > 0 THEN due[u] ELSE 0
  <2>1. CASE u \in some
    <3>1. PICK i \in 1..Len(q) : u = q[i].id
        BY <1>9, <2>1 DEF Ids
    <3>2. Left(q, u) = q[i].amt
        BY <1>7, <3>1, LeftIs
    <3> QED
        BY <1>6, <1>8, <2>1, <3>1, <3>2
  <2>2. CASE u \notin some
      BY <1>9, <2>2 DEF Left
  <2> QED
      BY <2>1, <2>2
<1> QED
    BY <1>5, <1>6, <1>7, <1>9, <1>10

LEMMA LoopStarts ==
    ASSUME NEW net \in [Users -> Int]
    PROVE  /\ Most(net) \in Nat
           /\ LoopInv(net, Most(net), Start(net)) /\ Shrinks(Most(net), 0, Start(net))
           /\ Most(net) = Cardinality({u \in Users : net[u] > 0})
                            + Cardinality({u \in Users : net[u] < 0})
<1> DEFINE c == Creditors(net)
           d == Debtors(net)
           s == Start(net)
           due == Opposite(net)
<1>1. /\ c \in Queues /\ Ids(c) = {u \in Users : net[u] > 0} /\ Len(c) = Cardinality(Ids(c))
      /\ \A u \in Users : Left(c, u) = IF net[u] > 0 THEN net[u] ELSE 0
    BY QueueIs DEF Creditors
<1>2. due \in [Users -> Int] /\ \A u \in Users : due[u] = - net[u]
    BY DEF Opposite
<1>3. {v \in Users : due[v] > 0} = {v \in Users : net[v] < 0}
    BY <1>2
<1>4. d = Ranked({Node(u, due[u]) : u \in {v \in Users : due[v] > 0}})
  <2>1. {Node(u, - net[u]) : u \in {v \in Users : net[v] < 0}}
           = {Node(u, due[u]) : u \in {v \in Users : due[v] > 0}}
      BY <1>2, <1>3
  <2> QED
      BY <2>1 DEF Debtors
<1> HIDE DEF d, due
<1>5. /\ d \in Queues /\ Ids(d) = {u \in Users : due[u] > 0} /\ Len(d) = Cardinality(Ids(d))
      /\ \A u \in Users : Left(d, u) = IF due[u] > 0 THEN due[u] ELSE 0
    BY <1>2, <1>4, QueueIs
<1> HIDE DEF c
<1>6. Len(c) \in Nat /\ Len(d) \in Nat
    BY <1>1, <1>5 DEF Queues
<1>7. s = [creditors |-> c, debtors |-> d, res |-> <<>>] /\ Most(net) = Len(c) + Len(d)
    BY DEF Start, Most, c, d
<1>8. /\ s.creditors = c /\ s.debtors = d /\ s.res = <<>> /\ s \in LoopStates
    BY <1>1, <1>5, <1>7 DEF LoopStates
<1> HIDE DEF s
<1>9. Covers(c, net) /\ Covers(d, due)
    BY <1>1, <1>2, <1>5 DEF Covers
<1>10. ToSet(<<>>) = {}
  <2>1. Len(<<>>) = 0 /\ <<>> \in Seq(Transfers)
      BY EmptySeq
  <2>2. \A x \in ToSet(<<>>) : \E i \in 1..0 : <<>>[i] = x
      BY <2>1, ToSetIs
  <2> QED
      BY <2>2
<1>11. Distinct(s.res) /\ SeenOff(s) /\ \A t \in ToSet(s.res) : Within(net, t)
    BY <1>8, <1>10 DEF Distinct, SeenOff
<1>12. Accounted(net, s)
  <2> SUFFICES ASSUME NEW u \in Users
               PROVE  Net(DebtsOf(<<>>), u) + Left(c, u) - Left(d, u) = net[u]
      BY <1>8 DEF Accounted
  <2>1. Net(DebtsOf(<<>>), u) = 0
      BY DebtsOfNone, NetSquare
  <2>2. net[u] \in Int /\ due[u] = - net[u]
      BY <1>2
  <2>3. Left(c, u) = (IF net[u] > 0 THEN net[u] ELSE 0)
        /\ Left(d, u) = (IF due[u] > 0 THEN due[u] ELSE 0)
      BY <1>1, <1>5
  <2> QED
      BY <2>1, <2>2, <2>3
<1>13. Few(Most(net), s) /\ Shrinks(Most(net), 0, s)
    BY <1>6, <1>7, <1>8 DEF Few, Shrinks
<1>14. LoopInv(net, Most(net), s)
    BY <1>8, <1>9, <1>11, <1>12, <1>13 DEF LoopInv, due
<1>15. Most(net) = Cardinality({u \in Users : net[u] > 0}) + Cardinality({u \in Users : net[u] < 0})
    BY <1>1, <1>3, <1>5, <1>7
<1> QED
    BY <1>6, <1>7, <1>13, <1>14, <1>15 DEF s

\* The transfers leave everybody the net they had, and nobody has a part in one
\* beyond that net.
LEMMA Simplified ==
    ASSUME NEW net \in [Users -> Int], SumFunctionOnSet(net, Users) = 0
    PROVE  /\ Simplify(net) \in Seq(Transfers)
           /\ Distinct(Simplify(net))
           /\ \A t \in ToSet(Simplify(net)) : Within(net, t)
           /\ DebtsOf(Simplify(net)) \in Owings
           /\ Nets(DebtsOf(Simplify(net))) = net
           /\ Simplify(net) # <<>> => Len(Simplify(net)) < Most(net)
<1> DEFINE n == Most(net)
           f == Steps(Start(net), n)
           s == f[n]
           G == {k \in Nat : k <= n => LoopInv(net, n, f[k]) /\ Shrinks(n, k, f[k])}
<1>1. n \in Nat /\ f[0] = Start(net)
    BY LoopStarts, StepsIs
<1>2. 0 \in G
    BY <1>1, LoopStarts
<1>3. ASSUME NEW k \in Nat, k \in G PROVE k + 1 \in G
  <2>1. SUFFICES ASSUME k + 1 <= n
                 PROVE  LoopInv(net, n, f[k + 1]) /\ Shrinks(n, k + 1, f[k + 1])
      BY <1>3
  <2> HIDE DEF n
  <2>2. k \in 0..(n - 1) /\ k <= n
      BY <1>1, <2>1
  <2>3. f[k + 1] = SimplifyStep(f[k])
      BY <1>1, <2>2, StepsIs
  <2>4. LoopInv(net, n, f[k]) /\ Shrinks(n, k, f[k])
      BY <1>3, <2>2
  <2> HIDE DEF f
  <2> QED
      BY <1>1, <2>3, <2>4, LoopStep
<1>4. LoopInv(net, n, s) /\ Shrinks(n, n, s)
  <2> HIDE DEF G
  <2>1. \A k \in Nat : k \in G
      BY <1>2, <1>3, NumberInduction
  <2>2. n \in G /\ n <= n
      BY <1>1, <2>1
  <2> QED
      BY <2>2 DEF G
<1>5. Simplify(net) = s.res
    BY SimplifyIs
<1> HIDE DEF n, f, s, G
<1> DEFINE c == s.creditors
           d == s.debtors
           D == DebtsOf(s.res)
<1>6. /\ c \in Queues /\ d \in Queues /\ s.res \in Seq(Transfers)
      /\ Len(s.res) \in Nat /\ Len(c) \in Nat /\ Len(d) \in Nat
    BY <1>4 DEF LoopInv, LoopStates, Queues
<1>7. D \in Owings /\ SumFunctionOnSet(Nets(D), Users) = 0
    BY <1>6, DebtsOfIs, NetsCancel
<1>8. /\ \A u \in Users : Net(D, u) + Left(c, u) - Left(d, u) = net[u]
      /\ \A u \in Users : Net(D, u) \in Int /\ Nets(D)[u] = Net(D, u)
      /\ \A u \in Users : Left(c, u) \in Nat /\ Left(d, u) \in Nat
    BY <1>4, <1>6, <1>7, NetIs, LeftType DEF LoopInv, Accounted, Nets
<1>9. ASSUME NEW q \in Queues, \A u \in Users : Left(q, u) = 0 PROVE q = <<>>
  <2>1. \A i \in 1..Len(q) : Left(q, q[i].id) # 0 /\ q[i].id \in Users
      BY LeftIs
  <2>2. Len(q) \in Nat /\ q \in Seq(Waiting)
      BY DEF Queues
  <2>3. ~ (1 \in 1..Len(q))
      BY <1>9, <2>1
  <2> QED
      BY <2>2, <2>3, EmptySeq
<1>10. IsFiniteSet(Users)
    BY BalanceAssumption
<1>11. c = <<>> /\ d = <<>>
  <2>1. c = <<>> \/ d = <<>>
    <3> HIDE DEF c, d
    <3>1. c = <<>> \/ d = <<>> \/ Len(c) + Len(d) + n <= n
        BY <1>4 DEF Shrinks, c, d
    <3>2. Len(c) + Len(d) + n <= n => Len(c) = 0
        BY <1>1, <1>6
    <3>3. Len(c) = 0 => c = <<>>
        BY <1>6, EmptySeq DEF Queues
    <3> QED
        BY <3>1, <3>2, <3>3
  <2>2. ASSUME NEW q \in Queues, q = <<>>, NEW u \in Users PROVE Left(q, u) = 0
    <3>1. Len(q) = 0
        BY <2>2, EmptySeq
    <3> QED
        BY <3>1 DEF Left, Ids
  <2> HIDE DEF c, d, D
  <2>3. CASE c = <<>>
    <3> DEFINE left == [u \in Users |-> Left(d, u)]
    <3>1. \A u \in Users : Nets(D)[u] \in Int /\ net[u] \in Int /\ left[u] \in Int
                             /\ Nets(D)[u] = net[u] + left[u]
      <4> SUFFICES ASSUME NEW u \in Users
                   PROVE  Nets(D)[u] \in Int /\ net[u] \in Int /\ Left(d, u) \in Int
                          /\ Nets(D)[u] = net[u] + Left(d, u)
          OBVIOUS
      <4>1. Left(c, u) = 0
          BY <1>6, <2>2, <2>3
      <4>2. Net(D, u) + 0 - Left(d, u) = net[u]
          BY <1>8, <4>1
      <4>3. Net(D, u) \in Int /\ Nets(D)[u] = Net(D, u) /\ Left(d, u) \in Int
          BY <1>8
      <4> QED
          BY <4>2, <4>3
    <3>2. SumFunctionOnSet(left, Users) \in Nat
          /\ (SumFunctionOnSet(left, Users) = 0 => \A u \in Users : left[u] = 0)
      <4>1. \A u \in Users : left[u] \in Nat
          BY <1>8
      <4> HIDE DEF left
      <4> QED
          BY <1>10, <4>1, SumNonnegative
    <3>3. SumFunctionOnSet(Nets(D), Users)
             = SumFunctionOnSet(net, Users) + SumFunctionOnSet(left, Users)
      <4> HIDE DEF left
      <4>1. \A u \in Users : net[u] \in Int /\ left[u] \in Int /\ Nets(D)[u] = net[u] + left[u]
          BY <3>1
      <4> QED
          BY <1>10, <4>1, SumPlus
    <3>4. SumFunctionOnSet(left, Users) = 0
      <4> HIDE DEF left
      <4> QED
          BY <1>7, <3>2, <3>3
    <3>5. \A u \in Users : Left(d, u) = 0
        BY <3>2, <3>4
    <3> QED
        BY <1>6, <1>9, <2>3, <3>5
  <2>4. CASE d = <<>>
    <3> DEFINE left == [u \in Users |-> Left(c, u)]
    <3>1. \A u \in Users : Nets(D)[u] \in Int /\ net[u] \in Int /\ left[u] \in Int
                             /\ net[u] = Nets(D)[u] + left[u]
        BY <1>6, <1>8, <2>2, <2>4
    <3>2. SumFunctionOnSet(left, Users) \in Nat
          /\ (SumFunctionOnSet(left, Users) = 0 => \A u \in Users : left[u] = 0)
      <4>1. \A u \in Users : left[u] \in Nat
          BY <1>8
      <4> HIDE DEF left
      <4> QED
          BY <1>10, <4>1, SumNonnegative
    <3>3. SumFunctionOnSet(net, Users)
             = SumFunctionOnSet(Nets(D), Users) + SumFunctionOnSet(left, Users)
      <4> HIDE DEF left
      <4>1. \A u \in Users : Nets(D)[u] \in Int /\ left[u] \in Int /\ net[u] = Nets(D)[u] + left[u]
          BY <3>1
      <4> QED
          BY <1>10, <4>1, SumPlus
    <3>4. SumFunctionOnSet(left, Users) = 0
      <4> HIDE DEF left
      <4> QED
          BY <1>7, <3>2, <3>3
    <3>5. \A u \in Users : Left(c, u) = 0
        BY <3>2, <3>4
    <3> QED
        BY <1>6, <1>9, <2>4, <3>5
  <2> QED
      BY <2>1, <2>3, <2>4
<1>12. Nets(D) = net
  <2>1. ASSUME NEW u \in Users PROVE Left(c, u) = 0 /\ Left(d, u) = 0
    <3>1. Len(c) = 0 /\ Len(d) = 0
        BY <1>11, EmptySeq
    <3> QED
        BY <3>1 DEF Left, Ids
  <2> HIDE DEF c, d, D
  <2>2. \A u \in Users : Nets(D)[u] = net[u]
      BY <1>8, <2>1
  <2>3. Nets(D) \in [Users -> Int]
      BY <1>7, NetsType
  <2> QED
      BY <2>2, <2>3
<1>13. Simplify(net) # <<>> => Len(Simplify(net)) < n
    BY <1>4, <1>5, <1>11 DEF LoopInv, Few
<1>14. Distinct(s.res) /\ \A t \in ToSet(s.res) : Within(net, t)
    BY <1>4 DEF LoopInv
<1> QED
    BY <1>5, <1>6, <1>7, <1>12, <1>13, <1>14 DEF n

-------------------------------------------------------------------------------
(* Rewiring.                                                               *)

LEMMA TargetIs ==
    ASSUME NEW owing \in Owings
    PROVE  /\ Target(owing) \in Owings
           /\ Nets(Target(owing)) = Nets(owing)
           /\ Target(Target(owing)) = Target(owing)
           /\ \A other \in Owings : Nets(other) = Nets(owing) => Target(other) = Target(owing)
<1>1. Nets(owing) \in [Users -> Int] /\ SumFunctionOnSet(Nets(owing), Users) = 0
    BY NetsType, NetsCancel
<1>2. Target(owing) \in Owings /\ Nets(Target(owing)) = Nets(owing)
    BY <1>1, Simplified DEF Target
<1>3. \A other : Nets(other) = Nets(owing) => Target(other) = Target(owing)
    BY DEF Target
<1> QED
    BY <1>2, <1>3

LEMMA RewireIs ==
    ASSUME NEW owing \in Owings
    PROVE  /\ Rewire(owing) \in Owings
           /\ Plus(owing, Rewire(owing)) = Target(owing)
           /\ owing = Target(owing) => Rewire(owing) = Square
<1>1. Target(owing) \in Owings
    BY TargetIs
<1>2. \A p \in Pairs : owing[p] \in Int /\ Target(owing)[p] \in Int
    BY <1>1 DEF Owings
<1>3. Rewire(owing) = [p \in Pairs |-> Target(owing)[p] - owing[p]]
    BY DEF Rewire
<1> HIDE DEF Owings
<1>4. Rewire(owing) \in Owings
    BY <1>2, <1>3 DEF Owings
<1>5. Plus(owing, Rewire(owing)) = Target(owing)
  <2>1. \A p \in Pairs : Plus(owing, Rewire(owing))[p] = Target(owing)[p]
      BY <1>2, <1>3 DEF Plus
  <2>2. Plus(owing, Rewire(owing)) \in Owings
      BY <1>4, PlusType
  <2> QED
      BY <1>1, <2>1, <2>2 DEF Owings
<1>6. ASSUME owing = Target(owing) PROVE Rewire(owing) = Square
  <2>1. \A p \in Pairs : Target(owing)[p] - owing[p] = 0
      BY <1>2, <1>6
  <2> QED
      BY <1>3, <2>1 DEF Square
<1> QED
    BY <1>4, <1>5, <1>6

\* Netting entries change nobody's net.
LEMMA RewireIsNeutral ==
    ASSUME NEW owing \in Owings
    PROVE  Settled(Rewire(owing))
<1>1. Rewire(owing) \in Owings /\ Plus(owing, Rewire(owing)) = Target(owing)
    BY RewireIs
<1>2. ASSUME NEW u \in Users PROVE Net(Rewire(owing), u) = 0
  <2>1. Net(Target(owing), u) = Net(owing, u) + Net(Rewire(owing), u)
      BY <1>1, NetPlus
  <2>2. Nets(Target(owing))[u] = Nets(owing)[u]
      BY TargetIs
  <2>3. Net(Target(owing), u) = Net(owing, u)
      BY <2>2 DEF Nets
  <2>4. Net(owing, u) \in Int /\ Net(Rewire(owing), u) \in Int
      BY <1>1, NetIs
  <2> QED
      BY <2>1, <2>3, <2>4
<1> QED
    BY <1>2 DEF Settled

\* Where nobody owes anybody in total, no debts are left.
LEMMA SettledIsSquare ==
    ASSUME NEW owing \in Owings, Settled(owing)
    PROVE  Target(owing) = Square
<1> DEFINE net == Nets(owing)
           res == Simplify(net)
<1>1. net \in [Users -> Int] /\ SumFunctionOnSet(net, Users) = 0
    BY NetsType, NetsCancel
<1>2. \A u \in Users : net[u] = 0
    BY DEF Settled, Nets
<1>3. res \in Seq(Transfers) /\ \A t \in ToSet(res) : Within(net, t)
    BY <1>1, Simplified
<1>4. ToSet(res) = {}
  <2> SUFFICES ASSUME NEW t \in ToSet(res) PROVE FALSE
      OBVIOUS
  <2> HIDE DEF res, net
  <2>1. t \in Transfers
      BY <1>3, ToSetIs
  <2>2. t.amount > 0 /\ t.amount \in Int /\ t.to \in Users
      BY <2>1, TransferType
  <2>3. t.amount <= net[t.to]
      BY <1>3 DEF Within
  <2> QED
      BY <1>2, <2>2, <2>3
<1> HIDE DEF res, net
<1>5. res = <<>>
  <2>1. \A i \in 1..Len(res) : res[i] \in ToSet(res)
      BY <1>3, ToSetIs
  <2>2. ~ (1 \in 1..Len(res))
      BY <1>4, <2>1
  <2> QED
      BY <1>3, <2>2, EmptySeq
<1> QED
    BY <1>5, DebtsOfNone DEF Target, res, net

-------------------------------------------------------------------------------
(* The books of a group: bills, a bag of settlements, netting entries.     *)

Settlements(B) == IsABag(B) /\ IsFiniteSet(DOMAIN B) /\ DOMAIN B \subseteq Transfers

Weighed(B, p) == [t \in DOMAIN B |-> B[t] * Effect(t)[p]]

Owing(b, pay, n) ==
    [p \in Pairs |->
        SumFunction([x \in b |-> BillDebts[x][p]]) + SumFunction(Weighed(pay, p)) + n[p]]

LEMMA OwedIs ==
    /\ Owed = Owing(bills, payments, netted)
    /\ Owed' = Owing(bills', payments', netted')
BY DEF Owed, Owing, Weighed, BagToSet

LEMMA EffectIs ==
    ASSUME NEW t \in Transfers
    PROVE  /\ Effect(t) \in Owings
           /\ \A u \in Users :
                Net(Effect(t), u) = IF u = t.from THEN t.amount
                                    ELSE IF u = t.to THEN - t.amount ELSE 0
<1>1. /\ t.from \in Users /\ t.to \in Users /\ t.from # t.to /\ t.amount \in Int
    BY TransferType
<1>2. Square \in Owings /\ \A u \in Users : Net(Square, u) = 0
    BY NetSquare
<1>3. /\ Effect(t) \in Owings
      /\ \A u \in Users :
            Net(Effect(t), u) = Net(Square, u)
                + (IF u = t.from THEN t.amount ELSE IF u = t.to THEN - t.amount ELSE 0)
    BY <1>1, <1>2, NetMoved DEF Effect
<1>4. - t.amount \in Int
    BY <1>1
<1> QED
    BY <1>1, <1>2, <1>3, <1>4

LEMMA WeighedType ==
    ASSUME NEW B, Settlements(B), NEW p \in Pairs
    PROVE  /\ \A t \in DOMAIN B : Weighed(B, p)[t] \in Int /\ B[t] \in Nat \ {0}
           /\ DOMAIN Weighed(B, p) = DOMAIN B
           /\ SumFunction(Weighed(B, p)) = SumFunctionOnSet(Weighed(B, p), DOMAIN B)
           /\ SumFunction(Weighed(B, p)) \in Int
<1>1. \A t \in DOMAIN B : Effect(t)[p] \in Int /\ B[t] \in Nat \ {0}
    BY EffectIs DEF Settlements, IsABag, Owings
<1>2. \A t \in DOMAIN B : Weighed(B, p)[t] \in Int
  <2>1. \A i \in Nat, j \in Int : i * j \in Int
      OBVIOUS
  <2>2. \A t \in DOMAIN B : Weighed(B, p)[t] = B[t] * Effect(t)[p]
      BY DEF Weighed
  <2> QED
      BY <1>1, <2>1, <2>2
<1>3. DOMAIN Weighed(B, p) = DOMAIN B
    BY DEF Weighed
<1>4. SumFunction(Weighed(B, p)) = SumFunctionOnSet(Weighed(B, p), DOMAIN B)
    BY <1>3 DEF SumFunction
<1>5. SumFunctionOnSet(Weighed(B, p), DOMAIN B) \in Int
    BY <1>2, SumInt DEF Settlements
<1> QED
    BY <1>1, <1>2, <1>3, <1>4, <1>5

\* A settlement more: the pairs owe what it makes them owe on top.
LEMMA SettlementMore ==
    ASSUME NEW B, Settlements(B), NEW t \in Transfers
    PROVE  /\ Settlements(B (+) SetToBag({t}))
           /\ \A p \in Pairs :
                SumFunction(Weighed(B (+) SetToBag({t}), p)) =
                    SumFunction(Weighed(B, p)) + Effect(t)[p]
<1> DEFINE N == B (+) SetToBag({t})
<1>1. /\ DOMAIN N = DOMAIN B \cup {t}
      /\ \A x \in DOMAIN B : x # t => N[x] = B[x]
      /\ N[t] = IF t \in DOMAIN B THEN B[t] + 1 ELSE 1
  <2>1. \A x \in DOMAIN B : B[x] \in Nat /\ B[x] > 0
      BY DEF Settlements, IsABag
  <2>2. N = [x \in DOMAIN B \cup {t} |->
                (IF x \in DOMAIN B THEN B[x] ELSE 0) + (IF x \in {t} THEN SetToBag({t})[x] ELSE 0)]
      BY DEF (+), SetToBag
  <2>3. SetToBag({t})[t] = 1
      BY DEF SetToBag
  <2> HIDE DEF N
  <2> QED
      BY <2>1, <2>2, <2>3
<1> HIDE DEF N
<1>2. Settlements(N)
  <2>1. IsFiniteSet(DOMAIN N) /\ DOMAIN N \subseteq Transfers
      BY <1>1, FS_AddElement DEF Settlements
  <2>2. \A x \in DOMAIN N : N[x] \in Nat /\ N[x] > 0
      BY <1>1 DEF Settlements, IsABag
  <2>3. N = [x \in DOMAIN N |-> N[x]]
      BY DEF N, (+)
  <2>4. IsABag(N)
      BY <2>2, <2>3 DEF IsABag
  <2> QED
      BY <2>1, <2>4 DEF Settlements
<1>3. ASSUME NEW p \in Pairs
      PROVE  SumFunction(Weighed(N, p)) = SumFunction(Weighed(B, p)) + Effect(t)[p]
  <2> DEFINE f == Weighed(B, p)
             g == Weighed(N, p)
             D == DOMAIN B
             e == Effect(t)[p]
  <2>1. e \in Int /\ IsFiniteSet(D)
      BY EffectIs DEF Owings, Settlements
  <2>2. /\ \A x \in D : f[x] \in Int
        /\ SumFunction(f) = SumFunctionOnSet(f, D)
        /\ \A x \in DOMAIN N : g[x] \in Int
        /\ SumFunction(g) = SumFunctionOnSet(g, DOMAIN N) /\ IsFiniteSet(DOMAIN N)
      BY <1>2, WeighedType DEF Settlements
  <2>3. \A x \in D : x # t => g[x] = f[x]
      BY <1>1 DEF Weighed
  <2>4. t \in D => B[t] \in Nat /\ f[t] = B[t] * e /\ g[t] = (B[t] + 1) * e
      BY <1>1, WeighedType DEF Weighed
  <2>5. t \notin D => g[t] = 1 * e
      BY <1>1 DEF Weighed
  <2> HIDE DEF f, g, e
  <2>6. CASE t \in D
    <3>1. \A i \in Nat, j \in Int : (i + 1) * j = i * j + j
        OBVIOUS
    <3>2. g[t] = f[t] + e
        BY <2>1, <2>4, <2>6, <3>1
    <3>3. \A x \in D : f[x] \in Int /\ g[x] = f[x] + (IF x = t THEN e ELSE 0)
        BY <2>2, <2>3, <3>2
    <3>4. SumFunctionOnSet(g, D) = SumFunctionOnSet(f, D) + e
        BY <2>1, <2>6, <3>3, SumChange
    <3>5. DOMAIN N = D
        BY <1>1, <2>6
    <3> QED
        BY <2>2, <3>4, <3>5 DEF f, g, e
  <2>7. CASE t \notin D
    <3>1. DOMAIN N \ {t} = D /\ t \in DOMAIN N
        BY <1>1, <2>7
    <3>2. SumFunctionOnSet(g, DOMAIN N) = g[t] + SumFunctionOnSet(g, DOMAIN N \ {t})
        BY <2>2, <3>1, SumRemove
    <3>3. \A x \in D : g[x] = f[x]
        BY <2>3, <2>7
    <3>4. SumFunctionOnSet(g, D) = SumFunctionOnSet(f, D)
        BY <2>1, <3>3, SumEqual
    <3>5. \A i \in Int : 1 * i = i
        OBVIOUS
    <3>6. g[t] = e
        BY <2>1, <2>5, <2>7, <3>5
    <3>7. SumFunctionOnSet(f, D) \in Int
        BY <2>1, <2>2, SumInt
    <3>8. SumFunctionOnSet(g, DOMAIN N) = e + SumFunctionOnSet(f, D)
        BY <3>1, <3>2, <3>4, <3>6
    <3>9. \A i, j \in Int : i + j = j + i
        OBVIOUS
    <3>10. e + SumFunctionOnSet(f, D) = SumFunctionOnSet(f, D) + e
        BY <2>1, <3>7, <3>9
    <3> QED
        BY <2>2, <3>8, <3>10 DEF f, g, e
  <2> QED
      BY <2>6, <2>7
<1> QED
    BY <1>2, <1>3 DEF N

LEMMA SettlementLess ==
    ASSUME NEW B, Settlements(B), NEW t \in DOMAIN B
    PROVE  Settlements(B (-) SetToBag({t}))
<1> DEFINE N == B (-) SetToBag({t})
           left == [e \in DOMAIN B |-> IF e \in {t} THEN B[e] - SetToBag({t})[e] ELSE B[e]]
           some == {x \in DOMAIN left : left[x] > 0}
<1>1. N = [x \in some |-> left[x]]
    BY DEF (-), SetToBag
<1>2. some \subseteq DOMAIN B /\ \A x \in some : left[x] \in Nat /\ left[x] > 0
  <2>1. \A x \in DOMAIN B : B[x] \in Nat /\ B[x] > 0
      BY DEF Settlements, IsABag
  <2>2. SetToBag({t})[t] = 1
      BY DEF SetToBag
  <2>3. \A x \in DOMAIN B : left[x] = IF x = t THEN B[x] - 1 ELSE B[x]
      BY <2>2
  <2> QED
      BY <2>1, <2>3
<1> HIDE DEF some, left
<1>3. IsFiniteSet(some)
    BY <1>2, FS_Subset DEF Settlements
<1> QED
    BY <1>1, <1>2, <1>3 DEF Settlements, IsABag

LEMMA OwingType ==
    ASSUME NEW b \in SUBSET Bills, IsFiniteSet(b), NEW B, Settlements(B), NEW n \in Owings
    PROVE  Owing(b, B, n) \in Owings
<1> SUFFICES ASSUME NEW p \in Pairs
             PROVE  SumFunction([x \in b |-> BillDebts[x][p]]) + SumFunction(Weighed(B, p)) + n[p]
                        \in Int
    BY DEF Owing, Owings
<1>1. SumFunction([x \in b |-> BillDebts[x][p]]) \in Int
  <2> DEFINE f == [x \in b |-> BillDebts[x][p]]
  <2>1. \A x \in b : f[x] \in Int
      BY GroupAssumption
  <2>2. DOMAIN f = b
      OBVIOUS
  <2> HIDE DEF f
  <2>3. SumFunction(f) = SumFunctionOnSet(f, b)
      BY <2>2 DEF SumFunction
  <2>4. SumFunction(f) \in Int
      BY <2>1, <2>3, SumInt
  <2> QED
      BY <2>4 DEF f
<1>2. SumFunction(Weighed(B, p)) \in Int
    BY WeighedType
<1>3. n[p] \in Int
    BY DEF Owings
<1> QED
    BY <1>1, <1>2, <1>3

-------------------------------------------------------------------------------
(* The books of a group: what holds between steps.                         *)

Stages == {"idle", "pay", "flag", "pass", "locked", "planned"}

RequestType ==
    [stage : Stages, todo : Seq(Transfers), all : BOOLEAN, tidy : BOOLEAN, plan : Owings]

BooksType ==
    /\ bills \in SUBSET Bills /\ IsFiniteSet(bills)
    /\ Settlements(payments)
    /\ netted \in Owings
    /\ simplify \in BOOLEAN
    /\ lock \in Requests \cup {None}
    /\ request \in [Requests -> RequestType]
    /\ late \in SUBSET Requests
    /\ excused \in BOOLEAN

\* Who holds the row is at work on it, and who is idle has nothing to do.
InOrder(q) ==
    /\ At(q, "locked") \/ At(q, "planned") <=> lock = q
    /\ At(q, "idle") => request[q] = Idle /\ q \notin late
    /\ At(q, "pay") <=> request[q].todo # <<>>
    /\ request[q].all => ~ request[q].tidy /\ ~ At(q, "flag")
    /\ request[q].tidy => ~ At(q, "pay") /\ ~ At(q, "flag")

\* The plan a pass would make now.
PlanNow(tidy) == IF tidy /\ ~ NeedsTidy(Owed) THEN Square ELSE Rewire(Owed)

RightPlan(q) == request[q].plan = PlanNow(request[q].tidy)

\* A plan is right for as long as nobody else has written.
FreshPlan(q) == At(q, "planned") /\ q \notin late => RightPlan(q)

\* What a settle-all has still to record is what people have still to get.
ToGo(q) ==
    request[q].all /\ q \notin late =>
        /\ Distinct(request[q].todo)
        /\ \A u \in Users : Net(Owed, u) = Net(DebtsOf(request[q].todo), u)

\* A request that has yet to lock the row for a pass of its own.
Owes(q) == ~ request[q].tidy /\ (At(q, "pay") \/ At(q, "flag") \/ At(q, "pass"))

\* One whose pass will see everything that is in the books now.
WillSee(q) ==
    \/ Owes(q)
    \/ /\ ~ request[q].tidy
       /\ At(q, "locked") \/ (At(q, "planned") /\ RightPlan(q))

\* Where the stored pairs are not the simplified debts, a pass will make them so.
PassToCome ==
    simplify /\ ~ excused => Owed = Target(Owed) \/ \E q \in Requests : WillSee(q)

\* An outdated plan is followed by the pass of whoever outdated it.
OldPlanFollowed ==
    simplify /\ ~ excused =>
        \A q \in Requests : At(q, "planned") /\ ~ RightPlan(q) =>
            \E r \in Requests : r # q /\ Owes(r)

GroupInv ==
    /\ BooksType
    /\ Settled(netted)
    /\ \A q \in Requests : Settled(request[q].plan)
    /\ \A q \in Requests : InOrder(q)
    /\ \A q \in Requests : FreshPlan(q)
    /\ \A q \in Requests : ToGo(q)
    /\ PassToCome
    /\ OldPlanFollowed

LEMMA IdleIs ==
    /\ Idle \in RequestType
    /\ Idle.stage = "idle" /\ Idle.todo = <<>> /\ Idle.all = FALSE /\ Idle.tidy = FALSE
    /\ Idle.plan = Square /\ Settled(Idle.plan)
<1>1. Square \in Owings /\ Settled(Square)
    BY NetSquare DEF Settled
<1>2. <<>> \in Seq(Transfers)
    BY EmptySeq
<1> QED
    BY <1>1, <1>2 DEF Idle, RequestType, Stages

LEMMA OwedType ==
    ASSUME BooksType
    PROVE  Owed \in Owings
BY OwedIs, OwingType DEF BooksType

LEMMA PlanNowIs ==
    ASSUME BooksType, NEW tidy
    PROVE  PlanNow(tidy) \in Owings /\ Settled(PlanNow(tidy))
<1>1. Square \in Owings /\ Settled(Square)
    BY NetSquare DEF Settled
<1>2. Rewire(Owed) \in Owings /\ Settled(Rewire(Owed))
    BY OwedType, RewireIs, RewireIsNeutral
<1> QED
    BY <1>1, <1>2 DEF PlanNow

LEMMA GroupStarts == ASSUME GroupInit PROVE GroupInv
<1>1. BooksType
  <2>1. Settlements(EmptyBag)
    <3>1. EmptyBag = [x \in {} |-> 1]
        BY DEF EmptyBag, SetToBag
    <3> QED
        BY <3>1, FS_EmptySet DEF Settlements, IsABag
  <2>2. bills \in SUBSET Bills /\ IsFiniteSet(bills) /\ netted \in Owings
      BY FS_EmptySet, NetSquare DEF GroupInit
  <2> QED
      BY <2>1, <2>2, IdleIs DEF GroupInit, BooksType
<1>2. \A q \in Requests : request[q] = Idle /\ lock # q /\ q \notin late
    BY GroupAssumption DEF GroupInit
<1>3. Owed = Square
  <2> SUFFICES ASSUME NEW p \in Pairs
               PROVE  SumFunction([x \in {} |-> BillDebts[x][p]])
                        + SumFunction(Weighed(EmptyBag, p)) + Square[p] = 0
      BY OwedIs DEF Owing, Square, GroupInit
  <2>1. ASSUME NEW f, DOMAIN f = {} PROVE SumFunction(f) = 0
      BY <2>1, SumEmpty DEF SumFunction
  <2>2. DOMAIN Weighed(EmptyBag, p) = {} /\ DOMAIN [x \in {} |-> BillDebts[x][p]] = {}
      BY DEF Weighed, EmptyBag, SetToBag
  <2>3. Square[p] = 0
      BY DEF Square
  <2>4. /\ SumFunction([x \in {} |-> BillDebts[x][p]]) = 0
        /\ SumFunction(Weighed(EmptyBag, p)) = 0
      BY <2>1, <2>2
  <2>5. \A i, j, k \in Int : i = 0 /\ j = 0 /\ k = 0 => i + j + k = 0
      OBVIOUS
  <2> QED
      BY <2>3, <2>4, <2>5
<1>4. Settled(netted) /\ Owed = Target(Owed)
  <2>1. Settled(Square)
      BY NetSquare DEF Settled
  <2>2. Target(Square) = Square
      BY <2>1, NetSquare, SettledIsSquare
  <2> QED
      BY <1>3, <2>1, <2>2 DEF GroupInit
<1>5. ASSUME NEW q \in Requests
      PROVE  Settled(request[q].plan) /\ InOrder(q) /\ FreshPlan(q) /\ ToGo(q)
               /\ ~ At(q, "planned")
  <2>1. ~ At(q, "planned") /\ ~ At(q, "locked") /\ ~ At(q, "pay")
      BY <1>2, IdleIs DEF At
  <2>2. InOrder(q)
      BY <1>2, <2>1, IdleIs DEF InOrder
  <2> QED
      BY <1>2, <2>1, <2>2, IdleIs DEF FreshPlan, ToGo
<1> QED
    BY <1>1, <1>4, <1>5 DEF GroupInv, PassToCome, OldPlanFollowed

\* Somebody else writes: plans get old, and nothing is promised.
LEMMA BillKeeps ==
    ASSUME GroupInv, NEW b \in Bills, AddBill(b) \/ RemoveBill(b)
    PROVE  GroupInv'
<1>1. /\ BooksType /\ UNCHANGED <<payments, netted, simplify, lock, request>>
      /\ excused' = TRUE /\ late' = late \cup Others(None)
      /\ bills' = bills \cup {b} \/ bills' = bills \ {b}
    BY DEF GroupInv, AddBill, RemoveBill
<1>2. BooksType'
  <2>1. bills' \in SUBSET Bills /\ IsFiniteSet(bills')
      BY <1>1, FS_AddElement, FS_RemoveElement DEF BooksType
  <2>2. late' \in SUBSET Requests
      BY <1>1 DEF BooksType, Others
  <2> QED
      BY <1>1, <2>1, <2>2 DEF BooksType
<1>3. ASSUME NEW q \in Requests, ~ At(q, "idle") PROVE q \in late'
    BY <1>1, <1>3, GroupAssumption DEF Others
<1>4. ASSUME NEW q \in Requests
      PROVE  (Settled(request[q].plan) /\ InOrder(q) /\ FreshPlan(q) /\ ToGo(q))'
  <2>1. Settled(request[q].plan) /\ InOrder(q)
      BY DEF GroupInv
  <2>2. At(q, "idle") => q \notin late'
      BY <1>1, <2>1 DEF InOrder, Others
  <2>3. InOrder(q)'
      BY <1>1, <2>1, <2>2 DEF InOrder, At
  <2>4. At(q, "planned") => q \in late'
      BY <1>3 DEF At
  <2>5. request[q].all => q \in late'
      BY <1>3, <2>1, IdleIs DEF InOrder
  <2> QED
      BY <1>1, <2>1, <2>3, <2>4, <2>5 DEF FreshPlan, ToGo, At, Settled
<1>5. Settled(netted)'
    BY <1>1 DEF GroupInv, Settled
<1>6. PassToCome' /\ OldPlanFollowed'
    BY <1>1 DEF PassToCome, OldPlanFollowed
<1> QED
    BY <1>2, <1>4, <1>5, <1>6 DEF GroupInv

LEMMA ToggleKeeps == ASSUME GroupInv, SetGroupSimplify PROVE GroupInv'
<1>1. /\ BooksType /\ UNCHANGED <<bills, payments, netted, lock, request, late>>
      /\ excused' = TRUE /\ simplify' = ~ simplify
    BY DEF GroupInv, SetGroupSimplify
<1>2. BooksType'
    BY <1>1 DEF BooksType
<1>3. Owed' = Owed
    BY <1>1, OwedIs
<1>4. ASSUME NEW q \in Requests
      PROVE  (Settled(request[q].plan) /\ InOrder(q) /\ FreshPlan(q) /\ ToGo(q))'
  <2>1. Settled(request[q].plan) /\ InOrder(q) /\ FreshPlan(q) /\ ToGo(q)
      BY DEF GroupInv
  <2>2. RightPlan(q)' = RightPlan(q)
      BY <1>1, <1>3 DEF RightPlan, PlanNow, NeedsTidy, Settled, Rewire, Target, Nets, Net, Row
  <2> QED
      BY <1>1, <1>3, <2>1, <2>2 DEF InOrder, FreshPlan, ToGo, At, Settled
<1>5. Settled(netted)'
    BY <1>1 DEF GroupInv, Settled
<1>6. PassToCome' /\ OldPlanFollowed'
    BY <1>1 DEF PassToCome, OldPlanFollowed
<1> QED
    BY <1>2, <1>4, <1>5, <1>6 DEF GroupInv

\* A request's own step, seen from the others.
LEMMA OthersStay ==
    ASSUME BooksType, NEW r \in Requests, NEW new,
           request' = [request EXCEPT ![r] = new]
    PROVE  request'[r] = new /\ \A q \in Requests : q # r => request'[q] = request[q]
BY DEF BooksType

LEMMA RequestsType ==
    ASSUME BooksType, NEW r \in Requests, NEW new \in RequestType,
           request' = [request EXCEPT ![r] = new]
    PROVE  request' \in [Requests -> RequestType]
BY DEF BooksType

LEMMA RequestIs ==
    ASSUME BooksType, NEW r \in Requests
    PROVE  /\ request[r] \in RequestType
           /\ request[r].stage \in Stages /\ request[r].todo \in Seq(Transfers)
           /\ request[r].all \in BOOLEAN /\ request[r].tidy \in BOOLEAN
           /\ request[r].plan \in Owings
           /\ request[r] = [stage |-> request[r].stage, todo |-> request[r].todo,
                            all |-> request[r].all, tidy |-> request[r].tidy,
                            plan |-> request[r].plan]
<1>1. request[r] \in RequestType
    BY DEF BooksType
<1> QED
    BY <1>1 DEF RequestType

\* What a plan should be depends on the balances alone.
LEMMA SamePlan ==
    ASSUME Owed' = Owed
    PROVE  \A tidy : PlanNow(tidy)' = PlanNow(tidy)
BY DEF PlanNow, NeedsTidy, Settled, Rewire, Target, Nets, Net, Row

\* A request that writes nothing, of others and of its own promises.
LEMMA OthersKeep ==
    ASSUME GroupInv, NEW r \in Requests, NEW new, request' = [request EXCEPT ![r] = new],
           Owed' = Owed, NEW q \in Requests, q # r,
           lock' = lock \/ (lock # q /\ lock' # q), q \in late' <=> q \in late
    PROVE  /\ (Settled(request[q].plan) /\ InOrder(q) /\ FreshPlan(q) /\ ToGo(q))'
           /\ RightPlan(q)' = RightPlan(q)
           /\ WillSee(q)' = WillSee(q) /\ Owes(q)' = Owes(q)
<1>1. Settled(request[q].plan) /\ InOrder(q) /\ FreshPlan(q) /\ ToGo(q)
    BY DEF GroupInv
<1>2. request'[q] = request[q]
    BY OthersStay DEF GroupInv
<1>3. RightPlan(q)' = RightPlan(q)
    BY <1>2, SamePlan DEF RightPlan
<1>4. WillSee(q)' = WillSee(q) /\ Owes(q)' = Owes(q)
    BY <1>2, <1>3 DEF WillSee, Owes, At
<1>5. Settled(request[q].plan)'
    BY <1>1, <1>2 DEF Settled
<1>6. InOrder(q)'
    BY <1>1, <1>2 DEF InOrder, At
<1>7. FreshPlan(q)' /\ ToGo(q)'
    BY <1>1, <1>2, <1>3 DEF FreshPlan, ToGo, At
<1> QED
    BY <1>3, <1>4, <1>5, <1>6, <1>7

\* A request begins: with transfers to record, or with a tidy-up.
LEMMA BeginKeeps ==
    ASSUME GroupInv, NEW r \in Requests, NEW new \in RequestType, Starts(r, new),
           UNCHANGED <<booksVars, lock, late, excused>>, Settled(new.plan),
           \/ /\ new.stage = "pay" /\ new.todo # <<>> /\ ~ new.tidy
              /\ new.all => /\ Distinct(new.todo)
                            /\ \A u \in Users : Net(Owed, u) = Net(DebtsOf(new.todo), u)
           \/ new.stage = "pass" /\ new.todo = <<>> /\ new.tidy /\ ~ new.all
    PROVE  GroupInv'
<1>1. /\ BooksType /\ request' = [request EXCEPT ![r] = new] /\ At(r, "idle")
      /\ UNCHANGED <<bills, payments, netted, simplify, lock, late, excused>>
    BY DEF GroupInv, Starts, booksVars
<1>2. request'[r] = new /\ Owed' = Owed
    BY <1>1, OthersStay, OwedIs
<1>3. BooksType'
    BY <1>1, RequestsType DEF BooksType
<1>4. InOrder(r) /\ request[r] = Idle /\ r \notin late /\ lock # r
    BY <1>1, IdleIs DEF GroupInv, InOrder, At
<1>5. (Settled(request[r].plan) /\ InOrder(r) /\ FreshPlan(r) /\ ToGo(r))' /\ ~ At(r, "planned")'
  <2>1. Settled(request[r].plan)'
      BY <1>2 DEF Settled
  <2>2. InOrder(r)'
      BY <1>1, <1>2, <1>4 DEF InOrder, At
  <2>3. ~ At(r, "planned")'
      BY <1>2 DEF At
  <2>4. ToGo(r)'
      BY <1>2 DEF ToGo
  <2> QED
      BY <2>1, <2>2, <2>3, <2>4 DEF FreshPlan
<1>6. ASSUME NEW q \in Requests, q # r
      PROVE  /\ (Settled(request[q].plan) /\ InOrder(q) /\ FreshPlan(q) /\ ToGo(q))'
             /\ RightPlan(q)' = RightPlan(q)
             /\ WillSee(q)' = WillSee(q) /\ Owes(q)' = Owes(q) /\ At(q, "planned")' = At(q, "planned")
  <2>1. request'[q] = request[q]
      BY <1>1, <1>6, OthersStay
  <2> QED
      BY <1>1, <1>2, <1>6, <2>1, OthersKeep DEF At
<1>7. ~ Owes(r) /\ ~ WillSee(r)
    BY <1>1 DEF Owes, WillSee, At
<1>8. PassToCome'
  <2> SUFFICES ASSUME simplify, ~ excused
               PROVE  (Owed = Target(Owed))' \/ \E q \in Requests : WillSee(q)'
      BY <1>1 DEF PassToCome
  <2>1. CASE Owed = Target(Owed)
      BY <1>2, <2>1 DEF Target, Nets, Net, Row
  <2>2. CASE \E q \in Requests : WillSee(q)
    <3>1. PICK q \in Requests : WillSee(q)
        BY <2>2
    <3> QED
        BY <1>6, <1>7, <3>1
  <2> QED
      BY <2>1, <2>2 DEF GroupInv, PassToCome
<1>9. OldPlanFollowed'
  <2> SUFFICES ASSUME simplify, ~ excused, NEW q \in Requests,
                      At(q, "planned")', ~ RightPlan(q)'
               PROVE  \E p \in Requests : p # q /\ Owes(p)'
      BY <1>1 DEF OldPlanFollowed
  <2>1. q # r
      BY <1>5
  <2>2. PICK p \in Requests : p # q /\ Owes(p)
      BY <1>6, <2>1 DEF GroupInv, OldPlanFollowed
  <2> QED
      BY <1>6, <1>7, <2>2
<1>10. Settled(netted)'
    BY <1>1 DEF GroupInv, Settled
<1> QED
    BY <1>3, <1>5, <1>6, <1>8, <1>9, <1>10 DEF GroupInv

LEMMA SettleBegins ==
    ASSUME GroupInv, NEW r \in Requests, NEW from \in Users, NEW to \in Users, from # to,
           NEW amount \in Amounts, Starts(r, Single(from, to, amount)),
           UNCHANGED <<booksVars, lock, late, excused>>
    PROVE  GroupInv'
<1> DEFINE t == [from |-> from, to |-> to, amount |-> amount]
           new == Single(from, to, amount)
<1>1. t \in Transfers
    BY GroupAssumption DEF Transfers
<1>2. <<t>> \in Seq(Transfers) /\ <<t>> # <<>>
    BY <1>1
<1>3. /\ new.stage = "pay" /\ new.todo = <<t>> /\ new.all = FALSE /\ new.tidy = FALSE
      /\ new.plan = Square /\ new \in RequestType
    BY <1>2, IdleIs DEF Single, Idle, RequestType, Stages
<1>4. Settled(new.plan)
    BY <1>3, IdleIs
<1> HIDE DEF new, t
<1> QED
    BY <1>2, <1>3, <1>4, BeginKeeps DEF new

LEMMA SettleAllBegins ==
    ASSUME GroupInv, NEW r \in Requests, BeginSettleAll(r)
    PROVE  GroupInv'
<1> DEFINE q == Simplify(Nets(Owed))
           new == [Idle EXCEPT !.stage = "pay", !.todo = q, !.all = TRUE]
<1>1. Owed \in Owings
    BY OwedType DEF GroupInv
<1>2. q \in Seq(Transfers) /\ Distinct(q) /\ Nets(DebtsOf(q)) = Nets(Owed)
    BY <1>1, NetsType, NetsCancel, Simplified
<1>3. q # <<>> /\ Starts(r, new) /\ UNCHANGED <<booksVars, lock, late, excused>>
    BY DEF BeginSettleAll
<1> HIDE DEF q
<1>4. /\ new.stage = "pay" /\ new.todo = q /\ new.all = TRUE /\ new.tidy = FALSE
      /\ new.plan = Square /\ new \in RequestType
    BY <1>2, IdleIs DEF Idle, RequestType, Stages
<1>5. Settled(new.plan)
    BY <1>4, IdleIs
<1> HIDE DEF new
<1>6. \A u \in Users : Net(Owed, u) = Net(DebtsOf(q), u)
  <2>1. \A u \in Users : Nets(DebtsOf(q))[u] = Nets(Owed)[u]
      BY <1>2
  <2> QED
      BY <2>1 DEF Nets
<1> QED
    BY <1>2, <1>3, <1>4, <1>5, <1>6, BeginKeeps

LEMMA TidyBegins ==
    ASSUME GroupInv, NEW r \in Requests, BeginTidy(r)
    PROVE  GroupInv'
<1> DEFINE new == [Idle EXCEPT !.stage = "pass", !.tidy = TRUE]
<1>1. Starts(r, new) /\ UNCHANGED <<booksVars, lock, late, excused>>
    BY DEF BeginTidy
<1>2. /\ new.stage = "pass" /\ new.todo = <<>> /\ new.all = FALSE /\ new.tidy = TRUE
      /\ new.plan = Square /\ new \in RequestType
    BY IdleIs DEF Idle, RequestType, Stages
<1>3. Settled(new.plan)
    BY <1>2, IdleIs
<1> HIDE DEF new
<1> QED
    BY <1>1, <1>2, <1>3, BeginKeeps

\* A settlement is written: others have old plans, and this request owes a pass.
LEMMA WriteKeeps ==
    ASSUME GroupInv, NEW r \in Requests, At(r, "idle") \/ At(r, "pay"),
           NEW new \in RequestType, request' = [request EXCEPT ![r] = new],
           Settlements(payments'), late' = late \cup Others(r),
           UNCHANGED <<bills, netted, simplify, lock, excused>>,
           new.stage \in {"pay", "flag", "pass"}, new.stage = "pay" <=> new.todo # <<>>,
           ~ new.tidy, new.all => new.stage # "flag", Settled(new.plan), ToGo(r)'
    PROVE  GroupInv'
<1>1. BooksType /\ UNCHANGED <<bills, netted, simplify, lock, excused>> /\ request'[r] = new
    BY OthersStay DEF GroupInv
<1>2. BooksType'
  <2>1. late' \in SUBSET Requests
      BY <1>1 DEF BooksType, Others
  <2> QED
      BY <1>1, <2>1, RequestsType DEF BooksType
<1>3. lock # r
    BY DEF GroupInv, InOrder, At
<1>4. (Settled(request[r].plan) /\ InOrder(r) /\ FreshPlan(r) /\ ToGo(r))' /\ Owes(r)'
      /\ ~ At(r, "planned")'
  <2>1. Settled(request[r].plan)'
      BY <1>1 DEF Settled
  <2>2. InOrder(r)'
      BY <1>1, <1>3 DEF InOrder, At
  <2>3. Owes(r)' /\ ~ At(r, "planned")'
      BY <1>1 DEF Owes, At
  <2> QED
      BY <2>1, <2>2, <2>3 DEF FreshPlan
<1>5. ASSUME NEW q \in Requests, q # r
      PROVE  (Settled(request[q].plan) /\ InOrder(q) /\ FreshPlan(q) /\ ToGo(q))'
  <2>1. Settled(request[q].plan) /\ InOrder(q) /\ request'[q] = request[q]
      BY <1>1, <1>5, OthersStay DEF GroupInv
  <2>2. At(q, "idle") => q \notin late'
      BY <2>1 DEF InOrder, Others
  <2>3. ~ At(q, "idle") => q \in late'
      BY <1>5 DEF Others
  <2>4. InOrder(q)'
      BY <1>1, <2>1, <2>2 DEF InOrder, At
  <2>5. At(q, "planned") => q \in late'
      BY <2>3 DEF At
  <2>6. request[q].all => q \in late'
      BY <2>1, <2>3, IdleIs DEF InOrder
  <2> QED
      BY <2>1, <2>4, <2>5, <2>6 DEF FreshPlan, ToGo, At, Settled
<1>6. Settled(netted)'
    BY <1>1 DEF GroupInv, Settled
<1>7. PassToCome'
    BY <1>4 DEF PassToCome, WillSee
<1>8. OldPlanFollowed'
    BY <1>4 DEF OldPlanFollowed
<1> QED
    BY <1>2, <1>4, <1>5, <1>6, <1>7, <1>8 DEF GroupInv

\* A list of transfers is its first and the rest.
LEMMA FirstAndRest ==
    ASSUME NEW q \in Seq(Transfers), q # <<>>, Distinct(q)
    PROVE  /\ q[1] \in Transfers /\ Tail(q) \in Seq(Transfers) /\ Distinct(Tail(q))
           /\ q[1] \notin ToSet(Tail(q)) /\ ToSet(q) = ToSet(Tail(q)) \cup {q[1]}
<1>1. /\ Len(q) \in Nat \ {0} /\ 1 \in 1..Len(q) /\ q[1] \in Transfers
      /\ Tail(q) \in Seq(Transfers) /\ Len(Tail(q)) = Len(q) - 1
      /\ \A i \in 1..Len(Tail(q)) : Tail(q)[i] = q[i + 1]
    BY EmptySeq, HeadTailProperties
<1>2. \A i \in 1..Len(Tail(q)) : i + 1 \in 1..Len(q) /\ i + 1 # 1 /\ Tail(q)[i] = q[i + 1]
    BY <1>1
<1>3. \A i \in 1..Len(q) : i = 1 \/ (i - 1 \in 1..Len(Tail(q)) /\ Tail(q)[i - 1] = q[i])
    BY <1>1
<1>4. Distinct(Tail(q))
  <2> SUFFICES ASSUME NEW i \in 1..Len(Tail(q)), NEW j \in 1..Len(Tail(q)), i # j
               PROVE  Tail(q)[i].from # Tail(q)[j].from \/ Tail(q)[i].to # Tail(q)[j].to
      BY DEF Distinct
  <2>1. i + 1 \in 1..Len(q) /\ j + 1 \in 1..Len(q) /\ i + 1 # j + 1
      BY <1>1
  <2> QED
      BY <1>2, <2>1 DEF Distinct
<1>5. q[1] \notin ToSet(Tail(q))
  <2>1. \A i \in 1..Len(Tail(q)) : Tail(q)[i] # q[1]
      BY <1>1, <1>2 DEF Distinct
  <2>2. \A x \in ToSet(Tail(q)) : \E i \in 1..Len(Tail(q)) : Tail(q)[i] = x
      BY <1>1, ToSetIs
  <2> QED
      BY <2>1, <2>2
<1>6. ToSet(q) \subseteq ToSet(Tail(q)) \cup {q[1]}
  <2>1. \A x \in ToSet(q) : \E i \in 1..Len(q) : q[i] = x
      BY ToSetIs
  <2>2. \A i \in 1..Len(Tail(q)) : Tail(q)[i] \in ToSet(Tail(q))
      BY <1>1, ToSetIs
  <2>3. \A i \in 1..Len(q) : q[i] \in ToSet(Tail(q)) \cup {q[1]}
      BY <1>3, <2>2
  <2> QED
      BY <2>1, <2>3
<1>7. ToSet(Tail(q)) \cup {q[1]} \subseteq ToSet(q)
  <2>1. ToSet(Tail(q)) \subseteq ToSet(q)
    <3> SUFFICES ASSUME NEW x \in ToSet(Tail(q)) PROVE x \in ToSet(q)
        OBVIOUS
    <3>1. PICK i \in 1..Len(Tail(q)) : Tail(q)[i] = x
        BY <1>1, ToSetIs
    <3> QED
        BY <1>2, <3>1, ToSetIs
  <2> QED
      BY <1>1, <2>1, ToSetIs
<1> QED
    BY <1>1, <1>4, <1>5, <1>6, <1>7

LEMMA PayKeeps == ASSUME GroupInv, NEW r \in Requests, Pay(r) PROVE GroupInv'
<1> DEFINE q == request[r].todo
           t == q[1]
           rest == Tail(q)
           new == [request[r] EXCEPT !.todo = rest,
                        !.stage = IF rest = <<>> THEN AfterLast(request[r]) ELSE "pay"]
<1>1. /\ BooksType /\ At(r, "pay") /\ payments' = payments (+) SetToBag({t})
      /\ late' = late \cup Others(r) /\ UNCHANGED <<bills, netted, simplify, lock, excused>>
    BY DEF GroupInv, Pay
<1>2. InOrder(r) /\ ToGo(r) /\ Settled(request[r].plan) /\ request[r] \in RequestType
      /\ q \in Seq(Transfers) /\ q # <<>> /\ request[r].all \in BOOLEAN
      /\ request[r].tidy = FALSE /\ request[r].plan \in Owings
  <2>1. InOrder(r) /\ ToGo(r) /\ Settled(request[r].plan)
      BY DEF GroupInv
  <2>2. ~ request[r].tidy /\ q # <<>>
      BY <1>1, <2>1 DEF InOrder
  <2> QED
      BY <1>1, <2>1, <2>2, RequestIs
<1>3. t \in Transfers /\ rest \in Seq(Transfers)
    BY <1>2, EmptySeq, HeadTailProperties
<1>4. request' = [request EXCEPT ![r] = new]
  <2> DEFINE after == IF rest = <<>> THEN AfterLast(request[r]) ELSE "pay"
  <2>1. request \in [Requests -> RequestType]
      BY <1>1 DEF BooksType
  <2>2. request' = [request EXCEPT ![r].todo = rest, ![r].stage = after]
      BY DEF Pay
  <2>3. new = [request[r] EXCEPT !.todo = rest, !.stage = after]
      OBVIOUS
  <2> HIDE DEF rest, after, new
  <2> QED
      BY <2>1, <2>2, <2>3 DEF RequestType
<1>5. Settlements(payments') /\ Owed' = Plus(Owed, Effect(t))
  <2>1. Settlements(payments)
      BY <1>1 DEF BooksType
  <2>2. Settlements(payments')
        /\ \A p \in Pairs : SumFunction(Weighed(payments', p))
                              = SumFunction(Weighed(payments, p)) + Effect(t)[p]
      BY <1>1, <1>3, <2>1, SettlementMore
  <2>3. ASSUME NEW p \in Pairs PROVE Owed'[p] = Owed[p] + Effect(t)[p]
    <3> DEFINE a == SumFunction([x \in bills |-> BillDebts[x][p]])
               b == SumFunction(Weighed(payments, p))
    <3>1. Owed[p] = a + b + netted[p] /\ Owed'[p] = a + (b + Effect(t)[p]) + netted[p]
        BY <1>1, <2>2, OwedIs DEF Owing
    <3>2. b \in Int /\ netted[p] \in Int /\ Effect(t)[p] \in Int
        BY <1>1, <1>3, <2>1, WeighedType, EffectIs DEF BooksType, Owings
    <3>3. a \in Int
      <4> DEFINE f == [x \in bills |-> BillDebts[x][p]]
      <4>1. \A x \in bills : f[x] \in Int
          BY <1>1, GroupAssumption DEF BooksType
      <4>2. DOMAIN f = bills
          OBVIOUS
      <4> HIDE DEF f
      <4>3. SumFunction(f) = SumFunctionOnSet(f, bills)
          BY <4>2 DEF SumFunction
      <4>4. SumFunction(f) \in Int
          BY <1>1, <4>1, <4>3, SumInt DEF BooksType
      <4> QED
          BY <4>4 DEF f
    <3> HIDE DEF a, b
    <3> QED
        BY <3>1, <3>2, <3>3
  <2>4. Owed' = [p \in Pairs |-> Owed'[p]]
      BY OwedIs DEF Owing
  <2> QED
      BY <2>2, <2>3, <2>4 DEF Plus
<1> HIDE DEF q, t
<1>6. /\ new \in RequestType /\ new.todo = rest /\ new.all = request[r].all
      /\ new.tidy = FALSE /\ new.plan = request[r].plan
      /\ new.stage = (IF rest = <<>> THEN (IF request[r].all THEN "pass" ELSE "flag") ELSE "pay")
    BY <1>2, <1>3 DEF RequestType, Stages, AfterLast
<1> HIDE DEF new, rest
<1>7. ToGo(r)'
  <2> SUFFICES ASSUME request[r].all, r \notin late
               PROVE  Distinct(rest) /\ \A u \in Users : Net(Owed', u) = Net(DebtsOf(rest), u)
    <3>1. request'[r] = new
        BY <1>1, <1>4, OthersStay
    <3>2. r \in late' <=> r \in late
        BY <1>1 DEF Others
    <3>3. request'[r].all = request[r].all /\ request'[r].todo = rest
        BY <1>6, <3>1
    <3> QED
        BY <3>2, <3>3 DEF ToGo, Net, Row
  <2>1. Distinct(q) /\ \A u \in Users : Net(Owed, u) = Net(DebtsOf(q), u)
      BY <1>2 DEF ToGo, q
  <2>2. Distinct(rest) /\ t \notin ToSet(rest) /\ ToSet(q) = ToSet(rest) \cup {t}
      BY <1>2, <2>1, FirstAndRest DEF rest, t
  <2>3. DebtsOf(q) = Moved(DebtsOf(rest), t.to, t.from, t.amount) /\ DebtsOf(rest) \in Owings
      BY <1>2, <1>3, <2>2, DebtsOfMore, DebtsOfIs
  <2>4. ASSUME NEW u \in Users PROVE Net(Owed', u) = Net(DebtsOf(rest), u)
    <3>1. /\ t.from \in Users /\ t.to \in Users /\ t.from # t.to /\ t.amount \in Int
          /\ Effect(t) \in Owings /\ Owed \in Owings
        BY <1>1, <1>3, TransferType, EffectIs, OwedType
    <3>2. Net(Plus(Owed, Effect(t)), u) = Net(Owed, u) + Net(Effect(t), u)
        BY <3>1, NetPlus
    <3>3. Net(Effect(t), u) = IF u = t.from THEN t.amount ELSE IF u = t.to THEN - t.amount ELSE 0
        BY <1>3, EffectIs
    <3>4. Net(DebtsOf(q), u) = Net(DebtsOf(rest), u)
            + (IF u = t.to THEN t.amount ELSE IF u = t.from THEN - t.amount ELSE 0)
        BY <2>3, <3>1, NetMoved
    <3>5. Net(DebtsOf(rest), u) \in Int
        BY <2>3, NetIs
    <3>6. Net(Owed, u) = Net(DebtsOf(q), u)
        BY <2>1
    <3>7. Net(Plus(Owed, Effect(t)), u) = Net(DebtsOf(rest), u)
        BY <3>1, <3>2, <3>3, <3>4, <3>5, <3>6
    <3> QED
        BY <1>5, <3>7
  <2> QED
      BY <2>2, <2>4
<1>8. Settled(new.plan)
    BY <1>2, <1>6
<1>9. /\ new.stage \in {"pay", "flag", "pass"} /\ (new.stage = "pay" <=> new.todo # <<>>)
      /\ ~ new.tidy /\ (new.all => new.stage # "flag")
    BY <1>2, <1>6
<1> QED
    BY <1>1, <1>4, <1>5, <1>6, <1>7, <1>8, <1>9, WriteKeeps

LEMMA ChangeKeeps ==
    ASSUME GroupInv, NEW r \in Requests, NEW t \in BagToSet(payments), NEW amount,
           (amount \in Amounts /\ EditPayment(r, t, amount)) \/ DeletePayment(r, t)
    PROVE  GroupInv'
<1> DEFINE new == [Idle EXCEPT !.stage = "flag"]
           less == payments (-) SetToBag({t})
           other == [t EXCEPT !.amount = amount]
<1>1. /\ BooksType /\ At(r, "idle") /\ request' = [request EXCEPT ![r] = new]
      /\ payments' = less \/ (amount \in Amounts /\ payments' = less (+) SetToBag({other}))
      /\ late' = late \cup Others(r) /\ UNCHANGED <<bills, netted, simplify, lock, excused>>
    BY DEF GroupInv, EditPayment, DeletePayment, Starts
<1>2. Settlements(payments) /\ t \in DOMAIN payments /\ t \in Transfers
    BY <1>1 DEF BooksType, Settlements, BagToSet
<1>3. ASSUME amount \in Amounts PROVE other \in Transfers
  <2>1. amount \in Nat \ {0}
      BY <1>3, GroupAssumption
  <2> QED
      BY <1>2, <2>1 DEF Transfers
<1>4. Settlements(payments')
  <2>1. Settlements(less)
      BY <1>2, SettlementLess
  <2> HIDE DEF less, other
  <2> QED
      BY <1>1, <1>3, <2>1, SettlementMore
<1>5. /\ new.stage = "flag" /\ new.todo = <<>> /\ new.all = FALSE /\ new.tidy = FALSE
      /\ new.plan = Square /\ new \in RequestType
    BY IdleIs DEF Idle, RequestType, Stages
<1>6. Settled(new.plan)
    BY <1>5, IdleIs
<1> HIDE DEF new
<1>7. ToGo(r)'
  <2>1. request'[r] = new
      BY <1>1, OthersStay
  <2> QED
      BY <1>5, <2>1 DEF ToGo
<1> QED
    BY <1>1, <1>4, <1>5, <1>6, <1>7, WriteKeeps

LEMMA GoesIs ==
    ASSUME BooksType, NEW r \in Requests, NEW stage \in Stages, Goes(r, stage)
    PROVE  /\ request' = [request EXCEPT ![r] = [request[r] EXCEPT !.stage = stage]]
           /\ [request[r] EXCEPT !.stage = stage] \in RequestType
           /\ request'[r].stage = stage /\ request'[r].todo = request[r].todo
           /\ request'[r].all = request[r].all /\ request'[r].tidy = request[r].tidy
           /\ request'[r].plan = request[r].plan
<1>1. request' = [request EXCEPT ![r] = [request[r] EXCEPT !.stage = stage]]
    BY DEF Goes, BooksType
<1>2. request'[r] = [request[r] EXCEPT !.stage = stage]
    BY <1>1, OthersStay
<1>3. request[r] \in RequestType
    BY RequestIs
<1> QED
    BY <1>1, <1>2, <1>3 DEF RequestType

\* A request ends and leaves the balances alone.
LEMMA EndKeeps ==
    ASSUME GroupInv, NEW r \in Requests, Ends(r), UNCHANGED booksVars,
           lock' = IF lock = r THEN None ELSE lock, excused' \in BOOLEAN,
           excused' \/ (~ simplify /\ excused' = excused)
    PROVE  GroupInv'
<1>1. /\ BooksType /\ request' = [request EXCEPT ![r] = Idle] /\ late' = late \ {r}
      /\ UNCHANGED <<bills, payments, netted, simplify>>
    BY DEF GroupInv, Ends, booksVars
<1>2. request'[r] = Idle /\ Owed' = Owed
    BY <1>1, OthersStay, OwedIs
<1>3. BooksType'
  <2>1. request' \in [Requests -> RequestType]
      BY <1>1, IdleIs, RequestsType
  <2> QED
      BY <1>1, <2>1 DEF BooksType
<1>4. (Settled(request[r].plan) /\ InOrder(r) /\ FreshPlan(r) /\ ToGo(r))'
  <2>1. Settled(request[r].plan)'
      BY <1>2, IdleIs DEF Settled
  <2>2. InOrder(r)'
    <3>1. lock' # r
        BY GroupAssumption
    <3> QED
        BY <1>1, <1>2, <3>1, IdleIs DEF InOrder, At
  <2> QED
      BY <1>2, <2>1, <2>2, IdleIs DEF FreshPlan, ToGo, At
<1>5. ASSUME NEW q \in Requests, q # r
      PROVE  (Settled(request[q].plan) /\ InOrder(q) /\ FreshPlan(q) /\ ToGo(q))'
  <2>1. lock' = lock \/ (lock # q /\ lock' # q)
      BY <1>5, GroupAssumption
  <2> QED
      BY <1>1, <1>2, <1>5, <2>1, OthersKeep
<1>6. Settled(netted)'
    BY <1>1 DEF GroupInv, Settled
<1>7. PassToCome' /\ OldPlanFollowed'
    BY <1>1 DEF PassToCome, OldPlanFollowed
<1> QED
    BY <1>3, <1>4, <1>5, <1>6, <1>7 DEF GroupInv

LEMMA FailKeeps == ASSUME GroupInv, NEW r \in Requests, Fail(r) PROVE GroupInv'
BY EndKeeps DEF Fail

\* A request goes on towards its plan.
LEMMA GoesOn ==
    ASSUME GroupInv, NEW r \in Requests, NEW stage \in {"pass", "locked"}, Goes(r, stage),
           UNCHANGED <<booksVars, late, excused>>,
           \/ stage = "pass" /\ At(r, "flag") /\ lock' = lock
           \/ stage = "locked" /\ At(r, "pass") /\ lock = None /\ lock' = r
    PROVE  GroupInv'
<1> DEFINE new == [request[r] EXCEPT !.stage = stage]
<1>1. /\ BooksType /\ UNCHANGED <<bills, payments, netted, simplify, late, excused>>
    BY DEF GroupInv, booksVars
<1>2. /\ request' = [request EXCEPT ![r] = new] /\ new \in RequestType
      /\ request'[r].stage = stage /\ request'[r].todo = request[r].todo
      /\ request'[r].all = request[r].all /\ request'[r].tidy = request[r].tidy
      /\ request'[r].plan = request[r].plan
    BY <1>1, GoesIs DEF Stages
<1> HIDE DEF new
<1>3. Owed' = Owed
    BY <1>1, OwedIs
<1>4. BooksType'
  <2>1. request' \in [Requests -> RequestType]
      BY <1>1, <1>2, RequestsType
  <2> QED
      BY <1>1, <2>1 DEF BooksType
<1>5. InOrder(r) /\ ToGo(r) /\ Settled(request[r].plan)
    BY DEF GroupInv
<1>6. (Settled(request[r].plan) /\ InOrder(r) /\ FreshPlan(r) /\ ToGo(r))'
  <2>1. Settled(request[r].plan)'
      BY <1>2, <1>5 DEF Settled
  <2>2. InOrder(r)'
      BY <1>2, <1>5, GroupAssumption DEF InOrder, At
  <2>3. ToGo(r)'
      BY <1>1, <1>2, <1>3, <1>5 DEF ToGo
  <2> QED
      BY <1>2, <2>1, <2>2, <2>3 DEF FreshPlan, At
<1>7. ASSUME NEW q \in Requests, q # r
      PROVE  /\ (Settled(request[q].plan) /\ InOrder(q) /\ FreshPlan(q) /\ ToGo(q))'
             /\ RightPlan(q)' = RightPlan(q)
             /\ WillSee(q)' = WillSee(q) /\ Owes(q)' = Owes(q) /\ At(q, "planned")' = At(q, "planned")
  <2>1. lock' = lock \/ (lock # q /\ lock' # q)
      BY <1>7, GroupAssumption
  <2>2. request'[q] = request[q]
      BY <1>1, <1>2, <1>7, OthersStay
  <2> QED
      BY <1>1, <1>2, <1>3, <1>7, <2>1, <2>2, OthersKeep DEF At
<1>8. ~ At(r, "planned")' /\ (WillSee(r) => WillSee(r)')
    BY <1>2 DEF WillSee, Owes, At
<1>9. PassToCome'
  <2> SUFFICES ASSUME simplify, ~ excused
               PROVE  (Owed = Target(Owed))' \/ \E q \in Requests : WillSee(q)'
      BY <1>1 DEF PassToCome
  <2>1. CASE Owed = Target(Owed)
      BY <1>3, <2>1 DEF Target, Nets, Net, Row
  <2>2. CASE \E q \in Requests : WillSee(q)
      BY <1>7, <1>8, <2>2
  <2> QED
      BY <2>1, <2>2 DEF GroupInv, PassToCome
<1>10. OldPlanFollowed'
  <2> SUFFICES ASSUME simplify, ~ excused, NEW q \in Requests,
                      At(q, "planned")', ~ RightPlan(q)'
               PROVE  \E p \in Requests : p # q /\ Owes(p)'
      BY <1>1 DEF OldPlanFollowed
  <2>1. q # r
      BY <1>8
  <2>2. At(q, "planned") /\ ~ RightPlan(q)
      BY <1>7, <2>1
  <2>3. PICK p \in Requests : p # q /\ Owes(p)
      BY <2>2 DEF GroupInv, OldPlanFollowed
  <2>4. lock = q
      BY <2>2 DEF GroupInv, InOrder
  <2>5. stage = "pass"
      BY <2>4, GroupAssumption
  <2>6. Owes(r) => Owes(r)'
      BY <1>2, <2>5 DEF Owes, At
  <2> QED
      BY <1>7, <2>3, <2>6
<1>11. Settled(netted)'
    BY <1>1 DEF GroupInv, Settled
<1> QED
    BY <1>4, <1>6, <1>7, <1>9, <1>10, <1>11 DEF GroupInv

LEMMA FlagKeeps == ASSUME GroupInv, NEW r \in Requests, renetIfSimplified(r) PROVE GroupInv'
<1>1. CASE simplify
    BY <1>1, GoesOn DEF renetIfSimplified
<1>2. CASE ~ simplify
  <2>1. /\ Ends(r) /\ UNCHANGED booksVars /\ lock' = lock /\ excused' = excused /\ At(r, "flag")
        /\ excused \in BOOLEAN
      BY <1>2 DEF renetIfSimplified, GroupInv, BooksType
  <2>2. lock # r
      BY <2>1 DEF GroupInv, InOrder, At
  <2> QED
      BY <1>2, <2>1, <2>2, EndKeeps
<1> QED
    BY <1>1, <1>2

LEMMA LockKeeps == ASSUME GroupInv, NEW r \in Requests, LockGroup(r) PROVE GroupInv'
BY GoesOn DEF LockGroup

LEMMA PlanKeeps == ASSUME GroupInv, NEW r \in Requests, PlanPass(r) PROVE GroupInv'
<1> DEFINE plan == PlanNow(request[r].tidy)
           new == [request[r] EXCEPT !.stage = "planned", !.plan = plan]
<1>1. /\ BooksType /\ At(r, "locked")
      /\ UNCHANGED <<bills, payments, netted, simplify, lock, late, excused>>
    BY DEF GroupInv, PlanPass, booksVars
<1>2. plan \in Owings /\ Settled(plan)
    BY <1>1, PlanNowIs
<1>3. request' = [request EXCEPT ![r] = new]
  <2>1. request' = [request EXCEPT ![r].stage = "planned", ![r].plan = plan]
      BY DEF PlanPass, PlanNow
  <2>2. request \in [Requests -> RequestType]
      BY <1>1 DEF BooksType
  <2> HIDE DEF plan
  <2> QED
      BY <2>1, <2>2 DEF RequestType
<1> HIDE DEF plan
<1>4. /\ new \in RequestType /\ new.stage = "planned" /\ new.todo = request[r].todo
      /\ new.all = request[r].all /\ new.tidy = request[r].tidy /\ new.plan = plan
  <2>1. request[r] \in RequestType
      BY <1>1, RequestIs
  <2> QED
      BY <1>2, <2>1 DEF RequestType, Stages
<1> HIDE DEF new
<1>5. request'[r] = new /\ Owed' = Owed
    BY <1>1, <1>3, OthersStay, OwedIs
<1>6. BooksType'
  <2>1. request' \in [Requests -> RequestType]
      BY <1>1, <1>3, <1>4, RequestsType
  <2> QED
      BY <1>1, <2>1 DEF BooksType
<1>7. InOrder(r) /\ ToGo(r) /\ lock = r
    BY <1>1 DEF GroupInv, InOrder
<1>8. RightPlan(r)'
  <2>1. \A tidy : PlanNow(tidy)' = PlanNow(tidy)
      BY <1>5, SamePlan
  <2>2. request'[r].plan = PlanNow(request[r].tidy) /\ request'[r].tidy = request[r].tidy
      BY <1>4, <1>5 DEF plan
  <2> QED
      BY <2>1, <2>2 DEF RightPlan
<1>9. (Settled(request[r].plan) /\ InOrder(r) /\ FreshPlan(r) /\ ToGo(r))'
  <2>1. Settled(request[r].plan)'
      BY <1>2, <1>4, <1>5 DEF Settled
  <2>2. InOrder(r)'
      BY <1>1, <1>4, <1>5, <1>7 DEF InOrder, At
  <2>3. ToGo(r)'
      BY <1>1, <1>4, <1>5, <1>7 DEF ToGo
  <2> QED
      BY <1>8, <2>1, <2>2, <2>3 DEF FreshPlan
<1>10. ASSUME NEW q \in Requests, q # r
       PROVE  /\ (Settled(request[q].plan) /\ InOrder(q) /\ FreshPlan(q) /\ ToGo(q))'
              /\ WillSee(q)' = WillSee(q) /\ ~ At(q, "planned")'
  <2>1. ~ At(q, "planned") /\ request'[q] = request[q]
      BY <1>1, <1>3, <1>7, <1>10, OthersStay DEF GroupInv, InOrder
  <2> QED
      BY <1>1, <1>3, <1>5, <1>10, <2>1, OthersKeep DEF At
<1>11. WillSee(r) => WillSee(r)'
    BY <1>1, <1>4, <1>5, <1>8 DEF WillSee, Owes, At
<1>12. PassToCome'
  <2> SUFFICES ASSUME simplify, ~ excused
               PROVE  (Owed = Target(Owed))' \/ \E q \in Requests : WillSee(q)'
      BY <1>1 DEF PassToCome
  <2>1. CASE Owed = Target(Owed)
      BY <1>5, <2>1 DEF Target, Nets, Net, Row
  <2>2. CASE \E q \in Requests : WillSee(q)
      BY <1>10, <1>11, <2>2
  <2> QED
      BY <2>1, <2>2 DEF GroupInv, PassToCome
<1>13. OldPlanFollowed'
    BY <1>8, <1>10 DEF OldPlanFollowed
<1>14. Settled(netted)'
    BY <1>1 DEF GroupInv, Settled
<1> QED
    BY <1>6, <1>9, <1>10, <1>12, <1>13, <1>14 DEF GroupInv

\* What a pass writes: its plan, on top of the balances.
LEMMA CommitIs ==
    ASSUME GroupInv, NEW r \in Requests, CommitPass(r)
    PROVE  /\ lock = r /\ request[r].plan \in Owings /\ Settled(request[r].plan)
           /\ netted' \in Owings /\ Settled(netted')
           /\ Owed \in Owings /\ Owed' \in Owings
           /\ Owed' = Plus(Owed, request[r].plan)
           /\ \A u \in Users : Net(Owed', u) = Net(Owed, u)
           /\ RightPlan(r) /\ ~ request[r].tidy => Owed' = Target(Owed)
           /\ RightPlan(r) /\ request[r].tidy => Owed' = Owed \/ Owed' = Target(Owed)
<1> DEFINE plan == request[r].plan
<1>1. /\ BooksType /\ At(r, "planned") /\ netted' = Plus(netted, plan)
      /\ bills' = bills /\ payments' = payments
    BY DEF GroupInv, CommitPass
<1>2. lock = r /\ plan \in Owings /\ Settled(plan) /\ Settled(netted) /\ netted \in Owings
    BY <1>1, RequestIs DEF GroupInv, InOrder, BooksType
<1>3. Owed \in Owings
    BY <1>1, OwedType
<1> HIDE DEF plan
<1>4. Owed' = Plus(Owed, plan)
  <2>1. ASSUME NEW p \in Pairs PROVE Owed'[p] = Owed[p] + plan[p]
    <3> DEFINE a == SumFunction([x \in bills |-> BillDebts[x][p]])
               b == SumFunction(Weighed(payments, p))
    <3>1. Owed[p] = a + b + netted[p] /\ Owed'[p] = a + b + (netted[p] + plan[p])
        BY <1>1, OwedIs DEF Owing, Plus
    <3>2. netted[p] \in Int /\ plan[p] \in Int
        BY <1>2 DEF Owings
    <3>3. a + b + netted[p] \in Int
        BY <1>3, <3>1 DEF Owings
    <3>4. b \in Int
        BY <1>1, WeighedType DEF BooksType
    <3>5. a \in Int
      <4> DEFINE f == [x \in bills |-> BillDebts[x][p]]
      <4>1. \A x \in bills : f[x] \in Int
          BY <1>1, GroupAssumption DEF BooksType
      <4>2. DOMAIN f = bills
          OBVIOUS
      <4> HIDE DEF f
      <4>3. SumFunction(f) = SumFunctionOnSet(f, bills)
          BY <4>2 DEF SumFunction
      <4>4. SumFunction(f) \in Int
          BY <1>1, <4>1, <4>3, SumInt DEF BooksType
      <4> QED
          BY <4>4 DEF f
    <3> HIDE DEF a, b
    <3> QED
        BY <3>1, <3>2, <3>4, <3>5
  <2>2. Owed' = [p \in Pairs |-> Owed'[p]]
      BY OwedIs DEF Owing
  <2> QED
      BY <2>1, <2>2 DEF Plus
<1>5. Owed' \in Owings /\ netted' \in Owings
    BY <1>1, <1>2, <1>3, <1>4, PlusType
<1>6. ASSUME NEW u \in Users
      PROVE  Net(Owed', u) = Net(Owed, u) /\ Net(netted', u) = 0
  <2>1. Net(plan, u) = 0 /\ Net(netted, u) = 0 /\ Net(Owed, u) \in Int
      BY <1>2, <1>3, NetIs DEF Settled
  <2>2. /\ Net(Plus(Owed, plan), u) = Net(Owed, u) + Net(plan, u)
        /\ Net(Plus(netted, plan), u) = Net(netted, u) + Net(plan, u)
      BY <1>2, <1>3, NetPlus
  <2>3. Net(Plus(Owed, plan), u) = Net(Owed, u) /\ Net(Plus(netted, plan), u) = 0
      BY <2>1, <2>2
  <2> QED
      BY <1>1, <1>4, <2>3
<1>7. Settled(netted')
    BY <1>6 DEF Settled
<1>8. Plus(Owed, Rewire(Owed)) = Target(Owed)
    BY <1>3, RewireIs
<1>9. Plus(Owed, Square) = Owed
  <2>1. \A p \in Pairs : Owed[p] \in Int /\ Owed[p] + 0 = Owed[p]
      BY <1>3 DEF Owings
  <2> QED
      BY <1>3, <2>1 DEF Plus, Square, Owings
<1>10. RightPlan(r) /\ ~ request[r].tidy => Owed' = Target(Owed)
    BY <1>4, <1>8 DEF RightPlan, PlanNow, plan
<1>11. RightPlan(r) /\ request[r].tidy => Owed' = Owed \/ Owed' = Target(Owed)
    BY <1>4, <1>8, <1>9 DEF RightPlan, PlanNow, plan
<1> QED
    BY <1>2, <1>3, <1>4, <1>5, <1>6, <1>7, <1>10, <1>11 DEF plan

LEMMA CommitKeeps == ASSUME GroupInv, NEW r \in Requests, CommitPass(r) PROVE GroupInv'
<1>1. /\ BooksType /\ At(r, "planned") /\ request' = [request EXCEPT ![r] = Idle]
      /\ late' = late \ {r} /\ lock' = None
      /\ excused' = (excused /\ (request[r].tidy \/ r \in late))
      /\ UNCHANGED <<bills, payments, simplify>> /\ lock = r /\ netted' \in Owings
      /\ Settled(netted')
    BY CommitIs DEF GroupInv, CommitPass, Ends
<1>2. request'[r] = Idle
    BY <1>1, OthersStay
<1>3. BooksType'
  <2>1. request' \in [Requests -> RequestType]
      BY <1>1, IdleIs, RequestsType
  <2>2. excused' \in BOOLEAN
      BY <1>1
  <2> QED
      BY <1>1, <2>1, <2>2 DEF BooksType
<1>4. (Settled(request[r].plan) /\ InOrder(r) /\ FreshPlan(r) /\ ToGo(r))'
      /\ ~ At(r, "planned")'
  <2>1. Settled(request[r].plan)'
      BY <1>2, IdleIs DEF Settled
  <2>2. InOrder(r)'
      BY <1>1, <1>2, IdleIs, GroupAssumption DEF InOrder, At
  <2> QED
      BY <1>2, <2>1, <2>2, IdleIs DEF FreshPlan, ToGo, At
<1>5. ASSUME NEW q \in Requests, q # r
      PROVE  /\ (Settled(request[q].plan) /\ InOrder(q) /\ FreshPlan(q) /\ ToGo(q))'
             /\ (WillSee(q) => WillSee(q)') /\ (Owes(q) => WillSee(q)') /\ ~ At(q, "planned")'
  <2>1. request'[q] = request[q]
      BY <1>1, <1>5, OthersStay
  <2>2. Settled(request[q].plan) /\ InOrder(q) /\ ToGo(q)
      BY DEF GroupInv
  <2>3. ~ At(q, "planned") /\ ~ At(q, "locked") /\ ~ At(q, "planned")'
      BY <1>1, <1>5, <2>1, <2>2 DEF InOrder, At
  <2>4. Settled(request[q].plan)'
      BY <2>1, <2>2 DEF Settled
  <2>5. InOrder(q)'
      BY <1>1, <1>5, <2>1, <2>2, <2>3, GroupAssumption DEF InOrder, At
  <2>6. ToGo(q)'
    <3>1. \A u \in Users : Net(Owed', u) = Net(Owed, u)
        BY CommitIs
    <3>2. q \in late' <=> q \in late
        BY <1>1, <1>5
    <3>3. request[q].all /\ q \notin late =>
             Distinct(request[q].todo)
             /\ \A u \in Users : Net(Owed', u) = Net(DebtsOf(request[q].todo), u)
        BY <2>2, <3>1 DEF ToGo
    <3> QED
        BY <2>1, <3>2, <3>3 DEF ToGo, Net, Row
  <2>7. WillSee(q) \/ Owes(q) => Owes(q)
      BY <2>3 DEF WillSee
  <2>8. Owes(q) => WillSee(q)'
      BY <2>1 DEF WillSee, Owes, At
  <2> QED
      BY <2>3, <2>4, <2>5, <2>6, <2>7, <2>8 DEF FreshPlan
<1>6. PassToCome'
  <2> SUFFICES ASSUME simplify, ~ excused'
               PROVE  (Owed = Target(Owed))' \/ \E q \in Requests : WillSee(q)'
      BY <1>1 DEF PassToCome
  <2>1. Owed \in Owings /\ Target(Target(Owed)) = Target(Owed)
      BY CommitIs, TargetIs
  <2>2. ASSUME Owed' = Target(Owed) PROVE (Owed = Target(Owed))'
    <3>1. Owed' = Target(Owed')
        BY <2>1, <2>2
    <3> QED
        BY <3>1 DEF Target, Nets, Net, Row
  <2>3. CASE RightPlan(r) /\ ~ request[r].tidy
      BY <2>2, <2>3, CommitIs
  <2>4. CASE ~ RightPlan(r)
    <3>1. r \in late
        BY <1>1, <2>4 DEF GroupInv, FreshPlan
    <3>2. ~ excused
        BY <1>1, <3>1
    <3>3. \E q \in Requests : q # r /\ Owes(q)
        BY <1>1, <2>4, <3>2 DEF GroupInv, OldPlanFollowed
    <3> QED
        BY <1>5, <3>3
  <2>5. CASE RightPlan(r) /\ request[r].tidy
    <3>1. CASE Owed' = Target(Owed)
        BY <2>2, <3>1
    <3>2. CASE Owed' = Owed
      <4>1. ~ excused
          BY <1>1, <2>5
      <4>2. CASE Owed = Target(Owed)
          BY <2>2, <3>2, <4>2
      <4>3. CASE \E q \in Requests : WillSee(q)
        <5>1. ~ WillSee(r)
            BY <2>5 DEF WillSee, Owes
        <5> QED
            BY <1>5, <4>3, <5>1
      <4> QED
          BY <4>1, <4>2, <4>3 DEF GroupInv, PassToCome
    <3> QED
        BY <2>5, <3>1, <3>2, CommitIs
  <2> QED
      BY <2>3, <2>4, <2>5
<1>7. OldPlanFollowed'
    BY <1>4, <1>5 DEF OldPlanFollowed
<1> QED
    BY <1>1, <1>3, <1>4, <1>5, <1>6, <1>7 DEF GroupInv

LEMMA GroupStep == ASSUME GroupInv, [GroupNext]_groupVars PROVE GroupInv'
<1>1. CASE UNCHANGED groupVars
  <2>1. UNCHANGED <<bills, payments, netted, simplify, lock, request, late, excused>>
      BY <1>1 DEF groupVars, booksVars
  <2>2. Owed' = Owed
      BY <2>1, OwedIs
  <2>3. BooksType' /\ Settled(netted)'
      BY <2>1 DEF GroupInv, BooksType, Settled
  <2>4. ASSUME NEW q \in Requests
        PROVE  (Settled(request[q].plan) /\ InOrder(q) /\ FreshPlan(q) /\ ToGo(q))'
    <3>1. Settled(request[q].plan) /\ InOrder(q) /\ FreshPlan(q) /\ ToGo(q)
        BY DEF GroupInv
    <3>2. Settled(request[q].plan)' /\ InOrder(q)'
        BY <2>1, <3>1 DEF Settled, InOrder, At
    <3>3. FreshPlan(q)'
        BY <2>1, <2>2, <3>1
           DEF FreshPlan, At, RightPlan, PlanNow, NeedsTidy, Settled, Net, Row, Rewire, Target, Nets
    <3>4. ToGo(q)'
        BY <2>1, <2>2, <3>1 DEF ToGo, Net, Row
    <3> QED
        BY <3>2, <3>3, <3>4
  <2>5. ASSUME NEW q \in Requests
        PROVE  /\ RightPlan(q)' = RightPlan(q) /\ Owes(q)' = Owes(q)
               /\ WillSee(q)' = WillSee(q) /\ At(q, "planned")' = At(q, "planned")
    <3>1. RightPlan(q)' = RightPlan(q)
        BY <2>1, <2>2 DEF RightPlan, PlanNow, NeedsTidy, Settled, Rewire, Target, Nets, Net, Row
    <3> QED
        BY <2>1, <3>1 DEF Owes, WillSee, At
  <2>6. (Owed = Target(Owed))' = (Owed = Target(Owed))
      BY <2>2 DEF Target, Nets, Net, Row
  <2>7. PassToCome'
      BY <2>1, <2>5, <2>6 DEF GroupInv, PassToCome
  <2>8. OldPlanFollowed'
      BY <2>1, <2>5 DEF GroupInv, OldPlanFollowed
  <2> QED
      BY <2>3, <2>4, <2>7, <2>8 DEF GroupInv
<1>2. CASE \E b \in Bills : AddBill(b) \/ RemoveBill(b)
    BY <1>2, BillKeeps
<1>3. CASE SetGroupSimplify
    BY <1>3, ToggleKeeps
<1>4. ASSUME NEW r \in Requests, Settling(r) PROVE GroupInv'
  <2>1. ASSUME NEW me \in Users, NEW other \in Users, NEW amount \in Amounts,
               BeginSettle(r, me, other, amount)
        PROVE  GroupInv'
    <3>1. me # other /\ UNCHANGED <<booksVars, lock, late, excused>>
        BY <2>1 DEF BeginSettle
    <3>2. Starts(r, Single(other, me, amount)) \/ Starts(r, Single(me, other, amount))
        BY <2>1 DEF BeginSettle, settleDirection
    <3> QED
        BY <3>1, <3>2, SettleBegins
  <2>2. ASSUME NEW me \in Users, NEW other \in Users, NEW amount \in Amounts,
               BeginFixed(r, me, other, amount)
        PROVE  GroupInv'
      BY <2>2, SettleBegins DEF BeginFixed
  <2>3. ASSUME NEW t \in BagToSet(payments),
               DeletePayment(r, t) \/ \E amount \in Amounts : EditPayment(r, t, amount)
        PROVE  GroupInv'
    <3>1. CASE \E amount \in Amounts : EditPayment(r, t, amount)
        BY <3>1, ChangeKeeps
    <3>2. CASE DeletePayment(r, t)
        BY <3>2, ChangeKeeps
    <3> QED
        BY <2>3, <3>1, <3>2
  <2> QED
      BY <1>4, <2>1, <2>2, <2>3, SettleAllBegins, PayKeeps DEF Settling
<1>5. ASSUME NEW r \in Requests, Netting(r) PROVE GroupInv'
    BY <1>5, FlagKeeps, TidyBegins, LockKeeps, PlanKeeps, CommitKeeps DEF Netting
<1> QED
    BY <1>1, <1>2, <1>3, <1>4, <1>5, FailKeeps DEF GroupNext

\* What holds between steps does so in every state a group can come to.
THEOREM GroupInvariant == GroupSpec => []GroupInv
<1>1. GroupInit => GroupInv
    BY GroupStarts
<1>2. GroupInv /\ [GroupNext]_groupVars => GroupInv'
    BY GroupStep
<1> QED
    BY <1>1, <1>2, PTL DEF GroupSpec

\* NettingIsNeutral: in no state of any group have the entries of the netting
\* passes (netting_service.go:21) changed how much anyone owes or is owed.
THEOREM PassesAreNeutral == GroupSpec => []NettingIsNeutral
<1>1. GroupInv => NettingIsNeutral
    BY DEF GroupInv, NettingIsNeutral
<1> QED
    BY <1>1, GroupInvariant, PTL

\* PairsAsShown: when nobody is at work in a group that shows simplified debts,
\* the stored pairs are those debts, for any number of people and requests,
\* unless the code itself left the work for a later pass.
THEOREM RestingPairsAreShown == GroupSpec => []PairsAsShown
<1>1. ASSUME GroupInv, simplify, ~ excused, \A r \in Requests : At(r, "idle")
      PROVE  Owed = Target(Owed)
  <2>1. ASSUME NEW q \in Requests PROVE ~ WillSee(q)
      BY <1>1 DEF WillSee, Owes, At
  <2> QED
      BY <1>1, <2>1 DEF GroupInv, PassToCome
<1>2. GroupInv => PairsAsShown
    BY <1>1 DEF PairsAsShown
<1> QED
    BY <1>2, GroupInvariant, PTL

\* Of a settle-all's own steps only two end it.
LEMMA SettleAllEnds ==
    ASSUME GroupInv, GroupNext, NEW r \in Requests, request[r].all, request'[r] = Idle,
           ~ Fail(r)
    PROVE  CommitPass(r)
<1>1. BooksType /\ InOrder(r) /\ request[r] # Idle /\ request'[r] # request[r]
    BY IdleIs DEF GroupInv
<1>2. ~ At(r, "idle") /\ ~ At(r, "flag")
    BY <1>1 DEF InOrder
<1>3. ASSUME NEW new, request' = [request EXCEPT ![r] = new] PROVE new = Idle
    BY <1>1, <1>3, OthersStay
<1>4. ASSUME NEW q \in Requests, NEW new, request' = [request EXCEPT ![q] = new] PROVE q = r
    BY <1>1, <1>4, OthersStay
<1>5. request' # request
    BY <1>1
<1>6. ASSUME NEW q \in Requests, NEW req PROVE ~ Starts(q, req)
    BY <1>2, <1>4 DEF Starts
<1>7. ASSUME NEW q \in Requests, Settling(q) PROVE FALSE
  <2>1. ~ BeginSettleAll(q)
      BY <1>6 DEF BeginSettleAll
  <2>2. \A me, other \in Users, amount \in Amounts :
            ~ BeginSettle(q, me, other, amount) /\ ~ BeginFixed(q, me, other, amount)
      BY <1>6 DEF BeginSettle, BeginFixed
  <2>3. \A t \in BagToSet(payments) :
            ~ DeletePayment(q, t) /\ \A amount \in Amounts : ~ EditPayment(q, t, amount)
      BY <1>6 DEF DeletePayment, EditPayment
  <2>4. Pay(q)
      BY <1>7, <2>1, <2>2, <2>3 DEF Settling
  <2>5. request' = [request EXCEPT
            ![q] = [request[q] EXCEPT !.todo = Tail(request[q].todo),
                                      !.stage = IF Tail(request[q].todo) = <<>>
                                                THEN AfterLast(request[q]) ELSE "pay"]]
      BY <1>1, <2>4 DEF Pay, BooksType
  <2>6. request'[q] = [request[q] EXCEPT !.todo = Tail(request[q].todo),
                                         !.stage = IF Tail(request[q].todo) = <<>>
                                                   THEN AfterLast(request[q]) ELSE "pay"]
      BY <1>1, <2>5, OthersStay
  <2>7. q = r
      BY <1>4, <2>5
  <2>8. request'[r].all = request[r].all
      BY <1>1, <2>6, <2>7, RequestIs DEF RequestType
  <2> QED
      BY <2>8, IdleIs
<1>8. ASSUME NEW q \in Requests, Netting(q), ~ CommitPass(q) PROVE FALSE
  <2>1. ~ BeginTidy(q)
      BY <1>6 DEF BeginTidy
  <2>2. ASSUME NEW stage \in Stages, Goes(q, stage) PROVE FALSE
    <3>1. q = r /\ request'[q].all = request[q].all
        BY <1>1, <1>4, <2>2, GoesIs
    <3> QED
        BY <3>1, IdleIs
  <2>3. "pass" \in Stages /\ "locked" \in Stages
      BY DEF Stages
  <2>4. ~ renetIfSimplified(q)
    <3>1. ASSUME At(q, "flag"), Ends(q) PROVE FALSE
        BY <1>2, <1>4, <3>1 DEF Ends
    <3> QED
        BY <2>2, <2>3, <3>1 DEF renetIfSimplified
  <2>5. ~ LockGroup(q)
      BY <2>2, <2>3 DEF LockGroup
  <2>6. ~ PlanPass(q)
    <3> SUFFICES ASSUME PlanPass(q) PROVE FALSE
        OBVIOUS
    <3> DEFINE plan == IF request[q].tidy /\ ~ NeedsTidy(Owed) THEN Square ELSE Rewire(Owed)
               new == [request[q] EXCEPT !.stage = "planned", !.plan = plan]
    <3>1. request' = [request EXCEPT ![q] = new]
        BY <1>1 DEF PlanPass, BooksType
    <3>2. new.all = request[q].all
        BY <1>1, RequestIs DEF RequestType
    <3> HIDE DEF new
    <3>3. q = r /\ request'[q] = new
        BY <1>1, <1>4, <3>1, OthersStay
    <3> QED
        BY <3>2, <3>3, IdleIs
  <2> QED
      BY <1>8, <2>1, <2>4, <2>5, <2>6 DEF Netting
<1>9. ASSUME NEW q \in Requests, CommitPass(q) \/ Fail(q) PROVE q = r
    BY <1>4, <1>9 DEF CommitPass, Fail, Ends
<1> QED
    BY <1>5, <1>7, <1>8, <1>9 DEF GroupNext, AddBill, RemoveBill, SetGroupSimplify

\* SettleAllClears: a settle-all (expense_service.go:249) that nobody else wrote
\* beside leaves every pair at zero, however many people owe each other.
THEOREM SettlingAllClears == GroupSpec => SettleAllClears
<1> DEFINE Clears ==
        \A r \in Requests :
            request[r].all /\ r \notin late /\ request'[r] = Idle /\ ~ Fail(r)
                => \A p \in Pairs : Owed[p]' = 0
<1>1. ASSUME GroupInv, [GroupNext]_groupVars PROVE [Clears]_groupVars
  <2> SUFFICES ASSUME groupVars' # groupVars, NEW r \in Requests,
                      request[r].all, r \notin late, request'[r] = Idle, ~ Fail(r)
               PROVE  \A p \in Pairs : Owed[p]' = 0
      OBVIOUS
  <2>1. CommitPass(r)
      BY <1>1, SettleAllEnds
  <2>2. BooksType /\ InOrder(r) /\ FreshPlan(r) /\ ToGo(r) /\ At(r, "planned")
      BY <1>1, <2>1 DEF GroupInv, CommitPass
  <2>3. request[r].todo = <<>> /\ ~ request[r].tidy /\ RightPlan(r)
      BY <2>2 DEF InOrder, FreshPlan, At
  <2>4. Owed \in Owings /\ Owed' = Target(Owed)
      BY <1>1, <2>1, <2>3, CommitIs
  <2>5. Settled(Owed)
    <3>1. \A u \in Users : Net(Owed, u) = Net(DebtsOf(<<>>), u)
        BY <2>2, <2>3 DEF ToGo
    <3> QED
        BY <3>1, DebtsOfNone, NetSquare DEF Settled
  <2>6. Owed' = Square
      BY <2>4, <2>5, SettledIsSquare
  <2> QED
      BY <2>6 DEF Square
<1>2. GroupSpec => [][Clears]_groupVars
    BY <1>1, GroupInvariant, PTL DEF GroupSpec
<1> QED
    BY <1>2 DEF SettleAllClears

\* TidyOnlyClears: a tidy-up (netting_service.go:29) whose reads are not out of
\* date writes nothing, or clears a group in which nobody owes anything.
THEOREM TidyingOnlyClears == GroupSpec => TidyOnlyClears
<1> DEFINE Clears ==
        \A r \in Requests :
            request[r].tidy /\ r \notin late /\ netted' # netted /\ CommitPass(r)
                => Settled(Owed) /\ \A p \in Pairs : Owed[p]' = 0
<1>1. ASSUME GroupInv, [GroupNext]_groupVars PROVE [Clears]_groupVars
  <2> SUFFICES ASSUME NEW r \in Requests, request[r].tidy, r \notin late, netted' # netted,
                      CommitPass(r)
               PROVE  Settled(Owed) /\ \A p \in Pairs : Owed[p]' = 0
      OBVIOUS
  <2>1. FreshPlan(r) /\ At(r, "planned") /\ netted \in Owings
        /\ netted' = Plus(netted, request[r].plan)
      BY <1>1 DEF GroupInv, BooksType, CommitPass
  <2>2. RightPlan(r)
      BY <2>1 DEF FreshPlan
  <2>3. request[r].plan # Square
    <3>1. Plus(netted, Square) = netted
      <4>1. \A p \in Pairs : netted[p] \in Int /\ netted[p] + 0 = netted[p]
          BY <2>1 DEF Owings
      <4> QED
          BY <2>1, <4>1 DEF Plus, Square, Owings
    <3> QED
        BY <2>1, <3>1
  <2>4. NeedsTidy(Owed)
      BY <2>2, <2>3 DEF RightPlan, PlanNow
  <2>5. Settled(Owed) /\ Owed \in Owings /\ request[r].plan = Rewire(Owed)
        /\ Owed' = Plus(Owed, request[r].plan)
      BY <1>1, <2>2, <2>4, CommitIs DEF NeedsTidy, RightPlan, PlanNow
  <2>6. Owed' = Square
      BY <2>5, RewireIs, SettledIsSquare
  <2> QED
      BY <2>5, <2>6 DEF Square
<1>2. GroupSpec => [][Clears]_groupVars
    BY <1>1, GroupInvariant, PTL DEF GroupSpec
<1> QED
    BY <1>2 DEF TidyOnlyClears

-------------------------------------------------------------------------------
(* The rows of a bill are whole numbers, whatever is typed.                *)

LEMMA MaxIs ==
    ASSUME NEW S \in SUBSET Int, IsFiniteSet(S), S # {}
    PROVE  Max(S) \in S /\ \A y \in S : Max(S) >= y
<1> DEFINE G == {T \in SUBSET S : T = {} \/ \E x \in T : \A y \in T : x >= y}
<1>1. {} \in G
    OBVIOUS
<1>2. ASSUME NEW T \in SUBSET S, NEW x \in T, T \ {x} \in G PROVE T \in G
  <2>1. CASE T \ {x} = {}
    <3>1. x \in Int /\ x \in T /\ T \in SUBSET S
        BY <1>2
    <3>2. \A y \in T : x >= y
        BY <2>1, <3>1
    <3> QED
        BY <3>1, <3>2
  <2>2. CASE \E z \in T \ {x} : \A y \in T \ {x} : z >= y
    <3>1. PICK z \in T \ {x} : \A y \in T \ {x} : z >= y
        BY <2>2
    <3>2. x \in Int /\ z \in Int /\ \A y \in T : y \in Int
        OBVIOUS
    <3>3. CASE x >= z
      <4>1. \A y \in T : x >= y
          BY <3>1, <3>2, <3>3
      <4> QED
          BY <4>1
    <3>4. CASE ~ (x >= z)
      <4>1. \A y \in T : z >= y
          BY <3>1, <3>2, <3>4
      <4> QED
          BY <3>1, <4>1
    <3> QED
        BY <3>3, <3>4
  <2>3. T \ {x} = {} \/ \E z \in T \ {x} : \A y \in T \ {x} : z >= y
      BY <1>2
  <2> QED
      BY <2>1, <2>2, <2>3
<1>3. S \in G
  <2> HIDE DEF G
  <2> QED
      BY <1>1, <1>2, SetInduction
<1>4. \E x \in S : \A y \in S : x >= y
    BY <1>3
<1> QED
    BY <1>4 DEF Max

LEMMA WrapType == ASSUME NEW n \in Int PROVE Wrap(n) \in Int
<1>1. MaxInt \in Nat /\ 2 * (MaxInt + 1) > 0 /\ n + MaxInt + 1 \in Int
    BY SplitAssumption
<1>2. (n + MaxInt + 1) % (2 * (MaxInt + 1)) \in Int
    BY <1>1
<1> QED
    BY <1>1, <1>2 DEF Wrap

LEMMA QuotType ==
    ASSUME NEW a \in Int, NEW b \in Int, b > 0
    PROVE  Quot(a, b) \in Int
<1>1. Sign(a) \in Int /\ Sign(b) \in Int /\ Size(a) \in Nat /\ Size(b) \in Nat \ {0}
    BY DEF Sign, Size
<1>2. Size(a) \div Size(b) \in Int
    BY <1>1
<1> QED
    BY <1>1, <1>2 DEF Quot

LEMMA SumType ==
    ASSUME NEW f, IsFiniteSet(DOMAIN f), \A u \in DOMAIN f : f[u] \in Int
    PROVE  Sum(f) = SumFunctionOnSet(f, DOMAIN f) /\ Sum(f) \in Int
BY SumInt DEF Sum, SumFunction

\* Weights of which one is not zero have a common divisor.
LEMMA GcdType ==
    ASSUME NEW values, IsFiniteSet(DOMAIN values), \A u \in DOMAIN values : values[u] \in Nat,
           Wrap(Sum(values)) > 0
    PROVE  Gcd(values) \in Nat \ {0} /\ \A u \in DOMAIN values : values[u] % Gcd(values) = 0
<1> DEFINE typed == {values[u] : u \in DOMAIN values}
           divisors == {g \in 1..Max(typed) : \A u \in DOMAIN values : values[u] % g = 0}
<1>1. PICK u \in DOMAIN values : values[u] # 0
  <2>1. SUFFICES ASSUME \A u \in DOMAIN values : values[u] = 0 PROVE FALSE
      OBVIOUS
  <2>2. Sum(values) = 0
      BY <2>1, SumZero DEF Sum, SumFunction
  <2>3. Wrap(0) = 0
    <3>1. MaxInt \in Nat
        BY SplitAssumption
    <3>2. \A m \in Nat : (0 + m + 1) % (2 * (m + 1)) = m + 1
      <4> TAKE m \in Nat
      <4>1. m + 1 \in Nat /\ m + 1 < 2 * (m + 1) /\ 2 * (m + 1) \in Nat \ {0}
          OBVIOUS
      <4>2. \A k, n \in Nat : k < n => k % n = k
          OBVIOUS
      <4> QED
          BY <4>1, <4>2
    <3> QED
        BY <3>1, <3>2 DEF Wrap
  <2> QED
      BY <2>2, <2>3
<1>2. typed \in SUBSET Int /\ IsFiniteSet(typed) /\ values[u] \in typed
  <2> DEFINE type == [v \in DOMAIN values |-> values[v]]
  <2>1. type \in Surjection(DOMAIN values, typed)
      BY DEF Surjection
  <2>2. IsFiniteSet(typed)
      BY <2>1, FS_Surjection
  <2> QED
      BY <2>2
<1>3. Max(typed) \in Int /\ Max(typed) >= values[u]
    BY <1>2, MaxIs
<1>4. values[u] \in Nat /\ values[u] >= 1 /\ Max(typed) >= 1
    BY <1>1, <1>3
<1>5. 1 \in divisors
  <2>1. \A n \in Nat : n % 1 = 0
      OBVIOUS
  <2> QED
      BY <1>3, <1>4, <2>1
<1>6. divisors \in SUBSET Int /\ divisors \subseteq 1..Max(typed) /\ IsFiniteSet(1..Max(typed))
    BY <1>3, FS_Interval
<1>7. IsFiniteSet(divisors)
    BY <1>6, FS_Subset
<1>8. Gcd(values) = Max(divisors)
    BY DEF Gcd
<1>9. \A g \in divisors : g \in Nat \ {0} /\ \A v \in DOMAIN values : values[v] % g = 0
    BY <1>3
<1> HIDE DEF divisors
<1>10. Max(divisors) \in divisors
    BY <1>5, <1>6, <1>7, MaxIs
<1> QED
    BY <1>8, <1>9, <1>10

LEMMA BaseSharesType ==
    ASSUME NEW method \in UserSelectable, NEW total \in Int, NEW values,
           IsFiniteSet(DOMAIN values), \A u \in DOMAIN values : values[u] \in Int,
           Accepted(method, total, values), Computable(method, values)
    PROVE  BaseShares(method, total, values) \in [DOMAIN values -> Int]
<1> DEFINE n == Cardinality(DOMAIN values)
           share(u) == BaseShare(method, total, values, u)
<1>1. n \in Int /\ n > 0
    BY FS_CardinalityType, FS_EmptySet DEF Accepted
<1>2. Sum(values) \in Int /\ Wrap(Sum(values)) \in Int
    BY SumType, WrapType
<1>3. ASSUME NEW u \in DOMAIN values PROVE share(u) \in Int
  <2>1. CASE method = "EQUAL"
    <3>1. share(u) = Quot(total, n)
        BY <2>1 DEF BaseShare
    <3> HIDE DEF n
    <3> QED
        BY <1>1, <3>1, QuotType
  <2>2. CASE method = "PERCENTAGE"
    <3>1. share(u) = Quot(Wrap(values[u] * total), BasisPointsFull)
        BY <2>2 DEF BaseShare
    <3>2. values[u] * total \in Int /\ BasisPointsFull \in Int /\ BasisPointsFull > 0
        BY DEF BasisPointsFull
    <3>3. Wrap(values[u] * total) \in Int
        BY <3>2, WrapType
    <3> QED
        BY <3>1, <3>2, <3>3, QuotType
  <2>3. CASE method = "EXACT"
      BY <2>3 DEF BaseShare
  <2>4. CASE method = "SHARE"
    <3> DEFINE g == Gcd(values)
               sum == Wrap(Sum(values))
    <3>1. share(u) = Quot(Wrap((values[u] \div g) * total), sum \div g)
        BY <2>4 DEF BaseShare
    <3>2. sum > 0 /\ sum >= g /\ \A v \in DOMAIN values : values[v] \in Nat
        BY <2>4 DEF Accepted, Computable
    <3>3. g \in Nat \ {0}
        BY <3>2, GcdType
    <3> HIDE DEF g, sum
    <3>4. sum \in Int
        BY <1>2 DEF sum
    <3>5. \A i \in Int, j \in Nat \ {0} : i \div j \in Int /\ (i >= j => i \div j > 0)
        OBVIOUS
    <3>6. sum \div g \in Int /\ sum \div g > 0 /\ values[u] \div g \in Int
        BY <3>2, <3>3, <3>4, <3>5
    <3>7. (values[u] \div g) * total \in Int
        BY <3>6
    <3>8. Wrap((values[u] \div g) * total) \in Int
        BY <3>7, WrapType
    <3> QED
        BY <3>1, <3>6, <3>8, QuotType
  <2>5. CASE method = "ADJUSTMENT"
    <3>1. share(u) = Wrap(Quot(Wrap(total - Sum(values)), n) + values[u])
        BY <2>5 DEF BaseShare
    <3>2. total - Sum(values) \in Int
        BY <1>2
    <3>3. Wrap(total - Sum(values)) \in Int
        BY <3>2, WrapType
    <3> HIDE DEF n
    <3>4. Quot(Wrap(total - Sum(values)), n) \in Int
        BY <1>1, <3>3, QuotType
    <3>5. Quot(Wrap(total - Sum(values)), n) + values[u] \in Int
        BY <3>4
    <3> QED
        BY <3>1, <3>5, WrapType
  <2> QED
      BY <2>1, <2>2, <2>3, <2>4, <2>5 DEF UserSelectable
<1> HIDE DEF share
<1>4. BaseShares(method, total, values) = [u \in DOMAIN values |-> share(u)]
    BY DEF BaseShares, share
<1> QED
    BY <1>3, <1>4

LEMMA DistributedType ==
    ASSUME NEW S, IsFiniteSet(S), NEW shares \in [S -> Int], NEW total \in Int, NEW order,
           Len(order) \in Nat \ {0}
    PROVE  DistributeRemainder(shares, total, order) \in [S -> Int]
<1> DEFINE n == Len(order)
           rest == Wrap(total - Sum(shares))
           given == DistributeRemainder(shares, total, order)
<1>1. Sum(shares) \in Int
    BY SumType
<1>2. total - Sum(shares) \in Int
    BY <1>1
<1>3. rest \in Int
    BY <1>2, WrapType
<1>4. ASSUME NEW u \in S PROVE given[u] \in Int
  <2> DEFINE i == CHOOSE k \in 1..n : order[k] = u
             one == IF i <= Size(rest) % n THEN 1 ELSE 0
  <2>1. given[u] = shares[u] + Sign(rest) * ((Size(rest) \div n) + one)
      BY DEF DistributeRemainder
  <2>2. one \in Int
      OBVIOUS
  <2> HIDE DEF i, one, n, rest
  <2>3. Size(rest) \in Nat /\ Sign(rest) \in Int
      BY <1>3 DEF Size, Sign
  <2>4. Size(rest) \div n \in Int
      BY <2>3 DEF n
  <2>5. Sign(rest) * ((Size(rest) \div n) + one) \in Int
      BY <2>2, <2>3, <2>4
  <2> QED
      BY <2>1, <2>5
<1>5. given = [u \in S |-> given[u]]
    BY DEF DistributeRemainder
<1> HIDE DEF given
<1>6. given \in [S -> Int]
    BY <1>4, <1>5
<1> QED
    BY <1>6 DEF given

LEMMA FormType ==
    ASSUME NEW b \in BillForms
    PROVE  /\ b.method \in UserSelectable /\ b.total \in Int /\ b.payer \in Users
           /\ DOMAIN b.values \subseteq Users /\ IsFiniteSet(DOMAIN b.values)
           /\ \A u \in DOMAIN b.values : b.values[u] \in Int
<1>1. PICK m \in UserSelectable, n \in Totals, p \in Payers, S \in SUBSET Splitters :
          /\ b.method = m /\ b.total = n /\ b.payer = p /\ b.values \in [S -> Typed[m]]
    BY DEF BillForms
<1>2. DOMAIN b.values = S /\ \A u \in S : b.values[u] \in Typed[m]
    BY <1>1
<1>3. S \subseteq Users /\ n \in Int /\ p \in Users /\ Typed[m] \subseteq Int
    BY BillAssumption
<1>4. IsFiniteSet(S)
    BY <1>3, BalanceAssumption, FS_Subset
<1> QED
    BY <1>1, <1>2, <1>3, <1>4

\* The rows of a form that is accepted.
LEMMA RowsType ==
    ASSUME NEW b \in BillForms, NEW perm,
           Accepted(b.method, b.total, b.values), Computable(b.method, b.values)
    PROVE  /\ \A u \in DOMAIN Rows(b, perm) : Rows(b, perm)[u] \in Int
           /\ DOMAIN Rows(b, perm) \subseteq Users
<1> DEFINE S == DOMAIN b.values
           lines == FormLines(S)
           order == [i \in 1..Len(lines) |-> lines[perm[i]]]
           base == BaseShares(b.method, b.total, b.values)
           shares == DistributeRemainder(base, b.total, order)
           rows == Finalize(b.total, b.payer, shares)
<1>1. /\ b.method \in UserSelectable /\ b.total \in Int /\ b.payer \in Users
      /\ S \subseteq Users /\ IsFiniteSet(S) /\ \A u \in S : b.values[u] \in Int
    BY FormType
<1>2. base \in [S -> Int]
    BY <1>1, BaseSharesType
<1>3. Cardinality(S) \in Nat \ {0}
    BY <1>1, FS_CardinalityType, FS_EmptySet DEF Accepted
<1>4. Len(order) = Cardinality(S)
  <2> DEFINE n == Cardinality(S)
             line(i) == CHOOSE u \in S : Cardinality({v \in S : v < u}) = i - 1
             at(i) == lines[perm[i]]
  <2>1. lines = [i \in 1..n |-> line(i)]
      BY DEF FormLines
  <2>2. n \in Nat
      BY <1>3
  <2>3. order = [i \in 1..Len(lines) |-> at(i)]
      OBVIOUS
  <2> HIDE DEF n, line, at, lines, order
  <2>4. Len(lines) = n
      BY <2>1, <2>2
  <2>5. order = [i \in 1..n |-> at(i)]
      BY <2>3, <2>4
  <2>6. Len(order) = n
      BY <2>2, <2>5
  <2> QED
      BY <2>6 DEF n
<1> HIDE DEF base, lines, order
<1>5. shares \in [S -> Int]
    BY <1>1, <1>2, <1>3, <1>4, DistributedType
<1> HIDE DEF shares
<1>6. Rows(b, perm) = rows
    BY DEF Rows, Compute, Shares, shares, base, order, lines
<1>7. DOMAIN rows = S \cup {b.payer} /\ \A u \in S \cup {b.payer} : rows[u] \in Int
  <2> HIDE DEF S
  <2> QED
      BY <1>1, <1>5 DEF Finalize
<1> QED
    BY <1>1, <1>6, <1>7

LEMMA BookedType ==
    ASSUME NEW owing \in Owings, NEW payer, NEW rows, \A u \in DOMAIN rows : rows[u] \in Int
    PROVE  Booked(owing, payer, rows) \in Owings
<1>1. ASSUME NEW p \in Pairs PROVE Booked(owing, payer, rows)[p] \in Int
  <2>1. owing[p] \in Int
      BY DEF Owings
  <2> QED
      BY <2>1 DEF Booked
<1>2. Booked(owing, payer, rows) = [p \in Pairs |-> Booked(owing, payer, rows)[p]]
    BY DEF Booked
<1> QED
    BY <1>1, <1>2 DEF Owings

-------------------------------------------------------------------------------
(* What a group page may show and do, from any balances.                   *)

LEMMA NothingOfTheirs ==
    ASSUME NEW q \in Seq(Transfers), NEW u \in Users,
           \A t \in ToSet(q) : t.from # u /\ t.to # u
    PROVE  Net(DebtsOf(q), u) = 0
<1> DEFINE owing == DebtsOf(q)
<1>1. owing \in Owings /\ ToSet(q) \subseteq Transfers /\ IsFiniteSet(ToSet(q))
    BY DebtsOfIs, ToSetIs
<1>2. ASSUME NEW p \in Pairs, p[1] = u \/ p[2] = u PROVE owing[p] = 0
  <2> DEFINE f == [t \in Transfers |-> Debt(t)[p]]
  <2>1. \A t \in ToSet(q) : f[t] = 0
    <3> SUFFICES ASSUME NEW t \in ToSet(q) PROVE Debt(t)[p] = 0
        BY <1>1
    <3>1. p = <<p[1], p[2]>>
        BY PairType
    <3>2. <<t.to, t.from>> # p /\ <<t.from, t.to>> # p
        BY <1>2, <3>1
    <3> QED
        BY <3>2 DEF Debt
  <2> HIDE DEF f
  <2>2. SumFunctionOnSet(f, ToSet(q)) = 0
      BY <1>1, <2>1, SumZero
  <2> QED
      BY <2>2, DebtsOfIs DEF f
<1>3. ASSUME NEW v \in Users \ {u} PROVE Row(owing, u, v) = 0
  <2>1. CASE u < v
    <3>1. <<u, v>> \in Pairs
        BY <2>1, PairOf
    <3> HIDE DEF owing
    <3>2. owing[<<u, v>>] = 0
        BY <1>2, <3>1
    <3> QED
        BY <2>1, <3>2 DEF Row
  <2>2. CASE ~ (u < v)
    <3>1. <<v, u>> \in Pairs
        BY <2>2, PairOf
    <3> HIDE DEF owing
    <3>2. owing[<<v, u>>] = 0
        BY <1>2, <3>1
    <3>3. Row(owing, u, v) = - owing[<<v, u>>]
        BY <2>2 DEF Row
    <3>4. \A i, j \in Int : i = - j => i + j = 0
        OBVIOUS
    <3>5. owing[<<v, u>>] \in Int /\ Row(owing, u, v) \in Int
        BY <1>1, <3>1, RowType DEF Owings
    <3>6. Row(owing, u, v) + owing[<<v, u>>] = 0
        BY <3>3, <3>4, <3>5, Zenon
    <3> QED
        BY <3>2, <3>5, <3>6
  <2> QED
      BY <2>1, <2>2
<1> DEFINE row == Table(owing)[u]
<1>4. \A v \in Users : row[v] = 0
    BY <1>3 DEF Table
<1> HIDE DEF row
<1>5. SumFunctionOnSet(row, Users) = 0
    BY <1>4, BalanceAssumption, SumZero
<1> QED
    BY <1>1, <1>5, NetIs DEF row

LEMMA Suggestions ==
    ASSUME NEW owing \in Owings
    PROVE  /\ Simplify(Nets(owing)) \in Seq(Transfers)
           /\ \A t \in ToSet(Simplify(Nets(owing))) :
                t \in Transfers /\ Within(Nets(owing), t)
<1>1. Nets(owing) \in [Users -> Int] /\ SumFunctionOnSet(Nets(owing), Users) = 0
    BY NetsType, NetsCancel
<1>2. /\ Simplify(Nets(owing)) \in Seq(Transfers)
      /\ \A t \in ToSet(Simplify(Nets(owing))) : Within(Nets(owing), t)
    BY <1>1, Simplified
<1>3. ToSet(Simplify(Nets(owing))) \subseteq Transfers
    BY <1>2, ToSetIs
<1> QED
    BY <1>2, <1>3

\* Those who owe pay, those who are owed are paid, nobody does both, and there
\* are fewer payments than people.
LEMMA SuggestedToSome ==
    ASSUME NEW owing \in Owings
    PROVE  LET suggested == ToSet(Simplify(Nets(owing)))
               froms     == {t.from : t \in suggested}
               tos       == {t.to : t \in suggested}
           IN  /\ froms \cap tos = {}
               /\ suggested # {} => Cardinality(suggested) < Cardinality(froms \cup tos)
<1> DEFINE net == Nets(owing)
           q == Simplify(net)
           suggested == ToSet(q)
           froms == {t.from : t \in suggested}
           tos == {t.to : t \in suggested}
           P == {u \in Users : net[u] > 0}
           N == {u \in Users : net[u] < 0}
<1>1. net \in [Users -> Int] /\ SumFunctionOnSet(net, Users) = 0
    BY NetsType, NetsCancel
<1>2. q \in Seq(Transfers) /\ \A t \in suggested : t \in Transfers /\ Within(net, t)
    BY Suggestions
<1>3. Nets(DebtsOf(q)) = net /\ (q # <<>> => Len(q) < Most(net))
    BY <1>1, Simplified
<1>4. Most(net) = Cardinality(P) + Cardinality(N)
    BY <1>1, LoopStarts
<1>5. \A t \in suggested : t.from \in N /\ t.to \in P
  <2> SUFFICES ASSUME NEW t \in suggested PROVE t.from \in N /\ t.to \in P
      OBVIOUS
  <2>1. /\ t.from \in Users /\ t.to \in Users /\ t.amount \in Int /\ t.amount > 0
        /\ t.amount <= net[t.to] /\ t.amount <= - net[t.from]
      BY <1>2, TransferType DEF Within
  <2>2. net[t.to] \in Int /\ net[t.from] \in Int
      BY <1>1, <2>1
  <2> QED
      BY <2>1, <2>2
<1>6. P \cap N = {} /\ IsFiniteSet(P) /\ IsFiniteSet(N)
  <2>1. P \in SUBSET Users /\ N \in SUBSET Users
      OBVIOUS
  <2>2. \A u \in Users : net[u] \in Int
      BY <1>1
  <2>3. \A u \in P : u \notin N
      BY <2>2
  <2> HIDE DEF P, N
  <2> QED
      BY <2>1, <2>3, BalanceAssumption, FS_Subset
<1>7. \A u \in P \cup N : u \in froms \cup tos
  <2> SUFFICES ASSUME NEW u \in Users, net[u] # 0, u \notin froms \cup tos PROVE FALSE
      BY <1>1
  <2>1. \A t \in suggested : t.from # u /\ t.to # u
      OBVIOUS
  <2> HIDE DEF q
  <2>2. Net(DebtsOf(q), u) = 0
      BY <1>2, <2>1, NothingOfTheirs
  <2>3. Net(DebtsOf(q), u) = net[u]
      BY <1>3 DEF Nets
  <2> QED
      BY <2>2, <2>3
<1> HIDE DEF q, P, N
<1>8. froms \cup tos = P \cup N /\ froms \cap tos = {}
    BY <1>5, <1>6, <1>7
<1>9. Cardinality(P \cup N) = Cardinality(P) + Cardinality(N)
  <2>1. Cardinality(P \cup N) = Cardinality(P) + Cardinality(N) - Cardinality(P \cap N)
      BY <1>6, FS_Union, Zenon
  <2>2. Cardinality(P \cap N) = 0 /\ Cardinality(P) \in Nat /\ Cardinality(N) \in Nat
      BY <1>6, FS_EmptySet, FS_CardinalityType
  <2> QED
      BY <2>1, <2>2
<1>10. suggested # {} => q # <<>>
  <2>1. ToSet(<<>>) = {}
      BY DEF ToSet
  <2> QED
      BY <2>1
<1>11. Cardinality(suggested) <= Len(q) /\ IsFiniteSet(suggested) /\ Len(q) \in Nat
    BY <1>2, ToSetIs, LenProperties
<1>12. Cardinality(suggested) \in Nat /\ Cardinality(P) \in Nat /\ Cardinality(N) \in Nat
    BY <1>6, <1>11, FS_CardinalityType
<1> HIDE DEF suggested, froms, tos
<1>13. ASSUME suggested # {} PROVE Cardinality(suggested) < Cardinality(froms \cup tos)
  <2>1. Len(q) < Cardinality(P) + Cardinality(N)
      BY <1>3, <1>4, <1>10, <1>13
  <2>2. Cardinality(froms \cup tos) = Cardinality(P) + Cardinality(N)
      BY <1>8, <1>9
  <2> QED
      BY <1>11, <1>12, <2>1, <2>2
<1> QED
    BY <1>8, <1>13 DEF suggested, froms, tos, q

\* Balances stay whole numbers, whatever form is recorded or suggestion paid.
BalanceInv == owed \in Owings /\ bill \in BillForms \cup {NoBill}

LEMMA BalanceStarts == ASSUME Init PROVE BalanceInv
<1>1. Square \in Owings
    BY NetSquare
<1>2. ASSUME NEW owing \in Tables PROVE owing \in Owings
  <2>1. MaxOwed \in Int /\ - MaxOwed \in Int
      BY BillAssumption
  <2>2. \A i \in (- MaxOwed)..MaxOwed : i \in Int
      BY <2>1
  <2> QED
      BY <1>2, <2>2 DEF Tables, Owings
<1> QED
    BY <1>1, <1>2 DEF Init, BalanceInv

LEMMA BalanceKeeps == ASSUME BalanceInv, [Next]_vars PROVE BalanceInv'
<1>1. owed \in Owings /\ bill \in BillForms \cup {NoBill}
    BY DEF BalanceInv
<1>2. CASE RecordBill
  <2>1. PICK perm : owed' = Booked(owed, bill.payer, Rows(bill, perm))
      BY <1>2 DEF RecordBill
  <2>2. /\ bill \in BillForms /\ bill' = NoBill
        /\ Accepted(bill.method, bill.total, bill.values)
        /\ Computable(bill.method, bill.values)
      BY <1>1, <1>2 DEF RecordBill
  <2>3. \A u \in DOMAIN Rows(bill, perm) : Rows(bill, perm)[u] \in Int
      BY <2>2, RowsType
  <2>4. owed' \in Owings
      BY <1>1, <2>1, <2>3, BookedType
  <2> QED
      BY <2>2, <2>4 DEF BalanceInv
<1>3. CASE Pass
    BY <1>1, <1>3, RewireIs, TargetIs DEF Pass, BalanceInv
<1>4. CASE PaySuggestion
  <2>1. PICK t \in ToSet(Simplify(Nets(owed))) : owed' = Moved(owed, t.from, t.to, t.amount)
      BY <1>4 DEF PaySuggestion
  <2>2. t \in Transfers
      BY <1>1, Suggestions
  <2>3. owed' \in Owings
      BY <1>1, <2>1, <2>2, TransferType, NetMoved
  <2> QED
      BY <1>1, <1>4, <2>3 DEF PaySuggestion, BalanceInv
<1>5. CASE PayRaw
  <2>1. PICK p \in Pairs : LET t == [from |-> IF owed[p] > 0 THEN p[2] ELSE p[1],
                                     to |-> IF owed[p] > 0 THEN p[1] ELSE p[2],
                                     amount |-> IF owed[p] > 0 THEN owed[p] ELSE - owed[p]]
                           IN  owed' = Moved(owed, t.from, t.to, t.amount)
      BY <1>5 DEF PayRaw, RawRows
  <2>2. owed[p] \in Int /\ - owed[p] \in Int /\ p[1] \in Users /\ p[2] \in Users /\ p[1] # p[2]
      BY <1>1, PairType DEF Owings
  <2>3. \/ owed' = Moved(owed, p[2], p[1], owed[p])
        \/ owed' = Moved(owed, p[1], p[2], - owed[p])
      BY <2>1
  <2>4. owed' \in Owings
      BY <1>1, <2>2, <2>3, NetMoved
  <2> QED
      BY <1>1, <1>5, <2>4 DEF PayRaw, BalanceInv
<1>6. CASE UNCHANGED vars
    BY <1>1, <1>6 DEF vars, BalanceInv
<1> QED
    BY <1>2, <1>3, <1>4, <1>5, <1>6 DEF Next

\* What a table of balances is holds of every one that forms, passes and
\* payments lead to.
THEOREM BalanceInvariant == Spec => []BalanceInv
<1>1. Init => BalanceInv
    BY BalanceStarts
<1>2. BalanceInv /\ [Next]_vars => BalanceInv'
    BY BalanceKeeps
<1> QED
    BY <1>1, <1>2, PTL DEF Spec

\* RewireOnce: rewiring (balance/rewire.go:104) keeps everybody's net, and there
\* is nothing left for a second pass, from any balances between any people.
THEOREM RewiringOnceIsEnough == Spec => []RewireOnce
<1>1. ASSUME owed \in Owings PROVE RewireOnce
  <2>1. Plus(owed, Rewire(owed)) = Target(owed)
      BY <1>1, RewireIs
  <2>2. /\ Target(owed) \in Owings /\ Nets(Target(owed)) = Nets(owed)
        /\ Target(Target(owed)) = Target(owed)
      BY <1>1, TargetIs
  <2>3. Rewire(Target(owed)) = Square
      BY <2>2, RewireIs
  <2> QED
      BY <2>1, <2>2, <2>3 DEF RewireOnce
<1>2. BalanceInv => RewireOnce
    BY <1>1 DEF BalanceInv
<1> QED
    BY <1>2, BalanceInvariant, PTL

\* SuggestionsAreFair: what Simplify (balance/simplify.go:1) suggests keeps every
\* net, has nobody both pay and receive, and takes fewer payments than there are
\* people who owe or are owed, for any number of them.
THEOREM SuggestionsFair == Spec => []SuggestionsAreFair
<1>1. ASSUME owed \in Owings PROVE SuggestionsAreFair
    BY <1>1, TargetIs, SuggestedToSome DEF SuggestionsAreFair
<1>2. BalanceInv => SuggestionsAreFair
    BY <1>1 DEF BalanceInv
<1> QED
    BY <1>2, BalanceInvariant, PTL

\* PayingDrawsNobodyIn: a suggestion that is paid, in whatever order, brings two
\* nets nearer to zero and none past it.
THEOREM PayingSettles == Spec => PayingDrawsNobodyIn
<1> DEFINE Settles == PaySuggestion => \A u \in Users : Nearer(Net(owed, u), Net(owed', u))
<1>1. ASSUME BalanceInv, PaySuggestion, NEW u \in Users
      PROVE  Nearer(Net(owed, u), Net(owed', u))
  <2>1. owed \in Owings
      BY <1>1 DEF BalanceInv
  <2>2. PICK t \in ToSet(Simplify(Nets(owed))) : owed' = Moved(owed, t.from, t.to, t.amount)
      BY <1>1 DEF PaySuggestion
  <2>3. t \in Transfers /\ Within(Nets(owed), t)
      BY <2>1, Suggestions
  <2>4. /\ t.from \in Users /\ t.to \in Users /\ t.from # t.to
        /\ t.amount \in Int /\ t.amount > 0
      BY <2>3, TransferType
  <2>5. Net(owed', u) =
          Net(owed, u) + (IF u = t.from THEN t.amount ELSE IF u = t.to THEN - t.amount ELSE 0)
      BY <2>1, <2>2, <2>4, NetMoved
  <2>6. /\ t.amount <= Net(owed, t.to) /\ t.amount <= - Net(owed, t.from)
        /\ Net(owed, t.to) \in Int /\ Net(owed, t.from) \in Int /\ Net(owed, u) \in Int
      BY <2>1, <2>3, <2>4, NetIs DEF Within, Nets
  <2>7. CASE u = t.from
      BY <2>4, <2>5, <2>6, <2>7 DEF Nearer
  <2>8. CASE u = t.to
      BY <2>4, <2>5, <2>6, <2>8 DEF Nearer
  <2>9. CASE u # t.from /\ u # t.to
      BY <2>5, <2>6, <2>9 DEF Nearer
  <2> QED
      BY <2>7, <2>8, <2>9
<1>2. BalanceInv => [Settles]_vars
    BY <1>1
<1>3. Spec => [][Settles]_vars
    BY <1>2, BalanceInvariant, PTL
<1> QED
    BY <1>3 DEF PayingDrawsNobodyIn

-------------------------------------------------------------------------------
(* Dividing a total.                                                       *)

LEMMA UptoIs ==
    ASSUME NEW n \in Nat
    PROVE  IsFiniteSet(1..n) /\ Cardinality(1..n) = n
<1>1. 1 \in Int /\ n \in Int
    OBVIOUS
<1>2. IsFiniteSet(1..n) /\ Cardinality(1..n) = IF 1 > n THEN 0 ELSE n - 1 + 1
    BY <1>1, FS_Interval
<1> QED
    BY <1>2

\* What fits in int64 does not come round.
LEMMA WrapFits ==
    ASSUME NEW n \in Int, Size(n) <= MaxInt
    PROVE  Wrap(n) = n
<1>1. MaxInt \in Nat
    BY SplitAssumption
<1>2. - MaxInt <= n /\ n <= MaxInt
    BY <1>1 DEF Size
<1> DEFINE m == n + MaxInt + 1
           k == 2 * (MaxInt + 1)
<1>3. m \in Nat /\ k \in Nat \ {0} /\ m < k
    BY <1>1, <1>2
<1>4. \A i, j \in Nat : i < j => i % j = i
    OBVIOUS
<1>5. m % k = m
    BY <1>3, <1>4
<1>6. Wrap(n) = (m % k) - (MaxInt + 1)
    BY DEF Wrap
<1> QED
    BY <1>1, <1>5, <1>6

\* A form lists each of its people once.
LEMMA FormLinesIs ==
    ASSUME NEW people, IsFiniteSet(people), people \subseteq Int
    PROVE  /\ Cardinality(people) \in Nat
           /\ FormLines(people) \in Bijection(1..Cardinality(people), people)
           /\ Len(FormLines(people)) = Cardinality(people)
<1> DEFINE Lower(u) == {v \in people : v < u}
           N == Cardinality(people)
           rank == [u \in people |-> Cardinality(Lower(u)) + 1]
           at(i) == CHOOSE u \in people : Cardinality({v \in people : v < u}) = i - 1
<1>1. N \in Nat
    BY FS_CardinalityType
<1>2. ASSUME NEW u \in people
      PROVE  IsFiniteSet(Lower(u)) /\ Cardinality(Lower(u)) \in Nat /\ u \notin Lower(u)
  <2>1. Lower(u) \in SUBSET people /\ ~ (u < u)
      OBVIOUS
  <2>2. IsFiniteSet(Lower(u))
      BY <2>1, FS_Subset
  <2> QED
      BY <2>1, <2>2, FS_CardinalityType
<1>3. ASSUME NEW u \in people PROVE rank[u] \in 1..N
  <2>1. Lower(u) \in SUBSET (people \ {u})
      BY <1>2
  <2>2. IsFiniteSet(people \ {u}) /\ Cardinality(people \ {u}) = N - 1
      BY FS_RemoveElement
  <2>3. Cardinality(Lower(u)) <= N - 1
      BY <2>1, <2>2, FS_Subset
  <2> HIDE DEF Lower, N
  <2> QED
      BY <1>1, <1>2, <2>3
<1>4. ASSUME NEW u \in people, NEW v \in people, u < v PROVE rank[u] < rank[v]
  <2>1. Lower(u) \cup {u} \in SUBSET Lower(v)
    <3>1. \A w \in people : w < u => w < v
        BY <1>4
    <3> QED
        BY <1>4, <3>1
  <2>2. Cardinality(Lower(u) \cup {u}) = Cardinality(Lower(u)) + 1
      BY <1>2, FS_AddElement
  <2>3. Cardinality(Lower(u) \cup {u}) <= Cardinality(Lower(v))
      BY <1>2, <2>1, FS_Subset
  <2>4. rank[u] = Cardinality(Lower(u)) + 1 /\ rank[v] = Cardinality(Lower(v)) + 1
      OBVIOUS
  <2> HIDE DEF Lower, rank
  <2> QED
      BY <1>2, <2>2, <2>3, <2>4
<1>5. ASSUME NEW u \in people, NEW v \in people, u # v PROVE rank[u] # rank[v]
  <2>1. u < v \/ v < u
      BY <1>5
  <2>2. rank[u] \in Int /\ rank[v] \in Int
      BY <1>3
  <2> HIDE DEF rank
  <2> QED
      BY <1>4, <2>1, <2>2
<1>6. \A i \in 1..N : \E u \in people : rank[u] = i
  <2>1. rank \in Injection(people, 1..N)
    <3>1. rank \in [people -> 1..N]
        BY <1>3
    <3> HIDE DEF rank, N
    <3> QED
        BY <1>5, <3>1 DEF Injection, IsInjective
  <2>2. IsFiniteSet(1..N) /\ Cardinality(1..N) = N
      BY <1>1, UptoIs
  <2>3. rank \in Surjection(people, 1..N)
      BY <2>1, <2>2, FS_Injection
  <2> QED
      BY <2>3 DEF Surjection
<1>7. ASSUME NEW i \in 1..N PROVE at(i) \in people /\ rank[at(i)] = i
  <2>1. \A u \in people : Cardinality(Lower(u)) \in Nat
      BY <1>2
  <2>2. PICK u \in people : rank[u] = i
      BY <1>6
  <2>3. rank[u] = Cardinality(Lower(u)) + 1
      OBVIOUS
  <2>4. Cardinality(Lower(u)) = i - 1
    <3> HIDE DEF Lower, N, rank
    <3> QED
        BY <1>1, <2>1, <2>2, <2>3
  <2>5. at(i) \in people /\ Cardinality(Lower(at(i))) = i - 1
      BY <2>4
  <2>6. rank[at(i)] = Cardinality(Lower(at(i))) + 1
      BY <2>5
  <2> HIDE DEF at, Lower, N, rank
  <2> QED
      BY <1>1, <2>5, <2>6
<1> DEFINE lines == FormLines(people)
<1>8. lines = [i \in 1..N |-> at(i)]
    BY DEF FormLines
<1> HIDE DEF at, N, rank, lines
<1>9. lines \in [1..N -> people] /\ Len(lines) = N
    BY <1>1, <1>7, <1>8
<1>10. ASSUME NEW i \in 1..N, NEW j \in 1..N, lines[i] = lines[j] PROVE i = j
    BY <1>7, <1>8, <1>10
<1>11. ASSUME NEW u \in people PROVE \E i \in 1..N : lines[i] = u
  <2>1. rank[u] \in 1..N /\ at(rank[u]) \in people /\ rank[at(rank[u])] = rank[u]
      BY <1>3, <1>7
  <2>2. at(rank[u]) = u
      BY <1>5, <2>1
  <2> QED
      BY <1>8, <2>1, <2>2
<1>12. lines \in Bijection(1..N, people)
    BY <1>9, <1>10, <1>11 DEF Bijection, Injection, Surjection, IsInjective
<1> QED
    BY <1>1, <1>9, <1>12 DEF N, lines

\* The first r of n places have r people.
LEMMA FirstPlaces ==
    ASSUME NEW S, IsFiniteSet(S), NEW n \in Nat, NEW place \in Bijection(S, 1..n),
           NEW r \in Nat, r <= n
    PROVE  SumFunctionOnSet([u \in S |-> IF place[u] <= r THEN 1 ELSE 0], S) = r
<1> DEFINE one == [u \in S |-> IF place[u] <= r THEN 1 ELSE 0]
           L == {u \in S : place[u] <= r}
           sit == [u \in L |-> place[u]]
<1>1. \A u \in S : place[u] \in 1..n
    BY DEF Bijection, Injection
<1>2. sit \in Bijection(L, 1..r)
  <2>1. sit \in [L -> 1..r]
      BY <1>1
  <2>2. \A u, v \in L : sit[u] = sit[v] => u = v
      BY DEF Bijection, Injection, IsInjective
  <2>3. \A i \in 1..r : \E u \in L : sit[u] = i
    <3> TAKE i \in 1..r
    <3>1. i \in 1..n /\ i <= r
        OBVIOUS
    <3>2. PICK u \in S : place[u] = i
        BY <3>1 DEF Bijection, Surjection
    <3> QED
        BY <3>1, <3>2
  <2> HIDE DEF sit, L
  <2> QED
      BY <2>1, <2>2, <2>3 DEF Bijection, Injection, Surjection, IsInjective
<1>3. IsFiniteSet(L) /\ IsFiniteSet(S \ L) /\ L \cap (S \ L) = {} /\ L \cup (S \ L) = S
    BY FS_Subset
<1>4. Cardinality(L) = r
  <2>1. IsFiniteSet(1..r) /\ Cardinality(1..r) = r
      BY UptoIs
  <2>2. ExistsBijection(L, 1..r)
      BY <1>2 DEF ExistsBijection
  <2> HIDE DEF L
  <2> QED
      BY <1>3, <2>1, <2>2, FS_Bijection
<1>5. \A u \in S : one[u] \in Int
    OBVIOUS
<1>6. SumFunctionOnSet(one, L) = 1 * Cardinality(L)
  <2>1. \A u \in L : one[u] = 1
      OBVIOUS
  <2> HIDE DEF one, L
  <2> QED
      BY <1>3, <2>1, SumConstant
<1>7. SumFunctionOnSet(one, S \ L) = 0
  <2>1. \A u \in S \ L : one[u] = 0
      OBVIOUS
  <2> HIDE DEF one, L
  <2> QED
      BY <1>3, <2>1, SumZero
<1> HIDE DEF one, L
<1>8. SumFunctionOnSet(one, S) = SumFunctionOnSet(one, L) + SumFunctionOnSet(one, S \ L)
    BY <1>3, <1>5, SumUnion
<1> QED
    BY <1>4, <1>6, <1>7, <1>8 DEF one

\* One place's part of what is left over.
Extra(rest, n, i) == Sign(rest) * ((Size(rest) \div n) + (IF i <= Size(rest) % n THEN 1 ELSE 0))

LEMMA ExtraIs ==
    ASSUME NEW rest \in Int, NEW n \in Nat \ {0}, NEW i \in Nat, NEW j \in Nat
    PROVE  Extra(rest, n, i) \in Int /\ Size(Extra(rest, n, i) - Extra(rest, n, j)) <= 1
<1> DEFINE q == Size(rest) \div n
           m == Size(rest) % n
<1>1. Size(rest) \in Nat /\ Sign(rest) \in {-1, 1}
    BY DEF Size, Sign
<1>2. q \in Int /\ m \in Int
    BY <1>1
<1>3. \A k \in Nat : Extra(rest, n, k) = Sign(rest) * (q + (IF k <= m THEN 1 ELSE 0))
    BY DEF Extra
<1> HIDE DEF q, m
<1>4. \A k \in Nat : \/ Extra(rest, n, k) = Sign(rest) * q
                     \/ Extra(rest, n, k) = Sign(rest) * (q + 1)
    BY <1>2, <1>3
<1>5. CASE Sign(rest) = 1
  <2>1. \A k \in Nat : Extra(rest, n, k) = q \/ Extra(rest, n, k) = q + 1
      BY <1>2, <1>4, <1>5
  <2> QED
      BY <1>2, <2>1 DEF Size
<1>6. CASE Sign(rest) = -1
  <2>1. \A k \in Nat : Extra(rest, n, k) = - q \/ Extra(rest, n, k) = - q - 1
      BY <1>2, <1>4, <1>6
  <2> QED
      BY <1>2, <2>1 DEF Size
<1> QED
    BY <1>1, <1>5, <1>6

\* Handing out leaves nothing over.
LEMMA ExtrasAdd ==
    ASSUME NEW S, IsFiniteSet(S), NEW n \in Nat \ {0}, Cardinality(S) = n,
           NEW place \in Bijection(S, 1..n), NEW rest \in Int
    PROVE  SumFunctionOnSet([u \in S |-> Extra(rest, n, place[u])], S) = rest
<1> DEFINE q == Size(rest) \div n
           m == Size(rest) % n
           whole == [u \in S |-> q]
           one == [u \in S |-> IF place[u] <= m THEN 1 ELSE 0]
           part == [u \in S |-> whole[u] + one[u]]
           extra == [u \in S |-> Extra(rest, n, place[u])]
<1>1. Size(rest) \in Nat /\ Sign(rest) \in {-1, 1} /\ rest = Sign(rest) * Size(rest)
    BY DEF Size, Sign
<1>2. q \in Int /\ m \in Nat /\ m <= n /\ Size(rest) = n * q + m
  <2>1. \A k \in Nat : k \div n \in Int /\ k % n \in Nat /\ k % n < n /\ k = n * (k \div n) + (k % n)
      OBVIOUS
  <2>2. /\ q \in Int /\ m \in Nat /\ m < n
        /\ Size(rest) = n * q + m
      BY <1>1, <2>1
  <2> HIDE DEF q, m
  <2> QED
      BY <2>2
<1> HIDE DEF q, m
<1>3. SumFunctionOnSet(whole, S) = q * n
    BY <1>2, SumConstant
<1>4. SumFunctionOnSet(one, S) = m
    BY <1>2, FirstPlaces
<1>5. \A u \in S : /\ whole[u] \in Int /\ one[u] \in Int /\ part[u] = whole[u] + one[u]
                   /\ part[u] \in Int
    BY <1>2
<1>6. \A u \in S : extra[u] = Sign(rest) * part[u]
    BY DEF Extra, q, m
<1> HIDE DEF whole, one, part, extra
<1>7. SumFunctionOnSet(part, S) = q * n + m
    BY <1>3, <1>4, <1>5, SumPlus
<1>8. SumFunctionOnSet(extra, S) = Sign(rest) * SumFunctionOnSet(part, S)
  <2>1. Sign(rest) \in Int
      BY <1>1
  <2> QED
      BY <1>5, <1>6, <2>1, SumScaled
<1>9. q * n + m = Size(rest)
    BY <1>2
<1>10. SumFunctionOnSet(extra, S) = rest
    BY <1>1, <1>7, <1>8, <1>9
<1> QED
    BY <1>10 DEF extra

\* Everybody's share is the one computed and the part of the place they are given.
Handed(shares, rest, n, place) ==
    [u \in DOMAIN shares |-> shares[u] + Extra(rest, n, place[u])]

LEMMA DistributedIs ==
    ASSUME NEW S, IsFiniteSet(S), NEW n \in Nat \ {0}, Cardinality(S) = n,
           NEW order \in Bijection(1..n, S), Len(order) = n,
           NEW shares \in [S -> Int], NEW total \in Int
    PROVE  \E place \in Bijection(S, 1..n) :
               DistributeRemainder(shares, total, order) =
                   Handed(shares, Wrap(total - Sum(shares)), n, place)
<1> DEFINE at(u) == CHOOSE k \in 1..n : order[k] = u
           place == [u \in S |-> at(u)]
           rest == Wrap(total - Sum(shares))
<1>1. ASSUME NEW u \in S PROVE at(u) \in 1..n /\ order[at(u)] = u
  <2>1. \E k \in 1..n : order[k] = u
      BY DEF Bijection, Surjection
  <2> QED
      BY <2>1
<1> HIDE DEF at
<1>2. place \in Bijection(S, 1..n)
  <2>1. place \in [S -> 1..n]
      BY <1>1
  <2>2. \A u, v \in S : place[u] = place[v] => u = v
      BY <1>1
  <2>3. \A k \in 1..n : \E u \in S : place[u] = k
    <3> TAKE k \in 1..n
    <3>1. order[k] \in S
        BY DEF Bijection, Injection
    <3>2. at(order[k]) \in 1..n /\ order[at(order[k])] = order[k]
        BY <1>1, <3>1
    <3>3. at(order[k]) = k
        BY <3>2 DEF Bijection, Injection, IsInjective
    <3> QED
        BY <3>1, <3>3
  <2> HIDE DEF place
  <2> QED
      BY <2>1, <2>2, <2>3 DEF Bijection, Injection, Surjection, IsInjective
<1>3. DistributeRemainder(shares, total, order) =
          Handed(shares, rest, n, place)
  <2>1. DOMAIN shares = S
      OBVIOUS
  <2> QED
      BY <2>1 DEF DistributeRemainder, Handed, Extra, at
<1> HIDE DEF place
<1> QED
    BY <1>2, <1>3

\* What division towards zero leaves.
LEMMA QuotIs ==
    ASSUME NEW a \in Int, NEW b \in Nat \ {0}
    PROVE  \E e \in 0..(b - 1) : b * Quot(a, b) = a - Sign(a) * e /\ (a = 0 => e = 0)
<1> DEFINE z == Size(a)
           q == z \div b
           e == z % b
<1>1. z \in Nat /\ Sign(a) \in {-1, 1} /\ a = Sign(a) * z /\ Size(b) = b /\ Sign(b) = 1
    BY DEF Size, Sign
<1> HIDE DEF z
<1>2. q \in Int /\ e \in 0..(b - 1) /\ z = b * q + e
  <2>1. \A k \in Nat : k \div b \in Int /\ k % b \in 0..(b - 1) /\ k = b * (k \div b) + (k % b)
      OBVIOUS
  <2> QED
      BY <1>1, <2>1
<1>3. Quot(a, b) = Sign(a) * Sign(b) * (z \div Size(b))
    BY DEF Quot, z
<1> HIDE DEF q, e
<1>4. Quot(a, b) = Sign(a) * q
    BY <1>1, <1>2, <1>3 DEF q
<1>5. b * Quot(a, b) = a - Sign(a) * e
  <2>1. CASE Sign(a) = 1
      BY <1>1, <1>2, <1>4, <2>1
  <2>2. CASE Sign(a) = -1
      BY <1>1, <1>2, <1>4, <2>2
  <2> QED
      BY <1>1, <2>1, <2>2
<1>6. a = 0 => e = 0
  <2>1. a = 0 => z = 0
      BY DEF z, Size
  <2>2. 0 % b = 0
      OBVIOUS
  <2> QED
      BY <2>1, <2>2 DEF e
<1> QED
    BY <1>2, <1>5, <1>6

\* Dividing a total by weights rounds each share towards zero, leaves less than
\* one unit per person, and with the unit that some get beyond that nobody is
\* more than a unit away from what is due.
LEMMA FairShares ==
    ASSUME NEW S, IsFiniteSet(S), NEW n \in Nat \ {0}, Cardinality(S) = n,
           NEW w \in [S -> Nat], NEW W \in Nat \ {0}, SumFunctionOnSet(w, S) = W,
           NEW total \in Int, NEW base \in [S -> Int],
           \A u \in S : base[u] = Quot(w[u] * total, W),
           NEW rest \in Int, rest = total - SumFunctionOnSet(base, S)
    PROVE  \A u \in S : \A i \in 1..n :
               Size((base[u] + Extra(rest, n, i)) * W - w[u] * total) <= W
<1> DEFINE s == Sign(total)
           due == [u \in S |-> total * w[u]]
           paid == [u \in S |-> (- W) * base[u]]
           gap == [u \in S |-> due[u] + paid[u]]
           err == [u \in S |-> s * gap[u]]
           slack == [u \in S |-> W - 1 - err[u]]
           most == [u \in S |-> W - 1]
           k == s * rest
<1>1. s \in {-1, 1} /\ s \in Int /\ - W \in Int /\ W - 1 \in Int
    BY DEF Sign
<1>2. ASSUME NEW u \in S PROVE due[u] \in Int /\ paid[u] \in Int /\ gap[u] \in Int
  <2>1. total * w[u] \in Int /\ (- W) * base[u] \in Int
      OBVIOUS
  <2> QED
      BY <2>1
<1>3. ASSUME NEW u \in S PROVE err[u] \in 0..(W - 1) /\ gap[u] = s * err[u]
  <2> DEFINE a == w[u] * total
  <2>1. a \in Int /\ w[u] \in Nat /\ base[u] \in Int /\ base[u] = Quot(a, W)
      OBVIOUS
  <2>2. gap[u] = a - W * base[u]
      OBVIOUS
  <2> HIDE DEF a, gap
  <2>3. PICK e \in 0..(W - 1) : W * Quot(a, W) = a - Sign(a) * e /\ (a = 0 => e = 0)
      BY <2>1, QuotIs
  <2>4. gap[u] = Sign(a) * e
    <3>1. Sign(a) * e \in Int
        BY <2>3 DEF Sign
    <3> QED
        BY <2>1, <2>2, <2>3, <3>1
  <2>5. a # 0 => Sign(a) = s
    <3>1. CASE total > 0
        BY <2>1, <3>1 DEF a, Sign
    <3>2. CASE total = 0
        BY <2>1, <3>2 DEF a
    <3>3. CASE total < 0
      <4>1. w[u] = 0 \/ w[u] >= 1
          BY <2>1
      <4>2. a <= 0
          BY <2>1, <3>3 DEF a
      <4>3. a # 0 => a < 0
          BY <2>1, <4>2
      <4> QED
          BY <3>3, <4>3 DEF Sign
    <3> QED
        BY <3>1, <3>2, <3>3
  <2>6. err[u] = s * gap[u]
      OBVIOUS
  <2> HIDE DEF err, s
  <2>7. gap[u] = s * e
    <3>1. CASE a = 0
      <4>1. e = 0 /\ Sign(a) \in Int
          BY <2>3, <3>1 DEF Sign
      <4> QED
          BY <1>1, <2>4, <4>1
    <3>2. CASE a # 0
        BY <2>4, <2>5, <3>2
    <3> QED
        BY <3>1, <3>2
  <2>8. err[u] = e
    <3>1. CASE s = 1
        BY <2>6, <2>7, <3>1
    <3>2. CASE s = -1
        BY <2>6, <2>7, <3>2
    <3> QED
        BY <1>1, <3>1, <3>2
  <2> QED
      BY <2>7, <2>8
<1>4. /\ \A u \in S : due[u] = total * w[u] /\ w[u] \in Int /\ paid[u] = (- W) * base[u]
      /\ \A u \in S : gap[u] = due[u] + paid[u] /\ err[u] = s * gap[u]
      /\ \A u \in S : slack[u] = W - 1 - err[u] /\ most[u] = W - 1
    OBVIOUS
<1>5. k = s * rest /\ base \in [S -> Int]
    OBVIOUS
<1> HIDE DEF s, due, paid, gap, err, slack, most, k
<1> DEFINE E == SumFunctionOnSet(err, S)
           B == SumFunctionOnSet(base, S)
<1>6. B \in Int
    BY SumInt
<1>7. E = s * (total * W + (- W) * B)
  <2>1. SumFunctionOnSet(due, S) = total * W
    <3>1. \A u \in S : w[u] \in Int /\ due[u] = total * w[u]
        BY <1>4
    <3>2. SumFunctionOnSet(due, S) = total * SumFunctionOnSet(w, S)
        BY <3>1, SumScaled
    <3> QED
        BY <3>2
  <2>2. SumFunctionOnSet(paid, S) = (- W) * B
    <3>1. \A u \in S : base[u] \in Int /\ paid[u] = (- W) * base[u]
        BY <1>4
    <3> QED
        BY <1>1, <3>1, SumScaled
  <2>3. SumFunctionOnSet(gap, S) = SumFunctionOnSet(due, S) + SumFunctionOnSet(paid, S)
      BY <1>2, <1>4, SumPlus
  <2>4. SumFunctionOnSet(err, S) = s * SumFunctionOnSet(gap, S)
    <3>1. \A u \in S : gap[u] \in Int /\ err[u] = s * gap[u]
        BY <1>2, <1>4
    <3> QED
        BY <1>1, <3>1, SumScaled
  <2> QED
      BY <2>1, <2>2, <2>3, <2>4
<1>8. E \in Nat
  <2>1. \A u \in S : err[u] \in Nat
      BY <1>3
  <2> QED
      BY <2>1, SumNonnegative
<1>9. E <= n * (W - 1)
  <2>1. \A u \in S : slack[u] \in Nat
      BY <1>3, <1>4
  <2>2. SumFunctionOnSet(slack, S) \in Nat
      BY <2>1, SumNonnegative
  <2>3. \A u \in S : err[u] \in Int /\ slack[u] \in Int /\ most[u] = err[u] + slack[u]
      BY <1>3, <1>4
  <2>4. SumFunctionOnSet(most, S) = E + SumFunctionOnSet(slack, S)
      BY <2>3, SumPlus
  <2>5. SumFunctionOnSet(most, S) = (W - 1) * n
      BY <1>1, <1>4, SumConstant
  <2>6. (W - 1) * n = n * (W - 1) /\ n * (W - 1) \in Int
      OBVIOUS
  <2> HIDE DEF E
  <2> QED
      BY <1>8, <2>2, <2>4, <2>5, <2>6
<1> HIDE DEF E
<1>10. k \in Int /\ E = W * k
  <2>1. rest = total - B
      OBVIOUS
  <2> HIDE DEF B
  <2>2. total * W + (- W) * B = W * rest
    <3>1. \A c, i, j \in Int : i * c + (- c) * j = c * (i - j)
        OBVIOUS
    <3>2. total * W + (- W) * B = W * (total - B)
        BY <1>6, <3>1
    <3> QED
        BY <2>1, <3>2
  <2>3. E = s * (W * rest)
      BY <1>7, <2>2
  <2>4. CASE s = 1
      BY <1>5, <2>3, <2>4
  <2>5. CASE s = -1
      BY <1>5, <2>3, <2>5
  <2> QED
      BY <1>1, <2>4, <2>5
<1>11. k \in Nat /\ k < n
  <2>1. ASSUME k < 0 PROVE FALSE
    <3>1. W * k < 0
        BY <1>10, <2>1
    <3> QED
        BY <1>8, <1>10, <3>1
  <2>2. ASSUME k >= n PROVE FALSE
    <3>1. PICK d \in Nat : k = n + d
      <4>1. k - n \in Nat /\ k = n + (k - n)
          BY <1>10, <2>2
      <4> QED
          BY <4>1
    <3>2. W * k = W * n + W * d /\ W * d \in Nat
        BY <3>1
    <3>3. n * (W - 1) = W * n - n /\ W * n \in Nat
        OBVIOUS
    <3> QED
        BY <1>9, <1>10, <3>2, <3>3
  <2> QED
      BY <1>10, <2>1, <2>2
<1>12. Size(rest) = k /\ (k # 0 => Sign(rest) = s)
  <2>1. CASE s = 1
      BY <1>5, <1>11, <2>1 DEF Size, Sign
  <2>2. CASE s = -1
      BY <1>5, <1>11, <2>2 DEF Size, Sign
  <2> QED
      BY <1>1, <2>1, <2>2
<1>13. ASSUME NEW i \in 1..n PROVE Extra(rest, n, i) = 0 \/ Extra(rest, n, i) = s
  <2>1. \A j \in Nat : j < n => j \div n = 0 /\ j % n = j
      OBVIOUS
  <2>2. Extra(rest, n, i) = Sign(rest) * ((k \div n) + (IF i <= k % n THEN 1 ELSE 0))
      BY <1>12 DEF Extra
  <2>3. Extra(rest, n, i) = Sign(rest) * (0 + (IF i <= k THEN 1 ELSE 0))
      BY <1>11, <2>1, <2>2
  <2>4. CASE i <= k
    <3>1. k # 0 /\ Sign(rest) = s
        BY <1>11, <1>12, <2>4
    <3> QED
        BY <1>1, <2>3, <2>4, <3>1
  <2>5. CASE ~ (i <= k)
    <3>1. Sign(rest) \in Int
        BY DEF Sign
    <3> QED
        BY <2>3, <2>5, <3>1
  <2> QED
      BY <2>4, <2>5
<1>14. ASSUME NEW u \in S, NEW i \in 1..n
       PROVE  Size((base[u] + Extra(rest, n, i)) * W - w[u] * total) <= W
  <2> DEFINE x == Extra(rest, n, i)
             e == err[u]
             b == base[u]
             off == (b + x) * W - w[u] * total
  <2>1. e \in Int /\ 0 <= e /\ e <= W - 1 /\ gap[u] = s * e
      BY <1>3
  <2>2. b \in Int /\ w[u] * total \in Int /\ gap[u] = w[u] * total - W * b
      BY <1>4
  <2>3. x = 0 \/ x = s
      BY <1>13
  <2> HIDE DEF x, e, b
  <2>4. off = W * x - s * e
    <3>1. x \in Int /\ W * x \in Int /\ s * e \in Int
        BY <1>1, <2>1, <2>3
    <3>2. (b + x) * W = W * b + W * x
        BY <2>2, <3>1
    <3> QED
        BY <2>1, <2>2, <3>1, <3>2
  <2>5. off = 0 - e \/ off = e \/ off = W - e \/ off = e - W
    <3>1. CASE s = 1
        BY <2>1, <2>3, <2>4, <3>1
    <3>2. CASE s = -1
        BY <2>1, <2>3, <2>4, <3>2
    <3> QED
        BY <1>1, <3>1, <3>2
  <2> HIDE DEF off
  <2>6. Size(off) <= W
      BY <2>1, <2>5 DEF Size
  <2> QED
      BY <2>6 DEF off, b, x
<1> QED
    BY <1>14

\* What a split by method owes each line: as near to what is due as whole
\* numbers come, whichever place the line has in the seeded order.
NearDue(b, rest, n, u, i) ==
    Size((BaseShare(b.method, b.total, b.values, u) + Extra(rest, n, i)) * Whole(b) - Due(b, u))
        <= Whole(b)

Recorded(b) ==
    /\ b \in BillForms
    /\ Accepted(b.method, b.total, b.values)
    /\ Computable(b.method, b.values)

\* What is left over by the shares of a form.
Rest(b) == b.total - Sum(BaseShares(b.method, b.total, b.values))

LEMMA RecordedIs ==
    ASSUME NEW b, Recorded(b)
    PROVE  /\ b \in BillForms /\ Accepted(b.method, b.total, b.values)
           /\ b.method \in UserSelectable /\ b.total \in Int /\ b.payer \in Users
           /\ DOMAIN b.values \subseteq Users /\ IsFiniteSet(DOMAIN b.values)
           /\ \A u \in DOMAIN b.values : b.values[u] \in Int
           /\ Cardinality(DOMAIN b.values) \in Nat \ {0}
           /\ Sum(b.values) = SumFunctionOnSet(b.values, DOMAIN b.values) /\ Sum(b.values) \in Int
           /\ BaseShares(b.method, b.total, b.values) \in [DOMAIN b.values -> Int]
           /\ Sum(BaseShares(b.method, b.total, b.values))
                 = SumFunctionOnSet(BaseShares(b.method, b.total, b.values), DOMAIN b.values)
           /\ Rest(b) \in Int
<1> DEFINE S == DOMAIN b.values
           base == BaseShares(b.method, b.total, b.values)
<1>1. /\ b.method \in UserSelectable /\ b.total \in Int /\ b.payer \in Users
      /\ S \subseteq Users /\ IsFiniteSet(S) /\ \A u \in S : b.values[u] \in Int
      /\ Accepted(b.method, b.total, b.values) /\ Computable(b.method, b.values)
    BY FormType DEF Recorded
<1>2. Cardinality(S) \in Nat \ {0}
    BY <1>1, FS_CardinalityType, FS_EmptySet DEF Accepted
<1>3. Sum(b.values) = SumFunctionOnSet(b.values, S) /\ Sum(b.values) \in Int
    BY <1>1, SumType
<1>4. base \in [S -> Int]
    BY <1>1, BaseSharesType
<1> HIDE DEF base
<1>5. Sum(base) = SumFunctionOnSet(base, S) /\ Sum(base) \in Int
  <2>1. DOMAIN base = S /\ \A u \in S : base[u] \in Int
      BY <1>4
  <2> QED
      BY <1>1, <2>1, SumType
<1>6. b.total - Sum(base) \in Int
    BY <1>1, <1>5
<1> QED
    BY <1>1, <1>2, <1>3, <1>4, <1>5, <1>6 DEF base, Recorded, Rest

LEMMA EqualIsFair ==
    ASSUME NEW b, Recorded(b), b.method = "EQUAL",
           NEW u \in DOMAIN b.values, NEW i \in 1..Cardinality(DOMAIN b.values)
    PROVE  NearDue(b, Rest(b), Cardinality(DOMAIN b.values), u, i)
<1> DEFINE S == DOMAIN b.values
           n == Cardinality(S)
           base == BaseShares(b.method, b.total, b.values)
           w == [v \in S |-> 1]
<1>1. /\ IsFiniteSet(S) /\ b.total \in Int /\ n \in Nat \ {0}
      /\ base \in [S -> Int] /\ Rest(b) \in Int /\ Sum(base) = SumFunctionOnSet(base, S)
    BY RecordedIs
<1>2. Rest(b) = b.total - SumFunctionOnSet(base, S)
    BY <1>1 DEF Rest
<1>3. w \in [S -> Nat] /\ SumFunctionOnSet(w, S) = n
  <2>1. \A v \in S : w[v] = 1
      OBVIOUS
  <2>2. w \in [S -> Nat]
      OBVIOUS
  <2> HIDE DEF w
  <2>3. SumFunctionOnSet(w, S) = 1 * Cardinality(S)
      BY <1>1, <2>1, SumConstant
  <2> QED
      BY <1>1, <2>2, <2>3
<1>4. \A v \in S : base[v] = BaseShare(b.method, b.total, b.values, v)
    BY DEF BaseShares
<1>5. \A v \in S : base[v] = Quot(w[v] * b.total, n)
  <2> TAKE v \in S
  <2>1. w[v] * b.total = b.total
      BY <1>1
  <2>2. base[v] = Quot(b.total, n)
      BY <1>4 DEF BaseShare
  <2> QED
      BY <2>1, <2>2
<1>6. Whole(b) = n /\ Due(b, u) = 1 * b.total + 0 * n
    BY DEF Whole, Due, Part, Divided, Added
<1>7. w[u] = 1
    OBVIOUS
<1> HIDE DEF S, n, base, w
<1>8. Size((base[u] + Extra(Rest(b), n, i)) * n - w[u] * b.total) <= n
    BY <1>1, <1>2, <1>3, <1>5, FairShares DEF S, n
<1>9. Due(b, u) = w[u] * b.total
    BY <1>1, <1>6, <1>7
<1> QED
    BY <1>4, <1>6, <1>8, <1>9 DEF NearDue, S, n

LEMMA ExactIsFair ==
    ASSUME NEW b, Recorded(b), Fits(b), b.method = "EXACT",
           NEW u \in DOMAIN b.values, NEW i \in 1..Cardinality(DOMAIN b.values)
    PROVE  NearDue(b, Rest(b), Cardinality(DOMAIN b.values), u, i)
<1> DEFINE S == DOMAIN b.values
           n == Cardinality(S)
           base == BaseShares(b.method, b.total, b.values)
<1>1. /\ IsFiniteSet(S) /\ b.total \in Int /\ n \in Nat \ {0}
      /\ Sum(base) = SumFunctionOnSet(base, S)
      /\ Accepted(b.method, b.total, b.values) /\ \A v \in S : b.values[v] \in Int
      /\ Sum(b.values) = SumFunctionOnSet(b.values, S) /\ Sum(b.values) \in Int
    BY RecordedIs
<1>2. Sum(b.values) = b.total
  <2>1. Wrap(Sum(b.values)) = b.total
      BY <1>1 DEF Accepted
  <2>2. Wrap(Sum(b.values)) = Sum(b.values)
      BY <1>1, WrapFits DEF Fits
  <2> QED
      BY <2>1, <2>2
<1>3. BaseShare(b.method, b.total, b.values, u) = b.values[u]
    BY DEF BaseShare
<1>4. \A v \in S : base[v] = b.values[v]
    BY DEF BaseShares, BaseShare
<1>5. Whole(b) = n /\ Due(b, u) = b.values[u] * n
    BY DEF Whole, Due
<1>6. b.values[u] \in Int
    BY <1>1
<1>7. i \in Nat /\ i >= 1
    BY <1>1
<1> HIDE DEF S, n, base
<1>8. SumFunctionOnSet(base, S) = SumFunctionOnSet(b.values, S)
    BY <1>1, <1>4, SumEqual
<1>9. Rest(b) = 0
    BY <1>1, <1>2, <1>8 DEF Rest, base
<1>10. Extra(0, n, i) = 0
  <2>1. 0 \div n = 0 /\ 0 % n = 0
      BY <1>1
  <2>2. Size(0) = 0 /\ Sign(0) = 1
      BY DEF Size, Sign
  <2> QED
      BY <1>7, <2>1, <2>2 DEF Extra
<1>11. (b.values[u] + 0) * n - b.values[u] * n = 0
    BY <1>1, <1>6
<1>12. Size(0) <= n
    BY <1>1 DEF Size
<1> QED
    BY <1>3, <1>5, <1>9, <1>10, <1>11, <1>12 DEF NearDue, S, n

LEMMA MultipleIs ==
    ASSUME NEW g \in Nat \ {0}
    PROVE  /\ \A v \in Nat : v % g = 0 => v = g * (v \div g) /\ v \div g \in Nat
           /\ \A m \in Int : (g * m) \div g = m
           /\ \A x \in Int : Size(g * x) = g * Size(x) /\ Size(x) <= Size(g * x)
<1>1. \A v \in Nat : v % g = 0 => v = g * (v \div g) /\ v \div g \in Nat
  <2>1. \A v \in Nat : v = g * (v \div g) + (v % g) /\ v \div g \in Nat
      OBVIOUS
  <2>2. \A v \in Nat : g * (v \div g) \in Int
      BY <2>1
  <2> QED
      BY <2>1, <2>2
<1>2. ASSUME NEW m \in Int PROVE (g * m) \div g = m
  <2> DEFINE k == (g * m) \div g
             e == (g * m) % g
  <2>1. g * m \in Int
      OBVIOUS
  <2>2. k \in Int /\ 0 <= e /\ e < g /\ e \in Int /\ g * m = g * k + e
    <3>1. \A i \in Int : i \div g \in Int /\ i % g \in 0..(g - 1) /\ i = g * (i \div g) + (i % g)
        OBVIOUS
    <3> DEFINE i == g * m
    <3> HIDE DEF i
    <3>2. i \div g \in Int /\ i % g \in 0..(g - 1) /\ i = g * (i \div g) + (i % g)
        BY <2>1, <3>1 DEF i
    <3>3. i \div g \in Int /\ 0 <= i % g /\ i % g < g /\ i % g \in Int /\ i = g * (i \div g) + (i % g)
        BY <3>2
    <3> QED
        BY <3>3 DEF i
  <2> HIDE DEF k, e
  <2>3. g * (m - k) = e
      BY <2>2
  <2>4. ~ (m - k >= 1)
    <3> SUFFICES ASSUME m - k >= 1 PROVE FALSE
        OBVIOUS
    <3>1. PICK d \in Nat : m - k = 1 + d
      <4>1. m - k - 1 \in Nat /\ m - k = 1 + (m - k - 1)
          BY <2>2
      <4> QED
          BY <4>1
    <3>2. g * (1 + d) = g + g * d /\ g * d \in Nat
        OBVIOUS
    <3> QED
        BY <2>2, <2>3, <3>1, <3>2
  <2>5. ~ (m - k <= -1)
    <3> SUFFICES ASSUME m - k <= -1 PROVE FALSE
        OBVIOUS
    <3>1. g * (m - k) < 0
        BY <2>2
    <3> QED
        BY <2>2, <2>3, <3>1
  <2>6. m = k
      BY <2>2, <2>4, <2>5
  <2> QED
      BY <2>6 DEF k
<1>3. ASSUME NEW x \in Int PROVE Size(g * x) = g * Size(x) /\ Size(x) <= Size(g * x)
  <2>1. CASE x >= 0
    <3>1. g * x >= x /\ g * x >= 0 /\ g * x \in Int
        BY <2>1
    <3> QED
        BY <2>1, <3>1 DEF Size
  <2>2. CASE x < 0
    <3>1. g * x <= x /\ g * x < 0 /\ g * x \in Int /\ - (g * x) = g * (- x)
        BY <2>2
    <3> QED
        BY <2>2, <3>1 DEF Size
  <2> QED
      BY <2>1, <2>2
<1> QED
    BY <1>1, <1>2, <1>3

\* Percentages and weights are weights in lowest terms, by which the total is
\* divided.
LEMMA WeighedBase ==
    ASSUME NEW b, Recorded(b), Fits(b), InRange(b), b.method \in {"PERCENTAGE", "SHARE"}
    PROVE  \E g \in Nat \ {0}, W \in Nat \ {0} : \E w \in [DOMAIN b.values -> Nat] :
               /\ SumFunctionOnSet(w, DOMAIN b.values) = W /\ Sum(b.values) = g * W
               /\ \A u \in DOMAIN b.values :
                     /\ b.values[u] = g * w[u]
                     /\ BaseShare(b.method, b.total, b.values, u) = Quot(w[u] * b.total, W)
<1> DEFINE S == DOMAIN b.values
           g == IF b.method = "SHARE" THEN Gcd(b.values) ELSE 1
           w == [v \in S |-> b.values[v] \div g]
           W == SumFunctionOnSet(w, S)
           sum == Sum(b.values)
<1>1. /\ IsFiniteSet(S) /\ b.total \in Int
      /\ Accepted(b.method, b.total, b.values)
      /\ sum = SumFunctionOnSet(b.values, S) /\ sum \in Int
    BY RecordedIs
<1>2. /\ sum > 0 /\ Wrap(sum) = sum
      /\ \A v \in S : b.values[v] \in Nat
      /\ b.method = "PERCENTAGE" => sum = BasisPointsFull
  <2>1. Wrap(sum) = sum
      BY <1>1, WrapFits DEF Fits
  <2>2. Wrap(sum) > 0 /\ (b.method = "PERCENTAGE" => Wrap(sum) = BasisPointsFull)
      BY <1>1 DEF Accepted, BasisPointsFull
  <2>3. \A v \in S : b.values[v] >= 0
      BY <1>1 DEF Accepted
  <2>4. \A v \in S : b.values[v] \in Int
      BY RecordedIs
  <2> HIDE DEF sum
  <2> QED
      BY <2>1, <2>2, <2>3, <2>4
<1>3. g \in Nat \ {0} /\ \A v \in S : b.values[v] % g = 0
  <2>1. CASE b.method = "SHARE"
      BY <1>1, <1>2, <2>1, GcdType
  <2>2. CASE b.method # "SHARE"
    <3>1. \A n \in Nat : n % 1 = 0
        OBVIOUS
    <3> QED
        BY <1>2, <2>2, <3>1
  <2> QED
      BY <2>1, <2>2
<1>4. ASSUME NEW v \in S
      PROVE  BaseShare(b.method, b.total, b.values, v)
                = Quot(Wrap((b.values[v] \div g) * b.total), Wrap(sum) \div g)
  <2>1. CASE b.method = "SHARE"
      BY <2>1 DEF BaseShare
  <2>2. CASE b.method = "PERCENTAGE"
    <3>1. BaseShare(b.method, b.total, b.values, v) = Quot(Wrap(b.values[v] * b.total), sum)
        BY <1>2, <2>2 DEF BaseShare
    <3>2. g = 1 /\ b.values[v] \div 1 = b.values[v] /\ sum \div 1 = sum
        BY <1>1, <1>2, <2>2
    <3> QED
        BY <1>2, <3>1, <3>2
  <2> QED
      BY <2>1, <2>2
<1>5. \A v \in S : w[v] = b.values[v] \div g
    OBVIOUS
<1>6. w = [v \in S |-> w[v]]
    OBVIOUS
<1>7. \A v \in S : Size(b.values[v] * b.total) <= MaxInt
    BY DEF InRange
<1> HIDE DEF g, w, sum, S
<1>8. \A v \in S : w[v] \in Nat /\ b.values[v] = g * w[v]
  <2>1. \A v \in Nat : v % g = 0 => v = g * (v \div g) /\ v \div g \in Nat
      BY <1>3, MultipleIs
  <2> QED
      BY <1>2, <1>3, <1>5, <2>1
<1>9. w \in [S -> Nat]
    BY <1>6, <1>8
<1>10. W \in Nat /\ sum = g * W
  <2>1. \A v \in S : w[v] \in Int /\ b.values[v] = g * w[v]
      BY <1>8
  <2>2. W \in Nat
      BY <1>1, <1>8, SumNonnegative
  <2>3. SumFunctionOnSet(b.values, S) = g * W
    <3> DEFINE f == b.values
    <3> HIDE DEF f
    <3>1. g \in Int /\ \A v \in S : w[v] \in Int /\ f[v] = g * w[v]
        BY <1>3, <2>1 DEF f
    <3>2. SumFunctionOnSet(f, S) = g * SumFunctionOnSet(w, S)
        BY <1>1, <3>1, SumScaled
    <3> QED
        BY <3>2 DEF f
  <2> QED
      BY <1>1, <2>2, <2>3
<1>11. W = SumFunctionOnSet(w, S)
    OBVIOUS
<1> HIDE DEF W
<1>12. W # 0 /\ Wrap(sum) \div g = W
  <2>1. W # 0
      BY <1>2, <1>3, <1>10
  <2>2. (g * W) \div g = W
      BY <1>3, <1>10, MultipleIs
  <2> QED
      BY <1>2, <1>10, <2>1, <2>2
<1>13. \A v \in S : BaseShare(b.method, b.total, b.values, v) = Quot(w[v] * b.total, W)
  <2> TAKE v \in S
  <2> DEFINE x == w[v] * b.total
  <2>1. x \in Int /\ b.values[v] * b.total = g * x
      BY <1>1, <1>3, <1>8
  <2>2. Size(x) <= MaxInt
    <3>1. Size(g * x) <= MaxInt
        BY <1>7, <2>1
    <3>2. Size(x) <= Size(g * x)
        BY <1>3, <2>1, MultipleIs
    <3>3. Size(x) \in Int /\ Size(g * x) \in Int /\ MaxInt \in Int
        BY <1>3, <2>1, SplitAssumption DEF Size
    <3> HIDE DEF x
    <3> QED
        BY <3>1, <3>2, <3>3
  <2>3. Wrap(x) = x
      BY <2>1, <2>2, WrapFits
  <2>4. BaseShare(b.method, b.total, b.values, v) = Quot(Wrap(x), W)
      BY <1>4, <1>5, <1>12
  <2> QED
      BY <2>3, <2>4
<1> QED
    BY <1>3, <1>8, <1>9, <1>10, <1>11, <1>12, <1>13 DEF S, sum

LEMMA WeightsAreFair ==
    ASSUME NEW b, Recorded(b), Fits(b), InRange(b), b.method \in {"PERCENTAGE", "SHARE"},
           NEW u \in DOMAIN b.values, NEW i \in 1..Cardinality(DOMAIN b.values)
    PROVE  NearDue(b, Rest(b), Cardinality(DOMAIN b.values), u, i)
<1> DEFINE S == DOMAIN b.values
           n == Cardinality(S)
           base == BaseShares(b.method, b.total, b.values)
           sum == Sum(b.values)
<1>1. /\ IsFiniteSet(S) /\ b.total \in Int /\ n \in Nat \ {0}
      /\ base \in [S -> Int] /\ Rest(b) \in Int /\ Sum(base) = SumFunctionOnSet(base, S)
    BY RecordedIs
<1>2. Rest(b) = b.total - SumFunctionOnSet(base, S)
    BY <1>1 DEF Rest
<1>3. PICK g \in Nat \ {0}, W \in Nat \ {0} : \E w \in [S -> Nat] :
          /\ SumFunctionOnSet(w, S) = W /\ sum = g * W
          /\ \A v \in S : /\ b.values[v] = g * w[v]
                          /\ BaseShare(b.method, b.total, b.values, v) = Quot(w[v] * b.total, W)
    BY WeighedBase
<1>4. PICK w \in [S -> Nat] :
          /\ SumFunctionOnSet(w, S) = W /\ sum = g * W
          /\ \A v \in S : /\ b.values[v] = g * w[v]
                          /\ BaseShare(b.method, b.total, b.values, v) = Quot(w[v] * b.total, W)
    BY <1>3
<1>5. \A v \in S : base[v] = BaseShare(b.method, b.total, b.values, v)
    BY DEF BaseShares
<1>6. Whole(b) = sum /\ Due(b, u) = b.values[u] * b.total + 0 * sum
    BY DEF Whole, Due, Part, Divided, Added
<1>7. u \in S /\ i \in 1..n
    OBVIOUS
<1> HIDE DEF sum, n, S, base
<1>8. \A v \in S : base[v] = Quot(w[v] * b.total, W)
    BY <1>4, <1>5
<1> DEFINE d == base[u] + Extra(Rest(b), n, i)
           y == d * W - w[u] * b.total
<1>9. Size(y) <= W
    BY <1>1, <1>2, <1>4, <1>7, <1>8, FairShares DEF n
<1>10. d \in Int
  <2>1. base[u] \in Int /\ i \in Nat
      BY <1>1, <1>7
  <2>2. Extra(Rest(b), n, i) \in Int
      BY <1>1, <2>1, ExtraIs
  <2> QED
      BY <2>1, <2>2
<1> HIDE DEF d
<1>11. y \in Int /\ d * sum - Due(b, u) = g * y
  <2>1. w[u] \in Int /\ w[u] * b.total \in Int /\ d * W \in Int /\ sum \in Int
      BY <1>1, <1>4, <1>7, <1>10
  <2>2. Due(b, u) = g * (w[u] * b.total)
      BY <1>1, <1>4, <1>6, <1>7, <2>1
  <2>3. d * sum = g * (d * W)
      BY <1>4, <1>10
  <2> DEFINE p == d * W
             q == w[u] * b.total
  <2> HIDE DEF p, q
  <2>4. p \in Int /\ q \in Int /\ y = p - q /\ d * sum - Due(b, u) = g * p - g * q
      BY <2>1, <2>2, <2>3 DEF p, q
  <2>5. g * p - g * q = g * (p - q)
      BY <2>4
  <2> HIDE DEF y
  <2> QED
      BY <2>4, <2>5
<1> HIDE DEF y
<1>12. Size(g * y) <= g * W
  <2>1. Size(g * y) = g * Size(y) /\ Size(y) \in Nat
      BY <1>11, MultipleIs DEF Size
  <2>2. PICK z \in Nat : W = Size(y) + z
    <3>1. W - Size(y) \in Nat /\ W = Size(y) + (W - Size(y))
        BY <1>9, <2>1
    <3> QED
        BY <3>1
  <2>3. g * W = g * Size(y) + g * z /\ g * z \in Nat /\ g * Size(y) \in Nat
      BY <2>1, <2>2
  <2> QED
      BY <2>1, <2>3
<1>13. BaseShare(b.method, b.total, b.values, u) + Extra(Rest(b), n, i) = d
    BY <1>5, <1>7 DEF d
<1>14. Size(d * Whole(b) - Due(b, u)) <= Whole(b)
    BY <1>4, <1>6, <1>11, <1>12
<1> QED
    BY <1>13, <1>14 DEF NearDue, n, S

LEMMA AdjustedIsFair ==
    ASSUME NEW b, Recorded(b), Fits(b), b.method = "ADJUSTMENT",
           NEW u \in DOMAIN b.values, NEW i \in 1..Cardinality(DOMAIN b.values)
    PROVE  NearDue(b, Rest(b), Cardinality(DOMAIN b.values), u, i)
<1> DEFINE S == DOMAIN b.values
           n == Cardinality(S)
           base == BaseShares(b.method, b.total, b.values)
           sum == Sum(b.values)
           left == b.total - sum
           part == [v \in S |-> Quot(left, n)]
           w == [v \in S |-> 1]
<1>1. /\ IsFiniteSet(S) /\ b.total \in Int /\ n \in Nat \ {0}
      /\ base \in [S -> Int] /\ Rest(b) \in Int /\ Sum(base) = SumFunctionOnSet(base, S)
      /\ \A v \in S : b.values[v] \in Int
      /\ sum = SumFunctionOnSet(b.values, S) /\ sum \in Int
    BY RecordedIs
<1>2. left \in Int /\ Wrap(left) = left /\ Quot(left, n) \in Int
  <2>1. left \in Int
      BY <1>1
  <2>2. Size(left) <= MaxInt
      BY DEF Fits
  <2>3. Wrap(left) = left
      BY <2>1, <2>2, WrapFits
  <2> HIDE DEF left, n
  <2>4. n \in Int /\ n > 0
      BY <1>1
  <2>5. Quot(left, n) \in Int
      BY <2>1, <2>4, QuotType
  <2> QED
      BY <2>1, <2>3, <2>5
<1>3. ASSUME NEW v \in S
      PROVE  BaseShare(b.method, b.total, b.values, v) = Quot(left, n) + b.values[v]
  <2>1. BaseShare(b.method, b.total, b.values, v) = Wrap(Quot(Wrap(left), n) + b.values[v])
      BY DEF BaseShare
  <2>2. Size(Quot(left, n) + b.values[v]) <= MaxInt
      BY DEF Fits
  <2> HIDE DEF left, n, S
  <2>3. Quot(left, n) + b.values[v] \in Int
      BY <1>1, <1>2
  <2>4. Wrap(Quot(left, n) + b.values[v]) = Quot(left, n) + b.values[v]
      BY <2>2, <2>3, WrapFits
  <2> QED
      BY <1>2, <2>1, <2>4
<1>4. \A v \in S : base[v] = BaseShare(b.method, b.total, b.values, v)
    BY DEF BaseShares
<1>5. Whole(b) = n /\ Due(b, u) = 1 * left + b.values[u] * n
    BY DEF Whole, Due, Part, Divided, Added
<1>6. u \in S /\ i \in 1..n
    OBVIOUS
<1>7. w \in [S -> Nat] /\ part \in [S -> Int] /\ \A v \in S : w[v] = 1 /\ part[v] = Quot(left, n)
  <2> HIDE DEF left, n, S
  <2> QED
      BY <1>2
<1>8. left = b.total - sum
    OBVIOUS
<1> HIDE DEF S, n, base, sum, left, part, w
<1>9. SumFunctionOnSet(w, S) = n
  <2>1. SumFunctionOnSet(w, S) = 1 * Cardinality(S)
      BY <1>1, <1>7, SumConstant
  <2> QED
      BY <1>1, <2>1 DEF n
<1>10. SumFunctionOnSet(base, S) = SumFunctionOnSet(part, S) + sum
  <2>1. \A v \in S : part[v] \in Int /\ b.values[v] \in Int /\ base[v] = part[v] + b.values[v]
      BY <1>1, <1>3, <1>4, <1>7
  <2> QED
      BY <1>1, <2>1, SumPlus
<1>11. SumFunctionOnSet(part, S) \in Int
  <2>1. \A v \in S : part[v] \in Int
      BY <1>7
  <2> QED
      BY <1>1, <2>1, SumInt
<1>12. Rest(b) = left - SumFunctionOnSet(part, S)
  <2>1. Rest(b) = b.total - SumFunctionOnSet(base, S)
      BY <1>1 DEF Rest, base
  <2> QED
      BY <1>1, <1>8, <1>10, <1>11, <2>1
<1>13. \A v \in S : part[v] = Quot(w[v] * left, n)
  <2>1. 1 * left = left
      BY <1>2
  <2> QED
      BY <1>7, <2>1
<1> DEFINE x == Extra(Rest(b), n, i)
           y == (part[u] + x) * n - w[u] * left
<1>14. Size(y) <= n
    BY <1>1, <1>2, <1>6, <1>7, <1>9, <1>12, <1>13, FairShares DEF n
<1>15. x \in Int /\ part[u] \in Int /\ b.values[u] \in Int
  <2>1. i \in Nat
      BY <1>6
  <2>2. x \in Int
      BY <1>1, <2>1, ExtraIs
  <2> QED
      BY <1>1, <1>6, <1>7, <2>2
<1> HIDE DEF x
<1>16. (part[u] + b.values[u] + x) * n - Due(b, u) = y
  <2>1. w[u] * left = left /\ 1 * left = left
      BY <1>2, <1>6, <1>7
  <2> DEFINE p == part[u] + x
             q == b.values[u]
  <2>2. p \in Int /\ q \in Int /\ part[u] + b.values[u] + x = p + q
      BY <1>15
  <2> HIDE DEF p, q
  <2>3. (p + q) * n = p * n + q * n /\ p * n \in Int /\ q * n \in Int
      BY <1>1, <2>2
  <2>4. Due(b, u) = left + q * n
      BY <1>5, <2>1 DEF q
  <2>5. y = p * n - left
      BY <2>1 DEF p
  <2> HIDE DEF y
  <2> QED
      BY <1>2, <2>2, <2>3, <2>4, <2>5
<1> HIDE DEF y
<1>17. BaseShare(b.method, b.total, b.values, u) = part[u] + b.values[u]
    BY <1>3, <1>6, <1>7
<1> QED
    BY <1>5, <1>14, <1>16, <1>17 DEF NearDue, n, S, x

\* Whatever the method.
LEMMA SplitIsFair ==
    ASSUME NEW b, Recorded(b), Fits(b), InRange(b),
           NEW u \in DOMAIN b.values, NEW i \in 1..Cardinality(DOMAIN b.values)
    PROVE  NearDue(b, Rest(b), Cardinality(DOMAIN b.values), u, i)
BY RecordedIs, EqualIsFair, ExactIsFair, WeightsAreFair, AdjustedIsFair
   DEF UserSelectable

-------------------------------------------------------------------------------
(* The rows of a form.                                                     *)

\* The seed puts each line in a place of its own.
LEMMA SeededIs ==
    ASSUME NEW S, IsFiniteSet(S), S \subseteq Int, NEW n \in Nat, Cardinality(S) = n,
           NEW perm \in Orders(n)
    PROVE  LET lines == FormLines(S)
               order == [i \in 1..Len(lines) |-> lines[perm[i]]]
           IN  order \in Bijection(1..n, S) /\ Len(order) = n
<1> DEFINE lines == FormLines(S)
           order == [i \in 1..n |-> lines[perm[i]]]
<1>1. lines \in Bijection(1..n, S) /\ Len(lines) = n
    BY FormLinesIs
<1> HIDE DEF lines
<1>2. perm \in Bijection(1..n, 1..n)
  <2>1. perm \in [1..n -> 1..n] /\ \A i, j \in 1..n : i # j => perm[i] # perm[j]
      BY DEF Orders
  <2>2. perm \in Injection(1..n, 1..n)
      BY <2>1 DEF Injection, IsInjective
  <2>3. IsFiniteSet(1..n)
      BY UptoIs
  <2>4. perm \in Surjection(1..n, 1..n)
      BY <2>2, <2>3, FS_Injection
  <2> QED
      BY <2>2, <2>4 DEF Bijection
<1>3. order \in Bijection(1..n, S)
  <2>1. \A i \in 1..n : perm[i] \in 1..n
      BY <1>2 DEF Bijection, Injection
  <2>2. order \in [1..n -> S]
      BY <1>1, <2>1 DEF Bijection, Injection
  <2>3. \A i, j \in 1..n : order[i] = order[j] => i = j
    <3> TAKE i, j \in 1..n
    <3>1. order[i] = lines[perm[i]] /\ order[j] = lines[perm[j]]
        OBVIOUS
    <3>2. order[i] = order[j] => perm[i] = perm[j]
        BY <1>1, <2>1, <3>1 DEF Bijection, Injection, IsInjective
    <3>3. perm[i] = perm[j] => i = j
        BY <1>2 DEF Bijection, Injection, IsInjective
    <3> QED
        BY <3>2, <3>3
  <2>4. \A u \in S : \E i \in 1..n : order[i] = u
    <3> TAKE u \in S
    <3>1. PICK j \in 1..n : lines[j] = u
        BY <1>1 DEF Bijection, Surjection
    <3>2. PICK i \in 1..n : perm[i] = j
        BY <1>2 DEF Bijection, Surjection
    <3> QED
        BY <3>1, <3>2
  <2> HIDE DEF order
  <2> QED
      BY <2>2, <2>3, <2>4 DEF Bijection, Injection, Surjection, IsInjective
<1>4. Len(order) = n
    OBVIOUS
<1>5. [i \in 1..Len(lines) |-> lines[perm[i]]] = order
    BY <1>1
<1> QED
    BY <1>3, <1>4, <1>5 DEF lines

SharesOf(b, perm) == Shares(b.method, b.total, b.values, FormLines(DOMAIN b.values), perm)

LEMMA SharesAre ==
    ASSUME NEW b, Recorded(b), Fits(b), NEW perm \in Orders(Cardinality(DOMAIN b.values))
    PROVE  \E place \in Bijection(DOMAIN b.values, 1..Cardinality(DOMAIN b.values)) :
               SharesOf(b, perm) =
                   [u \in DOMAIN b.values |->
                       BaseShare(b.method, b.total, b.values, u)
                           + Extra(Rest(b), Cardinality(DOMAIN b.values), place[u])]
<1> DEFINE S == DOMAIN b.values
           n == Cardinality(S)
           base == BaseShares(b.method, b.total, b.values)
           lines == FormLines(S)
           order == [i \in 1..Len(lines) |-> lines[perm[i]]]
<1>1. /\ IsFiniteSet(S) /\ S \subseteq Int /\ n \in Nat \ {0} /\ b.total \in Int
      /\ base \in [S -> Int] /\ Rest(b) \in Int
    BY RecordedIs, BalanceAssumption
<1>2. order \in Bijection(1..n, S) /\ Len(order) = n
    BY <1>1, SeededIs
<1>3. Wrap(b.total - Sum(base)) = Rest(b)
    BY <1>1, WrapFits DEF Fits, Rest
<1>4. SharesOf(b, perm) = DistributeRemainder(base, b.total, order)
    BY DEF SharesOf, Shares
<1>5. \A u \in S : base[u] = BaseShare(b.method, b.total, b.values, u)
    BY DEF BaseShares
<1>9. n = Cardinality(S)
    OBVIOUS
<1> HIDE DEF S, n, base, lines, order
<1>6. PICK place \in Bijection(S, 1..n) :
          DistributeRemainder(base, b.total, order)
              = Handed(base, Wrap(b.total - Sum(base)), n, place)
  <2> DEFINE total == b.total
  <2>1. total \in Int
      BY <1>1
  <2> HIDE DEF total
  <2>2. \A T : IsFiniteSet(T) /\ Cardinality(T) = n =>
            \A o \in Bijection(1..n, T) : Len(o) = n =>
            \A f \in [T -> Int] : \E place \in Bijection(T, 1..n) :
                DistributeRemainder(f, total, o) = Handed(f, Wrap(total - Sum(f)), n, place)
      BY <1>1, <2>1, DistributedIs
  <2> QED
      BY <1>1, <1>2, <1>9, <2>2 DEF total
<1>7. SharesOf(b, perm) = [u \in S |-> BaseShare(b.method, b.total, b.values, u)
                                           + Extra(Rest(b), n, place[u])]
    BY <1>1, <1>3, <1>4, <1>5, <1>6 DEF Handed
<1> QED
    BY <1>7 DEF S, n

\* The shares of an expense add up to it, and whoever typed the same gets the
\* same but for one unit.
LEMMA SharesAddUp ==
    ASSUME NEW b, Recorded(b), Fits(b), NEW perm \in Orders(Cardinality(DOMAIN b.values))
    PROVE  /\ SharesOf(b, perm) \in [DOMAIN b.values -> Int]
           /\ SumFunctionOnSet(SharesOf(b, perm), DOMAIN b.values) = b.total
           /\ \A u, v \in DOMAIN b.values : b.values[u] = b.values[v] =>
                 Size(SharesOf(b, perm)[u] - SharesOf(b, perm)[v]) <= 1
           /\ InRange(b) => \A u \in DOMAIN b.values :
                 Size(SharesOf(b, perm)[u] * Whole(b) - Due(b, u)) <= Whole(b)
<1> DEFINE S == DOMAIN b.values
           n == Cardinality(S)
           base == BaseShares(b.method, b.total, b.values)
           shares == SharesOf(b, perm)
<1>1. /\ IsFiniteSet(S) /\ n \in Nat \ {0} /\ b.total \in Int
      /\ base \in [S -> Int] /\ Rest(b) \in Int
      /\ Sum(base) = SumFunctionOnSet(base, S)
    BY RecordedIs
<1>2. PICK place \in Bijection(S, 1..n) :
          shares = [u \in S |-> BaseShare(b.method, b.total, b.values, u)
                                    + Extra(Rest(b), n, place[u])]
    BY SharesAre
<1> DEFINE extra == [u \in S |-> Extra(Rest(b), n, place[u])]
<1>3. ASSUME NEW u \in S
      PROVE  /\ place[u] \in 1..n
             /\ base[u] = BaseShare(b.method, b.total, b.values, u) /\ base[u] \in Int
             /\ extra[u] = Extra(Rest(b), n, place[u]) /\ extra[u] \in Int
             /\ shares[u] = base[u] + extra[u] /\ shares[u] \in Int
  <2>1. place[u] \in 1..n
      BY DEF Bijection, Injection
  <2>2. base[u] = BaseShare(b.method, b.total, b.values, u)
      BY DEF BaseShares
  <2>3. extra[u] = Extra(Rest(b), n, place[u])
      OBVIOUS
  <2> HIDE DEF S, n, base, shares, extra
  <2>4. base[u] \in Int /\ place[u] \in Nat
      BY <1>1, <2>1
  <2>5. extra[u] \in Int
      BY <1>1, <2>3, <2>4, ExtraIs
  <2>6. shares[u] = base[u] + extra[u]
      BY <1>2, <2>2, <2>3
  <2>7. shares[u] \in Int
      BY <2>4, <2>5, <2>6
  <2> QED
      BY <2>1, <2>2, <2>3, <2>4, <2>5, <2>6, <2>7
<1>4. shares = [u \in S |-> shares[u]]
    BY <1>2
<1>5. SumFunctionOnSet(extra, S) = Rest(b)
    BY <1>1, ExtrasAdd
<1> HIDE DEF S, base, shares, extra
<1>6. SumFunctionOnSet(shares, S) = b.total
  <2>1. SumFunctionOnSet(shares, S) = SumFunctionOnSet(base, S) + SumFunctionOnSet(extra, S)
      BY <1>1, <1>3, SumPlus
  <2>2. SumFunctionOnSet(base, S) \in Int
      BY <1>1, <1>3, SumInt
  <2>3. Rest(b) = b.total - SumFunctionOnSet(base, S)
      BY <1>1 DEF Rest, base
  <2> QED
      BY <1>1, <1>5, <2>1, <2>2, <2>3
<1>7. ASSUME NEW u \in S, NEW v \in S, b.values[u] = b.values[v]
      PROVE  Size(shares[u] - shares[v]) <= 1
  <2>1. BaseShare(b.method, b.total, b.values, u) = BaseShare(b.method, b.total, b.values, v)
      BY <1>7 DEF BaseShare
  <2>2. base[u] = base[v] /\ base[u] \in Int
      BY <1>3, <2>1
  <2>3. place[u] \in Nat /\ place[v] \in Nat
      BY <1>1, <1>3
  <2>4. Size(extra[u] - extra[v]) <= 1
      BY <1>1, <1>3, <2>3, ExtraIs
  <2>5. shares[u] - shares[v] = extra[u] - extra[v]
      BY <1>3, <2>2
  <2> QED
      BY <2>4, <2>5
<1>8. ASSUME InRange(b), NEW u \in S
      PROVE  Size(shares[u] * Whole(b) - Due(b, u)) <= Whole(b)
  <2>1. NearDue(b, Rest(b), n, u, place[u])
      BY <1>3, <1>8, SplitIsFair DEF S
  <2>2. shares[u] = BaseShare(b.method, b.total, b.values, u) + Extra(Rest(b), n, place[u])
      BY <1>3
  <2> QED
      BY <2>1, <2>2 DEF NearDue
<1>9. shares \in [S -> Int]
    BY <1>3, <1>4
<1> QED
    BY <1>6, <1>7, <1>8, <1>9 DEF shares, S

\* The signed rows cancel out.
Cancelling(rows, S, payer, total) ==
    /\ DOMAIN rows = S \cup {payer}
    /\ \A u \in S \cup {payer} : rows[u] \in Int
    /\ payer \notin S => rows[payer] = total
    /\ SumFunctionOnSet(rows, S \cup {payer}) = 0

LEMMA RowsCancel ==
    ASSUME NEW S, IsFiniteSet(S), NEW shares \in [S -> Int], NEW total \in Int,
           SumFunctionOnSet(shares, S) = total, NEW payer,
           NEW rows, rows = Finalize(total, payer, shares)
    PROVE  Cancelling(rows, S, payer, total)
<1> DEFINE T == S \cup {payer}
           R == S \ {payer}
           mine == IF payer \in S THEN shares[payer] ELSE 0
<1>1. /\ DOMAIN rows = T
      /\ \A u \in R : rows[u] = - shares[u]
      /\ rows[payer] = total - mine
    BY DEF Finalize
<1>2. IsFiniteSet(T) /\ IsFiniteSet(R) /\ payer \in T /\ T \ {payer} = R
  <2>1. IsFiniteSet(T)
      BY FS_AddElement
  <2>2. IsFiniteSet(R) /\ payer \in T /\ T \ {payer} = R
      BY FS_Subset
  <2> QED
      BY <2>1, <2>2
<1>3. mine \in Int /\ \A u \in R : shares[u] \in Int
    OBVIOUS
<1>4. SumFunctionOnSet(shares, R) = total - mine
  <2>1. CASE payer \in S
    <3>1. SumFunctionOnSet(shares, S) = shares[payer] + SumFunctionOnSet(shares, S \ {payer})
      <4>1. \A u \in S : shares[u] \in Int
          OBVIOUS
      <4> QED
          BY <2>1, <4>1, SumRemove
    <3>2. SumFunctionOnSet(shares, R) \in Int
        BY <1>2, <1>3, SumInt
    <3>3. shares[payer] \in Int /\ mine = shares[payer]
        BY <2>1
    <3> QED
        BY <3>1, <3>2, <3>3
  <2>2. CASE payer \notin S
    <3>1. R = S /\ mine = 0
        BY <2>2
    <3> HIDE DEF R, mine
    <3> QED
        BY <3>1
  <2> QED
      BY <2>1, <2>2
<1> HIDE DEF T, R, mine
<1>5. \A u \in T : rows[u] \in Int
  <2>1. rows[payer] \in Int
      BY <1>1, <1>3
  <2>2. \A u \in R : rows[u] \in Int
      BY <1>1, <1>3
  <2> QED
      BY <2>1, <2>2 DEF T, R
<1>6. SumFunctionOnSet(rows, R) = - SumFunctionOnSet(shares, R)
  <2>1. \A u \in R : shares[u] \in Int /\ rows[u] = - shares[u]
      BY <1>1, <1>3
  <2> QED
      BY <1>2, <2>1, SumNegate
<1>7. SumFunctionOnSet(rows, T) = rows[payer] + SumFunctionOnSet(rows, R)
  <2>1. SumFunctionOnSet(rows, T) = rows[payer] + SumFunctionOnSet(rows, T \ {payer})
      BY <1>2, <1>5, SumRemove
  <2> QED
      BY <1>2, <2>1
<1>8. SumFunctionOnSet(rows, T) = 0
    BY <1>1, <1>3, <1>4, <1>6, <1>7
<1>9. DOMAIN rows = T
    BY <1>1
<1>10. payer \notin S => rows[payer] = total
    BY <1>1, <1>3 DEF mine
<1> QED
    BY <1>5, <1>8, <1>9, <1>10 DEF T, Cancelling

\* Rows that cancel out are the nets they leave where nobody owed anything.
LEMMA BookedNets ==
    ASSUME NEW payer \in Users, NEW T \in SUBSET Users, payer \in T,
           NEW rows, DOMAIN rows = T, \A u \in T : rows[u] \in Int,
           SumFunctionOnSet(rows, T) = 0, NEW u \in Users
    PROVE  Net(Booked(Square, payer, rows), u) = IF u \in T THEN rows[u] ELSE 0
<1> DEFINE owing == Booked(Square, payer, rows)
           row(v) == IF v \in T THEN rows[v] ELSE 0
           line == [v \in Users |-> row(v)]
<1>1. owing \in Owings
    BY NetSquare, BookedType
<1>2. \A p \in Pairs : owing[p] = 0 + (IF p[1] = payer /\ p[2] \in T THEN - rows[p[2]]
                                       ELSE IF p[2] = payer /\ p[1] \in T THEN rows[p[1]] ELSE 0)
    BY DEF Booked, Square
<1>3. \A v \in Users : row(v) \in Int /\ line[v] = row(v)
    OBVIOUS
<1>4. \A v \in T : line[v] = rows[v]
    OBVIOUS
<1>5. \A v \in Users \ T : line[v] = 0
    OBVIOUS
<1>6. (u \in T => row(u) = rows[u]) /\ (u \notin T => row(u) = 0)
    OBVIOUS
<1>7. \A v \in Users : (v \in T => row(v) = rows[v]) /\ (v \notin T => row(v) = 0)
    OBVIOUS
<1> HIDE DEF owing, row, line
<1>8. ASSUME NEW v \in Users, NEW x \in Users, v # x
      PROVE  Row(owing, v, x) = IF x = payer THEN row(v) ELSE IF v = payer THEN - row(x) ELSE 0
  <2>1. CASE v < x
    <3> DEFINE p == <<v, x>>
    <3>1. p \in Pairs /\ p[1] = v /\ p[2] = x
        BY <1>8, <2>1, PairOf
    <3>2. Row(owing, v, x) = owing[p]
        BY <2>1 DEF Row
    <3> HIDE DEF p
    <3>3. owing[p] = 0 + (IF v = payer /\ x \in T THEN - rows[x]
                          ELSE IF x = payer /\ v \in T THEN rows[v] ELSE 0)
        BY <1>2, <3>1
    <3> QED
        BY <1>3, <1>7, <1>8, <3>2, <3>3
  <2>2. CASE x < v
    <3> DEFINE p == <<x, v>>
    <3>1. p \in Pairs /\ p[1] = x /\ p[2] = v
        BY <1>8, <2>2, PairOf
    <3>2. ~ (v < x)
      <4>1. v \in Int /\ x \in Int
          BY <1>8, PairOf
      <4> QED
          BY <2>2, <4>1
    <3>3. Row(owing, v, x) = - owing[p]
        BY <3>2 DEF Row
    <3> HIDE DEF p
    <3>4. owing[p] = 0 + (IF x = payer /\ v \in T THEN - rows[v]
                          ELSE IF v = payer /\ x \in T THEN rows[x] ELSE 0)
        BY <1>2, <3>1
    <3> QED
        BY <1>3, <1>7, <1>8, <3>3, <3>4
  <2> QED
      BY <1>8, <2>1, <2>2, PairOf
<1> DEFINE has == Table(owing)[u]
<1>9. \A v \in Users : has[v] = IF v = u THEN 0 ELSE Row(owing, u, v)
    BY DEF Table
<1>10. Net(owing, u) = SumFunctionOnSet(has, Users)
    BY <1>1, NetIs
<1>11. IsFiniteSet(Users) /\ IsFiniteSet(Users \ {u}) /\ IsFiniteSet(T)
    BY BalanceAssumption, FS_Subset
<1>12. \A v \in Users : has[v] \in Int
    BY <1>1, TableType
<1> HIDE DEF has
<1>13. CASE u # payer
  <2> DEFINE none == [v \in Users |-> 0]
             d == row(u)
  <2>1. \A v \in Users : has[v] = none[v] + (IF v = payer THEN d ELSE 0)
      BY <1>3, <1>8, <1>9, <1>13
  <2>5. d \in Int /\ d = row(u)
      BY <1>3
  <2>2. SumFunctionOnSet(none, Users) = 0
      BY <1>11, SumZero
  <2>3. \A v \in Users : none[v] \in Int
      OBVIOUS
  <2> HIDE DEF none, d
  <2>4. SumFunctionOnSet(has, Users) = SumFunctionOnSet(none, Users) + d
      BY <1>11, <2>1, <2>3, <2>5, SumChange
  <2> QED
      BY <1>6, <1>10, <2>2, <2>4, <2>5 DEF owing
<1>14. CASE u = payer
  <2> DEFINE others == Users \ {u}
  <2>1. SumFunctionOnSet(has, Users) = has[u] + SumFunctionOnSet(has, others)
      BY <1>11, <1>12, SumRemove
  <2>2. \A v \in others : line[v] \in Int /\ has[v] = - line[v]
      BY <1>3, <1>8, <1>9, <1>14
  <2>3. SumFunctionOnSet(has, others) = - SumFunctionOnSet(line, others)
      BY <1>11, <2>2, SumNegate
  <2>4. SumFunctionOnSet(line, Users) = line[u] + SumFunctionOnSet(line, others)
      BY <1>3, <1>11, SumRemove
  <2>5. SumFunctionOnSet(line, Users) = 0
    <3>1. IsFiniteSet(Users \ T) /\ T \cap (Users \ T) = {} /\ T \cup (Users \ T) = Users
        BY <1>11, FS_Subset
    <3>2. \A v \in T \cup (Users \ T) : line[v] \in Int
        BY <1>3
    <3>3. SumFunctionOnSet(line, T \cup (Users \ T))
              = SumFunctionOnSet(line, T) + SumFunctionOnSet(line, Users \ T)
        BY <1>11, <3>1, <3>2, SumUnion
    <3>4. SumFunctionOnSet(line, Users \ T) = 0
        BY <1>5, <3>1, SumZero
    <3>5. SumFunctionOnSet(line, T) = SumFunctionOnSet(rows, T)
        BY <1>4, <1>11, SumEqual
    <3> QED
        BY <3>1, <3>3, <3>4, <3>5
  <2>6. SumFunctionOnSet(line, others) \in Int
      BY <1>3, <1>11, SumInt
  <2>7. has[u] = 0 /\ line[u] = rows[u] /\ rows[u] \in Int
      BY <1>4, <1>9, <1>14
  <2> QED
      BY <1>10, <1>14, <2>1, <2>3, <2>4, <2>5, <2>6, <2>7 DEF owing
<1> QED
    BY <1>13, <1>14

\* Until a form is recorded nobody owes anything.
BillInv == bill # NoBill => owed = Square

LEMMA BillKept == ASSUME BalanceInv, BillInv, [Next]_vars PROVE BillInv'
<1> SUFFICES ASSUME bill' # NoBill PROVE owed' = Square
    BY DEF BillInv
<1>1. Square \in Owings /\ Settled(Square) /\ Nets(Square) \in [Users -> Int]
    BY NetSquare, NetsType DEF Settled
<1>2. CASE RecordBill
    BY <1>2 DEF RecordBill
<1>3. CASE Pass
  <2>1. owed = Square /\ owed' = Plus(owed, Rewire(owed))
      BY <1>3 DEF Pass, BillInv
  <2>2. Plus(Square, Rewire(Square)) = Square
      BY <1>1, RewireIs, SettledIsSquare
  <2> QED
      BY <2>1, <2>2
<1>4. CASE PaySuggestion
  <2>1. owed = Square
      BY <1>4 DEF PaySuggestion, BillInv
  <2>2. PICK t \in ToSet(Simplify(Nets(Square))) : TRUE
      BY <1>4, <2>1 DEF PaySuggestion
  <2>3. t \in Transfers /\ Within(Nets(Square), t)
      BY <1>1, Suggestions
  <2>4. t.amount \in Nat \ {0} /\ t.to \in Users
      BY <2>3, TransferType
  <2>5. Nets(Square)[t.to] = 0
      BY <2>4, NetSquare DEF Nets
  <2> QED
      BY <2>3, <2>4, <2>5 DEF Within
<1>5. CASE PayRaw
  <2>1. owed = Square
      BY <1>5 DEF PayRaw, BillInv
  <2>2. PICK p \in Pairs : owed[p] # 0
      BY <1>5 DEF PayRaw, RawRows
  <2> QED
      BY <2>1, <2>2 DEF Square
<1>6. CASE UNCHANGED vars
    BY <1>6 DEF vars, BillInv
<1> QED
    BY <1>2, <1>3, <1>4, <1>5, <1>6 DEF Next

\* SplitIsExact: the shares of an expense add up to it (split/split.go:126), for
\* any number of people, whatever they type and in any seeded order; nobody is a
\* unit away from what is due unless a product overflows.  The one condition is
\* that no sum or difference of what is typed leaves int64, beyond which rows
\* add up to nothing only as 64-bit numbers do.
THEOREM SplittingIsExact ==
    Spec => []((bill # NoBill => Fits(bill)) => SplitIsExact)
<1>1. ASSUME BalanceInv, BillInv, IsRecorded, Fits(bill), NEW perm \in AllOrders
      PROVE  LET b      == bill
                 rows   == Rows(b, perm)
                 shares == Shares(b.method, b.total, b.values, FormLines(DOMAIN b.values), perm)
             IN  /\ Sum(rows) = 0
                 /\ b.payer \in DOMAIN shares \/ rows[b.payer] = b.total
                 /\ \A u \in Users : Net(Booked(owed, b.payer, rows), u)
                                        = IF u \in DOMAIN rows THEN rows[u] ELSE 0
                 /\ InRange(b) => \A u, v \in DOMAIN shares :
                       /\ Size(shares[u] * Whole(b) - Due(b, u)) <= Whole(b)
                       /\ b.values[u] = b.values[v] => Size(shares[u] - shares[v]) <= 1
  <2> DEFINE S == DOMAIN bill.values
             T == S \cup {bill.payer}
             rows == Rows(bill, perm)
             shares == SharesOf(bill, perm)
  <2>1. Recorded(bill) /\ owed = Square /\ perm \in Orders(Cardinality(S))
      BY <1>1 DEF IsRecorded, BalanceInv, BillInv, Recorded, AllOrders
  <2>2. /\ IsFiniteSet(S) /\ S \subseteq Users /\ bill.payer \in Users /\ bill.total \in Int
      BY <2>1, RecordedIs
  <2>3. /\ shares \in [S -> Int]
        /\ SumFunctionOnSet(shares, S) = bill.total
        /\ \A u, v \in S : bill.values[u] = bill.values[v] => Size(shares[u] - shares[v]) <= 1
        /\ InRange(bill) => \A u \in S : Size(shares[u] * Whole(bill) - Due(bill, u)) <= Whole(bill)
      BY <1>1, <2>1, SharesAddUp
  <2>4. rows = Finalize(bill.total, bill.payer, shares)
      BY DEF Rows, Compute, SharesOf
  <2>5. shares = Shares(bill.method, bill.total, bill.values, FormLines(S), perm)
      BY DEF SharesOf
  <2> HIDE DEF S, rows, shares
  <2>6. /\ DOMAIN rows = T
        /\ \A u \in T : rows[u] \in Int
        /\ bill.payer \notin S => rows[bill.payer] = bill.total
        /\ SumFunctionOnSet(rows, T) = 0
    <3> DEFINE total == bill.total
               payer == bill.payer
    <3>1. /\ IsFiniteSet(S) /\ shares \in [S -> Int]
          /\ total \in Int /\ SumFunctionOnSet(shares, S) = total
          /\ rows = Finalize(total, payer, shares)
        BY <2>2, <2>3, <2>4
    <3> HIDE DEF total, payer
    <3>2. Cancelling(rows, S, payer, total)
        BY <3>1, RowsCancel
    <3> QED
        BY <3>2 DEF total, payer, Cancelling
  <2>7. Sum(rows) = 0
      BY <2>6 DEF Sum, SumFunction
  <2>8. T \subseteq Users /\ bill.payer \in T
      BY <2>2
  <2>9. \A u \in Users : Net(Booked(Square, bill.payer, rows), u)
                             = IF u \in T THEN rows[u] ELSE 0
    <3> HIDE DEF T
    <3> QED
        BY <2>2, <2>6, <2>8, BookedNets
  <2>10. DOMAIN shares = S
      BY <2>3
  <2> HIDE DEF T
  <2> QED
      BY <2>1, <2>3, <2>5, <2>6, <2>7, <2>9, <2>10 DEF rows, S
<1>2. ASSUME BalanceInv, BillInv
      PROVE  (bill # NoBill => Fits(bill)) => SplitIsExact
    BY <1>1, <1>2 DEF SplitIsExact, IsRecorded
<1>3. Init => BillInv
    BY DEF Init, BillInv
<1>4. BalanceInv /\ BillInv /\ [Next]_vars => BillInv'
    BY BillKept
<1>5. BalanceInv /\ BillInv => ((bill # NoBill => Fits(bill)) => SplitIsExact)
    BY <1>2
<1> QED
    BY <1>3, <1>4, <1>5, BalanceInvariant, PTL DEF Spec

-------------------------------------------------------------------------------
(* The transfers one by one.                                               *)

\* Sums over the first of a row of numbers.
LEMMA SumLast ==
    ASSUME NEW f, NEW n \in Nat, \A i \in 1..(n + 1) : f[i] \in Int
    PROVE  /\ SumFunctionOnSet(f, 1..n) \in Int
           /\ SumFunctionOnSet(f, 1..(n + 1)) = f[n + 1] + SumFunctionOnSet(f, 1..n)
<1> DEFINE T == 1..(n + 1)
           R == 1..n
<1>1. IsFiniteSet(T) /\ IsFiniteSet(R)
    BY UptoIs
<1>2. n + 1 \in T /\ T \ {n + 1} = R /\ R \subseteq T
    OBVIOUS
<1>3. \A i \in T : f[i] \in Int
    OBVIOUS
<1> HIDE DEF T, R
<1>4. SumFunctionOnSet(f, T) = f[n + 1] + SumFunctionOnSet(f, R)
    BY <1>1, <1>2, <1>3, SumRemove
<1>5. SumFunctionOnSet(f, R) \in Int
    BY <1>1, <1>2, <1>3, SumInt
<1> QED
    BY <1>4, <1>5 DEF T, R

LEMMA SumNone == ASSUME NEW f PROVE SumFunctionOnSet(f, 1..0) = 0
<1>1. 1..0 = {}
    OBVIOUS
<1> QED
    BY <1>1, SumEmpty

\* How far the first i of a queue reach.
LEMMA UptoNext ==
    ASSUME NEW q \in Queues
    PROVE  /\ Upto(q, 0) = 0
           /\ \A i \in 0..Len(q) : Upto(q, i) \in Int
           /\ \A i \in 1..Len(q) : Upto(q, i) = Upto(q, i - 1) + q[i].amt
<1> DEFINE n == Len(q)
           amt == [k \in 1..n |-> q[k].amt]
<1>1. n \in Nat
    BY DEF Queues
<1>2. \A k \in 1..n : amt[k] \in Int /\ amt[k] = q[k].amt
    BY LeftIs
<1>3. ASSUME NEW i \in 0..n
      PROVE  /\ 1..i \subseteq 1..n /\ IsFiniteSet(1..i)
             /\ Upto(q, i) = SumFunctionOnSet(amt, 1..i)
             /\ Upto(q, i) \in Int
  <2>1. i \in Nat /\ 1..i \subseteq 1..n
      BY <1>1
  <2>2. IsFiniteSet(1..i)
      BY <2>1, UptoIs
  <2> DEFINE some == [k \in 1..i |-> q[k].amt]
  <2>3. DOMAIN some = 1..i /\ \A k \in 1..i : some[k] = amt[k]
      BY <2>1, <1>2
  <2>4. Upto(q, i) = SumFunction(some)
      BY DEF Upto, Sum
  <2> HIDE DEF some, amt, n
  <2>5. SumFunction(some) = SumFunctionOnSet(amt, 1..i)
      BY <2>2, <2>3, SumOfFunction
  <2>6. SumFunctionOnSet(amt, 1..i) \in Int
      BY <1>2, <2>1, <2>2, SumInt
  <2> QED
      BY <2>1, <2>2, <2>4, <2>5, <2>6
<1> HIDE DEF amt
<1>4. Upto(q, 0) = 0
  <2>1. 1..0 = {} /\ 0 \in 0..n
      BY <1>1
  <2> QED
      BY <1>3, <2>1, SumEmpty
<1>5. ASSUME NEW i \in 1..n PROVE Upto(q, i) = Upto(q, i - 1) + q[i].amt
  <2> DEFINE m == i - 1
  <2>1. m \in Nat /\ m + 1 = i /\ m \in 0..n /\ i \in 0..n
      BY <1>1
  <2> HIDE DEF m
  <2>2. \A k \in 1..(m + 1) : amt[k] \in Int
    <3>1. 1..(m + 1) \subseteq 1..n
        BY <1>3, <2>1
    <3> QED
        BY <1>2, <3>1
  <2>3. /\ SumFunctionOnSet(amt, 1..m) \in Int
        /\ SumFunctionOnSet(amt, 1..(m + 1)) = amt[m + 1] + SumFunctionOnSet(amt, 1..m)
      BY <2>1, <2>2, SumLast
  <2>4. Upto(q, i) = SumFunctionOnSet(amt, 1..(m + 1)) /\ Upto(q, m) = SumFunctionOnSet(amt, 1..m)
      BY <1>3, <2>1
  <2>5. amt[m + 1] = q[i].amt /\ amt[m + 1] \in Int
      BY <1>2, <2>1
  <2>6. Upto(q, i) = Upto(q, m) + q[i].amt
      BY <2>3, <2>4, <2>5
  <2> QED
      BY <2>6 DEF m
<1> QED
    BY <1>3, <1>4, <1>5

\* Each reaches further than those before.
LEMMA UptoGrows ==
    ASSUME NEW q \in Queues, NEW i \in 0..Len(q), NEW j \in 0..Len(q), i < j
    PROVE  Upto(q, i) < Upto(q, j)
<1> DEFINE n == Len(q)
           G == {k \in Nat : i + k <= n => Upto(q, i) + k <= Upto(q, i + k)}
<1>1. n \in Nat /\ i \in Nat /\ j \in Nat /\ Upto(q, i) \in Int
    BY UptoNext DEF Queues
<1>2. 0 \in G
  <2>1. i + 0 = i /\ Upto(q, i) + 0 = Upto(q, i)
      BY <1>1
  <2> QED
      BY <1>1, <2>1
<1>3. ASSUME NEW k \in Nat, k \in G PROVE k + 1 \in G
  <2>1. SUFFICES ASSUME i + (k + 1) <= n PROVE Upto(q, i) + (k + 1) <= Upto(q, i + (k + 1))
      BY <1>3
  <2>2. Upto(q, i) + k <= Upto(q, i + k)
      BY <1>1, <1>3, <2>1
  <2>3. /\ i + (k + 1) \in 1..n /\ i + k \in 0..n /\ (i + (k + 1)) - 1 = i + k
      BY <1>1, <2>1
  <2>4. /\ Upto(q, i + (k + 1)) = Upto(q, i + k) + q[i + (k + 1)].amt
        /\ Upto(q, i + k) \in Int
        /\ q[i + (k + 1)].amt \in Nat \ {0}
      BY <2>3, UptoNext, LeftIs
  <2> QED
      BY <1>1, <2>2, <2>4
<1>4. \A k \in Nat : k \in G
  <2> HIDE DEF G
  <2> QED
      BY <1>2, <1>3, NumberInduction
<1>5. j - i \in Nat \ {0} /\ i + (j - i) = j /\ i + (j - i) <= n
    BY <1>1
<1>6. Upto(q, i) + (j - i) <= Upto(q, i + (j - i))
    BY <1>4, <1>5
<1>7. Upto(q, j) \in Int
    BY UptoNext
<1> QED
    BY <1>1, <1>5, <1>6, <1>7

\* q is what is left of the queue all when the first i have gone and "paid" was
\* paid in all.
Remains(all, q, i, paid) ==
    /\ i \in 0..Len(all) /\ Len(q) = Len(all) - i
    /\ Upto(all, i) <= paid
    /\ \A k \in 1..Len(q) :
          /\ q[k].id = all[i + k].id
          /\ q[k].amt = Upto(all, i + k) - (IF k = 1 THEN paid ELSE Upto(all, i + k - 1))

LEMMA TakeLeaves ==
    ASSUME NEW all \in Queues, NEW q \in Queues, q # <<>>, NEW pay \in Nat \ {0}, pay <= q[1].amt,
           NEW i, NEW paid \in Int, Remains(all, q, i, paid)
    PROVE  Remains(all, Take(q, pay), IF pay = q[1].amt THEN i + 1 ELSE i, paid + pay)
<1> DEFINE new == Take(q, pay)
           n == Len(all)
<1>1. q \in Seq(Waiting) /\ Len(q) \in Nat \ {0} /\ 1 \in 1..Len(q) /\ n \in Nat
    BY EmptySeq DEF Queues
<1>2. q[1].id \in Users /\ q[1].amt \in Nat \ {0}
    BY <1>1, LeftIs
<1>3. /\ Tail(q) \in Seq(Waiting) /\ Len(Tail(q)) = Len(q) - 1
      /\ \A k \in 1..(Len(q) - 1) : Tail(q)[k] = q[k + 1]
    BY <1>1, HeadTailProperties
<1>4. /\ i \in 0..n /\ Len(q) = n - i /\ i \in Nat /\ Upto(all, i) <= paid
      /\ \A k \in 1..Len(q) :
          /\ q[k].id = all[i + k].id
          /\ q[k].amt = Upto(all, i + k) - (IF k = 1 THEN paid ELSE Upto(all, i + k - 1))
    BY <1>1 DEF Remains
<1>5. \A k \in 0..n : Upto(all, k) \in Int
    BY UptoNext
<1>6. q[1].amt = Upto(all, i + 1) - paid /\ i + 1 \in 0..n /\ Upto(all, i + 1) \in Int
    BY <1>1, <1>4, <1>5
<1>7. CASE pay = q[1].amt
  <2>1. new = Tail(q)
      BY <1>7 DEF Take
  <2>2. paid + pay = Upto(all, i + 1)
      BY <1>6, <1>7
  <2>3. Len(new) = n - (i + 1)
      BY <1>1, <1>3, <1>4, <2>1
  <2>4. ASSUME NEW k \in 1..Len(new)
        PROVE  /\ new[k].id = all[(i + 1) + k].id
               /\ new[k].amt = Upto(all, (i + 1) + k)
                                - (IF k = 1 THEN paid + pay ELSE Upto(all, (i + 1) + k - 1))
    <3>1. k \in 1..(Len(q) - 1) /\ k + 1 \in 1..Len(q) /\ k + 1 # 1 /\ k \in Nat
        BY <1>1, <1>3, <2>1
    <3>2. new[k] = q[k + 1]
        BY <1>3, <2>1, <3>1
    <3>3. i + (k + 1) = (i + 1) + k /\ i + (k + 1) - 1 = (i + 1) + k - 1
          /\ (k = 1 => (i + 1) + k - 1 = i + 1)
        BY <1>4, <3>1
    <3>4. /\ q[k + 1].id = all[i + (k + 1)].id
          /\ q[k + 1].amt = Upto(all, i + (k + 1)) - Upto(all, i + (k + 1) - 1)
        BY <1>4, <3>1
    <3> HIDE DEF new
    <3> QED
        BY <2>2, <3>2, <3>3, <3>4
  <2>5. Upto(all, i + 1) <= paid + pay
      BY <1>6, <2>2
  <2> QED
      BY <1>6, <1>7, <2>3, <2>4, <2>5 DEF Remains
<1>8. CASE pay # q[1].amt
  <2> DEFINE first == Node(q[1].id, q[1].amt - pay)
  <2>1. new = <<first>> \o Tail(q)
      BY <1>8 DEF Take
  <2>2. first \in Waiting /\ first.id = q[1].id /\ first.amt = q[1].amt - pay
      BY <1>2, <1>8 DEF Node, Waiting
  <2>3. /\ Len(new) = Len(q) /\ new[1] = first
        /\ \A k \in 1..Len(q) : k # 1 => new[k] = q[k]
    <3>1. <<first>> \in Seq(Waiting) /\ Len(<<first>>) = 1 /\ <<first>>[1] = first
        BY <2>2
    <3> HIDE DEF first
    <3>2. /\ Len(new) = 1 + Len(Tail(q))
          /\ \A k \in 1..(1 + Len(Tail(q))) :
                new[k] = IF k <= 1 THEN <<first>>[k] ELSE Tail(q)[k - 1]
        BY <1>3, <2>1, <3>1, ConcatProperties
    <3> HIDE DEF new
    <3> QED
        BY <1>1, <1>3, <3>1, <3>2
  <2> HIDE DEF new, first
  <2>4. ASSUME NEW k \in 1..Len(new)
        PROVE  /\ new[k].id = all[i + k].id
               /\ new[k].amt = Upto(all, i + k)
                                - (IF k = 1 THEN paid + pay ELSE Upto(all, i + k - 1))
    <3>1. CASE k = 1
      <4>1. new[k].id = q[1].id /\ new[k].amt = Upto(all, i + 1) - paid - pay
          BY <1>6, <2>2, <2>3, <3>1
      <4>2. q[1].id = all[i + 1].id
          BY <1>1, <1>4
      <4>3. Upto(all, i + 1) - paid - pay = Upto(all, i + 1) - (paid + pay)
          BY <1>6
      <4> QED
          BY <3>1, <4>1, <4>2, <4>3
    <3>2. CASE k # 1
        BY <1>4, <2>3, <3>2
    <3> QED
        BY <3>1, <3>2
  <2>5. Upto(all, i) <= paid + pay
      BY <1>4, <1>5
  <2> QED
      BY <1>4, <1>8, <2>3, <2>4, <2>5 DEF Remains, new
<1> QED
    BY <1>7, <1>8

LEMMA LargerOfTwo ==
    ASSUME NEW i \in Int, NEW j \in Int
    PROVE  (Max({i, j}) = i \/ Max({i, j}) = j) /\ i <= Max({i, j}) /\ j <= Max({i, j})
<1>1. {i, j} \in SUBSET Int /\ IsFiniteSet({i, j}) /\ {i, j} # {}
  <2>1. IsFiniteSet({i}) /\ {i} \cup {j} = {i, j}
      BY FS_Singleton
  <2> QED
      BY <2>1, FS_AddElement
<1>2. Max({i, j}) \in {i, j} /\ \A y \in {i, j} : Max({i, j}) >= y
    BY <1>1, MaxIs
<1> QED
    BY <1>2

\* Where the i-th creditor and the j-th debtor overlap, if they do.
LEMMA OverlapIs ==
    ASSUME NEW cs \in Queues, NEW ds \in Queues, NEW i \in 1..Len(cs), NEW j \in 1..Len(ds)
    PROVE  LET until == Min({Upto(cs, i), Upto(ds, j)})
               since == Max({Upto(cs, i - 1), Upto(ds, j - 1)})
           IN  /\ until \in Int /\ since \in Int
               /\ until \in {Upto(cs, i), Upto(ds, j)}
               /\ until <= Upto(cs, i) /\ until <= Upto(ds, j)
               /\ since \in {Upto(cs, i - 1), Upto(ds, j - 1)}
               /\ Upto(cs, i - 1) <= since /\ Upto(ds, j - 1) <= since
               /\ Overlap(cs, ds, i, j) = until - since
<1>1. i \in 0..Len(cs) /\ i - 1 \in 0..Len(cs) /\ j \in 0..Len(ds) /\ j - 1 \in 0..Len(ds)
    BY DEF Queues
<1>2. /\ Upto(cs, i) \in Int /\ Upto(cs, i - 1) \in Int
      /\ Upto(ds, j) \in Int /\ Upto(ds, j - 1) \in Int
    BY <1>1, UptoNext
<1> QED
    BY <1>2, SmallerOfTwo, LargerOfTwo DEF Overlap

\* The pairs that overlap, up to what has been paid; and what they pay.
Met(cs, ds, paid) ==
    {x \in (1..Len(cs)) \X (1..Len(ds)) :
        Overlap(cs, ds, x[1], x[2]) > 0 /\ Min({Upto(cs, x[1]), Upto(ds, x[2])}) <= paid}

Meet(cs, ds, x) ==
    [from |-> ds[x[2]].id, to |-> cs[x[1]].id, amount |-> Overlap(cs, ds, x[1], x[2])]

\* The next to overlap are the first two who are left.
LEMMA Between ==
    ASSUME NEW w \in Int, NEW x \in Int, NEW y \in Int, NEW z \in Int, w <= x, x < y, y <= z
    PROVE  w < z
OBVIOUS

\* Where the next of a queue begins.
LEMMA NextOf ==
    ASSUME NEW q \in Queues, NEW i \in 0..Len(q), i < Len(q), NEW a \in 1..Len(q),
           Upto(q, i) < Upto(q, a), Upto(q, a - 1) < Upto(q, i + 1)
    PROVE  a = i + 1
<1>1. /\ a \in 0..Len(q) /\ a - 1 \in 0..Len(q) /\ i + 1 \in 0..Len(q)
      /\ a \in Int /\ i \in Int
    BY DEF Queues
<1>2. ASSUME NEW k \in 0..Len(q), NEW l \in 0..Len(q), Upto(q, k) < Upto(q, l)
      PROVE  ~ (l < k) /\ l # k
  <2>1. l < k => Upto(q, l) < Upto(q, k)
      BY UptoGrows
  <2> DEFINE x == Upto(q, k)
             y == Upto(q, l)
  <2>2. x \in Int /\ y \in Int /\ x < y /\ (l < k => y < x)
      BY <1>2, <2>1, UptoNext
  <2>3. l # k
    <3>1. SUFFICES ASSUME l = k PROVE FALSE
        OBVIOUS
    <3>2. x = y
        BY <3>1
    <3> HIDE DEF x, y
    <3> QED
        BY <2>2, <3>2
  <2> HIDE DEF x, y
  <2> QED
      BY <2>2, <2>3
<1>3. ~ (a < i) /\ a # i
    BY <1>1, <1>2
<1>4. ~ (i + 1 < a - 1) /\ i + 1 # a - 1
    BY <1>1, <1>2
<1> QED
    BY <1>1, <1>3, <1>4

LEMMA MetNext ==
    ASSUME NEW cs \in Queues, NEW ds \in Queues,
           NEW i \in 0..Len(cs), NEW j \in 0..Len(ds), i < Len(cs), j < Len(ds), NEW paid \in Int,
           Upto(cs, i) <= paid, Upto(ds, j) <= paid, paid = Upto(cs, i) \/ paid = Upto(ds, j),
           paid < Upto(cs, i + 1), paid < Upto(ds, j + 1),
           NEW next, next = Min({Upto(cs, i + 1), Upto(ds, j + 1)})
    PROVE  /\ Overlap(cs, ds, i + 1, j + 1) = next - paid
           /\ Met(cs, ds, next) = Met(cs, ds, paid) \cup {<<i + 1, j + 1>>}
<1>1. /\ Len(cs) \in Nat /\ Len(ds) \in Nat /\ i \in Nat /\ j \in Nat
      /\ i + 1 \in 1..Len(cs) /\ j + 1 \in 1..Len(ds)
      /\ (i + 1) - 1 = i /\ (j + 1) - 1 = j
    BY DEF Queues
<1>2. /\ \A k \in 0..Len(cs) : Upto(cs, k) \in Int
      /\ \A k \in 0..Len(ds) : Upto(ds, k) \in Int
    BY UptoNext
<1>3. /\ next \in Int /\ next <= Upto(cs, i + 1) /\ next <= Upto(ds, j + 1)
      /\ next = Upto(cs, i + 1) \/ next = Upto(ds, j + 1)
    BY <1>1, OverlapIs
<1>4. paid < next
    BY <1>3
<1>5. Overlap(cs, ds, i + 1, j + 1) = next - paid
  <2> DEFINE since == Max({Upto(cs, i), Upto(ds, j)})
  <2>1. Upto(cs, i) \in Int /\ Upto(ds, j) \in Int
      BY <1>2
  <2>2. /\ since \in Int /\ since \in {Upto(cs, i), Upto(ds, j)}
        /\ Upto(cs, i) <= since /\ Upto(ds, j) <= since
        /\ Overlap(cs, ds, i + 1, j + 1) = next - since
    <3>1. Overlap(cs, ds, i + 1, j + 1) = next - since
        BY <1>1 DEF Overlap
    <3> QED
        BY <2>1, <3>1, LargerOfTwo
  <2> HIDE DEF since
  <2>3. since = paid
      BY <2>1, <2>2
  <2> QED
      BY <2>2, <2>3
<1>6. <<i + 1, j + 1>> \in Met(cs, ds, next)
  <2>1. Overlap(cs, ds, i + 1, j + 1) > 0
      BY <1>3, <1>4, <1>5
  <2> QED
      BY <1>1, <1>3, <2>1 DEF Met
<1>7. ASSUME NEW a \in 1..Len(cs), NEW b \in 1..Len(ds), Overlap(cs, ds, a, b) > 0,
             Min({Upto(cs, a), Upto(ds, b)}) <= next,
             ~ (Min({Upto(cs, a), Upto(ds, b)}) <= paid)
      PROVE  a = i + 1 /\ b = j + 1
  <2> DEFINE until == Min({Upto(cs, a), Upto(ds, b)})
             since == Max({Upto(cs, a - 1), Upto(ds, b - 1)})
  <2>1. /\ a \in 0..Len(cs) /\ a - 1 \in 0..Len(cs) /\ b \in 0..Len(ds) /\ b - 1 \in 0..Len(ds)
        /\ i + 1 \in 0..Len(cs) /\ j + 1 \in 0..Len(ds)
      BY <1>1
  <2>2. /\ Upto(cs, a) \in Int /\ Upto(cs, a - 1) \in Int /\ Upto(cs, i) \in Int
        /\ Upto(ds, b) \in Int /\ Upto(ds, b - 1) \in Int /\ Upto(ds, j) \in Int
        /\ Upto(cs, i + 1) \in Int /\ Upto(ds, j + 1) \in Int
      BY <1>2, <2>1
  <2>3. until \in Int /\ until <= Upto(cs, a) /\ until <= Upto(ds, b)
      BY <2>2, SmallerOfTwo
  <2>4. since \in Int /\ Upto(cs, a - 1) <= since /\ Upto(ds, b - 1) <= since
      BY <2>2, LargerOfTwo
  <2>5. until - since > 0 /\ until <= next /\ paid < until
    <3>1. until - since > 0
        BY <1>7 DEF Overlap
    <3> QED
        BY <1>7, <2>3, <3>1
  <2> HIDE DEF until, since
  <2>6. Upto(cs, i) < Upto(cs, a) /\ Upto(ds, j) < Upto(ds, b)
      BY <2>2, <2>3, <2>5, Between
  <2>7. Upto(cs, a - 1) < Upto(cs, i + 1) /\ Upto(ds, b - 1) < Upto(ds, j + 1)
    <3>1. since < next
        BY <1>3, <2>3, <2>4, <2>5
    <3>2. next \in Int /\ next <= Upto(cs, i + 1) /\ next <= Upto(ds, j + 1)
        BY <1>3
    <3> QED
        BY <2>2, <2>4, <3>1, <3>2, Between
  <2> QED
      BY <2>6, <2>7, NextOf
<1>8. Met(cs, ds, paid) \subseteq Met(cs, ds, next)
  <2> SUFFICES ASSUME NEW a \in 1..Len(cs), NEW b \in 1..Len(ds),
                      Min({Upto(cs, a), Upto(ds, b)}) <= paid
               PROVE  Min({Upto(cs, a), Upto(ds, b)}) <= next
      BY DEF Met
  <2>1. Min({Upto(cs, a), Upto(ds, b)}) \in Int
      BY OverlapIs
  <2> QED
      BY <1>3, <1>4, <2>1
<1>9. Met(cs, ds, next) \subseteq Met(cs, ds, paid) \cup {<<i + 1, j + 1>>}
  <2> SUFFICES ASSUME NEW x \in Met(cs, ds, next), x \notin Met(cs, ds, paid)
               PROVE  x = <<i + 1, j + 1>>
      OBVIOUS
  <2>1. PICK a \in 1..Len(cs), b \in 1..Len(ds) : x = <<a, b>>
      BY DEF Met
  <2>2. /\ Overlap(cs, ds, a, b) > 0 /\ Min({Upto(cs, a), Upto(ds, b)}) <= next
        /\ ~ (Min({Upto(cs, a), Upto(ds, b)}) <= paid)
      BY <2>1 DEF Met
  <2> QED
      BY <1>7, <2>1, <2>2
<1> QED
    BY <1>5, <1>6, <1>8, <1>9

\* So far exactly the overlaps have been paid.
Laid(cs, ds, s, i, j, paid) ==
    /\ paid \in Int
    /\ Remains(cs, s.creditors, i, paid) /\ Remains(ds, s.debtors, j, paid)
    /\ paid = Upto(cs, i) \/ paid = Upto(ds, j)
    /\ ToSet(s.res) = {Meet(cs, ds, x) : x \in Met(cs, ds, paid)}

LEMMA LaidNext ==
    ASSUME NEW cs \in Queues, NEW ds \in Queues, NEW s \in LoopStates, NEW i, NEW j, NEW paid,
           Laid(cs, ds, s, i, j, paid)
    PROVE  \E k, l, more : Laid(cs, ds, SimplifyStep(s), k, l, more)
<1> DEFINE c == s.creditors
           d == s.debtors
           pay == Min({c[1].amt, d[1].amt})
           t == [from |-> d[1].id, to |-> c[1].id, amount |-> pay]
           new == [creditors |-> Take(c, pay), debtors |-> Take(d, pay),
                   res |-> Append(s.res, t)]
<1>1. c \in Queues /\ d \in Queues /\ s.res \in Seq(Transfers)
      /\ Len(c) \in Nat /\ Len(d) \in Nat /\ Len(cs) \in Nat /\ Len(ds) \in Nat
    BY DEF LoopStates, Queues
<1>2. CASE c = <<>> \/ d = <<>>
  <2>1. SimplifyStep(s) = s
      BY <1>2 DEF SimplifyStep
  <2> QED
      BY <2>1
<1>3. CASE c # <<>> /\ d # <<>>
  <2>1. SimplifyStep(s) = new
      BY <1>3 DEF SimplifyStep
  <2>2. 1 \in 1..Len(c) /\ 1 \in 1..Len(d)
      BY <1>1, <1>3, EmptySeq DEF Queues
  <2>3. /\ c[1].id \in Users /\ c[1].amt \in Nat \ {0}
        /\ d[1].id \in Users /\ d[1].amt \in Nat \ {0}
      BY <1>1, <2>2, LeftIs
  <2>4. pay \in Nat \ {0} /\ pay <= c[1].amt /\ pay <= d[1].amt
        /\ (pay = c[1].amt \/ pay = d[1].amt)
    <3>1. c[1].amt \in Int /\ d[1].amt \in Int
        BY <2>3
    <3>2. /\ pay = c[1].amt \/ pay = d[1].amt
          /\ pay <= c[1].amt /\ pay <= d[1].amt
        BY <3>1, SmallerOfTwo
    <3> QED
        BY <2>3, <3>2
  <2>5. /\ paid \in Int /\ Remains(cs, c, i, paid) /\ Remains(ds, d, j, paid)
        /\ paid = Upto(cs, i) \/ paid = Upto(ds, j)
        /\ ToSet(s.res) = {Meet(cs, ds, x) : x \in Met(cs, ds, paid)}
      BY DEF Laid
  <2>6. /\ i \in 0..Len(cs) /\ i < Len(cs) /\ Upto(cs, i) <= paid
        /\ c[1].id = cs[i + 1].id /\ c[1].amt = Upto(cs, i + 1) - paid
      BY <1>1, <2>2, <2>5 DEF Remains
  <2>7. /\ j \in 0..Len(ds) /\ j < Len(ds) /\ Upto(ds, j) <= paid
        /\ d[1].id = ds[j + 1].id /\ d[1].amt = Upto(ds, j + 1) - paid
      BY <1>1, <2>2, <2>5 DEF Remains
  <2>8. i + 1 \in 0..Len(cs) /\ j + 1 \in 0..Len(ds)
        /\ Upto(cs, i + 1) \in Int /\ Upto(ds, j + 1) \in Int
    <3>1. i + 1 \in 0..Len(cs) /\ j + 1 \in 0..Len(ds)
        BY <1>1, <2>6, <2>7
    <3> QED
        BY <3>1, UptoNext
  <2> DEFINE next == Min({Upto(cs, i + 1), Upto(ds, j + 1)})
             k == IF pay = c[1].amt THEN i + 1 ELSE i
             l == IF pay = d[1].amt THEN j + 1 ELSE j
  <2>9. next = paid + pay /\ paid < Upto(cs, i + 1) /\ paid < Upto(ds, j + 1)
    <3>1. (next = Upto(cs, i + 1) \/ next = Upto(ds, j + 1))
          /\ next <= Upto(cs, i + 1) /\ next <= Upto(ds, j + 1)
        BY <2>8, SmallerOfTwo
    <3> DEFINE gets == c[1].amt
               owes == d[1].amt
               U == Upto(cs, i + 1)
               W == Upto(ds, j + 1)
    <3>2. /\ paid \in Int /\ pay \in Int /\ gets \in Int /\ owes \in Int /\ U \in Int /\ W \in Int
          /\ 0 < gets /\ 0 < owes /\ gets = U - paid /\ owes = W - paid
          /\ pay = gets \/ pay = owes
          /\ pay <= gets /\ pay <= owes
        BY <2>3, <2>4, <2>5, <2>6, <2>7, <2>8
    <3>3. (next = U \/ next = W) /\ next <= U /\ next <= W
        BY <3>1
    <3> HIDE DEF next, pay, gets, owes, U, W
    <3>4. next = paid + pay /\ paid < U /\ paid < W
        BY <3>2, <3>3
    <3> QED
        BY <3>4 DEF U, W
  <2>10. /\ Overlap(cs, ds, i + 1, j + 1) = next - paid
         /\ Met(cs, ds, next) = Met(cs, ds, paid) \cup {<<i + 1, j + 1>>}
    <3>1. /\ next = Min({Upto(cs, i + 1), Upto(ds, j + 1)})
          /\ i \in 0..Len(cs) /\ j \in 0..Len(ds) /\ i < Len(cs) /\ j < Len(ds)
          /\ Upto(cs, i) <= paid /\ Upto(ds, j) <= paid
          /\ paid < Upto(cs, i + 1) /\ paid < Upto(ds, j + 1)
        BY <2>6, <2>7, <2>9
    <3>2. paid \in Int /\ (paid = Upto(cs, i) \/ paid = Upto(ds, j))
        BY <2>5
    <3> HIDE DEF c, d, pay, next, t, new, k, l
    <3> QED
        BY <3>1, <3>2, MetNext
  <2>11. t = Meet(cs, ds, <<i + 1, j + 1>>)
    <3>1. next - paid = pay
      <4> HIDE DEF next, pay
      <4> QED
          BY <2>4, <2>5, <2>9
    <3> HIDE DEF next, pay, c, d
    <3> QED
        BY <2>6, <2>7, <2>10, <3>1 DEF Meet
  <2>12. ToSet(Append(s.res, t)) = ToSet(s.res) \cup {t}
    <3> DEFINE all == Transfers \cup {t}
    <3>1. Transfers \subseteq all /\ t \in all
        OBVIOUS
    <3> HIDE DEF all, t
    <3>2. s.res \in Seq(all)
        BY <1>1, <3>1, SeqMonotonic
    <3> QED
        BY <3>1, <3>2, ToSetAppend
  <2>13. ToSet(new.res) = {Meet(cs, ds, x) : x \in Met(cs, ds, next)}
    <3>1. new.res = Append(s.res, t)
        OBVIOUS
    <3> HIDE DEF new, t, next
    <3> QED
        BY <2>5, <2>10, <2>11, <2>12, <3>1
  <2>14. Remains(cs, Take(c, pay), k, next) /\ Remains(ds, Take(d, pay), l, next)
    <3> HIDE DEF c, d, pay, next
    <3>1. Remains(cs, Take(c, pay), k, paid + pay)
        BY <1>1, <1>3, <2>4, <2>5, TakeLeaves
    <3>2. Remains(ds, Take(d, pay), l, paid + pay)
        BY <1>1, <1>3, <2>4, <2>5, TakeLeaves
    <3> QED
        BY <2>9, <3>1, <3>2
  <2>15. next = Upto(cs, k) \/ next = Upto(ds, l)
    <3>1. CASE pay = c[1].amt
      <4>1. k = i + 1
          BY <3>1
      <4>2. next = Upto(cs, i + 1)
        <5> HIDE DEF next, pay, c, d
        <5> QED
            BY <2>5, <2>6, <2>8, <2>9, <3>1
      <4> QED
          BY <4>1, <4>2
    <3>2. CASE pay = d[1].amt
      <4>1. l = j + 1
          BY <3>2
      <4>2. next = Upto(ds, j + 1)
        <5> HIDE DEF next, pay, c, d
        <5> QED
            BY <2>5, <2>7, <2>8, <2>9, <3>2
      <4> QED
          BY <4>1, <4>2
    <3> QED
        BY <2>4, <3>1, <3>2
  <2>16. next \in Int /\ new.creditors = Take(c, pay) /\ new.debtors = Take(d, pay)
    <3>1. paid + pay \in Int
        BY <2>4, <2>5
    <3> QED
        BY <2>9, <3>1
  <2> HIDE DEF new, next, k, l, c, d, pay, t
  <2>17. Laid(cs, ds, new, k, l, next)
      BY <2>13, <2>14, <2>15, <2>16 DEF Laid
  <2> QED
      BY <2>1, <2>17
<1> QED
    BY <1>2, <1>3

\* Simplify pays the overlaps, each once.
LEMMA SimplifyPaysOverlaps ==
    ASSUME NEW net \in [Users -> Int], SumFunctionOnSet(net, Users) = 0
    PROVE  /\ ToSet(Simplify(net)) = Overlaps(Creditors(net), Debtors(net))
           /\ Len(Simplify(net)) = Cardinality(ToSet(Simplify(net)))
<1> DEFINE n == Most(net)
           f == Steps(Start(net), n)
           s == f[n]
           cs == Creditors(net)
           ds == Debtors(net)
           Is(q) == \E i, j, paid : Laid(cs, ds, q, i, j, paid)
           G == {k \in Nat : k <= n => LoopInv(net, n, f[k]) /\ Shrinks(n, k, f[k]) /\ Is(f[k])}
<1>1. n \in Nat /\ f[0] = Start(net)
    BY LoopStarts, StepsIs
<1>2. /\ cs \in Queues /\ ds \in Queues /\ Len(cs) \in Nat /\ Len(ds) \in Nat
      /\ Start(net).creditors = cs /\ Start(net).debtors = ds /\ Start(net).res = <<>>
  <2>1. Start(net) = [creditors |-> cs, debtors |-> ds, res |-> <<>>]
      BY DEF Start
  <2>2. Start(net) \in LoopStates
      BY LoopStarts DEF LoopInv
  <2> HIDE DEF cs, ds
  <2>3. cs \in Queues /\ ds \in Queues
      BY <2>1, <2>2 DEF LoopStates
  <2>4. Len(cs) \in Nat /\ Len(ds) \in Nat
      BY <2>3 DEF Queues
  <2> QED
      BY <2>1, <2>3, <2>4
<1> HIDE DEF cs, ds
<1>3. Is(Start(net))
  <2>1. Upto(cs, 0) = 0 /\ Upto(ds, 0) = 0
      BY <1>2, UptoNext
  <2>2. ASSUME NEW q \in Queues PROVE Remains(q, q, 0, 0)
    <3>1. /\ Upto(q, 0) = 0 /\ Len(q) \in Nat
          /\ \A k \in 0..Len(q) : Upto(q, k) \in Int
          /\ \A k \in 1..Len(q) : Upto(q, k) = Upto(q, k - 1) + q[k].amt
        BY UptoNext DEF Queues
    <3>2. ASSUME NEW k \in 1..Len(q)
          PROVE  q[k].amt = Upto(q, 0 + k) - (IF k = 1 THEN 0 ELSE Upto(q, 0 + k - 1))
      <4>1. k \in 0..Len(q) /\ k - 1 \in 0..Len(q) /\ 0 + k = k /\ 0 + k - 1 = k - 1
            /\ (k = 1 => k - 1 = 0)
          BY <3>1
      <4>2. Upto(q, k) = Upto(q, k - 1) + q[k].amt /\ Upto(q, k) \in Int
            /\ Upto(q, k - 1) \in Int /\ q[k].amt \in Int
          BY <3>1, <4>1, LeftIs
      <4> QED
          BY <3>1, <4>1, <4>2
    <3>3. \A k \in 1..Len(q) : 0 + k = k
        BY <3>1
    <3>4. 0 \in 0..Len(q) /\ Len(q) = Len(q) - 0 /\ Upto(q, 0) <= 0
        BY <3>1
    <3> QED
        BY <3>2, <3>3, <3>4 DEF Remains
  <2>3. Met(cs, ds, 0) = {}
    <3> SUFFICES ASSUME NEW a \in 1..Len(cs), NEW b \in 1..Len(ds),
                        Min({Upto(cs, a), Upto(ds, b)}) <= 0
                 PROVE  FALSE
        BY DEF Met
    <3>1. 0 < Upto(cs, a) /\ 0 < Upto(ds, b)
      <4>1. 0 \in 0..Len(cs) /\ a \in 0..Len(cs) /\ 0 < a
            /\ 0 \in 0..Len(ds) /\ b \in 0..Len(ds) /\ 0 < b
          BY <1>2
      <4>2. Upto(cs, 0) < Upto(cs, a) /\ Upto(ds, 0) < Upto(ds, b)
          BY <1>2, <4>1, UptoGrows
      <4> QED
          BY <2>1, <4>2
    <3> DEFINE x == Upto(cs, a)
               y == Upto(ds, b)
               least == Min({x, y})
    <3>2. x \in Int /\ y \in Int /\ 0 < x /\ 0 < y /\ least <= 0
      <4>1. a \in 0..Len(cs) /\ b \in 0..Len(ds)
          BY <1>2
      <4> QED
          BY <1>2, <3>1, <4>1, UptoNext
    <3> HIDE DEF x, y
    <3>3. least = x \/ least = y
        BY <3>2, SmallerOfTwo
    <3> HIDE DEF least
    <3>4. CASE least = x
        BY <3>2, <3>4
    <3>5. CASE least = y
        BY <3>2, <3>5
    <3> QED
        BY <3>3, <3>4, <3>5
  <2>4. ToSet(Start(net).res) = {Meet(cs, ds, x) : x \in Met(cs, ds, 0)}
    <3>1. ToSet(<<>>) = {}
        BY DEF ToSet
    <3> QED
        BY <1>2, <2>3, <3>1
  <2>5. Laid(cs, ds, Start(net), 0, 0, 0)
      BY <1>2, <2>1, <2>2, <2>4 DEF Laid
  <2> QED
      BY <2>5
<1>4. 0 \in G
    BY <1>1, <1>3, LoopStarts
<1>5. ASSUME NEW k \in Nat, k \in G PROVE k + 1 \in G
  <2>1. SUFFICES ASSUME k + 1 <= n
                 PROVE  LoopInv(net, n, f[k + 1]) /\ Shrinks(n, k + 1, f[k + 1]) /\ Is(f[k + 1])
      BY <1>5
  <2> HIDE DEF n
  <2>2. k \in 0..(n - 1) /\ k <= n
      BY <1>1, <2>1
  <2>3. f[k + 1] = SimplifyStep(f[k])
      BY <1>1, <2>2, StepsIs
  <2>4. LoopInv(net, n, f[k]) /\ Shrinks(n, k, f[k]) /\ Is(f[k])
      BY <1>5, <2>2
  <2> HIDE DEF f
  <2>5. LoopInv(net, n, f[k + 1]) /\ Shrinks(n, k + 1, f[k + 1])
      BY <1>1, <2>3, <2>4, LoopStep
  <2>6. f[k] \in LoopStates
      BY <2>4 DEF LoopInv
  <2>7. Is(f[k + 1])
      BY <1>2, <2>3, <2>4, <2>6, LaidNext
  <2> QED
      BY <2>5, <2>7
<1>6. LoopInv(net, n, s) /\ Shrinks(n, n, s) /\ Is(s)
  <2> HIDE DEF G
  <2>1. \A k \in Nat : k \in G
      BY <1>4, <1>5, NumberInduction
  <2>2. n \in G /\ n <= n
      BY <1>1, <2>1
  <2> QED
      BY <2>2 DEF G
<1>7. Simplify(net) = s.res
    BY SimplifyIs
<1> HIDE DEF n, f, s, G
<1>8. PICK i, j, paid : Laid(cs, ds, s, i, j, paid)
    BY <1>6
<1> HIDE DEF Is
<1> DEFINE c == s.creditors
           d == s.debtors
<1>9. Len(c) \in Nat /\ Len(d) \in Nat
    BY <1>6 DEF LoopInv, LoopStates, Queues
<1>10. Len(c) = 0 \/ Len(d) = 0
  <2>1. c = <<>> \/ d = <<>> \/ Len(c) + Len(d) + n <= n
      BY <1>6 DEF Shrinks
  <2> HIDE DEF c, d
  <2>2. Len(c) + Len(d) + n <= n => Len(c) = 0
      BY <1>1, <1>9
  <2>3. Len(<<>>) = 0
      BY EmptySeq
  <2> QED
      BY <2>1, <2>2, <2>3
<1>11. /\ i \in 0..Len(cs) /\ Len(c) = Len(cs) - i /\ Upto(cs, i) <= paid
       /\ j \in 0..Len(ds) /\ Len(d) = Len(ds) - j /\ Upto(ds, j) <= paid
       /\ paid \in Int
    BY <1>8 DEF Laid, Remains
<1> HIDE DEF c, d
<1>12. i = Len(cs) \/ j = Len(ds)
    BY <1>2, <1>9, <1>10, <1>11
<1>13. ASSUME NEW a \in 1..Len(cs), NEW b \in 1..Len(ds)
       PROVE  Min({Upto(cs, a), Upto(ds, b)}) <= paid
  <2>1. /\ a \in 0..Len(cs) /\ b \in 0..Len(ds)
        /\ Upto(cs, a) \in Int /\ Upto(cs, i) \in Int
        /\ Upto(ds, b) \in Int /\ Upto(ds, j) \in Int
    <3>1. a \in 0..Len(cs) /\ b \in 0..Len(ds)
        BY <1>2
    <3> QED
        BY <1>2, <1>11, <3>1, UptoNext
  <2>2. /\ Min({Upto(cs, a), Upto(ds, b)}) \in Int
        /\ Min({Upto(cs, a), Upto(ds, b)}) <= Upto(cs, a)
        /\ Min({Upto(cs, a), Upto(ds, b)}) <= Upto(ds, b)
    <3> DEFINE x == Upto(cs, a)
               y == Upto(ds, b)
    <3>1. x \in Int /\ y \in Int
        BY <2>1
    <3> HIDE DEF x, y
    <3>2. Min({x, y}) \in Int /\ Min({x, y}) <= x /\ Min({x, y}) <= y
        BY <3>1, SmallerOfTwo
    <3> QED
        BY <3>2 DEF x, y
  <2>3. CASE i = Len(cs)
    <3>1. a = i \/ a < i
        BY <1>2, <2>3
    <3>2. a < i => Upto(cs, a) < Upto(cs, i)
        BY <1>2, <1>11, <2>2, UptoGrows
    <3> QED
        BY <1>11, <2>1, <2>2, <3>1, <3>2
  <2>4. CASE j = Len(ds)
    <3>1. b = j \/ b < j
        BY <1>2, <2>4
    <3>2. b < j => Upto(ds, b) < Upto(ds, j)
        BY <1>2, <1>11, <2>2, UptoGrows
    <3> QED
        BY <1>11, <2>1, <2>2, <3>1, <3>2
  <2> QED
      BY <1>12, <2>3, <2>4
<1>14. ToSet(Simplify(net)) = Overlaps(cs, ds)
  <2>1. DOMAIN cs = 1..Len(cs) /\ DOMAIN ds = 1..Len(ds)
      BY <1>2, LenProperties DEF Queues
  <2>2. Met(cs, ds, paid) = {x \in (DOMAIN cs) \X (DOMAIN ds) : Overlap(cs, ds, x[1], x[2]) > 0}
      BY <1>13, <2>1 DEF Met
  <2>3. ToSet(Simplify(net)) = {Meet(cs, ds, x) : x \in Met(cs, ds, paid)}
      BY <1>7, <1>8 DEF Laid
  <2> QED
      BY <2>2, <2>3 DEF Meet, Overlaps
<1>15. Len(Simplify(net)) = Cardinality(ToSet(Simplify(net)))
  <2> DEFINE q == Simplify(net)
  <2>1. q \in Seq(Transfers) /\ Distinct(q)
      BY Simplified
  <2> HIDE DEF q
  <2>2. Len(q) \in Nat /\ q \in [1..Len(q) -> Transfers] /\ DOMAIN q = 1..Len(q)
      BY <2>1, LenProperties
  <2>3. ToSet(q) = {q[k] : k \in 1..Len(q)}
      BY <2>2 DEF ToSet
  <2>4. \A k, l \in 1..Len(q) : q[k] = q[l] => k = l
      BY <2>1 DEF Distinct
  <2>5. q \in Bijection(1..Len(q), ToSet(q))
    <3>1. q \in Surjection(1..Len(q), ToSet(q))
        BY <2>2, <2>3 DEF Surjection
    <3>2. q \in Injection(1..Len(q), ToSet(q))
        BY <2>2, <2>3, <2>4 DEF Injection, IsInjective
    <3> QED
        BY <3>1, <3>2 DEF Bijection
  <2>6. IsFiniteSet(1..Len(q)) /\ Cardinality(1..Len(q)) = Len(q)
      BY <2>2, UptoIs
  <2>7. Cardinality(1..Len(q)) = Cardinality(ToSet(q))
      BY <2>5, <2>6, FS_Bijection DEF ExistsBijection
  <2> QED
      BY <2>6, <2>7 DEF q
<1> QED
    BY <1>14, <1>15 DEF cs, ds

\* SimplifyIsOverlap: the loop of Simplify (balance/simplify.go:19) pays exactly
\* what creditors and debtors laid end to end have in common, each overlap once,
\* for any balances between any number of people.
THEOREM SimplifyLosesNothing == Spec => []SimplifyIsOverlap
<1>1. ASSUME owed \in Owings PROVE SimplifyIsOverlap
  <2>1. Nets(owed) \in [Users -> Int] /\ SumFunctionOnSet(Nets(owed), Users) = 0
      BY <1>1, NetsType, NetsCancel
  <2> QED
      BY <2>1, SimplifyPaysOverlaps DEF SimplifyIsOverlap
<1>2. BalanceInv => SimplifyIsOverlap
    BY <1>1 DEF BalanceInv
<1> QED
    BY <1>2, BalanceInvariant, PTL

-------------------------------------------------------------------------------
(* Amounts as they are typed and shown.                                    *)

LEMMA Powers == pow10(0) = 1 /\ pow10(1) = 10 /\ pow10(2) = 100 /\ pow10(3) = 1000
BY DEF pow10

Typable == [neg : BOOLEAN, whole : Nat, frac : Seq(0..9)]

\* The digits behind the point, one by one.
LEMMA FractionIs ==
    ASSUME NEW text \in Typable, NEW d \in {0, 2, 3}, Len(text.frac) <= d
    PROVE  /\ Fraction(text, d) \in Nat
           /\ Len(text.frac) = 0 => Fraction(text, d) = 0
           /\ Len(text.frac) = 2 /\ d = 2 =>
                 Fraction(text, d) = text.frac[1] * 10 + text.frac[2]
           /\ Len(text.frac) = 3 =>
                 Fraction(text, d) = text.frac[1] * 100 + text.frac[2] * 10 + text.frac[3]
<1> DEFINE n == Len(text.frac)
           f == [i \in 1..n |-> text.frac[i] * pow10(d - i)]
           sum(k) == SumFunctionOnSet(f, 1..k)
<1>1. n \in Nat /\ n \in {0, 1, 2, 3} /\ text.frac \in Seq(0..9)
      /\ \A i \in 1..n : text.frac[i] \in 0..9
  <2>1. text.frac \in Seq(0..9)
      BY DEF Typable
  <2>2. n \in Nat /\ \A i \in 1..n : text.frac[i] \in 0..9
      BY <2>1, LenProperties
  <2>3. n <= 3
      BY <2>2
  <2> HIDE DEF n
  <2> QED
      BY <2>1, <2>2, <2>3
<1> HIDE DEF n
<1>2. ASSUME NEW i \in 1..n PROVE f[i] \in Nat /\ f[i] = text.frac[i] * pow10(d - i)
  <2>1. d - i \in {0, 1, 2}
      BY <1>1 DEF n
  <2>2. pow10(d - i) \in Nat
      BY <2>1, Powers
  <2>3. text.frac[i] \in Nat
      BY <1>1
  <2> QED
      BY <2>2, <2>3
<1>3. Fraction(text, d) = sum(n)
  <2>1. Fraction(text, d) = SumFunction(f)
      BY DEF Fraction, Sum, n
  <2>2. DOMAIN f = 1..n
      OBVIOUS
  <2> HIDE DEF f
  <2> QED
      BY <2>1, <2>2 DEF SumFunction
<1> HIDE DEF f
<1>4. sum(0) = 0
    BY SumNone
<1>5. ASSUME NEW k \in Nat, k + 1 <= n PROVE sum(k + 1) = f[k + 1] + sum(k) /\ sum(k) \in Int
  <2>1. \A i \in 1..(k + 1) : f[i] \in Int
    <3>1. \A i \in 1..(k + 1) : i \in 1..n
        BY <1>1, <1>5
    <3> QED
        BY <1>2, <3>1
  <2> QED
      BY <2>1, SumLast
<1> HIDE DEF sum
<1>6. n >= 1 => sum(1) = f[1] /\ f[1] \in Nat
  <2> SUFFICES ASSUME n >= 1 PROVE sum(1) = f[1] /\ f[1] \in Nat
      OBVIOUS
  <2>1. 1 \in 1..n /\ 0 + 1 = 1
      BY <1>1
  <2>2. sum(0 + 1) = f[0 + 1] + sum(0)
      BY <1>1, <1>5
  <2> QED
      BY <1>2, <1>4, <2>1, <2>2
<1>7. n >= 2 => sum(2) = f[2] + f[1] /\ f[2] \in Nat
  <2> SUFFICES ASSUME n >= 2 PROVE sum(2) = f[2] + f[1] /\ f[2] \in Nat
      OBVIOUS
  <2>1. 2 \in 1..n /\ 1 + 1 = 2 /\ n >= 1
      BY <1>1
  <2>2. sum(1 + 1) = f[1 + 1] + sum(1)
      BY <1>1, <1>5
  <2> QED
      BY <1>2, <1>6, <2>1, <2>2
<1>8. n >= 3 => sum(3) = f[3] + (f[2] + f[1]) /\ f[3] \in Nat
  <2> SUFFICES ASSUME n >= 3 PROVE sum(3) = f[3] + (f[2] + f[1]) /\ f[3] \in Nat
      OBVIOUS
  <2>1. 3 \in 1..n /\ 2 + 1 = 3 /\ n >= 2
      BY <1>1
  <2>2. sum(2 + 1) = f[2 + 1] + sum(2)
      BY <1>1, <1>5
  <2> QED
      BY <1>2, <1>7, <2>1, <2>2
<1>9. sum(n) \in Nat
    BY <1>1, <1>4, <1>6, <1>7, <1>8
<1>10. n = 2 /\ d = 2 => Fraction(text, d) = text.frac[1] * 10 + text.frac[2]
  <2> SUFFICES ASSUME n = 2, d = 2 PROVE Fraction(text, d) = text.frac[1] * 10 + text.frac[2]
      OBVIOUS
  <2>1. 1 \in 1..n /\ 2 \in 1..n /\ 2 - 1 = 1 /\ 2 - 2 = 0
      OBVIOUS
  <2>2. f[1] = text.frac[1] * pow10(2 - 1) /\ f[2] = text.frac[2] * pow10(2 - 2)
      BY <1>2, <2>1
  <2>3. text.frac[1] \in Nat /\ text.frac[2] \in Nat
      BY <1>1, <2>1
  <2>4. f[1] = text.frac[1] * 10 /\ f[2] = text.frac[2]
      BY <2>1, <2>2, <2>3, Powers
  <2> QED
      BY <1>3, <1>7, <2>3, <2>4
<1>11. n = 3 => Fraction(text, d) = text.frac[1] * 100 + text.frac[2] * 10 + text.frac[3]
  <2> SUFFICES ASSUME n = 3
               PROVE  Fraction(text, d) = text.frac[1] * 100 + text.frac[2] * 10 + text.frac[3]
      OBVIOUS
  <2>1. 1 \in 1..n /\ 2 \in 1..n /\ 3 \in 1..n /\ d = 3
      BY DEF n
  <2>2. /\ f[1] = text.frac[1] * pow10(3 - 1) /\ f[2] = text.frac[2] * pow10(3 - 2)
        /\ f[3] = text.frac[3] * pow10(3 - 3)
      BY <1>2, <2>1
  <2>3. 3 - 1 = 2 /\ 3 - 2 = 1 /\ 3 - 3 = 0
      OBVIOUS
  <2>4. text.frac[1] \in Nat /\ text.frac[2] \in Nat /\ text.frac[3] \in Nat
    <3>1. text.frac[1] \in 0..9 /\ text.frac[2] \in 0..9 /\ text.frac[3] \in 0..9
        BY <1>1, <2>1
    <3>2. \A x \in 0..9 : x \in Nat
        OBVIOUS
    <3> QED
        BY <3>1, <3>2
  <2>5. f[1] = text.frac[1] * 100 /\ f[2] = text.frac[2] * 10 /\ f[3] = text.frac[3]
      BY <2>2, <2>3, <2>4, Powers
  <2> DEFINE x == text.frac[1] * 100
             y == text.frac[2] * 10
             z == text.frac[3]
  <2>6. Fraction(text, d) = z + (y + x)
      BY <1>3, <1>8, <2>5
  <2>7. x \in Int /\ y \in Int /\ z \in Int
      BY <2>4
  <2> HIDE DEF x, y, z
  <2>8. Fraction(text, d) = x + y + z
      BY <2>6, <2>7
  <2> QED
      BY <2>8 DEF x, y, z
<1> QED
    BY <1>3, <1>4, <1>9, <1>10, <1>11 DEF n

\* A text with digits to spare, or beyond the largest amount, is refused; any
\* other is read as the number it writes.
LEMMA ParseIs ==
    ASSUME NEW text \in Typable, NEW d \in {0, 2, 3}
    PROVE  LET size == text.whole * pow10(d) + Fraction(text, d)
           IN  /\ Len(text.frac) <= d => size \in Nat
               /\ Parse(text, d) = IF Len(text.frac) > d \/ size > MaxInt THEN Refused
                                   ELSE IF text.neg THEN - size ELSE size
<1> DEFINE F == Fraction(text, d)
           P == pow10(d)
           w == text.whole
           size == w * P + F
<1>1. MaxInt \in Nat /\ Len(text.frac) \in Nat /\ w \in Nat /\ text.neg \in BOOLEAN
  <2>1. text.frac \in Seq(0..9)
      BY DEF Typable
  <2> QED
      BY <2>1, SplitAssumption, LenProperties DEF Typable
<1>2. P \in {1, 100, 1000}
    BY Powers
<1>3. CASE Len(text.frac) > d
    BY <1>1, <1>3 DEF Parse
<1>4. CASE Len(text.frac) <= d
  <2>1. F \in Nat
      BY <1>4, FractionIs
  <2>2. Parse(text, d) = IF w > (MaxInt - F) \div P THEN Refused
                         ELSE (IF text.neg THEN -1 ELSE 1) * Wrap(size)
      BY <1>1, <1>4 DEF Parse, TooLarge
  <2> HIDE DEF F, P, w
  <2>3. size \in Nat
      BY <1>1, <1>2, <2>1
  <2>4. w > (MaxInt - F) \div P <=> size > MaxInt
    <3>1. MaxInt - F \in Int
        BY <1>1, <2>1
    <3>2. CASE P = 1
        BY <1>1, <2>1, <3>1, <3>2
    <3>3. CASE P = 100
        BY <1>1, <2>1, <3>1, <3>3
    <3>4. CASE P = 1000
        BY <1>1, <2>1, <3>1, <3>4
    <3> QED
        BY <1>2, <3>2, <3>3, <3>4
  <2> HIDE DEF size
  <2>5. size <= MaxInt => Wrap(size) = size
    <3>1. size <= MaxInt => Size(size) <= MaxInt
        BY <2>3 DEF Size
    <3> QED
        BY <2>3, <3>1, WrapFits
  <2>6. (-1) * size = - size /\ 1 * size = size
      BY <2>3
  <2>7. Parse(text, d) = IF size > MaxInt THEN Refused ELSE IF text.neg THEN - size ELSE size
      BY <1>1, <2>2, <2>3, <2>4, <2>5, <2>6
  <2> QED
      BY <1>1, <1>4, <2>3, <2>7 DEF size, F, P, w
<1> QED
    BY <1>1, <1>3, <1>4

LEMMA DigitsMakeUp ==
    ASSUME NEW s \in Nat
    PROVE  /\ (s \div 100) * 100 + (((s \div 10) % 10) * 10 + (s % 10)) = s
           /\ (s \div 1000) * 1000
                + (((s \div 100) % 10) * 100 + ((s \div 10) % 10) * 10 + (s % 10)) = s
<1> DEFINE a == s \div 10
           b == s \div 100
           c == s \div 1000
           e == s % 10
           f == a % 10
           g == b % 10
<1>1. a \in Int /\ b \in Int /\ c \in Int /\ e \in Int /\ f \in Int /\ g \in Int
    OBVIOUS
<1>2. s = 10 * a + e /\ 0 <= e /\ e < 10
    OBVIOUS
<1>3. 100 * b <= s /\ s < 100 * b + 100
    OBVIOUS
<1>4. 1000 * c <= s /\ s < 1000 * c + 1000
    OBVIOUS
<1>5. a = 10 * (a \div 10) + f /\ 0 <= f /\ f < 10 /\ a \div 10 \in Int
  <2> HIDE DEF a
  <2> QED
      BY <1>1
<1>6. b = 10 * (b \div 10) + g /\ 0 <= g /\ g < 10 /\ b \div 10 \in Int
  <2> HIDE DEF b
  <2> QED
      BY <1>1
<1> HIDE DEF a, b, c, e, f, g
<1>7. a \div 10 = b
    BY <1>1, <1>2, <1>3, <1>5
<1>8. b \div 10 = c
    BY <1>1, <1>3, <1>4, <1>6
<1>9. b * 100 + (f * 10 + e) = s
    BY <1>1, <1>2, <1>5, <1>7
<1>10. c * 1000 + (g * 100 + f * 10 + e) = s
    BY <1>1, <1>6, <1>8, <1>9
<1> QED
    BY <1>9, <1>10 DEF a, b, c, e, f, g

\* An amount that is shown is read back.
LEMMA ShownIsRead ==
    ASSUME NEW m \in Int, Size(m) <= MaxInt, NEW d \in {0, 2, 3}
    PROVE  Parse(Format(m, d), d) = m
<1> DEFINE text == Format(m, d)
           s == Size(m)
           F == Fraction(text, d)
<1>1. s \in Nat /\ MaxInt \in Nat
    BY SplitAssumption DEF Size
<1>2. \A i \in 1..d : pow10(d - i) \in {1, 10, 100}
    BY Powers
<1>3. /\ text.neg = (m < 0) /\ text.whole = s \div pow10(d)
      /\ text.frac = [i \in 1..d |-> (s \div pow10(d - i)) % 10]
    BY DEF Format
<1> HIDE DEF s
<1>4. pow10(d) \in {1, 100, 1000} /\ s \div pow10(d) \in Nat
  <2>1. pow10(d) \in {1, 100, 1000}
      BY Powers
  <2> QED
      BY <1>1, <2>1
<1>5. \A i \in 1..d : (s \div pow10(d - i)) % 10 \in 0..9
  <2> SUFFICES ASSUME NEW i \in 1..d PROVE (s \div pow10(d - i)) % 10 \in 0..9
      OBVIOUS
  <2>1. s \div pow10(d - i) \in Nat
      BY <1>1, <1>2
  <2> QED
      BY <2>1
<1>6. text.frac \in Seq(0..9) /\ Len(text.frac) = d
  <2>1. d \in Nat /\ text.frac \in [1..d -> 0..9]
      BY <1>3, <1>5
  <2> HIDE DEF text
  <2> QED
      BY <2>1, SeqDef, LenProperties
<1>7. text \in Typable
  <2>1. text = [neg |-> m < 0, whole |-> s \div pow10(d),
                frac |-> [i \in 1..d |-> (s \div pow10(d - i)) % 10]]
      BY DEF Format, s
  <2>2. (m < 0) \in BOOLEAN /\ [i \in 1..d |-> (s \div pow10(d - i)) % 10] \in Seq(0..9)
      BY <1>3, <1>6
  <2> QED
      BY <1>4, <2>1, <2>2 DEF Typable
<1> HIDE DEF text
<1>8. /\ d = 0 => F = 0
      /\ d = 2 => F = text.frac[1] * 10 + text.frac[2]
      /\ d = 3 => F = text.frac[1] * 100 + text.frac[2] * 10 + text.frac[3]
  <2>1. Len(text.frac) <= d
      BY <1>6
  <2>2. /\ Len(text.frac) = 0 => Fraction(text, d) = 0
        /\ Len(text.frac) = 2 /\ d = 2 =>
              Fraction(text, d) = text.frac[1] * 10 + text.frac[2]
        /\ Len(text.frac) = 3 =>
              Fraction(text, d) = text.frac[1] * 100 + text.frac[2] * 10 + text.frac[3]
      BY <1>7, <2>1, FractionIs, Zenon
  <2> QED
      BY <1>6, <2>2, Zenon
<1> HIDE DEF F
<1>9. text.whole * pow10(d) + F = s
  <2>1. CASE d = 0
    <3>1. F = 0
        BY <1>8, <2>1
    <3>2. pow10(d) = 1
        BY <2>1, Powers
    <3>3. s \div 1 = s
        BY <1>1
    <3> QED
        BY <1>1, <1>3, <3>1, <3>2, <3>3
  <2>2. CASE d = 2
    <3>1. F = text.frac[1] * 10 + text.frac[2]
        BY <1>8, <2>2
    <3>2. 2 - 1 = 1 /\ 2 - 2 = 0 /\ 1 \in 1..2 /\ 2 \in 1..2 /\ s \div 1 = s
        BY <1>1
    <3>3. text.frac[1] = (s \div 10) % 10 /\ text.frac[2] = s % 10
        BY <1>3, <2>2, <3>2, Powers
    <3>4. text.whole = s \div 100 /\ pow10(d) = 100
        BY <1>3, <2>2, Powers
    <3> QED
        BY <1>1, <3>1, <3>3, <3>4, DigitsMakeUp
  <2>3. CASE d = 3
    <3>1. F = text.frac[1] * 100 + text.frac[2] * 10 + text.frac[3]
        BY <1>8, <2>3
    <3>2. 3 - 1 = 2 /\ 3 - 2 = 1 /\ 3 - 3 = 0 /\ 1 \in 1..3 /\ 2 \in 1..3 /\ 3 \in 1..3
          /\ s \div 1 = s
        BY <1>1
    <3>3. text.frac[1] = (s \div 100) % 10 /\ text.frac[2] = (s \div 10) % 10
          /\ text.frac[3] = s % 10
        BY <1>3, <2>3, <3>2, Powers
    <3>4. text.whole = s \div 1000 /\ pow10(d) = 1000
        BY <1>3, <2>3, Powers
    <3> QED
        BY <1>1, <3>1, <3>3, <3>4, DigitsMakeUp
  <2> QED
      BY <2>1, <2>2, <2>3
<1>10. Parse(text, d) = IF Len(text.frac) > d \/ s > MaxInt THEN Refused
                       ELSE IF text.neg THEN - s ELSE s
    BY <1>7, <1>9, ParseIs DEF F
<1>11. ~ (Len(text.frac) > d) /\ ~ (s > MaxInt)
    BY <1>1, <1>6 DEF s
<1>12. Parse(text, d) = IF m < 0 THEN - s ELSE s
    BY <1>3, <1>10, <1>11
<1>13. (IF m < 0 THEN - s ELSE s) = m
    BY DEF s, Size
<1> QED
    BY <1>12, <1>13 DEF text

\* ParsedIsTyped: what is typed is read as that amount or refused (money/money.go:106),
\* and what is shown is read back, in every currency and for any text.
THEOREM ReadAsTyped == Spec => []ParsedIsTyped
<1>1. ParsedIsTyped
  <2> SUFFICES ASSUME NEW cur \in {"JPY", "USD", "KWD"}, NEW text \in Texts
               PROVE  LET d    == Decimals(cur)
                          size == text.whole * pow10(d) + Fraction(text, d)
                      IN  /\ Parse(text, d) = IF Len(text.frac) > d \/ size > MaxInt THEN Refused
                                              ELSE IF text.neg THEN - size ELSE size
                          /\ Parse(text, d) # Refused =>
                                Parse(Format(Parse(text, d), d), d) = Parse(text, d)
      BY DEF ParsedIsTyped
  <2> DEFINE d == Decimals(cur)
             size == text.whole * pow10(d) + Fraction(text, d)
  <2>1. d \in {0, 2, 3} /\ text \in Typable
      BY BillAssumption DEF Decimals, Typable
  <2> HIDE DEF d
  <2>2. /\ Len(text.frac) <= d => size \in Nat
        /\ Parse(text, d) = IF Len(text.frac) > d \/ size > MaxInt THEN Refused
                            ELSE IF text.neg THEN - size ELSE size
      BY <2>1, ParseIs
  <2>3. MaxInt \in Nat /\ Len(text.frac) \in Nat /\ d \in Nat
    <3>1. text.frac \in Seq(0..9)
        BY <2>1 DEF Typable
    <3> QED
        BY <2>1, <3>1, SplitAssumption, LenProperties
  <2> HIDE DEF size
  <2>4. ASSUME Parse(text, d) # Refused
        PROVE  Parse(Format(Parse(text, d), d), d) = Parse(text, d)
    <3>1. Len(text.frac) <= d /\ size <= MaxInt /\ size \in Nat
        BY <2>2, <2>3, <2>4
    <3>2. Parse(text, d) \in Int /\ Size(Parse(text, d)) <= MaxInt
        BY <2>2, <2>3, <3>1 DEF Size
    <3> QED
        BY <2>1, <3>2, ShownIsRead
  <2> QED
      BY <2>2, <2>4 DEF d, size
<1> QED
    BY <1>1, PTL

-------------------------------------------------------------------------------
(* Opening the form of an expense again.                                   *)

LEMMA DivisionIs ==
    ASSUME NEW g \in Nat \ {0}, NEW i \in Int
    PROVE  i \div g \in Int /\ i % g \in 0..(g - 1) /\ i = g * (i \div g) + (i % g)
OBVIOUS

\* What comes round differs by whole rounds.
LEMMA WrapShift ==
    ASSUME NEW m \in Int, Size(m) <= MaxInt, NEW x \in Int
    PROVE  Wrap(m + Wrap(x) - x) = m
<1> DEFINE h == MaxInt + 1
           M == 2 * h
           y == m + Wrap(x) - x
           q == (x + h) \div M
           k == (y + h) \div M
           e == (y + h) % M
<1>1. MaxInt \in Nat /\ h \in Nat \ {0} /\ M \in Nat \ {0} /\ M = 2 * h /\ h = MaxInt + 1
    BY SplitAssumption
<1>2. - MaxInt <= m /\ m <= MaxInt
    BY <1>1 DEF Size
<1>3. Wrap(x) \in Int /\ Wrap(x) = ((x + h) % M) - h
    BY <1>1, WrapType DEF Wrap
<1>4. y \in Int /\ Wrap(y) = e - h
    BY <1>1, <1>3 DEF Wrap
<1> HIDE DEF h, M
<1>5. MaxInt \in Int /\ h \in Int /\ x + h \in Int /\ y + h \in Int
    BY <1>1, <1>4
<1>6. q \in Int /\ (x + h) % M \in Int /\ x + h = M * q + ((x + h) % M)
  <2> DEFINE i == x + h
  <2>1. i \in Int
      BY <1>5
  <2> HIDE DEF i
  <2>2. i \div M \in Int /\ i % M \in 0..(M - 1) /\ i = M * (i \div M) + (i % M)
      BY <1>1, <2>1, DivisionIs
  <2>3. i % M \in Int
      BY <1>1, <2>2
  <2> QED
      BY <2>2, <2>3 DEF i
<1>7. k \in Int /\ e \in Int /\ 0 <= e /\ e < M /\ y + h = M * k + e
  <2> DEFINE i == y + h
  <2>1. i \in Int
      BY <1>5
  <2> HIDE DEF i, y
  <2>2. i \div M \in Int /\ i % M \in 0..(M - 1) /\ i = M * (i \div M) + (i % M)
      BY <1>1, <2>1, DivisionIs
  <2>3. i % M \in Int /\ 0 <= i % M /\ i % M < M
      BY <1>1, <2>2
  <2> QED
      BY <2>2, <2>3 DEF i
<1>8. y = m - M * q
  <2> DEFINE r == (x + h) % M
             p == M * q
  <2>1. p \in Int /\ r \in Int /\ x + h = p + r /\ Wrap(x) = r - h
      BY <1>1, <1>3, <1>6
  <2>2. y = m + Wrap(x) - x
      OBVIOUS
  <2> HIDE DEF p, r, y
  <2>3. y = m - p
      BY <1>5, <2>1, <2>2
  <2> QED
      BY <2>3 DEF p
<1> HIDE DEF q, k, e, y
<1>9. M * (k + q) = m + h - e
  <2> DEFINE a == M * k
             c == M * q
             z == M * (k + q)
  <2>1. z = a + c /\ a \in Int /\ c \in Int /\ y + h = a + e /\ y = m - c
      BY <1>1, <1>6, <1>7, <1>8
  <2> HIDE DEF a, c, z
  <2>2. z = m + h - e
      BY <1>4, <1>5, <1>7, <2>1
  <2> QED
      BY <2>2 DEF z
<1>10. - M < m + h - e /\ m + h - e < M
    BY <1>1, <1>2, <1>7
<1>11. k + q \in Int /\ k + q = 0
  <2> DEFINE z == k + q
  <2>1. z \in Int
      BY <1>6, <1>7
  <2>2. - M < M * z /\ M * z < M
      BY <1>9, <1>10
  <2> HIDE DEF z
  <2>3. ~ (z >= 1)
    <3> SUFFICES ASSUME z >= 1 PROVE FALSE
        OBVIOUS
    <3>1. PICK d \in Nat : z = 1 + d
      <4>1. z - 1 \in Nat /\ z = 1 + (z - 1)
          BY <2>1
      <4> QED
          BY <4>1
    <3>2. M * (1 + d) = M + M * d /\ M * d \in Nat
        BY <1>1
    <3> QED
        BY <1>1, <2>2, <3>1, <3>2
  <2>4. ~ (z <= -1)
    <3> SUFFICES ASSUME z <= -1 PROVE FALSE
        OBVIOUS
    <3>1. PICK d \in Nat : z = -1 - d
      <4>1. -1 - z \in Nat /\ z = -1 - (-1 - z)
          BY <2>1
      <4> QED
          BY <4>1
    <3>2. M * (-1 - d) = - M - M * d /\ M * d \in Nat
        BY <1>1
    <3> QED
        BY <1>1, <2>2, <3>1, <3>2
  <2> QED
      BY <2>1, <2>3, <2>4 DEF z
<1>12. e = m + h
    BY <1>1, <1>7, <1>9, <1>11
<1> QED
    BY <1>1, <1>4, <1>12 DEF y

\* What a form types fits in int64.
LEMMA TypedFits ==
    ASSUME NEW b \in BillForms
    PROVE  /\ Size(b.total) <= MaxInt
           /\ b.values = [u \in DOMAIN b.values |-> b.values[u]]
           /\ \A u \in DOMAIN b.values :
                 /\ Size(b.values[u]) <= MaxInt
                 /\ b.method = "EQUAL" => b.values[u] = 0
<1>1. PICK m \in UserSelectable, n \in Totals, p \in Payers, S \in SUBSET Splitters :
          /\ b.method = m /\ b.total = n /\ b.payer = p /\ b.values \in [S -> Typed[m]]
    BY DEF BillForms
<1>2. MaxInt \in Nat /\ n \in (- MaxInt)..MaxInt /\ Typed[m] \subseteq (- MaxInt)..MaxInt
      /\ Typed["EQUAL"] \subseteq {0}
    BY BillAssumption, SplitAssumption
<1>3. \A x \in (- MaxInt)..MaxInt : Size(x) <= MaxInt
    BY <1>2 DEF Size
<1>4. \A u \in S : b.values[u] \in Typed[m]
    BY <1>1
<1>5. b.values = [u \in S |-> b.values[u]] /\ DOMAIN b.values = S
    BY <1>1
<1>6. \A u \in S : Size(b.values[u]) <= MaxInt /\ (m = "EQUAL" => b.values[u] = 0)
    BY <1>2, <1>3, <1>4
<1>7. Size(b.total) <= MaxInt
    BY <1>1, <1>2, <1>3
<1> QED
    BY <1>1, <1>5, <1>6, <1>7

\* A form that nobody touches comes back as it was shown.
LEMMA PostedIs ==
    ASSUME NEW m \in UserSelectable, NEW f, f = [u \in DOMAIN f |-> f[u]],
           \A u \in DOMAIN f : /\ f[u] \in Int /\ Size(f[u]) <= MaxInt
                               /\ m = "EQUAL" => f[u] = 0
    PROVE  Posted([method |-> m, values |-> f], "USD") = [method |-> m, values |-> f]
<1> DEFINE form == [method |-> m, values |-> f]
           again(u) == ValueForMethod(m, FormatValue(m, f[u], "USD"), "USD")
<1>1. ASSUME NEW u \in DOMAIN f PROVE again(u) = f[u]
  <2>1. CASE m = "EQUAL"
      BY <2>1 DEF ValueForMethod
  <2>2. CASE m # "EQUAL"
    <3> DEFINE d == FieldDecimals(m, "USD")
    <3>1. d \in {0, 2, 3}
        BY DEF FieldDecimals, Decimals
    <3>2. again(u) = Parse(Format(f[u], d), d)
        BY <2>2 DEF ValueForMethod, FormatValue
    <3> HIDE DEF d
    <3> QED
        BY <3>1, <3>2, ShownIsRead
  <2> QED
      BY <2>1, <2>2
<1>2. Posted(form, "USD") = [form EXCEPT !.values = [u \in DOMAIN f |-> again(u)]]
    BY DEF Posted
<1> HIDE DEF again
<1>3. [u \in DOMAIN f |-> again(u)] = f
    BY <1>1
<1> QED
    BY <1>2, <1>3

\* Values that add up are left alone.
LEMMA RebalancedSame ==
    ASSUME NEW b, Recorded(b)
    PROVE  Rebalanced(b.method, b.total, b.values) = b.values
<1>1. /\ Sum(b.values) \in Int /\ Accepted(b.method, b.total, b.values)
      /\ \A u \in DOMAIN b.values : b.values[u] \in Int /\ Size(b.values[u]) <= MaxInt
      /\ b.values = [u \in DOMAIN b.values |-> b.values[u]]
    BY RecordedIs, TypedFits
<1>2. ASSUME SumTarget(b.method, b.total) # {}
      PROVE  Rebalanced(b.method, b.total, b.values) = b.values
  <2>1. SumTarget(b.method, b.total) = {Wrap(Sum(b.values))}
      BY <1>1, <1>2 DEF SumTarget, Accepted
  <2>2. (CHOOSE t \in SumTarget(b.method, b.total) : TRUE) = Wrap(Sum(b.values))
      BY <2>1
  <2> DEFINE f == b.values
             s == Sum(f)
             hi == CHOOSE u \in DOMAIN f : \A v \in DOMAIN f : f[u] >= f[v]
  <2>3. Rebalanced(b.method, b.total, f) = f \/ Rebalanced(b.method, b.total, f)
                                                  = [f EXCEPT ![hi] = Wrap(@ + Wrap(s) - s)]
      BY <1>2, <2>2 DEF Rebalanced, RebalanceToTarget
  <2>4. s \in Int /\ (\A u \in DOMAIN f : f[u] \in Int /\ Size(f[u]) <= MaxInt)
        /\ f = [u \in DOMAIN f |-> f[u]]
      BY <1>1
  <2> HIDE DEF f, s, hi
  <2>5. hi \in DOMAIN f => Wrap(f[hi] + Wrap(s) - s) = f[hi]
      BY <2>4, WrapShift
  <2>6. [f EXCEPT ![hi] = Wrap(@ + Wrap(s) - s)] = f
      BY <2>4, <2>5
  <2> QED
      BY <2>3, <2>6 DEF f
<1> QED
    BY <1>2 DEF Rebalanced

\* Shares that add up are handed out as they are.
LEMMA DistributeNone ==
    ASSUME NEW S, IsFiniteSet(S), NEW n \in Nat \ {0}, Cardinality(S) = n,
           NEW order \in Bijection(1..n, S), Len(order) = n,
           NEW shares \in [S -> Int], NEW total \in Int, Wrap(total - Sum(shares)) = 0
    PROVE  DistributeRemainder(shares, total, order) = shares
<1>1. PICK place \in Bijection(S, 1..n) :
          DistributeRemainder(shares, total, order) = Handed(shares, 0, n, place)
    BY DistributedIs
<1>2. \A u \in S : place[u] \in 1..n
    BY <1>1 DEF Bijection, Injection
<1>3. ASSUME NEW i \in 1..n PROVE Extra(0, n, i) = 0
  <2>1. 0 \div n = 0 /\ 0 % n = 0 /\ ~ (i <= 0)
      OBVIOUS
  <2>2. Size(0) = 0 /\ Sign(0) = 1
      BY DEF Size, Sign
  <2> QED
      BY <2>1, <2>2 DEF Extra
<1>4. \A u \in S : shares[u] + Extra(0, n, place[u]) = shares[u]
    BY <1>2, <1>3
<1> QED
    BY <1>1, <1>4 DEF Handed

\* What the form of an expense shows when it is opened again and posted.
Reopens(b, perm, payload) ==
    Posted(PrefillEdit(Users, b.method, b.total, b.payer, Rows(b, perm), payload), "USD")

\* The rows a form leaves when it is saved.
Saves(b, form, order) ==
    Compute(form.method, b.total, b.payer, form.values, FormLines(DOMAIN form.values), order)

\* The recorded inputs come back as they were typed.
LEMMA StoredComesBack ==
    ASSUME NEW b, Recorded(b), NEW perm
    PROVE  /\ Decodes(EncodeInputs(b.method, b.values), b.method)
           /\ Reopens(b, perm, EncodeInputs(b.method, b.values))
                 = [method |-> b.method, values |-> b.values]
           /\ Saves(b, Reopens(b, perm, EncodeInputs(b.method, b.values)), perm) = Rows(b, perm)
<1> DEFINE S == DOMAIN b.values
           payload == EncodeInputs(b.method, b.values)
           shown == PrefillEdit(Users, b.method, b.total, b.payer, Rows(b, perm), payload)
           form == [method |-> b.method, values |-> b.values]
<1>1. /\ S \subseteq Users /\ S # {} /\ b.method \in UserSelectable
      /\ b.values = [u \in S |-> b.values[u]]
      /\ \A u \in S : /\ b.values[u] \in Int /\ Size(b.values[u]) <= MaxInt
                      /\ b.method = "EQUAL" => b.values[u] = 0
  <2>1. b \in BillForms /\ Accepted(b.method, b.total, b.values)
      BY DEF Recorded
  <2>2. b.method \in UserSelectable /\ S \subseteq Users /\ \A u \in S : b.values[u] \in Int
      BY <2>1, FormType
  <2>3. S # {}
      BY <2>1 DEF Accepted
  <2> QED
      BY <2>1, <2>2, <2>3, TypedFits
<1>2. payload.method = b.method /\ payload.values = b.values
    BY DEF EncodeInputs
<1>3. Decodes(payload, b.method)
    BY <1>1, <1>2 DEF Decodes
<1>4. PrefillStored(Users, b.method, b.total, b.values) = b.values
  <2>1. Users \cap S = S
      BY <1>1
  <2>2. [u \in Users \cap S |-> b.values[u]] = b.values
      BY <1>1, <2>1
  <2> QED
      BY <2>2, RebalancedSame DEF PrefillStored
<1> HIDE DEF payload
<1>5. shown = form
    BY <1>2, <1>3, <1>4 DEF PrefillEdit
<1>6. Posted(form, "USD") = form
    BY <1>1, PostedIs
<1>7. Reopens(b, perm, payload) = form
    BY <1>5, <1>6 DEF Reopens
<1>8. Saves(b, form, perm) = Rows(b, perm)
    BY DEF Saves, Rows
<1> QED
    BY <1>3, <1>7, <1>8 DEF payload

\* A generated expense is split as the one it is made of.
LEMMA GeneratedAgain ==
    ASSUME NEW b, Recorded(b), NEW rows, DOMAIN rows = DOMAIN b.values \cup {b.payer}, NEW perm
    PROVE  GenerateOne(b.method, b.total, b.payer, rows, EncodeInputs(b.method, b.values), perm)
              = Rows(b, perm)
<1> DEFINE S == DOMAIN b.values
           payload == EncodeInputs(b.method, b.values)
           people == (DOMAIN rows) \cap DOMAIN payload.values
<1>1. /\ Accepted(b.method, b.total, b.values) /\ b.values = [u \in S |-> b.values[u]]
    BY TypedFits DEF Recorded
<1>2. payload.values = b.values
    BY DEF EncodeInputs
<1>3. Decodes(payload, b.method)
    BY StoredComesBack
<1> HIDE DEF payload
<1>4. people = S
    BY <1>2
<1>5. [u \in people |-> payload.values[u]] = b.values
    BY <1>1, <1>2, <1>4
<1>6. TemplateLines(people, b.payer) = FormLines(S)
    BY <1>4 DEF TemplateLines
<1> HIDE DEF S, people
<1>7. GenerateOne(b.method, b.total, b.payer, rows, payload, perm)
          = Compute(b.method, b.total, b.payer, b.values, FormLines(S), perm)
    BY <1>1, <1>3, <1>5, <1>6 DEF GenerateOne, people
<1> QED
    BY <1>7 DEF Rows, S, payload

LEMMA RowsAre ==
    ASSUME NEW b, Recorded(b), NEW perm, SharesOf(b, perm) \in [DOMAIN b.values -> Int]
    PROVE  /\ DOMAIN Rows(b, perm) = DOMAIN b.values \cup {b.payer}
           /\ Rows(b, perm) = Finalize(b.total, b.payer, SharesOf(b, perm))
           /\ \A u \in DOMAIN Rows(b, perm) :
                 (IF u = b.payer THEN b.total - Rows(b, perm)[u] ELSE - Rows(b, perm)[u])
                     = IF u \in DOMAIN b.values THEN SharesOf(b, perm)[u] ELSE 0
<1> DEFINE S == DOMAIN b.values
           f == SharesOf(b, perm)
           total == b.total
           payer == b.payer
           rows == Finalize(total, payer, f)
<1>1. Rows(b, perm) = rows
    BY DEF Rows, Compute, SharesOf
<1>2. DOMAIN f = S /\ (\A u \in S : f[u] \in Int) /\ total \in Int
    BY RecordedIs
<1> HIDE DEF f, S, total, payer
<1>3. DOMAIN rows = S \cup {payer}
    BY <1>2 DEF Finalize
<1>4. \A u \in S \cup {payer} :
          rows[u] = IF u # payer THEN - f[u] ELSE total - (IF payer \in S THEN f[payer] ELSE 0)
    BY <1>2 DEF Finalize
<1> HIDE DEF rows
<1>5. ASSUME NEW u \in DOMAIN rows
      PROVE  (IF u = payer THEN total - rows[u] ELSE - rows[u]) = IF u \in S THEN f[u] ELSE 0
  <2>1. CASE u = payer /\ payer \in S
    <3>1. rows[u] = total - f[u] /\ f[u] \in Int
        BY <1>2, <1>3, <1>4, <2>1
    <3> QED
        BY <1>2, <2>1, <3>1
  <2>2. CASE u = payer /\ payer \notin S
    <3>1. rows[u] = total - 0
        BY <1>3, <1>4, <2>2
    <3> QED
        BY <1>2, <2>2, <3>1
  <2>3. CASE u # payer
    <3>1. u \in S /\ rows[u] = - f[u] /\ f[u] \in Int
        BY <1>2, <1>3, <1>4, <2>3
    <3> QED
        BY <2>3, <3>1
  <2> QED
      BY <2>1, <2>2, <2>3
<1> QED
    BY <1>1, <1>3, <1>5 DEF f, S, rows, total, payer

OrderOf(S, perm) == [i \in 1..Len(FormLines(S)) |-> FormLines(S)[perm[i]]]

LEMMA OrderIs ==
    ASSUME NEW S, IsFiniteSet(S), S \subseteq Int, NEW n \in Nat, Cardinality(S) = n,
           NEW perm \in Orders(n)
    PROVE  OrderOf(S, perm) \in Bijection(1..n, S) /\ Len(OrderOf(S, perm)) = n
BY SeededIs DEF OrderOf

\* A payer without a share is shown with none.
Widened(shares, payer) ==
    [u \in DOMAIN shares \cup {payer} |-> IF u \in DOMAIN shares THEN shares[u] ELSE 0]

\* A payer without a share adds nothing.
LEMMA WidenedSum ==
    ASSUME NEW S, IsFiniteSet(S), NEW payer, NEW shares \in [S -> Int]
    PROVE  /\ Widened(shares, payer) \in [S \cup {payer} -> Int]
           /\ \A u \in S \cup {payer} :
                 Widened(shares, payer)[u] = IF u \in S THEN shares[u] ELSE 0
           /\ IsFiniteSet(S \cup {payer})
           /\ SumFunctionOnSet(Widened(shares, payer), S \cup {payer})
                 = SumFunctionOnSet(shares, S)
<1> DEFINE T == S \cup {payer}
           g == Widened(shares, payer)
<1>1. IsFiniteSet(T)
    BY FS_AddElement
<1>2. g \in [T -> Int] /\ \A u \in T : g[u] = IF u \in S THEN shares[u] ELSE 0
    BY DEF Widened
<1> HIDE DEF g
<1>3. SumFunctionOnSet(g, S) = SumFunctionOnSet(shares, S)
    BY <1>2, SumEqual
<1>4. CASE payer \in S
  <2>1. T = S
      BY <1>4
  <2> QED
      BY <1>1, <1>2, <1>3, <2>1 DEF g
<1>5. CASE payer \notin S
  <2>1. payer \in T /\ g[payer] = 0 /\ T \ {payer} = S /\ \A u \in T : g[u] \in Int
      BY <1>2, <1>5
  <2>2. SumFunctionOnSet(g, T) = g[payer] + SumFunctionOnSet(g, S)
      BY <1>1, <2>1, SumRemove
  <2>3. SumFunctionOnSet(g, S) \in Int
      BY <1>2, SumInt
  <2> QED
      BY <1>1, <1>2, <1>3, <2>1, <2>2, <2>3 DEF g
<1> QED
    BY <1>4, <1>5

\* Amounts that were worked out from the rows split as they are.
LEMMA DerivedSplits ==
    ASSUME NEW S \in SUBSET Users, NEW payer \in Users, S # {}, NEW total \in Int,
           NEW shares \in [S -> Int], Wrap(total - SumFunctionOnSet(shares, S)) = 0,
           NEW perm \in Orders(Cardinality(S \cup {payer}))
    PROVE  Compute("EXACT", total, payer, Widened(shares, payer), FormLines(S \cup {payer}), perm)
              = Finalize(total, payer, shares)
<1> DEFINE T == S \cup {payer}
           n == Cardinality(T)
           g == Widened(shares, payer)
           order == OrderOf(T, perm)
<1>1. IsFiniteSet(T) /\ IsFiniteSet(S) /\ T \subseteq Int /\ T # {}
  <2>1. T \subseteq Users /\ IsFiniteSet(Users) /\ Users \subseteq Int
      BY BalanceAssumption
  <2> QED
      BY <2>1, FS_Subset
<1>2. n \in Nat \ {0}
    BY <1>1, FS_CardinalityType, FS_EmptySet
<1>3. order \in Bijection(1..n, T) /\ Len(order) = n
  <2>1. IsFiniteSet(T) /\ T \subseteq Int /\ n \in Nat /\ Cardinality(T) = n
        /\ perm \in Orders(n)
      BY <1>1, <1>2
  <2> HIDE DEF n, T
  <2> QED
      BY <2>1, OrderIs
<1>4. g \in [T -> Int] /\ \A u \in T : g[u] = IF u \in S THEN shares[u] ELSE 0
    BY DEF Widened
<1> HIDE DEF g
<1>5. BaseShares("EXACT", total, g) = g
    BY <1>4 DEF BaseShares, BaseShare
<1>6. Sum(g) = SumFunctionOnSet(shares, S)
  <2>1. Sum(g) = SumFunctionOnSet(g, T)
      BY <1>1, <1>4, SumType
  <2>2. SumFunctionOnSet(g, T) = SumFunctionOnSet(shares, S)
      BY <1>1, WidenedSum DEF g
  <2> QED
      BY <2>1, <2>2
<1>7. DistributeRemainder(g, total, order) = g
  <2>1. Wrap(total - Sum(g)) = 0 /\ n = Cardinality(T) /\ g \in [T -> Int]
      BY <1>4, <1>6
  <2> HIDE DEF order, n, T
  <2>2. \A R : IsFiniteSet(R) /\ Cardinality(R) = n =>
            \A o \in Bijection(1..n, R) : Len(o) = n =>
            \A f \in [R -> Int] : Wrap(total - Sum(f)) = 0 =>
                DistributeRemainder(f, total, o) = f
      BY <1>2, DistributeNone
  <2> QED
      BY <1>1, <1>3, <2>1, <2>2
<1>8. Compute("EXACT", total, payer, g, FormLines(T), perm) = Finalize(total, payer, g)
    BY <1>5, <1>7 DEF Compute, Shares, OrderOf
<1>9. Finalize(total, payer, g) = Finalize(total, payer, shares)
  <2>1. DOMAIN g = T /\ DOMAIN shares = S /\ T \cup {payer} = S \cup {payer}
      BY <1>4
  <2>2. \A u \in T : u # payer => g[u] = shares[u]
      BY <1>4
  <2>3. g[payer] = IF payer \in S THEN shares[payer] ELSE 0
      BY <1>4
  <2> HIDE DEF T
  <2> QED
      BY <1>4, <2>1, <2>2, <2>3 DEF Finalize, T
<1> QED
    BY <1>8, <1>9 DEF g

\* Worked out from the rows, a form shows everybody their share.
LEMMA DerivedShown ==
    ASSUME NEW b, Recorded(b), NEW perm, b.method \in {"EXACT", "SHARE", "ADJUSTMENT"},
           SharesOf(b, perm) \in [DOMAIN b.values -> Int],
           \A u \in DOMAIN b.values : Size(SharesOf(b, perm)[u]) <= MaxInt
    PROVE  Reopens(b, perm, NoInputs)
              = [method |-> DerivedMethod(b.method),
                 values |-> Widened(SharesOf(b, perm), b.payer)]
<1> DEFINE S == DOMAIN b.values
           T == S \cup {b.payer}
           m == DerivedMethod(b.method)
           rows == Rows(b, perm)
           shares == SharesOf(b, perm)
           g == Widened(shares, b.payer)
           form == [method |-> m, values |-> g]
<1>1. /\ IsFiniteSet(S) /\ S \subseteq Users /\ b.payer \in Users /\ MaxInt \in Nat
      /\ b.method \in UserSelectable
    BY RecordedIs, SplitAssumption
<1>2. ~ Decodes(NoInputs, b.method)
    BY DEF Decodes, NoInputs
<1>3. m \in UserSelectable /\ m # "EQUAL"
    BY <1>1 DEF DerivedMethod, UserSelectable
<1>4. /\ DOMAIN rows = T
      /\ \A u \in T : (IF u = b.payer THEN b.total - rows[u] ELSE - rows[u]) = g[u]
  <2>1. /\ DOMAIN rows = T
        /\ \A u \in DOMAIN rows : (IF u = b.payer THEN b.total - rows[u] ELSE - rows[u])
                                      = IF u \in S THEN shares[u] ELSE 0
      BY RowsAre
  <2> QED
      BY <2>1 DEF Widened
<1>5. \A u \in T : g[u] \in Int /\ Size(g[u]) <= MaxInt
  <2>1. Size(0) = 0
      BY DEF Size
  <2> HIDE DEF shares
  <2> QED
      BY <1>1, <2>1 DEF shares, Widened
<1>6. g = [u \in DOMAIN g |-> g[u]] /\ DOMAIN g = T
    BY DEF Widened
<1> HIDE DEF rows, shares, g
<1>7. PrefillDerived(Users, b.method, b.total, b.payer, rows) = g
  <2> DEFINE share(u) == IF u = b.payer THEN b.total - rows[u] ELSE - rows[u]
             shown == {u \in Users \cap DOMAIN rows :
                          ~(b.method = "EQUAL" /\ u = b.payer /\ share(u) = 0)}
  <2>1. shown = T
      BY <1>1, <1>4
  <2>2. PrefillDerived(Users, b.method, b.total, b.payer, rows) = [u \in shown |-> share(u)]
      BY DEF PrefillDerived
  <2>3. [u \in T |-> share(u)] = g
      BY <1>4, <1>6
  <2> HIDE DEF share, shown
  <2> QED
      BY <2>1, <2>2, <2>3
<1>8. PrefillEdit(Users, b.method, b.total, b.payer, rows, NoInputs) = form
    BY <1>2, <1>7 DEF PrefillEdit
<1> HIDE DEF m
<1>9. Posted(form, "USD") = form
    BY <1>3, <1>5, <1>6, PostedIs
<1> QED
    BY <1>8, <1>9 DEF Reopens, rows, g, shares, m

\* A split whose amounts add up as 64-bit numbers comes back from its rows.
LEMMA DerivedComesBack ==
    ASSUME NEW b, Recorded(b), NEW perm, b.method \in {"EXACT", "ADJUSTMENT"},
           SharesOf(b, perm) \in [DOMAIN b.values -> Int],
           \A u \in DOMAIN b.values : Size(SharesOf(b, perm)[u]) <= MaxInt,
           Wrap(b.total - SumFunctionOnSet(SharesOf(b, perm), DOMAIN b.values)) = 0
    PROVE  LET form == Reopens(b, perm, NoInputs)
           IN  Saves(b, form, AsListed(form)) = Rows(b, perm)
<1> DEFINE S == DOMAIN b.values
           T == S \cup {b.payer}
           rows == Rows(b, perm)
           shares == SharesOf(b, perm)
           g == Widened(shares, b.payer)
           form == [method |-> "EXACT", values |-> g]
<1>1. /\ IsFiniteSet(S) /\ S \subseteq Users /\ S # {} /\ b.payer \in Users /\ b.total \in Int
  <2>1. S # {}
      BY RecordedIs DEF Accepted
  <2> QED
      BY <2>1, RecordedIs
<1>2. Reopens(b, perm, NoInputs) = form
    BY DerivedShown DEF DerivedMethod
<1>3. rows = Finalize(b.total, b.payer, shares)
    BY RowsAre
<1>4. DOMAIN g = T
    BY DEF Widened
<1> DEFINE order == AsListed(form)
<1> HIDE DEF rows, shares, g
<1>5. order \in Orders(Cardinality(T))
  <2> DEFINE n == Cardinality(T)
  <2>1. order = [i \in 1..n |-> i]
      BY <1>4 DEF AsListed
  <2> HIDE DEF n, order
  <2> QED
      BY <2>1 DEF Orders, n
<1>6. Compute("EXACT", b.total, b.payer, g, FormLines(T), order)
          = Finalize(b.total, b.payer, shares)
  <2> DEFINE payer == b.payer
             total == b.total
  <2>1. /\ S \in SUBSET Users /\ S # {} /\ payer \in Users /\ total \in Int
        /\ shares \in [S -> Int] /\ Wrap(total - SumFunctionOnSet(shares, S)) = 0
        /\ order \in Orders(Cardinality(S \cup {payer}))
      BY <1>1, <1>5 DEF shares
  <2>2. g = Widened(shares, payer)
      BY DEF g
  <2> HIDE DEF order, S, payer, total
  <2>3. Compute("EXACT", total, payer, g, FormLines(S \cup {payer}), order)
            = Finalize(total, payer, shares)
      BY <2>1, <2>2, DerivedSplits
  <2> QED
      BY <2>3 DEF payer, total
<1>7. Saves(b, form, order) = rows
    BY <1>3, <1>4, <1>6 DEF Saves
<1> QED
    BY <1>2, <1>7 DEF rows

\* An equal split shows who took part, as long as the payer did or paid for others.
LEMMA EqualComesBack ==
    ASSUME NEW b, Recorded(b), NEW perm, b.method = "EQUAL",
           SharesOf(b, perm) \in [DOMAIN b.values -> Int],
           b.payer \notin DOMAIN b.values \/ Rows(b, perm)[b.payer] # b.total
    PROVE  Saves(b, Reopens(b, perm, NoInputs), perm) = Rows(b, perm)
<1> DEFINE S == DOMAIN b.values
           T == S \cup {b.payer}
           rows == Rows(b, perm)
           shares == SharesOf(b, perm)
           share(u) == IF u = b.payer THEN b.total - rows[u] ELSE - rows[u]
           shown == {u \in Users \cap DOMAIN rows : ~(u = b.payer /\ share(u) = 0)}
           form == [method |-> "EQUAL", values |-> b.values]
<1>1. /\ S \subseteq Users /\ b.payer \in Users /\ b.total \in Int
      /\ b.values = [u \in S |-> b.values[u]]
      /\ \A u \in S : b.values[u] = 0 /\ Size(b.values[u]) <= MaxInt
    BY RecordedIs, TypedFits
<1>2. ~ Decodes(NoInputs, b.method)
    BY DEF Decodes, NoInputs
<1>3. DerivedMethod(b.method) = "EQUAL"
    BY DEF DerivedMethod
<1>4. /\ DOMAIN rows = T /\ rows = Finalize(b.total, b.payer, shares)
      /\ \A u \in T : share(u) = IF u \in S THEN shares[u] ELSE 0
    BY RowsAre
<1>5. b.payer \in S => share(b.payer) # 0
  <2> SUFFICES ASSUME b.payer \in S PROVE share(b.payer) # 0
      OBVIOUS
  <2>1. rows[b.payer] # b.total
      OBVIOUS
  <2>2. rows[b.payer] = b.total - shares[b.payer] /\ shares[b.payer] \in Int
      BY <1>4 DEF Finalize
  <2>3. share(b.payer) = b.total - rows[b.payer]
      OBVIOUS
  <2> HIDE DEF rows, shares, share
  <2> QED
      BY <1>1, <2>1, <2>2, <2>3
<1> HIDE DEF rows, shares, share
<1>6. shown = S
    BY <1>1, <1>4, <1>5
<1>7. PrefillDerived(Users, b.method, b.total, b.payer, rows) = [u \in shown |-> 0]
    BY DEF PrefillDerived, share
<1>8. [u \in S |-> 0] = b.values
    BY <1>1
<1> HIDE DEF shown
<1>9. PrefillEdit(Users, b.method, b.total, b.payer, rows, NoInputs) = form
    BY <1>2, <1>3, <1>6, <1>7, <1>8 DEF PrefillEdit
<1>10. Posted(form, "USD") = form
  <2>1. "EQUAL" \in UserSelectable
      BY DEF UserSelectable
  <2> QED
      BY <1>1, <2>1, PostedIs
<1>11. Reopens(b, perm, NoInputs) = form
    BY <1>9, <1>10 DEF Reopens, rows
<1>12. Saves(b, form, perm) = rows
    BY DEF Saves, rows, Rows
<1> QED
    BY <1>11, <1>12 DEF rows

\* The shares of any form are whole numbers.
LEMMA SharesType ==
    ASSUME NEW b, Recorded(b), NEW perm \in Orders(Cardinality(DOMAIN b.values))
    PROVE  SharesOf(b, perm) \in [DOMAIN b.values -> Int]
<1> DEFINE S == DOMAIN b.values
           n == Cardinality(S)
           base == BaseShares(b.method, b.total, b.values)
           order == OrderOf(S, perm)
<1>1. /\ IsFiniteSet(S) /\ S \subseteq Int /\ n \in Nat \ {0} /\ b.total \in Int
      /\ base \in [S -> Int]
    BY RecordedIs, BalanceAssumption
<1>2. Len(order) = n
    BY <1>1, OrderIs
<1>3. DistributeRemainder(base, b.total, order) \in [S -> Int]
  <2> HIDE DEF base, order, n, S
  <2> QED
      BY <1>1, <1>2, DistributedType
<1> QED
    BY <1>3 DEF SharesOf, Shares, OrderOf

\* Exact amounts are shared as they were typed, however large.
LEMMA ExactShares ==
    ASSUME NEW b, Recorded(b), b.method = "EXACT", NEW perm \in Orders(Cardinality(DOMAIN b.values))
    PROVE  /\ SharesOf(b, perm) = b.values
           /\ Wrap(b.total - SumFunctionOnSet(b.values, DOMAIN b.values)) = 0
<1> DEFINE S == DOMAIN b.values
           n == Cardinality(S)
           f == b.values
           total == b.total
           order == OrderOf(S, perm)
<1>1. /\ IsFiniteSet(S) /\ S \subseteq Int /\ n \in Nat \ {0} /\ total \in Int
      /\ Sum(f) = SumFunctionOnSet(f, S) /\ Sum(f) \in Int
      /\ \A u \in S : f[u] \in Int
      /\ Accepted(b.method, total, f)
    BY RecordedIs, BalanceAssumption
<1>2. order \in Bijection(1..n, S) /\ Len(order) = n
    BY <1>1, OrderIs
<1>3. f = [u \in S |-> f[u]]
    BY TypedFits DEF Recorded
<1>4. BaseShares(b.method, total, f) = f
    BY <1>3 DEF BaseShares, BaseShare
<1>5. Wrap(total - Sum(f)) = 0
  <2>1. total = Wrap(Sum(f))
      BY <1>1 DEF Accepted
  <2>2. Size(0) <= MaxInt
      BY SplitAssumption DEF Size
  <2> DEFINE s == Sum(f)
  <2> HIDE DEF s
  <2>3. s \in Int
      BY <1>1 DEF s
  <2>4. Wrap(0 + Wrap(s) - s) = 0
      BY <2>2, <2>3, WrapShift
  <2>5. 0 + Wrap(s) - s = Wrap(s) - s
      BY <2>3, WrapType
  <2> QED
      BY <2>1, <2>4, <2>5 DEF s
<1>6. f \in [S -> Int] /\ n = Cardinality(S)
    BY <1>1, <1>3
<1> HIDE DEF S, n, f, total, order
<1>7. DistributeRemainder(f, total, order) = f
  <2>1. \A R : IsFiniteSet(R) /\ Cardinality(R) = n =>
            \A o \in Bijection(1..n, R) : Len(o) = n =>
            \A h \in [R -> Int] : Wrap(total - Sum(h)) = 0 =>
                DistributeRemainder(h, total, o) = h
      BY <1>1, DistributeNone
  <2> QED
      BY <1>1, <1>2, <1>5, <1>6, <2>1
<1> QED
    BY <1>1, <1>4, <1>5, <1>7 DEF SharesOf, Shares, OrderOf, f, S, total, order

\* UntouchedEditMovesNothing: a form that is opened and saved again as it is moves
\* no money (httpapp/handlers_expenses.go:285 and 347), for any number of people,
\* any numbers typed and any seeded order, be it filled from what was recorded,
\* from the rows, or made again by a recurrence.  Only an adjustment that is
\* shown as exact amounts needs its sums to stay within int64.
THEOREM ReSavingMovesNothing ==
    Spec => []((bill # NoBill /\ bill.method = "ADJUSTMENT" => Fits(bill) /\ ShownFits(bill))
                   => UntouchedEditMovesNothing)
<1>1. ASSUME BalanceInv, IsRecorded, NEW perm \in AllOrders,
             bill.method = "ADJUSTMENT" => Fits(bill) /\ ShownFits(bill)
      PROVE  LET b        == bill
                 rows     == Rows(b, perm)
                 payload  == EncodeInputs(b.method, b.values)
                 stored   == Reopens(b, perm, payload)
                 derived  == Reopens(b, perm, NoInputs)
             IN  /\ stored.values = b.values
                 /\ Saves(b, stored, perm) = rows
                 /\ GenerateOne(b.method, b.total, b.payer, Rows(b, AsListed(b)), payload, perm)
                       = rows
                 /\ b.method \in {"EXACT", "ADJUSTMENT"}
                       => Saves(b, derived, AsListed(derived)) = rows
                 /\ b.method = "EQUAL" /\ (b.payer \notin DOMAIN b.values \/ rows[b.payer] # b.total)
                       => Saves(b, derived, perm) = rows
  <2> DEFINE S == DOMAIN bill.values
             payload == EncodeInputs(bill.method, bill.values)
             derived == Reopens(bill, perm, NoInputs)
  <2>1. Recorded(bill) /\ perm \in Orders(Cardinality(S))
      BY <1>1 DEF IsRecorded, BalanceInv, Recorded, AllOrders
  <2>2. SharesOf(bill, perm) \in [S -> Int]
      BY <2>1, SharesType
  <2>3. /\ Reopens(bill, perm, payload).values = bill.values
        /\ Saves(bill, Reopens(bill, perm, payload), perm) = Rows(bill, perm)
    <3>1. Reopens(bill, perm, payload) = [method |-> bill.method, values |-> bill.values]
        BY <2>1, StoredComesBack
    <3>2. Saves(bill, Reopens(bill, perm, payload), perm) = Rows(bill, perm)
        BY <2>1, StoredComesBack
    <3> QED
        BY <3>1, <3>2
  <2>4. AsListed(bill) \in Orders(Cardinality(S))
    <3> DEFINE n == Cardinality(S)
    <3>1. AsListed(bill) = [i \in 1..n |-> i]
        BY DEF AsListed
    <3> HIDE DEF n
    <3> QED
        BY <3>1 DEF Orders, n
  <2>5. GenerateOne(bill.method, bill.total, bill.payer, Rows(bill, AsListed(bill)), payload, perm)
            = Rows(bill, perm)
    <3>1. SharesOf(bill, AsListed(bill)) \in [S -> Int]
        BY <2>1, <2>4, SharesType
    <3>2. DOMAIN Rows(bill, AsListed(bill)) = S \cup {bill.payer}
        BY <2>1, <3>1, RowsAre
    <3> QED
        BY <2>1, <3>2, GeneratedAgain
  <2>6. ASSUME bill.method \in {"EXACT", "ADJUSTMENT"}
        PROVE  Saves(bill, derived, AsListed(derived)) = Rows(bill, perm)
    <3>1. /\ \A u \in S : Size(SharesOf(bill, perm)[u]) <= MaxInt
          /\ Wrap(bill.total - SumFunctionOnSet(SharesOf(bill, perm), S)) = 0
      <4>1. CASE bill.method = "EXACT"
        <5>1. \A u \in S : Size(bill.values[u]) <= MaxInt
            BY <2>1, TypedFits DEF Recorded
        <5>2. /\ SharesOf(bill, perm) = bill.values
              /\ Wrap(bill.total - SumFunctionOnSet(bill.values, S)) = 0
            BY <2>1, <4>1, ExactShares
        <5> QED
            BY <5>1, <5>2
      <4>2. CASE bill.method = "ADJUSTMENT"
        <5>1. Fits(bill) /\ ShownFits(bill)
            BY <1>1, <4>2
        <5>2. SumFunctionOnSet(SharesOf(bill, perm), S) = bill.total
            BY <2>1, <5>1, SharesAddUp
        <5>3. \A u \in S : Size(SharesOf(bill, perm)[u]) <= MaxInt
            BY <2>1, <5>1 DEF ShownFits, SharesOf
        <5>4. bill.total - bill.total = 0 /\ Size(0) <= MaxInt
            BY <2>1, RecordedIs, SplitAssumption DEF Size
        <5>5. Wrap(0) = 0
            BY <5>4, WrapFits
        <5> QED
            BY <5>2, <5>3, <5>4, <5>5
      <4> QED
          BY <2>6, <4>1, <4>2
    <3> QED
        BY <2>1, <2>2, <2>6, <3>1, DerivedComesBack
  <2>7. bill.method = "EQUAL" /\ (bill.payer \notin S \/ Rows(bill, perm)[bill.payer] # bill.total)
            => Saves(bill, derived, perm) = Rows(bill, perm)
      BY <2>1, <2>2, EqualComesBack
  <2> QED
      BY <2>3, <2>5, <2>6, <2>7
<1>2. BalanceInv /\ (bill # NoBill /\ bill.method = "ADJUSTMENT" => Fits(bill) /\ ShownFits(bill))
          => UntouchedEditMovesNothing
  <2> SUFFICES ASSUME BalanceInv, IsRecorded,
                      bill.method = "ADJUSTMENT" => Fits(bill) /\ ShownFits(bill)
               PROVE  UntouchedEditMovesNothing
      BY DEF UntouchedEditMovesNothing, IsRecorded
  <2> QED
      BY <1>1 DEF UntouchedEditMovesNothing, Reopens, Saves
<1> QED
    BY <1>2, BalanceInvariant, PTL

-------------------------------------------------------------------------------
(* What the form shows is accepted again.                                  *)

LEMMA LargestOf ==
    ASSUME NEW R, IsFiniteSet(R), R # {}, NEW v \in [R -> Int]
    PROVE  \E u \in R : \A x \in R : v[u] >= v[x]
<1> DEFINE all == {v[u] : u \in R}
<1>1. v \in Surjection(R, all)
    BY DEF Surjection
<1>2. IsFiniteSet(all)
    BY <1>1, FS_Surjection
<1>3. all \in SUBSET Int /\ all # {}
    OBVIOUS
<1> HIDE DEF all
<1>4. Max(all) \in all /\ \A y \in all : Max(all) >= y
    BY <1>2, <1>3, MaxIs
<1> QED
    BY <1>4 DEF all

\* Closing the gap on the largest entry makes the values add up.
LEMMA RebalancedAdds ==
    ASSUME NEW R, IsFiniteSet(R), R # {}, NEW v \in [R -> Int], NEW t \in Int,
           \A u \in R : (\A x \in R : v[u] >= v[x]) =>
               Size(v[u] + t - SumFunctionOnSet(v, R)) <= MaxInt
    PROVE  \E hi \in R :
               /\ \A x \in R : v[hi] >= v[x]
               /\ RebalanceToTarget(v, t)
                     = [v EXCEPT ![hi] = v[hi] + t - SumFunctionOnSet(v, R)]
               /\ SumFunctionOnSet(RebalanceToTarget(v, t), R) = t
<1> DEFINE hi == CHOOSE u \in DOMAIN v : \A x \in DOMAIN v : v[u] >= v[x]
           sum == SumFunctionOnSet(v, R)
           to == v[hi] + t - sum
           g == [v EXCEPT ![hi] = to]
<1>1. DOMAIN v = R /\ Sum(v) = sum /\ sum \in Int
    BY SumType
<1>2. hi \in R /\ \A x \in R : v[hi] >= v[x]
  <2>1. \E u \in R : \A x \in R : v[u] >= v[x]
      BY LargestOf
  <2> QED
      BY <1>1, <2>1
<1>3. RebalanceToTarget(v, t) = [v EXCEPT ![hi] = Wrap(v[hi] + t - sum)]
    BY <1>1 DEF RebalanceToTarget
<1> HIDE DEF hi, sum
<1>4. to \in Int /\ Wrap(to) = to
  <2>1. to \in Int
      BY <1>1, <1>2
  <2>2. Size(to) <= MaxInt
      BY <1>2 DEF sum
  <2> HIDE DEF to
  <2> QED
      BY <2>1, <2>2, WrapFits
<1>5. RebalanceToTarget(v, t) = g
    BY <1>3, <1>4
<1>6. SumFunctionOnSet(g, R) = t
  <2> DEFINE d == t - sum
  <2>1. d \in Int
      BY <1>1
  <2>2. \A y \in R : v[y] \in Int /\ g[y] = v[y] + (IF y = hi THEN d ELSE 0)
      BY <1>1, <1>2
  <2> DEFINE was == v
  <2>3. hi \in R /\ \A y \in R : was[y] \in Int /\ g[y] = was[y] + (IF y = hi THEN d ELSE 0)
      BY <1>2, <2>2
  <2> HIDE DEF d, g, was
  <2>4. SumFunctionOnSet(g, R) = SumFunctionOnSet(was, R) + d
      BY <2>1, <2>3, SumChange
  <2> QED
      BY <1>1, <2>1, <2>4 DEF d, sum, was
<1> HIDE DEF g
<1> QED
    BY <1>2, <1>5, <1>6 DEF g, sum

\* Of amounts that are not negative, some come to no more than all.
LEMMA PartOfSum ==
    ASSUME NEW S, IsFiniteSet(S), NEW R \in SUBSET S, NEW f, \A u \in S : f[u] \in Nat
    PROVE  /\ SumFunctionOnSet(f, S) \in Nat /\ SumFunctionOnSet(f, R) \in Nat
           /\ SumFunctionOnSet(f, R) <= SumFunctionOnSet(f, S)
           /\ \A u \in R : f[u] <= SumFunctionOnSet(f, R)
<1>1. IsFiniteSet(R) /\ IsFiniteSet(S \ R) /\ R \cap (S \ R) = {} /\ R \cup (S \ R) = S
    BY FS_Subset
<1>2. /\ SumFunctionOnSet(f, S) \in Nat /\ SumFunctionOnSet(f, R) \in Nat
      /\ SumFunctionOnSet(f, S \ R) \in Nat
    BY <1>1, SumNonnegative
<1>3. SumFunctionOnSet(f, R \cup (S \ R)) = SumFunctionOnSet(f, R) + SumFunctionOnSet(f, S \ R)
  <2>1. \A u \in R \cup (S \ R) : f[u] \in Int
      OBVIOUS
  <2> QED
      BY <1>1, <2>1, SumUnion
<1>4. ASSUME NEW u \in R PROVE f[u] <= SumFunctionOnSet(f, R)
  <2>1. IsFiniteSet(R \ {u}) /\ \A x \in R \ {u} : f[x] \in Nat
      BY <1>1, FS_RemoveElement
  <2>2. SumFunctionOnSet(f, R \ {u}) \in Nat
      BY <2>1, SumNonnegative
  <2>3. SumFunctionOnSet(f, R) = f[u] + SumFunctionOnSet(f, R \ {u})
    <3>1. \A x \in R : f[x] \in Int
        OBVIOUS
    <3> QED
        BY <1>1, <3>1, SumRemove
  <2>4. f[u] \in Nat
      OBVIOUS
  <2> QED
      BY <2>2, <2>3, <2>4
<1> DEFINE all == SumFunctionOnSet(f, S)
           some == SumFunctionOnSet(f, R)
           others == SumFunctionOnSet(f, S \ R)
<1>5. all \in Nat /\ some \in Nat /\ others \in Nat /\ all = some + others
    BY <1>1, <1>2, <1>3
<1> HIDE DEF all, some, others
<1>6. some <= all
    BY <1>5
<1> QED
    BY <1>4, <1>5, <1>6 DEF all, some

\* A sum is no larger than what is added up.
LEMMA SumSize ==
    ASSUME NEW S, IsFiniteSet(S), NEW f, NEW s, \A u \in S : f[u] \in Int /\ s[u] = Size(f[u])
    PROVE  /\ SumFunctionOnSet(f, S) \in Int /\ SumFunctionOnSet(s, S) \in Nat
           /\ Size(SumFunctionOnSet(f, S)) <= SumFunctionOnSet(s, S)
<1> DEFINE over == [u \in S |-> s[u] - f[u]]
           under == [u \in S |-> s[u] + f[u]]
<1>1. \A u \in S : /\ f[u] \in Int /\ s[u] \in Nat
                   /\ over[u] \in Nat /\ under[u] \in Nat
                   /\ s[u] = f[u] + over[u] /\ under[u] = s[u] + f[u]
    BY DEF Size
<1> HIDE DEF over, under
<1>2. /\ SumFunctionOnSet(over, S) \in Nat /\ SumFunctionOnSet(under, S) \in Nat
      /\ SumFunctionOnSet(s, S) \in Nat
    BY <1>1, SumNonnegative
<1>3. SumFunctionOnSet(f, S) \in Int
    BY SumInt
<1>4. SumFunctionOnSet(s, S) = SumFunctionOnSet(f, S) + SumFunctionOnSet(over, S)
    BY <1>1, SumPlus
<1>5. SumFunctionOnSet(under, S) = SumFunctionOnSet(s, S) + SumFunctionOnSet(f, S)
    BY <1>1, SumPlus
<1> QED
    BY <1>2, <1>3, <1>4, <1>5 DEF Size

LEMMA QuotNatural ==
    ASSUME NEW a \in Nat, NEW b \in Nat \ {0}
    PROVE  Quot(a, b) \in Nat /\ b * Quot(a, b) <= a
<1>1. Sign(a) = 1 /\ Sign(b) = 1 /\ Size(a) = a /\ Size(b) = b
    BY DEF Sign, Size
<1>2. a \div b \in Nat /\ b * (a \div b) <= a
  <2>1. a \div b \in Int /\ a % b \in 0..(b - 1) /\ a = b * (a \div b) + (a % b)
      BY DivisionIs
  <2> DEFINE q == a \div b
             p == b * q
             r == a % b
  <2>2. q >= 0
      OBVIOUS
  <2>3. p \in Int
      BY <2>1
  <2>4. r \in Nat /\ a = p + r /\ q \in Int
      BY <2>1
  <2> HIDE DEF q, p, r
  <2> QED
      BY <2>2, <2>3, <2>4 DEF p, q
<1>3. Quot(a, b) = a \div b
  <2> DEFINE q == a \div b
  <2>1. Quot(a, b) = 1 * 1 * q
      BY <1>1 DEF Quot
  <2> HIDE DEF q
  <2> QED
      BY <1>2, <2>1 DEF q
<1> QED
    BY <1>2, <1>3

\* Parts that are rounded down come to no more than the whole.
LEMMA FloorsFit ==
    ASSUME NEW S, IsFiniteSet(S), NEW t \in Nat \ {0}, NEW c \in Nat,
           NEW f, \A u \in S : f[u] \in Nat, SumFunctionOnSet(f, S) = t,
           NEW q, \A u \in S : q[u] = Quot(f[u] * c, t)
    PROVE  /\ \A u \in S : q[u] \in Nat
           /\ SumFunctionOnSet(q, S) \in Nat /\ SumFunctionOnSet(q, S) <= c
<1> DEFINE due == [u \in S |-> c * f[u]]
           paid == [u \in S |-> t * q[u]]
           slack == [u \in S |-> due[u] - paid[u]]
           Q == SumFunctionOnSet(q, S)
<1>1. ASSUME NEW u \in S
      PROVE  /\ f[u] \in Int /\ q[u] \in Nat
             /\ due[u] \in Nat /\ due[u] = c * f[u]
             /\ paid[u] \in Nat /\ paid[u] = t * q[u]
             /\ slack[u] \in Nat /\ due[u] = paid[u] + slack[u]
  <2> DEFINE a == f[u] * c
  <2>1. f[u] \in Nat /\ a \in Nat /\ q[u] = Quot(a, t) /\ a = c * f[u]
      OBVIOUS
  <2> HIDE DEF a
  <2>2. q[u] \in Nat /\ t * q[u] <= a
      BY <2>1, QuotNatural
  <2>3. t * q[u] \in Nat
      BY <2>2
  <2>4. due[u] = a /\ paid[u] = t * q[u] /\ slack[u] = due[u] - paid[u]
      BY <2>1
  <2> HIDE DEF due, paid, slack
  <2> DEFINE p == t * q[u]
  <2> HIDE DEF p
  <2>5. p \in Nat /\ p <= a /\ due[u] = a /\ paid[u] = p /\ slack[u] = a - p
      BY <2>2, <2>3, <2>4 DEF p
  <2>6. slack[u] \in Nat /\ due[u] = paid[u] + slack[u] /\ due[u] \in Nat /\ paid[u] \in Nat
      BY <2>1, <2>5
  <2> QED
      BY <2>1, <2>2, <2>4, <2>6
<1> HIDE DEF due, paid, slack
<1>2. SumFunctionOnSet(due, S) = c * t
  <2>1. \A u \in S : f[u] \in Int /\ due[u] = c * f[u]
      BY <1>1
  <2>2. SumFunctionOnSet(due, S) = c * SumFunctionOnSet(f, S)
      BY <2>1, SumScaled
  <2> QED
      BY <2>2
<1>3. SumFunctionOnSet(paid, S) = t * Q
  <2>1. \A u \in S : q[u] \in Int /\ paid[u] = t * q[u]
      BY <1>1
  <2> QED
      BY <2>1, SumScaled
<1>4. SumFunctionOnSet(due, S) = SumFunctionOnSet(paid, S) + SumFunctionOnSet(slack, S)
  <2>1. \A u \in S : paid[u] \in Int /\ slack[u] \in Int /\ due[u] = paid[u] + slack[u]
      BY <1>1
  <2> QED
      BY <2>1, SumPlus
<1>5. SumFunctionOnSet(slack, S) \in Nat /\ Q \in Nat
    BY <1>1, SumNonnegative
<1> HIDE DEF Q
<1>6. ~ (Q > c)
  <2> SUFFICES ASSUME Q > c PROVE FALSE
      OBVIOUS
  <2>1. PICK d \in Nat : Q = c + 1 + d
    <3>1. Q - c - 1 \in Nat /\ Q = c + 1 + (Q - c - 1)
        BY <1>5
    <3> QED
        BY <3>1
  <2>2. t * Q = t * c + t + t * d /\ t * c \in Nat /\ t * d \in Nat /\ t * c = c * t
      BY <2>1
  <2> QED
      BY <1>2, <1>3, <1>4, <1>5, <2>2
<1> QED
    BY <1>1, <1>5, <1>6 DEF Q

\* Shares of a positive total are not negative.
LEMMA SharesNatural ==
    ASSUME NEW b, Recorded(b), Fits(b), InRange(b), b.method \in {"PERCENTAGE", "SHARE"},
           b.total > 0, NEW perm \in Orders(Cardinality(DOMAIN b.values))
    PROVE  \A u \in DOMAIN b.values : SharesOf(b, perm)[u] \in Nat
<1> DEFINE S == DOMAIN b.values
           n == Cardinality(S)
           base == BaseShares(b.method, b.total, b.values)
           rest == Rest(b)
           total == b.total
<1>1. /\ IsFiniteSet(S) /\ total \in Nat /\ n \in Nat \ {0} /\ rest \in Int
      /\ base \in [S -> Int] /\ Sum(base) = SumFunctionOnSet(base, S)
    BY RecordedIs
<1>2. rest = total - SumFunctionOnSet(base, S)
    BY <1>1 DEF Rest
<1>3. PICK W \in Nat \ {0} : \E w \in [S -> Nat] :
          /\ SumFunctionOnSet(w, S) = W
          /\ \A u \in S : BaseShare(b.method, b.total, b.values, u) = Quot(w[u] * total, W)
    BY WeighedBase
<1>4. PICK w \in [S -> Nat] :
          /\ SumFunctionOnSet(w, S) = W
          /\ \A u \in S : BaseShare(b.method, b.total, b.values, u) = Quot(w[u] * total, W)
    BY <1>3
<1>5. \A u \in S : base[u] = BaseShare(b.method, b.total, b.values, u)
    BY DEF BaseShares
<1>6. PICK place \in Bijection(S, 1..n) :
          SharesOf(b, perm) = [u \in S |-> BaseShare(b.method, b.total, b.values, u)
                                               + Extra(rest, n, place[u])]
    BY SharesAre
<1> HIDE DEF S, n, base, rest, total
<1>7. /\ \A u \in S : base[u] \in Nat
      /\ SumFunctionOnSet(base, S) \in Nat /\ SumFunctionOnSet(base, S) <= total
  <2> DEFINE f == w
             q == base
  <2>1. (\A u \in S : f[u] \in Nat) /\ SumFunctionOnSet(f, S) = W
        /\ \A u \in S : q[u] = Quot(f[u] * total, W)
      BY <1>4, <1>5
  <2> HIDE DEF f, q
  <2>2. /\ \A u \in S : q[u] \in Nat
        /\ SumFunctionOnSet(q, S) \in Nat /\ SumFunctionOnSet(q, S) <= total
    <3>1. IsFiniteSet(S) /\ W \in Nat \ {0} /\ total \in Nat
        BY <1>1
    <3> HIDE DEF S, total
    <3> QED
        BY <2>1, <3>1, FloorsFit
  <2> QED
      BY <2>2 DEF q
<1>8. rest \in Nat
  <2> DEFINE s == SumFunctionOnSet(base, S)
  <2>1. s \in Nat /\ s <= total /\ rest = total - s
      BY <1>2, <1>7
  <2> HIDE DEF s
  <2> QED
      BY <1>1, <2>1
<1>9. ASSUME NEW i \in Nat PROVE Extra(rest, n, i) \in Nat
  <2> DEFINE q == Size(rest) \div n
             one == IF i <= Size(rest) % n THEN 1 ELSE 0
  <2>1. Sign(rest) = 1 /\ Size(rest) = rest
      BY <1>8 DEF Sign, Size
  <2>2. q \in Nat
      BY <1>1, <1>8, <2>1
  <2>3. one \in Nat
      OBVIOUS
  <2>4. Extra(rest, n, i) = 1 * (q + one)
      BY <2>1 DEF Extra
  <2> HIDE DEF q, one
  <2> QED
      BY <2>2, <2>3, <2>4
<1>10. ASSUME NEW u \in S PROVE SharesOf(b, perm)[u] \in Nat
  <2> DEFINE i == place[u]
             x == Extra(rest, n, i)
  <2>1. i \in Nat
      BY <1>1, <1>6 DEF Bijection, Injection
  <2>2. x \in Nat
      BY <1>9, <2>1
  <2>3. base[u] \in Nat /\ SharesOf(b, perm)[u] = base[u] + x
      BY <1>5, <1>6, <1>7
  <2> HIDE DEF i, x
  <2> QED
      BY <2>2, <2>3
<1> QED
    BY <1>10 DEF S

\* Percentages that come to no more than a hundred are made to come to it.
LEMMA PercentsAddUp ==
    ASSUME NEW R, IsFiniteSet(R), R # {}, NEW v, v = [u \in R |-> v[u]],
           \A u \in R : v[u] \in Nat,
           SumFunctionOnSet(v, R) <= BasisPointsFull, BasisPointsFull <= MaxInt, NEW total
    PROVE  LET g == RebalanceToTarget(v, BasisPointsFull)
           IN  /\ DOMAIN g = R
               /\ Posted([method |-> "PERCENTAGE", values |-> g], "USD")
                     = [method |-> "PERCENTAGE", values |-> g]
               /\ Accepted("PERCENTAGE", total, g)
<1> DEFINE W == BasisPointsFull
           sum == SumFunctionOnSet(v, R)
           g == RebalanceToTarget(v, W)
<1>1. W \in Nat /\ MaxInt \in Nat /\ W <= MaxInt /\ v \in [R -> Int]
    BY SplitAssumption DEF BasisPointsFull
<1> HIDE DEF W
<1>2. sum \in Nat /\ \A u \in R : v[u] <= sum
    BY PartOfSum
<1>3. sum <= W
    BY DEF W
<1> HIDE DEF sum
<1>4. ASSUME NEW u \in R PROVE v[u] + W - sum \in 0..W
    BY <1>1, <1>2, <1>3
<1>5. \A n \in 0..W : n \in Int /\ n >= 0 /\ Size(n) <= MaxInt
    BY <1>1 DEF Size
<1>6. PICK hi \in R : g = [v EXCEPT ![hi] = v[hi] + W - sum] /\ SumFunctionOnSet(g, R) = W
  <2>1. \A u \in R : Size(v[u] + W - sum) <= MaxInt
      BY <1>4, <1>5
  <2>2. \E h \in R :
            /\ \A x \in R : v[h] >= v[x]
            /\ RebalanceToTarget(v, W) = [v EXCEPT ![h] = v[h] + W - SumFunctionOnSet(v, R)]
            /\ SumFunctionOnSet(RebalanceToTarget(v, W), R) = W
      BY <1>1, <2>1, RebalancedAdds DEF sum
  <2> QED
      BY <2>2 DEF sum
<1>7. DOMAIN g = R /\ g = [u \in DOMAIN g |-> g[u]]
    BY <1>1, <1>6
<1>8. \A u \in R : g[u] \in 0..W
  <2>1. \A u \in R : v[u] \in 0..W
      BY <1>1, <1>2, <1>3
  <2> QED
      BY <1>4, <1>6, <2>1
<1> HIDE DEF g
<1>9. \A u \in R : g[u] \in Int /\ g[u] >= 0 /\ Size(g[u]) <= MaxInt
    BY <1>5, <1>8
<1>10. Posted([method |-> "PERCENTAGE", values |-> g], "USD")
           = [method |-> "PERCENTAGE", values |-> g]
  <2>1. "PERCENTAGE" \in UserSelectable /\ "PERCENTAGE" # "EQUAL"
      BY DEF UserSelectable
  <2> QED
      BY <1>7, <1>9, <2>1, PostedIs
<1>11. Accepted("PERCENTAGE", total, g)
  <2>1. Sum(g) = W
      BY <1>6, <1>7, <1>9, SumType
  <2>2. Wrap(W) = W
    <3>1. W \in 0..W
        BY <1>1
    <3> QED
        BY <1>5, <3>1, WrapFits
  <2>3. "PERCENTAGE" \in UserSelectable
      BY DEF UserSelectable
  <2> QED
      BY <1>7, <1>9, <2>1, <2>2, <2>3 DEF Accepted, W
<1> QED
    BY <1>7, <1>10, <1>11 DEF g, W

\* The recorded inputs of those who are still there are accepted again.
LEMMA StoredAccepted ==
    ASSUME NEW b, Recorded(b), Fits(b), ShownFits(b), NEW cands, NEW rows,
           NEW form, form = PrefillEdit(cands, b.method, b.total, b.payer, rows,
                                        EncodeInputs(b.method, b.values)),
           DOMAIN form.values # {}, b.method = "SHARE" => Sum(form.values) > 0
    PROVE  Accepted(Posted(form, "USD").method, b.total, Posted(form, "USD").values)
<1> DEFINE S == DOMAIN b.values
           R == cands \cap S
           m == b.method
           total == b.total
           payload == EncodeInputs(m, b.values)
           v == [u \in R |-> b.values[u]]
           f == b.values
<1>1. /\ IsFiniteSet(S) /\ S # {} /\ m \in UserSelectable /\ total \in Int /\ MaxInt \in Nat
      /\ Size(total) <= MaxInt
      /\ \A u \in S : /\ f[u] \in Int /\ Size(f[u]) <= MaxInt
                      /\ m = "EQUAL" => f[u] = 0
      /\ Sum(f) = SumFunctionOnSet(f, S) /\ Sum(f) \in Int
      /\ Wrap(Sum(f)) = Sum(f)
      /\ Accepted(m, total, f)
  <2>1. S # {} /\ Accepted(m, total, f)
      BY RecordedIs DEF Accepted
  <2>2. Wrap(Sum(f)) = Sum(f)
      BY RecordedIs, WrapFits DEF Fits
  <2> QED
      BY <2>1, <2>2, RecordedIs, TypedFits, SplitAssumption
<1>2. form = [method |-> m, values |-> Rebalanced(m, total, v)]
  <2>1. payload.method = m /\ payload.values = f
      BY DEF EncodeInputs
  <2>2. Decodes(payload, m)
      BY <1>1, <2>1 DEF Decodes
  <2> HIDE DEF payload, f
  <2>3. PrefillStored(cands, m, total, payload.values) = Rebalanced(m, total, v)
      BY <2>1 DEF PrefillStored, f
  <2> QED
      BY <2>1, <2>2, <2>3 DEF PrefillEdit, payload
<1>3. DOMAIN v = R /\ R \subseteq S /\ DOMAIN f = S /\ \A u \in R : v[u] = f[u]
    OBVIOUS
<1>4. v = [u \in R |-> v[u]]
    OBVIOUS
<1>5. IsFiniteSet(R)
    BY <1>1, FS_Subset
<1> HIDE DEF S, R, v, f, m, total
<1>6. \A u \in R : v[u] \in Int /\ Size(v[u]) <= MaxInt /\ (m = "EQUAL" => v[u] = 0)
    BY <1>1, <1>3
<1>7. SumFunctionOnSet(v, R) = SumFunctionOnSet(f, R)
    BY <1>3, <1>5, SumEqual
<1>8. ASSUME SumTarget(m, total) = {}
      PROVE  Accepted(Posted(form, "USD").method, total, Posted(form, "USD").values)
  <2>1. form = [method |-> m, values |-> v]
      BY <1>2, <1>8 DEF Rebalanced
  <2>2. Posted(form, "USD") = form
      BY <1>1, <1>3, <1>4, <1>6, <2>1, PostedIs
  <2>3. m \notin {"PERCENTAGE", "EXACT"}
      BY <1>8 DEF SumTarget
  <2>4. R # {}
      BY <1>3, <2>1
  <2>5. CASE m # "SHARE"
      BY <1>1, <1>3, <2>1, <2>2, <2>3, <2>4, <2>5 DEF Accepted
  <2>6. CASE m = "SHARE"
    <3>1. \A u \in S : f[u] \in Nat
        BY <1>1, <1>3, <2>6 DEF Accepted
    <3>2. /\ SumFunctionOnSet(f, R) \in Nat /\ SumFunctionOnSet(f, S) \in Nat
          /\ SumFunctionOnSet(f, R) <= SumFunctionOnSet(f, S)
      <4>1. R \in SUBSET S
          BY <1>3
      <4> QED
          BY <1>1, <3>1, <4>1, PartOfSum
    <3>3. Sum(v) = SumFunctionOnSet(v, R)
        BY <1>3, <1>5, <1>6, SumType
    <3>4. Sum(v) > 0
        BY <2>1, <2>6 DEF m
    <3>5. Wrap(Sum(v)) = Sum(v)
      <4> DEFINE some == Sum(v)
                 all == Sum(f)
      <4>1. some \in Nat /\ all \in Nat /\ some <= all /\ Size(all) <= MaxInt
          BY <1>1, <1>7, <3>2, <3>3 DEF Fits, f
      <4> HIDE DEF some, all
      <4>2. some \in Int /\ Size(some) <= MaxInt
          BY <1>1, <4>1 DEF Size
      <4>3. Wrap(some) = some
          BY <4>2, WrapFits
      <4> QED
          BY <4>3 DEF some
    <3>6. \A u \in R : v[u] >= 0
        BY <1>3, <3>1
    <3>7. Accepted("SHARE", total, v)
        BY <1>3, <2>4, <3>4, <3>5, <3>6 DEF Accepted, UserSelectable
    <3> QED
        BY <2>1, <2>2, <2>6, <3>7
  <2> QED
      BY <2>5, <2>6
<1>9. ASSUME SumTarget(m, total) # {}
      PROVE  /\ R # {}
             /\ form = [method |-> m, values |-> RebalanceToTarget(v, Sum(f))]
  <2>1. SumTarget(m, total) = {Sum(f)}
      BY <1>1, <1>9 DEF SumTarget, Accepted
  <2>2. (CHOOSE t \in SumTarget(m, total) : TRUE) = Sum(f)
      BY <2>1
  <2>3. R # {}
    <3>1. R = {} => form.values = v
        BY <1>2, <1>3 DEF Rebalanced
    <3> QED
        BY <1>3, <3>1
  <2> QED
      BY <1>2, <1>3, <1>9, <2>2, <2>3 DEF Rebalanced
<1>10. CASE m = "PERCENTAGE"
  <2>1. SumTarget(m, total) # {}
      BY <1>10 DEF SumTarget
  <2>2. Sum(f) = BasisPointsFull
      BY <1>1, <1>10 DEF Accepted
  <2>3. \A u \in S : f[u] \in Nat
      BY <1>1, <1>3, <1>10 DEF Accepted
  <2>4. SumFunctionOnSet(f, R) <= SumFunctionOnSet(f, S)
    <3>1. R \in SUBSET S
        BY <1>3
    <3> QED
        BY <1>1, <2>3, <3>1, PartOfSum
  <2>5. BasisPointsFull <= MaxInt
    <3>1. Size(BasisPointsFull) <= MaxInt
        BY <2>2 DEF Fits, f
    <3> QED
        BY <3>1 DEF Size, BasisPointsFull
  <2>6. /\ \A u \in R : v[u] \in Nat
        /\ SumFunctionOnSet(v, R) <= BasisPointsFull
      BY <1>1, <1>3, <1>7, <2>2, <2>3, <2>4
  <2> DEFINE g == RebalanceToTarget(v, BasisPointsFull)
  <2>7. /\ Posted([method |-> "PERCENTAGE", values |-> g], "USD")
              = [method |-> "PERCENTAGE", values |-> g]
        /\ Accepted("PERCENTAGE", total, g)
      BY <1>4, <1>5, <1>9, <2>1, <2>5, <2>6, PercentsAddUp
  <2>8. form = [method |-> "PERCENTAGE", values |-> g]
      BY <1>9, <1>10, <2>1, <2>2
  <2> HIDE DEF g
  <2> QED
      BY <2>7, <2>8 DEF total
<1>11. CASE m = "EXACT"
  <2>1. SumTarget(m, total) # {}
      BY <1>11 DEF SumTarget
  <2>2. Sum(f) = total
      BY <1>1, <1>11 DEF Accepted
  <2> DEFINE s == [u \in S |-> Size(f[u])]
             g == RebalanceToTarget(v, total)
  <2>3. Size(total) + SumFunctionOnSet(s, S) <= MaxInt
    <3>1. Size(total) + Sum(s) <= MaxInt
        BY <1>11 DEF ShownFits, m, f, S, total
    <3>2. DOMAIN s = S /\ \A u \in S : s[u] \in Int
        BY <1>1 DEF Size
    <3> HIDE DEF s
    <3>3. Sum(s) = SumFunctionOnSet(s, S)
        BY <1>1, <3>2, SumType
    <3> QED
        BY <3>1, <3>3
  <2>4. \A u \in S : s[u] = Size(f[u]) /\ s[u] \in Nat /\ f[u] \in Int
      BY <1>1 DEF Size
  <2> HIDE DEF s
  <2>5. ASSUME NEW hi \in R
        PROVE  Size(v[hi] + total - SumFunctionOnSet(v, R)) <= MaxInt
    <3> DEFINE Q == R \ {hi}
               others == SumFunctionOnSet(v, Q)
               sum == SumFunctionOnSet(v, R)
               sizes == SumFunctionOnSet(s, Q)
               all == SumFunctionOnSet(s, S)
    <3>1. IsFiniteSet(Q) /\ Q \in SUBSET S
        BY <1>3, <1>5, FS_RemoveElement
    <3>2. sum = v[hi] + others
      <4>1. \A u \in R : v[u] \in Int
          BY <1>6
      <4> QED
          BY <1>5, <4>1, SumRemove
    <3>3. others \in Int /\ Size(others) <= sizes
      <4>1. \A u \in Q : v[u] \in Int /\ s[u] = Size(v[u])
          BY <1>3, <1>6, <2>4
      <4> HIDE DEF Q
      <4> QED
          BY <3>1, <4>1, SumSize
    <3>4. sizes \in Nat /\ all \in Nat /\ sizes <= all
      <4> HIDE DEF Q
      <4> QED
          BY <1>1, <2>4, <3>1, PartOfSum
    <3>5. Size(total) + all <= MaxInt /\ v[hi] \in Int
        BY <1>6, <2>3
    <3> HIDE DEF Q, others, sum, sizes, all
    <3>6. v[hi] + total - sum = total - others
        BY <1>1, <3>2, <3>3, <3>5
    <3>7. Size(total - others) <= MaxInt
        BY <1>1, <3>3, <3>4, <3>5 DEF Size
    <3> QED
        BY <3>6, <3>7 DEF sum
  <2>6. v \in [R -> Int]
      BY <1>4, <1>6
  <2>7. PICK hi \in R : /\ g = [v EXCEPT ![hi] = v[hi] + total - SumFunctionOnSet(v, R)]
                        /\ SumFunctionOnSet(g, R) = total
    <3>1. \E h \in R :
              /\ \A x \in R : v[h] >= v[x]
              /\ RebalanceToTarget(v, total)
                    = [v EXCEPT ![h] = v[h] + total - SumFunctionOnSet(v, R)]
              /\ SumFunctionOnSet(RebalanceToTarget(v, total), R) = total
        BY <1>1, <1>5, <1>9, <2>1, <2>5, <2>6, RebalancedAdds
    <3> QED
        BY <3>1
  <2>8. g = [u \in DOMAIN g |-> g[u]] /\ DOMAIN g = R
      BY <2>6, <2>7
  <2> DEFINE to == v[hi] + total - SumFunctionOnSet(v, R)
  <2>9. to \in Int /\ Size(to) <= MaxInt
    <3>1. v[hi] \in Int /\ SumFunctionOnSet(v, R) \in Int
        BY <1>5, <1>6, SumInt
    <3> QED
        BY <1>1, <2>5, <3>1
  <2>10. \A u \in R : g[u] = IF u = hi THEN to ELSE v[u]
      BY <2>6, <2>7
  <2> HIDE DEF g, to
  <2>11. \A u \in R : g[u] \in Int /\ Size(g[u]) <= MaxInt
      BY <1>6, <2>9, <2>10
  <2>12. Posted([method |-> "EXACT", values |-> g], "USD") = [method |-> "EXACT", values |-> g]
    <3>1. "EXACT" \in UserSelectable /\ "EXACT" # "EQUAL"
        BY DEF UserSelectable
    <3> QED
        BY <2>8, <2>11, <3>1, PostedIs
  <2>13. Sum(g) = total
      BY <1>5, <2>7, <2>8, <2>11, SumType
  <2>14. Wrap(total) = total
      BY <1>1, WrapFits
  <2>15. Accepted("EXACT", total, g)
      BY <1>9, <2>1, <2>8, <2>13, <2>14 DEF Accepted, UserSelectable
  <2>16. form = [method |-> "EXACT", values |-> g]
      BY <1>9, <1>11, <2>1, <2>2 DEF g
  <2> QED
      BY <2>12, <2>15, <2>16 DEF total
<1>12. m \notin {"PERCENTAGE", "EXACT"} => SumTarget(m, total) = {}
    BY DEF SumTarget
<1> QED
    BY <1>8, <1>10, <1>11, <1>12 DEF total

\* Percentages worked out from shares of a positive total are accepted.
LEMMA PercentsDerived ==
    ASSUME NEW b, Recorded(b), Fits(b), ShownFits(b), InRange(b), b.total > 0,
           NEW perm \in Orders(Cardinality(DOMAIN b.values)), b.method = "PERCENTAGE"
    PROVE  LET again == Reopens(b, perm, NoInputs)
           IN  Accepted(again.method, b.total, again.values)
<1> DEFINE S == DOMAIN b.values
           T == S \cup {b.payer}
           total == b.total
           W == BasisPointsFull
           rows == Rows(b, perm)
           shares == SharesOf(b, perm)
           g == Widened(shares, b.payer)
           v == [u \in T |-> Quot(Wrap(g[u] * W), total)]
           form == [method |-> "PERCENTAGE", values |-> RebalanceToTarget(v, W)]
<1>1. /\ IsFiniteSet(S) /\ S \subseteq Users /\ b.payer \in Users
      /\ total \in Nat \ {0} /\ MaxInt \in Nat /\ W \in Nat /\ W <= MaxInt
  <2>1. Sum(b.values) \in Int /\ Accepted(b.method, total, b.values)
      BY RecordedIs
  <2>2. Wrap(Sum(b.values)) = Sum(b.values)
      BY <2>1, WrapFits DEF Fits
  <2>3. Size(W) <= MaxInt
      BY <2>1, <2>2 DEF Fits, Accepted
  <2>4. W \in Nat /\ W <= MaxInt
      BY <2>3 DEF Size, BasisPointsFull
  <2> HIDE DEF W
  <2> QED
      BY <2>4, RecordedIs, SplitAssumption
<1>2. /\ shares \in [S -> Int] /\ SumFunctionOnSet(shares, S) = total
      /\ \A u \in S : shares[u] \in Nat
      /\ \A u \in S : Size(shares[u] * W) <= MaxInt
  <2>1. \A u \in S : Size(shares[u] * W) <= MaxInt
      BY DEF ShownFits, SharesOf
  <2> QED
      BY <2>1, SharesType, SharesAddUp, SharesNatural
<1>3. /\ g \in [T -> Int] /\ \A u \in T : g[u] = IF u \in S THEN shares[u] ELSE 0
      /\ IsFiniteSet(T) /\ SumFunctionOnSet(g, T) = total
  <2> DEFINE payer == b.payer
  <2> HIDE DEF payer, shares, S, total
  <2>1. /\ Widened(shares, payer) \in [S \cup {payer} -> Int]
        /\ \A u \in S \cup {payer} : Widened(shares, payer)[u] = IF u \in S THEN shares[u] ELSE 0
        /\ IsFiniteSet(S \cup {payer})
        /\ SumFunctionOnSet(Widened(shares, payer), S \cup {payer}) = SumFunctionOnSet(shares, S)
      BY <1>1, <1>2, WidenedSum
  <2> QED
      BY <1>2, <2>1 DEF payer
<1>4. /\ DOMAIN rows = T
      /\ \A u \in T : (IF u = b.payer THEN total - rows[u] ELSE - rows[u]) = g[u]
  <2>1. /\ DOMAIN rows = T
        /\ \A u \in DOMAIN rows : (IF u = b.payer THEN total - rows[u] ELSE - rows[u])
                                      = IF u \in S THEN shares[u] ELSE 0
      BY <1>2, RowsAre
  <2> QED
      BY <1>3, <2>1
<1>5. ~ Decodes(NoInputs, b.method) /\ DerivedMethod(b.method) = "PERCENTAGE"
    BY DEF Decodes, NoInputs, DerivedMethod
<1>6. PrefillDerived(Users, b.method, total, b.payer, rows) = RebalanceToTarget(v, W)
  <2> DEFINE share(u) == IF u = b.payer THEN total - rows[u] ELSE - rows[u]
             shown == {u \in Users \cap DOMAIN rows :
                          ~(b.method = "EQUAL" /\ u = b.payer /\ share(u) = 0)}
             values == [u \in shown |-> Quot(Wrap(share(u) * W), total)]
  <2>1. shown = T /\ shown # {} /\ total # 0
      BY <1>1, <1>4
  <2>2. PrefillDerived(Users, b.method, total, b.payer, rows)
            = IF total # 0 /\ shown # {} THEN RebalanceToTarget(values, W) ELSE values
      BY <2>1 DEF PrefillDerived
  <2>3. \A u \in T : share(u) = g[u]
      BY <1>4
  <2>4. values = [u \in shown |-> Quot(Wrap(share(u) * W), total)]
      OBVIOUS
  <2> HIDE DEF share, shown, values, rows, g, total, W, T
  <2>5. values = v
      BY <2>1, <2>3, <2>4
  <2> HIDE DEF v
  <2> QED
      BY <2>1, <2>2, <2>5
<1>7. PrefillEdit(Users, b.method, total, b.payer, rows, NoInputs) = form
    BY <1>5, <1>6 DEF PrefillEdit
<1>8. \A u \in T : v[u] = Quot(Wrap(g[u] * W), total)
    OBVIOUS
<1>9. v = [u \in T |-> v[u]] /\ T # {}
    OBVIOUS
<1> HIDE DEF T, S, shares, g, v, total, W
<1>10. \A u \in T : g[u] \in Nat /\ Wrap(g[u] * W) = g[u] * W
  <2> TAKE u \in T
  <2>1. g[u] \in Nat
      BY <1>2, <1>3
  <2>2. g[u] * W \in Int
      BY <1>1, <2>1
  <2>3. Size(g[u] * W) <= MaxInt
    <3>1. CASE u \in S
        BY <1>2, <1>3, <3>1
    <3>2. CASE u \notin S
      <4>1. g[u] = 0 /\ 0 * W = 0
          BY <1>1, <1>3, <3>2
      <4> QED
          BY <1>1, <4>1 DEF Size
    <3> QED
        BY <3>1, <3>2
  <2> QED
      BY <2>1, <2>2, <2>3, WrapFits
<1>11. (\A u \in T : v[u] \in Nat) /\ SumFunctionOnSet(v, T) <= W
  <2> DEFINE f == g
  <2>1. (\A u \in T : f[u] \in Nat) /\ SumFunctionOnSet(f, T) = total
        /\ \A u \in T : v[u] = Quot(f[u] * W, total)
      BY <1>3, <1>8, <1>10
  <2> HIDE DEF f
  <2> QED
      BY <1>1, <1>3, <2>1, FloorsFit
<1>12. /\ Posted(form, "USD") = form
       /\ Accepted("PERCENTAGE", total, form.values)
    BY <1>1, <1>3, <1>9, <1>11, PercentsAddUp DEF W
<1>13. Reopens(b, perm, NoInputs) = form
    BY <1>7, <1>12 DEF Reopens, rows, total
<1> QED
    BY <1>12, <1>13 DEF total

\* What is worked out from the rows of an expense is accepted.
LEMMA DerivedAccepted ==
    ASSUME NEW b, Recorded(b), Fits(b), ShownFits(b), InRange(b), b.total > 0,
           NEW perm \in Orders(Cardinality(DOMAIN b.values)),
           DOMAIN PrefillEdit(Users, b.method, b.total, b.payer, Rows(b, perm), NoInputs).values # {}
    PROVE  LET again == Reopens(b, perm, NoInputs)
           IN  Accepted(again.method, b.total, again.values)
<1> DEFINE S == DOMAIN b.values
           T == S \cup {b.payer}
           total == b.total
           rows == Rows(b, perm)
           shares == SharesOf(b, perm)
           g == Widened(shares, b.payer)
           again == Reopens(b, perm, NoInputs)
<1>1. IsFiniteSet(S) /\ total \in Int /\ b.method \in UserSelectable /\ Size(total) <= MaxInt
    BY RecordedIs, TypedFits DEF Recorded
<1>2. /\ shares \in [S -> Int] /\ SumFunctionOnSet(shares, S) = total
      /\ \A u \in S : Size(shares[u]) <= MaxInt
  <2>1. \A u \in S : Size(shares[u]) <= MaxInt
      BY DEF ShownFits, SharesOf
  <2> QED
      BY <2>1, SharesType, SharesAddUp
<1>3. /\ g \in [T -> Int] /\ \A u \in T : g[u] = IF u \in S THEN shares[u] ELSE 0
      /\ IsFiniteSet(T) /\ SumFunctionOnSet(g, T) = total
  <2> DEFINE payer == b.payer
  <2> HIDE DEF payer, shares, S, total
  <2>1. /\ Widened(shares, payer) \in [S \cup {payer} -> Int]
        /\ \A u \in S \cup {payer} : Widened(shares, payer)[u] = IF u \in S THEN shares[u] ELSE 0
        /\ IsFiniteSet(S \cup {payer})
        /\ SumFunctionOnSet(Widened(shares, payer), S \cup {payer}) = SumFunctionOnSet(shares, S)
      BY <1>1, <1>2, WidenedSum
  <2> QED
      BY <1>2, <2>1 DEF payer
<1>4. Sum(g) = total /\ Wrap(total) = total /\ DOMAIN g = T /\ T # {}
  <2>1. DOMAIN g = T /\ \A u \in T : g[u] \in Int
      BY <1>3
  <2> HIDE DEF g, T
  <2>2. Sum(g) = total
      BY <1>3, <2>1, SumType
  <2>3. Wrap(total) = total
      BY <1>1, WrapFits
  <2> QED
      BY <2>1, <2>2, <2>3 DEF T
<1>5. CASE b.method \in {"EXACT", "ADJUSTMENT"}
  <2>1. again = [method |-> "EXACT", values |-> g]
      BY <1>2, <1>5, DerivedShown DEF DerivedMethod
  <2> HIDE DEF again, g, total, T
  <2>2. Accepted("EXACT", total, g)
      BY <1>4 DEF Accepted, UserSelectable
  <2> QED
      BY <2>1, <2>2 DEF total, again
<1>6. CASE b.method = "SHARE"
  <2>1. again = [method |-> "SHARE", values |-> g]
      BY <1>2, <1>6, DerivedShown DEF DerivedMethod
  <2>2. \A u \in S : shares[u] \in Nat
      BY <1>6, SharesNatural
  <2>3. total > 0
      OBVIOUS
  <2> HIDE DEF again, g, total, T, shares, S
  <2>4. \A u \in T : g[u] >= 0
      BY <1>3, <2>2
  <2>5. Accepted("SHARE", total, g)
      BY <1>4, <2>3, <2>4 DEF Accepted, UserSelectable
  <2> QED
      BY <2>1, <2>5 DEF total, again
<1>7. CASE b.method = "PERCENTAGE"
    BY <1>7, PercentsDerived
<1>8. CASE b.method = "EQUAL"
  <2> DEFINE form == PrefillEdit(Users, b.method, total, b.payer, rows, NoInputs)
             share(u) == IF u = b.payer THEN total - rows[u] ELSE - rows[u]
             shown == {u \in Users \cap DOMAIN rows : ~(u = b.payer /\ share(u) = 0)}
             v == [u \in shown |-> 0]
  <2>1. ~ Decodes(NoInputs, b.method) /\ DerivedMethod(b.method) = "EQUAL"
      BY <1>8 DEF Decodes, NoInputs, DerivedMethod
  <2>2. PrefillDerived(Users, b.method, total, b.payer, rows) = v
      BY <1>8 DEF PrefillDerived
  <2>3. form = [method |-> "EQUAL", values |-> v]
      BY <2>1, <2>2 DEF PrefillEdit
  <2>4. v = [u \in DOMAIN v |-> v[u]] /\ \A u \in DOMAIN v : v[u] = 0
      OBVIOUS
  <2>5. DOMAIN form.values # {}
      OBVIOUS
  <2> HIDE DEF v
  <2>6. Posted(form, "USD") = form
    <3>1. Size(0) <= MaxInt /\ "EQUAL" \in UserSelectable
        BY SplitAssumption DEF Size, UserSelectable
    <3>2. \A u \in DOMAIN v : v[u] \in Int /\ Size(v[u]) <= MaxInt /\ v[u] = 0
        BY <2>4, <3>1
    <3> HIDE DEF form
    <3> QED
        BY <2>3, <2>4, <3>1, <3>2, PostedIs
  <2>7. Accepted("EQUAL", total, v)
    <3>1. DOMAIN v # {}
        BY <2>3, <2>5
    <3> QED
        BY <3>1 DEF Accepted, UserSelectable
  <2> QED
      BY <2>3, <2>6, <2>7 DEF Reopens
<1> QED
    BY <1>1, <1>5, <1>6, <1>7, <1>8 DEF UserSelectable

\* FormStaysValid: what the form of an expense shows when it is opened again is
\* accepted when it is posted as it is (httpapp/handlers_expenses.go:611), for
\* any number of people, whoever of them has left the group, and be it filled
\* from what was recorded or from the rows; as long as no sum, no difference and
\* nothing that is shown leaves int64.
THEOREM FormsStayValid ==
    Spec => []((bill # NoBill => Fits(bill) /\ ShownFits(bill)) => FormStaysValid)
<1>1. ASSUME BalanceInv, IsRecorded, Fits(bill), ShownFits(bill),
             NEW cands \in SUBSET Users, NEW current \in BOOLEAN
      PROVE  LET b       == bill
                 payload == IF current THEN EncodeInputs(b.method, b.values) ELSE NoInputs
                 form    == PrefillEdit(IF current THEN cands ELSE Users, b.method, b.total,
                                        b.payer, Rows(b, AsListed(b)), payload)
                 again   == Posted(form, "USD")
                 usable  == IF current THEN b.method = "SHARE" => Sum(form.values) > 0
                            ELSE b.total > 0 /\ InRange(b)
             IN  DOMAIN form.values # {} /\ usable
                     => Accepted(again.method, b.total, again.values)
  <2> DEFINE rows == Rows(bill, AsListed(bill))
             kept == PrefillEdit(cands, bill.method, bill.total, bill.payer, rows,
                                 EncodeInputs(bill.method, bill.values))
             derived == PrefillEdit(Users, bill.method, bill.total, bill.payer, rows, NoInputs)
  <2>1. Recorded(bill)
      BY <1>1 DEF IsRecorded, BalanceInv, Recorded
  <2>2. AsListed(bill) \in Orders(Cardinality(DOMAIN bill.values))
    <3> DEFINE n == Cardinality(DOMAIN bill.values)
    <3>1. AsListed(bill) = [i \in 1..n |-> i]
        BY DEF AsListed
    <3> HIDE DEF n
    <3> QED
        BY <3>1 DEF Orders, n
  <2>3. ASSUME DOMAIN kept.values # {}, bill.method = "SHARE" => Sum(kept.values) > 0
        PROVE  Accepted(Posted(kept, "USD").method, bill.total, Posted(kept, "USD").values)
    <3> HIDE DEF rows
    <3> DEFINE form == kept
    <3>1. form = PrefillEdit(cands, bill.method, bill.total, bill.payer, rows,
                             EncodeInputs(bill.method, bill.values))
        OBVIOUS
    <3>2. DOMAIN form.values # {} /\ (bill.method = "SHARE" => Sum(form.values) > 0)
        BY <2>3
    <3> HIDE DEF form
    <3> QED
        BY <1>1, <2>1, <3>1, <3>2, StoredAccepted DEF form
  <2>4. ASSUME DOMAIN derived.values # {}, bill.total > 0, InRange(bill)
        PROVE  Accepted(Posted(derived, "USD").method, bill.total, Posted(derived, "USD").values)
      BY <1>1, <2>1, <2>2, <2>4, DerivedAccepted DEF Reopens
  <2>5. CASE current
      BY <2>3, <2>5
  <2>6. CASE ~ current
      BY <2>4, <2>6
  <2> QED
      BY <1>1, <2>5, <2>6
<1>2. BalanceInv /\ (bill # NoBill => Fits(bill) /\ ShownFits(bill)) => FormStaysValid
  <2> SUFFICES ASSUME BalanceInv, IsRecorded, Fits(bill), ShownFits(bill)
               PROVE  FormStaysValid
      BY DEF FormStaysValid, IsRecorded
  <2> QED
      BY <1>1 DEF FormStaysValid
<1> QED
    BY <1>2, BalanceInvariant, PTL

===============================================================================
