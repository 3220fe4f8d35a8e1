------------------------------- MODULE SumLemmas -------------------------------
(***************************************************************************)
(* Sums over finite sets.  SumFunctionOnSet of the community modules is a  *)
(* recursive function that takes an element of its choice at a time; that  *)
(* such a function exists, and that the order does not matter, is proved   *)
(* here from the well-foundedness of the strict subsets of a finite set:   *)
(* a set for which the claim fails would have a smallest subset for which  *)
(* it fails.                                                               *)
(***************************************************************************)
EXTENDS Integers, Functions, FiniteSetTheorems, WellFoundedInduction, TLAPS

Pick(s) == CHOOSE x \in s : TRUE

\* g sums f over every subset of S, taking away one picked element at a time.
Sums(g, f, S) ==
    g = [s \in SUBSET S |-> IF s = {} THEN 0 ELSE f[Pick(s)] + g[s \ {Pick(s)}]]

TheSums(f, S) == CHOOSE g : Sums(g, f, S)

\* The sum of f over S is the last value of the function that sums it.
LEMMA SumIs == ASSUME NEW f, NEW S PROVE SumFunctionOnSet(f, S) = TheSums(f, S)[S]
BY DEF SumFunctionOnSet, FoldFunctionOnSet, MapThenFoldSet, TheSums, Sums, Pick

\* A nonempty collection of subsets of a finite set has a smallest one.
LEMMA SmallestSet ==
    ASSUME NEW S, IsFiniteSet(S), NEW C, C \subseteq SUBSET S, C # {}
    PROVE  \E T \in C : \A U \in SUBSET T : U # T => U \notin C
<1>1. FiniteSubsetsOf(S) = SUBSET S
    BY FS_FiniteSubsetsOfFinite
<1>2. IsWellFoundedOn(StrictSubsetOrdering(S), SUBSET S)
    BY <1>1, FS_StrictSubsetOrderingWellFounded
<1>3. PICK T \in C : \A U \in C : ~ (<<U, T>> \in StrictSubsetOrdering(S))
    BY <1>2, WFMin
<1>4. ASSUME NEW U \in SUBSET T, U # T, U \in C PROVE FALSE
  <2>1. <<U, T>> \in (SUBSET S) \X (SUBSET S)
      BY <1>3, <1>4
  <2>2. <<U, T>> \in StrictSubsetOrdering(S)
      BY <1>4, <2>1 DEF StrictSubsetOrdering
  <2> QED
      BY <1>3, <1>4, <2>2
<1> QED
    BY <1>3, <1>4

\* Two functions that sum f agree wherever both are defined.
LEMMA SumsAgree ==
    ASSUME NEW f, NEW S, NEW T, IsFiniteSet(S), NEW g, NEW h, Sums(g, f, S), Sums(h, f, T)
    PROVE  \A s \in (SUBSET S) \cap (SUBSET T) : g[s] = h[s]
<1> DEFINE Bad == {s \in (SUBSET S) \cap (SUBSET T) : g[s] # h[s]}
<1> SUFFICES ASSUME Bad # {} PROVE FALSE
    OBVIOUS
<1>1. PICK s \in Bad : \A u \in SUBSET s : u # s => u \notin Bad
  <2>1. Bad \subseteq SUBSET S
      OBVIOUS
  <2> HIDE DEF Bad
  <2> QED
      BY <2>1, SmallestSet
<1>2. s \in SUBSET S /\ s \in SUBSET T /\ g[s] # h[s]
    BY <1>1
<1>3. CASE s = {}
    BY <1>2, <1>3 DEF Sums
<1>4. CASE s # {}
  <2> DEFINE rest == s \ {Pick(s)}
  <2>1. Pick(s) \in s
      BY <1>4 DEF Pick
  <2>2. rest \in SUBSET s /\ rest # s /\ rest \in (SUBSET S) \cap (SUBSET T)
      BY <1>2, <2>1
  <2>3. g[rest] = h[rest]
      BY <1>1, <2>2
  <2>4. g[s] = f[Pick(s)] + g[rest] /\ h[s] = f[Pick(s)] + h[rest]
      BY <1>2, <1>4 DEF Sums
  <2> QED
      BY <1>2, <2>3, <2>4
<1> QED
    BY <1>3, <1>4

\* If some function sums f, the chosen one does.
LEMMA TheSumsSum ==
    ASSUME NEW f, NEW S, \E g : Sums(g, f, S)
    PROVE  Sums(TheSums(f, S), f, S)
BY DEF TheSums

\* A function that sums f exists over every finite set.
LEMMA SumsExist ==
    ASSUME NEW f, NEW S, IsFiniteSet(S)
    PROVE  Sums(TheSums(f, S), f, S)
<1> DEFINE Bad == {T \in SUBSET S : ~ \E g : Sums(g, f, T)}
<1> SUFFICES ASSUME Bad # {} PROVE FALSE
  <2>1. SUFFICES ASSUME ~ \E g : Sums(g, f, S) PROVE FALSE
      BY TheSumsSum
  <2>2. S \in Bad
      BY <2>1
  <2> QED
      BY <2>2
<1>1. PICK T \in Bad : \A U \in SUBSET T : U # T => U \notin Bad
  <2>1. Bad \subseteq SUBSET S
      OBVIOUS
  <2> HIDE DEF Bad
  <2> QED
      BY <2>1, SmallestSet
<1>2. T \in SUBSET S /\ ~ \E g : Sums(g, f, T)
    BY <1>1
<1> DEFINE sum(U) == TheSums(f, U)[U]
           g == [s \in SUBSET T |-> IF s = {} THEN 0 ELSE f[Pick(s)] + sum(s \ {Pick(s)})]
<1>3. ASSUME NEW U \in SUBSET T, U # T PROVE IsFiniteSet(U) /\ Sums(TheSums(f, U), f, U)
  <2>1. IsFiniteSet(U)
      BY <1>2, FS_Subset
  <2>2. \E h : Sums(h, f, U)
      BY <1>1, <1>2, <1>3
  <2> QED
      BY <2>1, <2>2, TheSumsSum
<1>4. ASSUME NEW U \in SUBSET T, U # T PROVE g[U] = sum(U)
  <2>1. Sums(TheSums(f, U), f, U)
      BY <1>3, <1>4
  <2>2. CASE U = {}
      BY <2>1, <2>2 DEF Sums
  <2>3. CASE U # {}
    <3> DEFINE rest == U \ {Pick(U)}
    <3>1. Pick(U) \in U
        BY <2>3 DEF Pick
    <3>2. rest \in SUBSET T /\ rest # T /\ rest \in (SUBSET U) \cap (SUBSET rest)
        BY <1>4, <3>1
    <3>3. IsFiniteSet(U) /\ Sums(TheSums(f, rest), f, rest)
        BY <1>3, <1>4, <3>2
    <3>4. TheSums(f, U)[rest] = TheSums(f, rest)[rest]
      <4> HIDE DEF rest
      <4>1. \A s \in (SUBSET U) \cap (SUBSET rest) : TheSums(f, U)[s] = TheSums(f, rest)[s]
          BY <2>1, <3>3, SumsAgree
      <4> QED
          BY <3>2, <4>1
    <3>5. TheSums(f, U)[U] = f[Pick(U)] + TheSums(f, U)[rest]
        BY <2>1, <2>3 DEF Sums
    <3>6. g[U] = f[Pick(U)] + sum(rest)
        BY <2>3
    <3> QED
        BY <3>4, <3>5, <3>6
  <2> QED
      BY <2>2, <2>3
<1>5. \A s \in SUBSET T : s # {} => g[s \ {Pick(s)}] = sum(s \ {Pick(s)})
  <2> SUFFICES ASSUME NEW s \in SUBSET T, s # {}
               PROVE  g[s \ {Pick(s)}] = sum(s \ {Pick(s)})
      OBVIOUS
  <2>1. Pick(s) \in s
      BY DEF Pick
  <2>2. s \ {Pick(s)} \in SUBSET T /\ s \ {Pick(s)} # T
      BY <2>1
  <2> HIDE DEF g, sum
  <2> QED
      BY <1>4, <2>2
<1>6. Sums(g, f, T)
  <2>1. g = [s \in SUBSET T |-> IF s = {} THEN 0 ELSE f[Pick(s)] + g[s \ {Pick(s)}]]
    <3> DEFINE h == [s \in SUBSET T |-> IF s = {} THEN 0 ELSE f[Pick(s)] + g[s \ {Pick(s)}]]
    <3>1. \A s \in SUBSET T : g[s] = h[s]
        BY <1>5
    <3> QED
        BY <3>1
  <2> HIDE DEF g
  <2> QED
      BY <2>1 DEF Sums
<1> QED
    BY <1>2, <1>6

-------------------------------------------------------------------------------
(* What the rest of the project uses.                                      *)

\* Nothing sums to 0.
LEMMA SumEmpty == ASSUME NEW f PROVE SumFunctionOnSet(f, {}) = 0
<1>1. Sums(TheSums(f, {}), f, {})
    BY SumsExist, FS_EmptySet
<1> QED
    BY <1>1, SumIs DEF Sums

\* A sum is its picked element's value and the sum of the rest.
LEMMA SumPick ==
    ASSUME NEW f, NEW S, IsFiniteSet(S), S # {}
    PROVE  /\ Pick(S) \in S
           /\ SumFunctionOnSet(f, S) = f[Pick(S)] + SumFunctionOnSet(f, S \ {Pick(S)})
<1> DEFINE rest == S \ {Pick(S)}
<1>1. Pick(S) \in S
    BY DEF Pick
<1>2. IsFiniteSet(rest)
    BY FS_RemoveElement
<1>3. Sums(TheSums(f, S), f, S) /\ Sums(TheSums(f, rest), f, rest)
    BY <1>2, SumsExist
<1>4. rest \in (SUBSET S) \cap (SUBSET rest)
    OBVIOUS
<1>5. TheSums(f, S)[rest] = TheSums(f, rest)[rest]
  <2> HIDE DEF rest
  <2>1. \A s \in (SUBSET S) \cap (SUBSET rest) : TheSums(f, S)[s] = TheSums(f, rest)[s]
      BY <1>3, SumsAgree
  <2> QED
      BY <1>4, <2>1
<1>6. TheSums(f, S)[S] = f[Pick(S)] + TheSums(f, S)[rest]
    BY <1>3 DEF Sums
<1>7. /\ SumFunctionOnSet(f, S) = TheSums(f, S)[S]
      /\ SumFunctionOnSet(f, rest) = TheSums(f, rest)[rest]
    BY SumIs
<1> HIDE DEF rest
<1>8. SumFunctionOnSet(f, S) = f[Pick(S)] + SumFunctionOnSet(f, rest)
    BY <1>5, <1>6, <1>7
<1> QED
    BY <1>1, <1>8 DEF rest

\* Integers sum to an integer.
LEMMA SumInt ==
    ASSUME NEW f, NEW S, IsFiniteSet(S), \A x \in S : f[x] \in Int
    PROVE  SumFunctionOnSet(f, S) \in Int
<1> DEFINE Bad == {T \in SUBSET S : SumFunctionOnSet(f, T) \notin Int}
<1> SUFFICES ASSUME Bad # {} PROVE FALSE
    OBVIOUS
<1>1. PICK T \in Bad : \A U \in SUBSET T : U # T => U \notin Bad
  <2>1. Bad \subseteq SUBSET S
      OBVIOUS
  <2> HIDE DEF Bad
  <2> QED
      BY <2>1, SmallestSet
<1>2. T \in SUBSET S /\ SumFunctionOnSet(f, T) \notin Int /\ IsFiniteSet(T)
    BY <1>1, FS_Subset
<1>3. T # {}
    BY <1>2, SumEmpty
<1>4. /\ Pick(T) \in T
      /\ SumFunctionOnSet(f, T) = f[Pick(T)] + SumFunctionOnSet(f, T \ {Pick(T)})
    BY <1>2, <1>3, SumPick
<1>5. T \ {Pick(T)} \in SUBSET T /\ T \ {Pick(T)} # T
    BY <1>4
<1>6. SumFunctionOnSet(f, T \ {Pick(T)}) \in Int
    BY <1>1, <1>2, <1>5
<1>7. f[Pick(T)] \in Int
    BY <1>2, <1>4
<1>8. \A i, j \in Int : i + j \in Int
    OBVIOUS
<1>9. SumFunctionOnSet(f, T) \in Int
    BY <1>4, <1>6, <1>7, <1>8
<1> QED
    BY <1>2, <1>9

\* A sum is any element's value and the sum of the rest.
LEMMA SumRemove ==
    ASSUME NEW f, NEW S, IsFiniteSet(S), \A x \in S : f[x] \in Int, NEW x \in S
    PROVE  SumFunctionOnSet(f, S) = f[x] + SumFunctionOnSet(f, S \ {x})
<1> DEFINE total(T) == SumFunctionOnSet(f, T)
           Bad == {T \in SUBSET S : \E y \in T : total(T) # f[y] + total(T \ {y})}
<1> HIDE DEF total
<1> SUFFICES ASSUME Bad # {} PROVE FALSE
  <2>1. SUFFICES ASSUME total(S) # f[x] + total(S \ {x}) PROVE FALSE
      BY DEF total
  <2>2. S \in Bad
      BY <2>1
  <2> QED
      BY <2>2
<1>1. PICK T \in Bad : \A U \in SUBSET T : U # T => U \notin Bad
  <2>1. Bad \subseteq SUBSET S
      OBVIOUS
  <2> HIDE DEF Bad
  <2> QED
      BY <2>1, SmallestSet
<1>2. PICK y \in T : total(T) # f[y] + total(T \ {y})
    BY <1>1
<1>3. T \in SUBSET S /\ IsFiniteSet(T)
    BY <1>1, FS_Subset
<1> DEFINE p == Pick(T)
<1>4. p \in T /\ total(T) = f[p] + total(T \ {p})
    BY <1>2, <1>3, SumPick DEF total
<1>5. p # y
    BY <1>2, <1>4
<1>6. total(T \ {p}) = f[y] + total((T \ {p}) \ {y})
  <2>1. T \ {p} \in SUBSET T /\ T \ {p} # T /\ T \ {p} \in SUBSET S
      BY <1>3, <1>4
  <2>2. T \ {p} \notin Bad
      BY <1>1, <2>1
  <2> QED
      BY <1>5, <2>1, <2>2
<1>7. total(T \ {y}) = f[p] + total((T \ {y}) \ {p})
  <2>1. T \ {y} \in SUBSET T /\ T \ {y} # T /\ T \ {y} \in SUBSET S
      BY <1>2, <1>3
  <2>2. T \ {y} \notin Bad
      BY <1>1, <2>1
  <2> QED
      BY <1>4, <1>5, <2>1, <2>2
<1>8. (T \ {p}) \ {y} = (T \ {y}) \ {p}
    OBVIOUS
<1>9. f[p] \in Int /\ f[y] \in Int /\ total((T \ {p}) \ {y}) \in Int
  <2>1. p \in S /\ y \in S /\ (T \ {p}) \ {y} \in SUBSET S
      BY <1>3, <1>4
  <2>2. IsFiniteSet((T \ {p}) \ {y})
      BY <2>1, FS_Subset
  <2>3. total((T \ {p}) \ {y}) \in Int
      BY <2>1, <2>2, SumInt DEF total
  <2> QED
      BY <2>1, <2>3
<1>10. \A i, j, k \in Int : i + (j + k) = j + (i + k)
    OBVIOUS
<1>11. total(T) = f[p] + (f[y] + total((T \ {p}) \ {y}))
    BY <1>4, <1>6
<1>12. f[y] + total(T \ {y}) = f[y] + (f[p] + total((T \ {p}) \ {y}))
    BY <1>7, <1>8
<1>13. f[p] + (f[y] + total((T \ {p}) \ {y})) = f[y] + (f[p] + total((T \ {p}) \ {y}))
    BY <1>9, <1>10
<1> QED
    BY <1>2, <1>11, <1>12, <1>13

\* Equal values have equal sums.
LEMMA SumEqual ==
    ASSUME NEW f, NEW g, NEW S, IsFiniteSet(S), \A x \in S : f[x] = g[x]
    PROVE  SumFunctionOnSet(f, S) = SumFunctionOnSet(g, S)
<1> DEFINE Bad == {T \in SUBSET S : SumFunctionOnSet(f, T) # SumFunctionOnSet(g, T)}
<1> SUFFICES ASSUME Bad # {} PROVE FALSE
    OBVIOUS
<1>1. PICK T \in Bad : \A U \in SUBSET T : U # T => U \notin Bad
  <2>1. Bad \subseteq SUBSET S
      OBVIOUS
  <2> HIDE DEF Bad
  <2> QED
      BY <2>1, SmallestSet
<1>2. T \in SUBSET S /\ SumFunctionOnSet(f, T) # SumFunctionOnSet(g, T) /\ IsFiniteSet(T)
    BY <1>1, FS_Subset
<1>3. T # {}
    BY <1>2, SumEmpty
<1>4. /\ Pick(T) \in T
      /\ SumFunctionOnSet(f, T) = f[Pick(T)] + SumFunctionOnSet(f, T \ {Pick(T)})
      /\ SumFunctionOnSet(g, T) = g[Pick(T)] + SumFunctionOnSet(g, T \ {Pick(T)})
    BY <1>2, <1>3, SumPick
<1>5. T \ {Pick(T)} \in SUBSET T /\ T \ {Pick(T)} # T
    BY <1>4
<1>6. SumFunctionOnSet(f, T \ {Pick(T)}) = SumFunctionOnSet(g, T \ {Pick(T)})
    BY <1>1, <1>2, <1>5
<1>7. f[Pick(T)] = g[Pick(T)]
    BY <1>2, <1>4
<1> HIDE DEF Bad
<1> QED
    BY <1>2, <1>4, <1>6, <1>7

\* The sum over two sets with nothing in common is the sum of their sums.
LEMMA SumUnion ==
    ASSUME NEW f, NEW A, NEW B, IsFiniteSet(A), IsFiniteSet(B), A \cap B = {},
           \A x \in A \cup B : f[x] \in Int
    PROVE  SumFunctionOnSet(f, A \cup B) = SumFunctionOnSet(f, A) + SumFunctionOnSet(f, B)
<1> DEFINE total(T) == SumFunctionOnSet(f, T)
           Bad == {T \in SUBSET A : total(T \cup B) # total(T) + total(B)}
<1> HIDE DEF total
<1> SUFFICES ASSUME Bad # {} PROVE FALSE
  <2>1. SUFFICES ASSUME total(A \cup B) # total(A) + total(B) PROVE FALSE
      BY DEF total
  <2>2. A \in Bad
      BY <2>1
  <2> QED
      BY <2>2
<1>1. PICK T \in Bad : \A U \in SUBSET T : U # T => U \notin Bad
  <2>1. Bad \subseteq SUBSET A
      OBVIOUS
  <2> HIDE DEF Bad
  <2> QED
      BY <2>1, SmallestSet
<1>2. T \in SUBSET A /\ IsFiniteSet(T) /\ total(T \cup B) # total(T) + total(B)
    BY <1>1, FS_Subset
<1>3. total(B) \in Int
    BY SumInt DEF total
<1>4. T # {}
  <2>1. SUFFICES ASSUME T = {} PROVE FALSE
      OBVIOUS
  <2>2. total(T) = 0 /\ T \cup B = B
      BY <2>1, SumEmpty DEF total
  <2>3. \A i \in Int : 0 + i = i
      OBVIOUS
  <2>4. total(T) + total(B) = total(B)
      BY <1>3, <2>2, <2>3
  <2>5. total(T \cup B) = total(B)
      BY <2>2
  <2> QED
      BY <1>2, <2>4, <2>5
<1>5. PICK x \in T : TRUE
    BY <1>4
<1>6. total(T) = f[x] + total(T \ {x})
    BY <1>2, SumRemove DEF total
<1>7. total(T \cup B) = f[x] + total((T \cup B) \ {x})
  <2>1. IsFiniteSet(T \cup B)
      BY <1>2, FS_Union
  <2> QED
      BY <1>2, <2>1, SumRemove DEF total
<1>8. (T \cup B) \ {x} = (T \ {x}) \cup B
    BY <1>2
<1>9. total((T \ {x}) \cup B) = total(T \ {x}) + total(B)
  <2>1. T \ {x} \in SUBSET T /\ T \ {x} # T /\ T \ {x} \in SUBSET A
      BY <1>2
  <2>2. T \ {x} \notin Bad
      BY <1>1, <2>1
  <2> QED
      BY <2>1, <2>2
<1>10. f[x] \in Int /\ total(T \ {x}) \in Int
  <2>1. x \in A /\ IsFiniteSet(T \ {x})
      BY <1>2, FS_RemoveElement
  <2> QED
      BY <1>2, <2>1, SumInt DEF total
<1>11. \A i, j, k \in Int : i + (j + k) = (i + j) + k
    OBVIOUS
<1>12. total(T \cup B) = f[x] + (total(T \ {x}) + total(B))
    BY <1>7, <1>8, <1>9
<1>13. total(T) + total(B) = (f[x] + total(T \ {x})) + total(B)
    BY <1>6
<1>14. f[x] + (total(T \ {x}) + total(B)) = (f[x] + total(T \ {x})) + total(B)
    BY <1>3, <1>10, <1>11
<1> QED
    BY <1>2, <1>12, <1>13, <1>14

\* One element's value is its sum.
LEMMA SumSingle ==
    ASSUME NEW f, NEW x, f[x] \in Int
    PROVE  SumFunctionOnSet(f, {x}) = f[x]
<1>1. IsFiniteSet({x}) /\ {x} \ {x} = {}
    BY FS_Singleton
<1>2. SumFunctionOnSet(f, {x}) = f[x] + SumFunctionOnSet(f, {x} \ {x})
    BY <1>1, SumRemove
<1> QED
    BY <1>1, <1>2, SumEmpty

-------------------------------------------------------------------------------
(* Induction, on the elements of a finite set and on numbers, with a set   *)
(* in place of the predicate: the members of G are those it holds for.     *)

\* What holds of the empty set, and of a set with an element more, holds of all.
LEMMA SetInduction ==
    ASSUME NEW S, IsFiniteSet(S), NEW G, {} \in G,
           \A T \in SUBSET S : \A x \in T : T \ {x} \in G => T \in G
    PROVE  S \in G
<1> DEFINE Bad == {T \in SUBSET S : T \notin G}
<1> SUFFICES ASSUME Bad # {} PROVE FALSE
    OBVIOUS
<1>1. PICK T \in Bad : \A U \in SUBSET T : U # T => U \notin Bad
  <2>1. Bad \subseteq SUBSET S
      OBVIOUS
  <2> HIDE DEF Bad
  <2> QED
      BY <2>1, SmallestSet
<1>2. PICK x \in T : TRUE
    BY <1>1
<1>3. T \ {x} \in SUBSET T /\ T \ {x} # T
    BY <1>2
<1>4. T \ {x} \in G
    BY <1>1, <1>3
<1> QED
    BY <1>1, <1>2, <1>4

\* Numbers by their order.
Smaller == {ij \in Nat \X Nat : ij[1] < ij[2]}

\* A nonempty set of numbers has a least one.
LEMMA LeastNumber ==
    ASSUME NEW C \in SUBSET Nat, C # {}
    PROVE  \E k \in C : \A j \in C : k <= j
<1>1. IsWellFoundedOn(Smaller, Nat)
    BY NatLessThanWellFounded DEF OpToRel, Smaller
<1>2. PICK k \in C : \A j \in C : ~ (<<j, k>> \in Smaller)
    BY <1>1, WFMin, Zenon
<1>3. ASSUME NEW j \in C PROVE k <= j
  <2>1. k \in Nat /\ j \in Nat /\ <<j, k>> \in Nat \X Nat
      OBVIOUS
  <2>2. ~ (j < k)
      BY <1>2, <2>1 DEF Smaller
  <2> QED
      BY <2>1, <2>2
<1> QED
    BY <1>3

\* What holds of 0, and of the number after one it holds of, holds of all.
LEMMA NumberInduction ==
    ASSUME NEW G, 0 \in G, \A k \in Nat : k \in G => k + 1 \in G
    PROVE  \A k \in Nat : k \in G
<1> DEFINE Bad == {k \in Nat : k \notin G}
<1> SUFFICES ASSUME Bad # {} PROVE FALSE
    OBVIOUS
<1>1. PICK k \in Bad : \A j \in Bad : k <= j
  <2>1. Bad \in SUBSET Nat
      OBVIOUS
  <2> HIDE DEF Bad
  <2> QED
      BY <2>1, LeastNumber
<1>2. k \in Nat /\ k # 0 /\ k \notin G
    BY <1>1
<1>3. k - 1 \in Nat /\ (k - 1) + 1 = k /\ ~ (k <= k - 1)
    BY <1>2
<1>4. k - 1 \in G
    BY <1>1, <1>3
<1> QED
    BY <1>2, <1>3, <1>4

-------------------------------------------------------------------------------
(* What sums are used for.                                                 *)

\* The sum of the values of a function is that over its domain.
LEMMA SumOfFunction ==
    ASSUME NEW f, NEW g, NEW S, IsFiniteSet(S), DOMAIN f = S, \A x \in S : f[x] = g[x]
    PROVE  SumFunction(f) = SumFunctionOnSet(g, S)
<1>1. SumFunction(f) = SumFunctionOnSet(f, S)
    BY DEF SumFunction
<1> QED
    BY <1>1, SumEqual

\* Sums add up term by term.
LEMMA SumPlus ==
    ASSUME NEW f, NEW g, NEW h, NEW S, IsFiniteSet(S),
           \A x \in S : f[x] \in Int /\ g[x] \in Int /\ h[x] = f[x] + g[x]
    PROVE  SumFunctionOnSet(h, S) = SumFunctionOnSet(f, S) + SumFunctionOnSet(g, S)
<1> DEFINE a(T) == SumFunctionOnSet(f, T)
           b(T) == SumFunctionOnSet(g, T)
           c(T) == SumFunctionOnSet(h, T)
           G == {T \in SUBSET S : c(T) = a(T) + b(T)}
<1> HIDE DEF a, b, c
<1>1. {} \in G
  <2>1. a({}) = 0 /\ b({}) = 0 /\ c({}) = 0
      BY SumEmpty DEF a, b, c
  <2> QED
      BY <2>1
<1>2. ASSUME NEW T \in SUBSET S, NEW x \in T, T \ {x} \in G PROVE T \in G
  <2> DEFINE R == T \ {x}
  <2>1. IsFiniteSet(T) /\ IsFiniteSet(R) /\ R \in SUBSET S
      BY FS_Subset
  <2>2. a(T) = f[x] + a(R)
      BY <2>1, SumRemove DEF a
  <2>3. b(T) = g[x] + b(R)
      BY <2>1, SumRemove DEF b
  <2>4. c(T) = h[x] + c(R)
    <3>1. \A y \in T : h[y] \in Int
        OBVIOUS
    <3> QED
        BY <2>1, <3>1, SumRemove DEF c
  <2>5. a(R) \in Int /\ b(R) \in Int
      BY <2>1, SumInt DEF a, b
  <2>6. c(R) = a(R) + b(R)
      BY <1>2
  <2>7. x \in S /\ f[x] \in Int /\ g[x] \in Int /\ h[x] = f[x] + g[x]
      BY <1>2
  <2> HIDE DEF R
  <2>8. c(T) = a(T) + b(T)
      BY <2>2, <2>3, <2>4, <2>5, <2>6, <2>7
  <2> QED
      BY <1>2, <2>8
<1>3. S \in G
  <2> HIDE DEF G
  <2> QED
      BY <1>1, <1>2, SetInduction
<1> QED
    BY <1>3 DEF a, b, c

\* Nothing adds up to nothing.
LEMMA SumZero ==
    ASSUME NEW f, NEW S, IsFiniteSet(S), \A x \in S : f[x] = 0
    PROVE  SumFunctionOnSet(f, S) = 0
<1> DEFINE a(T) == SumFunctionOnSet(f, T)
<1>1. a(S) \in Int /\ a(S) = a(S) + a(S)
  <2>1. \A x \in S : f[x] \in Int /\ f[x] \in Int /\ f[x] = f[x] + f[x]
      OBVIOUS
  <2>2. a(S) = a(S) + a(S)
      BY <2>1, SumPlus
  <2> QED
      BY <2>1, <2>2, SumInt
<1>2. \A i \in Int : i = i + i => i = 0
    OBVIOUS
<1> QED
    BY <1>1, <1>2

\* Opposite terms have opposite sums.
LEMMA SumNegate ==
    ASSUME NEW f, NEW g, NEW S, IsFiniteSet(S), \A x \in S : f[x] \in Int /\ g[x] = - f[x]
    PROVE  SumFunctionOnSet(g, S) = - SumFunctionOnSet(f, S)
<1> DEFINE a == SumFunctionOnSet(f, S)
           b == SumFunctionOnSet(g, S)
           zero == [x \in S |-> 0]
<1>1. \A x \in S : f[x] \in Int /\ g[x] \in Int /\ zero[x] = f[x] + g[x]
    OBVIOUS
<1>2. SumFunctionOnSet(zero, S) = a + b
  <2> HIDE DEF zero
  <2> QED
      BY <1>1, SumPlus
<1>3. SumFunctionOnSet(zero, S) = 0
    BY SumZero
<1>4. a \in Int /\ b \in Int
    BY <1>1, SumInt
<1> HIDE DEF a, b
<1>5. b = - a
    BY <1>2, <1>3, <1>4
<1> QED
    BY <1>5 DEF a, b

\* A sum of what is not negative is not negative, and nothing only of nothings.
LEMMA SumNonnegative ==
    ASSUME NEW f, NEW S, IsFiniteSet(S), \A x \in S : f[x] \in Nat
    PROVE  /\ SumFunctionOnSet(f, S) \in Nat
           /\ SumFunctionOnSet(f, S) = 0 => \A x \in S : f[x] = 0
<1> DEFINE a(T) == SumFunctionOnSet(f, T)
           G == {T \in SUBSET S : a(T) \in Nat}
<1> HIDE DEF a
<1>1. {} \in G
    BY SumEmpty DEF a
<1>2. ASSUME NEW T \in SUBSET S, NEW x \in T PROVE a(T) = f[x] + a(T \ {x})
  <2>1. IsFiniteSet(T) /\ \A y \in T : f[y] \in Int
      BY FS_Subset
  <2> QED
      BY <2>1, SumRemove DEF a
<1>3. ASSUME NEW T \in SUBSET S, NEW x \in T, T \ {x} \in G PROVE T \in G
  <2>1. a(T) = f[x] + a(T \ {x}) /\ f[x] \in Nat /\ a(T \ {x}) \in Nat
      BY <1>2, <1>3
  <2>2. a(T) \in Nat
      BY <2>1
  <2> QED
      BY <1>3, <2>2
<1>4. ASSUME NEW T \in SUBSET S PROVE a(T) \in Nat
  <2>1. IsFiniteSet(T)
      BY FS_Subset
  <2>2. \A U \in SUBSET T : \A x \in U : U \ {x} \in G => U \in G
    <3>1. \A U \in SUBSET S : \A x \in U : U \ {x} \in G => U \in G
        BY <1>3
    <3> HIDE DEF G
    <3> QED
        BY <3>1
  <2>3. T \in G
    <3> HIDE DEF G
    <3> QED
        BY <1>1, <2>1, <2>2, SetInduction
  <2> QED
      BY <2>3
<1>5. ASSUME a(S) = 0, NEW x \in S PROVE f[x] = 0
  <2>1. a(S) = f[x] + a(S \ {x}) /\ a(S \ {x}) \in Nat /\ f[x] \in Nat
      BY <1>2, <1>4
  <2> QED
      BY <1>5, <2>1
<1>6. a(S) \in Nat
    BY <1>4
<1> QED
    BY <1>5, <1>6 DEF a

\* A sum of which one term changes.
LEMMA SumChange ==
    ASSUME NEW f, NEW g, NEW S, IsFiniteSet(S), NEW x \in S, NEW d \in Int,
           \A y \in S : f[y] \in Int /\ g[y] = f[y] + (IF y = x THEN d ELSE 0)
    PROVE  SumFunctionOnSet(g, S) = SumFunctionOnSet(f, S) + d
<1> DEFINE a(T) == SumFunctionOnSet(f, T)
           b(T) == SumFunctionOnSet(g, T)
           R == S \ {x}
<1>1. a(S) = f[x] + a(R)
    BY SumRemove
<1>2. b(S) = g[x] + b(R)
  <2>1. \A y \in S : g[y] \in Int
      OBVIOUS
  <2> QED
      BY <2>1, SumRemove
<1>3. b(R) = a(R)
  <2>1. IsFiniteSet(R) /\ \A y \in R : g[y] = f[y]
      BY FS_Subset
  <2> QED
      BY <2>1, SumEqual
<1>4. a(R) \in Int
  <2>1. IsFiniteSet(R) /\ \A y \in R : f[y] \in Int
      BY FS_Subset
  <2> QED
      BY <2>1, SumInt
<1>5. f[x] \in Int /\ g[x] = f[x] + d
    OBVIOUS
<1> HIDE DEF a, b, R
<1>6. b(S) = a(S) + d
    BY <1>1, <1>2, <1>3, <1>4, <1>5
<1> QED
    BY <1>6 DEF a, b

\* A table in which what u has of v is the opposite of what v has of u adds up
\* to nothing.
LEMMA AntisymmetricSum ==
    ASSUME NEW S, IsFiniteSet(S), NEW M,
           \A u, v \in S : M[u][v] \in Int /\ M[u][v] = - M[v][u]
    PROVE  SumFunctionOnSet([u \in S |-> SumFunctionOnSet(M[u], S)], S) = 0
<1> DEFINE row(u, T) == SumFunctionOnSet(M[u], T)
           total(T) == SumFunctionOnSet([u \in S |-> row(u, T)], T)
           G == {T \in SUBSET S : total(T) = 0}
<1>1. {} \in G
    BY SumEmpty
<1>2. ASSUME NEW T \in SUBSET S, NEW x \in T, T \ {x} \in G PROVE T \in G
  <2> DEFINE R == T \ {x}
             now == [u \in S |-> row(u, T)]
             before == [u \in S |-> row(u, R)]
             column == [u \in S |-> M[u][x]]
  <2>1. IsFiniteSet(T) /\ IsFiniteSet(R) /\ R \in SUBSET S /\ x \in S
      BY FS_Subset
  <2>2. ASSUME NEW u \in S
        PROVE  now[u] = M[u][x] + before[u] /\ now[u] \in Int /\ before[u] \in Int
    <3>1. \A y \in T : M[u][y] \in Int
        OBVIOUS
    <3>2. row(u, T) = M[u][x] + row(u, R)
        BY <2>1, <3>1, SumRemove
    <3>3. row(u, T) \in Int
        BY <2>1, <3>1, SumInt
    <3>4. row(u, R) \in Int
        BY <2>1, <3>1, SumInt
    <3> QED
        BY <3>2, <3>3, <3>4
  <2>3. SumFunctionOnSet(now, T) = now[x] + SumFunctionOnSet(now, R)
    <3>1. \A u \in T : now[u] \in Int
        BY <2>2
    <3> HIDE DEF now
    <3> QED
        BY <2>1, <3>1, SumRemove
  <2>4. SumFunctionOnSet(now, R) = SumFunctionOnSet(column, R) + SumFunctionOnSet(before, R)
    <3>1. \A u \in R : column[u] \in Int /\ before[u] \in Int /\ now[u] = column[u] + before[u]
      <4>1. \A u \in R : column[u] \in Int /\ column[u] = M[u][x]
          BY <2>1
      <4> HIDE DEF column, now, before
      <4> QED
          BY <2>1, <2>2, <4>1
    <3> HIDE DEF column, now, before
    <3> QED
        BY <2>1, <3>1, SumPlus
  <2>5. SumFunctionOnSet(column, R) = - row(x, R)
    <3>1. \A u \in R : M[x][u] \in Int /\ column[u] = - M[x][u]
        BY <2>1
    <3> HIDE DEF column
    <3> QED
        BY <2>1, <3>1, SumNegate
  <2>6. now[x] = row(x, R) /\ row(x, R) \in Int
    <3>1. M[x][x] \in Int /\ M[x][x] = - M[x][x]
        BY <2>1
    <3>2. M[x][x] = 0
        BY <3>1
    <3>3. before[x] = row(x, R)
        BY <2>1
    <3>4. now[x] = M[x][x] + before[x] /\ before[x] \in Int
        BY <2>1, <2>2
    <3> HIDE DEF now, before
    <3> QED
        BY <3>2, <3>3, <3>4
  <2>7. SumFunctionOnSet(before, R) = 0
      BY <1>2
  <2>8. total(T) = SumFunctionOnSet(now, T)
      OBVIOUS
  <2> HIDE DEF now, before, column, R, row, total
  <2>9. total(T) = 0
      BY <2>3, <2>4, <2>5, <2>6, <2>7, <2>8
  <2> QED
      BY <1>2, <2>9
<1>3. S \in G
  <2> HIDE DEF G
  <2> QED
      BY <1>1, <1>2, SetInduction
<1> QED
    BY <1>3

\* Every term times the same number.
LEMMA SumScaled ==
    ASSUME NEW f, NEW g, NEW S, IsFiniteSet(S), NEW c \in Int,
           \A x \in S : f[x] \in Int /\ g[x] = c * f[x]
    PROVE  SumFunctionOnSet(g, S) = c * SumFunctionOnSet(f, S)
<1> DEFINE a(T) == SumFunctionOnSet(f, T)
           b(T) == SumFunctionOnSet(g, T)
           G == {T \in SUBSET S : b(T) = c * a(T)}
<1> HIDE DEF a, b
<1>1. {} \in G
  <2>1. a({}) = 0 /\ b({}) = 0
      BY SumEmpty DEF a, b
  <2> QED
      BY <2>1
<1>2. ASSUME NEW T \in SUBSET S, NEW x \in T, T \ {x} \in G PROVE T \in G
  <2>1. IsFiniteSet(T) /\ IsFiniteSet(T \ {x})
      BY FS_Subset
  <2>2. \A y \in T : f[y] \in Int /\ g[y] \in Int
      OBVIOUS
  <2>3. a(T) = f[x] + a(T \ {x}) /\ b(T) = g[x] + b(T \ {x})
      BY <2>1, <2>2, SumRemove DEF a, b
  <2>4. a(T \ {x}) \in Int
      BY <2>1, <2>2, SumInt DEF a
  <2>5. b(T \ {x}) = c * a(T \ {x}) /\ g[x] = c * f[x] /\ f[x] \in Int
      BY <1>2
  <2>6. \A i, j \in Int : c * i + c * j = c * (i + j)
      OBVIOUS
  <2>7. b(T) = c * a(T)
      BY <2>3, <2>4, <2>5, <2>6
  <2> QED
      BY <2>7
<1>3. S \in G
  <2> HIDE DEF G
  <2> QED
      BY <1>1, <1>2, SetInduction
<1> QED
    BY <1>3 DEF a, b

\* As many times the same number as there are elements.
LEMMA SumConstant ==
    ASSUME NEW f, NEW S, IsFiniteSet(S), NEW c \in Int, \A x \in S : f[x] = c
    PROVE  SumFunctionOnSet(f, S) = c * Cardinality(S)
<1> DEFINE a(T) == SumFunctionOnSet(f, T)
           G == {T \in SUBSET S : a(T) = c * Cardinality(T)}
<1> HIDE DEF a
<1>1. {} \in G
  <2>1. a({}) = 0 /\ Cardinality({}) = 0
      BY SumEmpty, FS_EmptySet DEF a
  <2> QED
      BY <2>1
<1>2. ASSUME NEW T \in SUBSET S, NEW x \in T, T \ {x} \in G PROVE T \in G
  <2>1. IsFiniteSet(T) /\ IsFiniteSet(T \ {x})
      BY FS_Subset
  <2>2. \A y \in T : f[y] \in Int
      OBVIOUS
  <2>3. a(T) = f[x] + a(T \ {x}) /\ f[x] = c
      BY <2>1, <2>2, SumRemove DEF a
  <2>4. Cardinality(T \ {x}) = Cardinality(T) - 1 /\ Cardinality(T) \in Nat
      BY <2>1, FS_RemoveElement, FS_CardinalityType
  <2>5. a(T \ {x}) = c * Cardinality(T \ {x})
      BY <1>2
  <2>6. \A k \in Int : c + c * (k - 1) = c * k
      OBVIOUS
  <2>7. a(T) = c * Cardinality(T)
      BY <2>3, <2>4, <2>5, <2>6
  <2> QED
      BY <2>7
<1>3. S \in G
  <2> HIDE DEF G
  <2> QED
      BY <1>1, <1>2, SetInduction
<1> QED
    BY <1>3 DEF a
===============================================================================
