--------------------------- MODULE FiniteRecursion ---------------------------
(***************************************************************************)
(* Recursive functions on the subsets of a finite set, the form in which   *)
(* the modules of the project (and the folds they take from the community  *)
(* modules) write loops: such a function exists and satisfies its          *)
(* equation.  Sums over finite sets: the order in which the elements are   *)
(* added does not matter, and a part is at most the whole.  Folds over     *)
(* sequences: the values on the way are a chain, which concatenates, ends  *)
(* in one value, and carries what two folds over one sequence have in      *)
(* common.                                                                 *)
(***************************************************************************)
EXTENDS Integers, Sequences, FiniteSets, FiniteSetsExt, FiniteSetTheorems, SequenceTheorems,
        WellFoundedInduction, TLAPS

\* A nonempty set of naturals has a least element.
LEMMA LeastNumber ==
    ASSUME NEW N \in SUBSET Nat, N # {}
    PROVE  \E m \in N : \A n \in N : m <= n
<1>1. PICK m \in N : \A n \in N : ~(<<n, m>> \in OpToRel(<, Nat))
  BY NatLessThanWellFounded, WFMin, Zenon
<1>2. ASSUME NEW n \in N, n < m PROVE FALSE
  <2>1. <<n, m>> \in {p \in Nat \X Nat : p[1] < p[2]}
    BY <1>2
  <2>2. <<n, m>> \in OpToRel(<, Nat)
    BY <2>1 DEF OpToRel
  <2>3. QED
    BY <1>1, <2>2, Zenon
<1>3. \A n \in N : m <= n
  BY <1>2
<1>4. QED
  BY <1>3

\* f is the function on the subsets of S that stops at the sets in stop with the
\* value v, and otherwise takes the element ch out and applies add to the rest.
IsRecursive(f, S, stop, v, ch, add) ==
    f = [s \in SUBSET S |-> IF s \in stop THEN v[s] ELSE add[s][f[s \ {ch[s]}]]]

\* The values are in T, and there is an element to take out where it goes on.
StaysIn(S, T, stop, v, ch, add) ==
    \A s \in SUBSET S :
        IF s \in stop THEN v[s] \in T ELSE ch[s] \in s /\ \A y \in T : add[s][y] \in T

\* There is such a function.
LEMMA RecursionExists ==
    ASSUME NEW S, IsFiniteSet(S), NEW T, NEW stop, NEW v, NEW ch, NEW add,
           StaysIn(S, T, stop, v, ch, add)
    PROVE  \E f \in [SUBSET S -> T] : IsRecursive(f, S, stop, v, ch, add)
<1> DEFINE Sized(n) == {s \in SUBSET S : Cardinality(s) <= n}
           Value(f, s) == IF s \in stop THEN v[s] ELSE add[s][f[s \ {ch[s]}]]
           Good(n) == \E f \in [Sized(n) -> T] : \A s \in Sized(n) : f[s] = Value(f, s)
           Bad == {n \in Nat : ~Good(n)}
<1>1. ASSUME NEW s \in SUBSET S
      PROVE  /\ IsFiniteSet(s) /\ Cardinality(s) \in Nat
             /\ s \notin stop => /\ s # {} /\ s \ {ch[s]} \in SUBSET S
                                 /\ Cardinality(s \ {ch[s]}) = Cardinality(s) - 1
  <2>1. IsFiniteSet(s) /\ Cardinality(s) \in Nat
    BY FS_Subset, FS_CardinalityType
  <2>2. QED
    BY <2>1, FS_RemoveElement DEF StaysIn
<1>2. \A n \in Nat : \A s : s \in Sized(n) <=> s \in SUBSET S /\ Cardinality(s) <= n
  OBVIOUS
<1>3. \A n \in Nat : n \in Bad <=> ~Good(n)
  OBVIOUS
<1> HIDE DEF Sized, Bad
<1>4. ASSUME NEW m \in Bad, \A n \in Bad : m <= n PROVE FALSE
  <2>1. m \in Nat
    BY <1>4 DEF Bad
  <2>2. PICK f : \A s \in Sized(m) : s \notin stop => /\ f[s \ {ch[s]}] \in T
                                                      /\ f[s \ {ch[s]}] = Value(f, s \ {ch[s]})
    <3>1. CASE m = 0
      <4>1. ASSUME NEW s \in Sized(m) PROVE s = {}
        <5>1. s \in SUBSET S /\ Cardinality(s) <= 0
          BY <1>2, <2>1, <3>1
        <5>2. IsFiniteSet(s) /\ Cardinality(s) \in Nat
          BY <1>1, <5>1
        <5>3. QED
          BY <5>1, <5>2, FS_EmptySet
      <4>2. QED
        BY <1>1, <1>2, <2>1, <4>1
    <3>2. CASE m # 0
      <4>1. m - 1 \in Nat
        BY <2>1, <3>2
      <4>2. m - 1 \notin Bad
        BY <1>4, <2>1
      <4>3. PICK f \in [Sized(m - 1) -> T] : \A s \in Sized(m - 1) : f[s] = Value(f, s)
        BY <1>3, <4>1, <4>2
      <4>4. ASSUME NEW s \in Sized(m), s \notin stop PROVE s \ {ch[s]} \in Sized(m - 1)
        <5>1. s \in SUBSET S /\ Cardinality(s) <= m
          BY <1>2, <2>1
        <5>2. /\ Cardinality(s) \in Nat /\ s \ {ch[s]} \in SUBSET S
              /\ Cardinality(s \ {ch[s]}) = Cardinality(s) - 1
          BY <1>1, <4>4, <5>1
        <5>3. Cardinality(s \ {ch[s]}) <= m - 1
          BY <2>1, <5>1, <5>2
        <5>4. QED
          BY <1>2, <4>1, <5>2, <5>3
      <4>5. QED
        BY <4>3, <4>4
    <3>3. QED
      BY <3>1, <3>2
  <2> DEFINE g == [s \in Sized(m) |-> Value(f, s)]
  <2>3. \A s \in Sized(m) : Value(f, s) \in T
    BY <1>2, <2>1, <2>2 DEF StaysIn
  <2>4. ASSUME NEW s \in Sized(m) PROVE g[s] = Value(g, s)
    <3>1. CASE s \in stop
      BY <3>1
    <3>2. CASE s \notin stop
      <4>1. s \in SUBSET S /\ Cardinality(s) <= m
        BY <1>2, <2>1
      <4>2. s \ {ch[s]} \in SUBSET S /\ Cardinality(s \ {ch[s]}) <= m
        BY <1>1, <2>1, <3>2, <4>1
      <4>3. s \ {ch[s]} \in Sized(m)
        BY <1>2, <2>1, <4>2
      <4>4. g[s \ {ch[s]}] = f[s \ {ch[s]}]
        BY <2>2, <3>2, <4>3
      <4>5. QED
        BY <3>2, <4>4
    <3>3. QED
      BY <3>1, <3>2
  <2>5. g \in [Sized(m) -> T]
    BY <2>3
  <2>6. Good(m)
    BY <2>4, <2>5
  <2>7. QED
    BY <1>3, <1>4, <2>1, <2>6
<1>5. Bad = {}
  <2>1. Bad \subseteq Nat
    BY DEF Bad
  <2>2. QED
    BY <1>4, <2>1, LeastNumber
<1>6. Cardinality(S) \in Nat
  BY FS_CardinalityType
<1>7. Sized(Cardinality(S)) = SUBSET S
  BY <1>2, <1>6, FS_Subset
<1>8. Good(Cardinality(S))
  BY <1>3, <1>5, <1>6
<1>9. PICK f \in [SUBSET S -> T] : \A s \in SUBSET S : f[s] = Value(f, s)
  BY <1>7, <1>8
<1>10. f = [s \in SUBSET S |-> Value(f, s)]
  BY <1>9
<1>11. QED
  BY <1>10 DEF IsRecursive

-----------------------------------------------------------------------------
(* Sums.  IsSum says that f adds up g over the subsets of S the way         *)
(* MapThenSumSet of the community modules does.                             *)

Some(s) == CHOOSE x \in s : TRUE

IsSum(f, g, S) ==
    f = [s \in SUBSET S |-> IF s = {} THEN 0 ELSE g[Some(s)] + f[s \ {Some(s)}]]

\* The same with the types.
AddsUp(f, g, S) ==
    IsFiniteSet(S) /\ g \in [S -> Nat] /\ f \in [SUBSET S -> Nat] /\ IsSum(f, g, S)

LEMMA SumExists ==
    ASSUME NEW S, IsFiniteSet(S), NEW g \in [S -> Nat]
    PROVE  \E f \in [SUBSET S -> Nat] : IsSum(f, g, S)
<1> DEFINE v == [s \in {{}} |-> 0]
           ch == [s \in SUBSET S |-> Some(s)]
           add == [s \in SUBSET S |-> [n \in Nat |-> g[Some(s)] + n]]
<1>1. ASSUME NEW s \in SUBSET S, s # {} PROVE Some(s) \in s
  BY <1>1 DEF Some
<1>2. \A s \in SUBSET S : s \in {{}} => v[s] \in Nat
  OBVIOUS
<1>3. StaysIn(S, Nat, {{}}, v, ch, add)
  BY <1>1, <1>2 DEF StaysIn
<1>4. PICK f \in [SUBSET S -> Nat] : IsRecursive(f, S, {{}}, v, ch, add)
  <2> HIDE DEF v, ch, add
  <2>1. QED
    BY <1>3, RecursionExists
<1>5. ASSUME NEW s \in SUBSET S
      PROVE  f[s] = IF s = {} THEN 0 ELSE g[Some(s)] + f[s \ {Some(s)}]
  <2>1. f[s] = IF s \in {{}} THEN v[s] ELSE add[s][f[s \ {ch[s]}]]
    <3> HIDE DEF v, ch, add
    <3>1. QED
      BY <1>4 DEF IsRecursive
  <2>2. QED
    BY <2>1
<1>6. QED
  BY <1>5 DEF IsSum

AnyLast(f, g, S) == \A s \in SUBSET S : \A x \in s : f[s] = g[x] + f[s \ {x}]

\* Any element may be added last.
LEMMA SumAny ==
    ASSUME NEW S, IsFiniteSet(S), NEW g \in [S -> Nat],
           NEW f \in [SUBSET S -> Nat], IsSum(f, g, S)
    PROVE  AnyLast(f, g, S)
<1> DEFINE Holds(s) == \A x \in s : f[s] = g[x] + f[s \ {x}]
           Bad == {n \in Nat : \E s \in SUBSET S : Cardinality(s) = n /\ ~Holds(s)}
<1>1. ASSUME NEW s \in SUBSET S
      PROVE  /\ IsFiniteSet(s) /\ Cardinality(s) \in Nat
             /\ \A x \in s : Cardinality(s \ {x}) = Cardinality(s) - 1
  BY FS_Subset, FS_CardinalityType, FS_RemoveElement
<1>2. ASSUME NEW s \in SUBSET S, s # {}
      PROVE  Some(s) \in s /\ f[s] = g[Some(s)] + f[s \ {Some(s)}]
  BY <1>2 DEF IsSum, Some
<1>3. ASSUME NEW m \in Bad, \A n \in Bad : m <= n PROVE FALSE
  <2>1. PICK s \in SUBSET S : Cardinality(s) = m /\ ~Holds(s)
    OBVIOUS
  <2>2. ASSUME NEW t \in SUBSET S, Cardinality(t) = m - 1 PROVE Holds(t)
    <3>1. m - 1 \notin Bad
      BY <1>3
    <3>2. Cardinality(t) \in Nat
      BY <1>1
    <3>3. QED
      BY <2>2, <3>1, <3>2
  <2>3. PICK x \in s : f[s] # g[x] + f[s \ {x}]
    BY <2>1
  <2> DEFINE y == Some(s)
  <2>4. y \in s /\ f[s] = g[y] + f[s \ {y}]
    BY <1>2, <2>3
  <2>5. x # y
    BY <2>3, <2>4
  <2>6. f[s \ {y}] = g[x] + f[(s \ {y}) \ {x}]
    BY <1>1, <2>1, <2>2, <2>3, <2>4, <2>5
  <2>7. f[s \ {x}] = g[y] + f[(s \ {x}) \ {y}]
    BY <1>1, <2>1, <2>2, <2>3, <2>4, <2>5
  <2>8. (s \ {x}) \ {y} = (s \ {y}) \ {x} /\ (s \ {x}) \ {y} \in SUBSET S
    OBVIOUS
  <2>9. g[x] \in Nat /\ g[y] \in Nat /\ f[(s \ {x}) \ {y}] \in Nat
    BY <2>3, <2>4, <2>8
  <2> HIDE DEF y
  <2>10. g[y] + (g[x] + f[(s \ {x}) \ {y}]) = g[x] + (g[y] + f[(s \ {x}) \ {y}])
    BY <2>9
  <2>11. QED
    BY <2>3, <2>4, <2>6, <2>7, <2>8, <2>10
<1>4. Bad = {}
  <2>1. Bad \subseteq Nat
    OBVIOUS
  <2> HIDE DEF Bad
  <2>2. QED
    BY <1>3, <2>1, LeastNumber
<1>5. QED
  BY <1>1, <1>4 DEF AnyLast

\* Fewer and smaller numbers have the smaller sum.
LEMMA SumMonotone ==
    ASSUME NEW S, NEW R \in SUBSET S, IsFiniteSet(S), NEW g \in [S -> Nat], NEW h \in [R -> Nat],
           \A x \in R : h[x] <= g[x],
           NEW f \in [SUBSET S -> Nat], IsSum(f, g, S),
           NEW e \in [SUBSET R -> Nat], IsSum(e, h, R)
    PROVE  e[R] <= f[S]
<1> DEFINE Holds(s) == e[s \cap R] <= f[s]
           Bad == {n \in Nat : \E s \in SUBSET S : Cardinality(s) = n /\ ~Holds(s)}
<1>1. ASSUME NEW s \in SUBSET S
      PROVE  /\ IsFiniteSet(s) /\ Cardinality(s) \in Nat
             /\ \A x \in s : Cardinality(s \ {x}) = Cardinality(s) - 1
  BY FS_Subset, FS_CardinalityType, FS_RemoveElement
<1>2. /\ \A t \in SUBSET S : \A z \in t : f[t] = g[z] + f[t \ {z}]
      /\ \A t \in SUBSET R : \A z \in t : e[t] = h[z] + e[t \ {z}]
  <2>1. IsFiniteSet(R)
    BY FS_Subset
  <2>2. AnyLast(f, g, S)
    BY SumAny
  <2>3. AnyLast(e, h, R)
    BY <2>1, SumAny
  <2>4. QED
    BY <2>2, <2>3 DEF AnyLast
<1>3. ASSUME NEW m \in Bad, \A n \in Bad : m <= n PROVE FALSE
  <2>1. PICK s \in SUBSET S : Cardinality(s) = m /\ ~Holds(s)
    OBVIOUS
  <2>2. CASE s = {}
    <3>1. s \cap R = {} /\ e[{}] = 0 /\ f[{}] = 0
      BY <2>2 DEF IsSum
    <3>2. QED
      BY <2>1, <2>2, <3>1
  <2>3. CASE s # {}
    <3>1. PICK x \in s : TRUE
      BY <2>3
    <3>2. s \ {x} \in SUBSET S /\ Cardinality(s \ {x}) = m - 1 /\ Cardinality(s \ {x}) \in Nat
      BY <1>1, <2>1
    <3>3. m \in Nat /\ m - 1 \notin Bad
      <4>1. m \in Nat
        OBVIOUS
      <4> HIDE DEF Bad
      <4>2. QED
        BY <1>3, <4>1
    <3>4. Holds(s \ {x})
      BY <3>2, <3>3
    <3> HIDE DEF Bad
    <3>5. f[s] = g[x] + f[s \ {x}] /\ g[x] \in Nat /\ f[s \ {x}] \in Nat /\ f[s] \in Nat
      BY <1>2, <3>1
    <3>6. e[s \cap R] \in Nat /\ e[(s \ {x}) \cap R] \in Nat
      OBVIOUS
    <3>7. CASE x \in R
      <4>1. e[s \cap R] = h[x] + e[(s \cap R) \ {x}] /\ h[x] \in Nat
        BY <1>2, <3>1, <3>7
      <4>2. (s \cap R) \ {x} = (s \ {x}) \cap R
        OBVIOUS
      <4>3. h[x] <= g[x]
        BY <3>7
      <4>4. h[x] + e[(s \ {x}) \cap R] <= g[x] + f[s \ {x}]
        BY <3>4, <3>5, <3>6, <4>1, <4>3
      <4>5. e[s \cap R] <= f[s]
        BY <3>5, <4>1, <4>2, <4>4
      <4>6. QED
        BY <2>1, <4>5
    <3>8. CASE x \notin R
      <4>1. s \cap R = (s \ {x}) \cap R
        BY <3>8
      <4>2. e[(s \ {x}) \cap R] <= g[x] + f[s \ {x}]
        BY <3>4, <3>5, <3>6
      <4>3. e[s \cap R] <= f[s]
        BY <3>5, <4>1, <4>2
      <4>4. QED
        BY <2>1, <4>3
    <3>9. QED
      BY <3>7, <3>8
  <2>4. QED
    BY <2>2, <2>3
<1>4. Bad = {}
  <2>1. Bad \subseteq Nat
    OBVIOUS
  <2> HIDE DEF Bad
  <2>2. QED
    BY <1>3, <2>1, LeastNumber
<1>5. Holds(S)
  BY <1>1, <1>4
<1>6. S \cap R = R
  OBVIOUS
<1>7. QED
  BY <1>5, <1>6

\* Every function that satisfies the equation has numbers as its values.
LEMMA SumType ==
    ASSUME NEW S, IsFiniteSet(S), NEW g \in [S -> Nat], NEW f, IsSum(f, g, S)
    PROVE  f \in [SUBSET S -> Nat]
<1> DEFINE Bad == {n \in Nat : \E s \in SUBSET S : Cardinality(s) = n /\ f[s] \notin Nat}
<1>1. ASSUME NEW s \in SUBSET S
      PROVE  /\ IsFiniteSet(s) /\ Cardinality(s) \in Nat
             /\ \A x \in s : Cardinality(s \ {x}) = Cardinality(s) - 1
  BY FS_Subset, FS_CardinalityType, FS_RemoveElement
<1>2. ASSUME NEW m \in Bad, \A n \in Bad : m <= n PROVE FALSE
  <2>1. PICK s \in SUBSET S : Cardinality(s) = m /\ f[s] \notin Nat
    OBVIOUS
  <2>2. f[s] = IF s = {} THEN 0 ELSE g[Some(s)] + f[s \ {Some(s)}]
    BY DEF IsSum
  <2>3. s # {} /\ Some(s) \in s
    BY <2>1, <2>2 DEF Some
  <2>4. /\ s \ {Some(s)} \in SUBSET S /\ Cardinality(s \ {Some(s)}) = m - 1
        /\ Cardinality(s \ {Some(s)}) \in Nat
    BY <1>1, <2>1, <2>3
  <2>5. m \in Nat /\ m - 1 \notin Bad
    <3>1. m \in Nat
      OBVIOUS
    <3> HIDE DEF Bad
    <3>2. QED
      BY <1>2, <3>1
  <2>6. f[s \ {Some(s)}] \in Nat
    BY <2>4, <2>5
  <2>7. g[Some(s)] \in Nat
    BY <2>3
  <2>8. QED
    BY <2>1, <2>2, <2>3, <2>6, <2>7
<1>3. Bad = {}
  <2>1. Bad \subseteq Nat
    OBVIOUS
  <2> HIDE DEF Bad
  <2>2. QED
    BY <1>2, <2>1, LeastNumber
<1>4. \A s \in SUBSET S : f[s] \in Nat
  BY <1>1, <1>3
<1>5. QED
  BY <1>4 DEF IsSum

\* One more element adds its number.
Extends(g, h, S, k) == k \notin S /\ \A x \in S : h[x] = g[x]

LEMMA SumExtend ==
    ASSUME NEW S, NEW k, NEW U, U = S \cup {k}, NEW g, NEW h, Extends(g, h, S, k),
           NEW f, AddsUp(f, g, U), NEW e, AddsUp(e, h, S)
    PROVE  f[U] = g[k] + e[S]
<1> USE DEF Extends, AddsUp
<1> DEFINE r == [s \in SUBSET S |-> f[s]]
<1>1. IsFiniteSet(U)
  BY FS_AddElement
<1>2. f[U] = g[k] + f[S]
  <2>1. AnyLast(f, g, U)
    BY <1>1, SumAny
  <2>2. f[U] = g[k] + f[U \ {k}]
    BY <2>1 DEF AnyLast
  <2>3. U \ {k} = S
    OBVIOUS
  <2>4. QED
    BY <2>2, <2>3
<1>3. r \in [SUBSET S -> Nat]
  OBVIOUS
<1>4. IsSum(r, h, S)
  <2>1. ASSUME NEW s \in SUBSET S
        PROVE  r[s] = IF s = {} THEN 0 ELSE h[Some(s)] + r[s \ {Some(s)}]
    <3>1. s # {} => Some(s) \in s
      BY DEF Some
    <3>2. s \in SUBSET U
      OBVIOUS
    <3>3. f[s] = IF s = {} THEN 0 ELSE g[Some(s)] + f[s \ {Some(s)}]
      BY <3>2 DEF IsSum
    <3>4. QED
      BY <3>1, <3>3
  <2>2. QED
    BY <2>1 DEF IsSum
<1>5. r[S] = f[S]
  OBVIOUS
<1> HIDE DEF r
<1>6. S \in SUBSET S /\ (\A x \in S : h[x] <= h[x])
  OBVIOUS
<1>7. r[S] <= e[S] /\ e[S] <= r[S]
  BY <1>3, <1>4, <1>6, SumMonotone
<1>8. QED
  BY <1>2, <1>3, <1>5, <1>7

-----------------------------------------------------------------------------
(* The sum of the values of a function, whatever function on subsets       *)
(* computes it.                                                            *)

Summable(g) == IsFiniteSet(DOMAIN g) /\ g \in [DOMAIN g -> Nat]
SumOf(g) == (CHOOSE f : IsSum(f, g, DOMAIN g))[DOMAIN g]

\* Every function that adds up g arrives at the same number.
LEMMA SumOfValue ==
    ASSUME NEW g, Summable(g), NEW f, IsSum(f, g, DOMAIN g)
    PROVE  f[DOMAIN g] = SumOf(g) /\ SumOf(g) \in Nat
<1> DEFINE e == CHOOSE h : IsSum(h, g, DOMAIN g)
<1>1. IsSum(e, g, DOMAIN g)
  OBVIOUS
<1>2. SumOf(g) = e[DOMAIN g]
  BY DEF SumOf
<1> HIDE DEF e
<1>3. f \in [SUBSET DOMAIN g -> Nat] /\ e \in [SUBSET DOMAIN g -> Nat]
  BY <1>1, SumType DEF Summable
<1>4. DOMAIN g \in SUBSET DOMAIN g /\ \A x \in DOMAIN g : g[x] <= g[x]
  BY DEF Summable
<1>5. e[DOMAIN g] <= f[DOMAIN g] /\ f[DOMAIN g] <= e[DOMAIN g]
  BY <1>1, <1>3, <1>4, SumMonotone DEF Summable
<1>6. e[DOMAIN g] \in Nat /\ f[DOMAIN g] \in Nat
  BY <1>3
<1>7. QED
  BY <1>2, <1>5, <1>6

LEMMA SumOfFunction ==
    ASSUME NEW g, Summable(g)
    PROVE  \E f \in [SUBSET DOMAIN g -> Nat] :
               IsSum(f, g, DOMAIN g) /\ SumOf(g) = f[DOMAIN g] /\ SumOf(g) \in Nat
<1>1. PICK f \in [SUBSET DOMAIN g -> Nat] : IsSum(f, g, DOMAIN g)
  BY SumExists DEF Summable
<1>2. QED
  BY <1>1, SumOfValue

LEMMA SumOfNat ==
    ASSUME NEW g, Summable(g)
    PROVE  SumOf(g) \in Nat
BY SumOfFunction

LEMMA SumOfEmpty ==
    ASSUME NEW g, DOMAIN g = {}
    PROVE  Summable(g) /\ SumOf(g) = 0
<1>1. Summable(g)
  BY FS_EmptySet DEF Summable
<1>2. PICK f \in [SUBSET DOMAIN g -> Nat] : IsSum(f, g, DOMAIN g) /\ SumOf(g) = f[DOMAIN g]
  BY <1>1, SumOfFunction
<1>3. QED
  BY <1>1, <1>2 DEF IsSum

\* The sum of a part, and of smaller numbers, is at most the sum of the whole.
LEMMA SumOfLess ==
    ASSUME NEW g, NEW h, Summable(g), Summable(h), DOMAIN h \subseteq DOMAIN g,
           \A x \in DOMAIN h : h[x] <= g[x]
    PROVE  SumOf(h) <= SumOf(g)
<1>1. PICK f \in [SUBSET DOMAIN g -> Nat] : IsSum(f, g, DOMAIN g) /\ SumOf(g) = f[DOMAIN g]
  BY SumOfFunction
<1>2. PICK e \in [SUBSET DOMAIN h -> Nat] : IsSum(e, h, DOMAIN h) /\ SumOf(h) = e[DOMAIN h]
  BY SumOfFunction
<1>3. e[DOMAIN h] <= f[DOMAIN g]
  BY <1>1, <1>2, SumMonotone DEF Summable
<1>4. QED
  BY <1>1, <1>2, <1>3

\* g is h with one more value.
OneMore(g, h, k) ==
    /\ k \notin DOMAIN h /\ DOMAIN g = DOMAIN h \cup {k}
    /\ \A x \in DOMAIN h : g[x] = h[x]

LEMMA SumOfOneMore ==
    ASSUME NEW g, NEW h, NEW k, Summable(g), Summable(h), OneMore(g, h, k)
    PROVE  SumOf(g) = SumOf(h) + g[k] /\ g[k] \in Nat
<1>1. PICK f \in [SUBSET DOMAIN g -> Nat] : IsSum(f, g, DOMAIN g) /\ SumOf(g) = f[DOMAIN g]
  BY SumOfFunction
<1>2. PICK e \in [SUBSET DOMAIN h -> Nat] : IsSum(e, h, DOMAIN h) /\ SumOf(h) = e[DOMAIN h]
  BY SumOfFunction
<1>3. DOMAIN g = DOMAIN h \cup {k} /\ Extends(g, h, DOMAIN h, k)
  BY DEF OneMore, Extends
<1>4. AddsUp(f, g, DOMAIN g) /\ AddsUp(e, h, DOMAIN h)
  BY <1>1, <1>2 DEF AddsUp, Summable
<1>5. f[DOMAIN g] = g[k] + e[DOMAIN h]
  BY <1>3, <1>4, SumExtend
<1>6. g[k] \in Nat /\ e[DOMAIN h] \in Nat
  BY <1>2, <1>3 DEF Summable
<1>7. QED
  BY <1>1, <1>2, <1>5, <1>6

\* Two functions that differ in one place.
LEMMA SumOfChanged ==
    ASSUME NEW g, NEW h, NEW k, Summable(g), Summable(h), DOMAIN h = DOMAIN g,
           k \in DOMAIN g, \A x \in DOMAIN g : x # k => h[x] = g[x]
    PROVE  /\ SumOf(h) + g[k] = SumOf(g) + h[k]
           /\ g[k] \in Nat /\ h[k] \in Nat /\ g[k] <= SumOf(g)
<1> DEFINE r == [x \in DOMAIN g \ {k} |-> g[x]]
<1>1. DOMAIN r = DOMAIN g \ {k} /\ \A x \in DOMAIN r : r[x] = g[x]
  OBVIOUS
<1>2. r = [x \in DOMAIN r |-> r[x]]
  OBVIOUS
<1> HIDE DEF r
<1>3. Summable(r)
  <2>1. IsFiniteSet(DOMAIN r)
    BY <1>1, FS_Subset DEF Summable
  <2>2. QED
    BY <1>1, <1>2, <2>1 DEF Summable
<1>4. OneMore(g, r, k) /\ OneMore(h, r, k)
  BY <1>1 DEF OneMore
<1>5. SumOf(g) = SumOf(r) + g[k] /\ g[k] \in Nat
  BY <1>3, <1>4, SumOfOneMore
<1>6. SumOf(h) = SumOf(r) + h[k] /\ h[k] \in Nat
  BY <1>3, <1>4, SumOfOneMore
<1>7. SumOf(r) \in Nat
  BY <1>3, SumOfNat
<1>8. QED
  BY <1>5, <1>6, <1>7

\* h is g with the value v put in at k, or replaced.
IsPut(g, h, k, v) == h = [x \in DOMAIN g \cup {k} |-> IF x = k THEN v ELSE g[x]]

\* A table with one value put in or replaced, and with one taken out.
LEMMA SumOfPut ==
    ASSUME NEW g, NEW h, NEW k, NEW v \in Nat, Summable(g), IsPut(g, h, k, v)
    PROVE  /\ Summable(h)
           /\ k \in DOMAIN g => /\ g[k] \in Nat /\ g[k] <= SumOf(g)
                                /\ SumOf(h) = (SumOf(g) - g[k]) + v
           /\ k \notin DOMAIN g => SumOf(h) = SumOf(g) + v
<1>1. DOMAIN h = DOMAIN g \cup {k} /\ IsFiniteSet(DOMAIN h)
  BY FS_AddElement DEF Summable, IsPut
<1>2. \A x \in DOMAIN h : h[x] = IF x = k THEN v ELSE g[x]
  BY DEF IsPut
<1>3. h = [x \in DOMAIN h |-> h[x]]
  BY DEF IsPut
<1>4. \A x \in DOMAIN h : h[x] \in Nat
  BY <1>1, <1>2 DEF Summable
<1>5. Summable(h)
  BY <1>1, <1>3, <1>4 DEF Summable
<1>6. SumOf(g) \in Nat /\ SumOf(h) \in Nat
  BY <1>5, SumOfNat
<1>7. ASSUME k \in DOMAIN g
      PROVE  g[k] \in Nat /\ g[k] <= SumOf(g) /\ SumOf(h) = (SumOf(g) - g[k]) + v
  <2>1. DOMAIN h = DOMAIN g /\ h[k] = v
    BY <1>1, <1>2, <1>7
  <2>2. SumOf(h) + g[k] = SumOf(g) + h[k] /\ g[k] \in Nat /\ g[k] <= SumOf(g)
    <3>1. \A x \in DOMAIN g : x # k => h[x] = g[x]
      BY <1>1, <1>2
    <3>2. QED
      BY <1>5, <1>7, <2>1, <3>1, SumOfChanged
  <2>3. QED
    BY <1>6, <2>1, <2>2
<1>8. ASSUME k \notin DOMAIN g PROVE SumOf(h) = SumOf(g) + v
  <2>1. OneMore(h, g, k) /\ h[k] = v
    BY <1>1, <1>2, <1>8 DEF OneMore
  <2>2. QED
    BY <1>5, <2>1, SumOfOneMore
<1>9. QED
  BY <1>5, <1>7, <1>8

LEMMA SumOfWithout ==
    ASSUME NEW g, NEW k, Summable(g), NEW h, h = [x \in DOMAIN g \ {k} |-> g[x]]
    PROVE  /\ Summable(h)
           /\ k \in DOMAIN g => /\ g[k] \in Nat /\ g[k] <= SumOf(g)
                                /\ SumOf(h) = SumOf(g) - g[k]
           /\ k \notin DOMAIN g => SumOf(h) = SumOf(g)
<1>1. DOMAIN h = DOMAIN g \ {k} /\ IsFiniteSet(DOMAIN h)
  BY FS_RemoveElement DEF Summable
<1>2. \A x \in DOMAIN h : h[x] = g[x]
  OBVIOUS
<1>3. h = [x \in DOMAIN h |-> h[x]]
  OBVIOUS
<1>4. Summable(h)
  BY <1>1, <1>2, <1>3 DEF Summable
<1>5. SumOf(g) \in Nat /\ SumOf(h) \in Nat
  BY <1>4, SumOfNat
<1>6. ASSUME k \in DOMAIN g
      PROVE  g[k] \in Nat /\ g[k] <= SumOf(g) /\ SumOf(h) = SumOf(g) - g[k]
  <2>1. OneMore(g, h, k)
    BY <1>1, <1>2, <1>6 DEF OneMore
  <2>2. SumOf(g) = SumOf(h) + g[k] /\ g[k] \in Nat
    BY <1>4, <2>1, SumOfOneMore
  <2>3. QED
    BY <1>5, <2>2
<1>7. ASSUME k \notin DOMAIN g PROVE SumOf(h) = SumOf(g)
  <2>1. g = [x \in DOMAIN g |-> g[x]] /\ DOMAIN g \ {k} = DOMAIN g
    BY <1>7 DEF Summable
  <2>2. h = g
    BY <2>1
  <2>3. QED
    BY <2>2
<1>8. QED
  BY <1>4, <1>6, <1>7

-----------------------------------------------------------------------------
(* Folds over sequences.  FoldsTo says that v is what a fold of the        *)
(* function F over ms arrives at, starting with base: the values on the    *)
(* way are a chain.                                                        *)

FoldsTo(R, F, base, ms, v) ==
    \E c \in [0..Len(ms) -> R] :
        /\ c[0] = base
        /\ \A k \in 1..Len(ms) : c[k] = F[<<c[k - 1], ms[k]>>]
        /\ v = c[Len(ms)]

\* A nonempty set of positions has a last one.
LEMMA LastPosition ==
    ASSUME NEW n \in Nat, NEW s \in SUBSET (1..n), s # {}
    PROVE  Max(s) \in s /\ \A y \in s : Max(s) >= y
<1> DEFINE N == {n - x : x \in s}
<1>1. N \in SUBSET Nat /\ N # {}
  <2>1. \A x \in s : n - x \in Nat
    OBVIOUS
  <2>2. N \subseteq Nat
    BY <2>1
  <2>3. PICK x \in s : TRUE
    OBVIOUS
  <2>4. n - x \in N
    OBVIOUS
  <2>5. QED
    BY <2>2, <2>4
<1>2. PICK m \in N : \A y \in N : m <= y
  <2> HIDE DEF N
  <2>1. QED
    BY <1>1, LeastNumber
<1>3. PICK x \in s : m = n - x
  OBVIOUS
<1>4. \A y \in s : x >= y
  <2> SUFFICES ASSUME NEW y \in s PROVE x >= y
    OBVIOUS
  <2>1. n - x <= n - y
    BY <1>2, <1>3
  <2>2. x \in Nat /\ y \in Nat
    OBVIOUS
  <2>3. QED
    BY <2>1, <2>2
<1>5. QED
  BY <1>4 DEF Max

LEMMA LastOfPrefix ==
    ASSUME NEW n \in Nat, NEW k \in 1..n
    PROVE  /\ 1..k \in SUBSET (1..n) /\ 1..k # {}
           /\ Max(1..k) = k /\ (1..k) \ {k} = 1..(k - 1)
<1>1. 1..k \in SUBSET (1..n) /\ k \in 1..k
  OBVIOUS
<1>2. Max(1..k) \in 1..k /\ \A y \in 1..k : Max(1..k) >= y
  BY <1>1, LastPosition
<1>3. Max(1..k) = k
  BY <1>1, <1>2
<1>4. QED
  BY <1>1, <1>3

\* Induction up to n, for a set of numbers.
LEMMA UpTo ==
    ASSUME NEW n \in Nat, NEW T, 0 \in T, \A k \in 1..n : k - 1 \in T => k \in T
    PROVE  \A k \in 0..n : k \in T
<1> DEFINE Bad == {k \in 0..n : k \notin T}
<1>1. Bad \in SUBSET Nat
  OBVIOUS
<1>2. ASSUME NEW m \in Bad, \A k \in Bad : m <= k PROVE FALSE
  <2>1. m \in 0..n /\ m \notin T /\ m # 0
    OBVIOUS
  <2>2. m - 1 \in 0..n /\ m - 1 \notin Bad
    BY <1>2, <2>1
  <2>3. QED
    BY <2>1, <2>2
<1>3. Bad = {}
  <2> HIDE DEF Bad
  <2>1. QED
    BY <1>1, <1>2, LeastNumber
<1>4. QED
  BY <1>3

SolvesFold(f, F, base, ms) ==
    \A s \in SUBSET DOMAIN ms :
        f[s] = IF s = {} THEN base ELSE F[<<f[s \ {Max(s)}], ms[Max(s)]>>]

\* The recursion that FoldLeft of the community modules stands for has a
\* solution.
LEMMA FoldSolution ==
    ASSUME NEW R, NEW M, NEW F \in [R \X M -> R], NEW base \in R, NEW ms \in Seq(M)
    PROVE  \E f \in [SUBSET DOMAIN ms -> R] : SolvesFold(f, F, base, ms)
<1> DEFINE S == DOMAIN ms
           v == [s \in {{}} |-> base]
           ch == [s \in SUBSET S |-> Max(s)]
           add == [s \in SUBSET S |-> [r \in R |-> F[<<r, ms[Max(s)]>>]]]
<1>1. S = 1..Len(ms) /\ Len(ms) \in Nat /\ IsFiniteSet(S)
  BY FS_Interval
<1>2. ASSUME NEW s \in SUBSET S, s # {} PROVE Max(s) \in s
  BY <1>1, <1>2, LastPosition
<1>3. ASSUME NEW s \in SUBSET S, s \notin {{}}
      PROVE  ch[s] \in s /\ \A y \in R : add[s][y] \in R
  <2>1. Max(s) \in s /\ ms[Max(s)] \in M
    BY <1>1, <1>2, <1>3
  <2>2. QED
    BY <2>1
<1>4. \A s \in SUBSET S : s \in {{}} => v[s] \in R
  OBVIOUS
<1>5. StaysIn(S, R, {{}}, v, ch, add)
  <2> HIDE DEF v, ch, add, S
  <2>1. QED
    BY <1>3, <1>4 DEF StaysIn
<1>6. PICK f \in [SUBSET S -> R] : IsRecursive(f, S, {{}}, v, ch, add)
  <2> HIDE DEF v, ch, add, S
  <2>1. QED
    BY <1>1, <1>5, RecursionExists
<1>7. ASSUME NEW s \in SUBSET S
      PROVE  f[s] = IF s = {} THEN base ELSE F[<<f[s \ {Max(s)}], ms[Max(s)]>>]
  <2>1. f[s] = IF s \in {{}} THEN v[s] ELSE add[s][f[s \ {ch[s]}]]
    <3> HIDE DEF v, ch, add, S
    <3>1. QED
      BY <1>6 DEF IsRecursive
  <2>2. f[s \ {Max(s)}] \in R
    <3> HIDE DEF S
    <3>1. QED
      BY <1>6
  <2>3. QED
    BY <2>1, <2>2
<1>8. QED
  BY <1>6, <1>7 DEF SolvesFold

\* A function that solves it on the prefixes of ms computes the fold.
LEMMA FoldIsChain ==
    ASSUME NEW R, NEW F, NEW base \in R, NEW n \in Nat, NEW ms, Len(ms) = n,
           NEW it, it[{}] = base,
           \A k \in 1..n : it[1..(k - 1)] \in R =>
               it[1..k] = F[<<it[1..(k - 1)], ms[k]>>] /\ it[1..k] \in R
    PROVE  FoldsTo(R, F, base, ms, it[1..n])
<1> DEFINE T == {k \in 0..n : it[1..k] \in R}
           c == [k \in 0..n |-> it[1..k]]
<1>1. 1..0 = {}
  OBVIOUS
<1>2. \A k \in 1..n : k - 1 \in T => k \in T
  <2> SUFFICES ASSUME NEW k \in 1..n, k - 1 \in T PROVE k \in T
    OBVIOUS
  <2>1. it[1..(k - 1)] \in R /\ k \in 0..n
    OBVIOUS
  <2>2. it[1..k] \in R
    BY <2>1
  <2>3. QED
    BY <2>1, <2>2
<1>3. 0 \in T
  BY <1>1
<1>4. \A k \in 0..n : k \in T
  <2> HIDE DEF T
  <2>1. QED
    BY <1>2, <1>3, UpTo
<1>5. c \in [0..n -> R]
  BY <1>4
<1>6. c[0] = base
  BY <1>1
<1>7. \A k \in 1..n : c[k] = F[<<c[k - 1], ms[k]>>]
  <2> SUFFICES ASSUME NEW k \in 1..n PROVE c[k] = F[<<c[k - 1], ms[k]>>]
    OBVIOUS
  <2>1. k \in 0..n /\ k - 1 \in 0..n
    OBVIOUS
  <2>2. c[k] = it[1..k] /\ c[k - 1] = it[1..(k - 1)]
    BY <2>1
  <2>3. it[1..(k - 1)] \in R
    BY <1>5, <2>1, <2>2
  <2>4. QED
    BY <2>2, <2>3
<1>8. it[1..n] = c[n]
  OBVIOUS
<1> HIDE DEF c
<1>9. QED
  BY <1>5, <1>6, <1>7, <1>8 DEF FoldsTo

\* The two arrive at the same value when they start alike.
LEMMA FoldUnique ==
    ASSUME NEW R, NEW F, NEW base, NEW ms, Len(ms) \in Nat, NEW v, NEW w,
           FoldsTo(R, F, base, ms, v), FoldsTo(R, F, base, ms, w)
    PROVE  v = w
<1>1. PICK c \in [0..Len(ms) -> R] : /\ c[0] = base /\ v = c[Len(ms)]
                                     /\ \A k \in 1..Len(ms) : c[k] = F[<<c[k - 1], ms[k]>>]
  BY DEF FoldsTo
<1>2. PICK e \in [0..Len(ms) -> R] : /\ e[0] = base /\ w = e[Len(ms)]
                                     /\ \A k \in 1..Len(ms) : e[k] = F[<<e[k - 1], ms[k]>>]
  BY DEF FoldsTo
<1> DEFINE T == {k \in 0..Len(ms) : c[k] = e[k]}
<1>3. 0 \in T
  BY <1>1, <1>2
<1>4. \A k \in 1..Len(ms) : k - 1 \in T => k \in T
  <2> SUFFICES ASSUME NEW k \in 1..Len(ms), k - 1 \in T PROVE k \in T
    OBVIOUS
  <2>1. c[k - 1] = e[k - 1] /\ k \in 0..Len(ms)
    OBVIOUS
  <2>2. c[k] = e[k]
    BY <1>1, <1>2, <2>1
  <2>3. QED
    BY <2>1, <2>2
<1>5. \A k \in 0..Len(ms) : k \in T
  <2> HIDE DEF T
  <2>1. QED
    BY <1>3, <1>4, UpTo
<1>6. QED
  BY <1>1, <1>2, <1>5

\* A fold over two sequences is the fold over the second that starts where the
\* fold over the first arrives.
LEMMA FoldConcat ==
    ASSUME NEW R, NEW F, NEW base, NEW M, NEW ms \in Seq(M), NEW ns \in Seq(M),
           NEW v, NEW w, FoldsTo(R, F, base, ms, v), FoldsTo(R, F, v, ns, w)
    PROVE  FoldsTo(R, F, base, ms \o ns, w)
<1> DEFINE a == Len(ms)
           b == Len(ns)
<1>1. PICK c \in [0..a -> R] : /\ c[0] = base /\ v = c[a]
                               /\ \A k \in 1..a : c[k] = F[<<c[k - 1], ms[k]>>]
  BY DEF FoldsTo
<1>2. PICK e \in [0..b -> R] : /\ e[0] = v /\ w = e[b]
                               /\ \A k \in 1..b : e[k] = F[<<e[k - 1], ns[k]>>]
  BY DEF FoldsTo
<1>3. /\ a \in Nat /\ b \in Nat /\ Len(ms \o ns) = a + b
      /\ \A k \in 1..a : (ms \o ns)[k] = ms[k]
      /\ \A k \in (a + 1)..(a + b) : (ms \o ns)[k] = ns[k - a]
  BY ConcatProperties, LenProperties
<1> DEFINE q == ms \o ns
           g == [k \in 0..(a + b) |-> IF k <= a THEN c[k] ELSE e[k - a]]
<1> HIDE DEF a, b, q
<1>4. \A k \in 0..(a + b) : k <= a => k \in 0..a
  BY <1>3
<1>5. \A k \in 0..(a + b) : ~(k <= a) => k - a \in 1..b
  BY <1>3
<1>6. g \in [0..(a + b) -> R]
  <2> SUFFICES ASSUME NEW k \in 0..(a + b) PROVE (IF k <= a THEN c[k] ELSE e[k - a]) \in R
    OBVIOUS
  <2>1. CASE k <= a
    BY <1>1, <1>4, <2>1
  <2>2. CASE ~(k <= a)
    BY <1>2, <1>3, <1>5, <2>2
  <2>3. QED
    BY <2>1, <2>2
<1>7. g[0] = base
  BY <1>1, <1>3
<1>8. g[a + b] = w
  <2>1. CASE b = 0
    BY <1>1, <1>2, <1>3, <2>1
  <2>2. CASE b # 0
    BY <1>2, <1>3, <2>2
  <2>3. QED
    BY <2>1, <2>2
<1>9. ASSUME NEW k \in 1..(a + b) PROVE g[k] = F[<<g[k - 1], q[k]>>]
  <2>1. k \in 0..(a + b) /\ k - 1 \in 0..(a + b)
    BY <1>3
  <2>2. CASE k <= a
    <3>1. k \in 1..a /\ k - 1 <= a
      BY <1>3, <2>2
    <3>2. g[k] = c[k] /\ g[k - 1] = c[k - 1] /\ q[k] = ms[k]
      BY <1>3, <2>1, <2>2, <3>1 DEF q
    <3>3. QED
      BY <1>1, <3>1, <3>2
  <2>3. CASE k = a + 1
    <3>a. a \in Nat /\ b \in Nat
      BY <1>3
    <3>1. k - a = 1 /\ 1 \in 1..b /\ k - 1 = a /\ k \in (a + 1)..(a + b) /\ ~(k <= a) /\ a <= a
      BY <2>3, <3>a
    <3>2. g[k] = e[1] /\ g[k - 1] = c[a] /\ q[k] = ns[1]
      BY <1>3, <2>1, <3>1 DEF q
    <3>3. e[1] = F[<<e[1 - 1], ns[1]>>] /\ 1 - 1 = 0
      BY <1>2, <3>1
    <3>4. QED
      BY <1>1, <1>2, <3>2, <3>3
  <2>4. CASE k > a + 1
    <3>1. /\ k - a \in 1..b /\ ~(k <= a) /\ ~(k - 1 <= a) /\ k \in (a + 1)..(a + b)
          /\ (k - 1) - a = (k - a) - 1
      BY <1>3, <2>4
    <3>2. g[k] = e[k - a] /\ g[k - 1] = e[(k - a) - 1] /\ q[k] = ns[k - a]
      BY <1>3, <2>1, <3>1 DEF q
    <3>3. QED
      BY <1>2, <3>1, <3>2
  <2>5. QED
    BY <1>3, <2>2, <2>3, <2>4
<1> HIDE DEF g
<1>10. QED
  BY <1>3, <1>6, <1>7, <1>8, <1>9 DEF FoldsTo, q

\* The fold over nothing, over one element and over one more.
LEMMA FoldEmpty ==
    ASSUME NEW R, NEW F, NEW base \in R
    PROVE  FoldsTo(R, F, base, <<>>, base)
<1>1. /\ [k \in 0..0 |-> base] \in [0..Len(<<>>) -> R]
      /\ [k \in 0..0 |-> base][0] = base /\ Len(<<>>) = 0 /\ 1..0 = {}
  OBVIOUS
<1>2. QED
  BY <1>1 DEF FoldsTo

LEMMA FoldOne ==
    ASSUME NEW R, NEW F, NEW base \in R, NEW m, F[<<base, m>>] \in R
    PROVE  FoldsTo(R, F, base, <<m>>, F[<<base, m>>])
<1> DEFINE c == [k \in 0..1 |-> IF k = 0 THEN base ELSE F[<<base, m>>]]
<1>1. c \in [0..1 -> R] /\ Len(<<m>>) = 1 /\ <<m>>[1] = m
  OBVIOUS
<1>2. c[0] = base /\ c[1] = F[<<base, m>>] /\ 1 - 1 = 0 /\ \A k \in 1..1 : k = 1
  OBVIOUS
<1> HIDE DEF c
<1>3. \A k \in 1..Len(<<m>>) : c[k] = F[<<c[k - 1], <<m>>[k]>>]
  BY <1>1, <1>2
<1>4. QED
  BY <1>1, <1>2, <1>3 DEF FoldsTo

LEMMA FoldType ==
    ASSUME NEW R, NEW F, NEW base, NEW ms, Len(ms) \in Nat, NEW v, FoldsTo(R, F, base, ms, v)
    PROVE  v \in R
BY DEF FoldsTo

\* A function that solves the recursion of a fold on all prefixes is the fold.
LEMMA FoldOf ==
    ASSUME NEW R, NEW M, NEW F \in [R \X M -> R], NEW base \in R, NEW ms \in Seq(M), NEW it,
           it[{}] = base,
           \A s \in SUBSET DOMAIN ms :
               s # {} /\ it[s \ {Max(s)}] \in R =>
                   it[s] = F[<<it[s \ {Max(s)}], ms[Max(s)]>>]
    PROVE  FoldsTo(R, F, base, ms, it[DOMAIN ms])
<1> DEFINE n == Len(ms)
<1>1. n \in Nat /\ DOMAIN ms = 1..n /\ \A k \in 1..n : ms[k] \in M
  OBVIOUS
<1>2. ASSUME NEW k \in 1..n, it[1..(k - 1)] \in R
      PROVE  it[1..k] = F[<<it[1..(k - 1)], ms[k]>>] /\ it[1..k] \in R
  <2>1. /\ 1..k \in SUBSET DOMAIN ms /\ 1..k # {}
        /\ Max(1..k) = k /\ (1..k) \ {k} = 1..(k - 1)
    BY <1>1, LastOfPrefix
  <2>2. it[1..k] = F[<<it[1..(k - 1)], ms[k]>>]
    BY <1>2, <2>1
  <2>3. QED
    BY <1>1, <1>2, <2>2
<1> HIDE DEF n
<1>3. Len(ms) = n
  BY DEF n
<1>4. FoldsTo(R, F, base, ms, it[1..n])
  BY <1>1, <1>2, <1>3, FoldIsChain
<1>5. QED
  BY <1>1, <1>4

\* The last element of a part of a sequence.
LEMMA LastElement ==
    ASSUME NEW M, NEW ms \in Seq(M), NEW s \in SUBSET DOMAIN ms, s # {}
    PROVE  ms[Max(s)] \in M /\ s \ {Max(s)} \in SUBSET DOMAIN ms
<1>1. Len(ms) \in Nat /\ DOMAIN ms = 1..Len(ms) /\ \A k \in 1..Len(ms) : ms[k] \in M
  OBVIOUS
<1>2. Max(s) \in s
  BY <1>1, LastPosition
<1>3. QED
  BY <1>1, <1>2

\* Two folds over the same sequence, in step.
LEMMA FoldPair ==
    ASSUME NEW R, NEW S, NEW F, NEW G, NEW b, NEW c, NEW M, NEW ms \in Seq(M), NEW v, NEW w,
           FoldsTo(R, F, b, ms, v), FoldsTo(S, G, c, ms, w), NEW P, <<b, c>> \in P,
           \A r \in R, s \in S, m \in M : <<r, s>> \in P => <<F[<<r, m>>], G[<<s, m>>]>> \in P
    PROVE  <<v, w>> \in P
<1> DEFINE n == Len(ms)
<1>1. n \in Nat /\ \A k \in 1..n : ms[k] \in M
  OBVIOUS
<1>2. PICK f \in [0..n -> R] : /\ f[0] = b /\ v = f[n]
                               /\ \A k \in 1..n : f[k] = F[<<f[k - 1], ms[k]>>]
  BY DEF FoldsTo
<1>3. PICK g \in [0..n -> S] : /\ g[0] = c /\ w = g[n]
                               /\ \A k \in 1..n : g[k] = G[<<g[k - 1], ms[k]>>]
  BY DEF FoldsTo
<1> DEFINE T == {k \in 0..n : <<f[k], g[k]>> \in P}
<1>4. 0 \in T
  BY <1>1, <1>2, <1>3
<1>5. ASSUME NEW k \in 1..n, k - 1 \in T PROVE k \in T
  <2>1. k - 1 \in 0..n /\ k \in 0..n
    BY <1>1
  <2>2. <<f[k - 1], g[k - 1]>> \in P /\ f[k - 1] \in R /\ g[k - 1] \in S /\ ms[k] \in M
    BY <1>1, <1>2, <1>3, <1>5, <2>1
  <2>3. <<F[<<f[k - 1], ms[k]>>], G[<<g[k - 1], ms[k]>>]>> \in P
    BY <2>2
  <2>4. QED
    BY <1>2, <1>3, <2>1, <2>3
<1> HIDE DEF T, n
<1>6. T \subseteq 0..n
  BY DEF T
<1>7. \A k \in 0..n : k \in T
  <2>1. \A k \in 1..n : k - 1 \in T => k \in T
    BY <1>5
  <2>2. QED
    BY <1>1, <1>4, <2>1, UpTo
<1>8. QED
  BY <1>1, <1>2, <1>3, <1>7 DEF T

LEMMA AppendTwo ==
    ASSUME NEW c, NEW m
    PROVE  Append(<<c>>, m) = <<c, m>>
<1> DEFINE s == Append(<<c>>, m)
           t == <<c, m>>
<1>1. <<c>> \in Seq({c, m}) /\ Len(<<c>>) = 1 /\ <<c>>[1] = c
  OBVIOUS
<1>2. s \in Seq({c, m}) /\ Len(s) = 2 /\ s[1] = c /\ s[2] = m
  BY <1>1, AppendProperties
<1>3. t \in Seq({c, m}) /\ Len(t) = 2 /\ t[1] = c /\ t[2] = m
  OBVIOUS
<1>4. \A i \in 1..2 : i = 1 \/ i = 2
  OBVIOUS
<1> HIDE DEF s, t
<1>5. \A i \in 1..Len(s) : s[i] = t[i]
  BY <1>2, <1>3, <1>4
<1>6. s = t
  BY <1>2, <1>3, <1>5, SeqEqual
<1>7. QED
  BY <1>6 DEF s, t

LEMMA ConcatTwo ==
    ASSUME NEW c, NEW m
    PROVE  <<c>> \o <<m>> = <<c, m>>
<1> DEFINE s == <<c>> \o <<m>>
           t == <<c, m>>
<1>1. /\ <<c>> \in Seq({c, m}) /\ Len(<<c>>) = 1 /\ <<c>>[1] = c
      /\ <<m>> \in Seq({c, m}) /\ Len(<<m>>) = 1 /\ <<m>>[1] = m
  OBVIOUS
<1>2. s \in Seq({c, m}) /\ Len(s) = 2 /\ s[1] = c /\ s[2] = m
  BY <1>1, ConcatProperties
<1>3. t \in Seq({c, m}) /\ Len(t) = 2 /\ t[1] = c /\ t[2] = m
  OBVIOUS
<1>4. \A i \in 1..2 : i = 1 \/ i = 2
  OBVIOUS
<1> HIDE DEF s, t
<1>5. \A i \in 1..Len(s) : s[i] = t[i]
  BY <1>2, <1>3, <1>4
<1>6. s = t
  BY <1>2, <1>3, <1>5, SeqEqual
<1>7. QED
  BY <1>6 DEF s, t

=============================================================================
