------------------------ MODULE SearchEvaluator_proofs ------------------------
(***************************************************************************)
(* What the search evaluator computes, for every database and request:     *)
(* selections keep the order, the insertion sort sorts, a cursor cuts a    *)
(* sorted list in two, the scan that keeps only a window keeps the one     *)
(* that is cut afterwards, a query has an outcome on every document, and   *)
(* what the buckets and sums of the aggregations hold.                     *)
(***************************************************************************)
EXTENDS SearchEvaluator, FiniteRecursion, SequenceTheorems

-----------------------------------------------------------------------------
(***************************************************************************)
(* Lists of the elements of a set in a strict order, given as a set of     *)
(* pairs.                                                                  *)
(***************************************************************************)

StrictOrder(S, R) ==
    /\ \A x \in S : <<x, x>> \notin R
    /\ \A x, y \in S : x # y => <<x, y>> \in R \/ <<y, x>> \in R
    /\ \A x, y, z \in S : <<x, y>> \in R /\ <<y, z>> \in R => <<x, z>> \in R

\* The list s holds the elements of S, each once, in the order R.
Lists(s, S, R) ==
    /\ s \in Seq(S)
    /\ \A x \in S : \E i \in 1..Len(s) : s[i] = x
    /\ \A i, j \in 1..Len(s) : i < j => <<s[i], s[j]>> \in R

\* How many elements are before x.
Rank(S, R, x) == Cardinality({y \in S : <<y, x>> \in R})

LEMMA RankGrows ==
    ASSUME NEW S, IsFiniteSet(S), NEW R, StrictOrder(S, R)
    PROVE  /\ \A x \in S : Rank(S, R, x) \in 0..(Cardinality(S) - 1)
           /\ \A x, y \in S : <<x, y>> \in R => Rank(S, R, x) < Rank(S, R, y)
<1> DEFINE B(x) == {y \in S : <<y, x>> \in R}
<1>1. ASSUME NEW x \in S PROVE IsFiniteSet(B(x)) /\ Rank(S, R, x) \in Nat
  <2>1. IsFiniteSet(B(x))
    BY FS_Subset
  <2>2. QED
    BY <2>1, FS_CardinalityType DEF Rank
<1>2. Cardinality(S) \in Nat
  BY FS_CardinalityType
<1>3. ASSUME NEW x \in S PROVE Rank(S, R, x) < Cardinality(S)
  <2>1. B(x) \in SUBSET S /\ B(x) # S
    BY DEF StrictOrder
  <2>2. Cardinality(B(x)) <= Cardinality(S) /\ Cardinality(S) # Cardinality(B(x))
    BY <2>1, FS_Subset
  <2>3. QED
    BY <1>1, <1>2, <2>2 DEF Rank
<1>4. ASSUME NEW x \in S, NEW y \in S, <<x, y>> \in R PROVE Rank(S, R, x) < Rank(S, R, y)
  <2>1. B(x) \in SUBSET B(y)
    BY <1>4 DEF StrictOrder
  <2>2. x \in B(y) /\ x \notin B(x)
    BY <1>4 DEF StrictOrder
  <2>3. Cardinality(B(x)) <= Cardinality(B(y)) /\ Cardinality(B(y)) # Cardinality(B(x))
    BY <1>1, <2>1, <2>2, FS_Subset
  <2>4. QED
    BY <1>1, <2>3 DEF Rank
<1>5. ASSUME NEW x \in S PROVE Rank(S, R, x) \in 0..(Cardinality(S) - 1)
  <2>1. Rank(S, R, x) \in Nat /\ Rank(S, R, x) < Cardinality(S)
    BY <1>1, <1>3
  <2>2. QED
    BY <1>2, <2>1
<1>6. QED
  BY <1>4, <1>5

\* Listed lists a finite set in a strict order.
LEMMA ListedLists ==
    ASSUME NEW S, IsFiniteSet(S), NEW R, StrictOrder(S, R)
    PROVE  Lists(Listed(S, R), S, R) /\ Len(Listed(S, R)) = Cardinality(S)
<1> DEFINE n == Cardinality(S)
           rank == [x \in S |-> Rank(S, R, x)]
           t == Listed(S, R)
<1>1. n \in Nat /\ IsFiniteSet(0..(n - 1)) /\ Cardinality(0..(n - 1)) = n
  <2>1. n \in Nat
    BY FS_CardinalityType
  <2> HIDE DEF n
  <2>2. 0 \in Int /\ n - 1 \in Int /\ (0 > n - 1 => n = 0) /\ (n - 1) - 0 + 1 = n
    BY <2>1
  <2>3. QED
    BY <2>1, <2>2, FS_Interval
<1>2. rank \in [S -> 0..(n - 1)]
  BY RankGrows
<1>3. rank \in Injection(S, 0..(n - 1))
  <2>1. ASSUME NEW x \in S, NEW y \in S, x # y PROVE rank[x] # rank[y]
    <3>1. <<x, y>> \in R \/ <<y, x>> \in R
      BY <2>1 DEF StrictOrder
    <3>2. rank[x] < rank[y] \/ rank[y] < rank[x]
      BY <3>1, RankGrows
    <3>3. QED
      BY <1>1, <1>2, <3>2
  <2>2. IsInjective(rank)
    BY <2>1 DEF IsInjective
  <2>3. QED
    BY <1>2, <2>2 DEF Injection
<1>4. rank \in Surjection(S, 0..(n - 1))
  BY <1>1, <1>3, FS_Injection
<1>5. ASSUME NEW i \in 1..n PROVE t[i] \in S /\ rank[t[i]] = i - 1
  <2>1. i - 1 \in 0..(n - 1)
    BY <1>1
  <2>2. \E x \in S : rank[x] = i - 1
    BY <1>4, <2>1 DEF Surjection
  <2>3. \E x \in S : Cardinality({y \in S : <<y, x>> \in R}) = i - 1
    BY <2>2 DEF Rank
  <2>4. t[i] = CHOOSE x \in S : Cardinality({y \in S : <<y, x>> \in R}) = i - 1
    BY DEF Listed
  <2>5. t[i] \in S /\ Cardinality({y \in S : <<y, t[i]>> \in R}) = i - 1
    BY <2>3, <2>4
  <2>6. QED
    BY <2>5 DEF Rank
<1>6. t \in Seq(S) /\ Len(t) = n
  <2> DEFINE e(i) == CHOOSE x \in S : Cardinality({y \in S : <<y, x>> \in R}) = i - 1
  <2>1. t = [i \in 1..n |-> e(i)]
    BY DEF Listed
  <2> HIDE DEF t, n, e
  <2>2. t \in [1..n -> S]
    <3>1. \A i \in 1..n : t[i] \in S
      BY <1>5
    <3>2. QED
      BY <2>1, <3>1
  <2>3. QED
    BY <1>1, <2>2
<1> HIDE DEF t
<1>7. ASSUME NEW x \in S PROVE \E i \in 1..Len(t) : t[i] = x
  <2>1. rank[x] + 1 \in 1..n
    BY <1>1, <1>2
  <2>2. t[rank[x] + 1] \in S /\ rank[t[rank[x] + 1]] = rank[x]
    BY <1>1, <1>2, <1>5, <2>1
  <2>3. t[rank[x] + 1] = x
    BY <1>3, <2>2 DEF Injection, IsInjective
  <2>4. QED
    BY <1>6, <2>1, <2>3
<1>8. ASSUME NEW i \in 1..Len(t), NEW j \in 1..Len(t), i < j PROVE <<t[i], t[j]>> \in R
  <2>1. t[i] \in S /\ t[j] \in S /\ rank[t[i]] = i - 1 /\ rank[t[j]] = j - 1
    BY <1>5, <1>6
  <2>2. t[i] # t[j] /\ ~(rank[t[j]] < rank[t[i]])
    BY <1>1, <1>6, <1>8, <2>1
  <2>3. QED
    BY <2>1, <2>2, RankGrows DEF StrictOrder
<1>9. QED
  BY <1>6, <1>7, <1>8 DEF Lists, t

Less(I) == {p \in I \X I : p[1] < p[2]}

LEMMA LessIsOrder ==
    ASSUME NEW I \in SUBSET Int
    PROVE  StrictOrder(I, Less(I)) /\ \A i, j \in I : <<i, j>> \in Less(I) <=> i < j
<1>1. ASSUME NEW i \in I, NEW j \in I PROVE <<i, j>> \in Less(I) <=> i < j
  BY DEF Less
<1>2. \A i, j, k \in I : ~(i < i) /\ (i # j => i < j \/ j < i) /\ (i < j /\ j < k => i < k)
  OBVIOUS
<1>3. StrictOrder(I, Less(I))
  BY <1>1, <1>2 DEF StrictOrder
<1>4. QED
  BY <1>1, <1>3

\* f lists the positions that t takes from s.
Picks(t, s, I, f) ==
    /\ Lists(f, I, Less(I)) /\ Len(f) \in Nat /\ Len(t) = Len(f)
    /\ \A j \in 1..Len(f) : f[j] \in I /\ t[j] = s[f[j]]
    /\ \A i, j \in 1..Len(f) : i < j => f[i] < f[j]

LEMMA AtPicks ==
    ASSUME NEW M, NEW s \in Seq(M), NEW I \in SUBSET DOMAIN s
    PROVE  /\ At(s, I) \in Seq(M) /\ Len(At(s, I)) = Cardinality(I)
           /\ \E f : Picks(At(s, I), s, I, f)
<1> DEFINE f == Listed(I, Less(I))
           t == At(s, I)
<1>1. I \in SUBSET Int /\ IsFiniteSet(I) /\ Cardinality(I) \in Nat
  <2>1. Len(s) \in Nat /\ DOMAIN s = 1..Len(s) /\ IsFiniteSet(1..Len(s))
    BY FS_Interval
  <2>2. IsFiniteSet(I)
    BY <2>1, FS_Subset
  <2>3. QED
    BY <2>1, <2>2, FS_CardinalityType
<1>2. Lists(f, I, Less(I)) /\ Len(f) = Cardinality(I)
  BY <1>1, LessIsOrder, ListedLists
<1>3. t = [j \in DOMAIN f |-> s[f[j]]]
  BY DEF At, Less
<1> HIDE DEF f, t
<1>4. DOMAIN f = 1..Len(f) /\ Len(f) \in Nat /\ \A j \in 1..Len(f) : f[j] \in I
  BY <1>1, <1>2 DEF Lists
<1>5. \A j \in 1..Len(f) : s[f[j]] \in M
  BY <1>4
<1>6. t \in [1..Len(f) -> M]
  BY <1>3, <1>4, <1>5
<1>7. t \in Seq(M) /\ Len(t) = Len(f)
  BY <1>4, <1>6
<1>8. \A i, j \in 1..Len(f) : i < j => f[i] < f[j]
  BY <1>1, <1>2, <1>4, LessIsOrder DEF Lists
<1>9. Picks(t, s, I, f)
  BY <1>2, <1>3, <1>4, <1>7, <1>8 DEF Picks
<1>10. QED
  BY <1>2, <1>7, <1>9 DEF t

\* A selection of a list is a list of what it selects.
LEMMA AtLists ==
    ASSUME NEW S, NEW R, NEW s, Lists(s, S, R), NEW T \in SUBSET S
    PROVE  Lists(At(s, {i \in DOMAIN s : s[i] \in T}), T, R)
<1> DEFINE I == {i \in DOMAIN s : s[i] \in T}
           t == At(s, I)
<1>1. s \in Seq(S) /\ DOMAIN s = 1..Len(s) /\ I \in SUBSET DOMAIN s
  BY DEF Lists
<1>2. t \in Seq(S)
  BY <1>1, AtPicks
<1>3. PICK f : Picks(t, s, I, f)
  BY <1>1, AtPicks
<1> HIDE DEF t
<1>4. Len(t) = Len(f) /\ Len(f) \in Nat
  BY <1>3 DEF Picks
<1>5. \A j \in 1..Len(t) : f[j] \in I /\ t[j] = s[f[j]] /\ t[j] \in T
  BY <1>3, <1>4 DEF Picks
<1>6. t \in Seq(T)
  <2>1. t \in [1..Len(t) -> S]
    BY <1>2
  <2>2. t \in [1..Len(t) -> T]
    BY <1>5, <2>1
  <2>3. QED
    BY <1>4, <2>2
<1>7. ASSUME NEW x \in T PROVE \E j \in 1..Len(t) : t[j] = x
  <2>1. PICK i \in 1..Len(s) : s[i] = x
    BY DEF Lists
  <2>2. i \in I
    BY <1>1, <2>1
  <2>3. PICK j \in 1..Len(f) : f[j] = i
    BY <1>3, <2>2 DEF Picks, Lists
  <2>4. QED
    BY <1>4, <1>5, <2>1, <2>3
<1>8. ASSUME NEW i \in 1..Len(t), NEW j \in 1..Len(t), i < j PROVE <<t[i], t[j]>> \in R
  <2>1. f[i] < f[j]
    BY <1>3, <1>4, <1>8 DEF Picks
  <2>2. f[i] \in 1..Len(s) /\ f[j] \in 1..Len(s)
    BY <1>1, <1>5
  <2>3. <<s[f[i]], s[f[j]]>> \in R
    BY <2>1, <2>2 DEF Lists
  <2>4. QED
    BY <1>5, <2>3
<1>9. QED
  BY <1>6, <1>7, <1>8 DEF Lists, t

\* A list is a sequence of different elements.
LEMMA ListsProps ==
    ASSUME NEW S, NEW R, StrictOrder(S, R), NEW s, Lists(s, S, R)
    PROVE  /\ s \in Seq(S) /\ Len(s) \in Nat /\ DOMAIN s = 1..Len(s)
           /\ \A i \in 1..Len(s) : s[i] \in S
           /\ \A i, j \in 1..Len(s) : i # j => s[i] # s[j]
<1>1. s \in Seq(S) /\ Len(s) \in Nat /\ DOMAIN s = 1..Len(s) /\ \A i \in 1..Len(s) : s[i] \in S
  BY DEF Lists
<1>2. ASSUME NEW i \in 1..Len(s), NEW j \in 1..Len(s), i # j PROVE s[i] # s[j]
  <2>1. i < j \/ j < i
    BY <1>1, <1>2
  <2>2. <<s[i], s[j]>> \in R \/ <<s[j], s[i]>> \in R
    BY <2>1 DEF Lists
  <2>3. s[i] \in S /\ <<s[i], s[i]>> \notin R
    BY <1>1 DEF StrictOrder
  <2>4. QED
    BY <2>2, <2>3
<1>3. QED
  BY <1>1, <1>2

\* There is one list only.
LEMMA OneList ==
    ASSUME NEW S, NEW R, StrictOrder(S, R), NEW s, NEW t, Lists(s, S, R), Lists(t, S, R)
    PROVE  s = t
<1>1. /\ s \in Seq(S) /\ Len(s) \in Nat /\ \A i \in 1..Len(s) : s[i] \in S
      /\ t \in Seq(S) /\ Len(t) \in Nat /\ \A i \in 1..Len(t) : t[i] \in S
  BY DEF Lists
<1>2. \A i, j \in 1..Len(s) : i # j => s[i] # s[j]
  BY ListsProps
<1>3. \A i, j \in 1..Len(t) : i # j => t[i] # t[j]
  BY ListsProps
<1> DEFINE Same(i) == i \in 1..Len(s) /\ i \in 1..Len(t) /\ s[i] = t[i]
           Bad == {i \in Nat \ {0} : (i \in 1..Len(s) \/ i \in 1..Len(t)) /\ ~Same(i)}
<1>4. Bad = {}
  <2>1. SUFFICES ASSUME Bad # {} PROVE FALSE
    OBVIOUS
  <2>2. PICK i \in Bad : \A j \in Bad : i <= j
    BY <2>1, LeastNumber
  <2>3. \A k \in 1..(i - 1) : Same(k)
    BY <1>1, <2>2
  <2>4. ASSUME i \in 1..Len(s), i \notin 1..Len(t) PROVE FALSE
    <3>1. PICK j \in 1..Len(t) : t[j] = s[i]
      BY <1>1, <2>4 DEF Lists
    <3>2. j \in 1..(i - 1)
      BY <1>1, <2>2, <2>4
    <3>3. s[j] = s[i] /\ j \in 1..Len(s) /\ j # i
      BY <2>3, <3>1, <3>2
    <3>4. QED
      BY <1>2, <2>4, <3>3
  <2>5. ASSUME i \in 1..Len(t), i \notin 1..Len(s) PROVE FALSE
    <3>1. PICK j \in 1..Len(s) : s[j] = t[i]
      BY <1>1, <2>5 DEF Lists
    <3>2. j \in 1..(i - 1)
      BY <1>1, <2>2, <2>5
    <3>3. t[j] = t[i] /\ j \in 1..Len(t) /\ j # i
      BY <2>3, <3>1, <3>2
    <3>4. QED
      BY <1>3, <2>5, <3>3
  <2>6. i \in 1..Len(s) /\ i \in 1..Len(t) /\ s[i] # t[i]
    BY <2>2, <2>4, <2>5
  <2>7. <<t[i], s[i]>> \in R
    <3>1. PICK j \in 1..Len(t) : t[j] = s[i]
      BY <1>1, <2>6 DEF Lists
    <3>2. ~(j < i)
      <4>1. SUFFICES ASSUME j < i PROVE FALSE
        OBVIOUS
      <4>2. s[j] = s[i] /\ j \in 1..Len(s)
        BY <1>1, <2>3, <3>1, <4>1
      <4>3. QED
        BY <1>2, <2>6, <4>1, <4>2
    <3>3. i < j
      BY <1>1, <2>6, <3>1, <3>2
    <3>4. QED
      BY <2>6, <3>1, <3>3 DEF Lists
  <2>8. <<s[i], t[i]>> \in R
    <3>1. PICK j \in 1..Len(s) : s[j] = t[i]
      BY <1>1, <2>6 DEF Lists
    <3>2. ~(j < i)
      <4>1. SUFFICES ASSUME j < i PROVE FALSE
        OBVIOUS
      <4>2. t[j] = t[i] /\ j \in 1..Len(t)
        BY <1>1, <2>3, <3>1, <4>1
      <4>3. QED
        BY <1>3, <2>6, <4>1, <4>2
    <3>3. i < j
      BY <1>1, <2>6, <3>1, <3>2
    <3>4. QED
      BY <2>6, <3>1, <3>3 DEF Lists
  <2>9. QED
    BY <1>1, <2>6, <2>7, <2>8 DEF StrictOrder
<1>5. \A i \in Nat \ {0} : i \in 1..Len(s) \/ i \in 1..Len(t) => Same(i)
  BY <1>4
<1>6. Len(s) = Len(t)
  <2>1. Len(s) \in 1..Len(s) \/ Len(s) = 0
    BY <1>1
  <2>2. Len(t) \in 1..Len(t) \/ Len(t) = 0
    BY <1>1
  <2>3. QED
    BY <1>1, <1>5, <2>1, <2>2
<1>7. \A i \in 1..Len(s) : s[i] = t[i]
  BY <1>1, <1>5
<1>8. QED
  BY <1>1, <1>6, <1>7, SeqEqual

\* A list of smaller and a list of larger elements.
LEMMA ConcatLists ==
    ASSUME NEW S, NEW T, NEW R, NEW s, NEW t, Lists(s, S, R), Lists(t, T, R),
           \A x \in S, y \in T : <<x, y>> \in R
    PROVE  Lists(s \o t, S \cup T, R)
<1> DEFINE u == s \o t
           a == Len(s)
           b == Len(t)
<1>1. /\ s \in Seq(S \cup T) /\ t \in Seq(S \cup T) /\ a \in Nat /\ b \in Nat
      /\ \A i \in 1..a : s[i] \in S
      /\ \A i \in 1..b : t[i] \in T
  <2>1. s \in Seq(S) /\ t \in Seq(T)
    BY DEF Lists
  <2>2. QED
    BY <2>1, SeqMonotonic
<1>2. /\ u \in Seq(S \cup T) /\ Len(u) = a + b
      /\ \A i \in 1..(a + b) : u[i] = IF i <= a THEN s[i] ELSE t[i - a]
  BY <1>1, ConcatProperties
<1> HIDE DEF u, a, b
<1>3. ASSUME NEW x \in S \cup T PROVE \E i \in 1..Len(u) : u[i] = x
  <2>1. CASE x \in S
    <3>1. PICK i \in 1..a : s[i] = x
      BY <2>1 DEF Lists, a
    <3>2. i \in 1..(a + b) /\ i <= a
      BY <1>1, <3>1
    <3>3. QED
      BY <1>2, <3>1, <3>2
  <2>2. CASE x \in T
    <3>1. PICK i \in 1..b : t[i] = x
      BY <2>2 DEF Lists, b
    <3>2. i + a \in 1..(a + b) /\ ~(i + a <= a) /\ (i + a) - a = i
      BY <1>1, <3>1
    <3>3. u[i + a] = x
      BY <1>2, <3>1, <3>2
    <3>4. QED
      BY <1>2, <3>2, <3>3
  <2>3. QED
    BY <2>1, <2>2
<1>4. ASSUME NEW i \in 1..Len(u), NEW j \in 1..Len(u), i < j PROVE <<u[i], u[j]>> \in R
  <2>1. i \in 1..(a + b) /\ j \in 1..(a + b)
    BY <1>2
  <2>2. CASE j <= a
    <3>1. i \in 1..a /\ j \in 1..a /\ u[i] = s[i] /\ u[j] = s[j]
      BY <1>1, <1>2, <1>4, <2>1, <2>2
    <3>2. QED
      BY <1>4, <3>1 DEF Lists, a
  <2>3. CASE ~(j <= a) /\ i <= a
    <3>1. i \in 1..a /\ j - a \in 1..b /\ u[i] = s[i] /\ u[j] = t[j - a]
      BY <1>1, <1>2, <1>4, <2>1, <2>3
    <3>2. s[i] \in S /\ t[j - a] \in T
      BY <1>1, <3>1
    <3>3. QED
      BY <3>1, <3>2
  <2>4. CASE ~(i <= a)
    <3>1. ~(j <= a)
      BY <1>1, <1>4, <2>1, <2>4
    <3>2. i - a \in 1..b /\ j - a \in 1..b /\ i - a < j - a
      BY <1>1, <1>4, <2>1, <2>4, <3>1
    <3>3. u[i] = t[i - a] /\ u[j] = t[j - a]
      BY <1>2, <2>1, <2>4, <3>1
    <3>4. QED
      BY <3>2, <3>3 DEF Lists, b
  <2>5. QED
    BY <2>2, <2>3, <2>4
<1>5. QED
  BY <1>2, <1>3, <1>4 DEF Lists, u

LEMMA FunctionIsSeq ==
    ASSUME NEW n \in Nat, NEW T, NEW t \in [1..n -> T]
    PROVE  t \in Seq(T) /\ Len(t) = n
OBVIOUS

LEMMA PartOfSeq ==
    ASSUME NEW S, NEW s \in Seq(S), NEW m \in Nat, NEW n \in Nat, m <= n, n <= Len(s)
    PROVE  /\ SubSeq(s, m + 1, n) \in [1..(n - m) -> S] /\ Len(SubSeq(s, m + 1, n)) = n - m
           /\ \A i \in 1..(n - m) : SubSeq(s, m + 1, n)[i] = s[m + i]
<1> DEFINE t == SubSeq(s, m + 1, n)
<1>1. \A i \in (m + 1)..n : s[i] \in S
  OBVIOUS
<1>2. m + 1 \in Int /\ n \in Int /\ n - (m + 1) + 1 = n - m /\ (~(m + 1 <= n) => n - m = 0)
  OBVIOUS
<1>3. t \in Seq(S) /\ Len(t) = n - m /\ \A i \in 1..(n - m) : t[i] = s[(m + 1) + i - 1]
  BY <1>1, <1>2, SubSeqProperties
<1> HIDE DEF t
<1>4. \A i \in 1..(n - m) : (m + 1) + i - 1 = m + i
  OBVIOUS
<1>5. t \in [1..(n - m) -> S]
  BY <1>3
<1>6. QED
  BY <1>3, <1>4, <1>5 DEF t

\* The first n elements of a list, by its last of them.
LEMMA PrefixLists ==
    ASSUME NEW S, NEW R, StrictOrder(S, R), NEW s, Lists(s, S, R), NEW n \in 1..Len(s)
    PROVE  LET last == s[n]
               T == {x \in S : x = last \/ <<x, last>> \in R}
           IN  /\ Lists(SubSeq(s, 1, n), T, R) /\ last \in S
               /\ Len(SubSeq(s, 1, n)) = n /\ SubSeq(s, 1, n)[n] = last
<1> DEFINE last == s[n]
           T == {x \in S : x = last \/ <<x, last>> \in R}
           t == SubSeq(s, 1, n)
<1>1. s \in Seq(S) /\ Len(s) \in Nat /\ \A i \in 1..Len(s) : s[i] \in S
  BY ListsProps
<1>2. Len(t) = n /\ t \in [1..n -> S] /\ \A i \in 1..n : t[i] = s[i]
  <2>1. 0 \in Nat /\ n \in Nat /\ 0 <= n /\ n <= Len(s) /\ 0 + 1 = 1 /\ n - 0 = n
    BY <1>1
  <2>2. \A i \in 1..n : 0 + i = i
    OBVIOUS
  <2>3. /\ SubSeq(s, 0 + 1, n) \in [1..(n - 0) -> S] /\ Len(SubSeq(s, 0 + 1, n)) = n - 0
        /\ \A i \in 1..(n - 0) : SubSeq(s, 0 + 1, n)[i] = s[0 + i]
    BY <1>1, <2>1, PartOfSeq
  <2>4. QED
    BY <2>1, <2>2, <2>3
<1> HIDE DEF t
<1>3. \A i \in 1..n : t[i] \in T
  <2>1. ASSUME NEW i \in 1..n PROVE s[i] \in T
    <3>1. i \in 1..Len(s) /\ (i = n \/ i < n)
      BY <1>1
    <3>2. s[i] \in S /\ (i < n => <<s[i], last>> \in R)
      BY <1>1, <3>1 DEF Lists
    <3>3. QED
      BY <3>1, <3>2
  <2>2. QED
    BY <1>2, <2>1
<1>4. t \in Seq(T)
  <2>1. t \in [1..n -> T]
    BY <1>2, <1>3
  <2>2. n \in Nat
    BY <1>1
  <2> HIDE DEF T
  <2>3. QED
    BY <2>1, <2>2, FunctionIsSeq
<1>5. ASSUME NEW x \in T PROVE \E i \in 1..n : t[i] = x
  <2>1. PICK i \in 1..Len(s) : s[i] = x
    BY DEF Lists
  <2>2. ~(n < i)
    <3>1. SUFFICES ASSUME n < i PROVE FALSE
      OBVIOUS
    <3>2. <<last, x>> \in R
      BY <2>1, <3>1 DEF Lists
    <3>3. last \in S /\ x \in S /\ <<x, x>> \notin R /\ <<last, last>> \notin R
      BY <1>1 DEF StrictOrder
    <3>4. QED
      BY <3>2, <3>3 DEF StrictOrder
  <2>3. i \in 1..n
    BY <1>1, <2>2
  <2>4. QED
    BY <1>2, <2>1, <2>3
<1>6. \A i, j \in 1..n : i < j => <<t[i], t[j]>> \in R
  <2>1. ASSUME NEW i \in 1..n, NEW j \in 1..n, i < j PROVE <<s[i], s[j]>> \in R
    <3>1. i \in 1..Len(s) /\ j \in 1..Len(s)
      BY <1>1
    <3>2. QED
      BY <2>1, <3>1 DEF Lists
  <2>2. QED
    BY <1>2, <2>1
<1>7. Lists(t, T, R)
  BY <1>2, <1>4, <1>5, <1>6 DEF Lists
<1>8. last \in S /\ t[n] = last
  BY <1>1, <1>2
<1>9. QED
  BY <1>2, <1>7, <1>8 DEF t

LEMMA LargestOf ==
    ASSUME NEW n \in Nat, NEW K \in SUBSET (0..n), K # {}
    PROVE  Max(K) \in K /\ \A k \in K : k <= Max(K)
<1> DEFINE Bounds == {n - k : k \in K}
<1>1. Bounds \in SUBSET Nat /\ Bounds # {}
  <2>1. \A k \in K : n - k \in Nat
    OBVIOUS
  <2>2. PICK k \in K : TRUE
    OBVIOUS
  <2>3. n - k \in Bounds
    OBVIOUS
  <2>4. QED
    BY <2>1, <2>3
<1>2. PICK b \in Bounds : \A c \in Bounds : b <= c
  <2> HIDE DEF Bounds
  <2>1. QED
    BY <1>1, LeastNumber
<1>3. PICK k \in K : b = n - k
  BY <1>2
<1>4. ASSUME NEW j \in K PROVE k >= j
  <2>1. n - k <= n - j
    BY <1>2, <1>3
  <2>2. QED
    BY <2>1
<1>5. Max(K) \in K /\ \A j \in K : Max(K) >= j
  BY <1>4 DEF Max
<1>6. QED
  BY <1>5

LEMMA FiniteHasLargest ==
    ASSUME NEW S \in SUBSET Nat, IsFiniteSet(S), S # {}
    PROVE  \E m \in S : \A i \in S : i <= m
<1> DEFINE s == Listed(S, Less(S))
           n == Len(s)
<1>1. Lists(s, S, Less(S)) /\ \A i, j \in S : <<i, j>> \in Less(S) <=> i < j
  <2>1. S \in SUBSET Int
    OBVIOUS
  <2>2. QED
    BY <2>1, LessIsOrder, ListedLists
<1> HIDE DEF s
<1>2. s \in Seq(S) /\ n \in Nat /\ \A i \in 1..n : s[i] \in S
  BY <1>1 DEF Lists
<1>3. n # 0
  <2>1. PICK x \in S : TRUE
    OBVIOUS
  <2>2. PICK i \in 1..n : s[i] = x
    BY <1>1 DEF Lists
  <2>3. QED
    BY <1>2, <2>2
<1>4. ASSUME NEW x \in S PROVE x <= s[n]
  <2>1. PICK i \in 1..n : s[i] = x
    BY <1>1 DEF Lists
  <2>2. n \in 1..n /\ (i = n \/ i < n)
    BY <1>2, <1>3
  <2>3. i < n => <<s[i], s[n]>> \in Less(S)
    BY <1>1, <2>2 DEF Lists
  <2>4. s[i] \in S /\ s[n] \in S
    BY <1>2, <2>2
  <2>5. s[i] = s[n] \/ s[i] < s[n]
    BY <1>1, <2>2, <2>3, <2>4
  <2>6. s[i] \in Nat /\ s[n] \in Nat
    BY <2>4
  <2> HIDE DEF n
  <2>7. QED
    BY <2>1, <2>5, <2>6
<1>5. s[n] \in S
  BY <1>2, <1>3
<1>6. QED
  BY <1>4, <1>5

\* The elements that are before x, as far as s goes.
Stops(s, R, x) == {k \in DOMAIN s : <<s[k], x>> \in R}

\* Behind the last of the elements before it, a new element has its place.
LEMMA InsertLists ==
    ASSUME NEW S, NEW R, NEW x, x \notin S, StrictOrder(S \cup {x}, R), NEW s, Lists(s, S, R)
    PROVE  Lists(InsertAt(s, Max(Stops(s, R, x) \cup {0}) + 1, x), S \cup {x}, R)
<1> DEFINE K == Stops(s, R, x) \cup {0}
           m == Max(K)
           n == Len(s)
           low == SubSeq(s, 1, m)
           high == SubSeq(s, m + 1, n)
           A == {y \in S : <<y, x>> \in R}
           B == {y \in S : <<x, y>> \in R}
<1>1. StrictOrder(S, R)
  BY DEF StrictOrder
<1>2. s \in Seq(S) /\ n \in Nat /\ DOMAIN s = 1..n /\ \A i \in 1..n : s[i] \in S
  BY <1>1, ListsProps
<1>3. m \in K /\ \A k \in K : k <= m
  <2>1. K \in SUBSET (0..n) /\ 0 \in K
    BY <1>2 DEF Stops
  <2>2. QED
    BY <1>2, <2>1, LargestOf
<1>4. m \in 0..n /\ \A k \in 1..n : <<s[k], x>> \in R => k <= m
  BY <1>2, <1>3 DEF Stops
<1>5. m \in 1..n => <<s[m], x>> \in R
  BY <1>2, <1>3 DEF Stops
<1> HIDE DEF K, m, n
<1>6. ASSUME NEW k \in 1..m PROVE <<s[k], x>> \in R /\ k \in 1..n
  <2>1. k \in 1..n /\ m \in 1..n /\ (k = m \/ k < m)
    BY <1>2, <1>4
  <2>2. <<s[m], x>> \in R /\ (k < m => <<s[k], s[m]>> \in R) /\ s[k] \in S /\ s[m] \in S
    BY <1>2, <1>5, <2>1 DEF Lists, n
  <2>3. QED
    BY <2>1, <2>2 DEF StrictOrder
<1>7. ASSUME NEW k \in (m + 1)..n PROVE <<x, s[k]>> \in R /\ k \in 1..n
  <2>1. k \in 1..n /\ ~(k <= m)
    BY <1>2, <1>4
  <2>2. <<s[k], x>> \notin R /\ s[k] \in S
    BY <1>2, <1>4, <2>1
  <2>3. QED
    BY <2>1, <2>2 DEF StrictOrder
<1>8. Len(low) = m /\ low \in [1..m -> S] /\ \A i \in 1..m : low[i] = s[i]
  <2>1. 0 \in Nat /\ m \in Nat /\ 0 <= m /\ m <= n /\ 0 + 1 = 1 /\ m - 0 = m
    BY <1>2, <1>4
  <2>2. \A i \in 1..m : 0 + i = i
    OBVIOUS
  <2>3. /\ SubSeq(s, 0 + 1, m) \in [1..(m - 0) -> S] /\ Len(SubSeq(s, 0 + 1, m)) = m - 0
        /\ \A i \in 1..(m - 0) : SubSeq(s, 0 + 1, m)[i] = s[0 + i]
    <3>1. s \in Seq(S) /\ m <= Len(s)
      BY <1>2, <2>1 DEF n
    <3>2. QED
      BY <2>1, <3>1, PartOfSeq
  <2>4. QED
    BY <2>1, <2>2, <2>3
<1>9. /\ Len(high) = n - m /\ high \in [1..(n - m) -> S]
      /\ \A i \in 1..(n - m) : high[i] = s[m + i]
  <2>1. m \in Nat /\ m <= n
    BY <1>2, <1>4
  <2>2. s \in Seq(S) /\ n \in Nat /\ n <= Len(s)
    BY <1>2 DEF n
  <2>3. QED
    BY <2>1, <2>2, PartOfSeq
<1> HIDE DEF low, high
<1>10. Lists(low, A, R)
  <2>1. \A i \in 1..m : low[i] \in A
    BY <1>2, <1>6, <1>8
  <2>2. low \in [1..m -> A]
    BY <1>8, <2>1
  <2>3. low \in Seq(A)
    <3>1. m \in Nat
      BY <1>2, <1>4
    <3> HIDE DEF A
    <3>2. QED
      BY <2>2, <3>1, FunctionIsSeq
  <2>4. ASSUME NEW y \in A PROVE \E i \in 1..m : low[i] = y
    <3>1. PICK i \in 1..n : s[i] = y
      BY DEF Lists, n
    <3>2. i \in 1..m
      BY <1>2, <1>4, <3>1
    <3>3. QED
      BY <1>8, <3>1, <3>2
  <2>5. ASSUME NEW i \in 1..m, NEW j \in 1..m, i < j PROVE <<low[i], low[j]>> \in R
    <3>1. i \in 1..n /\ j \in 1..n
      BY <1>6
    <3>2. <<s[i], s[j]>> \in R
      BY <2>5, <3>1 DEF Lists, n
    <3>3. QED
      BY <1>8, <3>2
  <2>6. QED
    BY <1>8, <2>3, <2>4, <2>5 DEF Lists
<1>11. Lists(high, B, R)
  <2>0. \A i \in 1..(n - m) : m + i \in (m + 1)..n
    BY <1>2, <1>4
  <2>1. \A i \in 1..(n - m) : high[i] \in B
    BY <1>2, <1>7, <1>9, <2>0
  <2>2. high \in [1..(n - m) -> B]
    BY <1>9, <2>1
  <2>3. high \in Seq(B)
    <3>1. n - m \in Nat
      BY <1>2, <1>4
    <3> HIDE DEF B
    <3>2. QED
      BY <2>2, <3>1, FunctionIsSeq
  <2>4. ASSUME NEW y \in B PROVE \E i \in 1..(n - m) : high[i] = y
    <3>1. PICK i \in 1..n : s[i] = y
      BY DEF Lists, n
    <3>2. ~(i <= m)
      <4>1. SUFFICES ASSUME i \in 1..m PROVE FALSE
        BY <1>2, <1>4
      <4>2. <<y, x>> \in R /\ <<x, y>> \in R
        BY <1>6, <3>1, <4>1
      <4>3. QED
        BY <4>2 DEF StrictOrder
    <3>3. i - m \in 1..(n - m) /\ m + (i - m) = i
      BY <1>2, <1>4, <3>2
    <3>4. QED
      BY <1>9, <3>1, <3>3
  <2>5. ASSUME NEW i \in 1..(n - m), NEW j \in 1..(n - m), i < j PROVE <<high[i], high[j]>> \in R
    <3>1. m + i \in 1..n /\ m + j \in 1..n /\ m + i < m + j
      BY <1>2, <1>4, <2>5
    <3>2. <<s[m + i], s[m + j]>> \in R
      BY <3>1 DEF Lists, n
    <3>3. QED
      BY <1>9, <3>2
  <2>6. QED
    BY <1>9, <2>3, <2>4, <2>5 DEF Lists
<1>12. Lists(<<x>>, {x}, R)
  BY DEF Lists
<1>13. Lists(low \o <<x>>, A \cup {x}, R)
  BY <1>10, <1>12, ConcatLists
<1>14. Lists((low \o <<x>>) \o high, (A \cup {x}) \cup B, R)
  <2>1. \A y \in A \cup {x}, z \in B : <<y, z>> \in R
    BY DEF StrictOrder
  <2>2. QED
    BY <1>11, <1>13, <2>1, ConcatLists
<1>15. (A \cup {x}) \cup B = S \cup {x}
  BY DEF StrictOrder
<1>16. InsertAt(s, m + 1, x) = (low \o <<x>>) \o high
  <2>1. (m + 1) - 1 = m
    BY <1>2, <1>4
  <2>2. QED
    BY <2>1 DEF InsertAt, low, high, n
<1>17. QED
  BY <1>14, <1>15, <1>16 DEF m, K

-----------------------------------------------------------------------------
(***************************************************************************)
(* The order of hits.  f compares the elements of X.                       *)
(***************************************************************************)

Opposite(order) ==
    IF order = "less" THEN "greater" ELSE IF order = "greater" THEN "less" ELSE "equal"

Preorder(X, f) ==
    /\ \A a, b \in X : f[<<a, b>>] \in {"less", "equal", "greater"}
    /\ \A a \in X : f[<<a, a>>] = "equal"
    /\ \A a, b \in X : f[<<b, a>>] = Opposite(f[<<a, b>>])
    /\ \A a, b, c \in X : f[<<a, b>>] # "greater" /\ f[<<b, c>>] # "greater" =>
           f[<<a, c>>] # "greater"

LEMMA PreorderFacts ==
    ASSUME NEW X, NEW f, Preorder(X, f), NEW a \in X, NEW b \in X, NEW c \in X
    PROVE  /\ f[<<a, b>>] = "equal" => f[<<a, c>>] = f[<<b, c>>] /\ f[<<c, a>>] = f[<<c, b>>]
           /\ f[<<a, b>>] # "greater" /\ f[<<b, c>>] = "less" => f[<<a, c>>] = "less"
           /\ f[<<a, b>>] = "less" /\ f[<<b, c>>] # "greater" => f[<<a, c>>] = "less"
<1> DEFINE ab == f[<<a, b>>]
           ba == f[<<b, a>>]
           bc == f[<<b, c>>]
           cb == f[<<c, b>>]
           ac == f[<<a, c>>]
           ca == f[<<c, a>>]
           All == {"less", "equal", "greater"}
<1>1. ab \in All /\ bc \in All /\ ac \in All /\ ba \in All /\ cb \in All /\ ca \in All
  BY DEF Preorder
<1>2. ba = Opposite(ab) /\ cb = Opposite(bc) /\ ca = Opposite(ac)
  BY DEF Preorder
<1>3. /\ ab # "greater" /\ bc # "greater" => ac # "greater"
      /\ ba # "greater" /\ ac # "greater" => bc # "greater"
      /\ ca # "greater" /\ ab # "greater" => cb # "greater"
      /\ cb # "greater" /\ ba # "greater" => ca # "greater"
      /\ bc # "greater" /\ ca # "greater" => ba # "greater"
      /\ ac # "greater" /\ cb # "greater" => ab # "greater"
  BY DEF Preorder
<1> HIDE DEF ab, ba, bc, cb, ac, ca
<1>4. /\ ab = "equal" => ac = bc /\ ca = cb
      /\ ab # "greater" /\ bc = "less" => ac = "less"
      /\ ab = "less" /\ bc # "greater" => ac = "less"
  BY <1>1, <1>2, <1>3 DEF Opposite
<1>5. QED
  BY <1>4 DEF ab, ba, bc, cb, ac, ca

\* The first of some comparisons that decides.
FirstOf(orders) ==
    LET deciding == {i \in DOMAIN orders : orders[i] # "equal"}
    IN  IF deciding = {} THEN "equal" ELSE orders[Min(deciding)]

LEMMA FirstDecides ==
    ASSUME NEW n \in Nat, NEW orders, DOMAIN orders = 1..n
    PROVE  \/ /\ FirstOf(orders) = "equal"
              /\ \A i \in 1..n : orders[i] = "equal"
           \/ \E i \in 1..n : /\ FirstOf(orders) = orders[i] /\ orders[i] # "equal"
                              /\ \A j \in 1..(i - 1) : orders[j] = "equal"
<1> DEFINE D == {i \in DOMAIN orders : orders[i] # "equal"}
<1>1. CASE D = {}
  BY <1>1 DEF FirstOf
<1>2. CASE D # {}
  <2>1. D \in SUBSET Nat
    OBVIOUS
  <2>2. PICK i \in D : \A j \in D : i <= j
    BY <1>2, <2>1, LeastNumber
  <2>3. Min(D) \in D /\ \A j \in D : Min(D) <= j
    BY <2>2 DEF Min
  <2>4. Min(D) = i
    <3>1. i <= Min(D) /\ Min(D) <= i
      BY <2>2, <2>3
    <3>2. i \in Nat /\ Min(D) \in Nat
      BY <2>1, <2>3
    <3> HIDE DEF D
    <3>3. QED
      BY <3>1, <3>2
  <2>5. FirstOf(orders) = orders[i]
    BY <1>2, <2>4 DEF FirstOf
  <2>6. ASSUME NEW j \in 1..(i - 1) PROVE orders[j] = "equal"
    <3>1. j \in 1..n /\ ~(i <= j)
      BY <2>2
    <3>2. QED
      BY <2>2, <3>1
  <2>7. QED
    BY <2>2, <2>5, <2>6
<1>3. QED
  BY <1>1, <1>2

\* Comparing by one preorder after the other.
Lexical(X, n, ord) == [p \in X \X X |-> FirstOf([i \in 1..n |-> ord[i][p]])]

\* How the comparison is decided: at i, or at n + 1 when nothing decides.
DecidedAt(n, ord, p, i, order) ==
    /\ \A j \in 1..(i - 1) : ord[j][p] = "equal"
    /\ i = n + 1 => order = "equal"
    /\ i \in 1..n => order = ord[i][p]
    /\ i \in 1..n => ord[i][p] # "equal"

LEMMA LexicalDecided ==
    ASSUME NEW X, NEW n \in Nat, NEW ord, NEW p \in X \X X
    PROVE  \E i \in 1..(n + 1) : DecidedAt(n, ord, p, i, Lexical(X, n, ord)[p])
<1> DEFINE orders == [i \in 1..n |-> ord[i][p]]
           v == Lexical(X, n, ord)[p]
<1>1. v = FirstOf(orders)
  BY DEF Lexical
<1>2. DOMAIN orders = 1..n /\ \A i \in 1..n : orders[i] = ord[i][p]
  OBVIOUS
<1> HIDE DEF orders, v
<1>3. CASE v = "equal" /\ \A i \in 1..n : orders[i] = "equal"
  <2>1. n + 1 \in 1..(n + 1) /\ ~(n + 1 \in 1..n) /\ 1..((n + 1) - 1) = 1..n
    OBVIOUS
  <2>2. \A j \in 1..((n + 1) - 1) : ord[j][p] = "equal"
    BY <1>2, <1>3, <2>1
  <2>3. DecidedAt(n, ord, p, n + 1, v)
    BY <1>3, <2>1, <2>2 DEF DecidedAt
  <2>4. QED
    BY <2>1, <2>3 DEF v
<1>4. ASSUME NEW i \in 1..n, v = orders[i], orders[i] # "equal",
             \A j \in 1..(i - 1) : orders[j] = "equal"
      PROVE  \E k \in 1..(n + 1) : DecidedAt(n, ord, p, k, v)
  <2>1. i \in 1..(n + 1) /\ i # n + 1 /\ \A j \in 1..(i - 1) : j \in 1..n
    OBVIOUS
  <2>2. \A j \in 1..(i - 1) : ord[j][p] = "equal"
    BY <1>2, <1>4, <2>1
  <2>3. DecidedAt(n, ord, p, i, v)
    BY <1>2, <1>4, <2>1, <2>2 DEF DecidedAt
  <2>4. QED
    BY <2>1, <2>3
<1>5. QED
  BY <1>1, <1>2, <1>3, <1>4, FirstDecides DEF v

\* There is one such place and value.
LEMMA DecidedOnce ==
    ASSUME NEW n \in Nat, NEW ord, NEW p, NEW i \in 1..(n + 1), NEW j \in 1..(n + 1),
           NEW v, NEW w, DecidedAt(n, ord, p, i, v), DecidedAt(n, ord, p, j, w)
    PROVE  i = j /\ v = w
<1>1. ASSUME NEW k \in 1..(n + 1), NEW l \in 1..(n + 1), NEW x, NEW y, k < l,
             DecidedAt(n, ord, p, k, x), DecidedAt(n, ord, p, l, y)
      PROVE  FALSE
  <2>1. k \in 1..n /\ k \in 1..(l - 1)
    BY <1>1
  <2>2. ord[k][p] = "equal" /\ ord[k][p] # "equal"
    BY <1>1, <2>1 DEF DecidedAt
  <2>3. QED
    BY <2>2
<1>2. i = j
  <2>1. i < j \/ j < i \/ i = j
    OBVIOUS
  <2>2. QED
    BY <1>1, <2>1
<1>3. i = n + 1 \/ i \in 1..n
  OBVIOUS
<1>4. v = w
  BY <1>2, <1>3 DEF DecidedAt
<1>5. QED
  BY <1>2, <1>4

LEMMA LexicalPreorder ==
    ASSUME NEW X, NEW n \in Nat, NEW ord, \A i \in 1..n : Preorder(X, ord[i])
    PROVE  Preorder(X, Lexical(X, n, ord))
<1> DEFINE f == Lexical(X, n, ord)
<1>0. ASSUME NEW i \in 1..n, NEW a \in X, NEW b \in X, NEW c \in X
      PROVE  /\ ord[i][<<a, b>>] = "equal" => ord[i][<<a, c>>] = ord[i][<<b, c>>]
             /\ ord[i][<<a, b>>] = "less" /\ ord[i][<<b, c>>] # "greater" =>
                    ord[i][<<a, c>>] = "less"
  <2>1. Preorder(X, ord[i])
    OBVIOUS
  <2> DEFINE ab == ord[i][<<a, b>>]
             ba == ord[i][<<b, a>>]
             bc == ord[i][<<b, c>>]
             cb == ord[i][<<c, b>>]
             ac == ord[i][<<a, c>>]
             ca == ord[i][<<c, a>>]
             All == {"less", "equal", "greater"}
  <2>2. ab \in All /\ bc \in All /\ ac \in All /\ ba \in All /\ cb \in All /\ ca \in All
    BY <2>1 DEF Preorder
  <2>3. ba = Opposite(ab) /\ cb = Opposite(bc) /\ ca = Opposite(ac)
    BY <2>1 DEF Preorder
  <2>4. /\ ab # "greater" /\ bc # "greater" => ac # "greater"
        /\ ba # "greater" /\ ac # "greater" => bc # "greater"
        /\ ca # "greater" /\ ab # "greater" => cb # "greater"
        /\ cb # "greater" /\ ba # "greater" => ca # "greater"
        /\ bc # "greater" /\ ca # "greater" => ba # "greater"
        /\ ac # "greater" /\ cb # "greater" => ab # "greater"
    BY <2>1 DEF Preorder
  <2> HIDE DEF ab, ba, bc, cb, ac, ca
  <2>5. /\ ab = "equal" => ac = bc
        /\ ab = "less" /\ bc # "greater" => ac = "less"
    BY <2>2, <2>3, <2>4 DEF Opposite
  <2>6. QED
    BY <2>5 DEF ab, bc, ac
<1>1. ASSUME NEW a \in X, NEW b \in X
      PROVE  \E i \in 1..(n + 1) : DecidedAt(n, ord, <<a, b>>, i, f[<<a, b>>])
  BY LexicalDecided
<1> HIDE DEF f
<1>2. ASSUME NEW a \in X, NEW b \in X, NEW i \in 1..(n + 1), NEW v,
             DecidedAt(n, ord, <<a, b>>, i, v)
      PROVE  f[<<a, b>>] = v
  BY <1>1, <1>2, DecidedOnce
<1>3. \A a, b \in X, i \in 1..n : /\ ord[i][<<a, b>>] \in {"less", "equal", "greater"}
                                  /\ ord[i][<<a, a>>] = "equal"
                                  /\ ord[i][<<b, a>>] = Opposite(ord[i][<<a, b>>])
  <2>1. ASSUME NEW a \in X, NEW b \in X, NEW i \in 1..n
        PROVE  /\ ord[i][<<a, b>>] \in {"less", "equal", "greater"}
               /\ ord[i][<<a, a>>] = "equal"
               /\ ord[i][<<b, a>>] = Opposite(ord[i][<<a, b>>])
    <3>1. Preorder(X, ord[i])
      OBVIOUS
    <3>2. QED
      BY <3>1 DEF Preorder
  <2>2. QED
    BY <2>1
<1>4. \A i \in 1..(n + 1) : i = n + 1 \/ i \in 1..n
  OBVIOUS
<1>5. \A i \in 1..(n + 1) : \A j \in 1..(i - 1) : j \in 1..n
  OBVIOUS
<1>6. ASSUME NEW a \in X, NEW b \in X PROVE f[<<a, b>>] \in {"less", "equal", "greater"}
  <2>1. PICK i \in 1..(n + 1) : DecidedAt(n, ord, <<a, b>>, i, f[<<a, b>>])
    BY <1>1
  <2>2. f[<<a, b>>] = "equal" \/ (i \in 1..n /\ f[<<a, b>>] = ord[i][<<a, b>>])
    BY <1>4, <2>1 DEF DecidedAt
  <2>3. QED
    BY <1>3, <2>2
<1>7. ASSUME NEW a \in X PROVE f[<<a, a>>] = "equal"
  <2>1. PICK i \in 1..(n + 1) : DecidedAt(n, ord, <<a, a>>, i, f[<<a, a>>])
    BY <1>1
  <2>2. i \notin 1..n
    BY <1>3, <2>1 DEF DecidedAt
  <2>3. QED
    BY <1>4, <2>1, <2>2 DEF DecidedAt
<1>8. ASSUME NEW a \in X, NEW b \in X PROVE f[<<b, a>>] = Opposite(f[<<a, b>>])
  <2>1. PICK i \in 1..(n + 1) : DecidedAt(n, ord, <<a, b>>, i, f[<<a, b>>])
    BY <1>1
  <2>2. \A j \in 1..(i - 1) : ord[j][<<b, a>>] = "equal"
    BY <1>3, <1>5, <2>1 DEF DecidedAt, Opposite
  <2>3. CASE i = n + 1
    <3>1. i \notin 1..n
      BY <2>3
    <3>2. DecidedAt(n, ord, <<b, a>>, i, "equal") /\ f[<<a, b>>] = "equal"
      BY <2>1, <2>2, <2>3, <3>1 DEF DecidedAt
    <3>3. QED
      BY <1>2, <3>2 DEF Opposite
  <2>4. CASE i \in 1..n
    <3>1. i # n + 1
      BY <2>4
    <3>2. f[<<a, b>>] = ord[i][<<a, b>>] /\ ord[i][<<a, b>>] # "equal"
      BY <2>1, <2>4 DEF DecidedAt
    <3>3. ord[i][<<b, a>>] = Opposite(f[<<a, b>>]) /\ ord[i][<<b, a>>] # "equal"
      <4> DEFINE x == ord[i][<<a, b>>]
                 y == ord[i][<<b, a>>]
      <4>1. x \in {"less", "equal", "greater"} /\ y = Opposite(x)
        BY <1>3, <2>4
      <4>2. f[<<a, b>>] = x /\ x # "equal"
        BY <3>2
      <4> HIDE DEF x, y
      <4>3. y = Opposite(f[<<a, b>>]) /\ y # "equal"
        BY <4>1, <4>2 DEF Opposite
      <4>4. QED
        BY <4>3 DEF y
    <3>4. DecidedAt(n, ord, <<b, a>>, i, ord[i][<<b, a>>])
      BY <2>2, <3>1, <3>3 DEF DecidedAt
    <3>5. QED
      BY <1>2, <3>3, <3>4
  <2>5. QED
    BY <1>4, <2>3, <2>4
<1>9. ASSUME NEW a \in X, NEW b \in X, NEW c \in X,
             f[<<a, b>>] # "greater", f[<<b, c>>] # "greater"
      PROVE  f[<<a, c>>] # "greater"
  <2>1. PICK i \in 1..(n + 1) : DecidedAt(n, ord, <<a, b>>, i, f[<<a, b>>])
    BY <1>1
  <2>2. PICK j \in 1..(n + 1) : DecidedAt(n, ord, <<b, c>>, j, f[<<b, c>>])
    BY <1>1
  <2>3. PICK k \in 1..(n + 1) : DecidedAt(n, ord, <<a, c>>, k, f[<<a, c>>])
    BY <1>1
  <2>4. CASE k = n + 1
    BY <2>3, <2>4 DEF DecidedAt
  <2>5. CASE k \in 1..n
    <3>1. f[<<a, c>>] = ord[k][<<a, c>>]
      BY <2>3, <2>5 DEF DecidedAt
    <3>2. Preorder(X, ord[k])
      BY <2>5
    <3>3. \A l \in 1..(k - 1) : l \in 1..n /\ ord[l][<<a, c>>] = "equal"
      BY <1>5, <2>3 DEF DecidedAt
    <3>4. CASE i < k /\ i <= j
      <4>1. i \in 1..n /\ i \in 1..(k - 1) /\ (i = j \/ i \in 1..(j - 1))
        BY <2>5, <3>4
      <4>2. ord[i][<<a, b>>] # "equal" /\ ord[i][<<a, b>>] # "greater"
        BY <1>9, <2>1, <4>1 DEF DecidedAt
      <4>3. ord[i][<<b, c>>] # "greater"
        <5>1. CASE i = j
          BY <1>9, <2>2, <4>1, <5>1 DEF DecidedAt
        <5>2. CASE i \in 1..(j - 1)
          BY <2>2, <5>2 DEF DecidedAt
        <5>3. QED
          BY <4>1, <5>1, <5>2
      <4>4. ord[i][<<a, b>>] = "less"
        <5>1. ord[i][<<a, b>>] \in {"less", "equal", "greater"}
          BY <1>3, <4>1
        <5>2. QED
          BY <4>2, <5>1
      <4>5. ord[i][<<a, c>>] = "less"
        BY <1>0, <4>1, <4>3, <4>4
      <4>6. QED
        BY <3>3, <4>1, <4>5
    <3>5. CASE j < k /\ j < i
      <4>1. j \in 1..n /\ j \in 1..(k - 1) /\ j \in 1..(i - 1)
        BY <2>5, <3>5
      <4>2. ord[j][<<b, c>>] # "equal" /\ ord[j][<<b, c>>] # "greater"
        BY <1>9, <2>2, <4>1 DEF DecidedAt
      <4>3. ord[j][<<a, b>>] = "equal"
        BY <2>1, <4>1 DEF DecidedAt
      <4>4. ord[j][<<a, c>>] = ord[j][<<b, c>>]
        BY <1>0, <4>1, <4>3
      <4>5. QED
        BY <3>3, <4>1, <4>2, <4>4
    <3>6. CASE k <= i /\ k <= j
      <4>1. (k = i \/ k \in 1..(i - 1)) /\ (k = j \/ k \in 1..(j - 1))
        BY <2>5, <3>6
      <4>2. ord[k][<<a, b>>] # "greater"
        BY <1>9, <2>1, <2>5, <4>1 DEF DecidedAt
      <4>3. ord[k][<<b, c>>] # "greater"
        BY <1>9, <2>2, <2>5, <4>1 DEF DecidedAt
      <4>4. QED
        BY <3>1, <3>2, <4>2, <4>3 DEF Preorder
    <3>7. (i < k /\ i <= j) \/ (j < k /\ j < i) \/ (k <= i /\ k <= j)
      OBVIOUS
    <3>8. QED
      BY <3>4, <3>5, <3>6, <3>7
  <2>6. QED
    BY <1>4, <2>4, <2>5
<1>10. QED
  BY <1>6, <1>7, <1>8, <1>9 DEF Preorder, f

\* A clause compares two hits by their values of one field.
Compared(H, c) ==
    [p \in H \X H |->
        Directed(CompareSortValues(SortValue(p[1], c), SortValue(p[2], c)), c.desc)]

LEMMA ValuesCompared ==
    ASSUME NEW V, Comparable(V), NEW u \in V, NEW v \in V
    PROVE  /\ CompareSortValues(u, v) \in {"less", "equal", "greater"}
           /\ CompareSortValues(u, u) = "equal"
           /\ CompareSortValues(v, u) = Opposite(CompareSortValues(u, v))
<1> DEFINE k == KeyOf(u)
           l == KeyOf(v)
<1>1. /\ u.type = "null" \/ (k \in Int /\ (u.type = "number" => u.num \in Int))
      /\ v.type = "null" \/ (l \in Int /\ (v.type = "number" => v.num \in Int))
  BY DEF Comparable
<1> HIDE DEF k, l
<1>2. \A a, b \in Int : /\ Order(a, b) \in {"less", "equal", "greater"}
                        /\ Order(a, a) = "equal"
                        /\ Order(b, a) = Opposite(Order(a, b))
  BY DEF Order, Opposite
<1>3. CompareSortValues(u, u) = "equal"
  BY <1>1, <1>2 DEF CompareSortValues, k
<1>4. CASE u.type = "null" \/ v.type = "null"
  BY <1>3, <1>4 DEF CompareSortValues, Opposite
<1>5. CASE u.type = "number" /\ v.type = "number"
  <2>1. CompareSortValues(u, v) = Order(u.num, v.num) /\ CompareSortValues(v, u) = Order(v.num, u.num)
    BY <1>5 DEF CompareSortValues
  <2>2. u.num \in Int /\ v.num \in Int
    BY <1>1, <1>5
  <2>3. QED
    BY <1>2, <1>3, <2>1, <2>2
<1>6. CASE ~(u.type = "null" \/ v.type = "null") /\ ~(u.type = "number" /\ v.type = "number")
  <2>1. CompareSortValues(u, v) = Order(k, l) /\ CompareSortValues(v, u) = Order(l, k)
    BY <1>6 DEF CompareSortValues, k, l
  <2>2. k \in Int /\ l \in Int
    BY <1>1, <1>6
  <2>3. QED
    BY <1>2, <1>3, <2>1, <2>2
<1>7. QED
  BY <1>4, <1>5, <1>6

LEMMA ComparedPreorder ==
    ASSUME NEW H, NEW c, c.desc \in BOOLEAN, Comparable({SortValue(h, c) : h \in H})
    PROVE  Preorder(H, Compared(H, c))
<1> DEFINE V == {SortValue(h, c) : h \in H}
           All == {"less", "equal", "greater"}
           x(a, b) == CompareSortValues(SortValue(a, c), SortValue(b, c))
           f == Compared(H, c)
<1>1. ASSUME NEW a \in H, NEW b \in H
      PROVE  x(a, b) \in All /\ x(a, a) = "equal" /\ x(b, a) = Opposite(x(a, b))
  <2>1. SortValue(a, c) \in V /\ SortValue(b, c) \in V
    OBVIOUS
  <2> HIDE DEF V
  <2>2. QED
    BY <2>1, ValuesCompared DEF V
<1>2. ASSUME NEW a \in H, NEW b \in H, NEW d \in H, x(a, b) # "greater", x(b, d) # "greater"
      PROVE  x(a, d) # "greater"
  <2>1. SortValue(a, c) \in V /\ SortValue(b, c) \in V /\ SortValue(d, c) \in V
    OBVIOUS
  <2>2. QED
    BY <1>2, <2>1 DEF Comparable
<1>3. \A a, b \in H : f[<<a, b>>] = Directed(x(a, b), c.desc)
  BY DEF Compared
<1> HIDE DEF x, f, V
<1>4. \A a, b \in H : f[<<a, b>>] \in All
  <2>1. \A o \in All : Directed(o, c.desc) \in All
    BY DEF Directed
  <2>2. \A a, b \in H : x(a, b) \in All
    BY <1>1
  <2> HIDE DEF All
  <2>3. QED
    BY <1>3, <2>1, <2>2
<1>5. \A a \in H : f[<<a, a>>] = "equal"
  BY <1>1, <1>3 DEF Directed
<1>6. \A a, b \in H : f[<<b, a>>] = Opposite(f[<<a, b>>])
  <2>1. ASSUME NEW a \in H, NEW b \in H PROVE f[<<b, a>>] = Opposite(f[<<a, b>>])
    <3>1. f[<<b, a>>] = Directed(x(b, a), c.desc) /\ f[<<a, b>>] = Directed(x(a, b), c.desc)
      BY <1>3
    <3>2. x(a, b) \in All /\ x(b, a) = Opposite(x(a, b))
      BY <1>1
    <3>3. Directed(x(b, a), c.desc) = Opposite(Directed(x(a, b), c.desc))
      BY <3>2 DEF Directed, Opposite
    <3>4. QED
      BY <3>1, <3>3
  <2>2. QED
    BY <2>1
<1>7. ASSUME NEW a \in H, NEW b \in H, NEW d \in H,
             f[<<a, b>>] # "greater", f[<<b, d>>] # "greater"
      PROVE  f[<<a, d>>] # "greater"
  <2>1. /\ f[<<a, b>>] = Directed(x(a, b), c.desc)
        /\ f[<<b, d>>] = Directed(x(b, d), c.desc)
        /\ f[<<a, d>>] = Directed(x(a, d), c.desc)
    BY <1>3
  <2>2. /\ x(a, b) \in All /\ x(b, d) \in All /\ x(a, d) \in All
        /\ x(b, a) = Opposite(x(a, b)) /\ x(d, b) = Opposite(x(b, d)) /\ x(d, a) = Opposite(x(a, d))
    BY <1>1
  <2>3. /\ x(a, b) # "greater" /\ x(b, d) # "greater" => x(a, d) # "greater"
        /\ x(d, b) # "greater" /\ x(b, a) # "greater" => x(d, a) # "greater"
    BY <1>2
  <2>4. CASE c.desc
    BY <1>7, <2>1, <2>2, <2>3, <2>4 DEF Directed, Opposite
  <2>5. CASE ~c.desc
    BY <1>7, <2>1, <2>2, <2>3, <2>5 DEF Directed, Opposite
  <2>6. QED
    BY <2>4, <2>5
<1>8. QED
  BY <1>4, <1>5, <1>6, <1>7 DEF Preorder, f

\* The clauses order these hits.
Sortable(H, clauses) ==
    /\ Len(clauses) \in Nat /\ DOMAIN clauses = 1..Len(clauses)
    /\ \A i \in 1..Len(clauses) :
          clauses[i].desc \in BOOLEAN /\ Comparable({SortValue(h, clauses[i]) : h \in H})

Ordering(H, clauses) == [p \in H \X H |-> CompareHits(p[1], p[2], clauses)]

LEMMA OrderingPreorder ==
    ASSUME NEW H, NEW clauses, Sortable(H, clauses)
    PROVE  Preorder(H, Ordering(H, clauses))
<1> DEFINE n == Len(clauses)
           ord == [i \in 1..n |-> Compared(H, clauses[i])]
<1>1. n \in Nat /\ DOMAIN clauses = 1..n
  BY DEF Sortable
<1>2. \A i \in 1..n : Preorder(H, ord[i])
  <2>1. ASSUME NEW i \in 1..n PROVE Preorder(H, Compared(H, clauses[i]))
    <3>1. clauses[i].desc \in BOOLEAN /\ Comparable({SortValue(h, clauses[i]) : h \in H})
      BY DEF Sortable
    <3>2. QED
      BY <3>1, ComparedPreorder
  <2>2. QED
    BY <2>1
<1>3. Preorder(H, Lexical(H, n, ord))
  <2> HIDE DEF ord, n
  <2>1. QED
    BY <1>1, <1>2, LexicalPreorder
<1>4. ASSUME NEW p \in H \X H PROVE CompareHits(p[1], p[2], clauses) = FirstOf([i \in 1..n |-> ord[i][p]])
  <2> DEFINE orders == [i \in 1..n |-> ord[i][p]]
             orders2 == [i \in DOMAIN clauses |->
                 Directed(CompareSortValues(SortValues(p[1], clauses)[i], SortValues(p[2], clauses)[i]),
                          clauses[i].desc)]
  <2>1. ASSUME NEW i \in 1..n PROVE orders[i] = orders2[i]
    BY <1>1 DEF Compared, SortValues
  <2>2. orders = orders2
    <3>1. DOMAIN orders = 1..n /\ DOMAIN orders2 = 1..n
      BY <1>1
    <3>2. QED
      BY <1>1, <2>1
  <2>3. CompareHits(p[1], p[2], clauses) = FirstOf(orders2)
    BY DEF CompareHits, CompareByClauses, FirstOf
  <2>4. QED
    BY <2>2, <2>3
<1>5. Ordering(H, clauses) = Lexical(H, n, ord)
  BY <1>4 DEF Ordering, Lexical
<1>6. QED
  BY <1>3, <1>5

\* How three hits compare.
Ordered(a, b, c, clauses) ==
    /\ CompareHits(a, b, clauses) \in {"less", "equal", "greater"}
    /\ CompareHits(a, a, clauses) = "equal"
    /\ CompareHits(b, a, clauses) = Opposite(CompareHits(a, b, clauses))
    /\ CompareHits(a, b, clauses) = "equal" =>
           /\ CompareHits(a, c, clauses) = CompareHits(b, c, clauses)
           /\ CompareHits(c, a, clauses) = CompareHits(c, b, clauses)
    /\ CompareHits(a, b, clauses) # "greater" /\ CompareHits(b, c, clauses) # "greater" =>
           CompareHits(a, c, clauses) # "greater"
    /\ CompareHits(a, b, clauses) # "greater" /\ CompareHits(b, c, clauses) = "less" =>
           CompareHits(a, c, clauses) = "less"
    /\ CompareHits(a, b, clauses) = "less" /\ CompareHits(b, c, clauses) # "greater" =>
           CompareHits(a, c, clauses) = "less"

LEMMA HitsOrdered ==
    ASSUME NEW H, NEW clauses, Sortable(H, clauses), NEW a \in H, NEW b \in H, NEW c \in H
    PROVE  Ordered(a, b, c, clauses)
<1> DEFINE f == Ordering(H, clauses)
<1>1. Preorder(H, f)
  BY OrderingPreorder
<1>2. \A x, y \in H : f[<<x, y>>] = CompareHits(x, y, clauses)
  BY DEF Ordering
<1> HIDE DEF f
<1>3. /\ f[<<a, b>>] = "equal" => f[<<a, c>>] = f[<<b, c>>] /\ f[<<c, a>>] = f[<<c, b>>]
      /\ f[<<a, b>>] # "greater" /\ f[<<b, c>>] = "less" => f[<<a, c>>] = "less"
      /\ f[<<a, b>>] = "less" /\ f[<<b, c>>] # "greater" => f[<<a, c>>] = "less"
  BY <1>1, PreorderFacts
<1>4. /\ f[<<a, b>>] \in {"less", "equal", "greater"} /\ f[<<a, a>>] = "equal"
      /\ f[<<b, a>>] = Opposite(f[<<a, b>>])
      /\ f[<<a, b>>] # "greater" /\ f[<<b, c>>] # "greater" => f[<<a, c>>] # "greater"
  BY <1>1 DEF Preorder
<1>5. QED
  BY <1>2, <1>3, <1>4 DEF Ordered

-----------------------------------------------------------------------------
(***************************************************************************)
(* The sort.  Hits that no clause tells apart stay in the order of their   *)
(* indexes and ids.                                                        *)
(***************************************************************************)

ByKey(H) == {p \in H \X H : Lexicographic(KeyOfHit(p[1]), KeyOfHit(p[2]))}

Before(H, clauses) ==
    {p \in H \X H :
        \/ CompareHits(p[1], p[2], clauses) = "less"
        \/ /\ CompareHits(p[1], p[2], clauses) = "equal"
           /\ Lexicographic(KeyOfHit(p[1]), KeyOfHit(p[2]))}

\* Hits of one database: each has a key of its own.
Distinct(T) ==
    /\ \A h \in T : h.index \in IndexNames /\ h.id \in DocIds
    /\ \A g, h \in T : KeyOfHit(g) = KeyOfHit(h) => g = h

LEMMA KeysOrdered ==
    ASSUME NEW a \in DocKeys, NEW b \in DocKeys, NEW c \in DocKeys
    PROVE  /\ ~Lexicographic(a, a)
           /\ a # b => Lexicographic(a, b) \/ Lexicographic(b, a)
           /\ ~(Lexicographic(a, b) /\ Lexicographic(b, a))
           /\ Lexicographic(a, b) /\ Lexicographic(b, c) => Lexicographic(a, c)
<1>1. /\ a = <<a[1], a[2]>> /\ b = <<b[1], b[2]>>
      /\ a[1] \in Int /\ a[2] \in Int /\ b[1] \in Int /\ b[2] \in Int /\ c[1] \in Int /\ c[2] \in Int
  <2>1. a \in IndexNames \X DocIds /\ b \in IndexNames \X DocIds /\ c \in IndexNames \X DocIds
    BY DEF DocKeys
  <2>2. \A n \in IndexNames : n \in Int
    BY NamesAssumption
  <2>3. \A i \in DocIds : i \in Int
    BY NamesAssumption
  <2>4. QED
    BY <2>1, <2>2, <2>3
<1>2. ~Lexicographic(a, a)
  BY <1>1 DEF Lexicographic
<1>3. a # b => Lexicographic(a, b) \/ Lexicographic(b, a)
  <2>1. a # b => a[1] # b[1] \/ a[2] # b[2]
    BY <1>1
  <2>2. QED
    BY <1>1, <2>1 DEF Lexicographic
<1>4. ~(Lexicographic(a, b) /\ Lexicographic(b, a))
  BY <1>1 DEF Lexicographic
<1>5. Lexicographic(a, b) /\ Lexicographic(b, c) => Lexicographic(a, c)
  BY <1>1 DEF Lexicographic
<1>6. QED
  BY <1>2, <1>3, <1>4, <1>5

LEMMA ByKeyIsOrder ==
    ASSUME NEW H, NEW T \in SUBSET H, Distinct(T)
    PROVE  StrictOrder(T, ByKey(H))
<1>1. \A h \in T : KeyOfHit(h) \in DocKeys /\ h \in H
  BY DEF Distinct, KeyOfHit, DocKeys
<1>2. \A g, h \in T : <<g, h>> \in ByKey(H) <=> Lexicographic(KeyOfHit(g), KeyOfHit(h))
  BY <1>1 DEF ByKey
<1>3. \A g, h \in T : g # h => KeyOfHit(g) # KeyOfHit(h)
  BY DEF Distinct
<1>4. \A h \in T : <<h, h>> \notin ByKey(H)
  BY <1>1, <1>2, KeysOrdered
<1>5. ASSUME NEW g \in T, NEW h \in T, g # h PROVE <<g, h>> \in ByKey(H) \/ <<h, g>> \in ByKey(H)
  BY <1>1, <1>2, <1>3, <1>5, KeysOrdered
<1>6. ASSUME NEW f \in T, NEW g \in T, NEW h \in T, <<f, g>> \in ByKey(H), <<g, h>> \in ByKey(H)
      PROVE  <<f, h>> \in ByKey(H)
  <2> DEFINE a == KeyOfHit(f)
             b == KeyOfHit(g)
             c == KeyOfHit(h)
  <2>1. a \in DocKeys /\ b \in DocKeys /\ c \in DocKeys
    BY <1>1
  <2>2. Lexicographic(a, b) /\ Lexicographic(b, c)
    BY <1>2, <1>6
  <2> HIDE DEF a, b, c
  <2>3. Lexicographic(a, c)
    BY <2>1, <2>2, KeysOrdered
  <2>4. QED
    BY <1>2, <2>3 DEF a, c
<1>7. QED
  BY <1>4, <1>5, <1>6 DEF StrictOrder

LEMMA BeforeIsOrder ==
    ASSUME NEW H, NEW clauses, Sortable(H, clauses), NEW T \in SUBSET H, Distinct(T)
    PROVE  StrictOrder(T, Before(H, clauses))
<1> DEFINE R == Before(H, clauses)
           B == ByKey(H)
           f(g, h) == CompareHits(g, h, clauses)
<1>1. StrictOrder(T, B)
  BY ByKeyIsOrder
<1>2. \A g, h \in T : <<g, h>> \in R <=> (f(g, h) = "less" \/ (f(g, h) = "equal" /\ <<g, h>> \in B))
  BY DEF Before, ByKey
<1>3. ASSUME NEW g \in T, NEW h \in T, NEW k \in T PROVE Ordered(g, h, k, clauses)
  <2>1. g \in H /\ h \in H /\ k \in H
    OBVIOUS
  <2>2. QED
    BY <2>1, HitsOrdered
<1> HIDE DEF R, B
<1>4. ASSUME NEW h \in T PROVE <<h, h>> \notin R
  <2>1. Ordered(h, h, h, clauses)
    BY <1>3
  <2>2. f(h, h) = "equal" /\ <<h, h>> \notin B
    BY <1>1, <2>1 DEF Ordered, StrictOrder
  <2>3. QED
    BY <1>2, <2>2
<1>5. ASSUME NEW g \in T, NEW h \in T, g # h PROVE <<g, h>> \in R \/ <<h, g>> \in R
  <2>1. Ordered(g, h, h, clauses)
    BY <1>3
  <2>2. /\ f(g, h) \in {"less", "equal", "greater"} /\ f(h, g) = Opposite(f(g, h))
        /\ <<g, h>> \in B \/ <<h, g>> \in B
    BY <1>1, <1>5, <2>1 DEF Ordered, StrictOrder
  <2> HIDE DEF f
  <2>3. QED
    BY <1>2, <2>2 DEF Opposite
<1>6. ASSUME NEW g \in T, NEW h \in T, NEW k \in T, <<g, h>> \in R, <<h, k>> \in R
      PROVE  <<g, k>> \in R
  <2>1. Ordered(g, h, k, clauses)
    BY <1>3
  <2>2. /\ f(g, h) = "equal" => f(g, k) = f(h, k)
        /\ f(g, h) # "greater" /\ f(h, k) = "less" => f(g, k) = "less"
        /\ f(g, h) = "less" /\ f(h, k) # "greater" => f(g, k) = "less"
        /\ <<g, h>> \in B /\ <<h, k>> \in B => <<g, k>> \in B
    BY <1>1, <2>1 DEF Ordered, StrictOrder
  <2>3. /\ f(g, h) = "less" \/ (f(g, h) = "equal" /\ <<g, h>> \in B)
        /\ f(h, k) = "less" \/ (f(h, k) = "equal" /\ <<h, k>> \in B)
    BY <1>2, <1>6
  <2> HIDE DEF f
  <2>4. f(g, k) = "less" \/ (f(g, k) = "equal" /\ <<g, k>> \in B)
    BY <2>2, <2>3
  <2>5. QED
    BY <1>2, <2>4
<1>7. QED
  BY <1>4, <1>5, <1>6 DEF StrictOrder, R

\* Two hits of which neither is less: the earlier in key order is before the other.
LEMMA InsertStops ==
    ASSUME NEW H, NEW clauses, Sortable(H, clauses), NEW T \in SUBSET H, Distinct(T),
           NEW h \in T, NEW s \in Seq(T),
           \A k \in DOMAIN s : CompareHits(s[k], h, clauses) = "equal" => <<s[k], h>> \in ByKey(H)
    PROVE  {k \in DOMAIN s : CompareHits(h, s[k], clauses) # "less"} = Stops(s, Before(H, clauses), h)
<1>1. ASSUME NEW k \in DOMAIN s
      PROVE  CompareHits(h, s[k], clauses) # "less" <=> <<s[k], h>> \in Before(H, clauses)
  <2>1. s[k] \in H /\ h \in H
    <3>1. s[k] \in T
      OBVIOUS
    <3>2. QED
      BY <3>1
  <2> DEFINE a == CompareHits(s[k], h, clauses)
             b == CompareHits(h, s[k], clauses)
  <2>2. Ordered(s[k], h, h, clauses)
    BY <2>1, HitsOrdered
  <2>3. a \in {"less", "equal", "greater"} /\ b = Opposite(a)
    BY <2>2 DEF Ordered
  <2>4. <<s[k], h>> \in Before(H, clauses) <=> a = "less" \/ a = "equal"
    BY <2>1 DEF Before, ByKey
  <2> HIDE DEF a, b
  <2>5. b # "less" <=> a = "less" \/ a = "equal"
    BY <2>3 DEF Opposite
  <2>6. QED
    BY <2>4, <2>5 DEF b
<1>2. QED
  BY <1>1 DEF Stops

\* The insertion of each hit, as a function of the hits before it.
LEMMA SortFold ==
    ASSUME NEW T, NEW clauses, clauses # <<>>, NEW hits \in Seq(T)
    PROVE  FoldsTo(Seq(T), [p \in Seq(T) \X T |-> InsertHit(p[1], p[2], clauses)], <<>>, hits,
                   SortByClauses(hits, clauses))
<1> DEFINE F == [p \in Seq(T) \X T |-> InsertHit(p[1], p[2], clauses)]
           Step(f, s) == InsertHit(f[s \ {Max(s)}], hits[Max(s)], clauses)
           W(f) == [s \in SUBSET DOMAIN hits |-> IF s = {} THEN <<>> ELSE Step(f, s)]
           it == CHOOSE f : f = W(f)
<1>0. ASSUME NEW s \in Seq(T), NEW h \in T PROVE InsertHit(s, h, clauses) \in Seq(T)
  <2> DEFINE K == {k \in DOMAIN s : CompareHits(h, s[k], clauses) # "less"} \cup {0}
             m == Max(K)
  <2>1. m \in 0..Len(s)
    <3>1. K \in SUBSET (0..Len(s)) /\ 0 \in K /\ Len(s) \in Nat
      OBVIOUS
    <3> HIDE DEF K
    <3>2. Max(K) \in K
      BY <3>1, LargestOf
    <3>3. QED
      BY <3>1, <3>2
  <2> HIDE DEF m
  <2>2. InsertHit(s, h, clauses) = InsertAt(s, m + 1, h)
    BY DEF InsertHit, m
  <2>3. (m + 1) - 1 = m /\ m \in Nat /\ m <= Len(s) /\ Len(s) \in Nat
    BY <2>1
  <2>4. SubSeq(s, 1, m) \in Seq(T) /\ SubSeq(s, m + 1, Len(s)) \in Seq(T)
    <3>1. 0 \in Nat /\ 0 <= m /\ Len(s) <= Len(s)
      BY <2>3
    <3>2. SubSeq(s, 0 + 1, m) \in [1..(m - 0) -> T]
      BY <2>3, <3>1, PartOfSeq
    <3>3. SubSeq(s, m + 1, Len(s)) \in [1..(Len(s) - m) -> T]
      BY <2>3, <3>1, PartOfSeq
    <3>4. m - 0 \in Nat /\ Len(s) - m \in Nat /\ 0 + 1 = 1
      BY <2>3
    <3>5. QED
      BY <3>2, <3>3, <3>4, FunctionIsSeq
  <2>5. <<h>> \in Seq(T)
    OBVIOUS
  <2>6. SubSeq(s, 1, m) \o <<h>> \o SubSeq(s, m + 1, Len(s)) \in Seq(T)
    BY <2>4, <2>5
  <2>7. InsertAt(s, m + 1, h) = SubSeq(s, 1, m) \o <<h>> \o SubSeq(s, m + 1, Len(s))
    BY <2>3 DEF InsertAt
  <2>8. QED
    BY <2>2, <2>6, <2>7
<1>1. SortByClauses(hits, clauses) = it[DOMAIN hits]
  BY DEF SortByClauses, FoldLeft, MapThenFoldSet
<1>2. F \in [Seq(T) \X T -> Seq(T)] /\ \A s \in Seq(T), h \in T : F[<<s, h>>] = InsertHit(s, h, clauses)
  BY <1>0
<1>3. ASSUME NEW s \in SUBSET DOMAIN hits, s # {}
      PROVE  hits[Max(s)] \in T /\ s \ {Max(s)} \in SUBSET DOMAIN hits
  BY <1>3, LastElement
<1>4. <<>> \in Seq(T)
  OBVIOUS
<1> HIDE DEF F
<1>5. PICK f \in [SUBSET DOMAIN hits -> Seq(T)] : SolvesFold(f, F, <<>>, hits)
  BY <1>2, <1>4, FoldSolution
<1>6. f = W(f)
  BY <1>2, <1>3, <1>5 DEF SolvesFold
<1>7. it = W(it)
  BY <1>6
<1> HIDE DEF it
<1>8. FoldsTo(Seq(T), F, <<>>, hits, it[DOMAIN hits])
  <2>1. it[{}] = <<>>
    BY <1>7
  <2>2. ASSUME NEW s \in SUBSET DOMAIN hits, s # {}, it[s \ {Max(s)}] \in Seq(T)
        PROVE  it[s] = F[<<it[s \ {Max(s)}], hits[Max(s)]>>]
    BY <1>2, <1>3, <1>7, <2>2
  <2>3. QED
    BY <1>2, <1>4, <2>1, <2>2, FoldOf
<1>9. QED
  BY <1>1, <1>8 DEF F

\* The list s holds the elements of T, each once; those that no clause tells apart
\* come by their keys.
Enumerates(s, T) ==
    /\ s \in Seq(T)
    /\ \A x \in T : \E i \in 1..Len(s) : s[i] = x
    /\ \A i, j \in 1..Len(s) : i # j => s[i] # s[j]

TiesByKey(s, H, clauses) ==
    \A i, j \in 1..Len(s) : i < j /\ CompareHits(s[i], s[j], clauses) = "equal" =>
        <<s[i], s[j]>> \in ByKey(H)

LEMMA NoClause == \A a, b : CompareHits(a, b, <<>>) = "equal"
  BY DEF CompareHits, CompareByClauses

\* sort_by sorts, and is stable: hits that compare equal keep their order.
LEMMA SortLists ==
    ASSUME NEW H, NEW clauses, Sortable(H, clauses), NEW T \in SUBSET H, Distinct(T),
           NEW hits, Enumerates(hits, T), TiesByKey(hits, H, clauses)
    PROVE  Lists(SortByClauses(hits, clauses), T, Before(H, clauses))
<1> DEFINE R == Before(H, clauses)
           n == Len(hits)
           First(k) == {hits[i] : i \in 1..k}
<1>1. /\ hits \in Seq(T) /\ n \in Nat /\ DOMAIN hits = 1..n
      /\ \A i \in 1..n : hits[i] \in T
      /\ \A i, j \in 1..n : i # j => hits[i] # hits[j]
  BY DEF Enumerates
<1>2. CASE clauses = <<>>
  <2>1. ASSUME NEW i \in 1..n, NEW j \in 1..n, i < j PROVE <<hits[i], hits[j]>> \in R
    <3>1. CompareHits(hits[i], hits[j], clauses) = "equal"
      BY <1>2, NoClause
    <3>2. QED
      BY <2>1, <3>1 DEF TiesByKey, ByKey, Before
  <2>2. SortByClauses(hits, clauses) = hits
    BY <1>2 DEF SortByClauses
  <2>3. QED
    BY <2>1, <2>2 DEF Lists, Enumerates
<1>3. CASE clauses # <<>>
  <2> DEFINE F == [p \in Seq(T) \X T |-> InsertHit(p[1], p[2], clauses)]
  <2>1. FoldsTo(Seq(T), F, <<>>, hits, SortByClauses(hits, clauses))
    BY <1>1, <1>3, SortFold
  <2>2. \A s \in Seq(T), h \in T : F[<<s, h>>] = InsertHit(s, h, clauses)
    OBVIOUS
  <2> HIDE DEF F
  <2>3. PICK c \in [0..n -> Seq(T)] : /\ c[0] = <<>> /\ SortByClauses(hits, clauses) = c[n]
                                      /\ \A k \in 1..n : c[k] = F[<<c[k - 1], hits[k]>>]
    BY <2>1 DEF FoldsTo
  <2> DEFINE G == {k \in 0..n : Lists(c[k], First(k), R)}
  <2>4. 0 \in G
    <3>1. First(0) = {}
      OBVIOUS
    <3>2. Lists(<<>>, {}, R)
      BY DEF Lists
    <3>3. c[0] = <<>> /\ 0 \in 0..n
      BY <1>1, <2>3
    <3> HIDE DEF First, R
    <3>4. Lists(c[0], First(0), R)
      BY <3>1, <3>2, <3>3
    <3>5. QED
      BY <3>3, <3>4
  <2>5. ASSUME NEW k \in 1..n, k - 1 \in G PROVE k \in G
    <3> DEFINE h == hits[k]
               s == c[k - 1]
               S == First(k - 1)
    <3>1. h \in T /\ s \in Seq(T) /\ k - 1 \in 0..n /\ k \in 0..n
      BY <1>1, <2>3
    <3>2. Lists(s, S, R)
      BY <2>5
    <3>3. h \notin S /\ S \cup {h} = First(k) /\ S \cup {h} \in SUBSET T
      <4>1. \A i \in 1..(k - 1) : i \in 1..n /\ i # k
        BY <1>1
      <4>2. h \notin S /\ S \in SUBSET T
        BY <1>1, <4>1
      <4>3. 1..k = (1..(k - 1)) \cup {k}
        BY <1>1
      <4>4. QED
        BY <3>1, <4>2, <4>3
    <3>4. Distinct(S \cup {h}) /\ S \cup {h} \in SUBSET H
      BY <3>3 DEF Distinct
    <3>5. StrictOrder(S \cup {h}, R)
      BY <3>4, BeforeIsOrder
    <3>6. ASSUME NEW j \in DOMAIN s, CompareHits(s[j], h, clauses) = "equal"
          PROVE  <<s[j], h>> \in ByKey(H)
      <4>1. s[j] \in S
        BY <3>2 DEF Lists
      <4>2. PICK i \in 1..(k - 1) : s[j] = hits[i]
        BY <4>1
      <4>3. i \in 1..n /\ k \in 1..n /\ i < k
        BY <1>1, <4>2
      <4>4. QED
        BY <3>6, <4>2, <4>3 DEF TiesByKey
    <3> HIDE DEF h, s, S, R
    <3>7. {j \in DOMAIN s : CompareHits(h, s[j], clauses) # "less"} = Stops(s, R, h)
      BY <3>1, <3>6, InsertStops DEF R
    <3>8. InsertHit(s, h, clauses) = InsertAt(s, Max(Stops(s, R, h) \cup {0}) + 1, h)
      BY <3>7 DEF InsertHit
    <3>9. Lists(InsertHit(s, h, clauses), S \cup {h}, R)
      BY <3>2, <3>3, <3>5, <3>8, InsertLists
    <3>10. c[k] = InsertHit(s, h, clauses)
      BY <2>2, <2>3, <3>1 DEF s, h
    <3>11. QED
      BY <3>1, <3>3, <3>9, <3>10
  <2>6. \A k \in 0..n : k \in G
    <3> HIDE DEF G
    <3>1. QED
      BY <1>1, <2>4, <2>5, UpTo
  <2>7. Lists(c[n], First(n), R)
    BY <1>1, <2>6
  <2>8. First(n) = T
    BY <1>1 DEF Enumerates
  <2>9. QED
    BY <2>3, <2>7, <2>8
<1>4. QED
  BY <1>2, <1>3

-----------------------------------------------------------------------------
(***************************************************************************)
(* What a search answers.                                                  *)
(***************************************************************************)

KeyPairs == {p \in DocKeys \X DocKeys : Lexicographic(p[1], p[2])}

LEMMA DocOrderLists == Lists(DocOrder, DocKeys, KeyPairs)
<1>1. IsFiniteSet(DocKeys)
  BY NamesAssumption, FS_Product DEF DocKeys
<1>2. \A a, b \in DocKeys : <<a, b>> \in KeyPairs <=> Lexicographic(a, b)
  BY DEF KeyPairs
<1>3. StrictOrder(DocKeys, KeyPairs)
  <2>1. \A a \in DocKeys : <<a, a>> \notin KeyPairs
    BY <1>2, KeysOrdered
  <2>2. ASSUME NEW a \in DocKeys, NEW b \in DocKeys, a # b
        PROVE  <<a, b>> \in KeyPairs \/ <<b, a>> \in KeyPairs
    BY <1>2, <2>2, KeysOrdered
  <2>3. ASSUME NEW a \in DocKeys, NEW b \in DocKeys, NEW c \in DocKeys,
               <<a, b>> \in KeyPairs, <<b, c>> \in KeyPairs
        PROVE  <<a, c>> \in KeyPairs
    <3>1. Lexicographic(a, b) /\ Lexicographic(b, c)
      BY <1>2, <2>3
    <3>2. Lexicographic(a, c)
      BY <3>1, KeysOrdered
    <3>3. QED
      BY <1>2, <3>2
  <2>4. QED
    BY <2>1, <2>2, <2>3 DEF StrictOrder
<1>4. DocOrder = Listed(DocKeys, KeyPairs)
  BY DEF DocOrder, KeyPairs
<1>5. QED
  BY <1>1, <1>3, <1>4, ListedLists

LEMMA HitsDistinct ==
    ASSUME NEW d
    PROVE  /\ Distinct(HitsOf(d))
           /\ \A k \in DocKeys : KeyOfHit(Hit(d, k)) = k
           /\ \A h \in HitsOf(d) : h = Hit(d, KeyOfHit(h)) /\ KeyOfHit(h) \in DocKeys
                                   /\ Exists(d, KeyOfHit(h))
<1>1. ASSUME NEW k \in DocKeys
      PROVE  KeyOfHit(Hit(d, k)) = k /\ Hit(d, k).index \in IndexNames /\ Hit(d, k).id \in DocIds
  BY DEF DocKeys, KeyOfHit, Hit
<1>2. ASSUME NEW h \in HitsOf(d)
      PROVE  h = Hit(d, KeyOfHit(h)) /\ KeyOfHit(h) \in DocKeys /\ Exists(d, KeyOfHit(h))
  <2>1. PICK k \in DocKeys : Exists(d, k) /\ h = Hit(d, k)
    BY DEF HitsOf
  <2>2. KeyOfHit(h) = k
    BY <1>1, <2>1
  <2>3. QED
    BY <2>1, <2>2
<1>3. \A h \in HitsOf(d) : h.index \in IndexNames /\ h.id \in DocIds
  BY <1>1, <1>2
<1>4. \A g, h \in HitsOf(d) : KeyOfHit(g) = KeyOfHit(h) => g = h
  BY <1>2
<1>5. QED
  BY <1>1, <1>2, <1>3, <1>4 DEF Distinct

\* The documents of the indices of a request.
ScannedHits(d, r) ==
    {Hit(d, k) : k \in {k \in DocKeys : k[1] \in ExpandIndices(d, r.indices) /\ Exists(d, k)}}

\* The scan meets every document of the indices once, in the order of the keys.
LEMMA ScannedLists ==
    ASSUME NEW d, NEW r, NEW H, HitsOf(d) \subseteq H
    PROVE  ScannedHits(d, r) \subseteq HitsOf(d) /\ Lists(Scanned(d, r), ScannedHits(d, r), ByKey(H))
<1> DEFINE names == ExpandIndices(d, r.indices)
           K == {k \in DocKeys : k[1] \in names /\ Exists(d, k)}
           keys == At(DocOrder, {i \in DOMAIN DocOrder : DocOrder[i] \in K})
           S == {Hit(d, k) : k \in K}
           hits == [i \in DOMAIN keys |-> Hit(d, keys[i])]
<1>1. Lists(keys, K, KeyPairs)
  <2>1. K \in SUBSET DocKeys
    OBVIOUS
  <2> HIDE DEF K
  <2>2. QED
    BY <2>1, DocOrderLists, AtLists
<1>2. Scanned(d, r) = hits
  <2>1. \A i \in DOMAIN DocOrder : DocOrder[i] \in DocKeys
    BY DocOrderLists DEF Lists
  <2>2. {i \in DOMAIN DocOrder : DocOrder[i] \in K} =
            {i \in DOMAIN DocOrder : DocOrder[i][1] \in names /\ Exists(d, DocOrder[i])}
    BY <2>1
  <2>3. QED
    BY <2>2 DEF Scanned
<1> HIDE DEF names, keys
<1>3. S \subseteq HitsOf(d) /\ ScannedHits(d, r) = S
  BY DEF HitsOf, ScannedHits, names
<1>4. keys \in Seq(K) /\ Len(keys) \in Nat /\ DOMAIN keys = 1..Len(keys) /\ \A i \in 1..Len(keys) : keys[i] \in K
  BY <1>1 DEF Lists
<1>5. hits \in Seq(S) /\ Len(hits) = Len(keys) /\ \A i \in 1..Len(keys) : hits[i] = Hit(d, keys[i])
  <2>1. hits \in [1..Len(keys) -> S]
    BY <1>4
  <2>2. \A i \in 1..Len(keys) : hits[i] = Hit(d, keys[i])
    BY <1>4
  <2> HIDE DEF hits, S
  <2>3. QED
    BY <1>4, <2>1, <2>2, FunctionIsSeq
<1> HIDE DEF hits
<1>6. ASSUME NEW h \in S PROVE \E i \in 1..Len(hits) : hits[i] = h
  <2>1. PICK k \in K : h = Hit(d, k)
    OBVIOUS
  <2>2. PICK i \in 1..Len(keys) : keys[i] = k
    BY <1>1 DEF Lists
  <2>3. QED
    BY <1>5, <2>1, <2>2
<1>7. ASSUME NEW i \in 1..Len(hits), NEW j \in 1..Len(hits), i < j PROVE <<hits[i], hits[j]>> \in ByKey(H)
  <2>1. keys[i] \in K /\ keys[j] \in K /\ <<keys[i], keys[j]>> \in KeyPairs
    BY <1>1, <1>4, <1>5, <1>7 DEF Lists
  <2>2. keys[i] \in DocKeys /\ keys[j] \in DocKeys /\ Lexicographic(keys[i], keys[j])
    BY <2>1 DEF KeyPairs
  <2>3. hits[i] \in H /\ hits[j] \in H /\ hits[i] = Hit(d, keys[i]) /\ hits[j] = Hit(d, keys[j])
    BY <1>3, <1>5
  <2>4. KeyOfHit(hits[i]) = keys[i] /\ KeyOfHit(hits[j]) = keys[j]
    BY <2>2, <2>3, HitsDistinct
  <2>5. QED
    BY <2>2, <2>3, <2>4 DEF ByKey
<1>8. QED
  BY <1>2, <1>3, <1>5, <1>6, <1>7 DEF Lists

\* The hits of a set that match a query.
Matching(S, query) == {h \in S : MatchesQuery(h.source, h.id, query) = "match"}

\* A scan is refused, or keeps the hits that match, in order.
LEMMA SelectLists ==
    ASSUME NEW hits, NEW S, NEW R, Lists(hits, S, R), NEW query
    PROVE  \/ /\ Select(hits, query) = Refused
              /\ \E h \in S : MatchesQuery(h.source, h.id, query) = "error"
           \/ /\ Select(hits, query) = [status |-> "ok", docs |-> Select(hits, query).docs]
              /\ Lists(Select(hits, query).docs, Matching(S, query), R)
              /\ \A h \in S : MatchesQuery(h.source, h.id, query) # "error"
<1> DEFINE M(h) == MatchesQuery(h.source, h.id, query)
           outcomes == [i \in DOMAIN hits |-> M(hits[i])]
           T == Matching(S, query)
           docs == At(hits, {i \in DOMAIN hits : hits[i] \in T})
<1>1. Select(hits, query) = Kept(hits, outcomes)
  BY DEF Select
<1>2. /\ hits \in Seq(S) /\ DOMAIN hits = 1..Len(hits) /\ \A i \in 1..Len(hits) : hits[i] \in S
      /\ \A h \in S : \E i \in 1..Len(hits) : hits[i] = h
  BY DEF Lists
<1>3. \A h \in S : h \in T <=> M(h) = "match"
  BY DEF Matching
<1>4. DOMAIN outcomes = DOMAIN hits /\ \A i \in DOMAIN hits : outcomes[i] = M(hits[i])
  OBVIOUS
<1> HIDE DEF M, outcomes
<1>5. {i \in DOMAIN hits : outcomes[i] = "match"} = {i \in DOMAIN hits : hits[i] \in T}
  BY <1>2, <1>3, <1>4
<1>6. "error" \in ToSet(outcomes) <=> \E h \in S : M(h) = "error"
  BY <1>2, <1>4 DEF ToSet
<1>7. CASE "error" \in ToSet(outcomes)
  BY <1>1, <1>6, <1>7 DEF Kept, M
<1>8. CASE ~("error" \in ToSet(outcomes))
  <2>1. Select(hits, query) = [status |-> "ok", docs |-> docs]
    BY <1>1, <1>5, <1>8 DEF Kept
  <2>2. Lists(docs, T, R)
    <3>1. T \in SUBSET S
      BY DEF Matching
    <3> HIDE DEF T
    <3>2. QED
      BY <3>1, AtLists
  <2> HIDE DEF docs
  <2>3. Select(hits, query).docs = docs
    BY <2>1
  <2>4. QED
    BY <1>6, <1>8, <2>1, <2>2, <2>3 DEF M
<1>9. QED
  BY <1>7, <1>8

\* The elements of A up to x.
Through(A, R, x) == {y \in A : y = x \/ <<y, x>> \in R}

LEMMA MinOfTwo ==
    ASSUME NEW a \in Int, NEW b \in Int
    PROVE  Min({a, b}) = IF a <= b THEN a ELSE b
<1> DEFINE m == IF a <= b THEN a ELSE b
<1>1. m \in {a, b} /\ \A y \in {a, b} : m <= y
  OBVIOUS
<1>2. \A x \in {a, b} : (\A y \in {a, b} : x <= y) => x = m
  OBVIOUS
<1> HIDE DEF m
<1>3. Min({a, b}) \in {a, b} /\ \A y \in {a, b} : Min({a, b}) <= y
  BY <1>1 DEF Min
<1>4. Min({a, b}) = m
  BY <1>2, <1>3
<1>5. QED
  BY <1>4 DEF m

\* skip and take with no offset: nothing of an empty list, otherwise its first hits.
LEMMA PageLists ==
    ASSUME NEW A, NEW R, StrictOrder(A, R), NEW after, Lists(after, A, R), NEW size \in Nat \ {0}
    PROVE  \/ A = {} /\ Slice(after, 0, size) = <<>>
           \/ \E x \in A : /\ Slice(after, 0, size) # <<>> /\ Last(Slice(after, 0, size)) = x
                           /\ Lists(Slice(after, 0, size), Through(A, R, x), R)
<1> DEFINE n == IF size <= Len(after) THEN size ELSE Len(after)
           hits == Slice(after, 0, size)
<1>1. /\ after \in Seq(A) /\ Len(after) \in Nat /\ \A i \in 1..Len(after) : after[i] \in A
  BY DEF Lists
<1>2. hits = SubSeq(after, 1, n)
  <2>1. 0 + 1 = 1 /\ 0 + size = size /\ size \in Int /\ Len(after) \in Int
    BY <1>1
  <2>2. Min({size, Len(after)}) = n
    BY <2>1, MinOfTwo
  <2>3. QED
    BY <2>1, <2>2 DEF Slice
<1>3. CASE A = {}
  <2>1. Len(after) = 0
    <3>1. 1 \notin 1..Len(after)
      BY <1>1, <1>3
    <3>2. QED
      BY <1>1, <3>1
  <2>2. n = 0
    BY <2>1
  <2>3. SubSeq(after, 0 + 1, 0) \in [1..(0 - 0) -> A] /\ Len(SubSeq(after, 0 + 1, 0)) = 0 - 0
    <3>1. 0 \in Nat /\ 0 <= 0 /\ 0 <= Len(after)
      BY <2>1
    <3>2. QED
      BY <1>1, <3>1, PartOfSeq
  <2>4. SubSeq(after, 1, 0) \in Seq(A) /\ Len(SubSeq(after, 1, 0)) = 0
    <3>1. 0 + 1 = 1 /\ 0 - 0 = 0 /\ 0 \in Nat
      OBVIOUS
    <3>2. QED
      BY <2>3, <3>1, FunctionIsSeq
  <2>5. SubSeq(after, 1, 0) = <<>>
    BY <2>4
  <2>6. QED
    BY <1>2, <1>3, <2>2, <2>5
<1>4. CASE A # {}
  <2>1. Len(after) # 0
    BY <1>4 DEF Lists
  <2>2. n \in 1..Len(after) /\ n # 0
    BY <1>1, <2>1
  <2> DEFINE x == after[n]
  <2> HIDE DEF n
  <2>3. /\ Lists(SubSeq(after, 1, n), Through(A, R, x), R) /\ x \in A
        /\ Len(SubSeq(after, 1, n)) = n /\ SubSeq(after, 1, n)[n] = x
    BY <2>2, PrefixLists DEF Through
  <2>4. SubSeq(after, 1, n) # <<>>
    BY <2>2, <2>3
  <2>5. Last(SubSeq(after, 1, n)) = x
    BY <2>3 DEF Last
  <2>6. QED
    BY <1>2, <2>3, <2>4, <2>5
<1>5. QED
  BY <1>3, <1>4

\* Hits that some clause tells apart.
LEMMA EqualHits ==
    ASSUME NEW a, NEW b, NEW clauses, Len(clauses) \in Nat, DOMAIN clauses = 1..Len(clauses),
           CompareHits(a, b, clauses) = "equal"
    PROVE  \A i \in 1..Len(clauses) :
               Directed(CompareSortValues(SortValue(a, clauses[i]), SortValue(b, clauses[i])),
                        clauses[i].desc) = "equal"
<1> DEFINE n == Len(clauses)
           e(i) == Directed(CompareSortValues(SortValue(a, clauses[i]), SortValue(b, clauses[i])),
                            clauses[i].desc)
           orders == [i \in DOMAIN clauses |->
                Directed(CompareSortValues(SortValues(a, clauses)[i], SortValues(b, clauses)[i]),
                         clauses[i].desc)]
<1>1. FirstOf(orders) = "equal"
  BY DEF CompareHits, CompareByClauses, FirstOf
<1>2. DOMAIN orders = 1..n /\ \A i \in 1..n : orders[i] = e(i)
  BY DEF SortValues
<1> HIDE DEF orders, e
<1>3. \A i \in 1..n : orders[i] = "equal"
  BY <1>1, <1>2, FirstDecides
<1>4. QED
  BY <1>2, <1>3 DEF e

TieFree(T, clauses) == \A g, h \in T : g # h => CompareHits(g, h, clauses) # "equal"

LEMMA TieBreak ==
    ASSUME NEW clauses, Len(clauses) \in Nat, DOMAIN clauses = 1..Len(clauses), NEW T,
           NEW i \in 1..Len(clauses), NEW key, \A h \in T : SortValue(h, clauses[i]) = Text(key[h]),
           \A h \in T : key[h] \in Int, \A g, h \in T : g # h => key[g] # key[h]
    PROVE  TieFree(T, clauses)
<1>1. ASSUME NEW g \in T, NEW h \in T, g # h, CompareHits(g, h, clauses) = "equal" PROVE FALSE
  <2>1. Directed(CompareSortValues(Text(key[g]), Text(key[h])), clauses[i].desc) = "equal"
    BY <1>1, EqualHits
  <2>2. CompareSortValues(Text(key[g]), Text(key[h])) = Order(key[g], key[h])
    BY DEF CompareSortValues, Text, KeyOf
  <2>3. Order(key[g], key[h]) \in {"less", "greater"}
    BY <1>1 DEF Order
  <2>4. QED
    BY <2>1, <2>2, <2>3 DEF Directed
<1>2. QED
  BY <1>1 DEF TieFree

\* What _shard_doc sorts by.
Position(h) == h.index * (Max(DocIds) + 1) + h.id

LEMMA PositionsGrow ==
    ASSUME NEW g, NEW h, g.index \in IndexNames, h.index \in IndexNames, g.id \in DocIds, h.id \in DocIds
    PROVE  /\ Position(g) \in Nat
           /\ Lexicographic(KeyOfHit(g), KeyOfHit(h)) => Position(g) < Position(h)
<1> DEFINE m == Max(DocIds)
<1>1. m \in DocIds /\ \A i \in DocIds : i <= m
  <2>1. \E m2 \in DocIds : \A i \in DocIds : i <= m2
    BY NamesAssumption, FiniteHasLargest
  <2>2. PICK m2 \in DocIds : \A i \in DocIds : m2 >= i
    <3>1. PICK m2 \in DocIds : \A i \in DocIds : i <= m2
      BY <2>1
    <3>2. \A i \in DocIds : m2 >= i
      BY <3>1, NamesAssumption
    <3>3. QED
      BY <3>2
  <2>3. Max(DocIds) \in DocIds /\ \A i \in DocIds : Max(DocIds) >= i
    BY <2>2 DEF Max
  <2>4. QED
    BY <2>3, NamesAssumption
<1>2. m \in Nat /\ g.index \in Nat /\ h.index \in Nat /\ g.id \in 0..m /\ h.id \in 0..m
  <2>1. m \in Nat /\ g.id \in Nat /\ h.id \in Nat
    BY <1>1, NamesAssumption
  <2>2. g.index \in Nat /\ h.index \in Nat
    BY NamesAssumption
  <2>3. g.id <= m /\ h.id <= m
    BY <1>1
  <2>4. QED
    BY <2>1, <2>2, <2>3
<1> HIDE DEF m
<1>3. Position(g) = g.index * (m + 1) + g.id /\ Position(h) = h.index * (m + 1) + h.id
  BY DEF Position, m
<1>4. \A i, j, k \in Nat : i * k \in Nat /\ (i < j => i * k + k <= j * k)
  <2>1. \A i, j, k \in Nat : i < j => i * k + k <= j * k
    <3>1. ASSUME NEW i \in Nat, NEW j \in Nat, NEW k \in Nat, i < j PROVE i * k + k <= j * k
      <4>1. (i + 1) * k = i * k + k
        OBVIOUS
      <4>2. (i + 1) * k <= j * k
        BY <3>1
      <4>3. QED
        BY <4>1, <4>2
    <3>2. QED
      BY <3>1
  <2>2. \A i, k \in Nat : i * k \in Nat
    OBVIOUS
  <2>3. QED
    BY <2>1, <2>2
<1>5. QED
  <2> DEFINE a == g.index * (m + 1)
             b == h.index * (m + 1)
  <2>1. a \in Nat /\ b \in Nat /\ (g.index < h.index => a + (m + 1) <= b)
    BY <1>2, <1>4
  <2>2. g.index = h.index => a = b
    OBVIOUS
  <2>3. Position(g) = a + g.id /\ Position(h) = b + h.id
    BY <1>3
  <2> HIDE DEF a, b
  <2>4. Position(g) \in Nat
    BY <1>2, <2>1, <2>3
  <2>5. ASSUME Lexicographic(KeyOfHit(g), KeyOfHit(h)) PROVE Position(g) < Position(h)
    <3>1. g.index < h.index \/ (g.index = h.index /\ g.id < h.id)
      BY <2>5 DEF Lexicographic, KeyOfHit
    <3>2. QED
      BY <1>2, <2>1, <2>2, <2>3, <3>1
  <2>6. QED
    BY <2>4, <2>5

LEMMA FieldsDiffer ==
    <<"_shard_doc">> # <<"_id">> /\ <<"_shard_doc">> # <<"_score">>
<1>1. <<"_shard_doc">>[1] # <<"_id">>[1] /\ <<"_shard_doc">>[1] # <<"_score">>[1]
  OBVIOUS
<1>2. QED
  BY <1>1

\* A sort by _shard_doc tells all documents of a database apart.
LEMMA ShardDocTieFree ==
    ASSUME NEW clauses, Len(clauses) \in Nat, DOMAIN clauses = 1..Len(clauses), NEW T, Distinct(T),
           Mentions(clauses, "_shard_doc")
    PROVE  TieFree(T, clauses)
<1> DEFINE key == [h \in T |-> Position(h)]
<1>1. PICK i \in 1..Len(clauses) : clauses[i].field = <<"_shard_doc">>
  BY DEF Mentions
<1>2. \A h \in T : SortValue(h, clauses[i]) = Text(Position(h))
  BY <1>1, FieldsDiffer DEF SortValue, Position
<1>3. ASSUME NEW g \in T, NEW h \in T, g # h PROVE Position(g) # Position(h)
  <2>1. /\ g.index \in IndexNames /\ h.index \in IndexNames /\ g.id \in DocIds /\ h.id \in DocIds
        /\ KeyOfHit(g) # KeyOfHit(h)
    BY <1>3 DEF Distinct
  <2>2. KeyOfHit(g) \in DocKeys /\ KeyOfHit(h) \in DocKeys
    BY <2>1 DEF KeyOfHit, DocKeys
  <2>3. Lexicographic(KeyOfHit(g), KeyOfHit(h)) \/ Lexicographic(KeyOfHit(h), KeyOfHit(g))
    BY <2>1, <2>2, KeysOrdered
  <2>4. Position(g) \in Nat /\ Position(h) \in Nat
    BY <2>1, PositionsGrow
  <2>5. Position(g) < Position(h) \/ Position(h) < Position(g)
    BY <2>1, <2>3, PositionsGrow
  <2>6. QED
    BY <2>4, <2>5
<1>4. \A h \in T : Position(h) \in Int
  <2>1. ASSUME NEW h \in T PROVE Position(h) \in Int
    <3>1. h.index \in IndexNames /\ h.id \in DocIds
      BY DEF Distinct
    <3>2. Position(h) \in Nat
      BY <3>1, PositionsGrow
    <3>3. QED
      BY <3>2
  <2>2. QED
    BY <2>1
<1>5. \A h \in T : key[h] = Position(h)
  OBVIOUS
<1> HIDE DEF key
<1>6. /\ \A h \in T : SortValue(h, clauses[i]) = Text(key[h])
      /\ \A h \in T : key[h] \in Int
      /\ \A g, h \in T : g # h => key[g] # key[h]
  BY <1>2, <1>3, <1>4, <1>5
<1>7. QED
  BY <1>6, TieBreak

\* A sort by _id does, within one index.
LEMMA IdTieFree ==
    ASSUME NEW clauses, Len(clauses) \in Nat, DOMAIN clauses = 1..Len(clauses), NEW T, Distinct(T),
           Mentions(clauses, "_id"), NEW n, \A h \in T : h.index = n
    PROVE  TieFree(T, clauses)
<1> DEFINE key == [h \in T |-> h.id]
<1>1. PICK i \in 1..Len(clauses) : clauses[i].field = <<"_id">>
  BY DEF Mentions
<1>2. \A h \in T : SortValue(h, clauses[i]) = Text(h.id)
  BY <1>1 DEF SortValue
<1>3. \A g, h \in T : g # h => g.id # h.id
  BY DEF Distinct, KeyOfHit
<1>4. \A h \in T : h.id \in Int
  <2>1. \A d \in DocIds : d \in Int
    BY NamesAssumption
  <2>2. QED
    BY <2>1 DEF Distinct
<1>5. \A h \in T : key[h] = h.id
  OBVIOUS
<1> HIDE DEF key
<1>6. /\ \A h \in T : SortValue(h, clauses[i]) = Text(key[h])
      /\ \A h \in T : key[h] \in Int
      /\ \A g, h \in T : g # h => key[g] # key[h]
  BY <1>2, <1>3, <1>4, <1>5
<1>7. QED
  BY <1>6, TieBreak

\* Without ties, the hits up to x are those that do not compare greater.
LEMMA ThroughIs ==
    ASSUME NEW H, NEW clauses, Sortable(H, clauses), NEW T \in SUBSET H, TieFree(T, clauses),
           NEW x \in T, NEW y \in T
    PROVE  y = x \/ <<y, x>> \in Before(H, clauses) <=> CompareHits(y, x, clauses) # "greater"
<1>1. x \in H /\ y \in H
  OBVIOUS
<1>2. Ordered(y, x, x, clauses) /\ Ordered(x, x, x, clauses)
  BY <1>1, HitsOrdered
<1>3. CompareHits(y, x, clauses) \in {"less", "equal", "greater"} /\ CompareHits(x, x, clauses) = "equal"
  BY <1>2 DEF Ordered
<1>4. y # x => CompareHits(y, x, clauses) # "equal"
  BY DEF TieFree
<1>5. <<y, x>> \in Before(H, clauses) =>
          CompareHits(y, x, clauses) = "less" \/ CompareHits(y, x, clauses) = "equal"
  BY DEF Before
<1>6. CompareHits(y, x, clauses) = "less" => <<y, x>> \in Before(H, clauses)
  BY <1>1 DEF Before
<1>7. QED
  BY <1>3, <1>4, <1>5, <1>6

\* A page of a search with a sort, which may have a cursor.
PageSearch(H, d, r, clauses) ==
    /\ HitsOf(d) \subseteq H /\ Sortable(H, clauses) /\ clauses # <<>>
    /\ clauses = SortClauses(r.sort, r.pit)
    /\ r.from = 0 /\ r.size \in Nat \ {0}
    /\ r.cursor = <<>> \/ \E h \in H : r.cursor = SortValues(h, clauses)

SelectedHits(d, r) == Matching(ScannedHits(d, r), r.query)

\* The hits that the pages so far have not reached.
Rest(d, r, clauses) == {h \in SelectedHits(d, r) : HitIsAfter(h, clauses, r.cursor)}

\* The page is empty when nothing is left; otherwise it holds the rest up to its
\* last hit, in order.
NextPage(H, d, r, clauses, hits) ==
    \/ Rest(d, r, clauses) = {} /\ hits = <<>>
    \/ \E x \in Rest(d, r, clauses) :
          /\ hits # <<>> /\ Last(hits) = x
          /\ Lists(hits, Through(Rest(d, r, clauses), Before(H, clauses), x), Before(H, clauses))

LEMMA SearchPages ==
    ASSUME NEW H, NEW d, NEW r, NEW clauses, PageSearch(H, d, r, clauses)
    PROVE  \/ Select(Scanned(d, r), r.query) = Refused /\ Search(d, r) = Refused
           \/ /\ Select(Scanned(d, r), r.query).status = "ok"
              /\ Lists(Select(Scanned(d, r), r.query).docs, SelectedHits(d, r), ByKey(H))
              /\ Search(d, r).status = "ok"
              /\ NextPage(H, d, r, clauses, Search(d, r).hits)
<1> DEFINE selected == Select(Scanned(d, r), r.query)
           docs == selected.docs
           T == SelectedHits(d, r)
           R == Before(H, clauses)
           all == SortByClauses(docs, clauses)
           after == HitsAfter(all, clauses, r.cursor)
           A == Rest(d, r, clauses)
<1>1. /\ HitsOf(d) \subseteq H /\ Sortable(H, clauses) /\ clauses # <<>>
      /\ clauses = SortClauses(r.sort, r.pit) /\ r.from = 0 /\ r.size \in Nat \ {0}
  BY DEF PageSearch
<1>2. Lists(Scanned(d, r), ScannedHits(d, r), ByKey(H)) /\ ScannedHits(d, r) \subseteq HitsOf(d)
  BY <1>1, ScannedLists
<1>3. T \in SUBSET HitsOf(d) /\ T \in SUBSET H /\ A \in SUBSET T
  BY <1>1, <1>2 DEF SelectedHits, Matching, Rest
<1>4. Distinct(T) /\ StrictOrder(T, R) /\ StrictOrder(T, ByKey(H))
  <2>1. Distinct(T)
    BY <1>3, HitsDistinct DEF Distinct
  <2>2. QED
    BY <1>1, <1>3, <2>1, BeforeIsOrder, ByKeyIsOrder
<1>5. CursorValid(r.cursor, clauses)
  <2>1. ASSUME NEW h \in H PROVE Len(SortValues(h, clauses)) = Len(clauses)
    <3>1. Len(clauses) \in Nat /\ DOMAIN SortValues(h, clauses) = 1..Len(clauses)
      BY <1>1 DEF Sortable, SortValues
    <3>2. SortValues(h, clauses) \in Seq({SortValues(h, clauses)[i] : i \in 1..Len(clauses)})
      <4> DEFINE s == SortValues(h, clauses)
                 M == {s[i] : i \in 1..Len(clauses)}
      <4>1. s = [i \in 1..Len(clauses) |-> s[i]]
        BY <1>1 DEF Sortable, SortValues
      <4> HIDE DEF s
      <4>2. s \in [1..Len(clauses) -> M]
        BY <4>1
      <4> HIDE DEF M
      <4>3. s \in Seq(M)
        BY <3>1, <4>2, FunctionIsSeq
      <4>4. QED
        BY <4>3 DEF s, M
    <3>3. QED
      BY <3>1, <3>2
  <2>2. QED
    BY <1>1, <2>1 DEF CursorValid, PageSearch
<1>6. Search(d, r) = AnswerSelected(selected, clauses, r)
  BY <1>1, <1>5 DEF Search
<1> HIDE DEF selected
<1>7. CASE selected = Refused
  <2>1. Search(d, r) = Refused
    BY <1>6, <1>7 DEF AnswerSelected, Refused
  <2>2. QED
    BY <1>7, <2>1 DEF selected
<1>8. CASE selected # Refused
  <2>1. selected = [status |-> "ok", docs |-> docs] /\ Lists(docs, T, ByKey(H))
    BY <1>2, <1>8, SelectLists DEF selected, SelectedHits
  <2>2. selected.status = "ok"
    BY <2>1
  <2> HIDE DEF docs
  <2>3. /\ Search(d, r).status = "ok"
        /\ Search(d, r).hits = Slice(after, 0, r.size)
    BY <1>1, <1>6, <2>1 DEF AnswerSelected, Answer, docs
  <2>4. Enumerates(docs, T) /\ TiesByKey(docs, H, clauses)
    <3>1. Enumerates(docs, T)
      <4>1. \A i, j \in 1..Len(docs) : i # j => docs[i] # docs[j]
        BY <1>4, <2>1, ListsProps
      <4>2. QED
        BY <2>1, <4>1 DEF Enumerates, Lists
    <3>2. TiesByKey(docs, H, clauses)
      BY <2>1 DEF TiesByKey, Lists
    <3>3. QED
      BY <3>1, <3>2
  <2> HIDE DEF T, R
  <2>5. Lists(all, T, R)
    BY <1>1, <1>3, <1>4, <2>4, SortLists DEF R
  <2> HIDE DEF all
  <2>6. Lists(after, A, R)
    <3>1. {i \in DOMAIN all : HitIsAfter(all[i], clauses, r.cursor)} = {i \in DOMAIN all : all[i] \in A}
      <4>1. \A i \in DOMAIN all : all[i] \in T
        BY <2>5 DEF Lists
      <4>2. QED
        BY <4>1 DEF Rest, T
    <3> HIDE DEF A
    <3>2. QED
      BY <1>3, <2>5, <3>1, AtLists DEF HitsAfter
  <2>7. StrictOrder(A, R)
    BY <1>3, <1>4 DEF StrictOrder
  <2> HIDE DEF after, A
  <2>8. \/ A = {} /\ Slice(after, 0, r.size) = <<>>
        \/ \E x \in A : /\ Slice(after, 0, r.size) # <<>> /\ Last(Slice(after, 0, r.size)) = x
                        /\ Lists(Slice(after, 0, r.size), Through(A, R, x), R)
    BY <1>1, <2>6, <2>7, PageLists
  <2>9. NextPage(H, d, r, clauses, Search(d, r).hits)
    BY <2>3, <2>8 DEF NextPage, A, R
  <2>10. QED
    BY <2>1, <2>2, <2>3, <2>9 DEF selected, docs, T
<1>9. QED
  BY <1>7, <1>8

-----------------------------------------------------------------------------
(***************************************************************************)
(* The window of a search: the hits behind from, at most size of them.     *)
(***************************************************************************)

WindowSize(n, from, size) ==
    IF n <= from THEN 0 ELSE IF n - from <= size THEN n - from ELSE size

IsWindow(w, hits, from, size) ==
    /\ Len(w) = WindowSize(Len(hits), from, size)
    /\ \A i \in 1..Len(w) : w[i] = hits[from + i]

LEMMA WindowSizeType ==
    ASSUME NEW n \in Nat, NEW from \in Nat, NEW size \in Nat
    PROVE  /\ WindowSize(n, from, size) \in Nat /\ WindowSize(n, from, size) <= size
           /\ \A i \in 1..WindowSize(n, from, size) : from + i \in 1..n
BY DEF WindowSize

\* skip and take
LEMMA SliceIsWindow ==
    ASSUME NEW T, NEW hits \in Seq(T), NEW from \in Nat, NEW size \in Nat
    PROVE  Slice(hits, from, size) \in Seq(T) /\ IsWindow(Slice(hits, from, size), hits, from, size)
<1> DEFINE n == Len(hits)
           end == IF from + size <= n THEN from + size ELSE n
           w == Slice(hits, from, size)
<1>1. n \in Nat
  OBVIOUS
<1>2. w = SubSeq(hits, from + 1, end)
  <2>1. from + size \in Int /\ n \in Int
    BY <1>1
  <2>2. Min({from + size, n}) = end
    BY <2>1, MinOfTwo
  <2>3. QED
    BY <2>2 DEF Slice
<1>3. from + 1 \in Int /\ end \in Int /\ \A i \in (from + 1)..end : hits[i] \in T
  BY <1>1
<1> DEFINE size2 == IF from + 1 <= end THEN end - (from + 1) + 1 ELSE 0
<1>4. size2 = WindowSize(n, from, size)
  BY <1>1 DEF WindowSize
<1> HIDE DEF w
<1>5. w \in Seq(T) /\ Len(w) = size2 /\ \A i \in 1..size2 : w[i] = hits[(from + 1) + i - 1]
  BY <1>2, <1>3, SubSeqProperties
<1>6. \A i \in 1..size2 : (from + 1) + i - 1 = from + i
  OBVIOUS
<1> HIDE DEF size2, n
<1>7. QED
  BY <1>4, <1>5, <1>6 DEF IsWindow, w, n

LEMMA OneWindow ==
    ASSUME NEW T, NEW hits, NEW from, NEW size, NEW v \in Seq(T), NEW w \in Seq(T),
           IsWindow(v, hits, from, size), IsWindow(w, hits, from, size)
    PROVE  v = w
<1>1. Len(v) = Len(w) /\ \A i \in 1..Len(v) : v[i] = w[i]
  BY DEF IsWindow
<1>2. QED
  BY <1>1, SeqEqual

\* A window that starts at the first hit of a sequence that is no longer than it.
LEMMA WholeWindow ==
    ASSUME NEW T, NEW w \in Seq(T), NEW size \in Nat, Len(w) <= size
    PROVE  Slice(w, 0, size) = w
<1>1. 0 \in Nat /\ Len(w) \in Nat
  OBVIOUS
<1>2. Slice(w, 0, size) \in Seq(T) /\ IsWindow(Slice(w, 0, size), w, 0, size)
  BY <1>1, SliceIsWindow
<1>3. IsWindow(w, w, 0, size)
  <2>1. WindowSize(Len(w), 0, size) = Len(w) /\ \A i \in 1..Len(w) : 0 + i = i
    BY <1>1 DEF WindowSize
  <2>2. QED
    BY <2>1 DEF IsWindow
<1>4. QED
  BY <1>2, <1>3, OneWindow

\* One more hit of the scan.
KeepOne(hits, from, size, kept, i) ==
    IF i > from /\ Len(kept) < size THEN Append(kept, hits[i]) ELSE kept

LEMMA KeepFold ==
    ASSUME NEW T, NEW hits \in Seq(T), NEW from \in Nat, NEW size \in Nat
    PROVE  FoldsTo(Seq(T), [p \in Seq(T) \X (1..Len(hits)) |-> KeepOne(hits, from, size, p[1], p[2])],
                   <<>>, [i \in DOMAIN hits |-> i], KeepWindow(hits, from, size))
<1> DEFINE N == 1..Len(hits)
           ms == [i \in DOMAIN hits |-> i]
           F == [p \in Seq(T) \X N |-> KeepOne(hits, from, size, p[1], p[2])]
           Step(f, s) == KeepOne(hits, from, size, f[s \ {Max(s)}], ms[Max(s)])
           W(f) == [s \in SUBSET DOMAIN ms |-> IF s = {} THEN <<>> ELSE Step(f, s)]
           it == CHOOSE f : f = W(f)
<1>1. KeepWindow(hits, from, size) = it[DOMAIN ms]
  BY DEF KeepWindow, FoldLeft, MapThenFoldSet, KeepOne
<1>2. ms \in Seq(N)
  OBVIOUS
<1>3. F \in [Seq(T) \X N -> Seq(T)] /\ \A s \in Seq(T), i \in N : F[<<s, i>>] = KeepOne(hits, from, size, s, i)
  <2>1. ASSUME NEW s \in Seq(T), NEW i \in N PROVE KeepOne(hits, from, size, s, i) \in Seq(T)
    <3>1. hits[i] \in T
      OBVIOUS
    <3>2. QED
      BY <3>1 DEF KeepOne
  <2>2. QED
    BY <2>1
<1> HIDE DEF ms, N
<1>4. ASSUME NEW s \in SUBSET DOMAIN ms, s # {}
      PROVE  ms[Max(s)] \in N /\ s \ {Max(s)} \in SUBSET DOMAIN ms
  BY <1>2, <1>4, LastElement
<1>5. <<>> \in Seq(T)
  OBVIOUS
<1> HIDE DEF F
<1>6. PICK f \in [SUBSET DOMAIN ms -> Seq(T)] : SolvesFold(f, F, <<>>, ms)
  BY <1>2, <1>3, <1>5, FoldSolution
<1>7. f = W(f)
  BY <1>3, <1>4, <1>6 DEF SolvesFold
<1>8. it = W(it)
  BY <1>7
<1> HIDE DEF it
<1>9. FoldsTo(Seq(T), F, <<>>, ms, it[DOMAIN ms])
  <2>1. it[{}] = <<>>
    BY <1>8
  <2>2. ASSUME NEW s \in SUBSET DOMAIN ms, s # {}, it[s \ {Max(s)}] \in Seq(T)
        PROVE  it[s] = F[<<it[s \ {Max(s)}], ms[Max(s)]>>]
    BY <1>3, <1>4, <1>8, <2>2
  <2>3. QED
    BY <1>2, <1>3, <1>5, <2>1, <2>2, FoldOf
<1>10. QED
  BY <1>1, <1>9 DEF F, ms, N

\* The scan of an unsorted search keeps what skip and take would leave.
LEMMA KeepIsWindow ==
    ASSUME NEW T, NEW hits \in Seq(T), NEW from \in Nat, NEW size \in Nat
    PROVE  /\ KeepWindow(hits, from, size) \in Seq(T)
           /\ IsWindow(KeepWindow(hits, from, size), hits, from, size)
<1> DEFINE n == Len(hits)
           ms == [i \in DOMAIN hits |-> i]
           F == [p \in Seq(T) \X (1..n) |-> KeepOne(hits, from, size, p[1], p[2])]
           m(k) == WindowSize(k, from, size)
<1>1. n \in Nat /\ DOMAIN hits = 1..n /\ \A i \in 1..n : hits[i] \in T
  OBVIOUS
<1>2. Len(ms) = n /\ \A i \in 1..n : ms[i] = i
  OBVIOUS
<1>3. \A s \in Seq(T), i \in 1..n : F[<<s, i>>] = KeepOne(hits, from, size, s, i)
  OBVIOUS
<1>4. FoldsTo(Seq(T), F, <<>>, ms, KeepWindow(hits, from, size))
  BY KeepFold
<1> HIDE DEF F, ms, n
<1>5. PICK c \in [0..n -> Seq(T)] : /\ c[0] = <<>> /\ KeepWindow(hits, from, size) = c[n]
                                    /\ \A k \in 1..n : c[k] = F[<<c[k - 1], ms[k]>>]
  BY <1>2, <1>4 DEF FoldsTo
<1>6. ASSUME NEW k \in 1..n PROVE c[k] = KeepOne(hits, from, size, c[k - 1], k) /\ c[k - 1] \in Seq(T)
  <2>1. k - 1 \in 0..n
    BY <1>1
  <2>2. QED
    BY <1>2, <1>3, <1>5, <2>1
<1> DEFINE G == {k \in 0..n : Len(c[k]) = m(k) /\ \A i \in 1..m(k) : c[k][i] = hits[from + i]}
<1>7. 0 \in G
  <2>1. m(0) = 0 /\ 0 \in 0..n
    BY <1>1 DEF WindowSize
  <2> HIDE DEF m
  <2>2. QED
    BY <1>5, <2>1
<1>8. ASSUME NEW k \in 1..n, k - 1 \in G PROVE k \in G
  <2> DEFINE s == c[k - 1]
             j == m(k - 1)
  <2>1. s \in Seq(T) /\ Len(s) = j /\ (\A i \in 1..j : s[i] = hits[from + i]) /\ k \in 0..n /\ hits[k] \in T
    BY <1>1, <1>6, <1>8
  <2>2. c[k] = KeepOne(hits, from, size, s, k)
    BY <1>6
  <2> HIDE DEF s
  <2>3. CASE k > from /\ j < size
    <3>1. c[k] = Append(s, hits[k])
      BY <2>1, <2>2, <2>3 DEF KeepOne
    <3>2. m(k) = j + 1 /\ from + (j + 1) = k /\ j \in Nat
      BY <1>1, <2>3 DEF WindowSize
    <3> HIDE DEF m, j
    <3>3. Len(c[k]) = j + 1 /\ c[k][j + 1] = hits[k] /\ \A i \in 1..j : c[k][i] = s[i]
      BY <2>1, <3>1, <3>2
    <3>4. \A i \in 1..(j + 1) : i = j + 1 \/ i \in 1..j
      BY <3>2
    <3>5. \A i \in 1..(j + 1) : c[k][i] = hits[from + i]
      BY <2>1, <3>2, <3>3, <3>4
    <3>6. QED
      BY <2>1, <3>2, <3>3, <3>5
  <2>4. CASE ~(k > from /\ j < size)
    <3>1. c[k] = s
      BY <2>1, <2>2, <2>4 DEF KeepOne
    <3>2. m(k) = j
      BY <1>1, <2>4 DEF WindowSize
    <3> HIDE DEF m, j
    <3>3. QED
      BY <2>1, <3>1, <3>2
  <2>5. QED
    BY <2>3, <2>4
<1>9. n \in G
  <2> HIDE DEF G
  <2>1. \A k \in 0..n : k \in G
    BY <1>1, <1>7, <1>8, UpTo
  <2>2. QED
    BY <1>1, <2>1
<1>10. QED
  BY <1>1, <1>5, <1>9 DEF IsWindow, n

\* Without a cursor every hit is after it.
LEMMA AllAfter ==
    ASSUME NEW T, NEW s \in Seq(T), NEW clauses
    PROVE  HitsAfter(s, clauses, <<>>) = s
<1> DEFINE n == Len(s)
           I == 1..n
           t == At(s, I)
           id == [i \in I |-> i]
<1>1. n \in Nat /\ DOMAIN s = I /\ I \in SUBSET Int /\ I \in SUBSET DOMAIN s
  OBVIOUS
<1>2. HitsAfter(s, clauses, <<>>) = t
  BY <1>1 DEF HitsAfter, HitIsAfter
<1>3. t \in Seq(T) /\ \E f : Picks(t, s, I, f)
  BY <1>1, AtPicks
<1>4. PICK f : Picks(t, s, I, f)
  BY <1>3
<1>5. Lists(id, I, Less(I)) /\ Len(id) = n
  <2>1. id \in [1..n -> I] /\ \A i \in I : id[i] = i
    OBVIOUS
  <2>2. id \in Seq(I) /\ Len(id) = n
    <3> HIDE DEF id
    <3>1. QED
      BY <1>1, <2>1, FunctionIsSeq
  <2> HIDE DEF id
  <2>3. \A i, j \in 1..Len(id) : i < j => <<id[i], id[j]>> \in Less(I)
    BY <2>1, <2>2 DEF Less
  <2>4. \A x \in I : \E i \in 1..Len(id) : id[i] = x
    BY <2>1, <2>2
  <2>5. QED
    BY <2>2, <2>3, <2>4 DEF Lists
<1>6. f = id
  <2>1. StrictOrder(I, Less(I))
    BY <1>1, LessIsOrder
  <2>2. Lists(f, I, Less(I))
    BY <1>4 DEF Picks
  <2> HIDE DEF id, I
  <2>3. QED
    BY <1>5, <2>1, <2>2, OneList
<1> HIDE DEF t
<1>7. Len(t) = n /\ \A i \in 1..n : t[i] = s[i]
  <2>1. Len(t) = Len(f) /\ \A j \in 1..Len(f) : t[j] = s[f[j]]
    BY <1>4 DEF Picks
  <2>2. \A j \in 1..n : f[j] = j
    BY <1>6
  <2>3. QED
    BY <1>5, <1>6, <2>1, <2>2
<1>8. t = s
  BY <1>1, <1>3, <1>7, SeqEqual
<1>9. QED
  BY <1>2, <1>8

LEMMA NoSortClauses == SortClauses(<<>>, FALSE) = <<>> /\ SortClauses(<<>>, TRUE) = <<ShardDoc>>
<1>1. ~Mentions(<<>>, "_shard_doc")
  BY DEF Mentions
<1>2. Append(<<>>, ShardDoc) = <<ShardDoc>>
  OBVIOUS
<1>3. QED
  BY <1>1, <1>2 DEF SortClauses, NeedsImplicitTiebreaker

\* A request without sort and cursor, and the answer when its query selects docs.
UnsortedRequest(r) ==
    /\ r.sort = <<>> /\ r.pit = FALSE /\ r.cursor = <<>>
    /\ r.from \in Nat /\ r.size \in Nat /\ r.aggs \in BOOLEAN

AnswersWindow(answer, docs, r) ==
    /\ answer.status = "ok" /\ answer.total = Len(docs)
    /\ answer.hits = Slice(docs, r.from, r.size)
    /\ r.aggs => answer.all = docs

\* A search without a sort answers its window of the documents as they are scanned,
\* whether it keeps them all or the window only.
LEMMA UnsortedSearch ==
    ASSUME NEW d, NEW r, UnsortedRequest(r), NEW T, NEW docs \in Seq(T),
           Select(Scanned(d, r), r.query) = [status |-> "ok", docs |-> docs]
    PROVE  AnswersWindow(Search(d, r), docs, r)
<1> USE DEF UnsortedRequest, AnswersWindow
<1> DEFINE selected == Select(Scanned(d, r), r.query)
<1>1. Search(d, r) = AnswerSelected(selected, <<>>, r)
  BY NoSortClauses DEF Search, CursorValid
<1>2. selected.status = "ok" /\ selected.docs = docs
  OBVIOUS
<1> HIDE DEF selected
<1>3. CASE r.aggs
  <2>1. Search(d, r) = Answer(Len(docs), docs, <<>>, r, r.from)
    BY <1>1, <1>2, <1>3 DEF AnswerSelected, SortByClauses
  <2>2. HitsAfter(docs, <<>>, <<>>) = docs
    BY AllAfter
  <2>3. QED
    BY <2>1, <2>2 DEF Answer
<1>4. CASE ~r.aggs
  <2> DEFINE kept == KeepWindow(docs, r.from, r.size)
  <2>1. Search(d, r) = Answer(Len(docs), kept, <<>>, r, 0)
    BY <1>1, <1>2, <1>4 DEF AnswerSelected, SortByClauses
  <2>2. kept \in Seq(T) /\ IsWindow(kept, docs, r.from, r.size)
    BY KeepIsWindow
  <2>3. Slice(docs, r.from, r.size) \in Seq(T) /\ IsWindow(Slice(docs, r.from, r.size), docs, r.from, r.size)
    BY SliceIsWindow
  <2> HIDE DEF kept
  <2>4. HitsAfter(kept, <<>>, <<>>) = kept
    BY <2>2, AllAfter
  <2>5. Len(kept) <= r.size
    <3>1. Len(docs) \in Nat
      OBVIOUS
    <3>2. QED
      BY <2>2, <3>1, WindowSizeType DEF IsWindow
  <2>6. Slice(kept, 0, r.size) = kept
    BY <2>2, <2>5, WholeWindow
  <2>7. kept = Slice(docs, r.from, r.size)
    BY <2>2, <2>3, OneWindow
  <2>8. QED
    BY <1>4, <2>1, <2>4, <2>6, <2>7 DEF Answer
<1>5. QED
  BY <1>3, <1>4

\* A selection is no longer than what it selects from.
LEMMA AtShorter ==
    ASSUME NEW M, NEW s \in Seq(M), NEW I \in SUBSET DOMAIN s
    PROVE  Len(At(s, I)) <= Len(s)
<1>1. Len(s) \in Nat /\ DOMAIN s = 1..Len(s)
  OBVIOUS
<1>2. IsFiniteSet(1..Len(s)) /\ Cardinality(1..Len(s)) = Len(s)
  <2>1. 1 \in Int /\ Len(s) \in Int /\ (1 > Len(s) => Len(s) = 0) /\ Len(s) - 1 + 1 = Len(s)
    BY <1>1
  <2>2. QED
    BY <2>1, FS_Interval
<1>3. Cardinality(I) <= Cardinality(1..Len(s))
  BY <1>1, <1>2, FS_Subset
<1>4. QED
  BY <1>2, <1>3, AtPicks

LEMMA ScannedShorter ==
    ASSUME NEW d, NEW r
    PROVE  Len(Scanned(d, r)) <= Len(DocOrder) /\ Len(Scanned(d, r)) \in Nat /\ Len(DocOrder) \in Nat
<1> DEFINE I == {i \in DOMAIN DocOrder : DocOrder[i][1] \in ExpandIndices(d, r.indices)
                                         /\ Exists(d, DocOrder[i])}
           keys == At(DocOrder, I)
           hits == [i \in DOMAIN keys |-> Hit(d, keys[i])]
<1>1. DocOrder \in Seq(DocKeys) /\ Len(DocOrder) \in Nat
  BY DocOrderLists DEF Lists
<1>2. Scanned(d, r) = hits
  BY DEF Scanned
<1>3. keys \in Seq(DocKeys) /\ Len(keys) <= Len(DocOrder)
  <2>1. I \in SUBSET DOMAIN DocOrder
    OBVIOUS
  <2> HIDE DEF I
  <2>2. QED
    BY <1>1, <2>1, AtPicks, AtShorter
<1> HIDE DEF keys
<1>4. hits \in Seq({Hit(d, k) : k \in DocKeys}) /\ Len(hits) = Len(keys)
  <2> DEFINE S == {Hit(d, k) : k \in DocKeys}
  <2>1. Len(keys) \in Nat /\ DOMAIN keys = 1..Len(keys) /\ \A i \in 1..Len(keys) : keys[i] \in DocKeys
    BY <1>3
  <2>2. hits \in [1..Len(keys) -> S]
    BY <2>1
  <2> HIDE DEF hits, S
  <2>3. hits \in Seq(S) /\ Len(hits) = Len(keys)
    BY <2>1, <2>2, FunctionIsSeq
  <2>4. QED
    BY <2>3 DEF S
<1>5. QED
  BY <1>1, <1>2, <1>3, <1>4

LEMMA SelectShorter ==
    ASSUME NEW T, NEW hits \in Seq(T), NEW query, Select(hits, query) # Refused
    PROVE  Len(Select(hits, query).docs) <= Len(hits)
<1> DEFINE outcomes == [i \in DOMAIN hits |-> MatchesQuery(hits[i].source, hits[i].id, query)]
           I == {i \in DOMAIN hits : outcomes[i] = "match"}
<1>1. Select(hits, query).docs = At(hits, I)
  BY DEF Select, Kept
<1>2. I \in SUBSET DOMAIN hits
  OBVIOUS
<1> HIDE DEF I
<1>3. QED
  BY <1>1, <1>2, AtShorter

-----------------------------------------------------------------------------
(***************************************************************************)
(* What a query makes of a source, from what its clauses make of it and of *)
(* its nested objects.                                                     *)
(***************************************************************************)

Outcomes == {"match", "miss", "error"}

Evaluated(id, g, q, s) == QueryOutcome(id, q, s, OnNested(g, q, s), OnClauses(g, q, s))

\* g evaluates the queries of A.
Evaluates(id, g, A) == g = [q \in A |-> [s \in Sources |-> Evaluated(id, g, q, s)]]

LEMMA ClausesOfQuery ==
    ASSUME NEW q \in Queries
    PROVE  /\ ToSet(Clauses(q)) \subseteq Queries
           /\ q.kind = "nested" => q.query \in ToSet(Clauses(q))
<1>1. CASE q.kind = "nested"
  <2>1. Clauses(q) = <<q.query>> /\ q.query \in Queries
    BY <1>1, QueriesAreTrees DEF Clauses
  <2>2. ToSet(<<q.query>>) = {q.query}
    BY DEF ToSet
  <2>3. QED
    BY <2>1, <2>2
<1>2. CASE q.kind = "bool"
  <2>1. Clauses(q) = q.must \o q.filter \o q.should \o q.must_not
    BY <1>2 DEF Clauses
  <2>2. {q.must, q.filter, q.should, q.must_not} \subseteq Seq(Queries)
    BY <1>2, QueriesAreTrees
  <2>3. Clauses(q) \in Seq(Queries)
    BY <2>1, <2>2
  <2> DEFINE s == Clauses(q)
  <2> HIDE DEF s
  <2>4. DOMAIN s = 1..Len(s) /\ \A i \in 1..Len(s) : s[i] \in Queries
    BY <2>3, LenProperties DEF s
  <2>5. ToSet(s) \subseteq Queries
    BY <2>4 DEF ToSet
  <2>6. QED
    BY <1>2, <2>5 DEF s
<1>3. CASE q.kind # "nested" /\ q.kind # "bool"
  <2>1. Clauses(q) = <<>>
    BY <1>3 DEF Clauses
  <2>2. QED
    BY <1>3, <2>1 DEF ToSet
<1>4. QED
  BY <1>1, <1>2, <1>3

\* Only the clauses count.
LEMMA ClausesDecide ==
    ASSUME NEW id, NEW q \in Queries, NEW s \in Sources, NEW g, NEW h,
           \A c \in ToSet(Clauses(q)), t \in Sources : g[c][t] = h[c][t]
    PROVE  Evaluated(id, g, q, s) = Evaluated(id, h, q, s)
<1>1. OnClauses(g, q, s) = OnClauses(h, q, s)
  BY DEF OnClauses
<1>2. CASE q.kind = "nested"
  <2>1. OnNested(g, q, s) = OnNested(h, q, s)
    <3> DEFINE values == NestedValues(s, q.path)
    <3>1. q.query \in ToSet(Clauses(q))
      BY <1>2, ClausesOfQuery
    <3>2. \A i \in DOMAIN values : NestedSource(values[i], q.path) \in Sources
      BY <1>2, SourcesClosed
    <3>3. \A i \in DOMAIN values : g[q.query][NestedSource(values[i], q.path)]
                                 = h[q.query][NestedSource(values[i], q.path)]
      BY <3>1, <3>2
    <3>4. QED
      BY <3>3 DEF OnNested
  <2>2. QED
    BY <1>1, <2>1 DEF Evaluated
<1>3. CASE q.kind # "nested"
  <2> DEFINE a == OnNested(g, q, s)
             b == OnNested(h, q, s)
             c == OnClauses(h, q, s)
  <2> HIDE DEF a, b, c
  <2>1. QueryOutcome(id, q, s, a, c) = QueryOutcome(id, q, s, b, c)
    BY <1>3 DEF QueryOutcome
  <2>2. QED
    BY <1>1, <2>1 DEF Evaluated, a, b, c
<1>4. QED
  BY <1>2, <1>3

\* There is such a function: a set of queries with all their clauses that some
\* function evaluates has, unless it is all of them, one more.
LEMMA EvaluationExists ==
    ASSUME NEW id
    PROVE  \E g : Evaluates(id, g, Queries)
<1> DEFINE Solved(A) == /\ A \in SUBSET Queries /\ \A q \in A : ToSet(Clauses(q)) \subseteq A
                        /\ \E g : Evaluates(id, g, A)
           Left == {n \in Nat : \E A \in SUBSET Queries : Solved(A) /\ Cardinality(Queries \ A) = n}
<1>1. \A A \in SUBSET Queries : IsFiniteSet(Queries \ A) /\ Cardinality(Queries \ A) \in Nat
  BY QueriesAreTrees, FS_Subset, FS_CardinalityType
<1>2. Left # {}
  <2>1. Evaluates(id, [q \in {} |-> {}], {})
    BY DEF Evaluates
  <2>2. Solved({})
    BY <2>1
  <2> HIDE DEF Solved
  <2>3. Cardinality(Queries \ {}) \in Left
    BY <1>1, <2>2
  <2>4. QED
    BY <2>3
<1>3. PICK m \in Left : \A n \in Left : m <= n
  <2>1. Left \in SUBSET Nat
    OBVIOUS
  <2> HIDE DEF Left
  <2>2. QED
    BY <1>2, <2>1, LeastNumber
<1>4. PICK A \in SUBSET Queries : Solved(A) /\ Cardinality(Queries \ A) = m
  BY <1>3
<1>5. CASE A = Queries
  BY <1>4, <1>5
<1>6. CASE A # Queries
  <2>1. PICK q \in Queries \ A : ToSet(Clauses(q)) \cap (Queries \ A) = {}
    <3>1. Queries \ A # {} /\ Queries \ A \in SUBSET Queries
      BY <1>6
    <3>2. QED
      BY <3>1, QueriesAreTrees
  <2> DEFINE B == A \cup {q}
  <2>2. ToSet(Clauses(q)) \subseteq A
    BY <2>1, ClausesOfQuery
  <2>3. PICK g : Evaluates(id, g, A)
    BY <1>4
  <2> DEFINE h == [p \in B |-> [s \in Sources |-> Evaluated(id, g, p, s)]]
  <2>4. \A p \in A : ToSet(Clauses(p)) \subseteq A
    BY <1>4
  <2>5. \A p \in A, s \in Sources : g[p][s] = h[p][s]
    BY <2>3 DEF Evaluates
  <2>6. ASSUME NEW p \in B, NEW s \in Sources PROVE Evaluated(id, g, p, s) = Evaluated(id, h, p, s)
    <3>1. p \in Queries /\ ToSet(Clauses(p)) \subseteq A
      BY <2>2, <2>4
    <3> HIDE DEF h
    <3>2. QED
      BY <2>5, <3>1, ClausesDecide
  <2>7. Evaluates(id, h, B)
    BY <2>6 DEF Evaluates
  <2> HIDE DEF h
  <2>8. Solved(B)
    BY <2>2, <2>4, <2>7
  <2>9. Cardinality(Queries \ B) = m - 1
    <3>1. Queries \ B = (Queries \ A) \ {q}
      OBVIOUS
    <3> DEFINE R == Queries \ A
    <3>2. IsFiniteSet(R) /\ q \in R /\ Cardinality(R) = m /\ Queries \ B = R \ {q}
      BY <1>1, <1>4, <3>1
    <3> HIDE DEF R, B
    <3>3. Cardinality(R \ {q}) = Cardinality(R) - 1
      BY <3>2, FS_RemoveElement
    <3>4. QED
      BY <3>2, <3>3
  <2>10. Cardinality(Queries \ B) \in Nat /\ B \in SUBSET Queries
    BY <1>1
  <2> HIDE DEF Solved
  <2>11. m - 1 \in Left
    BY <2>8, <2>9, <2>10
  <2>12. m \in Nat
    BY <1>3
  <2> HIDE DEF Left
  <2>13. QED
    BY <1>3, <2>11, <2>12
<1>7. QED
  BY <1>5, <1>6

\* The outcome of each query on each source.
OutcomesOf(id) == [q \in Queries |-> [s \in Sources |-> MatchesQuery(s, id, q)]]

LEMMA QueryUnfolds ==
    ASSUME NEW id
    PROVE  Evaluates(id, OutcomesOf(id), Queries)
<1> DEFINE V(g) == [q \in Queries |-> [s \in Sources |-> Evaluated(id, g, q, s)]]
           m == CHOOSE g : g = V(g)
<1>1. \E g : g = V(g)
  BY EvaluationExists DEF Evaluates
<1>2. m = V(m)
  BY <1>1
<1>3. \A q, s : MatchesQuery(s, id, q) = m[q][s]
  BY DEF MatchesQuery, Evaluated
<1> HIDE DEF m
<1>4. OutcomesOf(id) = m
  <2>1. ASSUME NEW q \in Queries
        PROVE  m[q] = [s \in Sources |-> MatchesQuery(s, id, q)]
    <3>1. m[q] = [s \in Sources |-> Evaluated(id, m, q, s)]
      BY <1>2
    <3>2. \A s \in Sources : Evaluated(id, m, q, s) = MatchesQuery(s, id, q)
      BY <1>3, <3>1
    <3>3. QED
      BY <3>1, <3>2
  <2>2. m = [q \in Queries |-> m[q]]
    BY <1>2
  <2>3. QED
    BY <2>1, <2>2 DEF OutcomesOf
<1>5. QED
  BY <1>2, <1>4 DEF Evaluates

\* The outcome of a query, from those of its clauses.
LEMMA OutcomeIs ==
    ASSUME NEW id, NEW q \in Queries, NEW s \in Sources
    PROVE  MatchesQuery(s, id, q) =
               QueryOutcome(id, q, s, OnNested(OutcomesOf(id), q, s),
                            [c \in ToSet(Clauses(q)) |-> MatchesQuery(s, id, c)])
<1> DEFINE m == OutcomesOf(id)
<1>1. m = [p \in Queries |-> [t \in Sources |-> Evaluated(id, m, p, t)]]
  BY QueryUnfolds DEF Evaluates
<1>2. \A p \in Queries, t \in Sources : m[p][t] = MatchesQuery(t, id, p)
  BY DEF OutcomesOf
<1> HIDE DEF m
<1>3. MatchesQuery(s, id, q) = Evaluated(id, m, q, s)
  BY <1>1, <1>2
<1>4. OnClauses(m, q, s) = [c \in ToSet(Clauses(q)) |-> MatchesQuery(s, id, c)]
  BY <1>2, ClausesOfQuery DEF OnClauses
<1>5. QED
  BY <1>3, <1>4 DEF Evaluated, m

\* The first position of some.
LEMMA FirstOfSome ==
    ASSUME NEW n, NEW I \in SUBSET (1..n), I # {}
    PROVE  Min(I) \in I /\ \A i \in I : Min(I) <= i
<1>1. I \in SUBSET Nat
  OBVIOUS
<1>2. PICK k \in I : \A i \in I : k <= i
  BY <1>1, LeastNumber
<1>3. QED
  BY <1>1, <1>2 DEF Min

\* Every query has an outcome on every source.
LEMMA OutcomeType ==
    ASSUME NEW id, NEW q \in Queries, NEW s \in Sources
    PROVE  MatchesQuery(s, id, q) \in Outcomes
<1> DEFINE Bad == {p \in Queries : \E t \in Sources : MatchesQuery(t, id, p) \notin Outcomes}
<1>1. ASSUME NEW p \in Queries, ToSet(Clauses(p)) \cap Bad = {}, NEW t \in Sources
      PROVE  MatchesQuery(t, id, p) \in Outcomes
  <2> DEFINE nested == OnNested(OutcomesOf(id), p, t)
             clauses == [c \in ToSet(Clauses(p)) |-> MatchesQuery(t, id, c)]
  <2>1. MatchesQuery(t, id, p) = QueryOutcome(id, p, t, nested, clauses)
    BY OutcomeIs
  <2>2. \A c \in ToSet(Clauses(p)), u \in Sources : MatchesQuery(u, id, c) \in Outcomes
    BY <1>1, ClausesOfQuery
  <2>3. \A b : Outcome(b) \in Outcomes
    BY DEF Outcome, Outcomes
  <2>4. CASE p.kind = "nested"
    <3>1. DOMAIN nested = DOMAIN NestedValues(t, p.path)
      BY DEF OnNested
    <3>2. \A i \in DOMAIN nested : nested[i] \in Outcomes
      <4>1. p.query \in ToSet(Clauses(p)) /\ p.query \in Queries
        BY <2>4, ClausesOfQuery
      <4>2. \A i \in DOMAIN nested : NestedSource(NestedValues(t, p.path)[i], p.path) \in Sources
        BY <2>4, <3>1, SourcesClosed
      <4>3. QED
        BY <2>2, <4>1, <4>2 DEF OnNested, OutcomesOf
    <3> DEFINE deciding == {i \in DOMAIN nested : nested[i] # "miss"}
               n == Cardinality({i \in DOMAIN Elements(ValueAt(t, <<p.path>>)) :
                                    Elements(ValueAt(t, <<p.path>>))[i].type = "object"})
    <3>3. DOMAIN nested = 1..n
      BY <3>1 DEF NestedValues, At, Listed
    <3> HIDE DEF nested, n
    <3>4. deciding # {} => Min(deciding) \in deciding
      BY <3>3, FirstOfSome
    <3>5. NestedOutcome(t, p.path, nested) \in Outcomes
      BY <3>2, <3>4 DEF NestedOutcome, Outcomes
    <3>6. QueryOutcome(id, p, t, nested, clauses) = NestedOutcome(t, p.path, nested)
      BY <2>4, TextQueriesAssumption DEF QueryOutcome
    <3>7. QED
      BY <2>1, <3>5, <3>6 DEF nested
  <2>5. CASE p.kind = "bool"
    <3> DEFINE required == p.must \o p.filter
               refusing == {i \in DOMAIN required : clauses[required[i]] # "match"}
               excluding == {i \in DOMAIN p.must_not : clauses[p.must_not[i]] # "miss"}
    <3>1. refusing # {} => clauses[required[Min(refusing)]] \in Outcomes
      <4>1. /\ p.must \in Seq(Queries) /\ p.filter \in Seq(Queries)
            /\ p.should \in Seq(Queries) /\ p.must_not \in Seq(Queries)
        BY <2>5, QueriesAreTrees
      <4> DEFINE must == p.must
                 filter == p.filter
                 should == p.should
                 mustNot == p.must_not
                 tail == should \o mustNot
      <4>2. Clauses(p) = ((must \o filter) \o should) \o mustNot
        BY <2>5 DEF Clauses
      <4>3. must \in Seq(Queries) /\ filter \in Seq(Queries) /\ should \in Seq(Queries)
            /\ mustNot \in Seq(Queries)
        BY <4>1
      <4> HIDE DEF must, filter, should, mustNot
      <4>4. must \o filter \in Seq(Queries) /\ tail \in Seq(Queries)
        BY <4>3, ConcatProperties
      <4>5. Clauses(p) = (must \o filter) \o tail
        <5> DEFINE first == must \o filter
        <5>1. first \in Seq(Queries) /\ should \in Seq(Queries) /\ mustNot \in Seq(Queries)
          BY <4>3, <4>4
        <5> HIDE DEF first
        <5>2. (first \o should) \o mustNot = first \o (should \o mustNot)
          BY <5>1, ConcatAssociative
        <5>3. QED
          BY <4>2, <5>2 DEF first
      <4>6. required \in Seq(Queries) /\ DOMAIN required = 1..Len(required) /\ Len(required) \in Nat
        <5>1. required = must \o filter
          BY DEF must, filter
        <5> HIDE DEF required
        <5>2. QED
          BY <4>4, <5>1, LenProperties
      <4>7. tail \in Seq(Queries) /\ Clauses(p) = required \o tail
        BY <4>4, <4>5 DEF must, filter
      <4> HIDE DEF required, tail, clauses
      <4>8. \A i \in DOMAIN required : required[i] \in ToSet(Clauses(p))
        BY <4>6, <4>7 DEF ToSet
      <4>9. refusing # {} => Min(refusing) \in refusing
        BY <4>6, FirstOfSome
      <4>10. \A c \in ToSet(Clauses(p)) : clauses[c] \in Outcomes
        BY <2>2 DEF clauses
      <4>11. QED
        BY <4>8, <4>9, <4>10
    <3>2. BoolOutcome(p, clauses) \in Outcomes
      <4> HIDE DEF clauses
      <4>1. QED
        BY <2>3, <3>1 DEF BoolOutcome, Outcomes
    <3>3. QueryOutcome(id, p, t, nested, clauses) = BoolOutcome(p, clauses)
      <4> HIDE DEF nested, clauses
      <4>1. QED
        BY <2>5, TextQueriesAssumption DEF QueryOutcome
    <3>4. QED
      BY <2>1, <3>2, <3>3
  <2>6. CASE p.kind # "nested" /\ p.kind # "bool"
    <3> HIDE DEF nested, clauses
    <3>1. QueryOutcome(id, p, t, nested, clauses) \in Outcomes
      BY <2>3, <2>6 DEF QueryOutcome, Outcomes
    <3>2. QED
      BY <2>1, <3>1
  <2>7. QED
    BY <2>4, <2>5, <2>6
<1>2. Bad = {}
  <2>1. ASSUME Bad # {} PROVE FALSE
    <3>1. Bad \in SUBSET Queries
      OBVIOUS
    <3>2. PICK p \in Bad : ToSet(Clauses(p)) \cap Bad = {}
      BY <2>1, <3>1, QueriesAreTrees
    <3>3. QED
      BY <1>1, <3>2
  <2>2. QED
    BY <2>1
<1>3. QED
  BY <1>2

\* The queries that aggregations are compared with.
LEMMA LeafOutcomes ==
    ASSUME NEW id, NEW q \in Queries, NEW s \in Sources
    PROVE  /\ q.kind = "match_all" => MatchesQuery(s, id, q) = "match"
           /\ q.kind = "exists" => MatchesQuery(s, id, q) = Outcome(ValueAt(s, q.field) # Absent)
           /\ q.kind = "term" =>
                  MatchesQuery(s, id, q) =
                      Outcome(\E v \in ToSet(Elements(ValueAt(s, q.field))) : v \in q.values)
<1> DEFINE nested == OnNested(OutcomesOf(id), q, s)
           clauses == [c \in ToSet(Clauses(q)) |-> MatchesQuery(s, id, c)]
<1>1. MatchesQuery(s, id, q) = QueryOutcome(id, q, s, nested, clauses)
  BY OutcomeIs
<1> HIDE DEF nested, clauses
<1>2. CASE q.kind = "match_all"
  BY <1>1, <1>2, TextQueriesAssumption DEF QueryOutcome
<1>3. CASE q.kind = "exists"
  BY <1>1, <1>3, TextQueriesAssumption DEF QueryOutcome
<1>4. CASE q.kind = "term"
  BY <1>1, <1>4, TextQueriesAssumption DEF QueryOutcome
<1>5. QED
  BY <1>2, <1>3, <1>4

\* A query that excludes another and nothing else.
LEMMA NegatedOutcome ==
    ASSUME NEW id, NEW q \in Queries, NEW c \in Queries, NEW s \in Sources,
           q.kind = "bool", q.must_not = <<c>>, q.minimum = {},
           q.must = <<>>, q.filter = <<>>, q.should = <<>>
    PROVE  MatchesQuery(s, id, q) =
               CASE MatchesQuery(s, id, c) = "match" -> "miss"
                 [] MatchesQuery(s, id, c) = "miss" -> "match"
                 [] OTHER -> "error"
<1> DEFINE nested == OnNested(OutcomesOf(id), q, s)
           clauses == [e \in ToSet(Clauses(q)) |-> MatchesQuery(s, id, e)]
           excluding == {i \in DOMAIN <<c>> : clauses[<<c>>[i]] # "miss"}
<1>1. MatchesQuery(s, id, q) = QueryOutcome(id, q, s, nested, clauses)
  BY OutcomeIs
<1>2. ToSet(Clauses(q)) = {c}
  <2>1. Clauses(q) = <<c>>
    BY DEF Clauses
  <2>2. ToSet(<<c>>) = {c}
    BY DEF ToSet
  <2>3. QED
    BY <2>1, <2>2
<1>3. clauses[c] = MatchesQuery(s, id, c) /\ MatchesQuery(s, id, c) \in Outcomes
  BY <1>2, OutcomeType
<1> HIDE DEF nested, clauses
<1>4. QueryOutcome(id, q, s, nested, clauses) = BoolOutcome(q, clauses)
  BY TextQueriesAssumption DEF QueryOutcome
<1>5. q.must \o q.filter = <<>> /\ DOMAIN <<>> = {} /\ q.must_not = <<c>>
  OBVIOUS
<1>6. BoolOutcome(q, clauses) =
          IF excluding # {}
          THEN (IF clauses[<<c>>[Min(excluding)]] = "error" THEN "error" ELSE "miss")
          ELSE Outcome(Cardinality({}) >= 0)
  BY <1>5 DEF BoolOutcome
<1>7. DOMAIN <<c>> = {1} /\ <<c>>[1] = c
  <2>1. DOMAIN <<c>> = 1..1 /\ <<c>>[1] = c
    OBVIOUS
  <2>2. \A i : i \in 1..1 <=> i = 1
    OBVIOUS
  <2>3. QED
    BY <2>1, <2>2
<1>8. CASE MatchesQuery(s, id, c) = "miss"
  <2>1. excluding = {}
    BY <1>3, <1>7, <1>8
  <2>2. Cardinality({}) >= 0
    BY FS_EmptySet
  <2> HIDE DEF excluding
  <2>3. BoolOutcome(q, clauses) = "match"
    BY <1>6, <2>1, <2>2 DEF Outcome
  <2>4. QED
    BY <1>1, <1>4, <1>8, <2>3
<1>9. CASE MatchesQuery(s, id, c) # "miss"
  <2>1. excluding = {1}
    BY <1>3, <1>7, <1>9
  <2>2. Min({1}) = 1
    <3> DEFINE I == {1}
    <3>1. I \in SUBSET (1..1) /\ I # {} /\ \A i \in I : i = 1
      OBVIOUS
    <3> HIDE DEF I
    <3>2. Min(I) \in I
      BY <3>1, FirstOfSome
    <3>3. QED
      BY <3>1, <3>2 DEF I
  <2> HIDE DEF excluding
  <2>3. BoolOutcome(q, clauses) = IF MatchesQuery(s, id, c) = "error" THEN "error" ELSE "miss"
    BY <1>3, <1>6, <1>7, <2>1, <2>2
  <2>4. QED
    BY <1>1, <1>3, <1>4, <1>9, <2>3 DEF Outcomes
<1>10. QED
  BY <1>8, <1>9

-----------------------------------------------------------------------------
(***************************************************************************)
(* Sequences built one element at a time.                                  *)
(***************************************************************************)

\* A set of sequences that has the empty one and what comes of one more element
\* has them all.
LEMMA SequenceInduction ==
    ASSUME NEW T, NEW P, <<>> \in P, \A s \in Seq(T), x \in T : s \in P => Append(s, x) \in P
    PROVE  Seq(T) \subseteq P
<1> SUFFICES ASSUME NEW s \in Seq(T) PROVE s \in P
  OBVIOUS
<1> DEFINE n == Len(s)
           K == {k \in 0..n : SubSeq(s, 1, k) \in P}
<1>1. n \in Nat /\ DOMAIN s = 1..n /\ \A k \in 1..n : s[k] \in T
  OBVIOUS
<1>2. 0 \in K
  <2>1. SubSeq(s, 1, 0) = <<>> /\ 0 \in 0..n
    OBVIOUS
  <2>2. QED
    BY <2>1
<1>3. ASSUME NEW k \in 1..n, k - 1 \in K PROVE k \in K
  <2> DEFINE a == SubSeq(s, 1, k - 1)
             b == SubSeq(s, 1, k)
  <2>1. a \in Seq(T) /\ Len(a) = k - 1 /\ \A i \in 1..(k - 1) : a[i] = s[i]
    OBVIOUS
  <2>2. b \in Seq(T) /\ Len(b) = k /\ \A i \in 1..k : b[i] = s[i]
    OBVIOUS
  <2>3. a \in P /\ s[k] \in T /\ k \in 0..n /\ k \in Nat
    BY <1>1, <1>3
  <2> HIDE DEF a, b
  <2>4. Append(a, s[k]) = b
    <3> DEFINE t == Append(a, s[k])
    <3>1. t \in Seq(T) /\ Len(t) = k /\ t[k] = s[k] /\ \A i \in 1..(k - 1) : t[i] = a[i]
      BY <2>1, <2>3
    <3>2. \A i \in 1..k : i = k \/ i \in 1..(k - 1)
      BY <2>3
    <3>3. \A i \in 1..k : t[i] = b[i]
      BY <2>1, <2>2, <2>3, <3>1, <3>2
    <3> HIDE DEF t
    <3>4. t = b
      BY <2>2, <3>1, <3>3, SeqEqual
    <3>5. QED
      BY <3>4 DEF t
  <2>5. b \in P
    BY <2>1, <2>3, <2>4
  <2>6. QED
    BY <2>3, <2>5 DEF b
<1>4. n \in K
  <2> HIDE DEF K, n
  <2>1. \A k \in 0..n : k \in K
    BY <1>1, <1>2, <1>3, UpTo
  <2>2. QED
    BY <1>1, <2>1
<1>5. SubSeq(s, 1, n) = s
  OBVIOUS
<1>6. QED
  BY <1>4, <1>5

\* The fold of one element more.
LEMMA FoldNext ==
    ASSUME NEW R, NEW F, NEW base, NEW M, NEW ms \in Seq(M), NEW m \in M, NEW v, NEW w,
           FoldsTo(R, F, base, ms, v), FoldsTo(R, F, base, Append(ms, m), w), F[<<v, m>>] \in R
    PROVE  w = F[<<v, m>>]
<1>1. Len(ms) \in Nat /\ v \in R
  BY FoldType
<1>2. FoldsTo(R, F, v, <<m>>, F[<<v, m>>])
  BY <1>1, FoldOne
<1>3. <<m>> \in Seq(M) /\ Append(ms, m) = ms \o <<m>> /\ Len(Append(ms, m)) \in Nat
  OBVIOUS
<1>4. FoldsTo(R, F, base, ms \o <<m>>, F[<<v, m>>])
  BY <1>2, <1>3, FoldConcat
<1>5. QED
  BY <1>3, <1>4, FoldUnique

Concats(T) == [p \in Seq(T) \X Seq(T) |-> p[1] \o p[2]]

LEMMA ConcatsIs ==
    ASSUME NEW T
    PROVE  /\ Concats(T) \in [Seq(T) \X Seq(T) -> Seq(T)]
           /\ \A a, b \in Seq(T) : Concats(T)[<<a, b>>] = a \o b /\ a \o b \in Seq(T)
<1> DEFINE S == Seq(T)
<1>1. \A a, b \in S : a \o b \in S
  OBVIOUS
<1> HIDE DEF S
<1>2. [p \in S \X S |-> p[1] \o p[2]] \in [S \X S -> S]
  BY <1>1
<1>3. \A a, b \in S : [p \in S \X S |-> p[1] \o p[2]][<<a, b>>] = a \o b
  OBVIOUS
<1>4. QED
  BY <1>1, <1>2, <1>3 DEF Concats, S

\* FlattenSeq joins the sequences from the first to the last.
LEMMA FlattenFold ==
    ASSUME NEW T, NEW seqs \in Seq(Seq(T))
    PROVE  FoldsTo(Seq(T), Concats(T), <<>>, seqs, FlattenSeq(seqs))
<1> DEFINE n == Len(seqs)
           W(f) == [i \in 1..n |-> IF i = 1 THEN seqs[i] ELSE f[i - 1] \o seqs[i]]
           it == CHOOSE f : f = W(f)
           F == Concats(T)
<1>1. n \in Nat /\ DOMAIN seqs = 1..n /\ \A i \in 1..n : seqs[i] \in Seq(T)
  OBVIOUS
<1>2. F \in [Seq(T) \X Seq(T) -> Seq(T)] /\ \A a, b \in Seq(T) : F[<<a, b>>] = a \o b
  BY ConcatsIs
<1>3. <<>> \in Seq(T) /\ \A a \in Seq(T) : <<>> \o a = a
  OBVIOUS
<1> HIDE DEF F
<1>4. PICK g \in [SUBSET DOMAIN seqs -> Seq(T)] : SolvesFold(g, F, <<>>, seqs)
  BY <1>2, <1>3, FoldSolution
<1>5. g[{}] = <<>>
  BY <1>4 DEF SolvesFold
<1>6. ASSUME NEW i \in 1..n
      PROVE  g[1..i] = g[1..(i - 1)] \o seqs[i] /\ g[1..(i - 1)] \in Seq(T)
  <2>1. 1..i \in SUBSET (1..n) /\ 1..i # {} /\ Max(1..i) = i /\ (1..i) \ {i} = 1..(i - 1)
    BY <1>1, LastOfPrefix
  <2>2. 1..(i - 1) \in SUBSET DOMAIN seqs
    BY <1>1, <2>1
  <2>3. g[1..(i - 1)] \in Seq(T)
    BY <1>4, <2>2
  <2>4. g[1..i] = F[<<g[1..(i - 1)], seqs[i]>>]
    BY <1>1, <1>4, <2>1 DEF SolvesFold
  <2>5. QED
    BY <1>1, <1>2, <2>3, <2>4
<1> DEFINE f == [i \in 1..n |-> g[1..i]]
<1>7. f = W(f)
  <2>1. ASSUME NEW i \in 1..n PROVE g[1..i] = IF i = 1 THEN seqs[i] ELSE f[i - 1] \o seqs[i]
    <3>1. CASE i = 1
      <4>1. 1..(1 - 1) = {}
        OBVIOUS
      <4>2. QED
        BY <1>1, <1>3, <1>5, <1>6, <3>1, <4>1
    <3>2. CASE i # 1
      <4>1. i - 1 \in 1..n
        <5>1. n \in Nat
          BY <1>1, Zenon
        <5>2. QED
          BY <3>2, <5>1
      <4>2. QED
        BY <1>6, <3>2, <4>1
    <3>3. QED
      BY <3>1, <3>2
  <2>2. QED
    BY <2>1
<1>8. it = W(it)
  <2> HIDE DEF f
  <2>1. QED
    BY <1>7
<1> HIDE DEF it
<1>9. n # 0 => FlattenSeq(seqs) = it[n]
  BY DEF FlattenSeq, it
<1>10. ASSUME NEW k \in 1..n PROVE it[k] = g[1..k]
  <2> DEFINE K == {0} \cup {i \in 1..n : it[i] = g[1..i]}
  <2>1. ASSUME NEW i \in 1..n, i - 1 \in K PROVE i \in K
    <3>1. it[i] = IF i = 1 THEN seqs[i] ELSE it[i - 1] \o seqs[i]
      BY <1>8
    <3>2. g[1..i] = IF i = 1 THEN seqs[i] ELSE g[1..(i - 1)] \o seqs[i]
      <4>1. g[1..i] = IF i = 1 THEN seqs[i] ELSE f[i - 1] \o seqs[i]
        BY <1>7
      <4>2. i # 1 => i - 1 \in 1..n
        BY <1>1
      <4>3. QED
        BY <4>1, <4>2
    <3>3. i # 1 => it[i - 1] = g[1..(i - 1)]
      BY <2>1
    <3>4. QED
      BY <3>1, <3>2, <3>3
  <2> HIDE DEF K
  <2>2. 0 \in K
    BY DEF K
  <2>3. \A i \in 0..n : i \in K
    BY <1>1, <2>1, <2>2, UpTo
  <2>4. k \in K /\ k # 0
    BY <1>1, <2>3
  <2>5. QED
    BY <2>4 DEF K
<1>11. FlattenSeq(seqs) = g[DOMAIN seqs]
  <2>1. CASE n = 0
    <3>1. FlattenSeq(seqs) = seqs /\ seqs = <<>> /\ DOMAIN seqs = {}
      BY <2>1 DEF FlattenSeq
    <3>2. QED
      BY <1>5, <3>1
  <2>2. CASE n # 0
    <3>1. n \in 1..n
      BY <1>1, <2>2
    <3>2. QED
      BY <1>1, <1>9, <1>10, <2>2, <3>1
  <2>3. QED
    BY <2>1, <2>2
<1>12. FoldsTo(Seq(T), F, <<>>, seqs, g[DOMAIN seqs])
  <2>1. ASSUME NEW s \in SUBSET DOMAIN seqs, s # {}, g[s \ {Max(s)}] \in Seq(T)
        PROVE  g[s] = F[<<g[s \ {Max(s)}], seqs[Max(s)]>>]
    BY <1>4, <2>1 DEF SolvesFold
  <2>2. QED
    BY <1>2, <1>3, <1>5, <2>1, FoldOf
<1>13. QED
  BY <1>11, <1>12 DEF F

LEMMA Flattened ==
    ASSUME NEW T
    PROVE  /\ FlattenSeq(<<>>) = <<>>
           /\ \A seqs \in Seq(Seq(T)) : FlattenSeq(seqs) \in Seq(T)
           /\ \A seqs \in Seq(Seq(T)), e \in Seq(T) :
                  FlattenSeq(Append(seqs, e)) = FlattenSeq(seqs) \o e
<1>1. FlattenSeq(<<>>) = <<>>
  BY DEF FlattenSeq
<1>2. ASSUME NEW seqs \in Seq(Seq(T)) PROVE FlattenSeq(seqs) \in Seq(T)
  <2>1. Len(seqs) \in Nat
    OBVIOUS
  <2>2. QED
    BY <2>1, FlattenFold, FoldType
<1>3. ASSUME NEW seqs \in Seq(Seq(T)), NEW e \in Seq(T)
      PROVE  FlattenSeq(Append(seqs, e)) = FlattenSeq(seqs) \o e
  <2> DEFINE v == FlattenSeq(seqs)
             w == FlattenSeq(Append(seqs, e))
             F == Concats(T)
  <2>1. Append(seqs, e) \in Seq(Seq(T))
    OBVIOUS
  <2>2. FoldsTo(Seq(T), F, <<>>, seqs, v) /\ FoldsTo(Seq(T), F, <<>>, Append(seqs, e), w)
    BY <2>1, FlattenFold
  <2>3. v \in Seq(T)
    BY <1>2
  <2>4. F[<<v, e>>] = v \o e /\ v \o e \in Seq(T)
    BY <2>3, ConcatsIs
  <2> HIDE DEF v, w, F
  <2>5. w = F[<<v, e>>]
    BY <2>2, <2>4, FoldNext
  <2>6. QED
    BY <2>4, <2>5 DEF v, w
<1>4. QED
  BY <1>1, <1>2, <1>3

-----------------------------------------------------------------------------
(***************************************************************************)
(* Numbers that add up over the elements of a sequence.                    *)
(***************************************************************************)

\* f adds up the weights w of the elements.
Weighs(f, w, V) ==
    /\ f[<<>>] = 0 /\ \A v \in V : w[v] \in Int
    /\ \A s \in Seq(V), v \in V : f[Append(s, v)] = f[s] + w[v]

LEMMA WeightType ==
    ASSUME NEW V, NEW f, NEW w, Weighs(f, w, V)
    PROVE  \A s \in Seq(V) : f[s] \in Int
<1> DEFINE P == {s \in Seq(V) : f[s] \in Int}
<1>1. <<>> \in P
  <2>1. <<>> \in Seq(V) /\ f[<<>>] = 0
    BY DEF Weighs
  <2>2. QED
    BY <2>1
<1>2. ASSUME NEW s \in Seq(V), NEW v \in V, s \in P PROVE Append(s, v) \in P
  <2>1. f[Append(s, v)] = f[s] + w[v] /\ w[v] \in Int /\ f[s] \in Int
    BY <1>2 DEF Weighs
  <2>2. QED
    BY <2>1
<1>3. Seq(V) \subseteq P
  <2> HIDE DEF P
  <2>1. QED
    BY <1>1, <1>2, SequenceInduction
<1>4. QED
  BY <1>3

LEMMA WeightOfBoth ==
    ASSUME NEW V, NEW f, NEW w, Weighs(f, w, V), NEW a \in Seq(V), NEW b \in Seq(V)
    PROVE  f[a \o b] = f[a] + f[b]
<1> DEFINE P == {s \in Seq(V) : f[a \o s] = f[a] + f[s]}
<1>1. <<>> \in P
  <2>1. <<>> \in Seq(V) /\ a \o <<>> = a
    OBVIOUS
  <2>2. f[<<>>] = 0 /\ f[a] \in Int
    BY WeightType DEF Weighs
  <2>3. f[a] = f[a] + 0
    BY <2>2
  <2>4. QED
    BY <2>1, <2>2, <2>3
<1>2. ASSUME NEW s \in Seq(V), NEW v \in V, s \in P PROVE Append(s, v) \in P
  <2>1. a \o Append(s, v) = Append(a \o s, v) /\ a \o s \in Seq(V) /\ Append(s, v) \in Seq(V)
    OBVIOUS
  <2>2. f[Append(s, v)] = f[s] + w[v] /\ f[Append(a \o s, v)] = f[a \o s] + w[v]
    BY <2>1 DEF Weighs
  <2>3. f[a \o s] = f[a] + f[s]
    BY <1>2
  <2>4. f[a] \in Int /\ f[s] \in Int /\ w[v] \in Int
    BY WeightType DEF Weighs
  <2>5. f[a \o Append(s, v)] = f[a] + f[Append(s, v)]
    BY <2>1, <2>2, <2>3, <2>4
  <2>6. QED
    BY <2>1, <2>5
<1>3. Seq(V) \subseteq P
  <2> HIDE DEF P
  <2>1. QED
    BY <1>1, <1>2, SequenceInduction
<1>4. QED
  BY <1>3

LEMMA SameWeight ==
    ASSUME NEW V, NEW f, NEW g, NEW w, Weighs(f, w, V), Weighs(g, w, V)
    PROVE  \A s \in Seq(V) : f[s] = g[s]
<1> DEFINE P == {s \in Seq(V) : f[s] = g[s]}
<1>1. <<>> \in P
  BY DEF Weighs
<1>2. ASSUME NEW s \in Seq(V), NEW v \in V, s \in P PROVE Append(s, v) \in P
  BY <1>2 DEF Weighs
<1>3. Seq(V) \subseteq P
  <2> HIDE DEF P
  <2>1. QED
    BY <1>1, <1>2, SequenceInduction
<1>4. QED
  BY <1>3

\* A selection by one position more.
LEMMA AtNext ==
    ASSUME NEW M, NEW s \in Seq(M), NEW n \in DOMAIN s, NEW I \in SUBSET (1..n), n \in I
    PROVE  At(s, I) = Append(At(s, I \ {n}), s[n])
<1> DEFINE J == I \ {n}
           t == At(s, I)
           u == At(s, J)
<1>1. /\ DOMAIN s = 1..Len(s) /\ Len(s) \in Nat /\ n \in 1..Len(s) /\ s[n] \in M
      /\ I \in SUBSET DOMAIN s /\ J \in SUBSET DOMAIN s /\ I \in SUBSET Int
  <2>1. DOMAIN s = 1..Len(s) /\ Len(s) \in Nat
    OBVIOUS
  <2>2. n \in 1..Len(s) /\ s[n] \in M
    OBVIOUS
  <2>3. \A i \in I : i \in 1..Len(s) /\ i \in Int
    BY <2>1, <2>2
  <2>4. QED
    BY <2>1, <2>2, <2>3
<1>2. PICK f : Picks(t, s, I, f)
  BY <1>1, AtPicks
<1>3. PICK g : Picks(u, s, J, g)
  BY <1>1, AtPicks
<1>4. t \in Seq(M) /\ u \in Seq(M)
  BY <1>1, AtPicks
<1> DEFINE h == g \o <<n>>
<1>5. f = h
  <2>1. Lists(g, J, Less(I))
    <3>1. Lists(g, J, Less(J))
      BY <1>3 DEF Picks
    <3>2. Less(J) \subseteq Less(I)
      BY DEF Less
    <3> HIDE DEF J
    <3>3. QED
      BY <3>1, <3>2 DEF Lists
  <2>2. Lists(<<n>>, {n}, Less(I))
    <3>1. <<n>> \in Seq({n}) /\ Len(<<n>>) = 1 /\ <<n>>[1] = n
      OBVIOUS
    <3>2. \A i, j \in 1..1 : ~(i < j)
      OBVIOUS
    <3>3. \A x \in {n} : \E i \in 1..1 : <<n>>[i] = x
      BY <3>1
    <3>4. QED
      BY <3>1, <3>2, <3>3 DEF Lists
  <2>3. \A x \in J, y \in {n} : <<x, y>> \in Less(I)
    <3>1. \A x \in J : x < n
      BY <1>1
    <3>2. QED
      BY <3>1 DEF Less
  <2>4. Lists(h, J \cup {n}, Less(I))
    BY <2>1, <2>2, <2>3, ConcatLists
  <2>5. J \cup {n} = I
    OBVIOUS
  <2>6. StrictOrder(I, Less(I))
    BY <1>1, LessIsOrder
  <2>7. Lists(f, I, Less(I))
    BY <1>2 DEF Picks
  <2> HIDE DEF h, J
  <2>8. Lists(h, I, Less(I))
    BY <2>4, <2>5
  <2>9. QED
    BY <2>6, <2>7, <2>8, OneList
<1> DEFINE k == Len(g)
<1>6. /\ k \in Nat /\ Len(u) = k /\ g \in Seq(J) /\ \A j \in 1..k : u[j] = s[g[j]]
      /\ Len(t) = Len(f) /\ \A j \in 1..Len(f) : t[j] = s[f[j]]
  BY <1>2, <1>3 DEF Picks, Lists
<1> HIDE DEF t, u, J
<1>7. Len(f) = k + 1 /\ f[k + 1] = n /\ \A j \in 1..k : f[j] = g[j]
  <2>1. Len(h) = k + 1 /\ h[k + 1] = n /\ \A j \in 1..k : h[j] = g[j]
    BY <1>6
  <2> HIDE DEF h
  <2>2. QED
    BY <1>5, <2>1
<1> DEFINE v == Append(u, s[n])
<1>8. v \in Seq(M) /\ Len(v) = k + 1 /\ v[k + 1] = s[n] /\ \A j \in 1..k : v[j] = u[j]
  BY <1>1, <1>4, <1>6
<1>9. \A j \in 1..(k + 1) : j = k + 1 \/ j \in 1..k
  BY <1>6
<1> HIDE DEF v, k, h
<1>10. \A j \in 1..(k + 1) : t[j] = v[j]
  BY <1>6, <1>7, <1>8, <1>9
<1>11. t = v
  BY <1>4, <1>6, <1>7, <1>8, <1>10, SeqEqual
<1>12. QED
  BY <1>11 DEF t, v, u, J

LEMMA AtEnds ==
    ASSUME NEW M, NEW s \in Seq(M)
    PROVE  At(s, {}) = <<>> /\ At(s, DOMAIN s) = s
<1>1. At(s, {}) = <<>>
  <2>1. At(s, {}) \in Seq(M) /\ Len(At(s, {})) = Cardinality({})
    BY AtPicks
  <2>2. Cardinality({}) = 0
    BY FS_EmptySet
  <2> DEFINE t == At(s, {})
  <2> HIDE DEF t
  <2>3. t \in Seq(M) /\ Len(t) = 0
    BY <2>1, <2>2 DEF t
  <2>4. QED
    BY <2>3 DEF t
<1>2. At(s, DOMAIN s) = s
  <2>1. HitsAfter(s, <<>>, <<>>) = s
    BY AllAfter
  <2>2. HitsAfter(s, <<>>, <<>>) = At(s, DOMAIN s)
    BY DEF HitsAfter, HitIsAfter
  <2>3. QED
    BY <2>1, <2>2
<1>3. QED
  BY <1>1, <1>2

\* What is selected and what is left weigh as much as the whole.
LEMMA PartsWeigh ==
    ASSUME NEW V, NEW f, NEW w, Weighs(f, w, V), NEW s \in Seq(V), NEW I, NEW J,
           I \cup J = DOMAIN s, I \cap J = {}
    PROVE  f[s] = f[At(s, I)] + f[At(s, J)]
<1> DEFINE n == Len(s)
           A(K, k) == At(s, K \cap (1..k))
           G == {k \in 0..n : f[A(DOMAIN s, k)] = f[A(I, k)] + f[A(J, k)]}
<1>1. n \in Nat /\ DOMAIN s = 1..n /\ \A k \in 1..n : s[k] \in V
  OBVIOUS
<1>2. \A K, k : K \cap (1..k) \in SUBSET DOMAIN s \/ ~(K \in SUBSET DOMAIN s)
  OBVIOUS
<1>3. ASSUME NEW K \in SUBSET DOMAIN s, NEW k PROVE A(K, k) \in Seq(V)
  BY <1>2, AtPicks
<1>4. ASSUME NEW K \in SUBSET DOMAIN s, NEW k \in 1..n
      PROVE  f[A(K, k)] = f[A(K, k - 1)] + (IF k \in K THEN w[s[k]] ELSE 0)
  <2>1. K \cap (1..k) \in SUBSET (1..k) /\ k \in DOMAIN s
    BY <1>1
  <2>2. (K \cap (1..k)) \ {k} = K \cap (1..(k - 1))
    BY <1>1
  <2>3. A(K, k - 1) \in Seq(V)
    BY <1>3
  <2>4. CASE k \in K
    <3>1. k \in K \cap (1..k)
      BY <1>1, <2>4
    <3>2. At(s, K \cap (1..k)) = Append(At(s, (K \cap (1..k)) \ {k}), s[k])
      BY <2>1, <3>1, AtNext
    <3>3. A(K, k) = Append(A(K, k - 1), s[k])
      BY <2>2, <3>2
    <3> HIDE DEF A
    <3>4. f[A(K, k)] = f[A(K, k - 1)] + w[s[k]]
      BY <1>1, <2>3, <3>3 DEF Weighs
    <3>5. QED
      BY <2>4, <3>4
  <2>5. CASE k \notin K
    <3>1. K \cap (1..k) = K \cap (1..(k - 1))
      BY <2>2, <2>5
    <3>2. f[A(K, k - 1)] \in Int
      BY <2>3, WeightType
    <3>3. f[A(K, k)] = f[A(K, k - 1)]
      BY <3>1
    <3> HIDE DEF A
    <3>4. f[A(K, k - 1)] = f[A(K, k - 1)] + 0
      BY <3>2
    <3>5. QED
      BY <2>5, <3>3, <3>4
  <2>6. QED
    BY <2>4, <2>5
<1>5. I \in SUBSET DOMAIN s /\ J \in SUBSET DOMAIN s
  OBVIOUS
<1>6. 0 \in G
  <2>1. 1..0 = {} /\ 0 \in 0..n /\ \A K : K \cap {} = {}
    BY <1>1
  <2>2. f[At(s, {})] = 0
    BY AtEnds DEF Weighs
  <2>3. QED
    BY <2>1, <2>2
<1>7. ASSUME NEW k \in 1..n, k - 1 \in G PROVE k \in G
  <2> DEFINE d == A(DOMAIN s, k - 1)
             a == A(I, k - 1)
             b == A(J, k - 1)
  <2>1. f[d] = f[a] + f[b] /\ k \in 0..n
    BY <1>1, <1>7
  <2>2. f[A(DOMAIN s, k)] = f[d] + w[s[k]]
    BY <1>1, <1>4
  <2>3. f[A(I, k)] = f[a] + (IF k \in I THEN w[s[k]] ELSE 0)
    BY <1>4, <1>5
  <2>4. f[A(J, k)] = f[b] + (IF k \in J THEN w[s[k]] ELSE 0)
    BY <1>4, <1>5
  <2>5. f[d] \in Int /\ f[a] \in Int /\ f[b] \in Int /\ w[s[k]] \in Int
    BY <1>1, <1>3, <1>5, WeightType DEF Weighs
  <2>6. (k \in I /\ k \notin J) \/ (k \in J /\ k \notin I)
    BY <1>1
  <2> HIDE DEF A, d, a, b
  <2>7. f[A(DOMAIN s, k)] = f[A(I, k)] + f[A(J, k)]
    BY <2>1, <2>2, <2>3, <2>4, <2>5, <2>6
  <2>8. QED
    BY <2>1, <2>7
<1>8. n \in G
  <2> HIDE DEF G, n
  <2>1. \A k \in 0..n : k \in G
    BY <1>1, <1>6, <1>7, UpTo
  <2>2. QED
    BY <1>1, <2>1
<1>9. A(DOMAIN s, n) = s /\ A(I, n) = At(s, I) /\ A(J, n) = At(s, J)
  <2>1. DOMAIN s \cap (1..n) = DOMAIN s /\ I \cap (1..n) = I /\ J \cap (1..n) = J
    BY <1>1, <1>5
  <2>2. QED
    BY <2>1, AtEnds
<1>10. QED
  BY <1>8, <1>9

\* E of each element, and all of these joined.
Mapped(s, E) == [i \in DOMAIN s |-> E[s[i]]]
Joined(s, E) == FlattenSeq(Mapped(s, E))

LEMMA MappedType ==
    ASSUME NEW H, NEW S, NEW E \in [H -> S]
    PROVE  \A s \in Seq(H) : Mapped(s, E) \in Seq(S) /\ Len(Mapped(s, E)) = Len(s)
<1>1. ASSUME NEW s \in Seq(H) PROVE Mapped(s, E) \in Seq(S) /\ Len(Mapped(s, E)) = Len(s)
  <2>1. Len(s) \in Nat /\ DOMAIN s = 1..Len(s) /\ \A i \in 1..Len(s) : s[i] \in H
    OBVIOUS
  <2>2. Mapped(s, E) \in [1..Len(s) -> S]
    BY <2>1 DEF Mapped
  <2>3. QED
    BY <2>1, <2>2, FunctionIsSeq
<1>2. QED
  BY <1>1

LEMMA MappedNext ==
    ASSUME NEW H, NEW S, NEW E \in [H -> S], NEW s \in Seq(H), NEW h \in H
    PROVE  Mapped(Append(s, h), E) = Append(Mapped(s, E), E[h])
<1> DEFINE n == Len(s)
           a == Mapped(Append(s, h), E)
           m == Mapped(s, E)
           b == Append(m, E[h])
<1>1. /\ n \in Nat /\ Append(s, h) \in Seq(H) /\ Len(Append(s, h)) = n + 1
      /\ DOMAIN s = 1..n /\ DOMAIN Append(s, h) = 1..(n + 1)
      /\ Append(s, h)[n + 1] = h /\ \A i \in 1..n : Append(s, h)[i] = s[i]
  OBVIOUS
<1>2. a \in Seq(S) /\ Len(a) = n + 1 /\ m \in Seq(S) /\ Len(m) = n /\ E[h] \in S
  <2>1. \A t \in Seq(H) : Mapped(t, E) \in Seq(S) /\ Len(Mapped(t, E)) = Len(t)
    BY MappedType, ZenonT(40)
  <2>2. QED
    BY <1>1, <2>1
<1>3. a[n + 1] = E[h]
  BY <1>1 DEF Mapped
<1>4. ASSUME NEW i \in 1..n PROVE a[i] = m[i]
  <2>1. i \in 1..(n + 1)
    BY <1>1
  <2>2. QED
    BY <1>1, <2>1 DEF Mapped
<1> HIDE DEF a, m, n
<1>5. b \in Seq(S) /\ Len(b) = n + 1 /\ b[n + 1] = E[h] /\ \A i \in 1..n : b[i] = m[i]
  BY <1>1, <1>2
<1>6. \A i \in 1..(n + 1) : i = n + 1 \/ i \in 1..n
  BY <1>1
<1> HIDE DEF b
<1>7. \A i \in 1..(n + 1) : a[i] = b[i]
  BY <1>3, <1>4, <1>5, <1>6
<1>8. a = b
  BY <1>2, <1>5, <1>7, SeqEqual
<1>9. QED
  BY <1>8 DEF a, b, m

LEMMA JoinedNext ==
    ASSUME NEW H, NEW T, NEW E \in [H -> Seq(T)]
    PROVE  /\ Joined(<<>>, E) = <<>>
           /\ \A s \in Seq(H) : Joined(s, E) \in Seq(T)
           /\ \A s \in Seq(H), h \in H : Joined(Append(s, h), E) = Joined(s, E) \o E[h] /\ E[h] \in Seq(T)
<1> DEFINE S == Seq(T)
<1>1. /\ Mapped(<<>>, E) = <<>>
      /\ \A s \in Seq(H) : Mapped(s, E) \in Seq(S)
      /\ \A s \in Seq(H), h \in H : Mapped(Append(s, h), E) = Append(Mapped(s, E), E[h])
  <2> HIDE DEF S
  <2>1. E \in [H -> S]
    BY DEF S
  <2>2. Mapped(<<>>, E) = <<>>
    BY DEF Mapped
  <2>3. \A s \in Seq(H) : Mapped(s, E) \in Seq(S)
    BY <2>1, MappedType
  <2>4. ASSUME NEW s \in Seq(H), NEW h \in H
        PROVE  Mapped(Append(s, h), E) = Append(Mapped(s, E), E[h])
    BY <2>1, MappedNext, ZenonT(40)
  <2>5. QED
    BY <2>2, <2>3, <2>4
<1>2. QED
  BY <1>1, Flattened DEF Joined

LEMMA SetOfConcat ==
    ASSUME NEW T, NEW a \in Seq(T), NEW b \in Seq(T)
    PROVE  ToSet(a \o b) = ToSet(a) \cup ToSet(b)
<1> DEFINE n == Len(a)
           m == Len(b)
           c == a \o b
<1>1. /\ n \in Nat /\ m \in Nat /\ DOMAIN a = 1..n /\ DOMAIN b = 1..m /\ DOMAIN c = 1..(n + m)
      /\ \A i \in 1..n : c[i] = a[i]
      /\ \A i \in 1..m : c[n + i] = b[i]
  <2>1. /\ n \in Nat /\ m \in Nat /\ DOMAIN a = 1..n /\ DOMAIN b = 1..m /\ DOMAIN c = 1..(n + m)
        /\ \A i \in 1..n : c[i] = a[i]
    OBVIOUS
  <2>2. \A i \in 1..m : c[n + i] = b[i]
    BY <2>1
  <2>3. QED
    BY <2>1, <2>2
<1> HIDE DEF c, n, m
<1>2. \A i \in 1..(n + m) : i \in 1..n \/ \E j \in 1..m : i = n + j
  <2>1. ASSUME NEW i \in 1..(n + m), i \notin 1..n PROVE i - n \in 1..m /\ i = n + (i - n)
    BY <1>1, <2>1
  <2>2. QED
    BY <2>1
<1>3. (\A i \in 1..n : i \in 1..(n + m)) /\ \A i \in 1..m : n + i \in 1..(n + m)
  BY <1>1
<1>4. ToSet(c) \subseteq ToSet(a) \cup ToSet(b)
  <2>1. ASSUME NEW i \in 1..(n + m) PROVE c[i] \in ToSet(a) \cup ToSet(b)
    <3>1. CASE i \in 1..n
      BY <1>1, <3>1 DEF ToSet
    <3>2. CASE \E j \in 1..m : i = n + j
      BY <1>1, <3>2 DEF ToSet
    <3>3. QED
      BY <1>2, <3>1, <3>2
  <2>2. QED
    BY <1>1, <2>1 DEF ToSet
<1>5. ToSet(a) \subseteq ToSet(c) /\ ToSet(b) \subseteq ToSet(c)
  BY <1>1, <1>3 DEF ToSet
<1>6. QED
  BY <1>4, <1>5 DEF c

LEMMA SetOfAppend ==
    ASSUME NEW T, NEW s \in Seq(T), NEW x \in T
    PROVE  ToSet(Append(s, x)) = ToSet(s) \cup {x}
<1> DEFINE one == <<x>>
<1>1. Append(s, x) = s \o one /\ one \in Seq(T) /\ DOMAIN one = 1..1 /\ one[1] = x
  OBVIOUS
<1>2. ToSet(one) = {x}
  BY <1>1 DEF ToSet
<1> HIDE DEF one
<1>3. ToSet(s \o one) = ToSet(s) \cup ToSet(one)
  BY <1>1, SetOfConcat, ZenonT(40)
<1>4. QED
  BY <1>1, <1>2, <1>3

LEMMA JoinedSet ==
    ASSUME NEW H, NEW T, NEW E \in [H -> Seq(T)], NEW hits \in Seq(H)
    PROVE  ToSet(Joined(hits, E)) = UNION {ToSet(E[h]) : h \in ToSet(hits)}
<1>0. /\ \A s \in Seq(H) : Joined(s, E) \in Seq(T)
      /\ \A s \in Seq(H), h \in H : Joined(Append(s, h), E) = Joined(s, E) \o E[h] /\ E[h] \in Seq(T)
  BY JoinedNext
<1> DEFINE P == {s \in Seq(H) : ToSet(Joined(s, E)) = UNION {ToSet(E[h]) : h \in ToSet(s)}}
<1>1. <<>> \in P
  <2>1. ToSet(<<>>) = {} /\ <<>> \in Seq(H)
    BY DEF ToSet
  <2>2. QED
    BY <2>1, JoinedNext
<1>2. ASSUME NEW s \in Seq(H), NEW h \in H, s \in P PROVE Append(s, h) \in P
  <2>1. Joined(Append(s, h), E) = Joined(s, E) \o E[h] /\ E[h] \in Seq(T) /\ Joined(s, E) \in Seq(T)
    BY <1>0
  <2>2. ToSet(Joined(Append(s, h), E)) = ToSet(Joined(s, E)) \cup ToSet(E[h])
    BY <2>1, SetOfConcat
  <2>3. ToSet(Append(s, h)) = ToSet(s) \cup {h} /\ Append(s, h) \in Seq(H)
    BY SetOfAppend
  <2>4. ToSet(Joined(s, E)) = UNION {ToSet(E[g]) : g \in ToSet(s)}
    BY <1>2
  <2>5. ToSet(Joined(Append(s, h), E)) = UNION {ToSet(E[g]) : g \in ToSet(Append(s, h))}
    BY <2>2, <2>3, <2>4
  <2>6. QED
    BY <2>3, <2>5
<1>3. Seq(H) \subseteq P
  <2> HIDE DEF P
  <2>1. QED
    BY <1>1, <1>2, SequenceInduction
<1>4. QED
  BY <1>3

\* What is joined weighs what the parts weigh.
LEMMA JoinedWeighs ==
    ASSUME NEW H, NEW T, NEW E \in [H -> Seq(T)], NEW f, NEW w, Weighs(f, w, T)
    PROVE  Weighs([s \in Seq(H) |-> f[Joined(s, E)]], [h \in H |-> f[E[h]]], H)
<1>0. /\ \A s \in Seq(H) : Joined(s, E) \in Seq(T)
      /\ \A s \in Seq(H), h \in H : Joined(Append(s, h), E) = Joined(s, E) \o E[h] /\ E[h] \in Seq(T)
  BY JoinedNext
<1> DEFINE g == [s \in Seq(H) |-> f[Joined(s, E)]]
           u == [h \in H |-> f[E[h]]]
<1>1. g[<<>>] = 0
  <2>1. <<>> \in Seq(H) /\ f[<<>>] = 0
    BY DEF Weighs
  <2>2. QED
    BY <2>1, JoinedNext
<1>2. \A h \in H : u[h] \in Int
  BY WeightType
<1>3. ASSUME NEW s \in Seq(H), NEW h \in H PROVE g[Append(s, h)] = g[s] + u[h]
  <2>1. Joined(Append(s, h), E) = Joined(s, E) \o E[h] /\ E[h] \in Seq(T) /\ Joined(s, E) \in Seq(T)
    BY <1>0
  <2>2. f[Joined(s, E) \o E[h]] = f[Joined(s, E)] + f[E[h]]
    BY <2>1, WeightOfBoth
  <2>3. Append(s, h) \in Seq(H)
    OBVIOUS
  <2>4. QED
    BY <2>1, <2>2, <2>3
<1>4. QED
  BY <1>1, <1>2, <1>3 DEF Weighs

LEMMA LengthWeighs ==
    ASSUME NEW T
    PROVE  Weighs([s \in Seq(T) |-> Len(s)], [v \in T |-> 1], T)
<1>1. Len(<<>>) = 0 /\ <<>> \in Seq(T)
  OBVIOUS
<1>2. \A s \in Seq(T), v \in T : Append(s, v) \in Seq(T) /\ Len(Append(s, v)) = Len(s) + 1
  OBVIOUS
<1>3. QED
  BY <1>1, <1>2 DEF Weighs

-----------------------------------------------------------------------------
(***************************************************************************)
(* The values of a field, and their sum.                                   *)
(***************************************************************************)

FieldValues(H, field) == [h \in H |-> Elements(ValueAt(h.source, field))]

\* The values of a field, which are in V, have string forms, the numbers among them
\* values.
Readable(H, field, V) ==
    /\ FieldValues(H, field) \in [H -> Seq(V)]
    /\ \A v \in V : KeyOf(v) \in Int /\ (v.type = "number" => v.num \in Int)

LEMMA ValuesJoined ==
    ASSUME NEW H, NEW field, NEW hits \in Seq(H)
    PROVE  ValuesOf(hits, field) = Joined(hits, FieldValues(H, field))
<1>1. DOMAIN hits = 1..Len(hits) /\ \A i \in DOMAIN hits : hits[i] \in H
  OBVIOUS
<1>2. [i \in DOMAIN hits |-> Elements(ValueAt(hits[i].source, field))] = Mapped(hits, FieldValues(H, field))
  BY <1>1 DEF Mapped, FieldValues
<1>3. QED
  BY <1>2 DEF ValuesOf, Joined

\* A selection from the first elements.
LEMMA AtOfAppend ==
    ASSUME NEW M, NEW s \in Seq(M), NEW x \in M, NEW I \in SUBSET DOMAIN s
    PROVE  At(Append(s, x), I) = At(s, I)
<1> DEFINE f == Listed(I, Less(I))
<1>1. Len(s) \in Nat /\ DOMAIN s = 1..Len(s) /\ \A i \in DOMAIN s : Append(s, x)[i] = s[i]
  OBVIOUS
<1>2. I \in SUBSET Int /\ IsFiniteSet(I)
  <2>1. IsFiniteSet(1..Len(s)) /\ I \in SUBSET (1..Len(s)) /\ \A i \in 1..Len(s) : i \in Int
    BY <1>1, FS_Interval
  <2>2. QED
    BY <2>1, FS_Subset
<1>3. Lists(f, I, Less(I))
  BY <1>2, LessIsOrder, ListedLists
<1>4. At(Append(s, x), I) = [j \in DOMAIN f |-> Append(s, x)[f[j]]] /\ At(s, I) = [j \in DOMAIN f |-> s[f[j]]]
  BY DEF At, Less
<1> HIDE DEF f
<1>5. \A j \in DOMAIN f : f[j] \in I
  BY <1>3 DEF Lists
<1>6. \A j \in DOMAIN f : Append(s, x)[f[j]] = s[f[j]]
  BY <1>1, <1>5
<1>7. QED
  BY <1>4, <1>6

\* The numbers among some values.
Numeric(values) == At(values, {i \in DOMAIN values : values[i].type = "number"})

LEMMA NumericNext ==
    ASSUME NEW V, NEW s \in Seq(V), NEW v \in V
    PROVE  /\ Numeric(s) \in Seq({u \in V : u.type = "number"})
           /\ Numeric(Append(s, v)) =
                  IF v.type = "number" THEN Append(Numeric(s), v) ELSE Numeric(s)
<1> DEFINE n == Len(s) + 1
           t == Append(s, v)
           I == {i \in DOMAIN s : s[i].type = "number"}
           J == {i \in DOMAIN t : t[i].type = "number"}
<1>1. /\ Len(s) \in Nat /\ n \in Nat /\ t \in Seq(V) /\ DOMAIN s = 1..(n - 1) /\ DOMAIN t = 1..n
      /\ n \in 1..n /\ t[n] = v
  OBVIOUS
<1>2. \A i \in 1..(n - 1) : t[i] = s[i] /\ i \in 1..n /\ i # n
  <2>1. \A i \in 1..(n - 1) : t[i] = s[i]
    OBVIOUS
  <2>2. \A i \in 1..(n - 1) : i \in 1..n /\ i # n
    BY <1>1
  <2>3. QED
    BY <2>1, <2>2
<1>3. \A i \in 1..n : i = n \/ i \in 1..(n - 1)
  BY <1>1
<1>4. Numeric(s) = At(s, I) /\ Numeric(t) = At(t, J)
  BY DEF Numeric
<1>5. Numeric(s) \in Seq({u \in V : u.type = "number"})
  <2>1. PICK f : Picks(At(s, I), s, I, f)
    BY AtPicks
  <2>2. At(s, I) \in Seq(V)
    BY AtPicks
  <2> DEFINE a == At(s, I)
             N == {u \in V : u.type = "number"}
  <2>3. \A j \in 1..Len(a) : f[j] \in I /\ a[j] = s[f[j]]
    BY <2>1 DEF Picks
  <2>4. \A j \in 1..Len(a) : a[j] \in N
    BY <2>2, <2>3
  <2> HIDE DEF a, N
  <2>5. a \in Seq(V)
    BY <2>2 DEF a
  <2>6. a \in Seq(N)
    BY <2>4, <2>5
  <2>7. QED
    BY <1>4, <2>6 DEF a, N
<1> HIDE DEF n, t
<1>6. J \ {n} = I /\ I \in SUBSET DOMAIN s /\ I \in SUBSET (1..n) /\ J \in SUBSET (1..n)
  BY <1>1, <1>2, <1>3
<1>7. n \in J <=> v.type = "number"
  BY <1>1
<1> HIDE DEF I, J
<1>8. At(t, I) = At(s, I)
  BY <1>6, AtOfAppend DEF t
<1>9. CASE v.type = "number"
  <2>1. n \in DOMAIN t /\ n \in J
    BY <1>1, <1>7, <1>9
  <2>2. At(t, J) = Append(At(t, J \ {n}), t[n])
    BY <1>1, <1>6, <2>1, AtNext
  <2>3. QED
    BY <1>1, <1>4, <1>5, <1>6, <1>8, <1>9, <2>2 DEF t
<1>10. CASE v.type # "number"
  <2>1. J = I
    BY <1>6, <1>7, <1>10
  <2>2. QED
    BY <1>4, <1>5, <1>8, <1>10, <2>1 DEF t
<1>11. QED
  BY <1>9, <1>10

\* Sum adds one number after the other.
AddNumber(N) == [p \in Int \X N |-> p[1] + p[2].num]

LEMMA SumFold ==
    ASSUME NEW N, \A v \in N : v.num \in Int, NEW ms \in Seq(N)
    PROVE  FoldsTo(Int, AddNumber(N), 0, ms, Sum(ms))
<1> DEFINE F == AddNumber(N)
           Step(f, s) == f[s \ {Max(s)}] + ms[Max(s)].num
           W(f) == [s \in SUBSET DOMAIN ms |-> IF s = {} THEN 0 ELSE Step(f, s)]
           it == CHOOSE f : f = W(f)
<1>1. Sum(ms) = it[DOMAIN ms]
  BY DEF Sum, FoldLeft, MapThenFoldSet
<1>2. F \in [Int \X N -> Int] /\ \A n \in Int, v \in N : F[<<n, v>>] = n + v.num
  BY DEF AddNumber
<1>3. ASSUME NEW s \in SUBSET DOMAIN ms, s # {}
      PROVE  ms[Max(s)] \in N /\ s \ {Max(s)} \in SUBSET DOMAIN ms
  BY <1>3, LastElement
<1>4. 0 \in Int
  OBVIOUS
<1> HIDE DEF F
<1>5. PICK f \in [SUBSET DOMAIN ms -> Int] : SolvesFold(f, F, 0, ms)
  BY <1>2, <1>4, FoldSolution
<1>6. f = W(f)
  BY <1>2, <1>3, <1>5 DEF SolvesFold
<1>7. it = W(it)
  BY <1>6
<1> HIDE DEF it
<1>8. FoldsTo(Int, F, 0, ms, it[DOMAIN ms])
  <2>1. it[{}] = 0
    BY <1>7
  <2>2. ASSUME NEW s \in SUBSET DOMAIN ms, s # {}, it[s \ {Max(s)}] \in Int
        PROVE  it[s] = F[<<it[s \ {Max(s)}], ms[Max(s)]>>]
    BY <1>2, <1>3, <1>7, <2>2
  <2>3. QED
    BY <1>2, <1>4, <2>1, <2>2, FoldOf
<1>9. QED
  BY <1>1, <1>8 DEF F

LEMMA SumNext ==
    ASSUME NEW N, \A v \in N : v.num \in Int
    PROVE  /\ Sum(<<>>) = 0
           /\ \A s \in Seq(N) : Sum(s) \in Int
           /\ \A s \in Seq(N), v \in N : Sum(Append(s, v)) = Sum(s) + v.num
<1> DEFINE F == AddNumber(N)
<1>1. F \in [Int \X N -> Int] /\ \A n \in Int, v \in N : F[<<n, v>>] = n + v.num
  BY DEF AddNumber
<1>2. ASSUME NEW s \in Seq(N) PROVE FoldsTo(Int, F, 0, s, Sum(s)) /\ Sum(s) \in Int
  <2>1. FoldsTo(Int, F, 0, s, Sum(s)) /\ Len(s) \in Nat
    BY SumFold
  <2>2. QED
    BY <2>1, FoldType
<1>3. Sum(<<>>) = 0
  <2>1. <<>> \in Seq(N) /\ Len(<<>>) \in Nat /\ 0 \in Int
    OBVIOUS
  <2>2. FoldsTo(Int, F, 0, <<>>, 0) /\ FoldsTo(Int, F, 0, <<>>, Sum(<<>>))
    BY <1>2, <2>1, FoldEmpty
  <2> HIDE DEF F
  <2>3. QED
    BY <2>1, <2>2, FoldUnique
<1>4. ASSUME NEW s \in Seq(N), NEW v \in N PROVE Sum(Append(s, v)) = Sum(s) + v.num
  <2>1. Append(s, v) \in Seq(N)
    OBVIOUS
  <2>2. /\ FoldsTo(Int, F, 0, s, Sum(s)) /\ FoldsTo(Int, F, 0, Append(s, v), Sum(Append(s, v)))
        /\ F[<<Sum(s), v>>] = Sum(s) + v.num /\ F[<<Sum(s), v>>] \in Int
    BY <1>1, <1>2, <2>1
  <2> HIDE DEF F
  <2>3. Sum(Append(s, v)) = F[<<Sum(s), v>>]
    BY <2>2, FoldNext
  <2>4. QED
    BY <2>2, <2>3
<1>5. QED
  BY <1>2, <1>3, <1>4

LEMMA SumWeighs ==
    ASSUME NEW V, \A v \in V : v.type = "number" => v.num \in Int
    PROVE  Weighs([s \in Seq(V) |-> Sum(Numeric(s))],
                  [v \in V |-> IF v.type = "number" THEN v.num ELSE 0], V)
<1> DEFINE N == {u \in V : u.type = "number"}
           f == [s \in Seq(V) |-> Sum(Numeric(s))]
           w == [v \in V |-> IF v.type = "number" THEN v.num ELSE 0]
<1>1. /\ Sum(<<>>) = 0
      /\ \A s \in Seq(N) : Sum(s) \in Int
      /\ \A s \in Seq(N), v \in N : Sum(Append(s, v)) = Sum(s) + v.num
  <2>1. \A v \in N : v.num \in Int
    OBVIOUS
  <2> HIDE DEF N
  <2>2. QED
    BY <2>1, SumNext
<1>2. \A s \in Seq(V), v \in V :
          /\ Numeric(s) \in Seq(N)
          /\ Numeric(Append(s, v)) = IF v.type = "number" THEN Append(Numeric(s), v) ELSE Numeric(s)
  BY NumericNext
<1>3. f[<<>>] = 0
  <2>1. Numeric(<<>>) = <<>>
    <3>1. <<>> \in Seq(V) /\ {i \in DOMAIN <<>> : <<>>[i].type = "number"} = {}
      OBVIOUS
    <3>2. At(<<>>, {}) = <<>>
      BY <3>1, AtEnds
    <3>3. QED
      BY <3>1, <3>2 DEF Numeric
  <2>2. <<>> \in Seq(V)
    OBVIOUS
  <2>3. QED
    BY <1>1, <2>1, <2>2
<1>4. \A v \in V : w[v] \in Int
  OBVIOUS
<1>5. ASSUME NEW s \in Seq(V), NEW v \in V PROVE f[Append(s, v)] = f[s] + w[v]
  <2>1. Append(s, v) \in Seq(V) /\ f[s] = Sum(Numeric(s)) /\ f[Append(s, v)] = Sum(Numeric(Append(s, v)))
    OBVIOUS
  <2>2. Numeric(s) \in Seq(N)
    BY <1>2
  <2>3. Sum(Numeric(s)) \in Int
    BY <1>1, <2>2
  <2>4. CASE v.type = "number"
    <3>1. v \in N /\ Numeric(Append(s, v)) = Append(Numeric(s), v) /\ w[v] = v.num
      BY <1>2, <2>4
    <3>2. QED
      BY <1>1, <2>1, <2>2, <3>1
  <2>5. CASE v.type # "number"
    <3>1. Numeric(Append(s, v)) = Numeric(s) /\ w[v] = 0
      BY <1>2, <2>5
    <3>2. f[Append(s, v)] = f[s]
      BY <2>1, <3>1
    <3> HIDE DEF f, w
    <3>3. f[s] \in Int
      BY <2>1, <2>3
    <3>4. QED
      BY <3>1, <3>2, <3>3
  <2>6. QED
    BY <2>4, <2>5
<1>6. QED
  BY <1>3, <1>4, <1>5 DEF Weighs

LEMMA StatsSum ==
    ASSUME NEW H, NEW field, NEW V, Readable(H, field, V), NEW hits \in Seq(H)
    PROVE  Stats(hits, field).sum = Sum(Numeric(Joined(hits, FieldValues(H, field))))
<1>1. ValuesOf(hits, field) = Joined(hits, FieldValues(H, field))
  BY ValuesJoined
<1>2. NumbersOf(hits, field) = Numeric(ValuesOf(hits, field))
  BY DEF NumbersOf, Numeric
<1>3. QED
  BY <1>1, <1>2 DEF Stats

\* Hits that two selections share out: each is in one of them, and the lengths and
\* the sums of a metric add up.
SharedOut(hits, field, one, other) ==
    /\ ToSet(hits) = ToSet(one) \cup ToSet(other)
    /\ Len(hits) = Len(one) + Len(other)
    /\ Stats(hits, field).sum = Stats(one, field).sum + Stats(other, field).sum

LEMMA SetOfAt ==
    ASSUME NEW M, NEW s \in Seq(M), NEW I \in SUBSET DOMAIN s
    PROVE  ToSet(At(s, I)) = {s[i] : i \in I}
<1>1. PICK f : Picks(At(s, I), s, I, f)
  BY AtPicks
<1> DEFINE t == At(s, I)
<1>2. t \in Seq(M) /\ DOMAIN t = 1..Len(t)
  <2>1. t \in Seq(M)
    BY AtPicks
  <2> HIDE DEF t
  <2>2. QED
    BY <2>1
<1>3. /\ \A j \in 1..Len(t) : f[j] \in I /\ t[j] = s[f[j]]
      /\ \A i \in I : \E j \in 1..Len(t) : f[j] = i
  BY <1>1 DEF Picks, Lists
<1> HIDE DEF t
<1>4. ToSet(t) = {s[i] : i \in I}
  <2>1. \A j \in 1..Len(t) : t[j] \in {s[i] : i \in I}
    BY <1>3
  <2>2. \A i \in I : s[i] \in ToSet(t)
    BY <1>2, <1>3 DEF ToSet
  <2>3. QED
    BY <1>2, <2>1, <2>2 DEF ToSet
<1>5. QED
  BY <1>4 DEF t

LEMMA PartsShareOut ==
    ASSUME NEW H, NEW field, NEW V, Readable(H, field, V), NEW hits \in Seq(H), NEW I, NEW J,
           I \cup J = DOMAIN hits, I \cap J = {}
    PROVE  SharedOut(hits, field, At(hits, I), At(hits, J))
<1> DEFINE one == At(hits, I)
           other == At(hits, J)
           E == FieldValues(H, field)
           w == [v \in V |-> IF v.type = "number" THEN v.num ELSE 0]
           f == [s \in Seq(V) |-> Sum(Numeric(s))]
           g == [s \in Seq(H) |-> f[Joined(s, E)]]
<1>1. I \in SUBSET DOMAIN hits /\ J \in SUBSET DOMAIN hits
  OBVIOUS
<1>2. one \in Seq(H) /\ other \in Seq(H)
  BY <1>1, AtPicks
<1>3. ToSet(hits) = ToSet(one) \cup ToSet(other)
  <2>1. ToSet(one) = {hits[i] : i \in I} /\ ToSet(other) = {hits[i] : i \in J}
    BY <1>1, SetOfAt
  <2>2. QED
    BY <2>1 DEF ToSet
<1>4. Len(hits) = Len(one) + Len(other)
  <2> DEFINE l == [s \in Seq(H) |-> Len(s)]
             u == [h \in H |-> 1]
  <2>1. Weighs(l, u, H)
    BY LengthWeighs
  <2> HIDE DEF l, u
  <2>2. l[hits] = l[one] + l[other]
    BY <2>1, PartsWeigh
  <2>3. QED
    BY <1>2, <2>2 DEF l
<1>5. E \in [H -> Seq(V)] /\ \A v \in V : v.type = "number" => v.num \in Int
  BY DEF Readable
<1>6. Weighs(g, [h \in H |-> f[E[h]]], H)
  <2>1. Weighs(f, w, V)
    BY <1>5, SumWeighs
  <2> HIDE DEF f, w, E
  <2>2. QED
    BY <1>5, <2>1, JoinedWeighs, ZenonT(60)
<1>7. g[hits] = g[one] + g[other]
  <2> DEFINE u == [h \in H |-> f[E[h]]]
  <2> HIDE DEF g, u
  <2>1. QED
    BY <1>6, PartsWeigh DEF u
<1>8. \A s \in Seq(H) : Stats(s, field).sum = g[s]
  <2>1. SUFFICES ASSUME NEW s \in Seq(H) PROVE Stats(s, field).sum = g[s]
    OBVIOUS
  <2>2. Joined(s, E) \in Seq(V)
    <3> HIDE DEF E
    <3>1. \A t \in Seq(H) : Joined(t, E) \in Seq(V)
      BY <1>5, JoinedNext
    <3>2. QED
      BY <3>1
  <2>3. Stats(s, field).sum = Sum(Numeric(Joined(s, E)))
    BY StatsSum
  <2> HIDE DEF E
  <2>4. QED
    BY <2>2, <2>3
<1> HIDE DEF g, one, other
<1>9. Stats(hits, field).sum = Stats(one, field).sum + Stats(other, field).sum
  BY <1>2, <1>7, <1>8
<1>10. QED
  BY <1>3, <1>4, <1>9 DEF SharedOut, one, other

-----------------------------------------------------------------------------
(***************************************************************************)
(* Terms buckets.                                                          *)
(***************************************************************************)

\* The positions of the values with a string form.
OfKey(values, k) == {j \in DOMAIN values : KeyOf(values[j]) = k}

LEMMA PositionsFinite ==
    ASSUME NEW V, NEW s \in Seq(V), NEW I \in SUBSET DOMAIN s
    PROVE  IsFiniteSet(I) /\ Cardinality(I) \in Nat /\ (I # {} => Cardinality(I) > 0)
<1>1. Len(s) \in Nat /\ DOMAIN s = 1..Len(s) /\ IsFiniteSet(1..Len(s))
  <2>1. Len(s) \in Nat /\ DOMAIN s = 1..Len(s)
    OBVIOUS
  <2>2. QED
    BY <2>1, FS_Interval
<1>2. IsFiniteSet(I) /\ Cardinality(I) \in Nat
  BY <1>1, FS_Subset, FS_CardinalityType
<1>3. Cardinality(I) = 0 <=> I = {}
  BY <1>2, FS_EmptySet
<1>4. QED
  BY <1>2, <1>3

LEMMA OccurrencesWeigh ==
    ASSUME NEW V, NEW k
    PROVE  Weighs([s \in Seq(V) |-> Cardinality(OfKey(s, k))],
                  [v \in V |-> IF KeyOf(v) = k THEN 1 ELSE 0], V)
<1> DEFINE f == [s \in Seq(V) |-> Cardinality(OfKey(s, k))]
           w == [v \in V |-> IF KeyOf(v) = k THEN 1 ELSE 0]
<1>1. f[<<>>] = 0
  <2>1. OfKey(<<>>, k) = {} /\ <<>> \in Seq(V)
    BY DEF OfKey
  <2>2. QED
    BY <2>1, FS_EmptySet
<1>2. ASSUME NEW s \in Seq(V), NEW v \in V PROVE f[Append(s, v)] = f[s] + w[v]
  <2> DEFINE n == Len(s) + 1
             t == Append(s, v)
             I == OfKey(s, k)
             J == OfKey(t, k)
  <2>1. /\ Len(s) \in Nat /\ n \in Nat /\ t \in Seq(V) /\ DOMAIN s = 1..(n - 1) /\ DOMAIN t = 1..n
        /\ n \in 1..n /\ t[n] = v /\ \A i \in 1..(n - 1) : t[i] = s[i]
    OBVIOUS
  <2>2. \A i \in 1..(n - 1) : i \in 1..n /\ i # n
    BY <2>1
  <2>3. \A i \in 1..n : i = n \/ i \in 1..(n - 1)
    BY <2>1
  <2> HIDE DEF n, t
  <2>4. n \notin I /\ J = IF KeyOf(v) = k THEN I \cup {n} ELSE I
    BY <2>1, <2>2, <2>3 DEF OfKey
  <2>5. IsFiniteSet(I) /\ Cardinality(I) \in Nat
    <3>1. I \in SUBSET DOMAIN s
      BY DEF OfKey
    <3>2. QED
      BY <3>1, PositionsFinite
  <2> HIDE DEF I, J
  <2>6. Cardinality(I \cup {n}) = Cardinality(I) + 1
    BY <2>4, <2>5, FS_AddElement
  <2>7. Cardinality(J) = Cardinality(I) + (IF KeyOf(v) = k THEN 1 ELSE 0)
    BY <2>4, <2>5, <2>6
  <2>8. f[s] = Cardinality(I) /\ f[t] = Cardinality(J)
    BY <2>1 DEF I, J
  <2> HIDE DEF f
  <2>9. QED
    BY <2>7, <2>8 DEF t
<1>3. \A v \in V : w[v] \in Int
  OBVIOUS
<1>4. QED
  BY <1>1, <1>2, <1>3 DEF Weighs

\* The hit once for each element of its value with the string form.
Times(h, field, k) == Cardinality(OfKey(Elements(ValueAt(h.source, field)), k))
Repeated(H, field, k) == [h \in H |-> [j \in 1..Times(h, field, k) |-> h]]

HasKey(H, field, k, h) == \E v \in ToSet(FieldValues(H, field)[h]) : KeyOf(v) = k

LEMMA RepeatedIs ==
    ASSUME NEW H, NEW field, NEW V, Readable(H, field, V), NEW k
    PROVE  /\ Repeated(H, field, k) \in [H -> Seq(H)]
           /\ \A h \in H : /\ Times(h, field, k) \in Nat
                           /\ Len(Repeated(H, field, k)[h]) = Times(h, field, k)
                           /\ \A g : g \in ToSet(Repeated(H, field, k)[h]) <=>
                                        g = h /\ HasKey(H, field, k, h)
<1> SUFFICES ASSUME NEW h \in H
             PROVE  /\ [j \in 1..Times(h, field, k) |-> h] \in Seq(H)
                    /\ Times(h, field, k) \in Nat
                    /\ Len([j \in 1..Times(h, field, k) |-> h]) = Times(h, field, k)
                    /\ \A g : g \in ToSet([j \in 1..Times(h, field, k) |-> h]) <=>
                                 g = h /\ HasKey(H, field, k, h)
  BY DEF Repeated
<1> DEFINE values == Elements(ValueAt(h.source, field))
           n == Times(h, field, k)
           t == [j \in 1..n |-> h]
<1>1. values \in Seq(V) /\ FieldValues(H, field)[h] = values
  <2>1. FieldValues(H, field)[h] = values /\ FieldValues(H, field) \in [H -> Seq(V)]
    BY DEF FieldValues, Readable
  <2> HIDE DEF values
  <2>2. QED
    BY <2>1
<1> HIDE DEF values
<1>2. n = Cardinality(OfKey(values, k))
  BY DEF Times, values
<1>3. OfKey(values, k) \in SUBSET DOMAIN values
  BY DEF OfKey
<1>4. n \in Nat /\ (OfKey(values, k) # {} => n > 0) /\ (OfKey(values, k) = {} => n = 0)
  BY <1>1, <1>2, <1>3, PositionsFinite, FS_EmptySet
<1> HIDE DEF n
<1>5. t \in [1..n -> H]
  OBVIOUS
<1>6. t \in Seq(H) /\ Len(t) = n
  BY <1>4, <1>5, FunctionIsSeq
<1>7. ToSet(t) = IF n > 0 THEN {h} ELSE {}
  <2>1. n > 0 => 1 \in 1..n
    BY <1>4
  <2>2. ~(n > 0) => 1..n = {}
    BY <1>4
  <2>3. QED
    BY <2>1, <2>2 DEF ToSet
<1>8. OfKey(values, k) # {} <=> \E v \in ToSet(values) : KeyOf(v) = k
  BY DEF OfKey, ToSet
<1> HIDE DEF t
<1>9. \A g : g \in ToSet(t) <=> g = h /\ HasKey(H, field, k, h)
  BY <1>1, <1>4, <1>7, <1>8 DEF HasKey
<1>10. QED
  BY <1>1, <1>4, <1>6, <1>9 DEF n, t

\* The hits of a bucket: as many as values have its key, those with such a value.
LEMMA BucketHits ==
    ASSUME NEW H, NEW field, NEW V, Readable(H, field, V), NEW hits \in Seq(H), NEW k
    PROVE  LET docs == TermBucket(hits, field, k).docs
           IN  /\ Len(docs) = Cardinality(OfKey(ValuesOf(hits, field), k))
               /\ ToSet(docs) = {h \in ToSet(hits) : HasKey(H, field, k, h)}
<1> DEFINE R == Repeated(H, field, k)
           E == FieldValues(H, field)
           docs == TermBucket(hits, field, k).docs
<1>1. /\ R \in [H -> Seq(H)] /\ E \in [H -> Seq(V)]
      /\ \A h \in H : /\ Times(h, field, k) \in Nat /\ Len(R[h]) = Times(h, field, k)
                      /\ \A g : g \in ToSet(R[h]) <=> g = h /\ HasKey(H, field, k, h)
  <2>1. E \in [H -> Seq(V)]
    BY DEF Readable
  <2>2. /\ R \in [H -> Seq(H)]
        /\ \A h \in H : /\ Times(h, field, k) \in Nat /\ Len(R[h]) = Times(h, field, k)
                        /\ \A g : g \in ToSet(R[h]) <=> g = h /\ HasKey(H, field, k, h)
    <3>1. R \in [H -> Seq(H)]
      BY RepeatedIs
    <3>2. ASSUME NEW h \in H PROVE Times(h, field, k) \in Nat /\ Len(R[h]) = Times(h, field, k)
      BY RepeatedIs
    <3>3. ASSUME NEW h \in H, NEW g PROVE g \in ToSet(R[h]) <=> g = h /\ HasKey(H, field, k, h)
      BY RepeatedIs
    <3> HIDE DEF R
    <3>4. QED
      BY <3>1, <3>2, <3>3
  <2> HIDE DEF R, E
  <2>3. QED
    BY <2>1, <2>2
<1>2. \A i \in DOMAIN hits : hits[i] \in H
  OBVIOUS
<1>3. docs = Joined(hits, R)
  <2>1. [i \in DOMAIN hits |-> [j \in 1..Times(hits[i], field, k) |-> hits[i]]] = Mapped(hits, R)
    BY <1>2 DEF Mapped, Repeated
  <2>2. docs = FlattenSeq([i \in DOMAIN hits |-> [j \in 1..Times(hits[i], field, k) |-> hits[i]]])
    BY DEF TermBucket, Times, OfKey
  <2>3. QED
    BY <2>1, <2>2 DEF Joined
<1>4. ValuesOf(hits, field) = Joined(hits, E)
  BY ValuesJoined
<1>5. ToSet(docs) = {h \in ToSet(hits) : HasKey(H, field, k, h)}
  <2>1. ToSet(hits) \subseteq H
    BY <1>2 DEF ToSet
  <2> HIDE DEF R, E, docs
  <2>2. ToSet(Joined(hits, R)) = UNION {ToSet(R[h]) : h \in ToSet(hits)}
    <3>1. R \in [H -> Seq(H)]
      BY <1>1
    <3>2. QED
      BY <3>1, JoinedSet
  <2>3. \A h \in ToSet(hits) : \A g : g \in ToSet(R[h]) <=> g = h /\ HasKey(H, field, k, h)
    BY <1>1, <2>1
  <2>4. \A x : x \in ToSet(docs) <=> \E h \in ToSet(hits) : x \in ToSet(R[h])
    BY <1>3, <2>2
  <2>5. ASSUME NEW x PROVE x \in ToSet(docs) <=> x \in ToSet(hits) /\ HasKey(H, field, k, x)
    <3>1. ASSUME x \in ToSet(docs) PROVE x \in ToSet(hits) /\ HasKey(H, field, k, x)
      BY <2>3, <2>4, <3>1
    <3>2. ASSUME x \in ToSet(hits) /\ HasKey(H, field, k, x) PROVE x \in ToSet(docs)
      BY <2>3, <2>4, <3>2
    <3>3. QED
      BY <3>1, <3>2
  <2>6. QED
    BY <2>5
<1> DEFINE occurs == [s \in Seq(V) |-> Cardinality(OfKey(s, k))]
           length == [s \in Seq(H) |-> Len(s)]
           f == [s \in Seq(H) |-> occurs[Joined(s, E)]]
           g == [s \in Seq(H) |-> length[Joined(s, R)]]
           u == [h \in H |-> occurs[E[h]]]
           v == [h \in H |-> length[R[h]]]
<1>6. u = v
  <2>1. ASSUME NEW h \in H PROVE occurs[E[h]] = length[R[h]]
    <3>1. E[h] \in Seq(V) /\ R[h] \in Seq(H)
      <4> HIDE DEF E, R
      <4>1. QED
        BY <1>1
    <3>2. Times(h, field, k) = Cardinality(OfKey(E[h], k))
      BY DEF Times, FieldValues
    <3> HIDE DEF E, R
    <3>3. QED
      BY <1>1, <3>1, <3>2
  <2>2. QED
    BY <2>1
<1>7. Weighs(f, u, H)
  <2> DEFINE w == [x \in V |-> IF KeyOf(x) = k THEN 1 ELSE 0]
  <2>1. Weighs(occurs, w, V)
    BY OccurrencesWeigh
  <2> HIDE DEF occurs, w, E
  <2>2. E \in [H -> Seq(V)]
    BY <1>1
  <2>3. QED
    BY <2>1, <2>2, JoinedWeighs, ZenonT(30)
<1>8. Weighs(g, v, H)
  <2> DEFINE w == [x \in H |-> 1]
  <2>1. Weighs(length, w, H)
    BY LengthWeighs
  <2> HIDE DEF length, w, R
  <2>2. R \in [H -> Seq(H)]
    BY <1>1
  <2>3. QED
    BY <2>1, <2>2, JoinedWeighs, ZenonT(30)
<1>9. f[hits] = g[hits]
  <2> HIDE DEF f, g, u, v
  <2>1. QED
    BY <1>6, <1>7, <1>8, SameWeight
<1>10. Joined(hits, E) \in Seq(V) /\ Joined(hits, R) \in Seq(H)
  <2> HIDE DEF E, R
  <2>1. \A s \in Seq(H) : Joined(s, E) \in Seq(V)
    BY <1>1, JoinedNext
  <2>2. \A s \in Seq(H) : Joined(s, R) \in Seq(H)
    BY <1>1, JoinedNext
  <2>3. QED
    BY <2>1, <2>2
<1> HIDE DEF E, R, docs
<1>11. f[hits] = Cardinality(OfKey(Joined(hits, E), k)) /\ g[hits] = Len(Joined(hits, R))
  BY <1>10
<1>12. Len(docs) = Cardinality(OfKey(ValuesOf(hits, field), k))
  BY <1>3, <1>4, <1>9, <1>11
<1>13. QED
  BY <1>5, <1>12 DEF docs, E

LEMMA KeysOfValues ==
    ASSUME NEW H, NEW field, NEW V, Readable(H, field, V), NEW hits \in Seq(H)
    PROVE  /\ ValuesOf(hits, field) \in Seq(V) /\ TermKeys(hits, field) \subseteq Int
           /\ IsFiniteSet(TermKeys(hits, field)) /\ Cardinality(TermKeys(hits, field)) \in Nat
<1> DEFINE values == ValuesOf(hits, field)
           E == FieldValues(H, field)
           keys == TermKeys(hits, field)
<1>1. values \in Seq(V)
  <2>1. E \in [H -> Seq(V)] /\ values = Joined(hits, E)
    BY ValuesJoined DEF Readable
  <2> HIDE DEF E, values
  <2>2. \A s \in Seq(H) : Joined(s, E) \in Seq(V)
    BY <2>1, JoinedNext
  <2>3. QED
    BY <2>1, <2>2
<1>2. keys = {KeyOf(v) : v \in ToSet(values)}
  BY DEF TermKeys
<1> HIDE DEF values, keys
<1>3. DOMAIN values = 1..Len(values) /\ Len(values) \in Nat /\ \A i \in DOMAIN values : values[i] \in V
  BY <1>1
<1>4. \A v \in ToSet(values) : v \in V
  BY <1>3 DEF ToSet
<1>5. keys \subseteq Int
  BY <1>2, <1>4 DEF Readable
<1>6. IsFiniteSet(keys)
  <2> DEFINE f == [i \in DOMAIN values |-> KeyOf(values[i])]
  <2>1. \A k \in keys : \E i \in DOMAIN values : KeyOf(values[i]) = k
    BY <1>2 DEF ToSet
  <2>2. \A i \in DOMAIN values : KeyOf(values[i]) \in keys
    BY <1>2 DEF ToSet
  <2>3. f \in Surjection(DOMAIN values, keys)
    BY <2>1, <2>2 DEF Surjection
  <2>4. IsFiniteSet(DOMAIN values)
    BY <1>3, FS_Interval
  <2> HIDE DEF f
  <2>5. QED
    BY <2>3, <2>4, FS_Surjection
<1>7. Cardinality(keys) \in Nat
  BY <1>6, FS_CardinalityType
<1>8. QED
  BY <1>1, <1>5, <1>6, <1>7 DEF values, keys

LEMMA BucketKey ==
    ASSUME NEW H, NEW field, NEW V, Readable(H, field, V), NEW hits \in Seq(H),
           NEW k \in TermKeys(hits, field)
    PROVE  LET b == TermBucket(hits, field, k)
           IN  KeyOf(b.key) = k /\ b.key \in ToSet(ValuesOf(hits, field)) /\ Len(b.docs) \in Nat
<1> DEFINE values == ValuesOf(hits, field)
           I == OfKey(values, k)
           b == TermBucket(hits, field, k)
<1>1. values \in Seq(V) /\ DOMAIN values = 1..Len(values)
  <2>1. values \in Seq(V)
    BY KeysOfValues
  <2> HIDE DEF values
  <2>2. QED
    BY <2>1
<1>2. b.key = values[Min(I)]
  BY DEF TermBucket, OfKey
<1>3. I # {} /\ I \in SUBSET (1..Len(values))
  BY <1>1 DEF OfKey, TermKeys, ToSet
<1>4. Min(I) \in I
  <2> HIDE DEF I, values
  <2>1. QED
    BY <1>3, FirstOfSome
<1>5. Len(b.docs) \in Nat
  <2>1. Len(b.docs) = Cardinality(I)
    BY BucketHits
  <2>2. I \in SUBSET DOMAIN values
    BY DEF OfKey
  <2> HIDE DEF I, values, b
  <2>3. QED
    BY <1>1, <2>1, <2>2, PositionsFinite
<1>6. Min(I) \in DOMAIN values /\ KeyOf(values[Min(I)]) = k
  BY <1>4 DEF OfKey
<1> HIDE DEF b, I, values
<1>7. b.key \in ToSet(values)
  BY <1>2, <1>6 DEF ToSet
<1>8. QED
  BY <1>2, <1>5, <1>6, <1>7 DEF b, values

\* The buckets are those of the keys, each once.
OneBucketEach(hits, field, buckets) ==
    /\ buckets \in Seq(ToSet(buckets))
    /\ Len(buckets) = Cardinality(TermKeys(hits, field)) /\ DOMAIN buckets = 1..Len(buckets)
    /\ \A i \in DOMAIN buckets : \E k \in TermKeys(hits, field) : buckets[i] = TermBucket(hits, field, k)
    /\ \A k \in TermKeys(hits, field) : \E i \in DOMAIN buckets : buckets[i] = TermBucket(hits, field, k)
    /\ \A i, j \in DOMAIN buckets : i # j => KeyOf(buckets[i].key) # KeyOf(buckets[j].key)

LEMMA BucketsOrdered ==
    ASSUME NEW S, \A b \in S : Len(b.docs) \in Nat /\ KeyOf(b.key) \in Int,
           \A a, b \in S : a # b => KeyOf(a.key) # KeyOf(b.key)
    PROVE  StrictOrder(S, {p \in S \X S : BucketBefore(p[1], p[2])})
<1> DEFINE R == {p \in S \X S : BucketBefore(p[1], p[2])}
           n(b) == Len(b.docs)
           q(b) == IF b.key.type = "string" THEN 0 ELSE 1
           l(b) == KeyOf(b.key)
<1>1. ASSUME NEW a \in S, NEW b \in S
      PROVE  <<a, b>> \in R <=> n(a) > n(b) \/ (n(a) = n(b) /\ (q(a) < q(b) \/ (q(a) = q(b) /\ l(a) < l(b))))
  BY DEF BucketBefore, Lexicographic
<1>2. \A b \in S : n(b) \in Int /\ q(b) \in Int /\ l(b) \in Int
  OBVIOUS
<1>3. \A a, b \in S : a # b => l(a) # l(b)
  OBVIOUS
<1> HIDE DEF R, n, q, l
<1>4. \A a \in S : <<a, a>> \notin R
  BY <1>1, <1>2
<1>5. \A a, b \in S : a # b => <<a, b>> \in R \/ <<b, a>> \in R
  BY <1>1, <1>2, <1>3
<1>6. \A a, b, c \in S : <<a, b>> \in R /\ <<b, c>> \in R => <<a, c>> \in R
  BY <1>1, <1>2
<1>7. QED
  BY <1>4, <1>5, <1>6 DEF StrictOrder, R

LEMMA TermsListed ==
    ASSUME NEW H, NEW field, NEW V, Readable(H, field, V), NEW hits \in Seq(H),
           TermsAggregation(hits, field, MaxBuckets).status = "ok"
    PROVE  OneBucketEach(hits, field, TermsAggregation(hits, field, MaxBuckets).buckets)
<1> DEFINE keys == TermKeys(hits, field)
           B(k) == TermBucket(hits, field, k)
           S == {B(k) : k \in keys}
           R == {p \in S \X S : BucketBefore(p[1], p[2])}
           t == Listed(S, R)
           buckets == TermsAggregation(hits, field, MaxBuckets).buckets
<1>1. Cardinality(keys) <= MaxBuckets /\ buckets = Slice(t, 0, MaxBuckets)
  <2>1. ~(Cardinality(keys) > MaxBuckets)
    BY DEF TermsAggregation, Refused
  <2>2. Cardinality(keys) \in Nat /\ MaxBuckets \in Nat
    BY KeysOfValues, LimitsAssumption
  <2>3. buckets = Slice(t, 0, MaxBuckets)
    BY <2>1 DEF TermsAggregation
  <2> HIDE DEF keys, buckets, t
  <2>4. QED
    BY <2>1, <2>2, <2>3
<1>2. /\ \A k \in keys : KeyOf(B(k).key) = k /\ k \in Int /\ Len(B(k).docs) \in Nat
      /\ IsFiniteSet(keys) /\ Cardinality(keys) \in Nat /\ MaxBuckets \in Nat
  <2>1. \A k \in keys : KeyOf(B(k).key) = k /\ Len(B(k).docs) \in Nat
    BY BucketKey
  <2>2. keys \subseteq Int /\ IsFiniteSet(keys) /\ Cardinality(keys) \in Nat /\ MaxBuckets \in Nat
    BY KeysOfValues, LimitsAssumption
  <2>3. QED
    BY <2>1, <2>2
<1> HIDE DEF keys, B
<1>3. \A a, b \in S : a # b => KeyOf(a.key) # KeyOf(b.key)
  BY <1>2
<1>4. StrictOrder(S, R)
  <2>1. \A b \in S : Len(b.docs) \in Nat /\ KeyOf(b.key) \in Int
    BY <1>2
  <2> HIDE DEF S
  <2>2. QED
    BY <1>3, <2>1, BucketsOrdered
<1>5. IsFiniteSet(S) /\ Cardinality(S) = Cardinality(keys)
  <2> DEFINE f == [k \in keys |-> B(k)]
  <2>1. f \in Injection(keys, S) /\ f \in Surjection(keys, S)
    <3>1. f \in [keys -> S] /\ \A b \in S : \E k \in keys : f[k] = b
      OBVIOUS
    <3>2. \A j, k \in keys : f[j] = f[k] => j = k
      BY <1>2
    <3> HIDE DEF f, S
    <3>3. QED
      BY <3>1, <3>2 DEF Injection, Surjection, IsInjective
  <2> HIDE DEF f, S
  <2>2. QED
    BY <1>2, <2>1, FS_Surjection
<1> HIDE DEF S, R
<1>6. Lists(t, S, R) /\ Len(t) = Cardinality(keys)
  BY <1>4, <1>5, ListedLists
<1> HIDE DEF t
<1>7. /\ t \in Seq(S) /\ DOMAIN t = 1..Len(t) /\ Len(t) \in Nat /\ \A i \in DOMAIN t : t[i] \in S
      /\ \A i, j \in DOMAIN t : i # j => t[i] # t[j]
  BY <1>4, <1>6, ListsProps
<1>8. \A b \in S : \E i \in DOMAIN t : t[i] = b
  BY <1>6, <1>7 DEF Lists
<1>9. buckets = t
  <2>1. t \in Seq(S) /\ MaxBuckets \in Nat /\ Len(t) <= MaxBuckets
    BY <1>1, <1>2, <1>6, <1>7
  <2>2. Slice(t, 0, MaxBuckets) = t
    BY <2>1, WholeWindow
  <2>3. QED
    BY <1>1, <2>2
<1>10. \A i \in DOMAIN t : \E k \in keys : t[i] = B(k)
  BY <1>7 DEF S
<1>11. \A k \in keys : \E i \in DOMAIN t : t[i] = B(k)
  BY <1>8 DEF S
<1>12. \A i, j \in DOMAIN t : i # j => KeyOf(t[i].key) # KeyOf(t[j].key)
  BY <1>3, <1>7
<1> HIDE DEF buckets
<1>13. OneBucketEach(hits, field, t)
  <2>1. t \in Seq(ToSet(t))
    <3>1. \A i \in DOMAIN t : t[i] \in ToSet(t)
      BY DEF ToSet
    <3>2. QED
      BY <1>7, <3>1
  <2>2. QED
    BY <2>1, <1>6, <1>7, <1>10, <1>11, <1>12 DEF OneBucketEach, keys, B
<1>14. QED
  BY <1>9, <1>13 DEF buckets

\* The sizes of buckets, added one after the other.
HitsIn(buckets) == FoldLeft(LAMBDA n, b : n + Len(b.docs), 0, buckets)
AddHits(S) == [p \in Int \X S |-> p[1] + Len(p[2].docs)]

LEMMA HitsFold ==
    ASSUME NEW S, \A b \in S : Len(b.docs) \in Int, NEW ms \in Seq(S)
    PROVE  FoldsTo(Int, AddHits(S), 0, ms, HitsIn(ms))
<1> DEFINE F == AddHits(S)
           Step(f, s) == f[s \ {Max(s)}] + Len(ms[Max(s)].docs)
           W(f) == [s \in SUBSET DOMAIN ms |-> IF s = {} THEN 0 ELSE Step(f, s)]
           it == CHOOSE f : f = W(f)
<1>1. HitsIn(ms) = it[DOMAIN ms]
  BY DEF HitsIn, FoldLeft, MapThenFoldSet
<1>2. F \in [Int \X S -> Int] /\ \A n \in Int, b \in S : F[<<n, b>>] = n + Len(b.docs)
  BY DEF AddHits
<1>3. ASSUME NEW s \in SUBSET DOMAIN ms, s # {}
      PROVE  ms[Max(s)] \in S /\ s \ {Max(s)} \in SUBSET DOMAIN ms
  BY <1>3, LastElement
<1>4. 0 \in Int
  OBVIOUS
<1> HIDE DEF F
<1>5. PICK f \in [SUBSET DOMAIN ms -> Int] : SolvesFold(f, F, 0, ms)
  BY <1>2, <1>4, FoldSolution
<1>6. f = W(f)
  BY <1>2, <1>3, <1>5 DEF SolvesFold
<1>7. it = W(it)
  BY <1>6
<1> HIDE DEF it
<1>8. FoldsTo(Int, F, 0, ms, it[DOMAIN ms])
  <2>1. it[{}] = 0
    BY <1>7
  <2>2. ASSUME NEW s \in SUBSET DOMAIN ms, s # {}, it[s \ {Max(s)}] \in Int
        PROVE  it[s] = F[<<it[s \ {Max(s)}], ms[Max(s)]>>]
    BY <1>2, <1>3, <1>7, <2>2
  <2>3. QED
    BY <1>2, <1>4, <2>1, <2>2, FoldOf
<1>9. QED
  BY <1>1, <1>8 DEF F

\* The terms buckets hold each value once.
LEMMA BucketsHoldValues ==
    ASSUME NEW H, NEW field, NEW V, Readable(H, field, V), NEW hits \in Seq(H),
           NEW buckets, OneBucketEach(hits, field, buckets)
    PROVE  ValueCount(hits, field) = HitsIn(buckets)
<1> DEFINE values == ValuesOf(hits, field)
           keys == TermKeys(hits, field)
           S == {TermBucket(hits, field, k) : k \in keys}
           F == AddHits(S)
           n == Len(buckets)
           K(b) == KeyOf(b.key)
<1>1. values \in Seq(V) /\ IsFiniteSet(keys) /\ Cardinality(keys) \in Nat
  BY KeysOfValues
<1>2. n \in Nat /\ DOMAIN buckets = 1..n
  BY <1>1 DEF OneBucketEach
<1>3. \A i \in 1..n : \E k \in keys : buckets[i] = TermBucket(hits, field, k)
  BY <1>2 DEF OneBucketEach
<1>4. ASSUME NEW i \in 1..n
      PROVE  /\ K(buckets[i]) \in keys /\ buckets[i] \in S
             /\ Len(buckets[i].docs) = Cardinality(OfKey(values, K(buckets[i])))
  <2>1. PICK k \in keys : buckets[i] = TermBucket(hits, field, k)
    BY <1>3
  <2>2. KeyOf(TermBucket(hits, field, k).key) = k
    BY BucketKey
  <2>3. Len(TermBucket(hits, field, k).docs) = Cardinality(OfKey(values, k))
    BY BucketHits
  <2>4. QED
    BY <2>1, <2>2, <2>3
<1>5. \A b \in S : Len(b.docs) \in Int
  <2>1. \A k \in keys : Len(TermBucket(hits, field, k).docs) \in Nat
    BY BucketKey
  <2>2. QED
    BY <2>1
<1>6. buckets \in Seq(S)
  <2>1. \A i \in 1..n : buckets[i] \in S
    BY <1>4
  <2>2. buckets \in Seq(ToSet(buckets))
    BY DEF OneBucketEach
  <2> HIDE DEF S
  <2>3. QED
    BY <1>2, <2>1, <2>2
<1>7. FoldsTo(Int, F, 0, buckets, HitsIn(buckets))
  <2> HIDE DEF S
  <2>1. QED
    BY <1>5, <1>6, HitsFold
<1>8. \A m \in Int, b \in S : F[<<m, b>>] = m + Len(b.docs)
  <2> HIDE DEF S
  <2>1. QED
    BY DEF AddHits
<1> HIDE DEF F, S, n
<1>9. PICK c \in [0..n -> Int] : /\ c[0] = 0 /\ HitsIn(buckets) = c[n]
                                 /\ \A j \in 1..n : c[j] = F[<<c[j - 1], buckets[j]>>]
  BY <1>7 DEF FoldsTo, n
<1>10. DOMAIN values = 1..Len(values) /\ Len(values) \in Nat
  <2> HIDE DEF values
  <2>1. QED
    BY <1>1
<1> HIDE DEF values, keys
<1> DEFINE P(j) == {x \in DOMAIN values : \E i \in 1..j : KeyOf(values[x]) = K(buckets[i])}
           G == {j \in 0..n : c[j] = Cardinality(P(j))}
<1>11. \A j : IsFiniteSet(P(j)) /\ Cardinality(P(j)) \in Nat
  <2>1. \A j : P(j) \in SUBSET DOMAIN values
    OBVIOUS
  <2> HIDE DEF P
  <2>2. QED
    BY <1>1, <2>1, PositionsFinite
<1>12. 0 \in G
  <2>1. 1..0 = {} /\ 0 \in 0..n
    BY <1>2
  <2>2. P(0) = {}
    BY <2>1
  <2> HIDE DEF P
  <2>3. QED
    BY <1>9, <2>1, <2>2, FS_EmptySet
<1>13. ASSUME NEW j \in 1..n, j - 1 \in G PROVE j \in G
  <2> DEFINE Q == OfKey(values, K(buckets[j]))
             A == P(j - 1)
  <2>1. j - 1 \in 0..n /\ j \in 0..n /\ c[j - 1] = Cardinality(A) /\ c[j - 1] \in Int
    BY <1>2, <1>9, <1>13
  <2>2. c[j] = c[j - 1] + Cardinality(Q)
    <3>1. c[j] = c[j - 1] + Len(buckets[j].docs)
      BY <1>4, <1>8, <1>9, <2>1
    <3>2. QED
      BY <1>4, <3>1
  <2>3. \A i \in 1..j : i = j \/ i \in 1..(j - 1)
    BY <1>2
  <2>4. \A i \in 1..(j - 1) : i \in 1..j /\ i \in 1..n /\ i # j
    BY <1>2
  <2>5. j \in 1..j
    BY <1>2
  <2>6. P(j) = A \cup Q
    BY <2>3, <2>4, <2>5 DEF OfKey
  <2>7. A \cap Q = {}
    <3>1. \A i \in 1..(j - 1) : K(buckets[i]) # K(buckets[j])
      BY <1>2, <2>4 DEF OneBucketEach
    <3>2. QED
      BY <3>1 DEF OfKey
  <2>8. IsFiniteSet(A) /\ IsFiniteSet(Q) /\ Cardinality(A) \in Nat /\ Cardinality(Q) \in Nat
    <3>1. Q \in SUBSET DOMAIN values
      BY DEF OfKey
    <3>2. IsFiniteSet(Q) /\ Cardinality(Q) \in Nat
      BY <1>1, <3>1, PositionsFinite
    <3> HIDE DEF P, Q
    <3>3. QED
      BY <1>11, <3>2
  <2> HIDE DEF A, Q, P
  <2>9. Cardinality(A \cup Q) = Cardinality(A) + Cardinality(Q)
    <3>1. Cardinality(A \cup Q) = Cardinality(A) + Cardinality(Q) - Cardinality({})
      BY <2>7, <2>8, FS_Union
    <3>2. QED
      BY <2>8, <3>1, FS_EmptySet
  <2>10. c[j] = Cardinality(P(j))
    BY <2>1, <2>2, <2>6, <2>9
  <2>11. QED
    BY <2>1, <2>10
<1>14. c[n] = Cardinality(P(n))
  <2> HIDE DEF P, G
  <2>1. \A j \in 0..n : j \in G
    BY <1>2, <1>12, <1>13, UpTo
  <2>2. n \in G
    BY <1>2, <2>1
  <2>3. QED
    BY <2>2 DEF G
<1>15. P(n) = DOMAIN values
  <2>1. ASSUME NEW x \in DOMAIN values PROVE \E i \in 1..n : KeyOf(values[x]) = K(buckets[i])
    <3>1. KeyOf(values[x]) \in keys
      BY DEF keys, TermKeys, ToSet, values
    <3>2. PICK i \in 1..n : buckets[i] = TermBucket(hits, field, KeyOf(values[x]))
      BY <1>2, <3>1 DEF OneBucketEach, keys
    <3>3. KeyOf(TermBucket(hits, field, KeyOf(values[x])).key) = KeyOf(values[x])
      BY <3>1, BucketKey DEF keys
    <3>4. QED
      BY <3>2, <3>3
  <2>2. QED
    BY <2>1
<1>16. Cardinality(DOMAIN values) = Len(values)
  <2>1. Cardinality(1..Len(values)) = Len(values)
    <3> DEFINE m == Len(values)
    <3> HIDE DEF m
    <3>1. m \in Nat
      BY <1>10 DEF m
    <3>2. Cardinality(1..m) = IF 1 > m THEN 0 ELSE m - 1 + 1
      BY <3>1, FS_Interval
    <3>3. QED
      BY <3>1, <3>2 DEF m
  <2>2. QED
    BY <1>10, <2>1
<1>17. ValueCount(hits, field) = Len(values)
  BY DEF ValueCount, values
<1> HIDE DEF P
<1>18. QED
  BY <1>9, <1>14, <1>15, <1>16, <1>17

-----------------------------------------------------------------------------
(***************************************************************************)
(* Buckets and the filters they are compared with.                         *)
(***************************************************************************)

\* The positions of the hits on which a query has an outcome.
HitsWith(hits, query, o) ==
    {i \in DOMAIN hits : MatchesQuery(hits[i].source, hits[i].id, query) = o}

LEMMA SelectIs ==
    ASSUME NEW H, \A h \in H : h.source \in Sources, NEW hits \in Seq(H), NEW q \in Queries
    PROVE  /\ HitsWith(hits, q, "error") # {} => Select(hits, q) = Refused
           /\ HitsWith(hits, q, "error") = {} =>
                  Select(hits, q) = [status |-> "ok", docs |-> At(hits, HitsWith(hits, q, "match"))]
           /\ \A i \in DOMAIN hits : /\ hits[i] \in H /\ hits[i].source \in Sources
                                     /\ MatchesQuery(hits[i].source, hits[i].id, q) \in Outcomes
<1> DEFINE M(i) == MatchesQuery(hits[i].source, hits[i].id, q)
           outcomes == [i \in DOMAIN hits |-> M(i)]
<1>1. Select(hits, q) = Kept(hits, outcomes)
  BY DEF Select
<1>2. DOMAIN outcomes = DOMAIN hits /\ \A i \in DOMAIN hits : outcomes[i] = M(i)
  OBVIOUS
<1>3. \A i \in DOMAIN hits : hits[i] \in H /\ hits[i].source \in Sources /\ M(i) \in Outcomes
  <2>1. \A i \in DOMAIN hits : hits[i] \in H
    OBVIOUS
  <2>2. QED
    BY <2>1, OutcomeType
<1> HIDE DEF outcomes, M
<1>4. "error" \in ToSet(outcomes) <=> HitsWith(hits, q, "error") # {}
  BY <1>2 DEF ToSet, HitsWith, M
<1>5. {i \in DOMAIN hits : outcomes[i] = "match"} = HitsWith(hits, q, "match")
  BY <1>2 DEF HitsWith, M
<1>6. HitsWith(hits, q, "error") # {} => Select(hits, q) = Refused
  BY <1>1, <1>4 DEF Kept
<1>7. HitsWith(hits, q, "error") = {} =>
          Select(hits, q) = [status |-> "ok", docs |-> At(hits, HitsWith(hits, q, "match"))]
  BY <1>1, <1>4, <1>5 DEF Kept
<1>8. QED
  BY <1>3, <1>6, <1>7 DEF M

\* missing and an exists filter.
LEMMA ExistsParts ==
    ASSUME NEW H, \A h \in H : h.source \in Sources, NEW hits \in Seq(H), NEW c \in Queries,
           c.kind = "exists", NEW V, Readable(H, c.field, V)
    PROVE  SharedOut(hits, c.field, MissingBucket(hits, c.field), FilterBucket(hits, c).docs)
<1> DEFINE I == {i \in DOMAIN hits : ValueAt(hits[i].source, c.field) = Absent}
           J == HitsWith(hits, c, "match")
<1>1. ASSUME NEW i \in DOMAIN hits
      PROVE  MatchesQuery(hits[i].source, hits[i].id, c) = IF i \in I THEN "miss" ELSE "match"
  <2>1. hits[i].source \in Sources
    BY SelectIs
  <2>2. MatchesQuery(hits[i].source, hits[i].id, c) = Outcome(ValueAt(hits[i].source, c.field) # Absent)
    BY <2>1, LeafOutcomes
  <2>3. QED
    BY <2>2 DEF Outcome
<1>2. HitsWith(hits, c, "error") = {} /\ I \cup J = DOMAIN hits /\ I \cap J = {}
  <2> HIDE DEF I
  <2>1. \A i \in DOMAIN hits : i \in J <=> i \notin I
    BY <1>1 DEF HitsWith
  <2>2. HitsWith(hits, c, "error") = {}
    BY <1>1 DEF HitsWith
  <2>3. I \subseteq DOMAIN hits /\ J \subseteq DOMAIN hits
    BY DEF I, HitsWith
  <2>4. QED
    BY <2>1, <2>2, <2>3
<1>3. FilterBucket(hits, c).docs = At(hits, J)
  <2>1. Select(hits, c) = [status |-> "ok", docs |-> At(hits, J)]
    BY <1>2, SelectIs
  <2>2. QED
    BY <2>1 DEF FilterBucket
<1>4. MissingBucket(hits, c.field) = At(hits, I)
  BY DEF MissingBucket
<1> HIDE DEF I, J
<1>5. SharedOut(hits, c.field, At(hits, I), At(hits, J))
  BY <1>2, PartsShareOut
<1>6. QED
  BY <1>3, <1>4, <1>5

\* A filter that does not fail, and the query that excludes it.
LEMMA NegationParts ==
    ASSUME NEW H, \A h \in H : h.source \in Sources, NEW hits \in Seq(H), NEW c \in Queries,
           NEW n \in Queries, n.kind = "bool", n.must_not = <<c>>, n.minimum = {},
           n.must = <<>>, n.filter = <<>>, n.should = <<>>,
           FilterBucket(hits, c).status = "ok", NEW field, NEW V, Readable(H, field, V)
    PROVE  SharedOut(hits, field, FilterBucket(hits, c).docs, FilterBucket(hits, n).docs)
<1> DEFINE I == HitsWith(hits, c, "match")
           J == HitsWith(hits, n, "match")
<1>1. HitsWith(hits, c, "error") = {}
  <2>1. Select(hits, c) # Refused
    BY DEF FilterBucket, Refused
  <2>2. QED
    BY <2>1, SelectIs
<1>2. ASSUME NEW i \in DOMAIN hits
      PROVE  /\ MatchesQuery(hits[i].source, hits[i].id, c) \in {"match", "miss"}
             /\ MatchesQuery(hits[i].source, hits[i].id, n) = IF i \in I THEN "miss" ELSE "match"
  <2> DEFINE m == MatchesQuery(hits[i].source, hits[i].id, c)
  <2>1. hits[i].source \in Sources /\ m \in Outcomes
    BY SelectIs
  <2>2. m # "error"
    BY <1>1 DEF HitsWith
  <2>3. MatchesQuery(hits[i].source, hits[i].id, n) =
            CASE m = "match" -> "miss" [] m = "miss" -> "match" [] OTHER -> "error"
    BY <2>1, NegatedOutcome
  <2>4. i \in I <=> m = "match"
    BY DEF HitsWith
  <2> HIDE DEF m, I
  <2>5. QED
    BY <2>1, <2>2, <2>3, <2>4 DEF Outcomes, m
<1>3. HitsWith(hits, n, "error") = {} /\ I \cup J = DOMAIN hits /\ I \cap J = {}
  <2>1. I \subseteq DOMAIN hits /\ J \subseteq DOMAIN hits
    BY DEF HitsWith
  <2> HIDE DEF I
  <2>2. \A i \in DOMAIN hits : i \in J <=> i \notin I
    BY <1>2 DEF HitsWith
  <2>3. HitsWith(hits, n, "error") = {}
    BY <1>2 DEF HitsWith
  <2>4. QED
    BY <2>1, <2>2, <2>3
<1>4. FilterBucket(hits, c).docs = At(hits, I) /\ FilterBucket(hits, n).docs = At(hits, J)
  <2>1. Select(hits, c) = [status |-> "ok", docs |-> At(hits, I)]
    BY <1>1, SelectIs
  <2>2. Select(hits, n) = [status |-> "ok", docs |-> At(hits, J)]
    BY <1>3, SelectIs
  <2>3. QED
    BY <2>1, <2>2 DEF FilterBucket
<1> HIDE DEF I, J
<1>5. SharedOut(hits, field, At(hits, I), At(hits, J))
  BY <1>3, PartsShareOut
<1>6. QED
  BY <1>4, <1>5

\* A filter on the term of a bucket whose key has its string form alone.
LEMMA TermSelects ==
    ASSUME NEW H, \A h \in H : h.source \in Sources, NEW hits \in Seq(H), NEW c \in Queries,
           c.kind = "term", NEW V, Readable(H, c.field, V), NEW key, c.values = {key},
           \A v \in ToSet(ValuesOf(hits, c.field)) : KeyOf(v) = KeyOf(key) => v = key
    PROVE  ToSet(FilterBucket(hits, c).docs) = ToSet(TermBucket(hits, c.field, KeyOf(key)).docs)
<1> DEFINE E == FieldValues(H, c.field)
           Holds(h) == \E v \in ToSet(E[h]) : v = key
           J == HitsWith(hits, c, "match")
<1>1. E \in [H -> Seq(V)]
  BY DEF Readable
<1>2. ASSUME NEW i \in DOMAIN hits
      PROVE  /\ hits[i] \in H
             /\ MatchesQuery(hits[i].source, hits[i].id, c) = Outcome(Holds(hits[i]))
  <2>1. hits[i].source \in Sources /\ hits[i] \in H
    BY SelectIs
  <2>2. MatchesQuery(hits[i].source, hits[i].id, c) =
            Outcome(\E v \in ToSet(Elements(ValueAt(hits[i].source, c.field))) : v \in c.values)
    BY <2>1, LeafOutcomes
  <2>3. E[hits[i]] = Elements(ValueAt(hits[i].source, c.field))
    BY <2>1 DEF FieldValues
  <2>4. QED
    BY <2>1, <2>2, <2>3
<1>3. \A h \in ToSet(hits) : Holds(h) <=> HasKey(H, c.field, KeyOf(key), h)
  <2>1. ASSUME NEW h \in ToSet(hits), NEW v \in ToSet(E[h]) PROVE v \in ToSet(ValuesOf(hits, c.field))
    <3>1. ValuesOf(hits, c.field) = Joined(hits, E)
      BY ValuesJoined
    <3> HIDE DEF E
    <3>2. ToSet(Joined(hits, E)) = UNION {ToSet(E[g]) : g \in ToSet(hits)}
      BY <1>1, JoinedSet
    <3>3. QED
      BY <3>1, <3>2
  <2>2. ASSUME NEW h \in ToSet(hits), NEW v \in ToSet(E[h]) PROVE v = key <=> KeyOf(v) = KeyOf(key)
    <3>1. v \in ToSet(ValuesOf(hits, c.field))
      BY <2>1
    <3>2. QED
      BY <3>1
  <2>3. QED
    BY <2>2 DEF HasKey
<1>4. ToSet(TermBucket(hits, c.field, KeyOf(key)).docs) =
          {h \in ToSet(hits) : HasKey(H, c.field, KeyOf(key), h)}
  BY BucketHits
<1> HIDE DEF E, Holds
<1>5. HitsWith(hits, c, "error") = {} /\ J = {i \in DOMAIN hits : Holds(hits[i])}
  <2>1. HitsWith(hits, c, "error") = {}
    BY <1>2 DEF HitsWith, Outcome
  <2>2. J = {i \in DOMAIN hits : Holds(hits[i])}
    BY <1>2 DEF HitsWith, Outcome
  <2>3. QED
    BY <2>1, <2>2
<1>6. FilterBucket(hits, c).docs = At(hits, J)
  <2>1. Select(hits, c) = [status |-> "ok", docs |-> At(hits, J)]
    BY <1>5, SelectIs
  <2>2. QED
    BY <2>1 DEF FilterBucket
<1>7. ToSet(At(hits, J)) = {hits[i] : i \in J}
  <2>1. J \in SUBSET DOMAIN hits
    BY DEF HitsWith
  <2> HIDE DEF J
  <2>2. QED
    BY <2>1, SetOfAt
<1>8. {hits[i] : i \in J} = {h \in ToSet(hits) : Holds(h)}
  BY <1>5 DEF ToSet
<1>9. QED
  BY <1>3, <1>4, <1>6, <1>7, <1>8

\* floor(n / 2) * 2
LEMMA TwoApart ==
    ASSUME NEW n \in Int, NEW m \in Int
    PROVE  /\ HistogramKey(n, 2) \in Int
           /\ HistogramKey(n, 2) = HistogramKey(m, 2) <=>
                  n >= HistogramKey(m, 2) /\ n < HistogramKey(m, 2) + 2
<1>1. n \div 2 \in Int /\ 2 * (n \div 2) <= n /\ n < 2 * (n \div 2) + 2
  OBVIOUS
<1>2. m \div 2 \in Int /\ 2 * (m \div 2) <= m /\ m < 2 * (m \div 2) + 2
  OBVIOUS
<1> DEFINE a == n \div 2
           b == m \div 2
<1>3. HistogramKey(n, 2) = a * 2 /\ HistogramKey(m, 2) = b * 2
  BY DEF HistogramKey
<1> HIDE DEF a, b
<1>4. QED
  BY <1>1, <1>2, <1>3 DEF a, b

LEMMA HistogramRanges ==
    ASSUME NEW H, NEW field, NEW V, Readable(H, field, V), NEW T \in SUBSET H, NEW R,
           StrictOrder(T, R), NEW hits, Lists(hits, T, R),
           HistogramAggregation(hits, field, 2).status = "ok",
           NEW b \in HistogramAggregation(hits, field, 2).buckets
    PROVE  b.docs = RangeBucket(hits, field, {b.key}, {b.key + 2})
<1> DEFINE Num(h) == ValueAt(h.source, field).num
           N == {h \in T : HasNumber(h, field)}
           numeric == At(hits, {i \in DOMAIN hits : HasNumber(hits[i], field)})
           KeyFor(h) == HistogramKey(Num(h), 2)
           Docs(k) == At(numeric, {i \in DOMAIN numeric : KeyFor(numeric[i]) = k})
<1>1. \A h \in N : Num(h) \in Int
  <2>1. SUFFICES ASSUME NEW h \in N PROVE Num(h) \in Int
    OBVIOUS
  <2> DEFINE v == ValueAt(h.source, field)
  <2>2. h \in H /\ v.type = "number"
    BY DEF HasNumber
  <2>3. FieldValues(H, field)[h] = <<v>>
    BY <2>2 DEF FieldValues, Elements
  <2>4. <<v>> \in Seq(V)
    <3> HIDE DEF v
    <3>1. QED
      BY <2>2, <2>3 DEF Readable
  <2>5. v \in V
    <3> HIDE DEF v
    <3>1. <<v>>[1] \in V
      BY <2>4
    <3>2. QED
      BY <3>1
  <2>6. QED
    BY <2>2, <2>5 DEF Readable
<1>2. hits \in Seq(T) /\ DOMAIN hits = 1..Len(hits) /\ \A i \in DOMAIN hits : hits[i] \in T
  BY DEF Lists
<1>3. Lists(numeric, N, R)
  <2>1. {i \in DOMAIN hits : HasNumber(hits[i], field)} = {i \in DOMAIN hits : hits[i] \in N}
    BY <1>2
  <2>2. N \in SUBSET T
    OBVIOUS
  <2> HIDE DEF N
  <2>3. QED
    BY <2>1, <2>2, AtLists
<1> HIDE DEF N, numeric
<1>4. N \subseteq T /\ N \subseteq {h \in T : HasNumber(h, field)}
  BY DEF N
<1>5. PICK k \in {KeyFor(h) : h \in ToSet(numeric)} : b = [key |-> k, docs |-> Docs(k)]
  <2> DEFINE keys == {KeyFor(h) : h \in ToSet(numeric)}
  <2>1. HistogramAggregation(hits, field, 2).buckets = {[key |-> k, docs |-> Docs(k)] : k \in keys}
    BY DEF HistogramAggregation, Refused, numeric
  <2>2. QED
    BY <2>1
<1>6. numeric \in Seq(N) /\ DOMAIN numeric = 1..Len(numeric) /\ \A i \in DOMAIN numeric : numeric[i] \in N
  BY <1>3 DEF Lists
<1>7. PICK g \in N : k = KeyFor(g)
  BY <1>5, <1>6 DEF ToSet
<1> DEFINE A == {h \in N : KeyFor(h) = k}
           B == {h \in T : HasNumber(h, field) /\ InRange(Num(h), {k}, {k + 2})}
<1>8. Lists(Docs(k), A, R)
  <2>1. {i \in DOMAIN numeric : KeyFor(numeric[i]) = k} = {i \in DOMAIN numeric : numeric[i] \in A}
    BY <1>6
  <2>2. A \in SUBSET N
    OBVIOUS
  <2> HIDE DEF A, KeyFor
  <2>3. QED
    BY <1>3, <2>1, <2>2, AtLists
<1>9. Lists(RangeBucket(hits, field, {k}, {k + 2}), B, R)
  <2>1. {i \in DOMAIN hits : /\ HasNumber(hits[i], field)
                             /\ InRange(ValueAt(hits[i].source, field).num, {k}, {k + 2})}
        = {i \in DOMAIN hits : hits[i] \in B}
    BY <1>2
  <2>2. B \in SUBSET T
    OBVIOUS
  <2>3. RangeBucket(hits, field, {k}, {k + 2}) = At(hits, {i \in DOMAIN hits : hits[i] \in B})
    BY <2>1 DEF RangeBucket
  <2> HIDE DEF B
  <2>4. QED
    BY <2>2, <2>3, AtLists
<1>10. A = B
  <2>1. k \in Int
    BY <1>1, <1>7, TwoApart
  <2>2. Max({k}) = k /\ Max({k + 2}) = k + 2
    <3>1. \A x \in Int : Max({x}) = x
      BY DEF Max
    <3>2. k + 2 \in Int
      BY <2>1
    <3>3. QED
      BY <2>1, <3>1, <3>2
  <2>3. \A x \in Int : InRange(x, {k}, {k + 2}) <=> x >= k /\ x < k + 2
    BY <2>2 DEF InRange
  <2>4. \A h \in N : KeyFor(h) = k <=> InRange(Num(h), {k}, {k + 2})
    <3>1. SUFFICES ASSUME NEW h \in N PROVE KeyFor(h) = k <=> InRange(Num(h), {k}, {k + 2})
      OBVIOUS
    <3>2. Num(h) \in Int /\ Num(g) \in Int
      BY <1>1, <1>7
    <3> DEFINE x == Num(h)
               y == Num(g)
    <3> HIDE DEF x, y
    <3>3. HistogramKey(x, 2) = HistogramKey(y, 2) <=> x >= HistogramKey(y, 2) /\ x < HistogramKey(y, 2) + 2
      BY <3>2, TwoApart DEF x, y
    <3>4. QED
      BY <1>7, <2>3, <3>2, <3>3 DEF x, y
  <2>5. \A h : h \in N <=> h \in T /\ HasNumber(h, field)
    BY DEF N
  <2> HIDE DEF KeyFor, Num
  <2>6. QED
    BY <2>4, <2>5
<1> HIDE DEF Docs, B
<1>11. StrictOrder(A, R)
  BY <1>4 DEF StrictOrder
<1> HIDE DEF A
<1>12. Docs(k) = RangeBucket(hits, field, {k}, {k + 2})
  BY <1>8, <1>9, <1>10, <1>11, OneList
<1>13. b.key = k /\ b.docs = Docs(k)
  BY <1>5
<1>14. QED
  BY <1>12, <1>13

=============================================================================
