------------------------ MODULE SearchRequests_proofs ------------------------
(***************************************************************************)
(* Proofs about SearchContexts, for every number of clients, contexts and  *)
(* ids, every size, budget and duration, and every set of databases; and   *)
(* about SearchRequests: whatever pagers do, the contexts see operations   *)
(* of their own only, so everything proved of the contexts holds of the    *)
(* composition, too.  Then what is the composition's own: paging answers   *)
(* every document once, the readers of the evaluator agree, and so do the  *)
(* aggregations.                                                           *)
(***************************************************************************)
EXTENDS SearchRequests, SearchEvaluator_proofs

-----------------------------------------------------------------------------
(* The tables.                                                             *)

LEMMA KeepProps ==
    ASSUME NEW f, NEW ks
    PROVE  /\ DOMAIN Keep(f, ks) = DOMAIN f \cap ks
           /\ \A x \in DOMAIN f \cap ks : Keep(f, ks)[x] = f[x]
BY DEF Keep, Restrict

-----------------------------------------------------------------------------
(***************************************************************************)
(* The bytes the contexts retain.                                          *)
(***************************************************************************)

Bytes(c) == [i \in DOMAIN c |-> c[i].bytes]
Accounted(c) == IsFiniteSet(DOMAIN c) /\ Bytes(c) \in [DOMAIN c -> Nat]

\* TotalBytes adds up the bytes.
LEMMA TotalIsSum ==
    ASSUME NEW c, Accounted(c)
    PROVE  \E f \in [SUBSET DOMAIN c -> Nat] :
               IsSum(f, Bytes(c), DOMAIN c) /\ TotalBytes(c) = f[DOMAIN c]
<1> DEFINE R(f) == [s \in SUBSET DOMAIN c |->
                       IF s = {} THEN 0 ELSE c[Some(s)].bytes + f[s \ {Some(s)}]]
           total == CHOOSE f : f = R(f)
<1>1. ASSUME NEW f PROVE f = R(f) <=> IsSum(f, Bytes(c), DOMAIN c)
  <2>1. ASSUME NEW s \in SUBSET DOMAIN c, s # {} PROVE Bytes(c)[Some(s)] = c[Some(s)].bytes
    BY <2>1 DEF Some, Bytes
  <2>2. R(f) = [s \in SUBSET DOMAIN c |->
                   IF s = {} THEN 0 ELSE Bytes(c)[Some(s)] + f[s \ {Some(s)}]]
    BY <2>1
  <2>3. QED
    BY <2>2 DEF IsSum
<1>2. TotalBytes(c) = total[DOMAIN c]
  BY DEF TotalBytes, MapThenSumSet, MapThenFoldSet, Some
<1>3. PICK f : IsSum(f, Bytes(c), DOMAIN c)
  BY SumExists DEF Accounted
<1>4. f = R(f)
  BY <1>1, <1>3
<1>5. total = R(total)
  BY <1>4
<1>6. IsSum(total, Bytes(c), DOMAIN c)
  BY <1>1, <1>5
<1> HIDE DEF total
<1>7. total \in [SUBSET DOMAIN c -> Nat]
  BY <1>6, SumType DEF Accounted
<1>8. QED
  BY <1>2, <1>6, <1>7

LEMMA TotalType ==
    ASSUME NEW c, Accounted(c)
    PROVE  TotalBytes(c) \in Nat
<1>1. PICK f \in [SUBSET DOMAIN c -> Nat] : TotalBytes(c) = f[DOMAIN c]
  BY TotalIsSum
<1>2. QED
  BY <1>1

\* Nothing retains nothing.
LEMMA TotalEmpty ==
    ASSUME NEW c, DOMAIN c = {}
    PROVE  TotalBytes(c) = 0
<1>1. Accounted(c)
  BY FS_EmptySet DEF Accounted, Bytes
<1>2. PICK f \in [SUBSET DOMAIN c -> Nat] :
          IsSum(f, Bytes(c), DOMAIN c) /\ TotalBytes(c) = f[DOMAIN c]
  BY <1>1, TotalIsSum
<1>3. QED
  BY <1>2 DEF IsSum

\* A table with fewer and smaller contexts retains no more.
LEMMA TotalMonotone ==
    ASSUME NEW c, NEW d, Accounted(c), Accounted(d), DOMAIN d \subseteq DOMAIN c,
           \A i \in DOMAIN d : d[i].bytes <= c[i].bytes
    PROVE  TotalBytes(d) <= TotalBytes(c)
<1>1. PICK f \in [SUBSET DOMAIN c -> Nat] :
          IsSum(f, Bytes(c), DOMAIN c) /\ TotalBytes(c) = f[DOMAIN c]
  BY TotalIsSum
<1>2. PICK e \in [SUBSET DOMAIN d -> Nat] :
          IsSum(e, Bytes(d), DOMAIN d) /\ TotalBytes(d) = e[DOMAIN d]
  BY TotalIsSum
<1>3. \A i \in DOMAIN d : Bytes(d)[i] <= Bytes(c)[i]
  BY DEF Bytes
<1>4. e[DOMAIN d] <= f[DOMAIN c]
  BY <1>1, <1>2, <1>3, SumMonotone DEF Accounted
<1>5. QED
  BY <1>1, <1>2, <1>4

\* A new context adds its bytes.
LEMMA TotalPut ==
    ASSUME NEW c, Accounted(c), NEW k, k \notin DOMAIN c, NEW v, v.bytes \in Nat
    PROVE  /\ Accounted(Put(c, k, v))
           /\ TotalBytes(Put(c, k, v)) = TotalBytes(c) + v.bytes
<1> DEFINE p == Put(c, k, v)
<1>1. /\ DOMAIN p = DOMAIN c \cup {k} /\ p[k] = v /\ \A i \in DOMAIN c : p[i] = c[i]
  BY DEF Put
<1> HIDE DEF p
<1>2. /\ Bytes(p) \in [DOMAIN c \cup {k} -> Nat] /\ Bytes(p)[k] = v.bytes
      /\ \A i \in DOMAIN c : Bytes(c)[i] = Bytes(p)[i]
  BY <1>1 DEF Accounted, Bytes
<1>3. Accounted(p)
  BY <1>1, <1>2, FS_AddElement DEF Accounted
<1>4. PICK f \in [SUBSET DOMAIN p -> Nat] :
          IsSum(f, Bytes(p), DOMAIN p) /\ TotalBytes(p) = f[DOMAIN p]
  BY <1>3, TotalIsSum
<1>5. PICK e \in [SUBSET DOMAIN c -> Nat] :
          IsSum(e, Bytes(c), DOMAIN c) /\ TotalBytes(c) = e[DOMAIN c]
  BY TotalIsSum
<1>6. f[DOMAIN p] = Bytes(p)[k] + e[DOMAIN c]
  <2>1. AddsUp(f, Bytes(p), DOMAIN p) /\ AddsUp(e, Bytes(c), DOMAIN c)
    BY <1>3, <1>4, <1>5 DEF Accounted, AddsUp
  <2>2. Extends(Bytes(p), Bytes(c), DOMAIN c, k)
    BY <1>2 DEF Extends
  <2>3. QED
    BY <1>1, <2>1, <2>2, SumExtend
<1>7. TotalBytes(p) = TotalBytes(c) + v.bytes
  BY <1>2, <1>4, <1>5, <1>6
<1>8. QED
  BY <1>3, <1>7 DEF p

-----------------------------------------------------------------------------
(***************************************************************************)
(* Eviction.                                                               *)
(***************************************************************************)

Dated(c) == /\ IsFiniteSet(DOMAIN c) /\ DOMAIN c \subseteq Nat
            /\ \A i \in DOMAIN c : c[i].lastAccessed \in Nat

\* The least recently used cursor, of several the first.
LEMMA OldestProps ==
    ASSUME NEW c, Dated(c), NEW ids \in SUBSET DOMAIN c, ids # {}
    PROVE  /\ Oldest(c, ids) \in ids
           /\ \A j \in ids : c[Oldest(c, ids)].lastAccessed <= c[j].lastAccessed
<1> DEFINE times == {c[i].lastAccessed : i \in ids}
           first(i) == \A j \in ids : \/ c[i].lastAccessed < c[j].lastAccessed
                                      \/ c[i].lastAccessed = c[j].lastAccessed /\ i <= j
<1>1. \A i \in ids : i \in Nat /\ c[i].lastAccessed \in Nat
  BY DEF Dated
<1>2. PICK m \in times : \A n \in times : m <= n
  <2>1. times \in SUBSET Nat /\ times # {}
    BY <1>1
  <2> HIDE DEF times
  <2>2. QED
    BY <2>1, LeastNumber
<1> DEFINE oldest == {i \in ids : c[i].lastAccessed = m}
<1>3. PICK i \in oldest : \A j \in oldest : i <= j
  <2>1. oldest \in SUBSET Nat /\ oldest # {}
    BY <1>1, <1>2
  <2> HIDE DEF oldest
  <2>2. QED
    BY <2>1, LeastNumber
<1>4. i \in ids /\ first(i)
  BY <1>1, <1>2, <1>3
<1>5. Oldest(c, ids) \in ids /\ first(Oldest(c, ids))
  BY <1>4 DEF Oldest
<1>6. QED
  BY <1>1, <1>5

\* What eviction keeps of ids: as many as fit, the most recently used ones, and
\* one more would not have fitted.
Justified(c, bytes, ids, kept) ==
    /\ kept \subseteq ids
    /\ kept = {} \/ ScrollsFit(Keep(c, kept), bytes)
    /\ \A i \in ids \ kept, j \in kept : c[i].lastAccessed <= c[j].lastAccessed
    /\ ids # kept => \E i \in ids \ kept : ~ScrollsFit(Keep(c, kept \cup {i}), bytes)

LEMMA EvictionJustified ==
    ASSUME NEW c, Dated(c), NEW bytes
    PROVE  \E kept \in SUBSET DOMAIN c :
               EvictForBudget(c, bytes) = Keep(c, kept) /\ Justified(c, bytes, DOMAIN c, kept)
<1> DEFINE D == DOMAIN c
           Enough(ids) == ids = {} \/ ScrollsFit(Keep(c, ids), bytes)
           R(f) == [ids \in SUBSET D |-> IF Enough(ids) THEN Keep(c, ids)
                                         ELSE f[ids \ {Oldest(c, ids)}]]
           evict == CHOOSE f : f = R(f)
<1>1. EvictForBudget(c, bytes) = evict[D]
  BY DEF EvictForBudget
<1>2. \E f : f = R(f)
  <2> DEFINE T == {Keep(c, ids) : ids \in SUBSET D}
             stop == {ids \in SUBSET D : Enough(ids)}
             v == [ids \in SUBSET D |-> Keep(c, ids)]
             ch == [ids \in SUBSET D |-> Oldest(c, ids)]
             add == [ids \in SUBSET D |-> [y \in T |-> y]]
  <2> HIDE DEF Enough
  <2>1. \A ids \in SUBSET D : ids \in stop => v[ids] \in T
    OBVIOUS
  <2>2. \A ids \in SUBSET D : ids \notin stop => ch[ids] \in ids /\ \A y \in T : add[ids][y] \in T
    BY OldestProps DEF Enough
  <2>3. PICK f \in [SUBSET D -> T] : IsRecursive(f, D, stop, v, ch, add)
    <3>1. IsFiniteSet(D)
      BY DEF Dated
    <3> HIDE DEF D, T, stop, v, ch, add, R, evict
    <3>2. StaysIn(D, T, stop, v, ch, add)
      BY <2>1, <2>2 DEF StaysIn
    <3>3. QED
      BY <3>1, <3>2, RecursionExists, SMTT(30)
  <2>4. ASSUME NEW ids \in SUBSET D
        PROVE  f[ids] = IF Enough(ids) THEN Keep(c, ids) ELSE f[ids \ {Oldest(c, ids)}]
    <3>1. f[ids] = IF ids \in stop THEN v[ids] ELSE add[ids][f[ids \ {ch[ids]}]]
      <4> HIDE DEF D, T, stop, v, ch, add
      <4>1. QED
        BY <2>3 DEF IsRecursive
    <3>2. f[ids \ {Oldest(c, ids)}] \in T
      <4>1. ids \ {Oldest(c, ids)} \in SUBSET D
        OBVIOUS
      <4> HIDE DEF T, D
      <4>2. QED
        BY <2>3, <4>1
    <3> HIDE DEF T
    <3>3. QED
      BY <3>1, <3>2
  <2>5. f = R(f)
    <3> HIDE DEF T
    <3>1. QED
      BY <2>3, <2>4
  <2>6. QED
    BY <2>5
<1>3. evict = R(evict)
  BY <1>2
<1> HIDE DEF evict
<1>4. ASSUME NEW ids \in SUBSET D
      PROVE  evict[ids] = IF Enough(ids) THEN Keep(c, ids) ELSE evict[ids \ {Oldest(c, ids)}]
  BY <1>3
<1>5. ASSUME NEW ids \in SUBSET D
      PROVE  /\ IsFiniteSet(ids) /\ Cardinality(ids) \in Nat
             /\ \A x \in ids : Cardinality(ids \ {x}) = Cardinality(ids) - 1
  BY FS_Subset, FS_CardinalityType, FS_RemoveElement DEF Dated
<1> DEFINE Good(ids) == \E kept \in SUBSET D :
                            evict[ids] = Keep(c, kept) /\ Justified(c, bytes, ids, kept)
           Bad == {n \in Nat : \E ids \in SUBSET D : Cardinality(ids) = n /\ ~Good(ids)}
<1>6. ASSUME NEW m \in Bad, \A n \in Bad : m <= n PROVE FALSE
  <2>1. PICK ids \in SUBSET D : Cardinality(ids) = m /\ ~Good(ids)
    OBVIOUS
  <2>2. CASE Enough(ids)
    <3>1. Justified(c, bytes, ids, ids)
      BY <2>2 DEF Justified
    <3>2. QED
      BY <1>4, <2>1, <2>2, <3>1
  <2>3. CASE ~Enough(ids)
    <3> DEFINE x == Oldest(c, ids)
               rest == ids \ {x}
    <3>1. x \in ids /\ \A j \in ids : c[x].lastAccessed <= c[j].lastAccessed
      BY <2>3, OldestProps
    <3>2. evict[ids] = evict[rest]
      BY <1>4, <2>3
    <3> HIDE DEF x
    <3>3. rest \in SUBSET D /\ Cardinality(rest) = m - 1 /\ Cardinality(rest) \in Nat
      BY <1>5, <2>1, <3>1
    <3>4. m \in Nat /\ m - 1 \notin Bad
      <4>1. m \in Nat
        OBVIOUS
      <4> HIDE DEF Bad
      <4>2. QED
        BY <1>6, <4>1
    <3>5. PICK kept \in SUBSET D : evict[rest] = Keep(c, kept) /\ Justified(c, bytes, rest, kept)
      BY <3>3, <3>4
    <3>6. Justified(c, bytes, ids, kept)
      <4>1. kept \subseteq rest /\ (kept = {} \/ ScrollsFit(Keep(c, kept), bytes))
        BY <3>5 DEF Justified
      <4>2. \A i \in ids \ kept, j \in kept : c[i].lastAccessed <= c[j].lastAccessed
        BY <3>1, <3>5, <4>1 DEF Justified
      <4>3. CASE rest = kept
        <5>1. kept \cup {x} = ids /\ x \in ids \ kept
          BY <3>1, <4>3
        <5>2. ~ScrollsFit(Keep(c, kept \cup {x}), bytes)
          BY <2>3, <5>1
        <5>3. QED
          BY <4>1, <4>2, <5>1, <5>2 DEF Justified
      <4>4. CASE rest # kept
        BY <3>5, <4>1, <4>2, <4>4 DEF Justified
      <4>5. QED
        BY <4>3, <4>4
    <3>7. QED
      BY <2>1, <3>2, <3>5, <3>6
  <2>4. QED
    BY <2>2, <2>3
<1>7. Bad = {}
  <2>1. Bad \subseteq Nat
    OBVIOUS
  <2> HIDE DEF Bad
  <2>2. QED
    BY <1>6, <2>1, LeastNumber
<1>8. D \in SUBSET D /\ Cardinality(D) \in Nat
  BY <1>5
<1>9. Good(D)
  BY <1>7, <1>8
<1>10. QED
  BY <1>1, <1>9

-----------------------------------------------------------------------------
(***************************************************************************)
(* Pages.                                                                  *)
(***************************************************************************)

Remaining(hits, position) == SubSeq(hits, position + 1, Len(hits))

PageFacts(S, hits, position, batch) ==
    /\ PageEnd(hits, position, batch) \in position..Len(hits)
    /\ position < Len(hits) => PageEnd(hits, position, batch) > position
    /\ Page(hits, position, batch) \in Seq(S)
    /\ Remaining(hits, position) \in Seq(S)
    /\ Remaining(hits, PageEnd(hits, position, batch)) \in Seq(S)
    /\ Len(Remaining(hits, position)) = Len(hits) - position
    /\ Page(hits, position, batch) \o Remaining(hits, PageEnd(hits, position, batch))
           = Remaining(hits, position)

\* A page and what comes after it are what there was.
LEMMA PageProps ==
    ASSUME NEW S, NEW hits \in Seq(S), NEW position \in 0..Len(hits), NEW batch \in Nat \ {0}
    PROVE  PageFacts(S, hits, position, batch)
<1> DEFINE end == PageEnd(hits, position, batch)
<1>1. Len(hits) \in Nat /\ \A i \in 1..Len(hits) : hits[i] \in S
  BY LenProperties, ElementOfSeq
<1>2. end \in position..Len(hits) /\ (position < Len(hits) => end > position)
  BY <1>1 DEF PageEnd, MinOf
<1> HIDE DEF end
<1>3. \A p \in 0..Len(hits) : \A q \in p..Len(hits) :
         /\ SubSeq(hits, p + 1, q) \in Seq(S)
         /\ Len(SubSeq(hits, p + 1, q)) = q - p
  <2> SUFFICES ASSUME NEW p \in 0..Len(hits), NEW q \in p..Len(hits)
               PROVE  /\ SubSeq(hits, p + 1, q) \in Seq(S)
                      /\ Len(SubSeq(hits, p + 1, q)) = q - p
    OBVIOUS
  <2>1. p + 1 \in Int /\ q \in Int /\ \A i \in (p + 1)..q : hits[i] \in S
    BY <1>1
  <2>2. /\ SubSeq(hits, p + 1, q) \in Seq(S)
        /\ Len(SubSeq(hits, p + 1, q)) = IF p + 1 <= q THEN q - (p + 1) + 1 ELSE 0
    BY <2>1, SubSeqProperties
  <2>3. QED
    BY <1>1, <2>2
<1>4. SubSeq(hits, position + 1, end) \o SubSeq(hits, end + 1, Len(hits))
          = SubSeq(hits, position + 1, Len(hits))
  <2>1. /\ position + 1 \in 1..(Len(hits) + 1) /\ end \in ((position + 1) - 1)..Len(hits)
        /\ Len(hits) \in end..Len(hits)
    BY <1>1, <1>2
  <2>2. QED
    BY <2>1, ConcatAdjacentSubSeq
<1>5. end \in 0..Len(hits) /\ Len(hits) \in position..Len(hits) /\ Len(hits) \in end..Len(hits)
  BY <1>1, <1>2
<1>6. QED
  BY <1>2, <1>3, <1>4, <1>5 DEF PageFacts, Page, Remaining, end

\* A cursor and the history of its scroll agree.
GoodCursor(c, tr) ==
    /\ c \in Cursors
    /\ Len(c.hits) <= Len(DocOrder)
    /\ IF c.terminal THEN c.hits = <<>> /\ c.position = 0 ELSE c.position < Len(c.hits)
    /\ tr \in [captured : Seq(ToSet(DocOrder)), served : Seq(ToSet(DocOrder))]
    /\ tr.served \o Remaining(c.hits, c.position) = tr.captured
    /\ c.bytes = ScrollBytes(c.hits)

\* Exactly a terminal cursor has answered everything.
LEMMA TerminalProps ==
    ASSUME NEW c, NEW tr, GoodCursor(c, tr)
    PROVE  c.terminal <=> tr.served = tr.captured
<1> DEFINE D == ToSet(DocOrder)
           rest == Remaining(c.hits, c.position)
<1>1. /\ c.hits \in Seq(D) /\ c.position \in Nat /\ c.terminal \in BOOLEAN
      /\ tr.served \in Seq(D) /\ tr.captured \in Seq(D)
  BY DEF GoodCursor, Cursors
<1> HIDE DEF D
<1>2. c.position \in 0..Len(c.hits)
  BY <1>1, LenProperties, EmptySeq DEF GoodCursor
<1>3. rest \in Seq(D) /\ Len(rest) = Len(c.hits) - c.position
  <2>1. 1 \in Nat \ {0}
    OBVIOUS
  <2>2. PageFacts(D, c.hits, c.position, 1)
    BY <1>1, <1>2, <2>1, PageProps
  <2>3. QED
    BY <2>2 DEF PageFacts
<1>4. tr.served \o rest = tr.captured
  BY DEF GoodCursor
<1> HIDE DEF rest
<1>5. tr.served = tr.captured <=> rest = <<>>
  <2>1. tr.served \o rest = tr.served <=> rest = <<>>
    <3>1. \A s, u \in Seq(D) : s \o u = s <=> u = <<>>
      OBVIOUS
    <3>2. QED
      BY <1>1, <1>3, <3>1
  <2>2. QED
    BY <1>4, <2>1
<1>6. rest = <<>> <=> Len(rest) = 0
  BY <1>3, EmptySeq
<1>7. Len(c.hits) \in Nat
  BY <1>1, LenProperties
<1>8. CASE c.terminal
  BY <1>3, <1>5, <1>6, <1>8, EmptySeq DEF GoodCursor
<1>9. CASE ~c.terminal
  BY <1>1, <1>3, <1>5, <1>6, <1>7, <1>9 DEF GoodCursor
<1>10. QED
  BY <1>8, <1>9

LEMMA DocOrderLength == Len(DocOrder) \in Nat /\ ToSet(DocOrder) = DocKeys
<1>1. Lists(DocOrder, DocKeys, KeyPairs)
  BY DocOrderLists
<1>2. DocOrder \in Seq(DocKeys)
  BY <1>1 DEF Lists
<1> HIDE DEF DocOrder
<1>3. Len(DocOrder) \in Nat /\ DOMAIN DocOrder = 1..Len(DocOrder) /\ \A i \in 1..Len(DocOrder) : DocOrder[i] \in DocKeys
  BY <1>2, LenProperties
<1>4. QED
  BY <1>1, <1>3 DEF Lists, ToSet

LEMMA SourcesOfHits ==
    ASSUME NEW w \in DOMAIN Workloads, NEW d \in Workloads[w].databases
    PROVE  \A h \in HitsOf(d) : h.source \in Sources
<1> SUFFICES ASSUME NEW k \in DocKeys, Exists(d, k) PROVE Hit(d, k).source \in Sources
  BY DEF HitsOf
<1>1. k[1] \in DOMAIN d.indexes /\ k[2] \in DOMAIN d.indexes[k[1]]
  BY DEF Exists
<1>2. d.indexes[k[1]][k[2]] \in Sources
  BY <1>1, DatabasesAssumption
<1>3. QED
  BY <1>2 DEF Hit

\* What a scroll captures: keys of documents, no more than there are.
LEMMA CapturedType ==
    ASSUME NEW w \in DOMAIN Workloads, NEW d \in Workloads[w].databases, NEW size \in Sizes
    PROVE  /\ CapturedHits(d, size) \in Seq(ToSet(DocOrder))
           /\ Len(CapturedHits(d, size)) <= Len(DocOrder)
<1> DEFINE n == ScrollCaptureSize(size)
           r == SearchAll(n)
           selected == Select(Scanned(d, r), r.query)
           docs == selected.docs
           hits == Search(d, r).hits
           T == HitsOf(d)
<1>1. n \in Nat
  BY ContextsAssumption DEF ScrollCaptureSize, MaxOf, BatchSize
<1> HIDE DEF n
<1>2. r.query \in Queries /\ r.query.kind = "match_all"
  BY DatabasesAssumption DEF SearchAll
<1>3. /\ r.sort = <<>> /\ r.pit = FALSE /\ r.cursor = <<>> /\ r.from = 0 /\ r.size = n
      /\ r.aggs = FALSE
  BY DEF SearchAll
<1> HIDE DEF r
<1>4. ScannedHits(d, r) \subseteq T /\ Lists(Scanned(d, r), ScannedHits(d, r), ByKey(T))
  BY ScannedLists
<1>5. \A h \in ScannedHits(d, r) : MatchesQuery(h.source, h.id, r.query) = "match"
  BY <1>2, <1>4, SourcesOfHits, LeafOutcomes
<1>6. /\ selected = [status |-> "ok", docs |-> docs]
      /\ docs \in Seq(Matching(ScannedHits(d, r), r.query))
      /\ selected # Refused
  <2> DEFINE q == r.query
             S == ScannedHits(d, r)
  <2>1. selected = Select(Scanned(d, r), q) /\ Lists(Scanned(d, r), S, ByKey(T))
    BY <1>4
  <2> HIDE DEF q, S, T
  <2>2. \/ /\ selected = Refused
           /\ \E h \in S : MatchesQuery(h.source, h.id, q) = "error"
        \/ /\ selected = [status |-> "ok", docs |-> selected.docs]
           /\ Lists(selected.docs, Matching(S, q), ByKey(T))
    BY <2>1, SelectLists
  <2>3. /\ selected = [status |-> "ok", docs |-> selected.docs]
        /\ Lists(selected.docs, Matching(S, q), ByKey(T))
    BY <1>5, <2>2 DEF S, q
  <2>4. selected # Refused
    BY <2>3 DEF Refused
  <2>5. QED
    BY <2>3, <2>4 DEF Lists, S, q
<1>7. docs \in Seq(T)
  <2>1. Matching(ScannedHits(d, r), r.query) \subseteq T
    BY <1>4 DEF Matching
  <2> HIDE DEF docs, T
  <2>2. QED
    BY <1>6, <2>1
<1>8. Len(docs) <= Len(DocOrder) /\ Len(docs) \in Nat
  <2>1. Scanned(d, r) \in Seq(ScannedHits(d, r))
    BY <1>4 DEF Lists
  <2>2. Len(docs) <= Len(Scanned(d, r))
    BY <1>6, <2>1, SelectShorter
  <2>3. Len(docs) \in Nat
    BY <1>7, LenProperties
  <2> HIDE DEF docs
  <2>4. QED
    BY <2>2, <2>3, ScannedShorter
<1>9. hits = Slice(docs, 0, n)
  <2>1. 0 \in Nat /\ FALSE \in BOOLEAN
    OBVIOUS
  <2>2. UnsortedRequest(r)
    BY <1>1, <1>3, <2>1 DEF UnsortedRequest
  <2>3. AnswersWindow(Search(d, r), docs, r)
    BY <1>6, <1>7, <2>2, UnsortedSearch
  <2>4. QED
    BY <1>3, <2>3 DEF AnswersWindow
<1> HIDE DEF docs, selected, T
<1>10. hits \in Seq(T) /\ Len(hits) <= Len(DocOrder) /\ Len(hits) \in Nat
  <2>1. Slice(docs, 0, n) \in Seq(T) /\ Len(Slice(docs, 0, n)) = WindowSize(Len(docs), 0, n)
    BY <1>1, <1>7, SliceIsWindow DEF IsWindow
  <2>2. WindowSize(Len(docs), 0, n) <= Len(docs)
    BY <1>1, <1>8 DEF WindowSize
  <2>3. Len(hits) \in Nat
    BY <1>9, <2>1, LenProperties
  <2> HIDE DEF hits
  <2>4. Len(hits) <= Len(docs)
    BY <1>9, <2>1, <2>2
  <2>5. QED
    BY <1>8, <1>9, <2>1, <2>3, <2>4, DocOrderLength
<1>11. CapturedHits(d, size) = Keys(hits)
  BY DEF CapturedHits, hits, r, n
<1> HIDE DEF hits
<1>12. Keys(hits) \in [1..Len(hits) -> DocKeys]
  <2>1. \A h \in T : KeyOfHit(h) \in DocKeys
    BY HitsDistinct DEF T
  <2>2. DOMAIN hits = 1..Len(hits) /\ \A i \in 1..Len(hits) : hits[i] \in T
    BY <1>10, LenProperties
  <2>3. QED
    BY <2>1, <2>2 DEF Keys
<1>13. Keys(hits) \in Seq(DocKeys) /\ Len(Keys(hits)) = Len(hits)
  BY <1>10, <1>12, FunctionIsSeq
<1>14. QED
  BY <1>10, <1>11, <1>13, DocOrderLength

\* next_scroll keeps the agreement.
LEMMA AdvancedGood ==
    ASSUME NEW c, NEW tr, GoodCursor(c, tr), ~c.terminal, now \in 0..MaxTime
    PROVE  /\ GoodCursor(Advanced(c), [tr EXCEPT !.served = @ \o Page(c.hits, c.position, c.batch)])
           /\ Advanced(c).bytes <= c.bytes
<1> DEFINE D == ToSet(DocOrder)
           end == PageEnd(c.hits, c.position, c.batch)
           page == Page(c.hits, c.position, c.batch)
           next == [tr EXCEPT !.served = @ \o page]
<1>1. /\ c.hits \in Seq(D) /\ c.position \in Nat /\ c.batch \in Nat \ {0}
      /\ c.position < Len(c.hits) /\ Len(c.hits) <= Len(DocOrder)
      /\ tr.served \in Seq(D) /\ tr.captured \in Seq(D)
      /\ tr.served \o Remaining(c.hits, c.position) = tr.captured
      /\ c.bytes = Len(c.hits) + 1 /\ c.bytes \in 0..ScrollBudget
  BY DEF GoodCursor, Cursors, ScrollBytes
<1>2. c \in [hits : Seq(D), position : 0..Len(DocOrder), batch : Nat \ {0},
             lastAccessed : 0..MaxTime, bytes : 0..ScrollBudget, terminal : BOOLEAN]
  BY DEF GoodCursor, Cursors
<1>3. tr \in [captured : Seq(D), served : Seq(D)]
  BY DEF GoodCursor
<1>4. Len(DocOrder) \in Nat /\ ScrollBudget \in Nat
  BY DocOrderLength, ContextsAssumption
<1> HIDE DEF D
<1>5. Len(c.hits) \in Nat /\ c.position \in 0..Len(c.hits)
  BY <1>1, LenProperties
<1>6. /\ end \in c.position..Len(c.hits) /\ end > c.position
      /\ page \in Seq(D) /\ Remaining(c.hits, end) \in Seq(D)
      /\ page \o Remaining(c.hits, end) = Remaining(c.hits, c.position)
      /\ Len(Remaining(c.hits, c.position)) = Len(c.hits) - c.position
  <2>1. PageFacts(D, c.hits, c.position, c.batch)
    BY <1>1, <1>5, PageProps
  <2>2. QED
    BY <1>1, <2>1 DEF PageFacts
<1>7. /\ next \in [captured : Seq(D), served : Seq(D)]
      /\ next.served = tr.served \o page /\ next.captured = tr.captured
  <2>1. tr.served \o page \in Seq(D)
    BY <1>1, <1>6, ConcatProperties
  <2> HIDE DEF page
  <2>2. QED
    BY <1>3, <2>1
<1>8. next.served \o Remaining(c.hits, end) = next.captured
  <2> HIDE DEF page, end, next
  <2>1. (tr.served \o page) \o Remaining(c.hits, end)
            = tr.served \o (page \o Remaining(c.hits, end))
    <3>1. /\ tr.served \in Seq(D) /\ page \in Seq(D) /\ Remaining(c.hits, end) \in Seq(D)
      BY <1>1, <1>6
    <3>2. \A s, u, v \in Seq(D) : (s \o u) \o v = s \o (u \o v)
      BY ConcatAssociative
    <3>3. QED
      BY <3>1, <3>2
  <2>2. QED
    BY <1>1, <1>6, <1>7, <2>1
<1> HIDE DEF next, page
<1>9. CASE end >= Len(c.hits)
  <2> DEFINE a == [hits |-> <<>>, position |-> 0, batch |-> c.batch, lastAccessed |-> now,
                   bytes |-> ScrollBytes(<<>>), terminal |-> TRUE]
  <2>1. end = Len(c.hits)
    BY <1>5, <1>6, <1>9
  <2>2. Advanced(c) = a
    <3> HIDE DEF end
    <3>1. Advanced(c) = [[c EXCEPT !.lastAccessed = now] EXCEPT
                            !.terminal = TRUE, !.hits = <<>>, !.position = 0,
                            !.bytes = ScrollBytes(<<>>)]
      BY <1>9 DEF Advanced, end
    <3>2. QED
      BY <1>2, <3>1
  <2>3. ScrollBytes(<<>>) = 1
    BY DEF ScrollBytes
  <2>4. a \in Cursors
    <3>1. <<>> \in Seq(D)
      BY EmptySeq
    <3>2. 1 \in 0..ScrollBudget
      BY <1>1, <1>4, <1>5
    <3>3. QED
      BY <1>1, <1>4, <2>3, <3>1, <3>2 DEF Cursors, D
  <2>5. Remaining(c.hits, Len(c.hits)) = <<>> /\ Remaining(<<>>, 0) = <<>>
    BY <1>5, SubSeqEmpty DEF Remaining
  <2>6. next.served \o Remaining(a.hits, a.position) = next.captured
    BY <1>8, <2>1, <2>5
  <2>7. GoodCursor(a, next)
    <3>1. next \in [captured : Seq(ToSet(DocOrder)), served : Seq(ToSet(DocOrder))]
      BY <1>7 DEF D
    <3>2. Len(<<>>) <= Len(DocOrder)
      BY <1>4
    <3>3. QED
      BY <2>4, <2>6, <3>1, <3>2 DEF GoodCursor
  <2>8. a.bytes <= c.bytes
    BY <1>1, <1>5, <2>3
  <2>9. QED
    BY <2>2, <2>7, <2>8 DEF next, page
<1>10. CASE ~(end >= Len(c.hits))
  <2> DEFINE a == [hits |-> c.hits, position |-> end, batch |-> c.batch, lastAccessed |-> now,
                   bytes |-> c.bytes, terminal |-> c.terminal]
  <2> HIDE DEF end
  <2>1. end \in 0..Len(DocOrder) /\ end < Len(c.hits)
    <3>1. end \in Nat /\ end <= Len(c.hits)
      BY <1>5, <1>6
    <3>2. Len(c.hits) \in Nat /\ Len(DocOrder) \in Nat /\ Len(c.hits) <= Len(DocOrder)
      BY <1>1, <1>4, <1>5
    <3>3. QED
      BY <1>10, <3>1, <3>2
  <2>2. Advanced(c) = a
    <3>1. Advanced(c) = [[c EXCEPT !.lastAccessed = now] EXCEPT !.position = end]
      BY <1>10 DEF Advanced, end
    <3>2. QED
      BY <1>2, <3>1
  <2>3. a \in Cursors
    BY <1>2, <2>1 DEF Cursors, D
  <2>4. GoodCursor(a, next)
    <3>1. next \in [captured : Seq(ToSet(DocOrder)), served : Seq(ToSet(DocOrder))]
      BY <1>7 DEF D
    <3>2. QED
      BY <1>1, <1>8, <2>1, <2>3, <3>1 DEF GoodCursor, ScrollBytes
  <2>5. QED
    BY <1>1, <2>2, <2>4 DEF next, page
<1>11. QED
  BY <1>9, <1>10

-----------------------------------------------------------------------------
(***************************************************************************)
(* The inductive invariant.                                                *)
(***************************************************************************)

\* Scrolls s with histories tr, whose ids are at most n.
ScrollTable(s, tr, n) ==
    /\ DOMAIN s \subseteq 1..n /\ DOMAIN tr = DOMAIN s
    /\ \A i \in DOMAIN s : GoodCursor(s[i], tr[i])
    /\ Cardinality(DOMAIN s) <= MaxScrolls /\ TotalBytes(s) <= ScrollBudget

GoodPit(p) ==
    /\ p \in [view : {p.view}, bytes : 0..PitBudget, keepAlive : Durations, expires : Nat]
    /\ DOMAIN p.view.indexes \subseteq IndexNames

PitTable(p, n) ==
    /\ DOMAIN p \subseteq 1..n
    /\ \A i \in DOMAIN p : GoodPit(p[i])
    /\ Cardinality(DOMAIN p) <= MaxPits /\ TotalBytes(p) <= PitBudget

\* The requests between their two steps.
GoodScrollRequest(r, n) ==
    /\ r \in [kind : {"scroll"}, id : 1..n, hits : Seq(ToSet(DocOrder)),
              rest : Seq(ToSet(DocOrder)), batch : Nat \ {0}, lastAccessed : 0..MaxTime]
    /\ Len(r.hits) <= Len(DocOrder)
    /\ r.rest = Remaining(r.hits, PageEnd(r.hits, 0, r.batch))
    /\ ScrollBytes(r.rest) <= ScrollBudget

GoodPitRequest(r, n) ==
    /\ r.kind = "pit" /\ r.id \in 1..n
    /\ DOMAIN r.view.indexes \subseteq IndexNames
    /\ PitBytes(r.view) \in 0..PitBudget /\ r.keepAlive \in Durations

GoodRequests(rs, n) ==
    /\ DOMAIN rs = Clients
    /\ \A c \in Clients : rs[c] = Nothing \/ GoodScrollRequest(rs[c], n) \/ GoodPitRequest(rs[c], n)

\* No id is used twice, by contexts, tasks or requests.
OpenIds(s, p, ts) == DOMAIN s \cup DOMAIN p \cup ts

IdsOnce(s, p, ts, rs) ==
    /\ DOMAIN s \cap DOMAIN p = {} /\ ts \cap (DOMAIN s \cup DOMAIN p) = {}
    /\ \A c \in Clients : rs[c] # Nothing => rs[c].id \notin OpenIds(s, p, ts)
    /\ \A c, d \in Clients : c # d /\ rs[c] # Nothing /\ rs[d] # Nothing => rs[c].id # rs[d].id

Surroundings ==
    /\ workload \in DOMAIN Workloads /\ db \in Databases
    /\ now \in 0..MaxTime /\ nextId \in 0..Workloads[workload].maxId

ContextsInv ==
    /\ Surroundings
    /\ ScrollTable(scrolls, trace, nextId)
    /\ PitTable(pits, nextId)
    /\ tasks \subseteq 1..nextId
    /\ GoodRequests(request, nextId)
    /\ IdsOnce(scrolls, pits, tasks, request)

\* It is strong enough.
LEMMA InvImplies == ContextsInv => TypeOK /\ PagesPartitionHits /\ BudgetsHold
<1> SUFFICES ASSUME ContextsInv PROVE TypeOK /\ PagesPartitionHits /\ BudgetsHold
  OBVIOUS
<1>1. \A i \in DOMAIN scrolls : GoodCursor(scrolls[i], trace[i])
  BY DEF ContextsInv, ScrollTable
<1>2. \A i \in DOMAIN pits : GoodPit(pits[i])
  BY DEF ContextsInv, PitTable
<1>3. TypeOK
  <2>1. \A i \in DOMAIN scrolls : scrolls[i] \in Cursors
    BY <1>1 DEF GoodCursor
  <2>2. \A i \in DOMAIN pits :
           /\ DOMAIN pits[i].view.indexes \subseteq IndexNames
           /\ pits[i].bytes \in 0..PitBudget /\ pits[i].keepAlive \in Durations
           /\ pits[i].expires \in Nat
    BY <1>2 DEF GoodPit
  <2>3. \A c \in Clients :
           LET r == request[c]
           IN  \/ r = Nothing
               \/ r \in ScrollRequests
               \/ /\ r.kind = "pit" /\ r.id \in 1..nextId
                  /\ DOMAIN r.view.indexes \subseteq IndexNames /\ r.keepAlive \in Durations
    BY DEF ContextsInv, GoodRequests, GoodScrollRequest, GoodPitRequest, ScrollRequests
  <2>4. DOMAIN request = Clients
    BY DEF ContextsInv, GoodRequests
  <2>5. QED
    BY <2>1, <2>2, <2>3, <2>4 DEF ContextsInv, Surroundings, ScrollTable, PitTable, TypeOK
<1>4. PagesPartitionHits
  <2>1. ASSUME NEW i \in DOMAIN scrolls
        PROVE  /\ trace[i].served \o SubSeq(scrolls[i].hits, scrolls[i].position + 1,
                                            Len(scrolls[i].hits)) = trace[i].captured
               /\ scrolls[i].terminal <=> trace[i].served = trace[i].captured
    BY <1>1, TerminalProps DEF GoodCursor, Remaining
  <2>2. QED
    BY <2>1 DEF PagesPartitionHits
<1>5. BudgetsHold
  BY <1>1 DEF ContextsInv, ScrollTable, PitTable, BudgetsHold, GoodCursor
<1>6. QED
  BY <1>3, <1>4, <1>5

-----------------------------------------------------------------------------
(***************************************************************************)
(* Tables change.                                                          *)
(***************************************************************************)

LEMMA FiniteIds ==
    ASSUME NEW n \in Nat, NEW ids \in SUBSET (1..n)
    PROVE  IsFiniteSet(ids) /\ Cardinality(ids) \in Nat /\ ids \subseteq Nat
<1>1. IsFiniteSet(1..n)
  BY FS_Interval
<1>2. IsFiniteSet(ids)
  BY <1>1, FS_Subset
<1>3. QED
  BY <1>2, FS_CardinalityType

LEMMA ScrollsAccounted ==
    ASSUME NEW s, NEW n \in Nat, DOMAIN s \subseteq 1..n, \A i \in DOMAIN s : s[i] \in Cursors
    PROVE  Accounted(s) /\ Dated(s)
<1>1. IsFiniteSet(DOMAIN s) /\ DOMAIN s \subseteq Nat
  BY FiniteIds
<1>2. \A i \in DOMAIN s : s[i].bytes \in Nat /\ s[i].lastAccessed \in Nat
  BY ContextsAssumption DEF Cursors
<1>3. QED
  BY <1>1, <1>2 DEF Accounted, Dated, Bytes

LEMMA PitsAccounted ==
    ASSUME NEW p, NEW n \in Nat, DOMAIN p \subseteq 1..n, \A i \in DOMAIN p : GoodPit(p[i])
    PROVE  Accounted(p)
<1>1. IsFiniteSet(DOMAIN p)
  BY FiniteIds
<1>2. \A i \in DOMAIN p : p[i].bytes \in Nat
  BY ContextsAssumption DEF GoodPit
<1>3. QED
  BY <1>1, <1>2 DEF Accounted, Bytes

\* A table with some of the contexts, none of them larger.
LEMMA SmallerScrolls ==
    ASSUME NEW s, NEW tr, NEW n \in Nat, ScrollTable(s, tr, n),
           NEW r, NEW u, DOMAIN r \subseteq DOMAIN s, DOMAIN u = DOMAIN r,
           \A i \in DOMAIN r : GoodCursor(r[i], u[i]) /\ r[i].bytes <= s[i].bytes
    PROVE  ScrollTable(r, u, n)
<1>1. DOMAIN s \subseteq 1..n /\ DOMAIN r \subseteq 1..n
  BY DEF ScrollTable
<1>2. Accounted(s) /\ Accounted(r)
  <2>1. (\A i \in DOMAIN s : s[i] \in Cursors) /\ (\A i \in DOMAIN r : r[i] \in Cursors)
    BY DEF ScrollTable, GoodCursor
  <2>2. QED
    BY <1>1, <2>1, ScrollsAccounted
<1>3. TotalBytes(r) <= ScrollBudget
  <2>1. TotalBytes(r) <= TotalBytes(s)
    BY <1>2, TotalMonotone
  <2>2. TotalBytes(r) \in Nat /\ TotalBytes(s) \in Nat
    BY <1>2, TotalType
  <2>3. QED
    BY <2>1, <2>2, ContextsAssumption DEF ScrollTable
<1>4. Cardinality(DOMAIN r) <= MaxScrolls
  <2>1. Cardinality(DOMAIN r) <= Cardinality(DOMAIN s)
    BY <1>2, FS_Subset DEF Accounted
  <2>2. Cardinality(DOMAIN r) \in Nat /\ Cardinality(DOMAIN s) \in Nat
    BY <1>1, FiniteIds
  <2>3. QED
    BY <2>1, <2>2, ContextsAssumption DEF ScrollTable
<1>5. QED
  BY <1>1, <1>3, <1>4 DEF ScrollTable

LEMMA SmallerPits ==
    ASSUME NEW p, NEW n \in Nat, PitTable(p, n), NEW q, DOMAIN q \subseteq DOMAIN p,
           \A i \in DOMAIN q : GoodPit(q[i]) /\ q[i].bytes <= p[i].bytes
    PROVE  PitTable(q, n)
<1>1. DOMAIN p \subseteq 1..n /\ DOMAIN q \subseteq 1..n
  BY DEF PitTable
<1>2. Accounted(p) /\ Accounted(q)
  BY <1>1, PitsAccounted DEF PitTable
<1>3. TotalBytes(q) <= PitBudget
  <2>1. TotalBytes(q) <= TotalBytes(p)
    BY <1>2, TotalMonotone
  <2>2. TotalBytes(q) \in Nat /\ TotalBytes(p) \in Nat
    BY <1>2, TotalType
  <2>3. QED
    BY <2>1, <2>2, ContextsAssumption DEF PitTable
<1>4. Cardinality(DOMAIN q) <= MaxPits
  <2>1. Cardinality(DOMAIN q) <= Cardinality(DOMAIN p)
    BY <1>2, FS_Subset DEF Accounted
  <2>2. Cardinality(DOMAIN q) \in Nat /\ Cardinality(DOMAIN p) \in Nat
    BY <1>1, FiniteIds
  <2>3. QED
    BY <2>1, <2>2, ContextsAssumption DEF PitTable
<1>5. QED
  BY <1>1, <1>3, <1>4 DEF PitTable

\* Some of the contexts, as they are.
LEMMA KeptScrolls ==
    ASSUME NEW s, NEW tr, NEW n \in Nat, ScrollTable(s, tr, n),
           NEW r, DOMAIN r \subseteq DOMAIN s, \A i \in DOMAIN r : r[i] = s[i]
    PROVE  ScrollTable(r, Keep(tr, DOMAIN r), n)
<1>1. DOMAIN tr = DOMAIN s /\ \A i \in DOMAIN s : GoodCursor(s[i], tr[i])
  BY DEF ScrollTable
<1>2. DOMAIN Keep(tr, DOMAIN r) = DOMAIN r /\ \A i \in DOMAIN r : Keep(tr, DOMAIN r)[i] = tr[i]
  BY <1>1 DEF Keep, Restrict
<1>3. \A i \in DOMAIN r : r[i].bytes <= s[i].bytes
  <2>1. \A i \in DOMAIN s : s[i] \in Cursors
    BY <1>1 DEF GoodCursor
  <2>2. \A i \in DOMAIN s : s[i].bytes \in Nat
    BY <2>1, ContextsAssumption DEF Cursors
  <2>3. QED
    BY <2>2
<1>4. QED
  BY <1>1, <1>2, <1>3, SmallerScrolls

LEMMA KeptPits ==
    ASSUME NEW p, NEW n \in Nat, PitTable(p, n),
           NEW q, DOMAIN q \subseteq DOMAIN p, \A i \in DOMAIN q : q[i] = p[i]
    PROVE  PitTable(q, n)
<1>1. \A i \in DOMAIN p : GoodPit(p[i])
  BY DEF PitTable
<1>2. \A i \in DOMAIN q : q[i].bytes <= p[i].bytes
  BY <1>1, ContextsAssumption DEF GoodPit
<1>3. QED
  BY <1>1, <1>2, SmallerPits

\* One more context that fits.
LEMMA OneMoreScroll ==
    ASSUME NEW s, NEW tr, NEW n \in Nat, ScrollTable(s, tr, n),
           NEW k \in 1..n, k \notin DOMAIN s, NEW c, NEW u, DOMAIN u = DOMAIN s \cup {k},
           GoodCursor(c, u[k]), \A i \in DOMAIN s : u[i] = tr[i], ScrollsFit(s, c.bytes)
    PROVE  ScrollTable(Put(s, k, c), u, n)
<1> DEFINE q == Put(s, k, c)
<1>1. DOMAIN q = DOMAIN s \cup {k} /\ q[k] = c /\ \A i \in DOMAIN s : q[i] = s[i]
  BY DEF Put
<1>2. DOMAIN s \subseteq 1..n /\ \A i \in DOMAIN s : GoodCursor(s[i], tr[i])
  BY DEF ScrollTable
<1>3. Accounted(s)
  <2>1. \A i \in DOMAIN s : s[i] \in Cursors
    BY <1>2 DEF GoodCursor
  <2>2. QED
    BY <1>2, <2>1, ScrollsAccounted
<1>4. c.bytes \in Nat
  BY ContextsAssumption DEF GoodCursor, Cursors
<1>5. TotalBytes(q) = TotalBytes(s) + c.bytes
  BY <1>3, <1>4, TotalPut
<1> HIDE DEF q
<1>6. TotalBytes(q) <= ScrollBudget
  BY <1>5 DEF ScrollsFit
<1>7. Cardinality(DOMAIN q) <= MaxScrolls
  <2>1. IsFiniteSet(DOMAIN s) /\ Cardinality(DOMAIN s) \in Nat
    BY <1>2, FiniteIds
  <2>2. Cardinality(DOMAIN q) = Cardinality(DOMAIN s) + 1
    BY <1>1, <2>1, FS_AddElement
  <2>3. QED
    BY <2>1, <2>2, ContextsAssumption DEF ScrollsFit
<1>8. \A i \in DOMAIN q : GoodCursor(q[i], u[i])
  BY <1>1, <1>2
<1>9. ScrollTable(q, u, n)
  BY <1>1, <1>2, <1>6, <1>7, <1>8 DEF ScrollTable
<1>10. QED
  BY <1>9 DEF q

LEMMA OneMorePit ==
    ASSUME NEW p, NEW n \in Nat, PitTable(p, n), NEW k \in 1..n, k \notin DOMAIN p,
           NEW v, GoodPit(v), Cardinality(DOMAIN p) < MaxPits,
           TotalBytes(p) + v.bytes <= PitBudget
    PROVE  PitTable(Put(p, k, v), n)
<1> DEFINE q == Put(p, k, v)
<1>1. DOMAIN q = DOMAIN p \cup {k} /\ q[k] = v /\ \A i \in DOMAIN p : q[i] = p[i]
  BY DEF Put
<1>2. DOMAIN p \subseteq 1..n /\ \A i \in DOMAIN p : GoodPit(p[i])
  BY DEF PitTable
<1>3. Accounted(p) /\ v.bytes \in Nat
  BY <1>2, PitsAccounted, ContextsAssumption DEF GoodPit
<1>4. TotalBytes(q) = TotalBytes(p) + v.bytes
  BY <1>3, TotalPut
<1> HIDE DEF q
<1>5. Cardinality(DOMAIN q) <= MaxPits
  <2>1. IsFiniteSet(DOMAIN p) /\ Cardinality(DOMAIN p) \in Nat
    BY <1>2, FiniteIds
  <2>2. Cardinality(DOMAIN q) = Cardinality(DOMAIN p) + 1
    BY <1>1, <2>1, FS_AddElement
  <2>3. QED
    BY <2>1, <2>2, ContextsAssumption
<1>6. \A i \in DOMAIN q : GoodPit(q[i])
  BY <1>1, <1>2
<1>7. PitTable(q, n)
  BY <1>1, <1>2, <1>4, <1>5, <1>6 DEF PitTable
<1>8. QED
  BY <1>7 DEF q

-----------------------------------------------------------------------------
(***************************************************************************)
(* Every step keeps the invariant.                                         *)
(***************************************************************************)

LEMMA InitInv == Init => ContextsInv
<1> SUFFICES ASSUME Init PROVE ContextsInv
  OBVIOUS
<1>1. Workloads[workload].maxId \in Nat /\ MaxTime \in Nat
  BY ContextsAssumption DEF Init
<1>2. Surroundings
  BY <1>1 DEF Init, Surroundings
<1>3. DOMAIN scrolls = {} /\ DOMAIN trace = {} /\ DOMAIN pits = {}
  BY DEF Init, Empty
<1>4. TotalBytes(scrolls) = 0 /\ TotalBytes(pits) = 0
  BY <1>3, TotalEmpty
<1>5. Cardinality({}) = 0
  BY FS_EmptySet
<1>6. ScrollTable(scrolls, trace, nextId) /\ PitTable(pits, nextId)
  BY <1>3, <1>4, <1>5, ContextsAssumption DEF ScrollTable, PitTable
<1>7. GoodRequests(request, nextId)
  BY DEF Init, GoodRequests
<1>8. IdsOnce(scrolls, pits, tasks, request)
  BY <1>3 DEF Init, IdsOnce
<1>9. QED
  BY <1>2, <1>6, <1>7, <1>8 DEF Init, ContextsInv

\* An id taken from the counter is above every other one.
LEMMA Grown ==
    ASSUME NEW s, NEW tr, NEW p, NEW rs, NEW n \in Nat,
           ScrollTable(s, tr, n), PitTable(p, n), GoodRequests(rs, n)
    PROVE  ScrollTable(s, tr, n + 1) /\ PitTable(p, n + 1) /\ GoodRequests(rs, n + 1)
<1>1. 1..n \subseteq 1..(n + 1)
  OBVIOUS
<1>2. ScrollTable(s, tr, n + 1) /\ PitTable(p, n + 1)
  BY <1>1 DEF ScrollTable, PitTable
<1>3. \A r : GoodScrollRequest(r, n) => GoodScrollRequest(r, n + 1)
  BY <1>1 DEF GoodScrollRequest
<1>4. \A r : GoodPitRequest(r, n) => GoodPitRequest(r, n + 1)
  BY <1>1 DEF GoodPitRequest
<1>5. QED
  BY <1>2, <1>3, <1>4 DEF GoodRequests

\* A client's request replaced, or done.
LEMMA RequestReplaced ==
    ASSUME NEW rs, NEW n \in Nat, GoodRequests(rs, n), NEW c \in Clients, NEW r,
           r = Nothing \/ GoodScrollRequest(r, n) \/ GoodPitRequest(r, n)
    PROVE  GoodRequests([rs EXCEPT ![c] = r], n)
BY DEF GoodRequests

\* The ids of contexts and requests are ids.
LEMMA RequestIds ==
    ASSUME NEW rs, NEW n \in Nat, GoodRequests(rs, n)
    PROVE  \A c \in Clients : rs[c] # Nothing => rs[c].id \in 1..n
BY DEF GoodRequests, GoodScrollRequest, GoodPitRequest

\* Contexts and requests that leave free no id twice.
LEMMA IdsShrink ==
    ASSUME NEW s, NEW p, NEW ts, NEW rs, IdsOnce(s, p, ts, rs),
           NEW t, NEW q, DOMAIN t \subseteq DOMAIN s, DOMAIN q \subseteq DOMAIN p
    PROVE  IdsOnce(t, q, ts, rs)
BY DEF IdsOnce, OpenIds

LEMMA Facts ==
    ContextsInv => /\ nextId \in Nat /\ nextId <= MaxId /\ now \in Nat
                   /\ Workloads[workload].maxId \in Nat /\ Workloads[workload].maxId <= MaxId
                   /\ Workloads[workload].maxTime \in 0..MaxTime
<1>1. ContextsInv => /\ Workloads[workload].maxId \in 0..MaxId
                     /\ Workloads[workload].maxTime \in 0..MaxTime
  BY ContextsAssumption DEF ContextsInv, Surroundings
<1>2. QED
  BY <1>1, ContextsAssumption DEF ContextsInv, Surroundings

\* The scrolls that a step keeps.
LEMMA LiveScrollsProps ==
    /\ DOMAIN LiveScrolls \subseteq DOMAIN scrolls
    /\ \A i \in DOMAIN LiveScrolls : LiveScrolls[i] = scrolls[i] /\ ScrollLive(i)
    /\ \A i \in DOMAIN scrolls : ScrollLive(i) => i \in DOMAIN LiveScrolls
<1> DEFINE L == {i \in DOMAIN scrolls : ScrollLive(i)}
<1>1. DOMAIN LiveScrolls = DOMAIN scrolls \cap L /\ \A i \in DOMAIN scrolls \cap L : LiveScrolls[i] = scrolls[i]
  BY KeepProps DEF LiveScrolls
<1>2. QED
  BY <1>1

LEMMA LivePitsProps ==
    /\ DOMAIN LivePits \subseteq DOMAIN pits
    /\ \A i \in DOMAIN LivePits : LivePits[i] = pits[i] /\ PitLive(i)
    /\ \A i \in DOMAIN pits : PitLive(i) => i \in DOMAIN LivePits
<1> DEFINE L == {i \in DOMAIN pits : PitLive(i)}
<1>1. DOMAIN LivePits = DOMAIN pits \cap L /\ \A i \in DOMAIN pits \cap L : LivePits[i] = pits[i]
  BY KeepProps DEF LivePits
<1>2. QED
  BY <1>1

\* Only points in time change, and none is new.
PitsStep ==
    /\ PitTable(pits', nextId) /\ DOMAIN pits' \subseteq DOMAIN pits
    /\ UNCHANGED <<workload, now, db, nextId, scrolls, tasks, request, trace>>

LEMMA PitsStepInv == ContextsInv /\ PitsStep => ContextsInv'
<1> SUFFICES ASSUME ContextsInv, PitsStep PROVE ContextsInv'
  OBVIOUS
<1>1. IdsOnce(scrolls, pits', tasks, request)
  BY IdsShrink DEF ContextsInv, PitsStep
<1>2. QED
  BY <1>1 DEF ContextsInv, PitsStep, Surroundings, Databases

\* Points in time leave the table.
LEMMA PitsLeave ==
    ASSUME ContextsInv, NEW q, DOMAIN q \subseteq DOMAIN pits, \A i \in DOMAIN q : q[i] = pits[i]
    PROVE  PitTable(q, nextId)
BY KeptPits, Facts DEF ContextsInv

LEMMA ListPitsInv == ContextsInv /\ ListPits => ContextsInv'
<1> SUFFICES ASSUME ContextsInv, ListPits PROVE ContextsInv'
  OBVIOUS
<1>1. PitsStep
  BY LivePitsProps, PitsLeave DEF ListPits, PitsStep
<1>2. QED
  BY <1>1, PitsStepInv

LEMMA DeletePitsInv == ContextsInv /\ DeletePits => ContextsInv'
<1> SUFFICES ASSUME ContextsInv, DeletePits PROVE ContextsInv'
  OBVIOUS
<1>1. PICK ids \in RequestedIds : pits' = Keep(LivePits, Ids \ ids)
  BY DEF DeletePits
<1>2. DOMAIN pits' \subseteq DOMAIN pits /\ \A i \in DOMAIN pits' : pits'[i] = pits[i]
  <2>1. /\ DOMAIN pits' = DOMAIN LivePits \cap (Ids \ ids)
        /\ \A i \in DOMAIN LivePits \cap (Ids \ ids) : pits'[i] = LivePits[i]
    BY <1>1, KeepProps
  <2>2. QED
    BY <2>1, LivePitsProps
<1>3. PitsStep
  BY <1>2, PitsLeave DEF DeletePits, PitsStep
<1>4. QED
  BY <1>3, PitsStepInv

LEMMA DeleteAllPitsInv == ContextsInv /\ DeleteAllPits => ContextsInv'
<1> SUFFICES ASSUME ContextsInv, DeleteAllPits PROVE ContextsInv'
  OBVIOUS
<1>1. DOMAIN pits' \subseteq DOMAIN pits /\ \A i \in DOMAIN pits' : pits'[i] = pits[i]
  BY DEF DeleteAllPits, Empty
<1>2. PitsStep
  BY <1>1, PitsLeave DEF DeleteAllPits, PitsStep
<1>3. QED
  BY <1>2, PitsStepInv

\* pit_database; SearchPit is one use of it, a page of a point in time another.
LEMMA PitDatabaseTable ==
    ASSUME ContextsInv, NEW i, PitDatabase(i)
    PROVE  PitTable(pits', nextId) /\ DOMAIN pits' \subseteq DOMAIN pits
<1>1. CASE pits' = LivePits
  BY <1>1, LivePitsProps, PitsLeave
<1>2. CASE \E keepAlive \in Durations :
               /\ i \in DOMAIN LivePits
               /\ pits' = [LivePits EXCEPT ![i].keepAlive = keepAlive,
                                           ![i].expires = now + keepAlive]
  <2>1. PICK keepAlive \in Durations :
               /\ i \in DOMAIN LivePits
               /\ pits' = [LivePits EXCEPT ![i].keepAlive = keepAlive,
                                           ![i].expires = now + keepAlive]
    BY <1>2
  <2>2. DOMAIN LivePits \subseteq DOMAIN pits /\ \A j \in DOMAIN LivePits : LivePits[j] = pits[j]
    BY LivePitsProps
  <2>3. now + keepAlive \in Nat
    BY Facts, ContextsAssumption DEF Durations
  <2>4. \A j \in DOMAIN pits : GoodPit(pits[j])
    BY DEF ContextsInv, PitTable
  <2>5. DOMAIN pits' = DOMAIN LivePits /\ \A j \in DOMAIN LivePits : j # i => pits'[j] = pits[j]
    BY <2>1, <2>2
  <2>6. /\ pits'[i] = [view |-> pits[i].view, bytes |-> pits[i].bytes, keepAlive |-> keepAlive,
                       expires |-> now + keepAlive]
    BY <2>1, <2>2, <2>4 DEF GoodPit
  <2>7. GoodPit(pits'[i]) /\ pits'[i].bytes = pits[i].bytes
    BY <2>1, <2>2, <2>3, <2>4, <2>6 DEF GoodPit
  <2>8. \A j \in DOMAIN pits : pits[j].bytes \in Nat
    BY <2>4, ContextsAssumption DEF GoodPit
  <2>9. \A j \in DOMAIN pits' : GoodPit(pits'[j]) /\ pits'[j].bytes <= pits[j].bytes
    BY <2>2, <2>4, <2>5, <2>7, <2>8
  <2>10. QED
    BY <2>2, <2>5, <2>9, SmallerPits, Facts DEF ContextsInv
<1>3. QED
  BY <1>1, <1>2 DEF PitDatabase

LEMMA SearchPitInv == \A i \in Ids : ContextsInv /\ SearchPit(i) => ContextsInv'
<1> SUFFICES ASSUME NEW i \in Ids, ContextsInv, SearchPit(i) PROVE ContextsInv'
  OBVIOUS
<1>1. PitsStep
  BY PitDatabaseTable DEF SearchPit, PitsStep
<1>2. QED
  BY <1>1, PitsStepInv

LEMMA RecordTaskInv == ContextsInv /\ RecordTask => ContextsInv'
<1> SUFFICES ASSUME ContextsInv, RecordTask PROVE ContextsInv'
  OBVIOUS
<1>1. nextId' = nextId + 1 /\ nextId' \in 0..Workloads[workload].maxId /\ nextId \in Nat
  BY Facts DEF RecordTask, NewId
<1>2. /\ ScrollTable(scrolls, trace, nextId + 1) /\ PitTable(pits, nextId + 1)
      /\ GoodRequests(request, nextId + 1)
  BY <1>1, Grown DEF ContextsInv
<1>3. tasks' \subseteq 1..nextId'
  BY <1>1 DEF RecordTask, ContextsInv
<1>4. nextId + 1 \notin 1..nextId
  BY <1>1
<1>5. IdsOnce(scrolls, pits, tasks', request)
  <2>1. tasks' = tasks \cup {nextId + 1}
    BY <1>1 DEF RecordTask
  <2>2. \A c \in Clients : request[c] # Nothing => request[c].id # nextId + 1
    BY <1>1, <1>4, RequestIds DEF ContextsInv
  <2>3. nextId + 1 \notin DOMAIN scrolls /\ nextId + 1 \notin DOMAIN pits
    BY <1>4 DEF ContextsInv, ScrollTable, PitTable
  <2>4. QED
    BY <2>1, <2>2, <2>3 DEF ContextsInv, IdsOnce, OpenIds
<1>6. QED
  BY <1>1, <1>2, <1>3, <1>5 DEF RecordTask, ContextsInv, Surroundings, Databases

LEMMA WriteStoreInv == ContextsInv /\ WriteStore => ContextsInv'
BY DEF ContextsInv, WriteStore, Surroundings, Databases

LEMMA TickInv == ContextsInv /\ Tick => ContextsInv'
<1> SUFFICES ASSUME ContextsInv, Tick PROVE ContextsInv'
  OBVIOUS
<1>1. now' \in 0..MaxTime
  BY Facts, ContextsAssumption DEF Tick
<1>2. QED
  BY <1>1 DEF ContextsInv, Tick, Surroundings, Databases

\* Only scrolls and their histories change, and none is new.
ScrollsStep ==
    /\ ScrollTable(scrolls', trace', nextId) /\ DOMAIN scrolls' \subseteq DOMAIN scrolls
    /\ UNCHANGED <<workload, now, db, nextId, pits, tasks, request>>

LEMMA ScrollsStepInv == ContextsInv /\ ScrollsStep => ContextsInv'
<1> SUFFICES ASSUME ContextsInv, ScrollsStep PROVE ContextsInv'
  OBVIOUS
<1>1. IdsOnce(scrolls', pits, tasks, request)
  BY IdsShrink DEF ContextsInv, ScrollsStep
<1>2. QED
  BY <1>1 DEF ContextsInv, ScrollsStep, Surroundings, Databases

\* Scrolls leave the table, and their histories with them.
LEMMA ScrollsLeave ==
    ASSUME ContextsInv, NEW q, DOMAIN q \subseteq DOMAIN scrolls,
           \A i \in DOMAIN q : q[i] = scrolls[i]
    PROVE  ScrollTable(q, Keep(trace, DOMAIN q), nextId)
BY KeptScrolls, Facts DEF ContextsInv

\* Some of the live scrolls.
LEMMA KeptLive ==
    ASSUME NEW ks
    PROVE  /\ DOMAIN Keep(LiveScrolls, ks) = DOMAIN LiveScrolls \cap ks
           /\ DOMAIN Keep(LiveScrolls, ks) \subseteq DOMAIN scrolls
           /\ \A i \in DOMAIN Keep(LiveScrolls, ks) : Keep(LiveScrolls, ks)[i] = scrolls[i]
<1>1. /\ DOMAIN Keep(LiveScrolls, ks) = DOMAIN LiveScrolls \cap ks
      /\ \A i \in DOMAIN LiveScrolls \cap ks : Keep(LiveScrolls, ks)[i] = LiveScrolls[i]
  BY KeepProps
<1>2. QED
  BY <1>1, LiveScrollsProps

LEMMA ClearScrollsInv == ContextsInv /\ ClearScrolls => ContextsInv'
<1> SUFFICES ASSUME ContextsInv, ClearScrolls PROVE ContextsInv'
  OBVIOUS
<1>1. PICK ids \in RequestedIds : scrolls' = Keep(LiveScrolls, Ids \ ids)
  BY DEF ClearScrolls, Cleared
<1>2. DOMAIN scrolls' \subseteq DOMAIN scrolls /\ \A i \in DOMAIN scrolls' : scrolls'[i] = scrolls[i]
  BY <1>1, KeptLive
<1>3. ScrollsStep
  BY <1>2, ScrollsLeave DEF ClearScrolls, ScrollsStep
<1>4. QED
  BY <1>3, ScrollsStepInv

LEMMA NextScrollInv == \A i \in Ids : ContextsInv /\ NextScroll(i) => ContextsInv'
<1> SUFFICES ASSUME NEW i \in Ids, ContextsInv, NextScroll(i) PROVE ContextsInv'
  OBVIOUS
<1>1. CASE i \in DOMAIN LiveScrolls /\ ~scrolls[i].terminal
  <2> DEFINE c == scrolls[i]
             page == Page(c.hits, c.position, c.batch)
             told == [trace EXCEPT ![i].served = @ \o page]
  <2>1. /\ scrolls' = [LiveScrolls EXCEPT ![i] = Advanced(c)]
        /\ trace' = Keep(told, DOMAIN scrolls')
    BY <1>1 DEF NextScroll
  <2>2. /\ DOMAIN LiveScrolls \subseteq DOMAIN scrolls /\ DOMAIN trace = DOMAIN scrolls
        /\ \A j \in DOMAIN LiveScrolls : LiveScrolls[j] = scrolls[j]
        /\ \A j \in DOMAIN scrolls : GoodCursor(scrolls[j], trace[j])
    BY LiveScrollsProps DEF ContextsInv, ScrollTable
  <2>3. /\ GoodCursor(Advanced(c), [trace[i] EXCEPT !.served = @ \o page])
        /\ Advanced(c).bytes <= c.bytes
    <3>1. now \in 0..MaxTime
      BY DEF ContextsInv, Surroundings
    <3>2. QED
      BY <1>1, <2>2, <3>1, AdvancedGood
  <2>4. /\ DOMAIN scrolls' = DOMAIN LiveScrolls /\ scrolls'[i] = Advanced(c)
        /\ \A j \in DOMAIN LiveScrolls : j # i => scrolls'[j] = scrolls[j]
    <3> HIDE DEF c
    <3>1. QED
      BY <1>1, <2>1, <2>2
  <2> HIDE DEF page
  <2>5. /\ DOMAIN told = DOMAIN trace /\ told[i] = [trace[i] EXCEPT !.served = @ \o page]
        /\ \A j \in DOMAIN trace : j # i => told[j] = trace[j]
    BY <1>1, <2>2
  <2> HIDE DEF told, c
  <2>6. DOMAIN trace' = DOMAIN scrolls' /\ \A j \in DOMAIN scrolls' : trace'[j] = told[j]
    <3>1. /\ DOMAIN trace' = DOMAIN told \cap DOMAIN scrolls'
          /\ \A j \in DOMAIN told \cap DOMAIN scrolls' : trace'[j] = told[j]
      <4> DEFINE kept == Keep(told, DOMAIN scrolls')
      <4>1. /\ DOMAIN kept = DOMAIN told \cap DOMAIN scrolls'
            /\ \A j \in DOMAIN told \cap DOMAIN scrolls' : kept[j] = told[j]
        BY KeepProps
      <4>2. trace' = kept
        BY <2>1
      <4> HIDE DEF kept
      <4>3. QED
        BY <4>1, <4>2
    <3>2. QED
      BY <2>2, <2>4, <2>5, <3>1
  <2>7. \A j \in DOMAIN scrolls : scrolls[j].bytes \in Nat
    <3>1. \A j \in DOMAIN scrolls : scrolls[j] \in Cursors
      BY <2>2 DEF GoodCursor
    <3>2. QED
      BY <3>1, ContextsAssumption DEF Cursors
  <2>8. ASSUME NEW j \in DOMAIN scrolls'
        PROVE  GoodCursor(scrolls'[j], trace'[j]) /\ scrolls'[j].bytes <= scrolls[j].bytes
    <3>1. CASE j = i
      BY <2>3, <2>4, <2>5, <2>6, <3>1 DEF c
    <3>2. CASE j # i
      BY <2>2, <2>4, <2>5, <2>6, <2>7, <3>2
    <3>3. QED
      BY <3>1, <3>2
  <2>9. ScrollTable(scrolls', trace', nextId)
    BY <2>2, <2>4, <2>6, <2>8, SmallerScrolls, Facts DEF ContextsInv
  <2>10. ScrollsStep
    BY <2>2, <2>4, <2>9 DEF ScrollsStep, NextScroll
  <2>11. QED
    BY <2>10, ScrollsStepInv
<1>2. CASE ~(i \in DOMAIN LiveScrolls /\ ~scrolls[i].terminal)
  <2>1. scrolls' = Keep(LiveScrolls, Ids \ {i}) /\ trace' = Keep(trace, DOMAIN scrolls')
    BY <1>2 DEF NextScroll
  <2>2. DOMAIN scrolls' \subseteq DOMAIN scrolls /\ \A j \in DOMAIN scrolls' : scrolls'[j] = scrolls[j]
    BY <2>1, KeptLive
  <2>3. ScrollsStep
    BY <2>1, <2>2, ScrollsLeave DEF NextScroll, ScrollsStep
  <2>4. QED
    BY <2>3, ScrollsStepInv
<1>3. QED
  BY <1>1, <1>2

\* A client that has no request takes the next id for one, or just the id.
TakesId(c, r) ==
    /\ request[c] = Nothing /\ nextId < Workloads[workload].maxId /\ nextId' = nextId + 1
    /\ request' = [request EXCEPT ![c] = r]
    /\ \/ r = Nothing
       \/ r.id = nextId + 1 /\ (GoodScrollRequest(r, nextId + 1) \/ GoodPitRequest(r, nextId + 1))
    /\ UNCHANGED <<workload, now, db, scrolls, pits, tasks, trace>>

LEMMA TakesIdInv == \A c \in Clients : \A r : ContextsInv /\ TakesId(c, r) => ContextsInv'
<1> SUFFICES ASSUME NEW c \in Clients, NEW r, ContextsInv, TakesId(c, r) PROVE ContextsInv'
  OBVIOUS
<1>1. nextId' = nextId + 1 /\ nextId' \in 0..Workloads[workload].maxId /\ nextId \in Nat
  BY Facts DEF TakesId
<1>2. /\ ScrollTable(scrolls, trace, nextId + 1) /\ PitTable(pits, nextId + 1)
      /\ GoodRequests(request, nextId + 1)
  BY <1>1, Grown DEF ContextsInv
<1>3. GoodRequests(request', nextId + 1)
  <2>1. r = Nothing \/ GoodScrollRequest(r, nextId + 1) \/ GoodPitRequest(r, nextId + 1)
    BY DEF TakesId
  <2>2. nextId + 1 \in Nat
    BY <1>1
  <2>3. QED
    BY <1>2, <2>1, <2>2, RequestReplaced DEF TakesId
<1>4. tasks \subseteq 1..(nextId + 1)
  BY <1>1 DEF ContextsInv
<1>5. IdsOnce(scrolls, pits, tasks, request')
  <2>1. nextId + 1 \notin 1..nextId
    BY <1>1
  <2>2. \A d \in Clients : request[d] # Nothing => request[d].id # nextId + 1
    BY <1>1, <2>1, RequestIds DEF ContextsInv
  <2>3. nextId + 1 \notin OpenIds(scrolls, pits, tasks)
    BY <2>1 DEF ContextsInv, ScrollTable, PitTable, OpenIds
  <2>4. DOMAIN request = Clients
    BY DEF ContextsInv, GoodRequests
  <2>5. /\ request'[c] = r /\ (r # Nothing => r.id = nextId + 1)
        /\ \A d \in Clients : d # c => request'[d] = request[d]
    BY <2>4 DEF TakesId
  <2>6. QED
    BY <2>2, <2>3, <2>5 DEF ContextsInv, IdsOnce
<1>6. QED
  BY <1>1, <1>2, <1>3, <1>4, <1>5 DEF TakesId, ContextsInv, Surroundings, Databases

\* What a scroll search leaves to insert.
LEMMA ScrollRequestGood ==
    ASSUME ContextsInv, NEW size \in Sizes, NEW n \in Nat, NEW id \in 1..n
    PROVE  LET r == ScrollRequest(id, CapturedHits(db, size), BatchSize(size))
           IN  r = Nothing \/ (r.id = id /\ GoodScrollRequest(r, n))
<1> DEFINE D == ToSet(DocOrder)
           hits == CapturedHits(db, size)
           batch == BatchSize(size)
           rest == Remaining(hits, PageEnd(hits, 0, batch))
           r == [kind |-> "scroll", id |-> id, hits |-> hits, rest |-> rest, batch |-> batch,
                 lastAccessed |-> now]
<1>1. hits \in Seq(D) /\ Len(hits) <= Len(DocOrder)
  <2>1. workload \in DOMAIN Workloads /\ db \in Workloads[workload].databases
    BY DEF ContextsInv, Surroundings, Databases
  <2>2. QED
    BY <2>1, CapturedType
<1>2. batch \in Nat \ {0}
  BY ContextsAssumption DEF BatchSize, MaxOf
<1>3. now \in 0..MaxTime
  BY DEF ContextsInv, Surroundings
<1>4. ScrollRequest(id, hits, batch) = IF ScrollBytes(rest) > ScrollBudget THEN Nothing ELSE r
  BY DEF ScrollRequest, Remaining
<1> HIDE DEF D, hits, batch
<1>5. rest \in Seq(D) /\ Len(rest) \in Nat
  <2>1. 0 \in 0..Len(hits)
    BY <1>1, LenProperties
  <2>2. PageFacts(D, hits, 0, batch)
    BY <1>1, <1>2, <2>1, PageProps
  <2>3. rest \in Seq(D)
    BY <2>2 DEF PageFacts
  <2> HIDE DEF rest
  <2>4. QED
    BY <2>3, LenProperties
<1>6. ASSUME ~(ScrollBytes(rest) > ScrollBudget) PROVE GoodScrollRequest(r, n)
  <2>1. ScrollBytes(rest) <= ScrollBudget
    BY <1>5, <1>6, ContextsAssumption DEF ScrollBytes
  <2>2. r.rest = Remaining(r.hits, PageEnd(r.hits, 0, r.batch))
    OBVIOUS
  <2> HIDE DEF rest
  <2>3. r \in [kind : {"scroll"}, id : 1..n, hits : Seq(D), rest : Seq(D), batch : Nat \ {0},
               lastAccessed : 0..MaxTime]
    BY <1>1, <1>2, <1>3, <1>5
  <2>4. QED
    BY <1>1, <2>1, <2>2, <2>3 DEF GoodScrollRequest, D
<1>7. r.id = id
  OBVIOUS
<1> HIDE DEF r, rest
<1>8. \/ ScrollRequest(id, hits, batch) = Nothing
      \/ ScrollRequest(id, hits, batch) = r /\ GoodScrollRequest(r, n)
  BY <1>4, <1>6
<1>9. QED
  BY <1>7, <1>8 DEF hits, batch

LEMMA SearchScrollInv == \A c \in Clients : ContextsInv /\ SearchScroll(c) => ContextsInv'
<1> SUFFICES ASSUME NEW c \in Clients, ContextsInv, SearchScroll(c) PROVE ContextsInv'
  OBVIOUS
<1>1. nextId' = nextId + 1
  BY DEF SearchScroll, NewId
<1>2. PICK size \in Sizes :
          request' = [request EXCEPT ![c] =
                          ScrollRequest(nextId', CapturedHits(db, size), BatchSize(size))]
  BY DEF SearchScroll
<1> DEFINE r == ScrollRequest(nextId + 1, CapturedHits(db, size), BatchSize(size))
<1>3. nextId + 1 \in Nat /\ nextId + 1 \in 1..(nextId + 1)
  BY Facts
<1>4. r = Nothing \/ (r.id = nextId + 1 /\ GoodScrollRequest(r, nextId + 1))
  BY <1>3, ScrollRequestGood
<1>5. request' = [request EXCEPT ![c] = r]
  BY <1>1, <1>2
<1> HIDE DEF r
<1>6. TakesId(c, r)
  BY <1>1, <1>4, <1>5 DEF TakesId, SearchScroll
<1>7. QED
  BY <1>6, TakesIdInv

\* estimate_database_bytes of a copy of a stored database is a number.
LEMMA PitBytesType ==
    ASSUME NEW view, DOMAIN view.indexes \subseteq IndexNames,
           \A n \in DOMAIN view.indexes : DOMAIN view.indexes[n] \subseteq DocIds
    PROVE  PitBytes(view) \in Nat
<1> DEFINE D == DOMAIN view.indexes
           g == [n \in D |-> Cardinality(DOMAIN view.indexes[n])]
           R(f) == [s \in SUBSET D |->
                       IF s = {} THEN 0
                       ELSE Cardinality(DOMAIN view.indexes[Some(s)]) + f[s \ {Some(s)}]]
           total == CHOOSE f : f = R(f)
<1>1. IsFiniteSet(D) /\ g \in [D -> Nat]
  <2>1. IsFiniteSet(D)
    BY NamesAssumption, FS_Subset
  <2>2. \A n \in D : Cardinality(DOMAIN view.indexes[n]) \in Nat
    BY NamesAssumption, FS_Subset, FS_CardinalityType
  <2>3. QED
    BY <2>1, <2>2
<1>2. ASSUME NEW f PROVE f = R(f) <=> IsSum(f, g, D)
  <2>1. ASSUME NEW s \in SUBSET D, s # {}
        PROVE  g[Some(s)] = Cardinality(DOMAIN view.indexes[Some(s)])
    BY <2>1 DEF Some
  <2>2. R(f) = [s \in SUBSET D |-> IF s = {} THEN 0 ELSE g[Some(s)] + f[s \ {Some(s)}]]
    BY <2>1
  <2>3. QED
    BY <2>2 DEF IsSum
<1>3. PitBytes(view) = total[D]
  BY DEF PitBytes, MapThenSumSet, MapThenFoldSet, Some
<1>4. PICK f : IsSum(f, g, D)
  <2> HIDE DEF D, g
  <2>1. QED
    BY <1>1, SumExists
<1>5. f = R(f)
  BY <1>2, <1>4
<1>6. total = R(total)
  BY <1>5
<1>7. IsSum(total, g, D)
  BY <1>2, <1>6
<1> HIDE DEF total, g, D
<1>8. total \in [SUBSET D -> Nat]
  BY <1>1, <1>7, SumType
<1>9. QED
  BY <1>3, <1>8

LEMMA SnapshotPitInv == \A c \in Clients : ContextsInv /\ SnapshotPit(c) => ContextsInv'
<1> SUFFICES ASSUME NEW c \in Clients, ContextsInv, SnapshotPit(c) PROVE ContextsInv'
  OBVIOUS
<1>1. nextId' = nextId + 1
  BY DEF SnapshotPit, NewId
<1>2. PICK keepAlive \in Durations, requested \in PitIndices :
        /\ PitBytes(PitSnapshot(requested)) <= PitBudget
        /\ request' = [request EXCEPT ![c] =
               [kind |-> "pit", id |-> nextId', view |-> PitSnapshot(requested),
                keepAlive |-> keepAlive]]
  BY DEF SnapshotPit
<1> DEFINE view == PitSnapshot(requested)
           r == [kind |-> "pit", id |-> nextId + 1, view |-> view, keepAlive |-> keepAlive]
<1>3. nextId + 1 \in Nat /\ nextId + 1 \in 1..(nextId + 1)
  BY Facts
<1>4. /\ DOMAIN view.indexes \subseteq IndexNames
      /\ \A n \in DOMAIN view.indexes : DOMAIN view.indexes[n] \subseteq DocIds
  <2> DEFINE names == ExpandIndices(db, requested)
  <2>1. view.indexes = Keep(db.indexes, names)
    BY DEF PitSnapshot
  <2>2. /\ DOMAIN db.indexes \subseteq IndexNames
        /\ \A n \in DOMAIN db.indexes : DOMAIN db.indexes[n] \subseteq DocIds
    BY DatabasesAssumption DEF ContextsInv, Surroundings, Databases
  <2> HIDE DEF names, view
  <2>3. /\ DOMAIN view.indexes = DOMAIN db.indexes \cap names
        /\ \A n \in DOMAIN db.indexes \cap names : view.indexes[n] = db.indexes[n]
    <3> DEFINE f == db.indexes
    <3>1. view.indexes = Keep(f, names)
      BY <2>1
    <3> HIDE DEF f
    <3>2. /\ DOMAIN view.indexes = DOMAIN f \cap names
          /\ \A n \in DOMAIN f \cap names : view.indexes[n] = f[n]
      BY <3>1 DEF Keep, Restrict
    <3>3. QED
      BY <3>2 DEF f
  <2>4. QED
    BY <2>2, <2>3
<1> HIDE DEF view
<1>5. PitBytes(view) \in 0..PitBudget
  BY <1>2, <1>4, PitBytesType, ContextsAssumption DEF view
<1>6. GoodPitRequest(r, nextId + 1)
  BY <1>3, <1>4, <1>5 DEF GoodPitRequest
<1>7. request' = [request EXCEPT ![c] = r] /\ r.id = nextId + 1
  BY <1>1, <1>2 DEF view
<1> HIDE DEF r
<1>8. TakesId(c, r)
  BY <1>1, <1>6, <1>7 DEF TakesId, SnapshotPit
<1>9. QED
  BY <1>8, TakesIdInv

\* The cursor that create_scroll inserts for a request, and the history of its scroll.
NewCursor(r) ==
    [hits |-> r.rest, position |-> 0, batch |-> r.batch, lastAccessed |-> r.lastAccessed,
     bytes |-> ScrollBytes(r.rest), terminal |-> r.rest = <<>>]

NewTrace(r) == [captured |-> r.hits, served |-> Page(r.hits, 0, r.batch)]

LEMMA NewCursorGood ==
    ASSUME NEW r, NEW n \in Nat, GoodScrollRequest(r, n)
    PROVE  GoodCursor(NewCursor(r), NewTrace(r))
<1> DEFINE D == ToSet(DocOrder)
           end == PageEnd(r.hits, 0, r.batch)
           page == Page(r.hits, 0, r.batch)
<1>1. /\ r.hits \in Seq(D) /\ r.rest \in Seq(D) /\ r.batch \in Nat \ {0}
      /\ r.lastAccessed \in 0..MaxTime /\ Len(r.hits) <= Len(DocOrder)
      /\ r.rest = Remaining(r.hits, end) /\ ScrollBytes(r.rest) <= ScrollBudget
  BY DEF GoodScrollRequest
<1> HIDE DEF D
<1>2. Len(r.hits) \in Nat /\ Len(r.rest) \in Nat /\ Len(DocOrder) \in Nat
  BY <1>1, LenProperties, DocOrderLength
<1>3. /\ end \in 0..Len(r.hits) /\ page \in Seq(D)
      /\ page \o Remaining(r.hits, end) = Remaining(r.hits, 0)
  <2>1. 0 \in 0..Len(r.hits)
    BY <1>2
  <2>2. PageFacts(D, r.hits, 0, r.batch)
    BY <1>1, <1>2, <2>1, PageProps
  <2>3. QED
    BY <2>2 DEF PageFacts
<1> HIDE DEF end, page
<1>4. Len(r.rest) <= Len(r.hits)
  <2>1. Len(Remaining(r.hits, end)) = Len(r.hits) - end
    <3>1. 1 \in Nat \ {0}
      OBVIOUS
    <3>2. PageFacts(D, r.hits, end, 1)
      BY <1>1, <1>2, <1>3, <3>1, PageProps
    <3>3. QED
      BY <3>2 DEF PageFacts
  <2>2. QED
    BY <1>1, <1>2, <1>3, <2>1
<1>5. Remaining(r.hits, 0) = r.hits /\ Remaining(r.rest, 0) = r.rest
  <2>1. \A s \in Seq(D) : SubSeq(s, 1, Len(s)) = s
    BY SubSeqFull
  <2>2. 0 + 1 = 1
    OBVIOUS
  <2>3. QED
    BY <1>1, <2>1, <2>2, Zenon DEF Remaining
<1>6. NewCursor(r) \in Cursors
  <2>1. ScrollBytes(r.rest) \in 0..ScrollBudget
    BY <1>1, <1>2, ContextsAssumption DEF ScrollBytes
  <2>2. 0 \in 0..Len(DocOrder) /\ (r.rest = <<>>) \in BOOLEAN
    BY <1>2
  <2>3. QED
    BY <1>1, <2>1, <2>2 DEF NewCursor, Cursors, D
<1>7. r.rest # <<>> => 0 < Len(r.rest)
  BY <1>1, <1>2, EmptySeq
<1>8. page \o r.rest = r.hits
  BY <1>1, <1>3, <1>5
<1>9. NewTrace(r) \in [captured : Seq(ToSet(DocOrder)), served : Seq(ToSet(DocOrder))]
  BY <1>1, <1>3 DEF NewTrace, D, page
<1>10. /\ NewTrace(r).served \o Remaining(NewCursor(r).hits, NewCursor(r).position)
             = NewTrace(r).captured
  BY <1>5, <1>8 DEF NewTrace, NewCursor, page
<1>11. Len(r.rest) <= Len(DocOrder)
  BY <1>1, <1>2, <1>4
<1>12. IF NewCursor(r).terminal THEN NewCursor(r).hits = <<>> /\ NewCursor(r).position = 0
       ELSE NewCursor(r).position < Len(NewCursor(r).hits)
  BY <1>7 DEF NewCursor
<1>13. NewCursor(r).hits = r.rest /\ NewCursor(r).bytes = ScrollBytes(r.rest)
  BY DEF NewCursor
<1>14. QED
  BY <1>6, <1>9, <1>10, <1>11, <1>12, <1>13, Zenon DEF GoodCursor

\* create_scroll keeps a justified set of the live scrolls and inserts the cursor.
LEMMA InsertScrollFacts ==
    ASSUME ContextsInv, NEW c \in Clients, InsertScroll(c)
    PROVE  /\ GoodScrollRequest(request[c], nextId)
           /\ \E kept \in SUBSET DOMAIN LiveScrolls :
                 /\ Justified(LiveScrolls, ScrollBytes(request[c].rest), DOMAIN LiveScrolls, kept)
                 /\ ScrollsFit(Keep(LiveScrolls, kept), ScrollBytes(request[c].rest))
                 /\ scrolls' = Put(Keep(LiveScrolls, kept), request[c].id, NewCursor(request[c]))
                 /\ trace' = Keep(Put(trace, request[c].id, NewTrace(request[c])), DOMAIN scrolls')
<1> DEFINE r == request[c]
           bytes == ScrollBytes(r.rest)
<1>1. GoodScrollRequest(r, nextId)
  <2>1. r = Nothing \/ GoodScrollRequest(r, nextId) \/ GoodPitRequest(r, nextId)
    BY DEF ContextsInv, GoodRequests
  <2>2. r.kind = "scroll"
    BY DEF InsertScroll
  <2>3. QED
    BY <2>1, <2>2 DEF Nothing, GoodPitRequest
<1>2. Dated(LiveScrolls)
  <2>1. /\ DOMAIN LiveScrolls \subseteq 1..nextId
        /\ \A i \in DOMAIN LiveScrolls : LiveScrolls[i] \in Cursors
    BY LiveScrollsProps DEF ContextsInv, ScrollTable, GoodCursor
  <2>2. QED
    BY <2>1, Facts, ScrollsAccounted
<1>3. PICK kept \in SUBSET DOMAIN LiveScrolls :
          /\ EvictForBudget(LiveScrolls, bytes) = Keep(LiveScrolls, kept)
          /\ Justified(LiveScrolls, bytes, DOMAIN LiveScrolls, kept)
  BY <1>2, EvictionJustified
<1>4. ScrollsFit(Keep(LiveScrolls, kept), bytes)
  <2>1. CASE kept = {}
    <3>1. DOMAIN Keep(LiveScrolls, kept) = {}
      BY <2>1 DEF Keep, Restrict
    <3>2. TotalBytes(Keep(LiveScrolls, kept)) = 0 /\ Cardinality({}) = 0
      BY <3>1, TotalEmpty, FS_EmptySet
    <3>3. bytes \in Nat /\ bytes <= ScrollBudget
      <4>1. r.rest \in Seq(ToSet(DocOrder)) /\ bytes <= ScrollBudget
        BY <1>1 DEF GoodScrollRequest
      <4>2. Len(r.rest) \in Nat
        BY <4>1, LenProperties
      <4>3. QED
        BY <4>1, <4>2 DEF ScrollBytes
    <3> HIDE DEF bytes
    <3>4. QED
      BY <3>1, <3>2, <3>3, ContextsAssumption DEF ScrollsFit
  <2>2. CASE kept # {}
    BY <1>3, <2>2 DEF Justified
  <2>3. QED
    BY <2>1, <2>2
<1>5. scrolls' = Put(Keep(LiveScrolls, kept), r.id, NewCursor(r))
  <2>1. scrolls' = IF ScrollsFit(EvictForBudget(LiveScrolls, bytes), NewCursor(r).bytes)
                   THEN Put(EvictForBudget(LiveScrolls, bytes), r.id, NewCursor(r))
                   ELSE EvictForBudget(LiveScrolls, bytes)
    BY DEF InsertScroll, NewCursor
  <2>2. NewCursor(r).bytes = bytes
    BY DEF NewCursor
  <2> HIDE DEF r, bytes
  <2>3. QED
    BY <1>3, <1>4, <2>1, <2>2
<1>6. trace' = Keep(Put(trace, r.id, NewTrace(r)), DOMAIN scrolls')
  BY DEF InsertScroll, NewTrace
<1>7. QED
  BY <1>1, <1>3, <1>4, <1>5, <1>6

\* A request that is done leaves its id to the context it opened.
LEMMA RequestDone ==
    ASSUME ContextsInv, NEW c \in Clients, request[c] # Nothing,
           request' = [request EXCEPT ![c] = Nothing]
    PROVE  /\ GoodRequests(request', nextId)
           /\ request[c].id \in 1..nextId
           /\ \A t, q : \/ DOMAIN t \subseteq DOMAIN scrolls \cup {request[c].id}
                           /\ DOMAIN q \subseteq DOMAIN pits
                        \/ DOMAIN t \subseteq DOMAIN scrolls
                           /\ DOMAIN q \subseteq DOMAIN pits \cup {request[c].id}
                        => IdsOnce(t, q, tasks, request')
<1>1. GoodRequests(request', nextId)
  BY Facts, RequestReplaced DEF ContextsInv
<1>2. request[c].id \in 1..nextId
  BY Facts, RequestIds DEF ContextsInv
<1>3. /\ request'[c] = Nothing /\ \A d \in Clients : d # c => request'[d] = request[d]
  BY DEF ContextsInv, GoodRequests
<1>4. IdsOnce(scrolls, pits, tasks, request)
  BY DEF ContextsInv
<1>5. QED
  BY <1>1, <1>2, <1>3, <1>4 DEF IdsOnce, OpenIds

LEMMA InsertScrollInv == \A c \in Clients : ContextsInv /\ InsertScroll(c) => ContextsInv'
<1> SUFFICES ASSUME NEW c \in Clients, ContextsInv, InsertScroll(c) PROVE ContextsInv'
  OBVIOUS
<1> DEFINE r == request[c]
<1>1. GoodScrollRequest(r, nextId)
  BY InsertScrollFacts
<1>2. PICK kept \in SUBSET DOMAIN LiveScrolls :
          /\ ScrollsFit(Keep(LiveScrolls, kept), ScrollBytes(r.rest))
          /\ scrolls' = Put(Keep(LiveScrolls, kept), r.id, NewCursor(r))
          /\ trace' = Keep(Put(trace, r.id, NewTrace(r)), DOMAIN scrolls')
  BY InsertScrollFacts
<1> DEFINE s == Keep(LiveScrolls, kept)
           tr == Keep(trace, DOMAIN s)
<1>3. DOMAIN s \subseteq DOMAIN scrolls /\ \A i \in DOMAIN s : s[i] = scrolls[i]
  BY KeptLive
<1>4. ScrollTable(s, tr, nextId)
  BY <1>3, ScrollsLeave
<1>5. r.id \in 1..nextId /\ r # Nothing
  BY <1>1 DEF GoodScrollRequest, Nothing
<1>6. r.id \notin DOMAIN scrolls
  BY <1>5 DEF ContextsInv, IdsOnce, OpenIds
<1>7. DOMAIN scrolls' = DOMAIN s \cup {r.id}
  BY <1>2 DEF Put
<1>8. DOMAIN trace = DOMAIN scrolls
  BY DEF ContextsInv, ScrollTable
<1> HIDE DEF s
<1>9. /\ DOMAIN trace' = DOMAIN s \cup {r.id} /\ trace'[r.id] = NewTrace(r)
      /\ \A i \in DOMAIN s : trace'[i] = tr[i]
  <2> HIDE DEF r
  <2> DEFINE u == Put(trace, r.id, NewTrace(r))
  <2>1. /\ DOMAIN u = DOMAIN trace \cup {r.id} /\ u[r.id] = NewTrace(r)
        /\ \A i \in DOMAIN trace : i # r.id => u[i] = trace[i]
    BY DEF Put
  <2>2. trace' = Keep(u, DOMAIN scrolls')
    BY <1>2 DEF r
  <2> HIDE DEF u
  <2>3. /\ DOMAIN trace' = DOMAIN u \cap DOMAIN scrolls'
        /\ \A i \in DOMAIN u \cap DOMAIN scrolls' : trace'[i] = u[i]
    BY <2>2, KeepProps
  <2>4. \A i \in DOMAIN s : tr[i] = trace[i]
    <3>1. \A i \in DOMAIN trace \cap DOMAIN s : tr[i] = trace[i]
      BY KeepProps
    <3>2. QED
      BY <1>3, <1>8, <3>1
  <2> HIDE DEF tr
  <2>5. QED
    BY <1>3, <1>6, <1>7, <1>8, <2>1, <2>3, <2>4 DEF r
<1>10. ScrollTable(scrolls', trace', nextId)
  <2>1. GoodCursor(NewCursor(r), NewTrace(r))
    BY <1>1, Facts, NewCursorGood
  <2>2. ScrollsFit(s, NewCursor(r).bytes) /\ scrolls' = Put(s, r.id, NewCursor(r))
    BY <1>2 DEF s, NewCursor
  <2>3. r.id \notin DOMAIN s
    BY <1>3, <1>6
  <2> HIDE DEF r, tr
  <2>4. QED
    BY <1>4, <1>5, <1>9, <2>1, <2>2, <2>3, Facts, OneMoreScroll
<1>11. request' = [request EXCEPT ![c] = Nothing]
  BY DEF InsertScroll
<1>12. GoodRequests(request', nextId) /\ IdsOnce(scrolls', pits, tasks, request')
  BY <1>3, <1>5, <1>7, <1>11, RequestDone
<1>13. QED
  BY <1>10, <1>12 DEF InsertScroll, ContextsInv, Surroundings, Databases

LEMMA InsertPitInv == \A c \in Clients : ContextsInv /\ InsertPit(c) => ContextsInv'
<1> SUFFICES ASSUME NEW c \in Clients, ContextsInv, InsertPit(c) PROVE ContextsInv'
  OBVIOUS
<1> DEFINE r == request[c]
           p == [view |-> r.view, bytes |-> PitBytes(r.view), keepAlive |-> r.keepAlive,
                 expires |-> now + r.keepAlive]
<1>1. GoodPitRequest(r, nextId) /\ r # Nothing
  <2>1. r = Nothing \/ GoodScrollRequest(r, nextId) \/ GoodPitRequest(r, nextId)
    BY DEF ContextsInv, GoodRequests
  <2>2. r.kind = "pit"
    BY DEF InsertPit
  <2>3. QED
    BY <2>1, <2>2 DEF Nothing, GoodScrollRequest
<1>2. /\ DOMAIN LivePits \subseteq DOMAIN pits /\ PitTable(LivePits, nextId)
  BY LivePitsProps, PitsLeave
<1>3. GoodPit(p)
  <2>1. now + r.keepAlive \in Nat
    <3>1. r.keepAlive \in KeepAlives
      BY <1>1 DEF GoodPitRequest, Durations
    <3>2. r.keepAlive \in Nat
      BY <3>1, ContextsAssumption
    <3>3. QED
      BY <3>2, Facts
  <2>2. QED
    BY <1>1, <2>1 DEF GoodPitRequest, GoodPit
<1>4. r.id \notin DOMAIN pits /\ r.id \in 1..nextId
  BY <1>1 DEF GoodPitRequest, ContextsInv, IdsOnce, OpenIds
<1>5. \/ pits' = LivePits
      \/ /\ pits' = Put(LivePits, r.id, p) /\ Cardinality(DOMAIN LivePits) < MaxPits
         /\ TotalBytes(LivePits) + p.bytes <= PitBudget
  BY DEF InsertPit, AdmitPit
<1> HIDE DEF p
<1>6. PitTable(pits', nextId) /\ DOMAIN pits' \subseteq DOMAIN pits \cup {r.id}
  <2>1. CASE pits' = LivePits
    BY <1>2, <2>1
  <2>2. CASE /\ pits' = Put(LivePits, r.id, p) /\ Cardinality(DOMAIN LivePits) < MaxPits
             /\ TotalBytes(LivePits) + p.bytes <= PitBudget
    <3>1. r.id \notin DOMAIN LivePits
      BY <1>2, <1>4
    <3> HIDE DEF r
    <3>2. PitTable(pits', nextId)
      BY <1>2, <1>3, <1>4, <2>2, <3>1, Facts, OneMorePit
    <3>3. DOMAIN pits' = DOMAIN LivePits \cup {r.id}
      BY <2>2 DEF Put
    <3>4. QED
      BY <1>2, <3>2, <3>3
  <2>3. QED
    BY <1>5, <2>1, <2>2
<1>7. request' = [request EXCEPT ![c] = Nothing]
  BY DEF InsertPit
<1>8. GoodRequests(request', nextId) /\ IdsOnce(scrolls, pits', tasks, request')
  BY <1>1, <1>6, <1>7, RequestDone
<1>9. QED
  BY <1>6, <1>8 DEF InsertPit, ContextsInv, Surroundings, Databases

LEMMA NextInv == ContextsInv /\ [Next]_vars => ContextsInv'
<1> SUFFICES ASSUME ContextsInv, [Next]_vars PROVE ContextsInv'
  OBVIOUS
<1>1. ASSUME NEW c \in Clients,
             SearchScroll(c) \/ InsertScroll(c) \/ SnapshotPit(c) \/ InsertPit(c)
      PROVE  ContextsInv'
  BY <1>1, SearchScrollInv, InsertScrollInv, SnapshotPitInv, InsertPitInv
<1>2. ASSUME NEW i \in Ids, NextScroll(i) \/ SearchPit(i) PROVE ContextsInv'
  BY <1>2, NextScrollInv, SearchPitInv
<1>3. CASE UNCHANGED vars
  BY <1>3 DEF vars, ContextsInv, Surroundings, Databases
<1>4. QED
  BY <1>1, <1>2, <1>3, ClearScrollsInv, ListPitsInv, DeletePitsInv, DeleteAllPitsInv,
     RecordTaskInv, WriteStoreInv, TickInv DEF Next

\* Every state of the contexts satisfies the inductive invariant.
THEOREM ContextsInvariant == Spec => []ContextsInv
<1>1. QED
  BY InitInv, NextInv, PTL DEF Spec

-----------------------------------------------------------------------------
(***************************************************************************)
(* What a step may never do.                                               *)
(***************************************************************************)

\* The actions of AdmissionJustified and ExpiredNotRevived.
Admitted(c) ==
    /\ request[c].kind = "scroll" /\ request'[c] = Nothing =>
        LET evicted == DOMAIN LiveScrolls \ DOMAIN scrolls'
            kept == DOMAIN LiveScrolls \cap DOMAIN scrolls'
            bytes == ScrollBytes(request[c].rest)
        IN  /\ request[c].id \in DOMAIN scrolls'
            /\ \A i \in evicted, j \in kept :
                  scrolls[i].lastAccessed <= scrolls[j].lastAccessed
            /\ evicted # {} =>
                  \E i \in evicted : ~ScrollsFit(Keep(scrolls, kept \cup {i}), bytes)
    /\ request[c].kind = "pit" /\ request'[c] = Nothing =>
        \A i \in DOMAIN pits \ DOMAIN pits' : ~PitLive(i)

\* Some of the live scrolls are the same, whichever table they are taken from.
LEMMA KeepLiveOnly ==
    ASSUME NEW ks \in SUBSET DOMAIN LiveScrolls
    PROVE  Keep(LiveScrolls, ks) = Keep(scrolls, ks)
<1>1. DOMAIN LiveScrolls \cap ks = ks /\ DOMAIN scrolls \cap ks = ks
  BY LiveScrollsProps
<1>2. \A i \in ks : LiveScrolls[i] = scrolls[i]
  BY LiveScrollsProps
<1>3. QED
  BY <1>1, <1>2 DEF Keep, Restrict

LEMMA InsertScrollAdmits ==
    ASSUME ContextsInv, NEW c \in Clients, InsertScroll(c)
    PROVE  Admitted(c)
<1> DEFINE r == request[c]
           bytes == ScrollBytes(r.rest)
           L == DOMAIN LiveScrolls
<1>1. r.kind = "scroll"
  BY DEF InsertScroll
<1>2. PICK K \in SUBSET L :
          /\ Justified(LiveScrolls, bytes, L, K)
          /\ scrolls' = Put(Keep(LiveScrolls, K), r.id, NewCursor(r))
  BY InsertScrollFacts
<1>3. DOMAIN Keep(LiveScrolls, K) = K
  <2>1. DOMAIN LiveScrolls \cap K = K
    OBVIOUS
  <2>2. QED
    BY <2>1 DEF Keep, Restrict
<1>4. DOMAIN scrolls' = K \cup {r.id}
  BY <1>2, <1>3 DEF Put
<1>5. r.id \notin L
  <2>1. r # Nothing
    BY <1>1 DEF Nothing
  <2>2. r.id \notin DOMAIN scrolls
    BY <2>1 DEF ContextsInv, IdsOnce, OpenIds
  <2>3. QED
    BY <2>2, LiveScrollsProps
<1>6. L \cap DOMAIN scrolls' = K /\ L \ DOMAIN scrolls' = L \ K
  BY <1>4, <1>5
<1>7. \A i \in L \ K, j \in K : scrolls[i].lastAccessed <= scrolls[j].lastAccessed
  <2>1. \A i \in L : LiveScrolls[i] = scrolls[i]
    BY LiveScrollsProps
  <2>2. QED
    BY <1>2, <2>1 DEF Justified
<1>8. ASSUME L \ K # {} PROVE \E i \in L \ K : ~ScrollsFit(Keep(scrolls, K \cup {i}), bytes)
  <2>1. L # K
    BY <1>8
  <2>2. PICK i \in L \ K : ~ScrollsFit(Keep(LiveScrolls, K \cup {i}), bytes)
    BY <1>2, <2>1 DEF Justified
  <2>3. Keep(LiveScrolls, K \cup {i}) = Keep(scrolls, K \cup {i})
    BY KeepLiveOnly
  <2>4. QED
    BY <2>2, <2>3
<1> HIDE DEF L, bytes
<1>9. QED
  BY <1>1, <1>4, <1>6, <1>7, <1>8 DEF Admitted, L, bytes

\* Only its own insertion ends a request; see Admitted.
LEMMA StepAdmits == ContextsInv /\ [Next]_vars => \A c \in Clients : Admitted(c)
<1> SUFFICES ASSUME ContextsInv, [Next]_vars, NEW c \in Clients,
                    request[c].kind \in {"scroll", "pit"}, request'[c] = Nothing
             PROVE  Admitted(c)
  BY DEF Admitted
<1>1. request[c] # Nothing /\ DOMAIN request = Clients
  BY DEF Nothing, ContextsInv, GoodRequests
<1>2. request' # request
  BY <1>1
<1>3. PICK d \in Clients : SearchScroll(d) \/ InsertScroll(d) \/ SnapshotPit(d) \/ InsertPit(d)
  BY <1>2 DEF Next, vars, NextScroll, SearchPit, ClearScrolls, ListPits, DeletePits, DeleteAllPits,
              RecordTask, WriteStore, Tick
<1>4. ASSUME SearchScroll(d) \/ SnapshotPit(d) PROVE FALSE
  <2>1. request[d] = Nothing /\ \E r : request' = [request EXCEPT ![d] = r]
    BY <1>4 DEF SearchScroll, SnapshotPit
  <2>2. d # c
    BY <1>1, <2>1
  <2>3. QED
    BY <1>1, <2>1, <2>2
<1>5. d = c
  <2>1. request' = [request EXCEPT ![d] = Nothing]
    BY <1>3, <1>4 DEF InsertScroll, InsertPit
  <2>2. QED
    BY <1>1, <2>1
<1>6. CASE InsertScroll(c)
  BY <1>6, InsertScrollAdmits
<1>7. CASE InsertPit(c)
  <2>1. request[c].kind = "pit" /\ DOMAIN LivePits \subseteq DOMAIN pits'
    BY <1>7 DEF InsertPit, AdmitPit, Put
  <2>2. \A i \in DOMAIN pits \ DOMAIN pits' : ~PitLive(i)
    BY <2>1, LivePitsProps
  <2>3. QED
    BY <2>1, <2>2 DEF Admitted
<1>8. QED
  BY <1>3, <1>4, <1>5, <1>6, <1>7

\* An expired context is unchanged or gone.
DeadScrolls ==
    \A i \in DOMAIN scrolls : ~ScrollLive(i) =>
        (i \in DOMAIN scrolls' => scrolls'[i] = scrolls[i] /\ trace'[i] = trace[i])

DeadPits ==
    \A i \in DOMAIN pits : ~PitLive(i) => (i \in DOMAIN pits' => pits'[i] = pits[i])

LEMMA StepKeepsDead == ContextsInv /\ [Next]_vars => DeadScrolls /\ DeadPits
<1> SUFFICES ASSUME ContextsInv, [Next]_vars PROVE DeadScrolls /\ DeadPits
  OBVIOUS
<1>1. DeadScrolls
  <2>1. CASE UNCHANGED <<scrolls, trace>>
    BY <2>1 DEF DeadScrolls
  <2>2. ASSUME DOMAIN scrolls' \cap DOMAIN scrolls \subseteq DOMAIN LiveScrolls PROVE DeadScrolls
    BY <2>2, LiveScrollsProps DEF DeadScrolls
  <2>3. ASSUME NEW c \in Clients, InsertScroll(c) PROVE DeadScrolls
    <3>1. PICK kept \in SUBSET DOMAIN LiveScrolls :
              scrolls' = Put(Keep(LiveScrolls, kept), request[c].id, NewCursor(request[c]))
      BY <2>3, InsertScrollFacts
    <3>2. DOMAIN scrolls' \subseteq kept \cup {request[c].id}
      BY <3>1 DEF Put, Keep, Restrict
    <3>3. request[c].id \notin DOMAIN scrolls
      BY <2>3 DEF InsertScroll, Nothing, ContextsInv, IdsOnce, OpenIds
    <3>4. QED
      BY <2>2, <3>2, <3>3
  <2>4. ASSUME NEW i \in Ids, NextScroll(i) PROVE DeadScrolls
    <3>1. DOMAIN scrolls' \subseteq DOMAIN LiveScrolls
      BY <2>4 DEF NextScroll, Keep, Restrict
    <3>2. QED
      BY <2>2, <3>1
  <2>5. ASSUME ClearScrolls PROVE DeadScrolls
    <3>1. DOMAIN scrolls' \subseteq DOMAIN LiveScrolls
      BY <2>5 DEF ClearScrolls, Cleared, Keep, Restrict
    <3>2. QED
      BY <2>2, <3>1
  <2>6. QED
    BY <2>1, <2>3, <2>4, <2>5 DEF Next, vars, SearchScroll, SnapshotPit, InsertPit, SearchPit,
       ListPits, DeletePits, DeleteAllPits, RecordTask, WriteStore, Tick
<1>2. DeadPits
  <2>1. CASE UNCHANGED pits
    BY <2>1 DEF DeadPits
  <2>2. ASSUME DOMAIN pits' \cap DOMAIN pits \subseteq DOMAIN LivePits PROVE DeadPits
    BY <2>2, LivePitsProps DEF DeadPits
  <2>3. ASSUME NEW c \in Clients, InsertPit(c) PROVE DeadPits
    <3>1. DOMAIN pits' \subseteq DOMAIN LivePits \cup {request[c].id}
      BY <2>3 DEF InsertPit, AdmitPit, Put
    <3>2. request[c].id \notin DOMAIN pits
      BY <2>3 DEF InsertPit, Nothing, ContextsInv, IdsOnce, OpenIds
    <3>3. QED
      BY <2>2, <3>1, <3>2
  <2>4. ASSUME NEW i \in Ids, SearchPit(i) PROVE DeadPits
    <3>1. DOMAIN pits' = DOMAIN LivePits
      BY <2>4 DEF SearchPit, PitDatabase
    <3>2. QED
      BY <2>2, <3>1
  <2>5. ASSUME ListPits \/ DeletePits \/ DeleteAllPits PROVE DeadPits
    <3>1. DOMAIN pits' \subseteq DOMAIN LivePits
      BY <2>5 DEF ListPits, DeletePits, DeleteAllPits, Keep, Restrict, Empty
    <3>2. QED
      BY <2>2, <3>1
  <2>6. QED
    BY <2>1, <2>3, <2>4, <2>5 DEF Next, vars, SearchScroll, SnapshotPit, InsertScroll, NextScroll,
       ClearScrolls, RecordTask, WriteStore, Tick
<1>3. QED
  BY <1>1, <1>2

\* A step takes a new id for a context or a request, or none.
TakesNew(n) ==
    \A kind \in IdKinds :
        Open(kind)' \cup Held(kind)' \subseteq Open(kind) \cup Held(kind) \cup {n}

\* A request that leaves holds its id no longer, and the others keep theirs.
LEMMA HeldAfter ==
    ASSUME DOMAIN request = Clients, NEW c \in Clients, NEW r,
           request' = [request EXCEPT ![c] = r], NEW kind \in IdKinds
    PROVE  Held(kind)' \subseteq Held(kind) \cup {x \in {r.id} : r.kind = kind}
<1>1. \A d \in Clients : request'[d] = IF d = c THEN r ELSE request[d]
  OBVIOUS
<1>2. QED
  BY <1>1 DEF Held

LEMMA StepTakesNew == ContextsInv /\ [Next]_vars => TakesNew(nextId + 1)
<1> SUFFICES ASSUME ContextsInv, [Next]_vars, NEW kind \in IdKinds
             PROVE  Open(kind)' \cup Held(kind)' \subseteq Open(kind) \cup Held(kind) \cup {nextId + 1}
  BY DEF TakesNew
<1>1. DOMAIN request = Clients
  BY DEF ContextsInv, GoodRequests
<1>2. ASSUME DOMAIN scrolls' \subseteq DOMAIN scrolls, DOMAIN pits' \subseteq DOMAIN pits,
             tasks' \subseteq tasks \cup {nextId + 1}, UNCHANGED request
      PROVE  Open(kind)' \cup Held(kind)' \subseteq Open(kind) \cup Held(kind) \cup {nextId + 1}
  BY <1>2 DEF Open, Held, IdKinds
<1>3. ASSUME NEW c \in Clients, NEW r, request' = [request EXCEPT ![c] = r],
             r = Nothing \/ r.id = nextId + 1, UNCHANGED <<scrolls, pits, tasks>>
      PROVE  Open(kind)' \cup Held(kind)' \subseteq Open(kind) \cup Held(kind) \cup {nextId + 1}
  <2>1. Held(kind)' \subseteq Held(kind) \cup {x \in {r.id} : r.kind = kind}
    BY <1>1, <1>3, HeldAfter
  <2>2. Open(kind)' = Open(kind)
    BY <1>3 DEF Open, IdKinds
  <2>3. r = Nothing => r.kind # kind
    BY DEF Nothing, IdKinds
  <2>4. QED
    BY <1>3, <2>1, <2>2, <2>3
<1>4. ASSUME NEW c \in Clients, InsertScroll(c)
      PROVE  Open(kind)' \cup Held(kind)' \subseteq Open(kind) \cup Held(kind) \cup {nextId + 1}
  <2>1. PICK kept \in SUBSET DOMAIN LiveScrolls :
            scrolls' = Put(Keep(LiveScrolls, kept), request[c].id, NewCursor(request[c]))
    BY <1>4, InsertScrollFacts
  <2>2. DOMAIN scrolls' \subseteq DOMAIN scrolls \cup {request[c].id}
    <3>1. DOMAIN scrolls' \subseteq kept \cup {request[c].id}
      BY <2>1 DEF Put, Keep, Restrict
    <3>2. QED
      BY <3>1, LiveScrollsProps
  <2>3. request[c].kind = "scroll" /\ request[c].id \in Held("scroll")
    BY <1>4 DEF InsertScroll, Held
  <2>4. Held(kind)' \subseteq Held(kind)
    <3>1. Held(kind)' \subseteq Held(kind) \cup {x \in {Nothing.id} : Nothing.kind = kind}
      BY <1>1, <1>4, HeldAfter DEF InsertScroll
    <3>2. Nothing.kind # kind
      BY DEF Nothing, IdKinds
    <3>3. QED
      BY <3>1, <3>2
  <2>5. Open(kind)' \subseteq Open(kind) \cup Held(kind)
    BY <1>4, <2>2, <2>3 DEF InsertScroll, Open, IdKinds
  <2>6. QED
    BY <2>4, <2>5
<1>5. ASSUME NEW c \in Clients, InsertPit(c)
      PROVE  Open(kind)' \cup Held(kind)' \subseteq Open(kind) \cup Held(kind) \cup {nextId + 1}
  <2>1. DOMAIN pits' \subseteq DOMAIN pits \cup {request[c].id}
    <3>1. DOMAIN pits' \subseteq DOMAIN LivePits \cup {request[c].id}
      BY <1>5 DEF InsertPit, AdmitPit, Put
    <3>2. QED
      BY <3>1, LivePitsProps
  <2>2. request[c].kind = "pit" /\ request[c].id \in Held("pit")
    BY <1>5 DEF InsertPit, Held
  <2>3. Held(kind)' \subseteq Held(kind)
    <3>1. Held(kind)' \subseteq Held(kind) \cup {x \in {Nothing.id} : Nothing.kind = kind}
      BY <1>1, <1>5, HeldAfter DEF InsertPit
    <3>2. Nothing.kind # kind
      BY DEF Nothing, IdKinds
    <3>3. QED
      BY <3>1, <3>2
  <2>4. Open(kind)' \subseteq Open(kind) \cup Held(kind)
    BY <1>5, <2>1, <2>2 DEF InsertPit, Open, IdKinds
  <2>5. QED
    BY <2>3, <2>4
<1>6. ASSUME NEW c \in Clients, SearchScroll(c) \/ SnapshotPit(c)
      PROVE  Open(kind)' \cup Held(kind)' \subseteq Open(kind) \cup Held(kind) \cup {nextId + 1}
  <2>1. \E r : request' = [request EXCEPT ![c] = r] /\ (r = Nothing \/ r.id = nextId + 1)
    BY <1>6 DEF SearchScroll, SnapshotPit, ScrollRequest, NewId
  <2>2. UNCHANGED <<scrolls, pits, tasks>>
    BY <1>6 DEF SearchScroll, SnapshotPit
  <2>3. QED
    BY <1>3, <2>1, <2>2
<1>7. ASSUME NEW i \in Ids, NextScroll(i) \/ SearchPit(i)
      PROVE  Open(kind)' \cup Held(kind)' \subseteq Open(kind) \cup Held(kind) \cup {nextId + 1}
  <2>1. CASE NextScroll(i)
    <3>1. DOMAIN scrolls' \subseteq DOMAIN LiveScrolls
      BY <2>1 DEF NextScroll, Keep, Restrict
    <3>2. QED
      BY <1>2, <2>1, <3>1, LiveScrollsProps DEF NextScroll
  <2>2. CASE SearchPit(i)
    <3>1. DOMAIN pits' = DOMAIN LivePits
      BY <2>2 DEF SearchPit, PitDatabase
    <3>2. QED
      BY <1>2, <2>2, <3>1, LivePitsProps DEF SearchPit
  <2>3. QED
    BY <1>7, <2>1, <2>2
<1>8. CASE ClearScrolls
  <2>1. DOMAIN scrolls' \subseteq DOMAIN LiveScrolls
    BY <1>8 DEF ClearScrolls, Cleared, Keep, Restrict
  <2>2. QED
    BY <1>2, <1>8, <2>1, LiveScrollsProps DEF ClearScrolls
<1>9. CASE ListPits \/ DeletePits \/ DeleteAllPits
  <2>1. DOMAIN pits' \subseteq DOMAIN LivePits
    BY <1>9 DEF ListPits, DeletePits, DeleteAllPits, Keep, Restrict, Empty
  <2>2. QED
    BY <1>2, <1>9, <2>1, LivePitsProps DEF ListPits, DeletePits, DeleteAllPits
<1>10. CASE RecordTask \/ WriteStore \/ Tick \/ UNCHANGED vars
  <2>1. tasks' \subseteq tasks \cup {nextId + 1}
    BY <1>10 DEF RecordTask, WriteStore, Tick, vars, NewId
  <2>2. UNCHANGED <<scrolls, pits, request>>
    BY <1>10 DEF RecordTask, WriteStore, Tick, vars
  <2>3. QED
    BY <1>2, <2>1, <2>2
<1>11. QED
  BY <1>4, <1>5, <1>6, <1>7, <1>8, <1>9, <1>10 DEF Next

LEMMA StepReusesNoId == ContextsInv /\ [Next]_vars =>
                            \A kind \in IdKinds : StaysOut(kind) /\ InsertsAlone(kind)
<1> SUFFICES ASSUME ContextsInv, [Next]_vars, NEW kind \in IdKinds
             PROVE  StaysOut(kind) /\ InsertsAlone(kind)
  OBVIOUS
<1>1. StaysOut(kind)
  <2>1. Open(kind)' \cup Held(kind)' \subseteq Open(kind) \cup Held(kind) \cup {nextId + 1}
    BY StepTakesNew DEF TakesNew
  <2>2. nextId + 1 \notin 1..nextId
    BY Facts
  <2>3. QED
    BY <2>1, <2>2 DEF StaysOut
<1>2. InsertsAlone(kind)
  <2> SUFFICES ASSUME NEW c \in Clients, request[c].kind = kind
               PROVE  /\ request[c].id \notin Open(kind)
                      /\ \A d \in Clients \ {c} : request[d].kind = kind => request[d].id # request[c].id
    BY DEF InsertsAlone
  <2>1. \A d \in Clients : request[d].kind = kind => request[d] # Nothing
    BY DEF Nothing, IdKinds
  <2>2. IdsOnce(scrolls, pits, tasks, request)
    BY DEF ContextsInv
  <2>3. Open(kind) \subseteq OpenIds(scrolls, pits, tasks)
    BY DEF Open, OpenIds, IdKinds
  <2>4. QED
    BY <2>1, <2>2, <2>3 DEF IdsOnce
<1>3. QED
  BY <1>1, <1>2

-----------------------------------------------------------------------------
(***************************************************************************)
(* The theorems.                                                           *)
(***************************************************************************)

\* Contexts, tasks and the requests between their two steps keep their types.
THEOREM ContextsTypeCorrect == Spec => []TypeOK
<1>1. QED
  BY ContextsInvariant, InvImplies, PTL

\* However requests, writes, evictions and the clock interleave, what a scroll has
\* answered and what its cursor still holds are the hits that its search captured.
THEOREM ContextsPagesPartition == Spec => []PagesPartitionHits
<1>1. QED
  BY ContextsInvariant, InvImplies, PTL

\* Neither create_scroll nor create_pit ever exceeds a limit, although both decide
\* on bytes that were computed before the lock was taken.
THEOREM ContextsBudgets == Spec => []BudgetsHold
<1>1. QED
  BY ContextsInvariant, InvImplies, PTL

\* create_scroll evicts in least-recently-used order, no more than it must and
\* never in vain; create_pit evicts nothing that lives.
THEOREM ContextsAdmission == Spec => AdmissionJustified
<1>1. ContextsInv /\ [Next]_vars => [\A c \in Clients : Admitted(c)]_vars
  BY StepAdmits
<1>2. Spec => [][\A c \in Clients : Admitted(c)]_vars
  BY <1>1, ContextsInvariant, PTL DEF Spec
<1>3. QED
  BY <1>2 DEF AdmissionJustified, Admitted

\* No operation uses or revives an expired context.
THEOREM ContextsExpired == Spec => ExpiredNotRevived
<1>1. ContextsInv /\ [Next]_vars => [DeadScrolls /\ DeadPits]_vars
  BY StepKeepsDead
<1>2. Spec => [][DeadScrolls /\ DeadPits]_vars
  BY <1>1, ContextsInvariant, PTL DEF Spec
<1>3. QED
  BY <1>2, PTL DEF ExpiredNotRevived, DeadScrolls, DeadPits

\* No id that next_runtime_id handed out comes to stand for another context, and no
\* insertion overwrites one, whoever holds ids in between.
THEOREM ContextsIdsNotReused == Spec => IdsNotReused
<1>1. ContextsInv /\ [Next]_vars => [\A kind \in IdKinds : StaysOut(kind) /\ InsertsAlone(kind)]_vars
  BY StepReusesNoId
<1>2. Spec => [][\A kind \in IdKinds : StaysOut(kind) /\ InsertsAlone(kind)]_vars
  BY <1>1, ContextsInvariant, PTL DEF Spec
<1>3. QED
  BY <1>2 DEF IdsNotReused


(***************************************************************************)
(* The search requests implement the contexts.                             *)
(***************************************************************************)

\* A session that pages the live database, and one that pages a point in time.
LiveSession(s) ==
    /\ s \in [phase : {"validate", "search", "done"}, request : {s.request},
              sent : {s.sent}, unchanged : {s.unchanged}]
    /\ IsRequest(s.request) /\ s.request.pit = FALSE

PitSession(s) ==
    /\ s \in [phase : {"pit", "done"}, request : {s.request}, pit : Ids, view : {s.view},
              sent : {s.sent}, unchanged : {s.unchanged}]
    /\ IsRequest(s.request) /\ s.request.pit = TRUE

GoodSession(s, kinds) == s = Idle \/ LiveSession(s) \/ (PitSession(s) /\ "pit" \in kinds)

\* Points in time come from the requests that open them.
OnlyWherePits ==
    /\ DOMAIN pits # {} => "pit" \in Kinds
    /\ \A c \in Clients : request[c].kind = "pit" => "pit" \in Kinds

SearchInv ==
    /\ ContextsInv
    /\ OnlyWherePits
    /\ DOMAIN session = Pagers
    /\ \A p \in Pagers : GoodSession(session[p], Kinds)

LEMMA SearchInitInv == SearchInit => SearchInv
<1> SUFFICES ASSUME SearchInit PROVE SearchInv
  OBVIOUS
<1>1. ContextsInv
  BY InitInv DEF SearchInit
<1>2. OnlyWherePits
  BY DEF SearchInit, Init, OnlyWherePits, Empty, Nothing
<1>3. QED
  BY <1>1, <1>2 DEF SearchInit, SearchInv, GoodSession

\* Every step is a step of the contexts or leaves them alone.
LEMMA StepIsContextStep == SearchInv /\ [SearchNext]_searchVars => [Next]_vars
<1> SUFFICES ASSUME SearchInv, [SearchNext]_searchVars PROVE [Next]_vars
  OBVIOUS
<1>1. CASE UNCHANGED searchVars
  BY <1>1 DEF searchVars
<1>2. CASE ContextStep
  BY <1>2 DEF ContextStep, Next
<1>3. CASE WriteDuringSearch
  BY <1>3 DEF WriteDuringSearch, Next
<1>4. ASSUME NEW p \in Pagers, SearchPitPage(p) PROVE [Next]_vars
  <2> DEFINE i == session[p].pit
  <2>1. session[p].phase = "pit"
    BY <1>4 DEF SearchPitPage
  <2>2. PitSession(session[p]) /\ "pit" \in Kinds
    BY <2>1 DEF SearchInv, GoodSession, LiveSession, Idle
  <2>3. i \in Ids
    BY <2>2 DEF PitSession
  <2> HIDE DEF i
  <2>4. SearchPit(i)
    BY <1>4, <2>2 DEF SearchPitPage, SearchPit, i
  <2>5. QED
    BY <2>3, <2>4 DEF Next
<1>5. ASSUME NEW p \in Pagers,
             StartPaging(p) \/ ValidatePage(p) \/ SearchPage(p) \/ StartPitPaging(p) \/ FinishPaging(p)
      PROVE  [Next]_vars
  BY <1>5 DEF StartPaging, ValidatePage, SearchPage, StartPitPaging, FinishPaging
<1>6. QED
  BY <1>1, <1>2, <1>3, <1>4, <1>5 DEF SearchNext

\* A session after a step of its client, whatever the step answers.
Moved(s, phase, sent, cursor, unchanged) ==
    [s EXCEPT !.phase = phase, !.sent = sent, !.request.cursor = cursor, !.unchanged = unchanged]

LEMMA MovedGood ==
    ASSUME NEW s, NEW phase, NEW sent, NEW cursor, NEW unchanged
    PROVE  /\ LiveSession(s) /\ phase = "validate" => LiveSession(Moved(s, phase, sent, cursor, unchanged))
           /\ PitSession(s) /\ phase = "pit" => PitSession(Moved(s, phase, sent, cursor, unchanged))
<1> DEFINE m == Moved(s, phase, sent, cursor, unchanged)
           r == [s.request EXCEPT !.cursor = cursor]
<1>1. ASSUME IsRequest(s.request) PROVE IsRequest(r) /\ r.pit = s.request.pit
  BY <1>1 DEF IsRequest
<1> HIDE DEF r
<1>2. ASSUME LiveSession(s), phase = "validate" PROVE LiveSession(m)
  <2>1. m = [phase |-> phase, request |-> r, sent |-> sent, unchanged |-> unchanged]
    <3>1. s = [phase |-> s.phase, request |-> s.request, sent |-> s.sent, unchanged |-> s.unchanged]
      BY <1>2 DEF LiveSession
    <3>2. m = [s EXCEPT !.phase = phase, !.sent = sent, !.request = r, !.unchanged = unchanged]
      BY DEF Moved, r
    <3>3. QED
      BY <3>1, <3>2
  <2>2. QED
    BY <1>1, <1>2, <2>1 DEF LiveSession
<1>3. ASSUME PitSession(s), phase = "pit" PROVE PitSession(m)
  <2>1. m = [phase |-> phase, request |-> r, pit |-> s.pit, view |-> s.view, sent |-> sent,
             unchanged |-> unchanged]
    <3>1. s = [phase |-> s.phase, request |-> s.request, pit |-> s.pit, view |-> s.view,
               sent |-> s.sent, unchanged |-> s.unchanged]
      BY <1>3 DEF PitSession
    <3>2. m = [s EXCEPT !.phase = phase, !.sent = sent, !.request = r, !.unchanged = unchanged]
      BY DEF Moved, r
    <3>3. QED
      BY <3>1, <3>2
  <2>2. QED
    BY <1>1, <1>3, <2>1 DEF PitSession
<1>4. QED
  BY <1>2, <1>3

\* A page leaves a session of its kind, or none.
LEMMA AnsweredGood ==
    ASSUME NEW s, NEW answer, NEW kinds, s # Idle, GoodSession(s, kinds)
    PROVE  GoodSession(Answered(s, answer), kinds)
<1> DEFINE a == Answered(s, answer)
           phase == IF s.request.pit THEN "pit" ELSE "validate"
           sent == IF s.request.pit THEN s.sent \o Keys(answer.hits) ELSE s.sent
           cursor == CursorAfter(s.request, answer.hits)
           unchanged == [k \in DOMAIN s.unchanged |->
                            s.unchanged[k] + Cardinality({i \in DOMAIN answer.hits :
                                                             KeyOfHit(answer.hits[i]) = k})]
<1>1. \/ a = Idle \/ a = [s EXCEPT !.phase = "done"]
      \/ a = Moved(s, phase, sent, cursor, unchanged)
  BY DEF Answered, Moved
<1> HIDE DEF a, sent, cursor, unchanged
<1>2. CASE LiveSession(s)
  <2>1. LiveSession([s EXCEPT !.phase = "done"]) /\ phase = "validate"
    BY <1>2 DEF LiveSession
  <2> HIDE DEF phase
  <2>2. QED
    BY <1>1, <1>2, <2>1, MovedGood DEF GoodSession, a
<1>3. CASE PitSession(s) /\ "pit" \in kinds
  <2>1. PitSession([s EXCEPT !.phase = "done"]) /\ phase = "pit"
    BY <1>3 DEF PitSession
  <2> HIDE DEF phase
  <2>2. QED
    BY <1>1, <1>3, <2>1, MovedGood DEF GoodSession, a
<1>4. QED
  BY <1>2, <1>3 DEF GoodSession

LEMMA StepKeepsKinds ==
    ContextsInv /\ OnlyWherePits /\ [Next]_vars => Kinds' = Kinds /\ OnlyWherePits'
<1> SUFFICES ASSUME ContextsInv, OnlyWherePits, [Next]_vars PROVE Kinds' = Kinds /\ OnlyWherePits'
  OBVIOUS
<1>1. Kinds' = Kinds
  BY DEF Next, vars, Kinds, SearchScroll, InsertScroll, SnapshotPit, InsertPit, NextScroll,
         SearchPit, ClearScrolls, ListPits, DeletePits, DeleteAllPits, RecordTask, WriteStore, Tick
<1>2. CASE "pit" \in Kinds
  BY <1>1, <1>2 DEF OnlyWherePits
<1>3. CASE "pit" \notin Kinds
  <2>1. DOMAIN pits = {} /\ \A c \in Clients : request[c].kind # "pit"
    BY <1>3 DEF OnlyWherePits
  <2>2. \A c \in Clients : ~SnapshotPit(c) /\ ~InsertPit(c)
    BY <1>3, <2>1 DEF SnapshotPit, InsertPit
  <2>3. pits' = pits
    BY <1>3, <2>2 DEF Next, vars, SearchScroll, InsertScroll, NextScroll, SearchPit, ClearScrolls,
          ListPits, DeletePits, DeleteAllPits, RecordTask, WriteStore, Tick
  <2>4. \A c \in Clients : request'[c].kind # "pit"
    <3>1. DOMAIN request = Clients
      BY DEF ContextsInv, GoodRequests
    <3>2. ASSUME NEW c \in Clients, NEW r, request' = [request EXCEPT ![c] = r], r.kind # "pit"
          PROVE  \A d \in Clients : request'[d].kind # "pit"
      BY <2>1, <3>1, <3>2
    <3>3. ASSUME NEW c \in Clients, SearchScroll(c) PROVE \A d \in Clients : request'[d].kind # "pit"
      <4>1. PICK size \in Sizes :
                request' = [request EXCEPT ![c] =
                    ScrollRequest(nextId', CapturedHits(db, size), BatchSize(size))]
        BY <3>3 DEF SearchScroll
      <4>2. ScrollRequest(nextId', CapturedHits(db, size), BatchSize(size)).kind # "pit"
        BY DEF ScrollRequest, Nothing
      <4>3. QED
        BY <3>2, <4>1, <4>2
    <3>4. ASSUME NEW c \in Clients, InsertScroll(c) PROVE \A d \in Clients : request'[d].kind # "pit"
      <4>1. request' = [request EXCEPT ![c] = Nothing]
        BY <3>4 DEF InsertScroll
      <4>2. Nothing.kind # "pit"
        BY DEF Nothing
      <4>3. QED
        BY <3>2, <4>1, <4>2
    <3>5. QED
      BY <2>1, <2>2, <3>3, <3>4 DEF Next, vars, NextScroll, SearchPit, ClearScrolls, ListPits,
         DeletePits, DeleteAllPits, RecordTask, WriteStore, Tick
  <2>5. DOMAIN pits' = {}
    BY <2>1, <2>3
  <2>6. QED
    BY <1>1, <2>4, <2>5 DEF OnlyWherePits
<1>4. QED
  BY <1>2, <1>3

LEMMA SearchNextInv == SearchInv /\ [SearchNext]_searchVars => SearchInv'
<1> SUFFICES ASSUME SearchInv, [SearchNext]_searchVars PROVE SearchInv'
  OBVIOUS
<1>1. ContextsInv' /\ OnlyWherePits' /\ Kinds' = Kinds
  BY StepIsContextStep, NextInv, StepKeepsKinds DEF SearchInv
<1>2. DOMAIN session = Pagers /\ \A p \in Pagers : GoodSession(session[p], Kinds)
  BY DEF SearchInv
<1> DEFINE Good == DOMAIN session' = Pagers /\ \A p \in Pagers : GoodSession(session'[p], Kinds)
<1>3. ASSUME UNCHANGED session PROVE Good
  BY <1>2, <1>3
<1>4. ASSUME NEW p \in Pagers, NEW s, session' = [session EXCEPT ![p] = s], GoodSession(s, Kinds)
      PROVE  Good
  BY <1>2, <1>4
<1>5. GoodSession(Idle, Kinds)
  BY DEF GoodSession
<1>6. ASSUME NEW p \in Pagers, StartPaging(p) PROVE Good
  <2>1. PICK r \in PageRequests : session' = [session EXCEPT ![p] =
            [phase |-> "validate", request |-> r, sent |-> <<>>,
             unchanged |-> [k \in MatchedKeys(db, r) |-> 0]]]
    BY <1>6 DEF StartPaging
  <2>2. IsRequest(r) /\ r.pit = FALSE
    <3>1. IsRequest(r) /\ ~r.pit
      BY PageRequestsAssumption
    <3>2. r.pit \in BOOLEAN
      BY <3>1 DEF IsRequest
    <3>3. QED
      BY <3>1, <3>2
  <2>3. GoodSession([phase |-> "validate", request |-> r, sent |-> <<>>,
                     unchanged |-> [k \in MatchedKeys(db, r) |-> 0]], Kinds)
    BY <2>2 DEF GoodSession, LiveSession
  <2>4. QED
    BY <1>4, <2>1, <2>3
<1>7. ASSUME NEW p \in Pagers, ValidatePage(p) PROVE Good
  <2> DEFINE s == session[p]
  <2>1. s.phase = "validate" /\ GoodSession(s, Kinds)
    BY <1>2, <1>7 DEF ValidatePage
  <2>2. session' = [session EXCEPT ![p] = Idle] \/ session' = [session EXCEPT ![p] = [s EXCEPT !.phase = "search"]]
    BY <1>7 DEF ValidatePage
  <2> HIDE DEF s
  <2>3. GoodSession([s EXCEPT !.phase = "search"], Kinds)
    BY <2>1 DEF GoodSession, LiveSession, PitSession, Idle
  <2>4. QED
    BY <1>4, <1>5, <2>2, <2>3
<1>8. ASSUME NEW p \in Pagers, SearchPage(p) PROVE Good
  <2>1. session[p].phase = "search" /\ GoodSession(session[p], Kinds)
    BY <1>2, <1>8 DEF SearchPage
  <2>2. session' = [session EXCEPT ![p] = Answered(session[p], Search(db, session[p].request))]
    BY <1>8 DEF SearchPage
  <2>3. session[p] # Idle
    BY <2>1 DEF Idle
  <2>4. QED
    BY <1>4, <2>1, <2>2, <2>3, AnsweredGood
<1>9. ASSUME NEW p \in Pagers, StartPitPaging(p) PROVE Good
  <2>1. PICK r \in PageRequests, i \in DOMAIN pits : session' = [session EXCEPT ![p] =
            [phase |-> "pit", request |-> [r EXCEPT !.indices = {}, !.pit = TRUE],
             pit |-> i, view |-> pits[i].view, sent |-> <<>>, unchanged |-> Empty]]
    BY <1>9 DEF StartPitPaging
  <2> DEFINE q == [r EXCEPT !.indices = {}, !.pit = TRUE]
  <2>2. IsRequest(q) /\ q.pit = TRUE
    BY PageRequestsAssumption DEF IsRequest
  <2>3. i \in Ids /\ "pit" \in Kinds
    <3>1. DOMAIN pits \subseteq 1..nextId
      BY DEF SearchInv, ContextsInv, PitTable
    <3>2. nextId \in Nat /\ MaxId \in Nat /\ nextId <= MaxId
      BY Facts, ContextsAssumption DEF SearchInv
    <3>3. QED
      BY <3>1, <3>2 DEF Ids, SearchInv, OnlyWherePits
  <2> HIDE DEF q
  <2>4. GoodSession([phase |-> "pit", request |-> q, pit |-> i, view |-> pits[i].view,
                     sent |-> <<>>, unchanged |-> Empty], Kinds)
    BY <2>2, <2>3 DEF GoodSession, PitSession
  <2>5. QED
    BY <1>4, <2>1, <2>4 DEF q
<1>10. ASSUME NEW p \in Pagers, SearchPitPage(p) PROVE Good
  <2> DEFINE s == session[p]
             answer == Search(pits[s.pit].view, s.request)
  <2>1. s.phase = "pit" /\ GoodSession(s, Kinds)
    BY <1>2, <1>10 DEF SearchPitPage
  <2>2. session' = [session EXCEPT ![p] = Idle] \/ session' = [session EXCEPT ![p] = Answered(s, answer)]
    BY <1>10 DEF SearchPitPage
  <2> HIDE DEF s, answer
  <2>3. s # Idle
    BY <2>1 DEF Idle
  <2>4. GoodSession(Answered(s, answer), Kinds)
    BY <2>1, <2>3, AnsweredGood
  <2>5. QED
    BY <1>4, <1>5, <2>2, <2>4
<1>11. ASSUME NEW p \in Pagers, FinishPaging(p) PROVE Good
  BY <1>4, <1>5, <1>11 DEF FinishPaging
<1>12. ASSUME WriteDuringSearch PROVE Good
  <2>1. ASSUME NEW s, NEW x, GoodSession(s, Kinds), s # Idle
        PROVE  GoodSession([s EXCEPT !.unchanged = x], Kinds)
    BY <2>1 DEF GoodSession, LiveSession, PitSession
  <2>2. ASSUME NEW p \in Pagers PROVE GoodSession(session'[p], Kinds)
    <3> DEFINE x == Keep(session[p].unchanged,
                         SameIn(db, db') \cap MatchedKeys(db', session[p].request))
    <3>1. session'[p] = IF session[p] = Idle THEN Idle ELSE [session[p] EXCEPT !.unchanged = x]
      BY <1>12 DEF WriteDuringSearch
    <3> HIDE DEF x
    <3>2. QED
      BY <1>2, <1>5, <2>1, <3>1
  <2>3. DOMAIN session' = Pagers
    BY <1>12 DEF WriteDuringSearch
  <2>4. QED
    BY <2>2, <2>3
<1>13. Good
  BY <1>3, <1>6, <1>7, <1>8, <1>9, <1>10, <1>11, <1>12 DEF SearchNext, searchVars
<1>14. QED
  BY <1>1, <1>13 DEF SearchInv

\* Whatever the pagers do between the requests of other clients, the contexts keep
\* their invariant, and each pager is between two requests or has validated one
\* (the two read locks of handle_search).
THEOREM SearchInvariant == SearchSpec => []SearchInv
<1>1. QED
  BY SearchInitInv, SearchNextInv, PTL DEF SearchSpec

-----------------------------------------------------------------------------
\* The search requests composed with the contexts implement the contexts: a page
\* of a point in time is the pit_database of some open one, and nothing else that
\* a pager does touches scrolls, points in time, tasks or requests.
THEOREM SearchImplementsContexts == SearchSpec => Spec
<1>1. SearchInit => Init
  BY DEF SearchInit
<1>2. QED
  BY <1>1, SearchInvariant, StepIsContextStep, PTL DEF SearchSpec, Spec

\* So the contexts keep their types while clients page.
THEOREM SearchTypeCorrect == SearchSpec => []TypeOK
<1>1. QED
  BY SearchImplementsContexts, ContextsTypeCorrect, PTL

\* Scrolls answer what they captured.
THEOREM SearchPagesPartition == SearchSpec => []PagesPartitionHits
<1>1. QED
  BY SearchImplementsContexts, ContextsPagesPartition, PTL

\* Both tables stay within their limits.
THEOREM SearchBudgets == SearchSpec => []BudgetsHold
<1>1. QED
  BY SearchImplementsContexts, ContextsBudgets, PTL

\* A context is opened at no more cost to the others than it must have.
THEOREM SearchAdmission == SearchSpec => AdmissionJustified
<1>1. QED
  BY SearchImplementsContexts, ContextsAdmission, PTL

\* No expired context is used or revived, by pagers neither.
THEOREM SearchExpired == SearchSpec => ExpiredNotRevived
<1>1. QED
  BY SearchImplementsContexts, ContextsExpired, PTL

\* No id is used again.
THEOREM SearchIdsNotReused == SearchSpec => IdsNotReused
<1>1. QED
  BY SearchImplementsContexts, ContextsIdsNotReused, PTL

-----------------------------------------------------------------------------
(***************************************************************************)
(* What the pagers are answered.  The inductive invariant says, of every   *)
(* search, what its pages have reached: the hits up to the last one that   *)
(* was answered.  Every view is a part of a database of the workload.      *)
(***************************************************************************)

PartOf(view, d) ==
    /\ DOMAIN view.indexes \subseteq DOMAIN d.indexes
    /\ \A n \in DOMAIN view.indexes : view.indexes[n] = d.indexes[n]

Frozen(view) == \E d \in Databases : PartOf(view, d)

ClausesOf(r) == SortClauses(r.sort, r.pit)

\* A request of a pager, whose cursor is that of some document.
PageRequest(r) ==
    /\ IsRequest(r) /\ (r.sort # <<>> \/ r.pit) /\ r.from = 0 /\ r.size \in Nat \ {0}
    /\ \E q \in PageRequests : r.sort = q.sort
    /\ r.cursor = <<>> \/ \E h \in AllHits(workload) : r.cursor = SortValues(h, ClausesOf(r))

\* The pages so far have come to h or passed it.
Reached(h, r) ==
    /\ r.cursor # <<>>
    /\ CompareByClauses(SortValues(h, ClausesOf(r)), r.cursor, ClausesOf(r)) # "greater"

\* The documents that the query of a request selects.
Matched(d, r) == {Hit(d, k) : k \in MatchedKeys(d, r)}

LEMMA FrozenHits ==
    ASSUME NEW view, Frozen(view)
    PROVE  HitsOf(view) \subseteq AllHits(workload)
<1>1. PICK d \in Databases : PartOf(view, d)
  BY DEF Frozen
<1>2. ASSUME NEW k \in DocKeys, Exists(view, k) PROVE Exists(d, k) /\ Hit(view, k) = Hit(d, k)
  BY <1>1, <1>2 DEF PartOf, Exists, Hit
<1>3. HitsOf(view) \subseteq HitsOf(d)
  <2>1. ASSUME NEW h \in HitsOf(view) PROVE h \in HitsOf(d)
    <3>1. PICK k \in DocKeys : Exists(view, k) /\ h = Hit(view, k)
      BY DEF HitsOf
    <3>2. QED
      BY <1>2, <3>1 DEF HitsOf
  <2>2. QED
    BY <2>1
<1>4. QED
  BY <1>3 DEF AllHits, Databases

LEMMA StoredIsFrozen == \A d \in Databases : Frozen(d)
  BY DEF Frozen, PartOf

\* _shard_doc orders any documents.
LEMMA ShardDocComparable ==
    ASSUME NEW H, \A h \in H : h.index \in IndexNames /\ h.id \in DocIds
    PROVE  Comparable({SortValue(h, ShardDoc) : h \in H})
<1> DEFINE V == {SortValue(h, ShardDoc) : h \in H}
<1>1. \A h \in H : SortValue(h, ShardDoc) = Text(Position(h)) /\ Position(h) \in Int
  <2>1. SUFFICES ASSUME NEW h \in H
                 PROVE  SortValue(h, ShardDoc) = Text(Position(h)) /\ Position(h) \in Int
    OBVIOUS
  <2>2. Position(h) \in Nat
    BY PositionsGrow
  <2>3. ShardDoc.field = <<"_shard_doc">>
    BY DEF ShardDoc, Clause
  <2>4. SortValue(h, ShardDoc) = Text(Position(h))
    BY <2>3, FieldsDiffer DEF SortValue, Position
  <2>5. QED
    BY <2>2, <2>4
<1>2. \A v \in V : \E n \in Int : v = Text(n)
  BY <1>1
<1> HIDE DEF V
<1>3. \A n \in Int : Text(n).type = "string" /\ KeyOf(Text(n)) = n
  BY DEF Text, KeyOf
<1>4. \A m, n \in Int : CompareSortValues(Text(m), Text(n)) = Order(m, n)
  BY <1>3 DEF CompareSortValues
<1>5. \A l, m, n \in Int : Order(l, m) # "greater" /\ Order(m, n) # "greater" => Order(l, n) # "greater"
  BY DEF Order
<1>6. \A u, v, w \in V : CompareSortValues(u, v) # "greater" /\ CompareSortValues(v, w) # "greater" =>
          CompareSortValues(u, w) # "greater"
  <2>1. SUFFICES ASSUME NEW u \in V, NEW v \in V, NEW w \in V
                 PROVE  CompareSortValues(u, v) # "greater" /\ CompareSortValues(v, w) # "greater" =>
                            CompareSortValues(u, w) # "greater"
    OBVIOUS
  <2>2. PICK l \in Int, m \in Int, n \in Int : u = Text(l) /\ v = Text(m) /\ w = Text(n)
    BY <1>2
  <2>3. QED
    BY <1>4, <1>5, <2>2
<1>7. \A v \in V : v.type = "null" \/ (KeyOf(v) \in Int /\ (v.type = "number" => v.num \in Int))
  BY <1>2, <1>3
<1>8. QED
  BY <1>6, <1>7 DEF Comparable, V

\* The clauses of a request: its sort, with or without the tie-breaker.
LEMMA ClausesAre ==
    ASSUME NEW r, PageRequest(r)
    PROVE  /\ r.sort \in Seq(ToSet(r.sort)) /\ Len(r.sort) \in Nat
           /\ \A i \in 1..Len(r.sort) : r.sort[i] \in ToSet(r.sort) /\ r.sort[i].desc \in BOOLEAN
           /\ ClausesOf(r) = r.sort \/ ClausesOf(r) = Append(r.sort, ShardDoc)
           /\ ClausesOf(r) # <<>>
<1>1. PICK q \in PageRequests : r.sort = q.sort
  BY DEF PageRequest
<1>2. r.sort \in Seq(ToSet(r.sort)) /\ \A c \in ToSet(r.sort) : c.desc \in BOOLEAN
  BY <1>1, PageRequestsAssumption
<1>3. Len(r.sort) \in Nat /\ DOMAIN r.sort = 1..Len(r.sort)
      /\ \A i \in 1..Len(r.sort) : r.sort[i] \in ToSet(r.sort)
  BY <1>2, LenProperties
<1>4. ClausesOf(r) = r.sort \/ ClausesOf(r) = Append(r.sort, ShardDoc)
  BY DEF ClausesOf, SortClauses
<1>5. Append(r.sort, ShardDoc) # <<>>
  <2> DEFINE sort == r.sort
  <2>1. sort \in Seq(ToSet(sort))
    BY <1>2
  <2> HIDE DEF sort
  <2>2. Len(Append(sort, ShardDoc)) = Len(sort) + 1 /\ Len(sort) \in Nat
    BY <2>1, AppendProperties, LenProperties
  <2>3. Len(<<>>) = 0
    BY EmptySeq
  <2>4. Append(sort, ShardDoc) # <<>>
    <3>1. SUFFICES ASSUME Append(sort, ShardDoc) = <<>> PROVE FALSE
      OBVIOUS
    <3>2. QED
      BY <2>2, <2>3, <3>1
  <2>5. QED
    BY <2>4 DEF sort
<1>6. r.sort = <<>> => ClausesOf(r) = Append(r.sort, ShardDoc)
  <2>1. SUFFICES ASSUME r.sort = <<>> PROVE ClausesOf(r) = Append(r.sort, ShardDoc)
    OBVIOUS
  <2>2. r.pit /\ ~Mentions(r.sort, "_shard_doc")
    BY <2>1 DEF PageRequest, Mentions
  <2>3. QED
    BY <2>2 DEF ClausesOf, SortClauses, NeedsImplicitTiebreaker
<1>7. QED
  BY <1>2, <1>3, <1>4, <1>5, <1>6

LEMMA RequestSortable ==
    ASSUME workload \in DOMAIN Workloads, NEW r, PageRequest(r)
    PROVE  Sortable(AllHits(workload), ClausesOf(r))
<1> DEFINE H == AllHits(workload)
           clauses == ClausesOf(r)
           sort == r.sort
<1>1. PICK q \in PageRequests : sort = q.sort
  BY DEF PageRequest
<1>2. \A c \in ToSet(sort) : Comparable({SortValue(h, c) : h \in H})
  BY <1>1, SortValuesAssumption
<1>3. Comparable({SortValue(h, ShardDoc) : h \in H})
  <2>1. \A h \in H : h.index \in IndexNames /\ h.id \in DocIds
    <3>1. \A d : Distinct(HitsOf(d))
      BY HitsDistinct
    <3>2. QED
      BY <3>1 DEF AllHits, Distinct
  <2> HIDE DEF H
  <2>2. QED
    BY <2>1, ShardDocComparable
<1> HIDE DEF H, clauses, sort
<1>4. /\ sort \in Seq(ToSet(sort)) /\ Len(sort) \in Nat
      /\ \A i \in 1..Len(sort) : sort[i] \in ToSet(sort) /\ sort[i].desc \in BOOLEAN
      /\ clauses = sort \/ clauses = Append(sort, ShardDoc)
  BY ClausesAre DEF clauses, sort
<1>5. CASE clauses = sort
  <2>1. DOMAIN sort = 1..Len(sort)
    BY <1>4, LenProperties
  <2>2. QED
    BY <1>2, <1>4, <1>5, <2>1 DEF Sortable, H, clauses
<1>6. CASE clauses = Append(sort, ShardDoc)
  <2>1. /\ Len(clauses) = Len(sort) + 1 /\ DOMAIN clauses = 1..(Len(sort) + 1)
        /\ \A i \in 1..Len(sort) : clauses[i] = sort[i]
        /\ clauses[Len(sort) + 1] = ShardDoc
    BY <1>4, <1>6, AppendProperties
  <2>2. ShardDoc.desc \in BOOLEAN
    BY DEF ShardDoc, Clause
  <2>3. \A i \in 1..(Len(sort) + 1) : i = Len(sort) + 1 \/ i \in 1..Len(sort)
    BY <1>4
  <2>4. \A i \in 1..(Len(sort) + 1) :
            clauses[i].desc \in BOOLEAN /\ Comparable({SortValue(h, clauses[i]) : h \in H})
    BY <1>2, <1>3, <1>4, <2>1, <2>2, <2>3
  <2>5. Len(sort) + 1 \in Nat
    BY <1>4
  <2>6. QED
    BY <2>1, <2>4, <2>5 DEF Sortable, H, clauses
<1>7. QED
  BY <1>4, <1>5, <1>6

LEMMA PagesAreSearched ==
    ASSUME workload \in DOMAIN Workloads, NEW r, PageRequest(r), NEW view, Frozen(view)
    PROVE  PageSearch(AllHits(workload), view, r, ClausesOf(r))
  BY FrozenHits, RequestSortable, ClausesAre DEF PageSearch, PageRequest, ClausesOf

\* What MatchedKeys are the keys of.
LEMMA MatchedFacts ==
    ASSUME NEW d, NEW r
    PROVE  /\ \A k \in MatchedKeys(d, r) : /\ k \in DocKeys /\ KeyOfHit(Hit(d, k)) = k
                                           /\ Hit(d, k) \in HitsOf(d)
           /\ Matched(d, r) \subseteq HitsOf(d)
           /\ Select(Scanned(d, r), r.query).status = "ok" => Matched(d, r) = SelectedHits(d, r)
<1> DEFINE T == SelectedHits(d, r)
           selected == Select(Scanned(d, r), r.query)
           docs == selected.docs
           S == ScannedHits(d, r)
           q == r.query
<1>1. S \subseteq HitsOf(d) /\ Lists(Scanned(d, r), S, ByKey(HitsOf(d)))
  BY ScannedLists
<1>2. T = Matching(S, q) /\ T \subseteq HitsOf(d)
  BY <1>1 DEF SelectedHits, Matching
<1>3. \A h \in HitsOf(d) : h = Hit(d, KeyOfHit(h)) /\ KeyOfHit(h) \in DocKeys
  BY HitsDistinct
<1> HIDE DEF T, S, q
<1>4. selected = Refused \/ (selected.status = "ok" /\ Lists(docs, T, ByKey(HitsOf(d))))
  <2> DEFINE hits == Scanned(d, r)
             R == ByKey(HitsOf(d))
  <2>1. Lists(hits, S, R) /\ selected = Select(hits, q)
    BY <1>1 DEF q
  <2> HIDE DEF hits, R, selected
  <2>2. \/ selected = Refused
        \/ /\ selected = [status |-> "ok", docs |-> selected.docs]
           /\ Lists(selected.docs, Matching(S, q), R)
    BY <2>1, SelectLists
  <2>3. QED
    BY <1>2, <2>2 DEF R
<1> HIDE DEF selected
<1>5. CASE selected = Refused
  <2>1. MatchedKeys(d, r) = {} /\ selected.status # "ok"
    BY <1>5 DEF MatchedKeys, SelectedKeys, Refused, selected
  <2>2. QED
    BY <2>1 DEF Matched, selected
<1>6. CASE selected.status = "ok" /\ Lists(docs, T, ByKey(HitsOf(d)))
  <2>1. DOMAIN docs = 1..Len(docs) /\ \A i \in 1..Len(docs) : docs[i] \in T
    BY <1>6, LenProperties DEF Lists
  <2>2. ToSet(docs) = T
    BY <1>6, <2>1 DEF Lists, ToSet
  <2>3. MatchedKeys(d, r) = {KeyOfHit(h) : h \in T}
    <3>1. MatchedKeys(d, r) = ToSet(Keys(docs))
      BY <1>6 DEF MatchedKeys, SelectedKeys, selected
    <3>2. ToSet(Keys(docs)) = {KeyOfHit(h) : h \in ToSet(docs)}
      BY DEF ToSet, Keys
    <3>3. QED
      BY <2>2, <3>1, <3>2
  <2>4. Matched(d, r) = T
    BY <1>2, <1>3, <2>3 DEF Matched
  <2>5. \A k \in MatchedKeys(d, r) : /\ k \in DocKeys /\ KeyOfHit(Hit(d, k)) = k
                                     /\ Hit(d, k) \in HitsOf(d)
    <3>1. SUFFICES ASSUME NEW h \in T
                   PROVE  KeyOfHit(h) \in DocKeys /\ Hit(d, KeyOfHit(h)) = h /\ h \in HitsOf(d)
      BY <2>3
    <3>2. QED
      BY <1>2, <1>3
  <2>6. QED
    BY <1>2, <2>4, <2>5 DEF T
<1>7. QED
  BY <1>4, <1>5, <1>6

LEMMA AppendedShardDoc ==
    ASSUME NEW S, NEW sort \in Seq(S)
    PROVE  Mentions(Append(sort, ShardDoc), "_shard_doc")
<1>1. /\ Len(sort) + 1 \in DOMAIN Append(sort, ShardDoc)
      /\ Append(sort, ShardDoc)[Len(sort) + 1] = ShardDoc
  BY LenProperties, AppendProperties
<1>2. ShardDoc.field = <<"_shard_doc">>
  BY DEF ShardDoc, Clause
<1>3. QED
  BY <1>1, <1>2 DEF Mentions

\* When nothing else does, _shard_doc or, within one index, _id tells the documents
\* of a search apart.
LEMMA LiveTieFree ==
    ASSUME NEW r, PageRequest(r), ~SortsSeveralById(r), NEW d \in Databases
    PROVE  TieFree(SelectedHits(d, r), ClausesOf(r))
<1> DEFINE T == SelectedHits(d, r)
           clauses == ClausesOf(r)
           sort == r.sort
<1>1. /\ sort \in Seq(ToSet(sort)) /\ Len(sort) \in Nat /\ DOMAIN sort = 1..Len(sort)
      /\ clauses = sort \/ clauses = Append(sort, ShardDoc)
  BY ClausesAre, LenProperties
<1>2. T \subseteq ScannedHits(d, r) /\ T \subseteq HitsOf(d)
  BY ScannedLists DEF SelectedHits, Matching
<1>3. Distinct(T)
  BY <1>2, HitsDistinct DEF Distinct
<1>4. clauses = SortClauses(sort, r.pit)
  BY DEF ClausesOf
<1> HIDE DEF T, clauses
<1>5. Len(clauses) \in Nat /\ DOMAIN clauses = 1..Len(clauses)
  BY <1>1, AppendProperties
<1>6. CASE clauses = Append(sort, ShardDoc)
  <2>1. Mentions(clauses, "_shard_doc")
    BY <1>1, <1>6, AppendedShardDoc
  <2>2. QED
    BY <1>3, <1>5, <2>1, ShardDocTieFree DEF T, clauses
<1>7. CASE clauses = sort
  <2>1. CASE Mentions(sort, "_shard_doc")
    BY <1>3, <1>5, <1>7, <2>1, ShardDocTieFree DEF T, clauses
  <2>2. CASE ~Mentions(sort, "_shard_doc")
    <3>1. Mentions(sort, "_id")
      <4>1. SUFFICES ASSUME ~Mentions(sort, "_id") PROVE FALSE
        OBVIOUS
      <4>2. sort # <<>>
        BY <1>7, ClausesAre DEF clauses
      <4>3. clauses = Append(sort, ShardDoc)
        BY <1>4, <2>2, <4>1, <4>2 DEF SortClauses, NeedsImplicitTiebreaker
      <4>4. Len(clauses) = Len(sort) + 1
        BY <1>1, <4>3, AppendProperties
      <4>5. QED
        BY <1>1, <1>7, <4>4
    <3>2. PICK n \in IndexNames : /\ r.indices = {[kind |-> "name", name |-> n]}
                                  /\ \A e \in Databases : n \notin DOMAIN e.aliases
      BY <2>2, <3>1 DEF SortsSeveralById
    <3>3. ExpandIndices(d, r.indices) = ResolveIndices(d, n)
      BY <3>2 DEF ExpandIndices
    <3>4. ResolveIndices(d, n) \subseteq {n}
      BY <3>2 DEF ResolveIndices
    <3>5. \A h \in T : h.index = n
      <4>1. SUFFICES ASSUME NEW h \in ScannedHits(d, r) PROVE h.index = n
        BY <1>2
      <4>2. PICK k \in DocKeys : k[1] \in ExpandIndices(d, r.indices) /\ h = Hit(d, k)
        BY DEF ScannedHits
      <4>3. QED
        BY <3>3, <3>4, <4>2 DEF Hit
    <3>6. QED
      BY <1>3, <1>5, <1>7, <3>1, <3>5, IdTieFree DEF T, clauses
  <2>3. QED
    BY <2>1, <2>2
<1>8. QED
  BY <1>1, <1>6, <1>7 DEF clauses

\* A search of a point in time always sorts by _shard_doc in the end.
LEMMA PitTieFree ==
    ASSUME NEW r, PageRequest(r), r.pit = TRUE, NEW d
    PROVE  TieFree(SelectedHits(d, r), ClausesOf(r))
<1> DEFINE T == SelectedHits(d, r)
           clauses == ClausesOf(r)
           sort == r.sort
<1>1. /\ sort \in Seq(ToSet(sort)) /\ Len(sort) \in Nat /\ DOMAIN sort = 1..Len(sort)
      /\ clauses = sort \/ clauses = Append(sort, ShardDoc)
  BY ClausesAre, LenProperties
<1>2. T \subseteq HitsOf(d)
  BY ScannedLists DEF SelectedHits, Matching
<1>3. Distinct(T)
  BY <1>2, HitsDistinct DEF Distinct
<1>4. clauses = IF ~Mentions(sort, "_shard_doc") THEN Append(sort, ShardDoc) ELSE sort
  BY DEF ClausesOf, SortClauses, NeedsImplicitTiebreaker
<1> HIDE DEF T, clauses
<1>5. Len(clauses) \in Nat /\ DOMAIN clauses = 1..Len(clauses)
  BY <1>1, AppendProperties
<1>6. Mentions(clauses, "_shard_doc")
  BY <1>1, <1>4, AppendedShardDoc
<1>7. QED
  BY <1>3, <1>5, <1>6, ShardDocTieFree DEF T, clauses

\* A page of a search: an end, or the next hits up to one of them.  Everything it
\* holds is behind what the pages before it have reached, and behind it they have
\* reached what they had and what it holds.
PageStep(H, d, r, hits) ==
    \/ hits = <<>> /\ \A h \in Matched(d, r) : Reached(h, r)
    \/ \E x \in Matched(d, r), P \in SUBSET Matched(d, r) :
          /\ hits # <<>> /\ Last(hits) = x /\ Lists(hits, P, Before(H, ClausesOf(r)))
          /\ \A h \in P : ~Reached(h, r)
          /\ \A g \in Matched(d, r), h \in P : Reached(g, r) => <<g, h>> \in Before(H, ClausesOf(r))
          /\ \A h \in Matched(d, r) :
                Reached(h, r) \/ h \in P <=> CompareHits(h, x, ClausesOf(r)) # "greater"

LEMMA SearchSteps ==
    ASSUME workload \in DOMAIN Workloads, NEW r, PageRequest(r), NEW view, Frozen(view),
           TieFree(SelectedHits(view, r), ClausesOf(r))
    PROVE  \/ Search(view, r) = Refused
           \/ /\ Search(view, r).status = "ok"
              /\ PageStep(AllHits(workload), view, r, Search(view, r).hits)
<1> DEFINE H == AllHits(workload)
           clauses == ClausesOf(r)
           hits == Search(view, r).hits
           T == SelectedHits(view, r)
           rest == Rest(view, r, clauses)
           R == Before(H, clauses)
<1>1. PageSearch(H, view, r, clauses)
  BY PagesAreSearched
<1>2. Sortable(H, clauses) /\ TieFree(T, clauses)
  BY RequestSortable
<1>3. \/ Search(view, r) = Refused
      \/ /\ Search(view, r).status = "ok" /\ NextPage(H, view, r, clauses, hits)
         /\ Matched(view, r) = T
  <2> HIDE DEF clauses, H, hits
  <2>1. \/ Search(view, r) = Refused
        \/ /\ Select(Scanned(view, r), r.query).status = "ok"
           /\ Search(view, r).status = "ok" /\ NextPage(H, view, r, clauses, Search(view, r).hits)
    BY <1>1, SearchPages
  <2>2. QED
    BY <2>1, MatchedFacts DEF hits
<1>4. T \subseteq H
  BY MatchedFacts, FrozenHits, ScannedLists DEF SelectedHits, Matching
<1>5. \A h : h \in rest <=> h \in T /\ ~Reached(h, r)
  BY DEF Rest, HitIsAfter, Reached
<1>6. r.cursor = <<>> \/ \E h \in H : r.cursor = SortValues(h, clauses)
  BY DEF PageRequest
\* A hit that is reached is less than one that is not.
<1>7. ASSUME NEW g \in H, NEW h \in H, Reached(g, r), ~Reached(h, r)
      PROVE  CompareHits(g, h, clauses) = "less"
  <2>1. PICK c \in H : r.cursor = SortValues(c, clauses)
    BY <1>6, <1>7 DEF Reached
  <2>2. CompareHits(g, c, clauses) # "greater" /\ CompareHits(h, c, clauses) = "greater"
    BY <1>7, <2>1 DEF Reached, CompareHits
  <2> HIDE DEF H, clauses
  <2>3. Ordered(h, c, g, clauses) /\ Ordered(g, c, h, clauses)
    BY <1>2, HitsOrdered
  <2>4. CompareHits(c, h, clauses) = "less"
    BY <2>2, <2>3 DEF Ordered, Opposite
  <2>5. QED
    BY <2>2, <2>3, <2>4 DEF Ordered
<1>8. ASSUME NextPage(H, view, r, clauses, hits), Matched(view, r) = T
      PROVE  PageStep(H, view, r, hits)
  <2>1. CASE rest = {} /\ hits = <<>>
    BY <1>5, <1>8, <2>1 DEF PageStep
  <2>2. ASSUME NEW x \in rest, hits # <<>>, Last(hits) = x, Lists(hits, Through(rest, R, x), R)
        PROVE  PageStep(H, view, r, hits)
    <3> DEFINE P == Through(rest, R, x)
    <3>1. P \subseteq rest /\ rest \subseteq T /\ x \in T
      BY <1>5, <2>2 DEF Through
    <3>2. \A h \in P : ~Reached(h, r)
      BY <1>5, <3>1
    <3>3. \A g \in T, h \in P : Reached(g, r) => <<g, h>> \in R
      BY <1>4, <1>7, <3>1, <3>2 DEF Before
    <3>4. ASSUME NEW h \in T
          PROVE  Reached(h, r) \/ h \in P <=> CompareHits(h, x, clauses) # "greater"
      <4>1. CASE Reached(h, r)
        <5>1. CompareHits(h, x, clauses) = "less"
          BY <1>4, <1>5, <1>7, <2>2, <3>1, <4>1
        <5>2. QED
          BY <4>1, <5>1
      <4>2. CASE ~Reached(h, r)
        <5>1. h \in P <=> h = x \/ <<h, x>> \in R
          BY <1>5, <4>2 DEF Through
        <5> HIDE DEF P, H, clauses, T
        <5>2. h = x \/ <<h, x>> \in Before(H, clauses) <=> CompareHits(h, x, clauses) # "greater"
          BY <1>2, <1>4, <3>1, ThroughIs
        <5>3. QED
          BY <4>2, <5>1, <5>2 DEF R
      <4>3. QED
        BY <4>1, <4>2
    <3> HIDE DEF P, hits, rest
    <3>5. \E y \in Matched(view, r), Q \in SUBSET Matched(view, r) :
            /\ hits # <<>> /\ Last(hits) = y /\ Lists(hits, Q, R)
            /\ \A h \in Q : ~Reached(h, r)
            /\ \A g \in Matched(view, r), h \in Q : Reached(g, r) => <<g, h>> \in R
            /\ \A h \in Matched(view, r) :
                  Reached(h, r) \/ h \in Q <=> CompareHits(h, y, clauses) # "greater"
      <4>1. P \in SUBSET T
        BY <3>1
      <4>2. Lists(hits, P, R)
        BY <2>2 DEF P
      <4> HIDE DEF R, T, clauses
      <4>3. QED
        BY <1>8, <2>2, <3>1, <3>2, <3>3, <3>4, <4>1, <4>2
    <3>6. QED
      BY <3>5 DEF PageStep
  <2>3. QED
    BY <1>8, <2>1, <2>2 DEF NextPage
<1>9. QED
  BY <1>3, <1>8

\* The next request carries the sort values of the last hit.
LEMMA NextRequest ==
    ASSUME NEW r, PageRequest(r), NEW hits, NEW x \in AllHits(workload), hits # <<>>, Last(hits) = x
    PROVE  LET q == [r EXCEPT !.cursor = CursorAfter(r, hits)]
           IN  /\ PageRequest(q) /\ ClausesOf(q) = ClausesOf(r)
               /\ q.indices = r.indices /\ q.query = r.query /\ q.pit = r.pit /\ q.sort = r.sort
               /\ \A h : Reached(h, q) <=> CompareHits(h, x, ClausesOf(r)) # "greater"
<1> DEFINE cursor == CursorAfter(r, hits)
           q == [r EXCEPT !.cursor = cursor]
<1>1. cursor = SortValues(x, ClausesOf(r))
  BY DEF CursorAfter, ClausesOf
<1>2. Len(ClausesOf(r)) \in Nat \ {0} /\ DOMAIN ClausesOf(r) = 1..Len(ClausesOf(r))
  <2> DEFINE sort == r.sort
             clauses == ClausesOf(r)
  <2>1. /\ sort \in Seq(ToSet(sort)) /\ Len(sort) \in Nat /\ DOMAIN sort = 1..Len(sort)
        /\ clauses = sort \/ clauses = Append(sort, ShardDoc)
        /\ clauses # <<>>
    BY ClausesAre, LenProperties
  <2> HIDE DEF sort, clauses
  <2>2. Len(clauses) \in Nat /\ DOMAIN clauses = 1..Len(clauses)
    BY <2>1, AppendProperties
  <2>3. Len(clauses) # 0
    <3>1. CASE clauses = sort
      BY <2>1, <3>1, EmptySeq
    <3>2. CASE clauses = Append(sort, ShardDoc)
      <4>1. Len(clauses) = Len(sort) + 1
        BY <2>1, <3>2, AppendProperties
      <4>2. QED
        BY <2>1, <4>1
    <3>3. QED
      BY <2>1, <3>1, <3>2
  <2>4. QED
    BY <2>2, <2>3 DEF clauses
<1>3. cursor # <<>>
  <2>1. 1 \in DOMAIN cursor
    <3> DEFINE n == Len(ClausesOf(r))
    <3>1. DOMAIN cursor = 1..n
      BY <1>1, <1>2 DEF SortValues
    <3>2. n \in Nat \ {0}
      BY <1>2
    <3> HIDE DEF n
    <3>3. QED
      BY <3>1, <3>2
  <2>2. DOMAIN <<>> = {}
    OBVIOUS
  <2>3. QED
    BY <2>1, <2>2
<1> HIDE DEF cursor
<1>4. /\ IsRequest(q) /\ q.indices = r.indices /\ q.query = r.query /\ q.pit = r.pit /\ q.sort = r.sort
      /\ q.from = r.from /\ q.size = r.size /\ q.cursor = cursor
  BY DEF PageRequest, IsRequest
<1> HIDE DEF q
<1>5. ClausesOf(q) = ClausesOf(r)
  BY <1>4 DEF ClausesOf
<1>6. PageRequest(q)
  BY <1>1, <1>4, <1>5 DEF PageRequest
<1>7. \A h : Reached(h, q) <=> CompareHits(h, x, ClausesOf(r)) # "greater"
  BY <1>1, <1>3, <1>4, <1>5 DEF Reached, CompareHits
<1>8. QED
  BY <1>4, <1>5, <1>6, <1>7 DEF q, cursor

\* How often a document comes on a page.
LEMMA OnPage ==
    ASSUME NEW T, NEW R, NEW hits, StrictOrder(T, R), Lists(hits, T, R), NEW d, T \subseteq HitsOf(d),
           NEW k, NEW h \in HitsOf(d), KeyOfHit(h) = k
    PROVE  Cardinality({i \in DOMAIN hits : KeyOfHit(hits[i]) = k}) = IF h \in T THEN 1 ELSE 0
<1> DEFINE I == {i \in DOMAIN hits : KeyOfHit(hits[i]) = k}
<1>1. /\ DOMAIN hits = 1..Len(hits) /\ \A i \in 1..Len(hits) : hits[i] \in T
      /\ \A i, j \in 1..Len(hits) : i # j => hits[i] # hits[j]
      /\ \A x \in T : \E i \in 1..Len(hits) : hits[i] = x
  <2>1. \A x \in T : \E i \in 1..Len(hits) : hits[i] = x
    BY DEF Lists
  <2>2. /\ DOMAIN hits = 1..Len(hits) /\ \A i \in 1..Len(hits) : hits[i] \in T
        /\ \A i, j \in 1..Len(hits) : i # j => hits[i] # hits[j]
    BY ListsProps
  <2>3. QED
    BY <2>1, <2>2
<1>2. \A i \in DOMAIN hits : KeyOfHit(hits[i]) = k <=> hits[i] = h
  BY <1>1, HitsDistinct
<1>3. I = {i \in DOMAIN hits : hits[i] = h}
  BY <1>2
<1>4. CASE h \in T
  <2>1. PICK i \in DOMAIN hits : hits[i] = h
    BY <1>1, <1>4
  <2>2. I = {i}
    BY <1>1, <1>3, <2>1
  <2>3. QED
    BY <1>4, <2>2, FS_Singleton
<1>5. CASE h \notin T
  <2>1. I = {}
    BY <1>1, <1>3, <1>5
  <2>2. QED
    BY <1>5, <2>1, FS_EmptySet
<1>6. QED
  BY <1>4, <1>5

\* pit_database hands out views and changes none.
LEMMA PitViewsStay ==
    ASSUME NEW i, PitDatabase(i)
    PROVE  \A j \in DOMAIN pits' : j \in DOMAIN pits /\ pits'[j].view = pits[j].view
<1> DEFINE live == LivePits
<1>1. \A j \in DOMAIN live : j \in DOMAIN pits /\ live[j].view = pits[j].view
  BY DEF LivePits, Keep, Restrict
<1>2. \/ pits' = live
      \/ \E keepAlive \in Durations :
             pits' = [live EXCEPT ![i].keepAlive = keepAlive, ![i].expires = now + keepAlive]
  BY DEF PitDatabase
<1> HIDE DEF live
<1>3. ASSUME NEW j \in DOMAIN pits' PROVE j \in DOMAIN live /\ pits'[j].view = live[j].view
  <2>1. CASE pits' = live
    BY <1>3, <2>1
  <2>2. ASSUME NEW keepAlive \in Durations,
               pits' = [live EXCEPT ![i].keepAlive = keepAlive, ![i].expires = now + keepAlive]
        PROVE  j \in DOMAIN live /\ pits'[j].view = live[j].view
    <3>1. DOMAIN pits' = DOMAIN live
      BY <2>2
    <3>2. CASE j = i
      <4>1. pits'[i] = [[live[i] EXCEPT !.keepAlive = keepAlive] EXCEPT !.expires = now + keepAlive]
        BY <1>3, <2>2, <3>1, <3>2
      <4>2. QED
        BY <1>3, <3>1, <3>2, <4>1
    <3>3. CASE j # i
      BY <1>3, <2>2, <3>1, <3>3
    <3>4. QED
      BY <3>2, <3>3
  <2>3. QED
    BY <1>2, <2>1, <2>2
<1>4. QED
  BY <1>1, <1>3

\* A pager of the live database: a document that was selected all along and that no
\* write changed has been answered when the pages reached it, and not before.
LivePaging(s) ==
    /\ PageRequest(s.request)
    /\ ~SortsSeveralById(s.request) => \A k \in DOMAIN s.unchanged :
          /\ k \in MatchedKeys(db, s.request)
          /\ s.unchanged[k] = IF Reached(Hit(db, k), s.request) THEN 1 ELSE 0
          /\ s.phase = "done" => s.unchanged[k] = 1

\* The documents that a pager of a point in time has been answered.
HitsAt(view, keys) == [i \in DOMAIN keys |-> Hit(view, keys[i])]
SentHits(s) == HitsAt(s.view, s.sent)

\* Its pages are the hits they have reached, in order.  The id of its point in time
\* names the view it saw first, or nothing any more.
PitPaging(s) ==
    /\ PageRequest(s.request)
    /\ Frozen(s.view)
    /\ s.pit \in 1..nextId
    /\ s.pit \in DOMAIN pits => pits[s.pit].view = s.view
    /\ \A c \in Clients : request[c].kind # "nothing" => request[c].id # s.pit
    /\ s.sent \in Seq(DocKeys)
    /\ Lists(SentHits(s), {h \in Matched(s.view, s.request) : Reached(h, s.request)},
             Before(AllHits(workload), ClausesOf(s.request)))
    /\ s.phase = "done" => \A h \in Matched(s.view, s.request) : Reached(h, s.request)

Paging(s) == IF s.request.pit THEN PitPaging(s) ELSE LivePaging(s)

\* The views that are open, or about to be.
ViewsFrozen ==
    /\ \A i \in DOMAIN pits : Frozen(pits[i].view)
    /\ \A c \in Clients : request[c].kind = "pit" => Frozen(request[c].view)

PagingInv ==
    /\ SearchInv
    /\ ViewsFrozen
    /\ \A p \in Pagers : session[p] # Idle => Paging(session[p])

\* What a step of the contexts does to the points in time: those that stay keep
\* their view, and a new one has an id that nobody else has.
OldOrNew ==
    /\ workload' = workload /\ nextId' \in Nat /\ nextId <= nextId'
    /\ \A i \in DOMAIN pits' :
          \/ i \in DOMAIN pits /\ pits'[i].view = pits[i].view
          \/ \E c \in Clients : /\ request[c].kind = "pit" /\ request[c].id = i
                                /\ pits'[i].view = request[c].view
    /\ \A c \in Clients : request'[c].kind # "nothing" =>
          \/ request'[c] = request[c]
          \/ /\ request'[c].id = nextId + 1
             /\ request'[c].kind = "pit" =>
                    \E requested \in PitIndices : request'[c].view = PitSnapshot(requested)

LEMMA StepOldOrNew == ContextsInv /\ [Next]_vars => OldOrNew
<1> SUFFICES ASSUME ContextsInv, [Next]_vars PROVE OldOrNew
  OBVIOUS
<1>1. nextId \in Nat /\ DOMAIN request = Clients
  BY Facts DEF ContextsInv, GoodRequests
<1>2. ASSUME workload' = workload, nextId' = nextId, pits' = pits, request' = request PROVE OldOrNew
  BY <1>1, <1>2 DEF OldOrNew
<1>3. ASSUME workload' = workload, nextId' = nextId, request' = request,
             \A i \in DOMAIN pits' : i \in DOMAIN pits /\ pits'[i].view = pits[i].view
      PROVE  OldOrNew
  BY <1>1, <1>3 DEF OldOrNew
<1>4. \A i \in DOMAIN LivePits : i \in DOMAIN pits /\ LivePits[i].view = pits[i].view
  BY DEF LivePits, Keep, Restrict
<1>5. ASSUME NEW ids, pits' = Keep(LivePits, ids)
      PROVE  \A i \in DOMAIN pits' : i \in DOMAIN pits /\ pits'[i].view = pits[i].view
  <2> DEFINE live == LivePits
  <2>1. \A i \in DOMAIN live : i \in DOMAIN pits /\ live[i].view = pits[i].view
    BY <1>4
  <2>2. pits' = Keep(live, ids)
    BY <1>5
  <2> HIDE DEF live
  <2>3. QED
    BY <2>1, <2>2 DEF Keep, Restrict
<1>6. ASSUME NEW c \in Clients, NEW r, workload' = workload, nextId' = nextId + 1, pits' = pits,
             request' = [request EXCEPT ![c] = r],
             r.kind # "nothing" =>
                 /\ r.id = nextId + 1
                 /\ r.kind = "pit" => \E requested \in PitIndices : r.view = PitSnapshot(requested)
      PROVE  OldOrNew
  <2>1. \A e \in Clients : request'[e] = IF e = c THEN r ELSE request[e]
    BY <1>1, <1>6
  <2>2. nextId' \in Nat /\ nextId <= nextId'
    BY <1>1, <1>6
  <2>3. QED
    BY <1>6, <2>1, <2>2 DEF OldOrNew
<1>7. ASSUME NEW c \in Clients, SearchScroll(c) PROVE OldOrNew
  <2>1. PICK size \in Sizes :
            request' = [request EXCEPT ![c] =
                ScrollRequest(nextId', CapturedHits(db, size), BatchSize(size))]
    BY <1>7 DEF SearchScroll
  <2> DEFINE r == ScrollRequest(nextId', CapturedHits(db, size), BatchSize(size))
  <2>2. workload' = workload /\ nextId' = nextId + 1 /\ pits' = pits
    BY <1>7 DEF SearchScroll, NewId
  <2>3. r.kind # "nothing" => r.id = nextId + 1 /\ r.kind # "pit"
    BY <2>2 DEF ScrollRequest, Nothing
  <2> HIDE DEF r
  <2>4. request' = [request EXCEPT ![c] = r]
    BY <2>1 DEF r
  <2>5. QED
    BY <1>6, <2>2, <2>3, <2>4
<1>8. ASSUME NEW c \in Clients, SnapshotPit(c) PROVE OldOrNew
  <2>1. PICK keepAlive \in Durations, requested \in PitIndices :
            request' = [request EXCEPT ![c] =
               [kind |-> "pit", id |-> nextId', view |-> PitSnapshot(requested),
                keepAlive |-> keepAlive]]
    BY <1>8 DEF SnapshotPit
  <2> DEFINE r == [kind |-> "pit", id |-> nextId', view |-> PitSnapshot(requested),
                   keepAlive |-> keepAlive]
  <2>2. workload' = workload /\ nextId' = nextId + 1 /\ pits' = pits
    BY <1>8 DEF SnapshotPit, NewId
  <2>3. r.id = nextId + 1 /\ r.view = PitSnapshot(requested)
    BY <2>2
  <2> HIDE DEF r
  <2>4. request' = [request EXCEPT ![c] = r]
    BY <2>1 DEF r
  <2>5. QED
    BY <1>6, <2>2, <2>3, <2>4
<1>9. ASSUME NEW c \in Clients, request' = [request EXCEPT ![c] = Nothing]
      PROVE  \A e \in Clients : request'[e].kind # "nothing" => request'[e] = request[e]
  BY <1>1, <1>9 DEF Nothing
<1>10. ASSUME NEW c \in Clients, InsertScroll(c) PROVE OldOrNew
  <2>1. workload' = workload /\ nextId' = nextId /\ pits' = pits
        /\ request' = [request EXCEPT ![c] = Nothing]
    BY <1>10 DEF InsertScroll
  <2>2. \A e \in Clients : request'[e].kind # "nothing" => request'[e] = request[e]
    BY <1>9, <2>1
  <2>3. QED
    BY <1>1, <2>1, <2>2 DEF OldOrNew
<1>11. ASSUME NEW c \in Clients, InsertPit(c) PROVE OldOrNew
  <2> DEFINE r == request[c]
  <2>1. /\ workload' = workload /\ nextId' = nextId /\ r.kind = "pit"
        /\ request' = [request EXCEPT ![c] = Nothing]
    BY <1>11 DEF InsertPit
  <2>2. PICK p : /\ pits' = LivePits \/ pits' = Put(LivePits, r.id, p)
                 /\ p.view = r.view
    <3> DEFINE p == [view |-> r.view, bytes |-> PitBytes(r.view), keepAlive |-> r.keepAlive,
                     expires |-> now + r.keepAlive]
    <3>1. pits' = LivePits \/ pits' = Put(LivePits, r.id, p)
      BY <1>11 DEF InsertPit, AdmitPit
    <3>2. p.view = r.view
      OBVIOUS
    <3> HIDE DEF p
    <3>3. QED
      BY <3>1, <3>2
  <2>3. ASSUME NEW i \in DOMAIN pits'
        PROVE  \/ i \in DOMAIN pits /\ pits'[i].view = pits[i].view
               \/ r.id = i /\ pits'[i].view = r.view
    <3>1. CASE pits' = LivePits
      BY <1>4, <2>3, <3>1
    <3>2. CASE pits' = Put(LivePits, r.id, p)
      <4> DEFINE live == LivePits
      <4>1. \A j \in DOMAIN live : j \in DOMAIN pits /\ live[j].view = pits[j].view
        BY <1>4
      <4>2. pits' = Put(live, r.id, p)
        BY <3>2
      <4> HIDE DEF live, r
      <4>3. QED
        BY <2>2, <2>3, <4>1, <4>2 DEF Put
    <3>3. QED
      BY <2>2, <3>1, <3>2
  <2>4. \A e \in Clients : request'[e].kind # "nothing" => request'[e] = request[e]
    BY <1>9, <2>1
  <2>5. \A i \in DOMAIN pits' :
          \/ i \in DOMAIN pits /\ pits'[i].view = pits[i].view
          \/ \E e \in Clients : /\ request[e].kind = "pit" /\ request[e].id = i
                                /\ pits'[i].view = request[e].view
    BY <2>1, <2>3
  <2>6. QED
    BY <1>1, <2>1, <2>4, <2>5 DEF OldOrNew
<1>12. ASSUME NEW i \in Ids, SearchPit(i) PROVE OldOrNew
  <2>1. \A j \in DOMAIN pits' : j \in DOMAIN pits /\ pits'[j].view = pits[j].view
    BY <1>12, PitViewsStay DEF SearchPit
  <2>2. QED
    BY <1>3, <1>12, <2>1 DEF SearchPit
<1>13. CASE ListPits
  <2>1. pits' = LivePits /\ workload' = workload /\ nextId' = nextId /\ request' = request
    BY <1>13 DEF ListPits
  <2>2. QED
    BY <1>3, <1>4, <2>1
<1>14. CASE DeletePits
  <2>1. PICK ids : pits' = Keep(LivePits, Ids \ ids)
    BY <1>14 DEF DeletePits
  <2>2. workload' = workload /\ nextId' = nextId /\ request' = request
    BY <1>14 DEF DeletePits
  <2>3. QED
    BY <1>3, <1>5, <2>1, <2>2
<1>15. CASE DeleteAllPits
  <2>1. DOMAIN pits' = {}
    BY <1>15 DEF DeleteAllPits, Empty
  <2>2. QED
    BY <1>3, <1>15, <2>1 DEF DeleteAllPits
<1>16. CASE RecordTask
  BY <1>1, <1>16 DEF RecordTask, NewId, OldOrNew
<1>17. QED
  BY <1>2, <1>7, <1>8, <1>10, <1>11, <1>12, <1>13, <1>14, <1>15, <1>16
     DEF Next, vars, NextScroll, ClearScrolls, WriteStore, Tick

\* A page ends with some document.
LEMMA LastHit ==
    ASSUME workload \in DOMAIN Workloads, NEW r, PageRequest(r), NEW view, Frozen(view),
           Search(view, r).status = "ok", Search(view, r).hits # <<>>
    PROVE  Last(Search(view, r).hits) \in AllHits(workload)
<1> DEFINE H == AllHits(workload)
           clauses == ClausesOf(r)
           hits == Search(view, r).hits
<1>1. PageSearch(H, view, r, clauses) /\ HitsOf(view) \subseteq H
  BY PagesAreSearched, FrozenHits
<1>2. Rest(view, r, clauses) \subseteq HitsOf(view)
  BY ScannedLists DEF Rest, SelectedHits, Matching
<1>3. NextPage(H, view, r, clauses, hits)
  <2> HIDE DEF H, clauses
  <2>1. Search(view, r) # Refused
    BY DEF Refused
  <2>2. QED
    BY <1>1, <2>1, SearchPages
<1>4. QED
  BY <1>1, <1>2, <1>3 DEF NextPage

LEMMA RequestStays ==
    ASSUME workload' = workload, NEW r
    PROVE  /\ PageRequest(r) => PageRequest(r)'
           /\ SortsSeveralById(r)' = SortsSeveralById(r)
  BY DEF PageRequest, SortsSeveralById, Databases

LEMMA FrozenStays ==
    ASSUME workload' = workload, NEW view, Frozen(view)
    PROVE  Frozen(view)'
  BY DEF Frozen, Databases

LEMMA PitPagingStays ==
    ASSUME ContextsInv, OldOrNew, NEW s, PitPaging(s)
    PROVE  PitPaging(s)'
<1>1. workload' = workload /\ nextId \in Nat /\ nextId' \in Nat /\ nextId <= nextId'
  BY Facts DEF OldOrNew
<1>2. PageRequest(s.request)' /\ Frozen(s.view)'
  BY <1>1, RequestStays, FrozenStays DEF PitPaging
<1>3. s.pit \in 1..nextId' /\ s.pit # nextId + 1
  <2>1. s.pit \in 1..nextId
    BY DEF PitPaging
  <2>2. QED
    BY <1>1, <2>1
<1>4. \A c \in Clients : request'[c].kind # "nothing" => request'[c].id # s.pit
  BY <1>3 DEF PitPaging, OldOrNew
<1>5. ASSUME s.pit \in DOMAIN pits' PROVE pits'[s.pit].view = s.view
  <2>1. ~\E c \in Clients : request[c].kind = "pit" /\ request[c].id = s.pit
    BY DEF PitPaging
  <2>2. s.pit \in DOMAIN pits /\ pits'[s.pit].view = pits[s.pit].view
    BY <1>5, <2>1 DEF OldOrNew
  <2>3. QED
    BY <2>2 DEF PitPaging
<1>6. Lists(SentHits(s), {h \in Matched(s.view, s.request) : Reached(h, s.request)},
            Before(AllHits(workload), ClausesOf(s.request)))'
  BY <1>1 DEF PitPaging
<1>7. QED
  BY <1>2, <1>3, <1>4, <1>5, <1>6 DEF PitPaging

LEMMA LivePagingStays ==
    ASSUME workload' = workload, db' = db, NEW s, LivePaging(s)
    PROVE  LivePaging(s)'
<1>1. PageRequest(s.request)' /\ SortsSeveralById(s.request)' = SortsSeveralById(s.request)
  BY RequestStays DEF LivePaging
<1>2. QED
  BY <1>1 DEF LivePaging

\* While no write comes, a search stands where it stood.
LEMMA PagingStays ==
    ASSUME ContextsInv, OldOrNew, db' = db
    PROVE  \A s : Paging(s) => Paging(s)'
<1> SUFFICES ASSUME NEW s, Paging(s) PROVE Paging(s)'
  OBVIOUS
<1>1. CASE s.request.pit
  BY <1>1, PitPagingStays DEF Paging
<1>2. CASE ~s.request.pit
  BY <1>2, LivePagingStays DEF Paging, OldOrNew
<1>3. QED
  BY <1>1, <1>2

LEMMA MovedFields ==
    ASSUME NEW s, LiveSession(s) \/ PitSession(s), NEW phase, NEW sent, NEW cursor, NEW unchanged
    PROVE  LET m == Moved(s, phase, sent, cursor, unchanged)
           IN  /\ m.phase = phase /\ m.sent = sent /\ m.unchanged = unchanged
               /\ m.request = [s.request EXCEPT !.cursor = cursor]
               /\ PitSession(s) => m.pit = s.pit /\ m.view = s.view
<1> DEFINE r == [s.request EXCEPT !.cursor = cursor]
           m == Moved(s, phase, sent, cursor, unchanged)
<1>1. m = [s EXCEPT !.phase = phase, !.sent = sent, !.request = r, !.unchanged = unchanged]
  BY DEF Moved
<1> HIDE DEF m, r
<1>2. CASE LiveSession(s)
  <2>1. s = [phase |-> s.phase, request |-> s.request, sent |-> s.sent, unchanged |-> s.unchanged]
    BY <1>2 DEF LiveSession
  <2>2. m = [phase |-> phase, request |-> r, sent |-> sent, unchanged |-> unchanged]
    BY <1>1, <2>1
  <2>3. ~PitSession(s)
    BY <1>2 DEF LiveSession, PitSession
  <2>4. QED
    BY <2>2, <2>3 DEF m, r
<1>3. CASE PitSession(s)
  <2>1. s = [phase |-> s.phase, request |-> s.request, pit |-> s.pit, view |-> s.view,
             sent |-> s.sent, unchanged |-> s.unchanged]
    BY <1>3 DEF PitSession
  <2>2. m = [phase |-> phase, request |-> r, pit |-> s.pit, view |-> s.view, sent |-> sent,
             unchanged |-> unchanged]
    BY <1>1, <2>1
  <2>3. QED
    BY <2>2 DEF m, r
<1>4. QED
  BY <1>2, <1>3

LEMMA HitsBefore ==
    ASSUME workload \in DOMAIN Workloads, NEW r, PageRequest(r), NEW view, Frozen(view),
           NEW P, P \subseteq HitsOf(view)
    PROVE  StrictOrder(P, Before(AllHits(workload), ClausesOf(r)))
<1> DEFINE H == AllHits(workload)
           clauses == ClausesOf(r)
<1>1. Sortable(H, clauses) /\ P \subseteq H
  BY RequestSortable, FrozenHits
<1>2. Distinct(P)
  BY HitsDistinct DEF Distinct
<1> HIDE DEF H, clauses
<1>3. StrictOrder(P, Before(H, clauses))
  BY <1>1, <1>2, BeforeIsOrder
<1>4. QED
  BY <1>3 DEF H, clauses

LEMMA JoinProps ==
    ASSUME NEW S, NEW s \in Seq(S), NEW t \in Seq(S)
    PROVE  /\ s \o t \in Seq(S) /\ Len(s \o t) = Len(s) + Len(t)
           /\ \A i \in 1..(Len(s) + Len(t)) :
                 (s \o t)[i] = IF i <= Len(s) THEN s[i] ELSE t[i - Len(s)]
  BY ConcatProperties

\* The documents of the keys that have been answered, with those of another page.
LEMMA SentJoins ==
    ASSUME NEW view, NEW keys \in Seq(DocKeys), NEW hits \in Seq(HitsOf(view))
    PROVE  /\ keys \o Keys(hits) \in Seq(DocKeys)
           /\ HitsAt(view, keys \o Keys(hits)) = HitsAt(view, keys) \o hits
<1> DEFINE T == HitsOf(view)
           page == Keys(hits)
           sent == keys \o page
           one == HitsAt(view, keys)
           all == HitsAt(view, sent)
           m == Len(keys)
           n == Len(hits)
<1>1. \A h \in T : h = Hit(view, KeyOfHit(h)) /\ KeyOfHit(h) \in DocKeys
  BY HitsDistinct
<1> HIDE DEF T
<1>2. /\ m \in Nat /\ DOMAIN keys = 1..m /\ \A i \in 1..m : keys[i] \in DocKeys
      /\ n \in Nat /\ DOMAIN hits = 1..n /\ \A i \in 1..n : hits[i] \in T
  BY LenProperties DEF T
<1>3. page \in Seq(DocKeys) /\ Len(page) = n /\ \A i \in 1..n : page[i] = KeyOfHit(hits[i])
  <2>1. page \in [1..n -> DocKeys] /\ \A i \in 1..n : page[i] = KeyOfHit(hits[i])
    BY <1>1, <1>2 DEF Keys
  <2> HIDE DEF page, n
  <2>2. QED
    BY <1>2, <2>1, FunctionIsSeq
<1> HIDE DEF page, sent
<1>4. /\ sent \in Seq(DocKeys) /\ Len(sent) = m + n
      /\ \A i \in 1..(m + n) : sent[i] = IF i <= m THEN keys[i] ELSE page[i - m]
  <2>1. sent = keys \o page
    BY DEF sent
  <2> DEFINE K == DocKeys
  <2>2. keys \in Seq(K) /\ page \in Seq(K) /\ m = Len(keys) /\ n = Len(page)
    BY <1>3
  <2> HIDE DEF K, m, n
  <2>3. /\ keys \o page \in Seq(K) /\ Len(keys \o page) = m + n
        /\ \A i \in 1..(m + n) : (keys \o page)[i] = IF i <= m THEN keys[i] ELSE page[i - m]
    BY <2>2, JoinProps
  <2>4. QED
    BY <2>1, <2>3 DEF K
<1>5. DOMAIN sent = 1..(m + n)
  BY <1>4, LenProperties
<1> DEFINE U == {Hit(view, k) : k \in DocKeys}
<1>6. one \in Seq(U) /\ Len(one) = m /\ \A i \in 1..m : one[i] = Hit(view, keys[i])
  <2>1. one \in [1..m -> U] /\ \A i \in 1..m : one[i] = Hit(view, keys[i])
    BY <1>2 DEF HitsAt
  <2> HIDE DEF one, m, U
  <2>2. QED
    BY <1>2, <2>1, FunctionIsSeq
<1>7. hits \in Seq(U)
  <2>1. T \subseteq U
    BY <1>1
  <2> HIDE DEF U
  <2>2. QED
    BY <2>1 DEF T
<1> HIDE DEF one
<1>8. /\ Len(one \o hits) = m + n /\ one \o hits \in Seq(U)
      /\ \A i \in 1..(m + n) : (one \o hits)[i] = IF i <= m THEN one[i] ELSE hits[i - m]
  <2>1. one \in Seq(U) /\ hits \in Seq(U) /\ m = Len(one) /\ n = Len(hits)
    BY <1>6, <1>7
  <2> HIDE DEF U, m, n
  <2>2. QED
    BY <2>1, JoinProps
<1>9. ASSUME NEW i \in 1..(m + n) PROVE Hit(view, sent[i]) = (one \o hits)[i]
  <2>1. CASE i <= m
    <3>1. i \in 1..m
      BY <1>2, <2>1
    <3>2. QED
      BY <1>4, <1>6, <1>8, <2>1, <3>1
  <2>2. CASE ~(i <= m)
    <3>1. i - m \in 1..n
      BY <1>2, <2>2
    <3>2. Hit(view, page[i - m]) = hits[i - m]
      BY <1>1, <1>2, <1>3, <3>1
    <3>3. QED
      BY <1>4, <1>8, <2>2, <3>2
  <2>3. QED
    BY <2>1, <2>2
<1>10. all = one \o hits
  <2>1. DOMAIN (one \o hits) = 1..(m + n) /\ one \o hits = [i \in 1..(m + n) |-> (one \o hits)[i]]
    <3> DEFINE t == one \o hits
    <3>1. t \in Seq(U) /\ Len(t) = m + n
      BY <1>8
    <3> HIDE DEF t, U
    <3>2. t \in [1..(m + n) -> U]
      BY <3>1, LenProperties
    <3>3. QED
      BY <3>2 DEF t
  <2>2. all = [i \in 1..(m + n) |-> (one \o hits)[i]]
    BY <1>5, <1>9 DEF HitsAt
  <2>3. QED
    BY <2>1, <2>2
<1>11. QED
  BY <1>4, <1>10 DEF one, sent, page

\* A page of the live database.
LEMMA LiveAnswered ==
    ASSUME Surroundings, NEW s, LiveSession(s), LivePaging(s),
           NEW a, a = Answered(s, Search(db, s.request)), a # Idle
    PROVE  a.request.pit = FALSE /\ LivePaging(a)
<1> DEFINE r == s.request
           answer == Search(db, r)
           hits == answer.hits
           H == AllHits(workload)
           clauses == ClausesOf(r)
<1>1. PageRequest(r) /\ r.pit = FALSE
  BY DEF LivePaging, LiveSession
<1>2. workload \in DOMAIN Workloads /\ db \in Databases /\ Frozen(db) /\ HitsOf(db) \subseteq H
  BY StoredIsFrozen, FrozenHits DEF Surroundings
<1>3. /\ answer.status # "refused"
      /\ a = IF answer.status = "ok" /\ hits = <<>> THEN [s EXCEPT !.phase = "done"]
             ELSE Moved(s, "validate", s.sent, CursorAfter(r, hits),
                        [k \in DOMAIN s.unchanged |->
                            s.unchanged[k] + Cardinality({i \in DOMAIN hits : KeyOfHit(hits[i]) = k})])
  BY <1>1 DEF Answered, Moved
<1>4. answer # Refused
  BY <1>3 DEF Refused
<1>5. answer.status = "ok"
  <2>1. PageSearch(H, db, r, clauses)
    BY <1>1, <1>2, PagesAreSearched
  <2> HIDE DEF H, clauses, answer
  <2>2. QED
    BY <1>4, <2>1, SearchPages DEF answer
<1> DEFINE Tied == SortsSeveralById(r)
<1>6. ASSUME ~Tied PROVE PageStep(H, db, r, hits)
  <2>1. TieFree(SelectedHits(db, r), clauses)
    BY <1>1, <1>2, <1>6, LiveTieFree
  <2>2. QED
    BY <1>1, <1>2, <1>4, <2>1, SearchSteps
<1>7. ASSUME ~Tied, NEW k \in DOMAIN s.unchanged
      PROVE  /\ k \in MatchedKeys(db, r) /\ Hit(db, k) \in Matched(db, r) /\ Hit(db, k) \in HitsOf(db)
             /\ KeyOfHit(Hit(db, k)) = k
             /\ s.unchanged[k] = IF Reached(Hit(db, k), r) THEN 1 ELSE 0
  <2>1. k \in MatchedKeys(db, r) /\ s.unchanged[k] = IF Reached(Hit(db, k), r) THEN 1 ELSE 0
    BY <1>7 DEF LivePaging
  <2>2. QED
    BY <2>1, MatchedFacts DEF Matched
<1> HIDE DEF answer, hits, clauses, H, Tied
<1>8. CASE hits = <<>>
  <2>1. a = [s EXCEPT !.phase = "done"]
    BY <1>3, <1>5, <1>8
  <2>2. a.request = r /\ a.unchanged = s.unchanged
    BY <2>1 DEF LiveSession
  <2>3. ASSUME ~Tied, NEW k \in DOMAIN s.unchanged
        PROVE  s.unchanged[k] = 1
    <3>1. ~\E x \in Matched(db, r), P \in SUBSET Matched(db, r) :
              /\ hits # <<>> /\ Last(hits) = x /\ Lists(hits, P, Before(H, ClausesOf(r)))
              /\ \A h \in P : ~Reached(h, r)
              /\ \A g \in Matched(db, r), h \in P : Reached(g, r) => <<g, h>> \in Before(H, ClausesOf(r))
              /\ \A h \in Matched(db, r) :
                    Reached(h, r) \/ h \in P <=> CompareHits(h, x, ClausesOf(r)) # "greater"
      BY <1>8
    <3>2. \A h \in Matched(db, r) : Reached(h, r)
      BY <1>6, <2>3, <3>1 DEF PageStep
    <3>3. QED
      BY <1>7, <2>3, <3>2
  <2>4. ASSUME ~Tied, NEW k \in DOMAIN a.unchanged
        PROVE  /\ k \in MatchedKeys(db, a.request)
               /\ a.unchanged[k] = IF Reached(Hit(db, k), a.request) THEN 1 ELSE 0
               /\ a.unchanged[k] = 1
    BY <1>7, <2>2, <2>3, <2>4
  <2>5. LivePaging(a)
    BY <1>1, <2>2, <2>4 DEF LivePaging, Tied
  <2>6. QED
    BY <1>1, <2>2, <2>5
<1>9. CASE hits # <<>>
  <2> DEFINE unchanged == [k \in DOMAIN s.unchanged |->
                 s.unchanged[k] + Cardinality({i \in DOMAIN hits : KeyOfHit(hits[i]) = k})]
             x == Last(hits)
             q == [r EXCEPT !.cursor = CursorAfter(r, hits)]
  <2>1. a = Moved(s, "validate", s.sent, CursorAfter(r, hits), unchanged)
    BY <1>3, <1>9
  <2>2. a.phase = "validate" /\ a.unchanged = unchanged /\ a.request = q
    <3> HIDE DEF unchanged
    <3>1. QED
      BY <2>1, MovedFields
  <2>3. x \in H
    BY <1>1, <1>2, <1>5, <1>9, LastHit DEF hits, answer, H
  <2>4. /\ PageRequest(q) /\ q.indices = r.indices /\ q.query = r.query /\ q.pit = r.pit /\ q.sort = r.sort
        /\ \A h : Reached(h, q) <=> CompareHits(h, x, clauses) # "greater"
    <3> HIDE DEF q, x
    <3>1. QED
      BY <1>1, <1>9, <2>3, NextRequest DEF q, x, H, clauses
  <2>5. MatchedKeys(db, q) = MatchedKeys(db, r) /\ (SortsSeveralById(q) <=> Tied)
    <3> HIDE DEF q
    <3>1. QED
      BY <2>4 DEF MatchedKeys, Scanned, SortsSeveralById, Tied
  <2> HIDE DEF x, q
  <2>6. ASSUME ~Tied, NEW k \in DOMAIN s.unchanged
        PROVE  unchanged[k] = IF Reached(Hit(db, k), q) THEN 1 ELSE 0
    <3> DEFINE h == Hit(db, k)
               old == s.unchanged[k]
               onPage == Cardinality({i \in DOMAIN hits : KeyOfHit(hits[i]) = k})
               R == Before(H, clauses)
    <3>1. PICK P \in SUBSET Matched(db, r) :
            /\ Lists(hits, P, R)
            /\ \A g \in P : ~Reached(g, r)
            /\ \A g \in Matched(db, r) :
                  Reached(g, r) \/ g \in P <=> CompareHits(g, x, clauses) # "greater"
      BY <1>6, <1>9, <2>6 DEF PageStep, x, clauses
    <3>2. P \subseteq HitsOf(db)
      BY <3>1, MatchedFacts
    <3>3. StrictOrder(P, R)
      BY <1>1, <1>2, <3>2, HitsBefore DEF H, clauses
    <3>4. h \in Matched(db, r) /\ h \in HitsOf(db) /\ KeyOfHit(h) = k
          /\ old = IF Reached(h, r) THEN 1 ELSE 0
      BY <1>7, <2>6
    <3> HIDE DEF R, h
    <3>5. onPage = IF h \in P THEN 1 ELSE 0
      BY <3>1, <3>2, <3>3, <3>4, OnPage
    <3>6. unchanged[k] = old + onPage
      BY <2>6
    <3>7. Reached(h, r) \/ h \in P <=> Reached(h, q)
      BY <2>4, <3>1, <3>4
    <3>8. ~(Reached(h, r) /\ h \in P)
      BY <3>1
    <3> HIDE DEF unchanged, old, onPage
    <3>9. QED
      BY <3>4, <3>5, <3>6, <3>7, <3>8 DEF h
  <2>7. DOMAIN unchanged = DOMAIN s.unchanged
    OBVIOUS
  <2> HIDE DEF unchanged
  <2>8. LivePaging(a)
    BY <1>7, <2>2, <2>4, <2>5, <2>6, <2>7 DEF LivePaging, Tied
  <2>9. QED
    BY <1>1, <2>2, <2>4, <2>8
<1>10. QED
  BY <1>8, <1>9

\* A page of a point in time.
LEMMA PitAnswered ==
    ASSUME Surroundings, NEW s, PitSession(s), PitPaging(s),
           NEW a, a = Answered(s, Search(s.view, s.request)), a # Idle
    PROVE  a.request.pit = TRUE /\ PitPaging(a)
<1> DEFINE r == s.request
           view == s.view
           answer == Search(view, r)
           hits == answer.hits
           H == AllHits(workload)
           clauses == ClausesOf(r)
           R == Before(H, clauses)
<1>1. PageRequest(r) /\ r.pit = TRUE /\ Frozen(view)
  BY DEF PitPaging, PitSession
<1>2. workload \in DOMAIN Workloads
  BY DEF Surroundings
<1> DEFINE unchanged == [k \in DOMAIN s.unchanged |->
               s.unchanged[k] + Cardinality({i \in DOMAIN hits : KeyOfHit(hits[i]) = k})]
<1>3. /\ answer.status # "refused"
      /\ a = IF answer.status = "ok" /\ hits = <<>> THEN [s EXCEPT !.phase = "done"]
             ELSE Moved(s, "pit", s.sent \o Keys(hits), CursorAfter(r, hits), unchanged)
  BY <1>1 DEF Answered, Moved
<1>4. answer # Refused
  BY <1>3 DEF Refused
<1>5. answer.status = "ok" /\ PageStep(H, view, r, hits)
  <2>1. TieFree(SelectedHits(view, r), clauses)
    BY <1>1, PitTieFree
  <2>2. QED
    BY <1>1, <1>2, <1>4, <2>1, SearchSteps
<1>6. /\ s.pit \in 1..nextId
      /\ s.pit \in DOMAIN pits => pits[s.pit].view = view
      /\ \A c \in Clients : request[c].kind # "nothing" => request[c].id # s.pit
      /\ s.sent \in Seq(DocKeys)
      /\ Lists(SentHits(s), {h \in Matched(view, r) : Reached(h, r)}, R)
  BY DEF PitPaging
<1> HIDE DEF answer, hits, clauses, H, unchanged
<1>7. CASE hits = <<>>
  <2>1. a = [s EXCEPT !.phase = "done"]
    BY <1>3, <1>5, <1>7
  <2>2. a.request = r /\ a.pit = s.pit /\ a.view = view /\ a.sent = s.sent
    BY <2>1 DEF PitSession
  <2>3. \A h \in Matched(view, r) : Reached(h, r)
    BY <1>5, <1>7 DEF PageStep
  <2>4. SentHits(a) = SentHits(s)
    BY <2>2 DEF SentHits
  <2>5. PitPaging(a)
    BY <1>1, <1>6, <2>2, <2>3, <2>4 DEF PitPaging, H, clauses
  <2>6. QED
    BY <1>1, <2>2, <2>5
<1>8. CASE hits # <<>>
  <2> DEFINE x == Last(hits)
             q == [r EXCEPT !.cursor = CursorAfter(r, hits)]
             sent == s.sent \o Keys(hits)
             S == {h \in Matched(view, r) : Reached(h, r)}
  <2>1. a = Moved(s, "pit", sent, CursorAfter(r, hits), unchanged)
    BY <1>3, <1>8
  <2>2. a.phase = "pit" /\ a.sent = sent /\ a.request = q /\ a.pit = s.pit /\ a.view = view
    <3> HIDE DEF sent
    <3>1. QED
      BY <2>1, MovedFields
  <2>3. x \in H
    BY <1>1, <1>2, <1>5, <1>8, LastHit DEF hits, answer, H
  <2>4. /\ PageRequest(q) /\ q.indices = r.indices /\ q.query = r.query /\ q.pit = r.pit
        /\ ClausesOf(q) = clauses
        /\ \A h : Reached(h, q) <=> CompareHits(h, x, clauses) # "greater"
    <3> HIDE DEF q, x
    <3>1. QED
      BY <1>1, <1>8, <2>3, NextRequest DEF q, x, H, clauses
  <2> HIDE DEF x, q
  <2>5. Matched(view, q) = Matched(view, r)
    BY <2>4 DEF Matched, MatchedKeys, Scanned
  <2>6. PICK P \in SUBSET Matched(view, r) :
          /\ Lists(hits, P, R)
          /\ \A g \in Matched(view, r), h \in P : Reached(g, r) => <<g, h>> \in R
          /\ \A h \in Matched(view, r) :
                Reached(h, r) \/ h \in P <=> CompareHits(h, x, clauses) # "greater"
    BY <1>5, <1>8 DEF PageStep, x, clauses
  <2>7. S \cup P = {h \in Matched(view, q) : Reached(h, q)}
    BY <2>4, <2>5, <2>6
  <2>8. Lists(SentHits(s) \o hits, S \cup P, R)
    <3>1. \A g \in S, h \in P : <<g, h>> \in R
      BY <2>6
    <3>2. Lists(SentHits(s), S, R)
      BY <1>6
    <3> DEFINE one == SentHits(s)
    <3> HIDE DEF R, S, one
    <3>3. Lists(one \o hits, S \cup P, R)
      BY <2>6, <3>1, <3>2, ConcatLists DEF one
    <3>4. QED
      BY <3>3 DEF one
  <2>9. sent \in Seq(DocKeys) /\ SentHits(a) = SentHits(s) \o hits
    <3>1. hits \in Seq(HitsOf(view))
      <4>1. P \subseteq HitsOf(view)
        BY <2>6, MatchedFacts
      <4>2. QED
        BY <2>6, <4>1 DEF Lists
    <3> DEFINE keys == s.sent
    <3>2. keys \in Seq(DocKeys) /\ sent = keys \o Keys(hits)
      BY <1>6
    <3> HIDE DEF sent, keys, view
    <3>3. /\ keys \o Keys(hits) \in Seq(DocKeys)
          /\ HitsAt(view, keys \o Keys(hits)) = HitsAt(view, keys) \o hits
      BY <3>1, <3>2, SentJoins
    <3>4. HitsAt(view, keys) = SentHits(s)
      BY DEF keys, view, SentHits
    <3>5. QED
      BY <2>2, <3>2, <3>3, <3>4 DEF SentHits
  <2> HIDE DEF sent, S
  <2>10. Lists(SentHits(a), {h \in Matched(view, q) : Reached(h, q)}, R)
    BY <2>7, <2>8, <2>9
  <2>11. PitPaging(a)
    BY <1>1, <1>6, <2>2, <2>4, <2>9, <2>10 DEF PitPaging, H
  <2>12. QED
    BY <1>1, <2>2, <2>4, <2>11
<1>9. QED
  BY <1>7, <1>8

LEMMA PagingInitInv == SearchInit => PagingInv
<1> SUFFICES ASSUME SearchInit PROVE PagingInv
  OBVIOUS
<1>1. DOMAIN pits = {} /\ \A c \in Clients : request[c].kind # "pit"
  BY DEF SearchInit, Init, Empty, Nothing
<1>2. QED
  BY <1>1, SearchInitInv DEF PagingInv, ViewsFrozen, SearchInit

\* The requests of pagers.
LEMMA PagerRequest ==
    ASSUME NEW r \in PageRequests
    PROVE  /\ r.pit = FALSE /\ r.cursor = <<>>
           /\ r.sort # <<>> => PageRequest(r)
           /\ LET q == [r EXCEPT !.indices = {}, !.pit = TRUE]
              IN  PageRequest(q) /\ q.pit = TRUE /\ q.cursor = <<>>
<1>1. /\ IsRequest(r) /\ ~r.pit /\ r.cursor = <<>> /\ r.from = 0 /\ r.size \in Nat \ {0}
  BY PageRequestsAssumption
<1>2. r.pit = FALSE
  BY <1>1 DEF IsRequest
<1> DEFINE q == [r EXCEPT !.indices = {}, !.pit = TRUE]
<1>3. /\ IsRequest(q) /\ q.pit = TRUE /\ q.cursor = <<>> /\ q.from = 0 /\ q.size = r.size
      /\ q.sort = r.sort
  BY <1>1 DEF IsRequest
<1> HIDE DEF q
<1>4. PageRequest(q)
  BY <1>1, <1>3 DEF PageRequest
<1>5. QED
  BY <1>1, <1>2, <1>3, <1>4 DEF PageRequest, q

LEMMA NothingReached == \A h, r : r.cursor = <<>> => ~Reached(h, r)
  BY DEF Reached

LEMMA SnapshotFrozen ==
    ASSUME db \in Databases, NEW requested
    PROVE  Frozen(PitSnapshot(requested))
<1> DEFINE names == ExpandIndices(db, requested)
           f == db.indexes
           view == PitSnapshot(requested)
<1>1. view.indexes = Keep(f, names)
  BY DEF PitSnapshot
<1> HIDE DEF names, f, view
<1>2. DOMAIN view.indexes \subseteq DOMAIN f /\ \A n \in DOMAIN view.indexes : view.indexes[n] = f[n]
  BY <1>1 DEF Keep, Restrict
<1>3. QED
  BY <1>2 DEF Frozen, PartOf, f, view

LEMMA ViewsStayFrozen ==
    ASSUME ContextsInv, ViewsFrozen, OldOrNew
    PROVE  ViewsFrozen'
<1>1. workload' = workload /\ db \in Databases
  BY DEF OldOrNew, ContextsInv, Surroundings
<1>2. ASSUME NEW i \in DOMAIN pits' PROVE Frozen(pits[i].view)'
  <2> DEFINE view == pits'[i].view
  <2>1. \/ i \in DOMAIN pits /\ view = pits[i].view
        \/ \E c \in Clients : request[c].kind = "pit" /\ view = request[c].view
    BY <1>2 DEF OldOrNew
  <2>2. Frozen(view)
    BY <2>1 DEF ViewsFrozen
  <2>3. QED
    BY <1>1, <2>2 DEF Frozen, Databases
<1>3. ASSUME NEW c \in Clients, request'[c].kind = "pit" PROVE Frozen(request[c].view)'
  <2> DEFINE view == request'[c].view
  <2>1. \/ request'[c] = request[c]
        \/ \E requested \in PitIndices : view = PitSnapshot(requested)
    BY <1>3 DEF OldOrNew
  <2>2. Frozen(view)
    BY <1>1, <1>3, <2>1, SnapshotFrozen DEF ViewsFrozen
  <2>3. QED
    BY <1>1, <2>2 DEF Frozen, Databases
<1>4. QED
  BY <1>2, <1>3 DEF ViewsFrozen

\* A write between two requests of a pager.
LEMMA WriteStays ==
    ASSUME SearchInv, OldOrNew, NEW s, GoodSession(s, Kinds), s # Idle, Paging(s),
           NEW t, t = [s EXCEPT !.unchanged =
                          Keep(@, SameIn(db, db') \cap MatchedKeys(db', s.request))]
    PROVE  Paging(t)'
<1> DEFINE r == s.request
           K == SameIn(db, db') \cap MatchedKeys(db', r)
           u == s.unchanged
<1>1. workload' = workload /\ ContextsInv
  BY DEF OldOrNew, SearchInv
<1>2. CASE PitSession(s)
  <2>1. /\ t.request = s.request /\ t.pit = s.pit /\ t.view = s.view /\ t.sent = s.sent
        /\ t.phase = s.phase /\ s.request.pit = TRUE
    <3> HIDE DEF K
    <3>1. t = [s EXCEPT !.unchanged = Keep(u, K)]
      BY DEF K
    <3>2. QED
      BY <1>2, <3>1 DEF PitSession
  <2>2. PitPaging(t)
    BY <2>1 DEF Paging, PitPaging, SentHits
  <2>3. PitPaging(t)'
    BY <1>1, <2>2, PitPagingStays
  <2>4. QED
    BY <2>1, <2>3 DEF Paging
<1>3. CASE LiveSession(s)
  <2> HIDE DEF K, u
  <2>1. t = [s EXCEPT !.unchanged = Keep(u, K)]
    BY DEF K, u
  <2>2. t.request = r /\ t.phase = s.phase /\ t.unchanged = Keep(u, K) /\ r.pit = FALSE
    BY <1>3, <2>1 DEF LiveSession
  <2>3. LivePaging(s)
    BY <2>2 DEF Paging
  <2>4. PageRequest(r)' /\ SortsSeveralById(r)' = SortsSeveralById(r)
    BY <1>1, <2>3, RequestStays DEF LivePaging
  <2>5. DOMAIN Keep(u, K) = DOMAIN u \cap K /\ \A k \in DOMAIN u \cap K : Keep(u, K)[k] = u[k]
    BY DEF Keep, Restrict
  <2>6. \A k \in K : k \in MatchedKeys(db', r) /\ Hit(db, k) = Hit(db', k)
    BY DEF K, SameIn
  <2> HIDE DEF r
  <2>7. ASSUME ~SortsSeveralById(r), NEW k \in DOMAIN t.unchanged
        PROVE  /\ k \in MatchedKeys(db', r)
               /\ t.unchanged[k] = IF Reached(Hit(db', k), r) THEN 1 ELSE 0
               /\ t.phase = "done" => t.unchanged[k] = 1
    <3>1. k \in DOMAIN u /\ k \in K /\ t.unchanged[k] = u[k]
      BY <2>2, <2>5, <2>7
    <3>2. /\ u[k] = IF Reached(Hit(db, k), r) THEN 1 ELSE 0
          /\ s.phase = "done" => u[k] = 1
      BY <2>3, <2>7, <3>1 DEF LivePaging, r, u
    <3>3. QED
      BY <2>2, <2>6, <3>1, <3>2
  <2>8. LivePaging(t)'
    BY <2>2, <2>4, <2>7 DEF LivePaging
  <2>9. QED
    BY <2>2, <2>8 DEF Paging
<1>4. QED
  BY <1>2, <1>3 DEF GoodSession

LEMMA PagingNextInv == PagingInv /\ [SearchNext]_searchVars => PagingInv'
<1> SUFFICES ASSUME PagingInv, [SearchNext]_searchVars PROVE PagingInv'
  OBVIOUS
<1>1. /\ SearchInv /\ ContextsInv /\ Surroundings /\ ViewsFrozen
      /\ DOMAIN session = Pagers /\ \A p \in Pagers : GoodSession(session[p], Kinds)
      /\ \A p \in Pagers : session[p] = Idle \/ Paging(session[p])
  BY DEF PagingInv, SearchInv, ContextsInv
<1>2. SearchInv' /\ OldOrNew /\ ViewsFrozen'
  BY <1>1, SearchNextInv, StepIsContextStep, StepOldOrNew, ViewsStayFrozen
<1> DEFINE Good == \A p \in Pagers : session'[p] = Idle \/ Paging(session[p])'
<1>3. ASSUME session' = session, db' = db PROVE Good
  <2>1. \A s : Paging(s) => Paging(s)'
    BY <1>1, <1>2, <1>3, PagingStays
  <2>2. QED
    BY <1>1, <1>3, <2>1
<1>4. ASSUME NEW p \in Pagers, NEW s, session' = [session EXCEPT ![p] = s], db' = db,
             s = Idle \/ Paging(s)
      PROVE  Good
  <2>1. \A t : Paging(t) => Paging(t)'
    BY <1>1, <1>2, <1>4, PagingStays
  <2>2. \A q \in Pagers : session'[q] = IF q = p THEN s ELSE session[q]
    BY <1>1, <1>4
  <2>3. QED
    BY <1>1, <1>4, <2>1, <2>2
<1>5. ASSUME NEW p \in Pagers, session[p].phase \in {"validate", "search"}
      PROVE  LiveSession(session[p]) /\ LivePaging(session[p])
  BY <1>1, <1>5 DEF GoodSession, PitSession, LiveSession, Idle, Paging
<1>6. ASSUME NEW p \in Pagers, StartPaging(p) PROVE Good
  <2>1. PICK r \in PageRequests : r.sort # <<>> /\ session' = [session EXCEPT ![p] =
            [phase |-> "validate", request |-> r, sent |-> <<>>,
             unchanged |-> [k \in MatchedKeys(db, r) |-> 0]]]
    BY <1>6 DEF StartPaging
  <2> DEFINE s == [phase |-> "validate", request |-> r, sent |-> <<>>,
                   unchanged |-> [k \in MatchedKeys(db, r) |-> 0]]
  <2>2. PageRequest(r) /\ r.pit = FALSE /\ \A h : ~Reached(h, r)
    BY <2>1, PagerRequest, NothingReached
  <2>3. s.request = r /\ s.phase = "validate" /\ s.unchanged = [k \in MatchedKeys(db, r) |-> 0]
    OBVIOUS
  <2> HIDE DEF s
  <2>4. Paging(s)
    BY <2>2, <2>3 DEF Paging, LivePaging
  <2>5. db' = db
    BY <1>6 DEF StartPaging, vars
  <2>6. QED
    BY <1>4, <2>1, <2>4, <2>5 DEF s
<1>7. ASSUME NEW p \in Pagers, ValidatePage(p) PROVE Good
  <2> DEFINE s == session[p]
             t == [s EXCEPT !.phase = "search"]
  <2>1. LiveSession(s) /\ LivePaging(s)
    BY <1>5, <1>7 DEF ValidatePage
  <2>2. session' = [session EXCEPT ![p] = Idle] \/ session' = [session EXCEPT ![p] = t]
    BY <1>7 DEF ValidatePage
  <2> HIDE DEF s
  <2>3. t.request = s.request /\ t.unchanged = s.unchanged /\ t.phase = "search" /\ s.request.pit = FALSE
    BY <2>1 DEF LiveSession
  <2> HIDE DEF t
  <2>4. Paging(t)
    BY <2>1, <2>3 DEF Paging, LivePaging
  <2>5. db' = db
    BY <1>7 DEF ValidatePage, vars
  <2>6. QED
    BY <1>4, <2>2, <2>4, <2>5
<1>8. ASSUME NEW p \in Pagers, SearchPage(p) PROVE Good
  <2> DEFINE s == session[p]
             a == Answered(s, Search(db, s.request))
  <2>1. LiveSession(s) /\ LivePaging(s)
    BY <1>5, <1>8 DEF SearchPage
  <2>2. session' = [session EXCEPT ![p] = a] /\ db' = db
    BY <1>8 DEF SearchPage, vars
  <2>3. a = Idle \/ (a.request.pit = FALSE /\ LivePaging(a))
    <3> HIDE DEF s
    <3>1. QED
      BY <1>1, <2>1, LiveAnswered
  <2> HIDE DEF a
  <2>4. a = Idle \/ Paging(a)
    BY <2>3 DEF Paging
  <2>5. QED
    BY <1>4, <2>2, <2>4
<1>9. ASSUME NEW p \in Pagers, StartPitPaging(p) PROVE Good
  <2>1. PICK r \in PageRequests, i \in DOMAIN pits : session' = [session EXCEPT ![p] =
            [phase |-> "pit", request |-> [r EXCEPT !.indices = {}, !.pit = TRUE],
             pit |-> i, view |-> pits[i].view, sent |-> <<>>, unchanged |-> Empty]]
    BY <1>9 DEF StartPitPaging
  <2> DEFINE q == [r EXCEPT !.indices = {}, !.pit = TRUE]
             s == [phase |-> "pit", request |-> q, pit |-> i, view |-> pits[i].view, sent |-> <<>>,
                   unchanged |-> Empty]
  <2>2. PageRequest(q) /\ q.pit = TRUE /\ \A h : ~Reached(h, q)
    <3>1. PageRequest(q) /\ q.pit = TRUE /\ q.cursor = <<>>
      BY PagerRequest
    <3> HIDE DEF q
    <3>2. QED
      BY <3>1, NothingReached
  <2> HIDE DEF q
  <2>3. /\ s.phase = "pit" /\ s.request = q /\ s.pit = i /\ s.view = pits[i].view /\ s.sent = <<>>
    OBVIOUS
  <2> HIDE DEF s
  <2>4. /\ Frozen(s.view) /\ s.pit \in 1..nextId
        /\ \A c \in Clients : request[c].kind # "nothing" => request[c].id # s.pit
    <3>1. Frozen(pits[i].view) /\ i \in 1..nextId
      BY <1>1 DEF ViewsFrozen, ContextsInv, PitTable
    <3>2. \A c \in Clients : request[c] # Nothing => request[c].id # i
      BY <1>1 DEF ContextsInv, IdsOnce, OpenIds
    <3>3. \A c \in Clients : request[c].kind # "nothing" => request[c] # Nothing
      BY DEF Nothing
    <3>4. QED
      BY <2>3, <3>1, <3>2, <3>3
  <2>5. {h \in Matched(s.view, q) : Reached(h, q)} = {} /\ SentHits(s) = <<>>
    BY <2>2, <2>3 DEF SentHits, HitsAt
  <2>6. \A R : Lists(<<>>, {}, R)
    BY DEF Lists
  <2>7. <<>> \in Seq(DocKeys)
    OBVIOUS
  <2>8. PitPaging(s)
    BY <2>2, <2>3, <2>4, <2>5, <2>6, <2>7 DEF PitPaging
  <2>9. db' = db /\ session' = [session EXCEPT ![p] = s]
    BY <1>9, <2>1 DEF StartPitPaging, vars, s, q
  <2>10. Paging(s)
    BY <2>2, <2>3, <2>8 DEF Paging
  <2>11. QED
    BY <1>4, <2>9, <2>10
<1>10. ASSUME NEW p \in Pagers, SearchPitPage(p) PROVE Good
  <2> DEFINE s == session[p]
             a == Answered(s, Search(s.view, s.request))
  <2>1. PitSession(s) /\ PitPaging(s)
    BY <1>1, <1>10 DEF SearchPitPage, GoodSession, LiveSession, PitSession, Idle, Paging
  <2>2. s.pit \in DOMAIN LivePits => pits[s.pit].view = s.view
    <3>1. DOMAIN LivePits \subseteq DOMAIN pits
      BY DEF LivePits, Keep, Restrict
    <3>2. QED
      BY <2>1, <3>1 DEF PitPaging
  <2>3. session' = [session EXCEPT ![p] = Idle] \/ session' = [session EXCEPT ![p] = a]
    BY <1>10, <2>2 DEF SearchPitPage
  <2>4. a = Idle \/ (a.request.pit = TRUE /\ PitPaging(a))
    <3> HIDE DEF s
    <3>1. QED
      BY <1>1, <2>1, PitAnswered
  <2> HIDE DEF a
  <2>5. a = Idle \/ Paging(a)
    BY <2>4 DEF Paging
  <2>6. db' = db
    BY <1>10 DEF SearchPitPage
  <2>7. QED
    BY <1>4, <2>3, <2>5, <2>6
<1>11. ASSUME NEW p \in Pagers, FinishPaging(p) PROVE Good
  BY <1>4, <1>11 DEF FinishPaging, vars
<1>12. ASSUME WriteDuringSearch PROVE Good
  <2>1. ASSUME NEW p \in Pagers PROVE session'[p] = Idle \/ Paging(session[p])'
    <3> DEFINE s == session[p]
    <3>1. \/ session'[p] = Idle
          \/ /\ s # Idle
             /\ session'[p] = [s EXCEPT !.unchanged =
                                   Keep(@, SameIn(db, db') \cap MatchedKeys(db', s.request))]
      BY <1>12 DEF WriteDuringSearch
    <3>2. GoodSession(s, Kinds) /\ (s = Idle \/ Paging(s))
      BY <1>1
    <3>3. ASSUME s # Idle, NEW t,
                 t = [s EXCEPT !.unchanged =
                          Keep(@, SameIn(db, db') \cap MatchedKeys(db', s.request))]
          PROVE  Paging(t)'
      BY <1>1, <1>2, <3>2, <3>3, WriteStays
    <3>4. QED
      BY <3>1, <3>3
  <2>2. QED
    BY <2>1
<1>13. ASSUME ContextStep, session' = session PROVE Good
  <2>1. db' = db
    BY <1>13 DEF ContextStep, SearchScroll, InsertScroll, SnapshotPit, InsertPit, NextScroll, SearchPit,
       ClearScrolls, ListPits, DeletePits, DeleteAllPits, RecordTask, Tick
  <2>2. QED
    BY <1>3, <1>13, <2>1
<1>14. Good
  BY <1>3, <1>6, <1>7, <1>8, <1>9, <1>10, <1>11, <1>12, <1>13 DEF SearchNext, searchVars, vars
<1>15. QED
  BY <1>2, <1>14 DEF PagingInv

\* What is in the order of some clauses is in the order of the first of them.
LEMMA PrefixOrders ==
    ASSUME NEW S, NEW sort \in Seq(S), NEW c, NEW a, NEW b,
           CompareHits(a, b, Append(sort, c)) # "greater"
    PROVE  CompareHits(a, b, sort) # "greater"
<1> DEFINE m == Len(sort)
           long == Append(sort, c)
           one == [i \in DOMAIN sort |-> Directed(CompareSortValues(SortValues(a, sort)[i],
                                                                   SortValues(b, sort)[i]),
                                                  sort[i].desc)]
           all == [i \in DOMAIN long |-> Directed(CompareSortValues(SortValues(a, long)[i],
                                                                   SortValues(b, long)[i]),
                                                  long[i].desc)]
<1>1. CompareHits(a, b, sort) = FirstOf(one) /\ CompareHits(a, b, long) = FirstOf(all)
  BY DEF CompareHits, CompareByClauses, FirstOf
<1>2. m \in Nat /\ DOMAIN sort = 1..m /\ DOMAIN long = 1..(m + 1) /\ \A i \in 1..m : long[i] = sort[i]
  BY LenProperties, AppendProperties
<1>3. \A i \in 1..m : i \in 1..(m + 1)
  BY <1>2
<1>4. \A i \in 1..m : one[i] = all[i]
  <2> HIDE DEF long, m
  <2>1. QED
    BY <1>2, <1>3 DEF SortValues
<1>5. DOMAIN one = 1..m /\ DOMAIN all = 1..(m + 1)
  BY <1>2
<1> HIDE DEF one, all, long, m
<1>6. SUFFICES ASSUME FirstOf(one) = "greater" PROVE FirstOf(all) = "greater"
  BY <1>1 DEF long
<1>7. PICK i \in 1..m : one[i] = "greater" /\ \A j \in 1..(i - 1) : one[j] = "equal"
  BY <1>2, <1>5, <1>6, FirstDecides
<1>8. i \in 1..(m + 1) /\ all[i] = "greater" /\ \A j \in 1..(i - 1) : all[j] = "equal"
  <2>1. \A j \in 1..(i - 1) : j \in 1..m
    BY <1>2
  <2>2. QED
    BY <1>3, <1>4, <1>7, <2>1
<1>9. m + 1 \in Nat
  BY <1>2
<1>10. PICK k \in 1..(m + 1) : /\ FirstOf(all) = all[k] /\ all[k] # "equal"
                               /\ \A j \in 1..(k - 1) : all[j] = "equal"
  <2>1. \/ FirstOf(all) = "equal" /\ \A j \in 1..(m + 1) : all[j] = "equal"
        \/ \E j \in 1..(m + 1) : /\ FirstOf(all) = all[j] /\ all[j] # "equal"
                                 /\ \A l \in 1..(j - 1) : all[l] = "equal"
    BY <1>5, <1>9, FirstDecides
  <2>2. QED
    BY <1>8, <2>1
<1>11. k = i
  <2>1. k \in Int /\ i \in Int /\ k \in 1..(m + 1) /\ i \in 1..(m + 1) /\ m \in Nat
    BY <1>2, <1>8
  <2>2. ~(k < i)
    <3>1. k < i => k \in 1..(i - 1)
      BY <2>1
    <3>2. QED
      BY <1>8, <1>10, <3>1
  <2>3. ~(i < k)
    <3>1. i < k => i \in 1..(k - 1)
      BY <2>1
    <3>2. QED
      BY <1>8, <1>10, <3>1
  <2>4. QED
    BY <2>1, <2>2, <2>3
<1>12. QED
  BY <1>8, <1>10, <1>11

\* What a pager of a point in time has been answered.
LEMMA PitPagesGood ==
    ASSUME Surroundings, NEW s, PitSession(s), PitPaging(s)
    PROVE  /\ IsInjective(s.sent)
           /\ InOrder(SentHits(s), s.request.sort)
           /\ ToSet(s.sent) \subseteq MatchedKeys(s.view, s.request)
           /\ s.phase = "done" => ToSet(s.sent) = MatchedKeys(s.view, s.request)
<1> DEFINE r == s.request
           view == s.view
           sent == s.sent
           hits == SentHits(s)
           H == AllHits(workload)
           clauses == ClausesOf(r)
           R == Before(H, clauses)
           T == {h \in Matched(view, r) : Reached(h, r)}
<1>1. /\ PageRequest(r) /\ Frozen(view) /\ sent \in Seq(DocKeys) /\ Lists(hits, T, R)
      /\ s.phase = "done" => \A h \in Matched(view, r) : Reached(h, r)
      /\ workload \in DOMAIN Workloads
  BY DEF PitPaging, Surroundings
<1>2. DOMAIN sent = 1..Len(sent) /\ \A i \in 1..Len(sent) : sent[i] \in DocKeys
  BY <1>1, LenProperties
<1>3. DOMAIN hits = DOMAIN sent /\ \A i \in DOMAIN sent : hits[i] = Hit(view, sent[i])
  BY DEF SentHits, HitsAt
<1>4. T \subseteq Matched(view, r) /\ T \subseteq HitsOf(view)
  BY MatchedFacts
<1>5. StrictOrder(T, R)
  BY <1>1, <1>4, HitsBefore
<1>6. /\ DOMAIN hits = 1..Len(hits) /\ \A i \in 1..Len(hits) : hits[i] \in T
      /\ \A i, j \in 1..Len(hits) : i # j => hits[i] # hits[j]
  <2> HIDE DEF hits, T, R
  <2>1. QED
    BY <1>1, <1>5, ListsProps
<1>7. /\ \A h \in T : \E i \in 1..Len(hits) : hits[i] = h
      /\ \A i, j \in 1..Len(hits) : i < j => <<hits[i], hits[j]>> \in R
  BY <1>1 DEF Lists
<1>8. \A k \in DocKeys : KeyOfHit(Hit(view, k)) = k
  BY HitsDistinct
<1>9. \A k \in MatchedKeys(view, r) : k \in DocKeys /\ Hit(view, k) \in Matched(view, r)
  BY MatchedFacts DEF Matched
<1> HIDE DEF hits, sent, T, clauses, H
<1>10. IsInjective(sent)
  BY <1>3, <1>6 DEF IsInjective
<1>11. ToSet(sent) \subseteq MatchedKeys(view, r)
  <2>1. ASSUME NEW i \in DOMAIN sent PROVE sent[i] \in MatchedKeys(view, r)
    <3>1. hits[i] \in Matched(view, r) /\ hits[i] = Hit(view, sent[i]) /\ sent[i] \in DocKeys
      BY <1>2, <1>3, <1>4, <1>6, <2>1
    <3>2. PICK k \in MatchedKeys(view, r) : hits[i] = Hit(view, k)
      BY <3>1 DEF Matched
    <3>3. k = sent[i]
      BY <1>8, <1>9, <3>1, <3>2
    <3>4. QED
      BY <3>2, <3>3
  <2>2. QED
    BY <2>1 DEF ToSet
<1>12. ASSUME s.phase = "done", NEW k \in MatchedKeys(view, r) PROVE k \in ToSet(sent)
  <2>1. Hit(view, k) \in T
    BY <1>1, <1>9, <1>12 DEF T
  <2>2. PICK i \in DOMAIN sent : Hit(view, sent[i]) = Hit(view, k)
    BY <1>3, <1>6, <1>7, <2>1
  <2>3. sent[i] = k
    BY <1>2, <1>8, <1>9, <2>2
  <2>4. QED
    BY <2>3 DEF ToSet
<1>13. InOrder(hits, r.sort)
  <2> DEFINE sort == r.sort
  <2>1. /\ sort \in Seq(ToSet(sort))
        /\ clauses = sort \/ clauses = Append(sort, ShardDoc)
    BY <1>1, ClausesAre DEF clauses
  <2> HIDE DEF sort
  <2>2. ASSUME NEW i \in DOMAIN hits, NEW j \in DOMAIN hits, i < j
        PROVE  CompareHits(hits[i], hits[j], sort) # "greater"
    <3>1. <<hits[i], hits[j]>> \in R
      BY <1>6, <1>7, <2>2
    <3>2. CompareHits(hits[i], hits[j], clauses) # "greater"
      BY <3>1 DEF Before
    <3>3. CASE clauses = sort
      BY <3>2, <3>3
    <3>4. CASE clauses = Append(sort, ShardDoc)
      BY <2>1, <3>2, <3>4, PrefixOrders
    <3>5. QED
      BY <2>1, <3>3, <3>4
  <2>3. QED
    BY <2>2 DEF InOrder, CompareHits, sort
<1>14. QED
  BY <1>10, <1>11, <1>12, <1>13 DEF sent, hits

LEMMA PagingImplies == PagingInv => PitPagesPartition /\ LivePagesComplete
<1> SUFFICES ASSUME PagingInv PROVE PitPagesPartition /\ LivePagesComplete
  OBVIOUS
<1>1. /\ Surroundings /\ \A p \in Pagers : GoodSession(session[p], Kinds)
      /\ \A p \in Pagers : session[p] = Idle \/ Paging(session[p])
  BY DEF PagingInv, SearchInv, ContextsInv
<1>2. PitPagesPartition
  <2>1. ASSUME NEW p \in Pagers, session[p].phase \in {"pit", "done"}, session[p].request.pit
        PROVE  LET s == session[p]
               IN  /\ IsInjective(s.sent)
                   /\ InOrder([i \in DOMAIN s.sent |-> Hit(s.view, s.sent[i])], s.request.sort)
                   /\ ToSet(s.sent) \subseteq MatchedKeys(s.view, s.request)
                   /\ s.phase = "done" => ToSet(s.sent) = MatchedKeys(s.view, s.request)
    <3> DEFINE s == session[p]
    <3>1. s # Idle
      BY <2>1 DEF Idle
    <3>2. PitSession(s) /\ PitPaging(s)
      BY <1>1, <2>1, <3>1 DEF GoodSession, LiveSession, Paging
    <3> HIDE DEF s
    <3>3. /\ IsInjective(s.sent)
          /\ InOrder(SentHits(s), s.request.sort)
          /\ ToSet(s.sent) \subseteq MatchedKeys(s.view, s.request)
          /\ s.phase = "done" => ToSet(s.sent) = MatchedKeys(s.view, s.request)
      BY <1>1, <3>2, PitPagesGood
    <3>4. QED
      BY <3>3 DEF s, SentHits, HitsAt
  <2>2. QED
    BY <2>1 DEF PitPagesPartition
<1>3. LivePagesComplete
  <2>1. ASSUME NEW p \in Pagers, session[p].phase # "idle", ~session[p].request.pit,
               ~SortsSeveralById(session[p].request), NEW k \in DOMAIN session[p].unchanged
        PROVE  /\ session[p].unchanged[k] <= 1
               /\ session[p].phase = "done" => session[p].unchanged[k] = 1
    <3>1. session[p] # Idle
      BY <2>1 DEF Idle
    <3>2. LivePaging(session[p])
      BY <1>1, <2>1, <3>1 DEF Paging
    <3>3. /\ session[p].unchanged[k] = 0 \/ session[p].unchanged[k] = 1
          /\ session[p].phase = "done" => session[p].unchanged[k] = 1
      BY <2>1, <3>2 DEF LivePaging
    <3>4. QED
      BY <3>3
  <2>2. QED
    BY <2>1 DEF LivePagesComplete
<1>4. QED
  BY <1>2, <1>3

\* Of every search, the pages so far are the selected documents up to the last one
\* they hold: handle_search takes the cursor from the request, and between two
\* pages nothing of the search is kept but the point in time.
THEOREM PagingInvariant == SearchSpec => []PagingInv
<1>1. QED
  BY PagingInitInv, PagingNextInv, PTL DEF SearchSpec

\* Paging a point in time with search_after answers the documents of its frozen view
\* that the query selects, each once, in order, and all of them by the empty page.
THEOREM PitPagingPartitions == SearchSpec => []PitPagesPartition
<1>1. QED
  BY PagingInvariant, PagingImplies, PTL

\* Paging the live database with search_after answers every document that is
\* selected and left alone meanwhile exactly once, whatever is written between the
\* pages and between the two read locks of a page, unless several indexes are sorted
\* by _id alone.
THEOREM LivePagingComplete == SearchSpec => []LivePagesComplete
<1>1. QED
  BY PagingInvariant, PagingImplies, PTL

-----------------------------------------------------------------------------
(***************************************************************************)
(* The readers agree: what each of them answers is a window of the same    *)
(* documents.                                                              *)
(***************************************************************************)

LEMMA RefusedSearch ==
    ASSUME NEW d, NEW r, Select(Scanned(d, r), r.query) = Refused
    PROVE  Search(d, r) = Refused
  BY DEF Search, AnswerSelected, Refused

\* A search with a sort and without a cursor.
LEMMA SortedSearch ==
    ASSUME NEW d, NEW r, NEW clauses, clauses = SortClauses(r.sort, r.pit), clauses # <<>>,
           r.cursor = <<>>, NEW docs, Select(Scanned(d, r), r.query) = [status |-> "ok", docs |-> docs],
           NEW T, SortByClauses(docs, clauses) \in Seq(T)
    PROVE  /\ Search(d, r).status = "ok" /\ Search(d, r).total = Len(docs)
           /\ Search(d, r).all = SortByClauses(docs, clauses)
           /\ Search(d, r).hits = Slice(SortByClauses(docs, clauses), r.from, r.size)
<1> DEFINE selected == Select(Scanned(d, r), r.query)
           all == SortByClauses(docs, clauses)
<1>1. selected.status = "ok" /\ selected.docs = docs
  OBVIOUS
<1>2. Search(d, r) = AnswerSelected(selected, clauses, r)
  BY DEF Search, CursorValid
<1> HIDE DEF selected
<1>3. AnswerSelected(selected, clauses, r) = Answer(Len(docs), all, clauses, r, r.from)
  BY <1>1 DEF AnswerSelected
<1> HIDE DEF all
<1>4. HitsAfter(all, clauses, r.cursor) = all
  <2>1. HitsAfter(all, clauses, <<>>) = all
    BY AllAfter DEF all
  <2>2. QED
    BY <2>1
<1>5. QED
  BY <1>2, <1>3, <1>4 DEF Answer, all

\* The documents of a stored database that a query selects.
Selection(d, r, docs) ==
    /\ Select(Scanned(d, r), r.query) = [status |-> "ok", docs |-> docs]
    /\ Lists(docs, SelectedHits(d, r), ByKey(AllHits(workload)))

LEMMA SelectionIs ==
    ASSUME NEW d, Frozen(d), NEW r
    PROVE  \/ Select(Scanned(d, r), r.query) = Refused
           \/ \E docs : Selection(d, r, docs)
<1> DEFINE H == AllHits(workload)
           S == ScannedHits(d, r)
           hits == Scanned(d, r)
           R == ByKey(H)
           q == r.query
           selected == Select(hits, q)
<1>1. Lists(hits, S, R)
  BY FrozenHits, ScannedLists
<1> HIDE DEF hits, S, R, q, selected
<1>2. \/ selected = Refused
      \/ /\ selected = [status |-> "ok", docs |-> selected.docs]
         /\ Lists(selected.docs, Matching(S, q), R)
  BY <1>1, SelectLists DEF selected
<1>3. QED
  BY <1>2 DEF Selection, SelectedHits, selected, S, q, hits, R

\* The selected documents, as a sort of them needs them.
LEMMA SelectionSorts ==
    ASSUME NEW d, Frozen(d), NEW r, NEW docs, Selection(d, r, docs), NEW clauses,
           Sortable(AllHits(workload), clauses)
    PROVE  /\ Distinct(SelectedHits(d, r)) /\ SelectedHits(d, r) \subseteq AllHits(workload)
           /\ docs \in Seq(SelectedHits(d, r)) /\ Enumerates(docs, SelectedHits(d, r))
           /\ Lists(SortByClauses(docs, clauses), SelectedHits(d, r), Before(AllHits(workload), clauses))
<1> DEFINE H == AllHits(workload)
           T == SelectedHits(d, r)
<1>1. T \subseteq HitsOf(d) /\ HitsOf(d) \subseteq H
  BY ScannedLists, FrozenHits DEF SelectedHits, Matching
<1>2. Distinct(T)
  BY <1>1, HitsDistinct DEF Distinct
<1>3. Lists(docs, T, ByKey(H))
  BY DEF Selection
<1> HIDE DEF H, T
<1>4. StrictOrder(T, ByKey(H)) /\ T \subseteq H
  BY <1>1, <1>2, ByKeyIsOrder
<1>5. Enumerates(docs, T) /\ docs \in Seq(T)
  <2> DEFINE R == ByKey(H)
  <2>1. StrictOrder(T, R) /\ Lists(docs, T, R)
    BY <1>3, <1>4
  <2> HIDE DEF R
  <2>2. docs \in Seq(T) /\ \A i, j \in 1..Len(docs) : i # j => docs[i] # docs[j]
    BY <2>1, ListsProps
  <2>3. \A x \in T : \E i \in 1..Len(docs) : docs[i] = x
    BY <2>1 DEF Lists
  <2>4. QED
    BY <2>2, <2>3 DEF Enumerates
<1>6. TiesByKey(docs, H, clauses)
  BY <1>3 DEF TiesByKey, Lists
<1>7. Lists(SortByClauses(docs, clauses), T, Before(H, clauses))
  BY <1>2, <1>4, <1>5, <1>6, SortLists DEF H
<1>8. QED
  BY <1>2, <1>4, <1>5, <1>7 DEF T, H

\* A sort by _shard_doc leaves the documents as they were scanned.
LEMMA ShardDocSorts ==
    ASSUME NEW d, Frozen(d), NEW r, NEW docs, Selection(d, r, docs)
    PROVE  /\ SortByClauses(docs, <<ShardDoc>>) = docs
           /\ docs \in Seq(SelectedHits(d, r))
<1> DEFINE H == AllHits(workload)
           T == SelectedHits(d, r)
           clauses == <<ShardDoc>>
           R == Before(H, clauses)
<1>1. \A h \in H : h.index \in IndexNames /\ h.id \in DocIds
  <2>1. \A e : Distinct(HitsOf(e))
    BY HitsDistinct
  <2>2. QED
    BY <2>1 DEF AllHits, Distinct
<1>2. Len(clauses) = 1 /\ DOMAIN clauses = 1..1 /\ clauses[1] = ShardDoc /\ ShardDoc.desc = FALSE
  BY DEF ShardDoc, Clause
<1> HIDE DEF H, clauses
<1>3. Sortable(H, clauses)
  <2>1. Comparable({SortValue(h, ShardDoc) : h \in H})
    BY <1>1, ShardDocComparable
  <2>2. \A i \in 1..Len(clauses) :
            clauses[i].desc \in BOOLEAN /\ Comparable({SortValue(h, clauses[i]) : h \in H})
    <3>1. SUFFICES ASSUME NEW i \in 1..Len(clauses)
                   PROVE  clauses[i].desc \in BOOLEAN /\ Comparable({SortValue(h, clauses[i]) : h \in H})
      OBVIOUS
    <3>2. i = 1
      BY <1>2
    <3>3. clauses[i] = ShardDoc /\ FALSE \in BOOLEAN
      BY <1>2, <3>2
    <3>4. QED
      BY <1>2, <2>1, <3>3
  <2>3. Len(clauses) \in Nat /\ DOMAIN clauses = 1..Len(clauses)
    BY <1>2
  <2>4. QED
    BY <2>2, <2>3 DEF Sortable
<1>4. /\ Distinct(T) /\ T \subseteq H /\ docs \in Seq(T) /\ Enumerates(docs, T)
      /\ Lists(SortByClauses(docs, clauses), T, R)
  BY <1>3, SelectionSorts DEF H
<1>5. ASSUME NEW g \in T, NEW h \in T, <<g, h>> \in ByKey(H) PROVE <<g, h>> \in R
  <2>1. /\ Position(g) \in Nat /\ Position(h) \in Nat /\ Position(g) < Position(h)
    BY <1>1, <1>4, <1>5, PositionsGrow DEF ByKey
  <2>2. ShardDoc.field = <<"_shard_doc">>
    BY DEF ShardDoc, Clause
  <2>3. SortValue(g, ShardDoc) = Text(Position(g)) /\ SortValue(h, ShardDoc) = Text(Position(h))
    BY <2>2, FieldsDiffer DEF SortValue, Position
  <2>4. CompareSortValues(SortValue(g, ShardDoc), SortValue(h, ShardDoc)) = "less"
    BY <2>1, <2>3 DEF CompareSortValues, Text, KeyOf, Order
  <2>5. CompareHits(g, h, clauses) = "less"
    <3> DEFINE orders == [i \in DOMAIN clauses |->
                              Directed(CompareSortValues(SortValues(g, clauses)[i],
                                                         SortValues(h, clauses)[i]),
                                       clauses[i].desc)]
    <3>1. CompareHits(g, h, clauses) = FirstOf(orders)
      BY DEF CompareHits, CompareByClauses, FirstOf
    <3>2. DOMAIN orders = 1..1 /\ orders[1] = "less"
      <4>1. 1 \in DOMAIN clauses
        BY <1>2
      <4>2. SortValues(g, clauses)[1] = SortValue(g, ShardDoc)
            /\ SortValues(h, clauses)[1] = SortValue(h, ShardDoc)
        BY <1>2, <4>1 DEF SortValues
      <4>3. orders[1] = "less"
        BY <1>2, <2>4, <4>1, <4>2 DEF Directed
      <4>4. QED
        BY <1>2, <4>3
    <3> HIDE DEF orders
    <3>3. FirstOf(orders) = "less"
      <4>1. \A i \in 1..1 : i = 1
        OBVIOUS
      <4>2. \/ FirstOf(orders) = "equal" /\ \A i \in 1..1 : orders[i] = "equal"
            \/ \E i \in 1..1 : FirstOf(orders) = orders[i]
        BY <3>2, FirstDecides
      <4>3. QED
        BY <3>2, <4>1, <4>2
    <3>4. QED
      BY <3>1, <3>3
  <2>6. QED
    BY <1>4, <2>5 DEF Before
<1>6. Lists(docs, T, R)
  <2>1. Lists(docs, T, ByKey(H))
    BY DEF Selection, H
  <2>2. \A i \in 1..Len(docs) : docs[i] \in T
    BY <1>4, LenProperties
  <2> HIDE DEF T, R
  <2>3. QED
    BY <1>5, <2>1, <2>2 DEF Lists
<1>7. StrictOrder(T, R)
  BY <1>3, <1>4, BeforeIsOrder
<1>8. SortByClauses(docs, clauses) = docs
  <2> HIDE DEF T, R
  <2>1. QED
    BY <1>4, <1>6, <1>7, OneList
<1>9. QED
  BY <1>4, <1>8 DEF clauses

\* A search of every document, with a query of its own and a window.
LEMMA PlainIs ==
    ASSUME NEW q, NEW from, NEW size, NEW p, p = Plain(q, from, size)
    PROVE  p = [indices |-> {}, query |-> q, sort |-> <<>>, cursor |-> <<>>, from |-> from,
                size |-> size, aggs |-> FALSE, pit |-> FALSE]
  BY DEF Plain, SearchAll

\* handle_count asks for no hits.
LEMMA PlainCount ==
    ASSUME NEW d, NEW q, NEW p, p = Plain(q, 0, 0)
    PROVE  Count(d, p) = Search(d, p)
<1>1. p = [indices |-> {}, query |-> q, sort |-> <<>>, cursor |-> <<>>, from |-> 0, size |-> 0,
           aggs |-> FALSE, pit |-> FALSE]
  BY PlainIs
<1> DEFINE e == [p EXCEPT !.from = 0, !.size = 0]
<1>2. p.from = 0 /\ p.size = 0 /\ p = [x \in DOMAIN p |-> p[x]]
  BY <1>1
<1>3. e = p
  <2>1. [p EXCEPT !.from = 0] = p
    BY <1>2
  <2>2. [p EXCEPT !.size = 0] = p
    BY <1>2
  <2>3. e = [[p EXCEPT !.from = 0] EXCEPT !.size = 0]
    OBVIOUS
  <2>4. QED
    BY <2>1, <2>2, <2>3
<1>4. Count(d, p) = Search(d, e)
  BY DEF Count
<1>5. QED
  BY <1>3, <1>4

\* Two searches of every document look at the same ones.
LEMMA SameScan ==
    ASSUME NEW d, NEW r, NEW s, r.indices = s.indices
    PROVE  Scanned(d, r) = Scanned(d, s)
  BY DEF Scanned

\* A point in time of every index is a copy of all documents.
LEMMA WholeSnapshot ==
    ASSUME db \in Databases, NEW r, r.indices = {}
    PROVE  Scanned(PitSnapshot({}), r) = Scanned(db, r)
<1> DEFINE view == PitSnapshot({})
           f == db.indexes
           names == DOMAIN f
           H == AllHits(workload)
           R == ByKey(H)
<1>1. ExpandIndices(db, {}) = names /\ ExpandIndices(view, {}) = DOMAIN view.indexes
  BY DEF ExpandIndices
<1>2. view.indexes = Keep(f, names)
  BY <1>1 DEF PitSnapshot
<1> HIDE DEF view, f
<1>3. DOMAIN view.indexes = names /\ \A n \in names : view.indexes[n] = f[n]
  BY <1>2 DEF Keep, Restrict
<1>4. ScannedHits(view, r) = ScannedHits(db, r)
  <2>1. \A k \in DocKeys : Exists(view, k) <=> Exists(db, k)
    BY <1>3 DEF Exists, f
  <2>2. \A k \in DocKeys : Exists(db, k) => Hit(view, k) = Hit(db, k)
    BY <1>3 DEF Exists, Hit, f
  <2>3. ExpandIndices(view, r.indices) = ExpandIndices(db, r.indices)
    BY <1>1, <1>3
  <2>4. QED
    BY <2>1, <2>2, <2>3 DEF ScannedHits
<1>5. Frozen(view) /\ Frozen(db)
  BY SnapshotFrozen, StoredIsFrozen DEF view
<1>6. HitsOf(view) \subseteq H /\ HitsOf(db) \subseteq H
  BY <1>5, FrozenHits
<1> HIDE DEF H
<1>7. /\ Lists(Scanned(view, r), ScannedHits(view, r), R)
      /\ Lists(Scanned(db, r), ScannedHits(db, r), R) /\ ScannedHits(db, r) \subseteq HitsOf(db)
  BY <1>6, ScannedLists
<1>8. StrictOrder(ScannedHits(db, r), R)
  <2>1. Distinct(ScannedHits(db, r))
    BY <1>7, HitsDistinct DEF Distinct
  <2>2. QED
    BY <1>6, <1>7, <2>1, ByKeyIsOrder
<1> DEFINE S == ScannedHits(db, r)
           one == Scanned(view, r)
           two == Scanned(db, r)
<1>9. Lists(one, S, R) /\ Lists(two, S, R) /\ StrictOrder(S, R)
  BY <1>4, <1>7, <1>8
<1> HIDE DEF S, one, two, R
<1>10. one = two
  BY <1>9, OneList
<1>11. QED
  BY <1>10 DEF one, two, view

\* Unsorted, with aggregations, of a point in time, or as an item of _msearch.
LEMMA SameAnswersHolds ==
    ASSUME Surroundings, NEW q, NEW from \in Nat, NEW size \in Nat, ValidateRequest(Plain(q, from, size))
    PROVE  SameAnswers({Search(db, Plain(q, from, size)),
                        Search(db, [Plain(q, from, size) EXCEPT !.aggs = TRUE]),
                        Search(PitSnapshot({}), [Plain(q, from, size) EXCEPT !.pit = TRUE]),
                        MultiSearchItem(db, Plain(q, from, size))})
<1> DEFINE p == Plain(q, from, size)
           a == [p EXCEPT !.aggs = TRUE]
           t == [p EXCEPT !.pit = TRUE]
           view == PitSnapshot({})
           one == Search(db, p)
           two == Search(db, a)
           three == Search(view, t)
           four == MultiSearchItem(db, p)
<1>1. /\ p.indices = {} /\ p.query = q /\ p.sort = <<>> /\ p.cursor = <<>> /\ p.from = from
      /\ p.size = size /\ p.aggs = FALSE /\ p.pit = FALSE
      /\ a.indices = {} /\ a.query = q /\ a.sort = <<>> /\ a.cursor = <<>>
      /\ a.from = from /\ a.size = size /\ a.aggs = TRUE /\ a.pit = FALSE
      /\ t.indices = {} /\ t.query = q /\ t.sort = <<>> /\ t.cursor = <<>>
      /\ t.from = from /\ t.size = size /\ t.pit = TRUE
  <2>1. p = [indices |-> {}, query |-> q, sort |-> <<>>, cursor |-> <<>>, from |-> from,
             size |-> size, aggs |-> FALSE, pit |-> FALSE]
    BY PlainIs
  <2> HIDE DEF p
  <2>2. QED
    BY <2>1
<1>2. db \in Databases /\ Frozen(db)
  BY StoredIsFrozen DEF Surroundings
<1> HIDE DEF p, a, t
<1>3. four = one
  <2>1. IndicesFound(db, p.indices)
    BY <1>1 DEF IndicesFound
  <2>2. ValidateRequest(p)
    BY DEF p
  <2>3. QED
    BY <1>1, <2>1, <2>2 DEF MultiSearchItem
<1>4. Scanned(db, p) = Scanned(db, a) /\ Scanned(view, t) = Scanned(db, p)
  <2>1. Scanned(view, t) = Scanned(db, t)
    BY <1>1, <1>2, WholeSnapshot
  <2>2. Scanned(db, p) = Scanned(db, a) /\ Scanned(db, t) = Scanned(db, p)
    BY <1>1, SameScan
  <2>3. QED
    BY <2>1, <2>2
<1> DEFINE selected == Select(Scanned(db, p), p.query)
<1>5. Select(Scanned(db, a), a.query) = selected /\ Select(Scanned(view, t), t.query) = selected
  BY <1>1, <1>4
<1>6. CASE selected = Refused
  <2>1. one = Refused /\ two = Refused /\ three = Refused
    BY <1>5, <1>6, RefusedSearch
  <2> HIDE DEF one, two, three, four
  <2>2. Refused.status # "ok"
    BY DEF Refused
  <2>3. SameAnswers({one, two, three, four})
    BY <1>3, <2>1, <2>2 DEF SameAnswers
  <2>4. QED
    BY <2>3 DEF one, two, three, four, p, a, t
<1>7. ASSUME NEW docs, Selection(db, p, docs)
      PROVE  SameAnswers({one, two, three, four})
  <2>1. selected = [status |-> "ok", docs |-> docs]
    BY <1>7 DEF Selection
  <2>2. SortByClauses(docs, <<ShardDoc>>) = docs /\ docs \in Seq(SelectedHits(db, p))
    BY <1>2, <1>7, ShardDocSorts
  <2> DEFINE T == SelectedHits(db, p)
             hits == Slice(docs, from, size)
  <2> HIDE DEF selected, T
  <2>3. one.status = "ok" /\ one.total = Len(docs) /\ one.hits = hits
    <3>1. FALSE \in BOOLEAN
      OBVIOUS
    <3>2. UnsortedRequest(p)
      BY <1>1, <3>1 DEF UnsortedRequest
    <3>3. Select(Scanned(db, p), p.query) = [status |-> "ok", docs |-> docs] /\ docs \in Seq(T)
      BY <2>1, <2>2 DEF selected, T
    <3>4. AnswersWindow(Search(db, p), docs, p)
      BY <3>2, <3>3, UnsortedSearch
    <3>5. QED
      BY <1>1, <3>4 DEF AnswersWindow
  <2>4. two.status = "ok" /\ two.total = Len(docs) /\ two.hits = hits
    <3>1. TRUE \in BOOLEAN
      OBVIOUS
    <3>2. UnsortedRequest(a)
      BY <1>1, <3>1 DEF UnsortedRequest
    <3>3. Select(Scanned(db, a), a.query) = [status |-> "ok", docs |-> docs] /\ docs \in Seq(T)
      BY <1>5, <2>1, <2>2 DEF T
    <3>4. AnswersWindow(Search(db, a), docs, a)
      BY <3>2, <3>3, UnsortedSearch
    <3>5. QED
      BY <1>1, <3>4 DEF AnswersWindow
  <2>5. three.status = "ok" /\ three.total = Len(docs) /\ three.hits = hits
    <3> DEFINE clauses == <<ShardDoc>>
    <3>1. clauses = SortClauses(t.sort, t.pit) /\ clauses # <<>>
      BY <1>1, NoSortClauses
    <3> HIDE DEF clauses
    <3>2. SortByClauses(docs, clauses) = docs
      BY <2>2 DEF clauses
    <3>3. Select(Scanned(view, t), t.query) = [status |-> "ok", docs |-> docs]
      BY <1>5, <2>1
    <3>4. SortByClauses(docs, clauses) \in Seq(T)
      BY <2>2, <3>2 DEF T
    <3>5. three.hits = Slice(docs, t.from, t.size) /\ three.status = "ok" /\ three.total = Len(docs)
      BY <1>1, <3>1, <3>2, <3>3, <3>4, SortedSearch
    <3>6. QED
      BY <1>1, <3>5
  <2> HIDE DEF one, two, three, four, hits
  <2>6. \A x \in {one, two, three, four} : x.status = "ok" /\ x.total = Len(docs) /\ x.hits = hits
    BY <1>3, <2>3, <2>4, <2>5
  <2>7. QED
    BY <2>6 DEF SameAnswers
<1>8. QED
  <2>1. selected = Refused \/ \E docs : Selection(db, p, docs)
    BY <1>2, SelectionIs
  <2>2. CASE \E docs : Selection(db, p, docs)
    <3>1. SameAnswers({one, two, three, four})
      BY <1>7, <2>2
    <3>2. QED
      BY <3>1 DEF p, a, t
  <2>3. QED
    BY <1>6, <2>1, <2>2

\* The keys of the documents that a query on every index selects.
LEMMA ExplainedKeys ==
    ASSUME db \in Databases, NEW q, NEW p, p.indices = {}, p.query = q,
           NEW docs, Selection(db, p, docs)
    PROVE  ToSet(Keys(docs)) = {k \in DocKeys : Exists(db, k) /\ Explain(db, k, q) = "match"}
<1> DEFINE T == SelectedHits(db, p)
           H == AllHits(workload)
<1>1. T = {h \in ScannedHits(db, p) : MatchesQuery(h.source, h.id, q) = "match"}
  BY DEF SelectedHits, Matching
<1>2. ScannedHits(db, p) = {Hit(db, k) : k \in {k \in DocKeys : Exists(db, k)}}
  BY DEF ScannedHits, ExpandIndices, Exists
<1>3. \A k \in DocKeys : /\ KeyOfHit(Hit(db, k)) = k /\ Hit(db, k).id = k[2]
                         /\ Explain(db, k, q) = MatchesQuery(Hit(db, k).source, k[2], q)
  <2>1. \A k \in DocKeys : KeyOfHit(Hit(db, k)) = k
    BY HitsDistinct
  <2>2. \A k \in DocKeys : Hit(db, k).id = k[2]
    BY DEF Hit
  <2>3. QED
    BY <2>1, <2>2 DEF Explain
<1>4. docs \in Seq(T) /\ \A h \in T : \E i \in 1..Len(docs) : docs[i] = h
  BY DEF Selection, Lists
<1> HIDE DEF T
<1>5. DOMAIN docs = 1..Len(docs) /\ \A i \in 1..Len(docs) : docs[i] \in T
  BY <1>4, LenProperties
<1>6. ToSet(Keys(docs)) = {KeyOfHit(h) : h \in T}
  BY <1>4, <1>5 DEF ToSet, Keys
<1>7. ASSUME NEW k \in DocKeys
      PROVE  k \in {KeyOfHit(h) : h \in T} <=> Exists(db, k) /\ Explain(db, k, q) = "match"
  <2>1. ASSUME NEW h \in T, k = KeyOfHit(h)
        PROVE  Exists(db, k) /\ Explain(db, k, q) = "match"
    <3>1. PICK l \in DocKeys : Exists(db, l) /\ h = Hit(db, l)
      BY <1>1, <1>2
    <3>2. l = k
      BY <1>3, <2>1, <3>1
    <3>3. MatchesQuery(h.source, h.id, q) = "match"
      BY <1>1
    <3>4. QED
      BY <1>3, <3>1, <3>2, <3>3
  <2>2. ASSUME Exists(db, k), Explain(db, k, q) = "match"
        PROVE  Hit(db, k) \in T /\ k = KeyOfHit(Hit(db, k))
    <3>1. Hit(db, k) \in ScannedHits(db, p)
      BY <1>2, <2>2
    <3>2. MatchesQuery(Hit(db, k).source, Hit(db, k).id, q) = "match"
      BY <1>3, <2>2
    <3>3. QED
      BY <1>1, <1>3, <3>1, <3>2
  <2>3. QED
    BY <2>1, <2>2
<1>8. \A h \in T : KeyOfHit(h) \in DocKeys
  BY <1>1, <1>2, <1>3
<1>9. QED
  BY <1>6, <1>7, <1>8

\* With aggregations, counted, by query, and document by document.
LEMMA SameDocumentsHolds ==
    ASSUME Surroundings, NEW q
    PROVE  SameDocuments(q, Search(db, [Plain(q, 0, 0) EXCEPT !.aggs = TRUE]),
                         Count(db, Plain(q, 0, 0)), MatchingDocuments(db, Plain(q, 0, 0)))
<1> DEFINE p == Plain(q, 0, 0)
           a == [p EXCEPT !.aggs = TRUE]
           search == Search(db, a)
           count == Count(db, p)
           byQuery == MatchingDocuments(db, p)
<1>1. /\ p.indices = {} /\ p.query = q /\ p.sort = <<>> /\ p.cursor = <<>> /\ p.from = 0
      /\ p.size = 0 /\ p.aggs = FALSE /\ p.pit = FALSE
      /\ a.indices = {} /\ a.query = q /\ a.sort = <<>> /\ a.cursor = <<>>
      /\ a.from = 0 /\ a.size = 0 /\ a.aggs = TRUE /\ a.pit = FALSE
  <2>1. p = [indices |-> {}, query |-> q, sort |-> <<>>, cursor |-> <<>>, from |-> 0,
             size |-> 0, aggs |-> FALSE, pit |-> FALSE]
    BY PlainIs
  <2> HIDE DEF p
  <2>2. QED
    BY <2>1
<1>2. db \in Databases /\ Frozen(db)
  BY StoredIsFrozen DEF Surroundings
<1>3. count = Search(db, p)
  BY PlainCount
<1> HIDE DEF p, a
<1>4. Scanned(db, a) = Scanned(db, p)
  BY <1>1, SameScan
<1> DEFINE selected == Select(Scanned(db, p), p.query)
<1>5. Select(Scanned(db, a), a.query) = selected
  BY <1>1, <1>4
<1>6. byQuery = selected
  <2>1. IndicesFound(db, p.indices)
    BY <1>1 DEF IndicesFound
  <2>2. QED
    BY <2>1 DEF MatchingDocuments
<1>7. ASSUME selected = Refused
      PROVE  SameDocuments(q, search, count, byQuery)
  <2>1. search = Refused /\ count = Refused /\ byQuery = Refused
    BY <1>3, <1>5, <1>6, <1>7, RefusedSearch
  <2> HIDE DEF search, count, byQuery
  <2>2. Refused.status # "ok"
    BY DEF Refused
  <2>3. QED
    BY <2>1, <2>2 DEF SameDocuments
<1>8. ASSUME NEW docs, Selection(db, p, docs)
      PROVE  SameDocuments(q, search, count, byQuery)
  <2>1. selected = [status |-> "ok", docs |-> docs]
    BY <1>8 DEF Selection
  <2> DEFINE T == SelectedHits(db, p)
  <2>2. docs \in Seq(T)
    BY <1>8 DEF Selection, Lists
  <2>3. ToSet(Keys(docs)) = {k \in ToSet(DocOrder) : Exists(db, k) /\ Explain(db, k, q) = "match"}
    BY <1>1, <1>2, <1>8, ExplainedKeys, DocOrderLength
  <2> HIDE DEF selected, T
  <2>4. count.status = "ok" /\ count.total = Len(docs)
    <3>1. FALSE \in BOOLEAN /\ 0 \in Nat
      OBVIOUS
    <3>2. UnsortedRequest(p)
      BY <1>1, <3>1 DEF UnsortedRequest
    <3>3. Select(Scanned(db, p), p.query) = [status |-> "ok", docs |-> docs] /\ docs \in Seq(T)
      BY <2>1, <2>2 DEF selected
    <3>4. AnswersWindow(Search(db, p), docs, p)
      BY <3>2, <3>3, UnsortedSearch
    <3>5. QED
      BY <1>3, <3>4 DEF AnswersWindow
  <2>5. search.status = "ok" /\ search.all = docs
    <3>1. TRUE \in BOOLEAN /\ 0 \in Nat
      OBVIOUS
    <3>2. UnsortedRequest(a)
      BY <1>1, <3>1 DEF UnsortedRequest
    <3>3. Select(Scanned(db, a), a.query) = [status |-> "ok", docs |-> docs] /\ docs \in Seq(T)
      BY <1>5, <2>1, <2>2
    <3>4. AnswersWindow(Search(db, a), docs, a)
      BY <3>2, <3>3, UnsortedSearch
    <3>5. QED
      BY <1>1, <3>4 DEF AnswersWindow
  <2>6. byQuery.status = "ok" /\ byQuery.docs = docs
    BY <1>6, <2>1
  <2> HIDE DEF search, count, byQuery
  <2>7. QED
    BY <2>3, <2>4, <2>5, <2>6 DEF SameDocuments
<1>9. QED
  <2>1. selected = Refused \/ \E docs : Selection(db, p, docs)
    BY <1>2, SelectionIs
  <2>2. SameDocuments(q, search, count, byQuery)
    BY <1>7, <1>8, <2>1
  <2>3. QED
    BY <2>2 DEF p, a

\* Clauses on the same fields, whatever their directions.
SameFields(clauses, others) ==
    /\ Len(clauses) \in Nat /\ DOMAIN clauses = 1..Len(clauses)
    /\ Len(others) = Len(clauses) /\ DOMAIN others = DOMAIN clauses
    /\ \A i \in 1..Len(clauses) : others[i].field = clauses[i].field

LEMMA SameValues ==
    ASSUME NEW c, NEW e, c.field = e.field, NEW h
    PROVE  SortValue(h, c) = SortValue(h, e)
  BY DEF SortValue

\* Hits that tie under one of them tie under the other.
LEMMA SameTies ==
    ASSUME NEW clauses, NEW others, SameFields(clauses, others), NEW g, NEW h,
           CompareHits(g, h, clauses) = "equal"
    PROVE  CompareHits(g, h, others) = "equal"
<1> DEFINE n == Len(clauses)
           orders == [i \in DOMAIN others |->
                         Directed(CompareSortValues(SortValues(g, others)[i], SortValues(h, others)[i]),
                                  others[i].desc)]
<1>1. n \in Nat /\ DOMAIN clauses = 1..n /\ DOMAIN others = 1..n
  BY DEF SameFields
<1>2. CompareHits(g, h, others) = FirstOf(orders)
  BY DEF CompareHits, CompareByClauses, FirstOf
<1>3. DOMAIN orders = 1..n
  BY <1>1
<1>4. ASSUME NEW i \in 1..n PROVE orders[i] = "equal"
  <2>1. Directed(CompareSortValues(SortValue(g, clauses[i]), SortValue(h, clauses[i])),
                 clauses[i].desc) = "equal"
    BY <1>1, EqualHits
  <2>2. CompareSortValues(SortValue(g, clauses[i]), SortValue(h, clauses[i])) = "equal"
    BY <2>1 DEF Directed
  <2>3. SortValues(g, others)[i] = SortValue(g, clauses[i])
        /\ SortValues(h, others)[i] = SortValue(h, clauses[i])
    <3>1. others[i].field = clauses[i].field
      BY DEF SameFields
    <3>2. SortValue(g, others[i]) = SortValue(g, clauses[i])
          /\ SortValue(h, others[i]) = SortValue(h, clauses[i])
      BY <3>1, SameValues
    <3>3. QED
      BY <1>1, <3>2 DEF SortValues
  <2>4. QED
    BY <1>1, <2>2, <2>3 DEF Directed
<1> HIDE DEF orders, n
<1>5. QED
  BY <1>1, <1>2, <1>3, <1>4, FirstDecides

\* The hits in the order of the one, sorted by the other, are the hits sorted by
\* the other.
LEMMA SortAgain ==
    ASSUME NEW H, NEW clauses, NEW others, SameFields(clauses, others),
           Sortable(H, clauses), Sortable(H, others), NEW T \in SUBSET H, Distinct(T),
           NEW one, Lists(one, T, Before(H, others)), NEW two, Lists(two, T, Before(H, clauses))
    PROVE  SortByClauses(one, clauses) = two
<1>1. StrictOrder(T, Before(H, others)) /\ StrictOrder(T, Before(H, clauses))
  BY BeforeIsOrder
<1> DEFINE R == Before(H, others)
<1>0. Lists(one, T, R) /\ StrictOrder(T, R)
  BY <1>1
<1> HIDE DEF R
<1>2. Enumerates(one, T)
  <2>1. \A i, j \in 1..Len(one) : i # j => one[i] # one[j]
    BY <1>0, ListsProps
  <2>2. one \in Seq(T) /\ \A x \in T : \E i \in 1..Len(one) : one[i] = x
    BY <1>0 DEF Lists
  <2>3. QED
    BY <2>1, <2>2 DEF Enumerates
<1>3. TiesByKey(one, H, clauses)
  <2>1. SUFFICES ASSUME NEW i \in 1..Len(one), NEW j \in 1..Len(one), i < j,
                        CompareHits(one[i], one[j], clauses) = "equal"
                 PROVE  <<one[i], one[j]>> \in ByKey(H)
    BY DEF TiesByKey
  <2>2. <<one[i], one[j]>> \in R
    BY <1>0, <2>1 DEF Lists
  <2>3. CompareHits(one[i], one[j], others) = "equal"
    BY <2>1, SameTies
  <2>4. QED
    BY <2>2, <2>3 DEF Before, ByKey, R
<1>4. Lists(SortByClauses(one, clauses), T, Before(H, clauses))
  BY <1>2, <1>3, SortLists
<1>5. QED
  BY <1>1, <1>4, OneList

\* The sort of a request, and the sort in the opposite order.
Sorting(sort) ==
    /\ sort \in Seq(ToSet(sort))
    /\ \A i \in 1..Len(sort) :
          /\ sort[i] \in [field : {sort[i].field}, desc : BOOLEAN]
          /\ Comparable({SortValue(h, sort[i]) : h \in AllHits(workload)})

LEMMA ReversedSort ==
    ASSUME NEW sort, Sorting(sort)
    PROVE  Sorting(Reversed(sort)) /\ SameFields(sort, Reversed(sort))
<1> DEFINE rev == Reversed(sort)
           n == Len(sort)
           H == AllHits(workload)
<1>1. n \in Nat /\ DOMAIN sort = 1..n
  BY LenProperties DEF Sorting
<1>2. DOMAIN rev = 1..n /\ \A i \in 1..n : rev[i] = [sort[i] EXCEPT !.desc = ~@]
  BY <1>1 DEF Reversed
<1>3. \A i \in 1..n : rev[i].field = sort[i].field /\ rev[i] \in [field : {rev[i].field}, desc : BOOLEAN]
  <2>1. SUFFICES ASSUME NEW i \in 1..n
                 PROVE  rev[i].field = sort[i].field /\ rev[i] \in [field : {rev[i].field}, desc : BOOLEAN]
    OBVIOUS
  <2>2. sort[i] \in [field : {sort[i].field}, desc : BOOLEAN]
    BY DEF Sorting
  <2>3. rev[i] = [sort[i] EXCEPT !.desc = ~@]
    BY <1>2
  <2> HIDE DEF rev
  <2>4. QED
    BY <2>2, <2>3
<1>4. rev \in Seq(ToSet(rev)) /\ Len(rev) = n
  <2>1. \A i \in 1..n : rev[i] \in ToSet(rev)
    BY <1>2 DEF ToSet
  <2>2. rev = [i \in 1..n |-> rev[i]]
    BY <1>1 DEF Reversed
  <2> HIDE DEF rev
  <2>3. rev \in [1..n -> ToSet(rev)]
    BY <2>1, <2>2
  <2>4. QED
    BY <1>1, <2>3, FunctionIsSeq
<1> HIDE DEF rev, n, H
<1>5. \A i \in 1..n : Comparable({SortValue(h, rev[i]) : h \in H})
  <2>1. SUFFICES ASSUME NEW i \in 1..n PROVE Comparable({SortValue(h, rev[i]) : h \in H})
    OBVIOUS
  <2>2. \A h \in H : SortValue(h, rev[i]) = SortValue(h, sort[i])
    BY <1>3, SameValues
  <2>3. {SortValue(h, rev[i]) : h \in H} = {SortValue(h, sort[i]) : h \in H}
    BY <2>2
  <2>4. Comparable({SortValue(h, sort[i]) : h \in H})
    BY DEF Sorting, n, H
  <2>5. QED
    BY <2>3, <2>4
<1>6. Sorting(rev)
  BY <1>3, <1>4, <1>5 DEF Sorting, H
<1>7. SameFields(sort, rev)
  BY <1>1, <1>2, <1>3, <1>4 DEF SameFields, n
<1>8. QED
  BY <1>6, <1>7 DEF rev

LEMMA AppendedTo ==
    ASSUME NEW T, NEW s \in Seq(T), NEW e
    PROVE  /\ Len(Append(s, e)) = Len(s) + 1 /\ DOMAIN Append(s, e) = 1..(Len(s) + 1)
           /\ \A i \in 1..Len(s) : Append(s, e)[i] = s[i]
           /\ Append(s, e)[Len(s) + 1] = e
<1> DEFINE S == T \cup {e}
           t == Append(s, e)
<1>1. s \in Seq(S) /\ e \in S
  OBVIOUS
<1> HIDE DEF S
<1>2. t \in Seq(S) /\ Len(t) = Len(s) + 1 /\ \A i \in 1..Len(s) : t[i] = s[i]
  BY <1>1, AppendProperties
<1>3. t[Len(s) + 1] = e
  BY <1>1, AppendProperties
<1>4. DOMAIN t = 1..Len(t)
  BY <1>2, LenProperties
<1>5. QED
  BY <1>2, <1>3, <1>4

\* A sort as handle_search completes it.
LEMMA CompletedSort ==
    ASSUME NEW sort, Sorting(sort), NEW clauses, clauses = SortClauses(sort, FALSE)
    PROVE  /\ Sortable(AllHits(workload), clauses) /\ (sort # <<>> => clauses # <<>>)
           /\ \/ clauses = sort /\ ~NeedsImplicitTiebreaker(sort, FALSE)
              \/ /\ NeedsImplicitTiebreaker(sort, FALSE)
                 /\ Len(clauses) = Len(sort) + 1 /\ DOMAIN clauses = 1..(Len(sort) + 1)
                 /\ \A i \in 1..Len(sort) : clauses[i] = sort[i]
                 /\ clauses[Len(sort) + 1] = ShardDoc
<1> DEFINE H == AllHits(workload)
           n == Len(sort)
<1>1. n \in Nat /\ DOMAIN sort = 1..n
  BY LenProperties DEF Sorting
<1>2. \A h \in H : h.index \in IndexNames /\ h.id \in DocIds
  <2>1. \A d : Distinct(HitsOf(d))
    BY HitsDistinct
  <2>2. QED
    BY <2>1 DEF AllHits, Distinct
<1> HIDE DEF H, n
<1>3. \A i \in 1..n : sort[i].desc \in BOOLEAN /\ Comparable({SortValue(h, sort[i]) : h \in H})
  BY DEF Sorting, n, H
<1>4. CASE ~NeedsImplicitTiebreaker(sort, FALSE)
  <2>1. clauses = sort
    BY <1>4 DEF SortClauses
  <2>2. QED
    BY <1>1, <1>3, <1>4, <2>1 DEF Sortable, n, H
<1>5. CASE NeedsImplicitTiebreaker(sort, FALSE)
  <2>1. clauses = Append(sort, ShardDoc)
    BY <1>5 DEF SortClauses
  <2>2. /\ Len(clauses) = n + 1 /\ DOMAIN clauses = 1..(n + 1)
        /\ \A i \in 1..n : clauses[i] = sort[i]
        /\ clauses[n + 1] = ShardDoc
    <3>1. sort \in Seq(ToSet(sort)) /\ Len(sort) \in Nat
      BY <1>1 DEF Sorting, n
    <3>2. /\ Len(clauses) = Len(sort) + 1 /\ DOMAIN clauses = 1..(Len(sort) + 1)
          /\ \A i \in 1..Len(sort) : clauses[i] = sort[i]
          /\ clauses[Len(sort) + 1] = ShardDoc
      <4> DEFINE T == ToSet(sort)
      <4>1. sort \in Seq(T)
        BY <3>1
      <4> HIDE DEF T
      <4>2. Len(clauses) = Len(sort) + 1 /\ DOMAIN clauses = 1..(Len(sort) + 1)
        BY <2>1, <4>1, AppendedTo
      <4>3. \A i \in 1..Len(sort) : clauses[i] = sort[i]
        <5>1. \A i \in 1..Len(sort) : Append(sort, ShardDoc)[i] = sort[i]
          BY <4>1, AppendedTo
        <5>2. QED
          BY <2>1, <5>1
      <4>4. clauses[Len(sort) + 1] = ShardDoc
        BY <2>1, <4>1, AppendedTo
      <4>5. QED
        BY <4>2, <4>3, <4>4
    <3>3. QED
      BY <3>2 DEF n
  <2>3. ShardDoc.desc \in BOOLEAN /\ Comparable({SortValue(h, ShardDoc) : h \in H})
    <3>1. ShardDoc.desc \in BOOLEAN
      BY DEF ShardDoc, Clause
    <3>2. QED
      BY <1>2, <3>1, ShardDocComparable
  <2>4. \A i \in 1..(n + 1) : i = n + 1 \/ i \in 1..n
    BY <1>1
  <2>5. \A i \in 1..(n + 1) :
            clauses[i].desc \in BOOLEAN /\ Comparable({SortValue(h, clauses[i]) : h \in H})
    BY <1>3, <2>2, <2>3, <2>4
  <2>6. n + 1 \in Nat /\ n + 1 # 0
    BY <1>1
  <2>7. Sortable(H, clauses)
    BY <2>2, <2>5, <2>6 DEF Sortable
  <2>8. clauses # <<>>
    <3>1. Len(<<>>) = 0
      OBVIOUS
    <3>2. QED
      BY <2>2, <2>6, <3>1
  <2>9. QED
    BY <1>5, <2>2, <2>7, <2>8 DEF n, H
<1>6. QED
  BY <1>4, <1>5

\* What completes a sort completes its reverse.
LEMMA CompletedReverse ==
    ASSUME NEW sort, Sorting(sort)
    PROVE  SameFields(SortClauses(sort, FALSE), SortClauses(Reversed(sort), FALSE))
<1> DEFINE rev == Reversed(sort)
           clauses == SortClauses(sort, FALSE)
           others == SortClauses(rev, FALSE)
           n == Len(sort)
<1>1. Sorting(rev) /\ SameFields(sort, rev)
  BY ReversedSort
<1>2. n \in Nat /\ DOMAIN sort = 1..n /\ DOMAIN rev = 1..n /\ Len(rev) = n
      /\ \A i \in 1..n : rev[i].field = sort[i].field
  BY <1>1 DEF SameFields
<1> HIDE DEF rev
<1>3. NeedsImplicitTiebreaker(sort, FALSE) <=> NeedsImplicitTiebreaker(rev, FALSE)
  <2>1. \A name : Mentions(sort, name) <=> Mentions(rev, name)
    BY <1>2 DEF Mentions
  <2>2. sort = <<>> <=> n = 0
    BY EmptySeq DEF Sorting
  <2>3. rev = <<>> <=> n = 0
    BY <1>1, <1>2, EmptySeq DEF Sorting
  <2>4. QED
    BY <2>1, <2>2, <2>3 DEF NeedsImplicitTiebreaker
<1>4. \/ clauses = sort /\ ~NeedsImplicitTiebreaker(sort, FALSE)
      \/ /\ NeedsImplicitTiebreaker(sort, FALSE)
         /\ Len(clauses) = n + 1 /\ DOMAIN clauses = 1..(n + 1)
         /\ \A i \in 1..n : clauses[i] = sort[i]
         /\ clauses[n + 1] = ShardDoc
  BY CompletedSort
<1>5. \/ others = rev /\ ~NeedsImplicitTiebreaker(rev, FALSE)
      \/ /\ NeedsImplicitTiebreaker(rev, FALSE)
         /\ Len(others) = n + 1 /\ DOMAIN others = 1..(n + 1)
         /\ \A i \in 1..n : others[i] = rev[i]
         /\ others[n + 1] = ShardDoc
  <2> HIDE DEF others, n
  <2>1. others = SortClauses(rev, FALSE) /\ Len(rev) = n
    BY <1>2 DEF others
  <2>2. QED
    BY <1>1, <2>1, CompletedSort
<1> HIDE DEF clauses, others, n
<1>6. CASE ~NeedsImplicitTiebreaker(sort, FALSE)
  <2>1. clauses = sort /\ others = rev
    BY <1>3, <1>4, <1>5, <1>6
  <2>2. QED
    BY <1>1, <2>1 DEF clauses, others, rev
<1>7. CASE NeedsImplicitTiebreaker(sort, FALSE)
  <2>1. /\ Len(clauses) = n + 1 /\ DOMAIN clauses = 1..(n + 1)
        /\ \A i \in 1..n : clauses[i] = sort[i]
        /\ clauses[n + 1] = ShardDoc
        /\ Len(others) = n + 1 /\ DOMAIN others = 1..(n + 1)
        /\ \A i \in 1..n : others[i] = rev[i]
        /\ others[n + 1] = ShardDoc
    BY <1>3, <1>4, <1>5, <1>7
  <2>2. n + 1 \in Nat /\ \A i \in 1..(n + 1) : i = n + 1 \/ i \in 1..n
    BY <1>2
  <2>3. \A i \in 1..(n + 1) : others[i].field = clauses[i].field
    BY <1>2, <2>1, <2>2
  <2>4. SameFields(clauses, others)
    BY <2>1, <2>2, <2>3 DEF SameFields
  <2>5. QED
    BY <2>4 DEF clauses, others, rev
<1>8. QED
  BY <1>6, <1>7

LEMMA RequestSorting ==
    ASSUME workload \in DOMAIN Workloads, NEW r \in PageRequests
    PROVE  Sorting(r.sort)
<1>1. r.sort \in Seq(ToSet(r.sort)) /\ \A c \in ToSet(r.sort) : c \in [field : {c.field}, desc : BOOLEAN]
  BY PageRequestsAssumption
<1>2. \A c \in ToSet(r.sort) : Comparable({SortValue(h, c) : h \in AllHits(workload)})
  BY SortValuesAssumption
<1> DEFINE sort == r.sort
<1>3. sort \in Seq(ToSet(sort)) /\ \A c \in ToSet(sort) : c \in [field : {c.field}, desc : BOOLEAN]
  BY <1>1
<1>4. \A c \in ToSet(sort) : Comparable({SortValue(h, c) : h \in AllHits(workload)})
  BY <1>2
<1> HIDE DEF sort
<1>5. \A i \in 1..Len(sort) : sort[i] \in ToSet(sort)
  BY <1>3, ElementOfSeq
<1>6. QED
  BY <1>3, <1>4, <1>5 DEF Sorting, sort

\* A sorted window, and the top hits of the hits in the opposite order.
LEMMA SameWindowHolds ==
    ASSUME Surroundings, NEW q, NEW r \in PageRequests, r.sort # <<>>, NEW from \in Nat
    PROVE  SameWindow(r, from, Search(db, [r EXCEPT !.query = q, !.from = from]),
                      Search(db, [r EXCEPT !.query = q, !.aggs = TRUE, !.sort = Reversed(r.sort)]))
<1> DEFINE a == [r EXCEPT !.query = q, !.from = from]
           b == [r EXCEPT !.query = q, !.aggs = TRUE, !.sort = Reversed(r.sort)]
           sort == r.sort
           rev == Reversed(sort)
           clauses == SortClauses(sort, FALSE)
           others == SortClauses(rev, FALSE)
           H == AllHits(workload)
           T == SelectedHits(db, a)
           search == Search(db, a)
           reversed == Search(db, b)
           selected == Select(Scanned(db, a), a.query)
<1>1. /\ a.indices = r.indices /\ a.query = q /\ a.sort = sort /\ a.cursor = <<>>
      /\ a.from = from /\ a.size = r.size /\ a.pit = FALSE
      /\ b.indices = r.indices /\ b.query = q /\ b.sort = rev /\ b.cursor = <<>> /\ b.pit = FALSE
  <2>1. r \in [indices : {r.indices}, query : {r.query}, sort : {r.sort}, cursor : {r.cursor},
               from : {r.from}, size : {r.size}, aggs : {r.aggs}, pit : BOOLEAN]
        /\ r.cursor = <<>> /\ r.pit = FALSE
    BY PageRequestsAssumption DEF IsRequest
  <2>2. QED
    BY <2>1
<1>2. db \in Databases /\ Frozen(db) /\ workload \in DOMAIN Workloads
  BY StoredIsFrozen DEF Surroundings
<1> HIDE DEF a, b
<1>3. Scanned(db, b) = Scanned(db, a)
  BY <1>1, SameScan
<1>4. Select(Scanned(db, b), b.query) = selected
  BY <1>1, <1>3
<1>5. Sorting(sort) /\ Sorting(rev) /\ sort # <<>>
  BY <1>2, RequestSorting, ReversedSort
<1> HIDE DEF sort, rev
<1>6. /\ Sortable(H, clauses) /\ clauses # <<>>
      /\ Sortable(H, others) /\ SameFields(clauses, others)
  <2>1. Sortable(H, clauses) /\ clauses # <<>>
    BY <1>5, CompletedSort
  <2>2. Sortable(H, others)
    BY <1>5, CompletedSort
  <2>3. SameFields(clauses, others)
    BY <1>5, CompletedReverse DEF rev
  <2>4. QED
    BY <2>1, <2>2, <2>3
<1>7. others # <<>>
  <2>1. Len(others) = Len(clauses) /\ DOMAIN clauses = 1..Len(clauses) /\ DOMAIN others = DOMAIN clauses
    BY <1>6 DEF SameFields
  <2>2. sort # <<>> /\ rev # <<>>
    <3>1. Len(rev) = Len(sort) /\ sort \in Seq(ToSet(sort)) /\ rev \in Seq(ToSet(rev))
      BY <1>5, ReversedSort DEF rev, SameFields, Sorting
    <3>2. QED
      BY <1>5, <3>1, EmptySeq
  <2>3. QED
    BY <1>5, <2>2, CompletedSort
<1> HIDE DEF selected, search, reversed, clauses, others
<1>8. CASE selected = Refused
  <2>1. search = Refused
    BY <1>8, RefusedSearch DEF search, selected
  <2>2. search.status # "ok"
    BY <2>1 DEF Refused
  <2>3. SameWindow(r, from, search, reversed)
    BY <2>2 DEF SameWindow
  <2>4. QED
    BY <2>3 DEF search, reversed, a, b
<1>9. ASSUME NEW docs, Selection(db, a, docs)
      PROVE  SameWindow(r, from, search, reversed)
  <2> DEFINE two == SortByClauses(docs, clauses)
             one == SortByClauses(docs, others)
  <2>1. selected = [status |-> "ok", docs |-> docs]
    BY <1>9 DEF Selection, selected
  <2>2. /\ Distinct(T) /\ T \subseteq H /\ docs \in Seq(T)
        /\ Lists(two, T, Before(H, clauses)) /\ Lists(one, T, Before(H, others))
    BY <1>2, <1>6, <1>9, SelectionSorts
  <2>3. two \in Seq(T) /\ one \in Seq(T)
    BY <2>2 DEF Lists
  <2> HIDE DEF one, two, T, H
  <2>4. SortByClauses(one, clauses) = two
    BY <1>6, <2>2, SortAgain
  <2>5. search.hits = Slice(two, from, r.size)
    <3>1. /\ clauses = SortClauses(a.sort, a.pit) /\ a.cursor = <<>>
          /\ Select(Scanned(db, a), a.query) = [status |-> "ok", docs |-> docs]
          /\ SortByClauses(docs, clauses) \in Seq(T)
      BY <1>1, <2>1, <2>3 DEF clauses, selected, two
    <3>2. Search(db, a).hits = Slice(SortByClauses(docs, clauses), a.from, a.size)
      BY <1>6, <3>1, SortedSearch
    <3>3. QED
      BY <1>1, <3>2 DEF search, two
  <2>6. reversed.all = one
    <3>1. /\ others = SortClauses(b.sort, b.pit) /\ b.cursor = <<>>
          /\ Select(Scanned(db, b), b.query) = [status |-> "ok", docs |-> docs]
          /\ SortByClauses(docs, others) \in Seq(T)
      BY <1>1, <1>4, <2>1, <2>3 DEF others, one
    <3>2. Search(db, b).all = SortByClauses(docs, others)
      BY <1>7, <3>1, SortedSearch
    <3>3. QED
      BY <3>2 DEF reversed, one
  <2>7. ASSUME from + r.size <= MaxBuckets
        PROVE  TopHits(reversed.all, r.sort, from, r.size).hits = search.hits
    <3>1. r.size \in Nat /\ ~(from + r.size > MaxBuckets)
      BY <2>7, PageRequestsAssumption, LimitsAssumption
    <3>2. TopHits(one, sort, from, r.size).hits = Slice(SortByClauses(one, clauses), from, r.size)
      <4>1. clauses = SortClauses(sort, FALSE)
        BY DEF clauses
      <4> HIDE DEF sort, one
      <4>2. TopHits(one, sort, from, r.size) =
                [status |-> "ok", hits |-> Slice(SortByClauses(one, clauses), from, r.size)]
        BY <3>1, <4>1, Zenon DEF TopHits
      <4>3. QED
        BY <4>2
    <3>3. QED
      BY <2>4, <2>5, <2>6, <3>2 DEF sort
  <2>8. QED
    BY <2>7 DEF SameWindow
<1>10. QED
  <2>1. selected = Refused \/ \E docs : Selection(db, a, docs)
    BY <1>2, SelectionIs DEF selected
  <2>2. CASE \E docs : Selection(db, a, docs)
    <3>1. SameWindow(r, from, search, reversed)
      BY <1>9, <2>2
    <3>2. QED
      BY <3>1 DEF search, reversed, a, b
  <2>3. QED
    BY <1>8, <2>1, <2>2

LEMMA ReadersImplied == Surroundings => ReadersAgree
<1> SUFFICES ASSUME Surroundings, NEW q \in Queries
             PROVE  /\ \A from, size \in 0..2 : ValidateRequest(Plain(q, from, size)) =>
                          SameAnswers({Search(db, Plain(q, from, size)),
                                       Search(db, [Plain(q, from, size) EXCEPT !.aggs = TRUE]),
                                       Search(PitSnapshot({}), [Plain(q, from, size) EXCEPT !.pit = TRUE]),
                                       MultiSearchItem(db, Plain(q, from, size))})
                    /\ SameDocuments(q, Search(db, [Plain(q, 0, 0) EXCEPT !.aggs = TRUE]),
                                     Count(db, Plain(q, 0, 0)), MatchingDocuments(db, Plain(q, 0, 0)))
                    /\ \A r \in {r \in PageRequests : r.sort # <<>>}, from \in 0..2 :
                          SameWindow(r, from, Search(db, [r EXCEPT !.query = q, !.from = from]),
                                     Search(db, [r EXCEPT !.query = q, !.aggs = TRUE,
                                                          !.sort = Reversed(r.sort)]))
  BY DEF ReadersAgree
<1>1. 0..2 \subseteq Nat
  OBVIOUS
<1>2. ASSUME NEW from \in 0..2, NEW size \in 0..2, ValidateRequest(Plain(q, from, size))
      PROVE  SameAnswers({Search(db, Plain(q, from, size)),
                          Search(db, [Plain(q, from, size) EXCEPT !.aggs = TRUE]),
                          Search(PitSnapshot({}), [Plain(q, from, size) EXCEPT !.pit = TRUE]),
                          MultiSearchItem(db, Plain(q, from, size))})
  BY <1>1, <1>2, SameAnswersHolds
<1>3. SameDocuments(q, Search(db, [Plain(q, 0, 0) EXCEPT !.aggs = TRUE]),
                    Count(db, Plain(q, 0, 0)), MatchingDocuments(db, Plain(q, 0, 0)))
  BY SameDocumentsHolds
<1>4. ASSUME NEW r \in {r \in PageRequests : r.sort # <<>>}, NEW from \in 0..2
      PROVE  SameWindow(r, from, Search(db, [r EXCEPT !.query = q, !.from = from]),
                        Search(db, [r EXCEPT !.query = q, !.aggs = TRUE, !.sort = Reversed(r.sort)]))
  BY <1>1, SameWindowHolds
<1>5. QED
  BY <1>2, <1>3, <1>4, ZenonT(40)

\* Whatever the databases, queries and sorts: a search that keeps only its window
\* during the scan, one that keeps every hit for its aggregations, the search of a
\* point in time and an item of _msearch answer alike; _count, a by-query request
\* and _explain select the documents that the search does; and a top_hits
\* aggregation cuts from the hits in the opposite order the window that a search
\* with its sort answers.
THEOREM ReadersAlwaysAgree == SearchSpec => []ReadersAgree
<1>1. SearchInv => ReadersAgree
  BY ReadersImplied DEF SearchInv, ContextsInv
<1>2. QED
  BY <1>1, SearchInvariant, PTL

-----------------------------------------------------------------------------
(***************************************************************************)
(* The aggregations.                                                       *)
(***************************************************************************)

\* Hits of the workload in the order of the scan.
Scans(hits) ==
    \E T \in SUBSET AllHits(workload) :
        /\ StrictOrder(T, ByKey(AllHits(workload)))
        /\ Lists(hits, T, ByKey(AllHits(workload)))

\* What a search keeps for its aggregations.
LEMMA HitsForAggregations ==
    ASSUME Surroundings, NEW q
    PROVE  LET search == Search(db, [Plain(q, 0, 0) EXCEPT !.aggs = TRUE])
           IN  search.status = "ok" => Scans(search.all)
<1> DEFINE p == Plain(q, 0, 0)
           a == [p EXCEPT !.aggs = TRUE]
           search == Search(db, a)
           H == AllHits(workload)
           T == SelectedHits(db, p)
<1>1. /\ p.indices = {} /\ p.query = q /\ p.pit = FALSE
      /\ a.indices = {} /\ a.query = q /\ a.sort = <<>> /\ a.cursor = <<>>
      /\ a.from = 0 /\ a.size = 0 /\ a.aggs = TRUE /\ a.pit = FALSE
  <2>1. p = [indices |-> {}, query |-> q, sort |-> <<>>, cursor |-> <<>>, from |-> 0,
             size |-> 0, aggs |-> FALSE, pit |-> FALSE]
    BY PlainIs
  <2> HIDE DEF p
  <2>2. QED
    BY <2>1
<1>2. db \in Databases /\ Frozen(db)
  BY StoredIsFrozen DEF Surroundings
<1> HIDE DEF p, a
<1>3. Select(Scanned(db, a), a.query) = Select(Scanned(db, p), p.query)
  BY <1>1, SameScan
<1>4. CASE Select(Scanned(db, p), p.query) = Refused
  <2>1. search = Refused
    BY <1>3, <1>4, RefusedSearch
  <2>2. QED
    BY <2>1 DEF Refused, p, a
<1>5. ASSUME NEW docs, Selection(db, p, docs)
      PROVE  Scans(search.all)
  <2>1. docs \in Seq(T) /\ Lists(docs, T, ByKey(H))
    BY <1>5 DEF Selection, Lists
  <2>2. Select(Scanned(db, a), a.query) = [status |-> "ok", docs |-> docs]
    BY <1>3, <1>5 DEF Selection
  <2>3. T \subseteq H /\ StrictOrder(T, ByKey(H))
    <3>1. ScannedHits(db, p) \subseteq HitsOf(db) /\ HitsOf(db) \subseteq H /\ Distinct(HitsOf(db))
      BY <1>2, ScannedLists, FrozenHits, HitsDistinct
    <3>2. T \subseteq HitsOf(db)
      BY <3>1 DEF SelectedHits, Matching
    <3> HIDE DEF T, H
    <3>3. T \in SUBSET H /\ Distinct(T)
      BY <3>1, <3>2 DEF Distinct
    <3>4. QED
      BY <3>3, ByKeyIsOrder
  <2> HIDE DEF T, H
  <2>4. TRUE \in BOOLEAN /\ 0 \in Nat
    OBVIOUS
  <2>5. UnsortedRequest(a)
    BY <1>1, <2>4 DEF UnsortedRequest
  <2>6. AnswersWindow(Search(db, a), docs, a)
    BY <2>1, <2>2, <2>5, UnsortedSearch
  <2>7. Search(db, a).all = docs
    BY <1>1, <2>6 DEF AnswersWindow
  <2>8. QED
    BY <2>1, <2>3, <2>7 DEF Scans, H
<1>6. QED
  <2>1. \/ Select(Scanned(db, p), p.query) = Refused
        \/ \E docs : Selection(db, p, docs)
    BY <1>2, SelectionIs
  <2>2. CASE \E docs : Selection(db, p, docs)
    BY <1>5, <2>2 DEF p, a
  <2>3. QED
    BY <1>4, <2>1, <2>2

\* The values of an aggregated field.
ValuesIn(field) ==
    UNION {ToSet(Elements(ValueAt(h.source, field))) : h \in AllHits(workload)}

LEMMA AggregatedReadable ==
    ASSUME Surroundings, NEW field \in AggregatedFields
    PROVE  Readable(AllHits(workload), field, ValuesIn(field))
<1> DEFINE H == AllHits(workload)
           E(h) == Elements(ValueAt(h.source, field))
           V == ValuesIn(field)
<1>1. \A h \in H : /\ E(h) \in Seq(ToSet(E(h)))
                   /\ \A v \in ToSet(E(h)) : KeyOf(v) \in Int /\ (v.type = "number" => v.num \in Int)
  BY AggregatedValuesAssumption DEF Surroundings
<1>2. \A h \in H : ToSet(E(h)) \subseteq V
  BY DEF ValuesIn
<1>3. \A v \in V : \E h \in H : v \in ToSet(E(h))
  BY DEF ValuesIn
<1>4. FieldValues(H, field) = [h \in H |-> E(h)]
  BY DEF FieldValues
<1> HIDE DEF H, E, V
<1>5. \A h \in H : E(h) \in Seq(V)
  <2>1. SUFFICES ASSUME NEW h \in H PROVE E(h) \in Seq(V)
    OBVIOUS
  <2> DEFINE e == E(h)
             D == ToSet(e)
  <2>2. e \in Seq(D) /\ D \subseteq V
    BY <1>1, <1>2
  <2> HIDE DEF e, D
  <2>3. e \in Seq(V)
    BY <2>2
  <2>4. QED
    BY <2>3 DEF e
<1>6. FieldValues(H, field) \in [H -> Seq(V)]
  BY <1>4, <1>5
<1>7. \A v \in V : KeyOf(v) \in Int /\ (v.type = "number" => v.num \in Int)
  BY <1>1, <1>3
<1>8. QED
  BY <1>6, <1>7 DEF Readable, H, V

LEMMA AllSources ==
    ASSUME Surroundings
    PROVE  \A h \in AllHits(workload) : h.source \in Sources
  BY SourcesOfHits DEF Surroundings, AllHits

\* The terms buckets.
LEMMA TermsAgreeHolds ==
    ASSUME Surroundings, NEW field \in AggregatedFields, NEW hits \in Seq(AllHits(workload))
    PROVE  TermsAgree(hits, field, TermsAggregation(hits, field, MaxBuckets))
<1> DEFINE terms == TermsAggregation(hits, field, MaxBuckets)
           H == AllHits(workload)
           V == ValuesIn(field)
           buckets == terms.buckets
<1>1. Readable(H, field, V) /\ \A h \in H : h.source \in Sources
  BY AggregatedReadable, AllSources
<1> SUFFICES ASSUME terms.status = "ok"
             PROVE  /\ CardinalityOf(hits, field) = Len(buckets)
                    /\ ValueCount(hits, field) = HitsIn(buckets)
                    /\ \A b \in ToSet(buckets), c \in Queries :
                           /\ c.kind = "term" /\ c.field = field /\ c.values = {b.key}
                           /\ OneForm(hits, field, b.key)
                           => ToSet(FilterBucket(hits, c).docs) = ToSet(b.docs)
  BY DEF TermsAgree, HitsIn
<1> HIDE DEF H, V
<1>2. hits \in Seq(H)
  BY DEF H
<1>3. OneBucketEach(hits, field, buckets)
  BY <1>1, <1>2, TermsListed
<1> HIDE DEF terms, buckets
<1>4. CardinalityOf(hits, field) = Len(buckets)
  BY <1>3 DEF OneBucketEach, CardinalityOf
<1>5. ValueCount(hits, field) = HitsIn(buckets)
  BY <1>1, <1>2, <1>3, BucketsHoldValues
<1>6. ASSUME NEW b \in ToSet(buckets), NEW c \in Queries,
             c.kind = "term", c.field = field, c.values = {b.key}, OneForm(hits, field, b.key)
      PROVE  ToSet(FilterBucket(hits, c).docs) = ToSet(b.docs)
  <2>1. PICK k \in TermKeys(hits, field) : b = TermBucket(hits, field, k)
    BY <1>3 DEF OneBucketEach, ToSet
  <2>2. KeyOf(b.key) = k
    BY <1>1, <1>2, <2>1, BucketKey
  <2> DEFINE key == b.key
  <2>3. c.values = {key} /\ \A v \in ToSet(ValuesOf(hits, c.field)) : KeyOf(v) = KeyOf(key) => v = key
    BY <1>6 DEF OneForm
  <2> HIDE DEF key
  <2>4. Readable(H, c.field, V) /\ c.kind = "term"
    BY <1>1, <1>6
  <2>5. \A h \in H : h.source \in Sources
    BY <1>1
  <2>6. ToSet(FilterBucket(hits, c).docs) = ToSet(TermBucket(hits, c.field, KeyOf(key)).docs)
    BY <1>2, <2>3, <2>4, <2>5, TermSelects, ZenonT(60)
  <2>7. QED
    BY <1>6, <2>1, <2>2, <2>6 DEF key
<1>7. QED
  BY <1>4, <1>5, <1>6

\* All aggregations of one search.
LEMMA BucketsAgreeHold ==
    ASSUME Surroundings, NEW field \in AggregatedFields, NEW q
    PROVE  BucketsAgree(Search(db, [Plain(q, 0, 0) EXCEPT !.aggs = TRUE]), field)
<1> DEFINE search == Search(db, [Plain(q, 0, 0) EXCEPT !.aggs = TRUE])
           hits == search.all
           H == AllHits(workload)
           V == ValuesIn(field)
<1>1. Readable(H, field, V) /\ \A h \in H : h.source \in Sources
  BY AggregatedReadable, AllSources
<1>2. search.status = "ok" => Scans(hits)
  BY HitsForAggregations
<1> SUFFICES ASSUME Scans(hits)
             PROVE  /\ TermsAgree(hits, field, TermsAggregation(hits, field, MaxBuckets))
                    /\ HistogramAgrees(hits, field, HistogramAggregation(hits, field, 2))
                    /\ \A c \in Queries : c.kind = "exists" /\ c.field = field =>
                           Partition(hits, field, MissingBucket(hits, field), FilterBucket(hits, c).docs)
                    /\ \A c, n \in Queries : IsNegation(n, c) =>
                           FiltersPart(hits, field, FilterBucket(hits, c), FilterBucket(hits, n))
  BY <1>2 DEF BucketsAgree
<1> HIDE DEF search, hits
<1>3. PICK T \in SUBSET H : StrictOrder(T, ByKey(H)) /\ Lists(hits, T, ByKey(H))
  BY DEF Scans
<1>4. hits \in Seq(H)
  <2>1. hits \in Seq(T)
    BY <1>3 DEF Lists
  <2> HIDE DEF H
  <2>2. QED
    BY <2>1
<1>5. TermsAgree(hits, field, TermsAggregation(hits, field, MaxBuckets))
  BY <1>4, TermsAgreeHolds
<1> DEFINE R == ByKey(H)
<1>6. StrictOrder(T, R) /\ Lists(hits, T, R)
  BY <1>3
<1> HIDE DEF H, V, R
<1>7. HistogramAgrees(hits, field, HistogramAggregation(hits, field, 2))
  <2> SUFFICES ASSUME HistogramAggregation(hits, field, 2).status = "ok",
                      NEW b \in HistogramAggregation(hits, field, 2).buckets
               PROVE  b.docs = RangeBucket(hits, field, {b.key}, {b.key + 2})
    BY DEF HistogramAgrees
  <2>1. Readable(H, field, V)
    BY <1>1
  <2>2. StrictOrder(T, R)
    BY <1>6
  <2>3. Lists(hits, T, R)
    BY <1>6
  <2>4. QED
    BY <2>1, <2>2, <2>3, HistogramRanges
<1>8. ASSUME NEW c \in Queries, c.kind = "exists", c.field = field
      PROVE  Partition(hits, field, MissingBucket(hits, field), FilterBucket(hits, c).docs)
  <2>1. SharedOut(hits, c.field, MissingBucket(hits, c.field), FilterBucket(hits, c).docs)
    BY <1>1, <1>4, <1>8, ExistsParts
  <2>2. QED
    BY <1>8, <2>1 DEF SharedOut, Partition
<1>9. ASSUME NEW c \in Queries, NEW n \in Queries, IsNegation(n, c)
      PROVE  FiltersPart(hits, field, FilterBucket(hits, c), FilterBucket(hits, n))
  <2>1. SUFFICES ASSUME FilterBucket(hits, c).status = "ok"
                 PROVE  Partition(hits, field, FilterBucket(hits, c).docs, FilterBucket(hits, n).docs)
    BY DEF FiltersPart
  <2>2. /\ n.kind = "bool" /\ n.must_not = <<c>> /\ n.minimum = {}
        /\ n.must = <<>> /\ n.filter = <<>> /\ n.should = <<>>
    BY <1>9 DEF IsNegation
  <2>3. SharedOut(hits, field, FilterBucket(hits, c).docs, FilterBucket(hits, n).docs)
    BY <1>1, <1>4, <2>1, <2>2, NegationParts
  <2>4. QED
    BY <2>3 DEF SharedOut, Partition
<1>10. QED
  BY <1>5, <1>7, <1>8, <1>9

\* Whatever the documents, queries and fields: the aggregations of a search agree
\* with each other and with the queries.  The terms buckets hold each value once
\* and name the documents that a filter on the bucket's term selects, missing and
\* an exists filter part the documents, as do a filter and its must_not, a
\* histogram bucket holds what the range from its key to the next holds, and
\* sums add up over a partition.
THEOREM AggregationsAlwaysAgree == SearchSpec => []AggregationsAgree
<1>1. SearchInv => AggregationsAgree
  BY BucketsAgreeHold DEF SearchInv, ContextsInv, AggregationsAgree
<1>2. QED
  BY <1>1, SearchInvariant, PTL

=============================================================================
