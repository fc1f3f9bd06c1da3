---------------------------- MODULE Database_proofs ----------------------------
(***************************************************************************)
(* What the operators of module Database do, proved for all names, ids,    *)
(* objects and limits: the type of the database, what each mutation        *)
(* changes, the sizes it accounts for, and the numbers it hands out.       *)
(***************************************************************************)
EXTENDS Database, FiniteRecursion

-----------------------------------------------------------------------------
(* Tables: the finite functions of the database.                           *)

Table(K, V) == {f \in UNION {[S -> V] : S \in SUBSET K} : IsFiniteSet(DOMAIN f)}

LEMMA TableOf ==
    ASSUME NEW K, NEW V, NEW f
    PROVE  f \in Table(K, V) <=>
               /\ f = [x \in DOMAIN f |-> f[x]] /\ IsFiniteSet(DOMAIN f)
               /\ DOMAIN f \subseteq K /\ \A x \in DOMAIN f : f[x] \in V
<1>1. ASSUME f \in Table(K, V)
      PROVE  /\ f = [x \in DOMAIN f |-> f[x]] /\ IsFiniteSet(DOMAIN f)
             /\ DOMAIN f \subseteq K /\ \A x \in DOMAIN f : f[x] \in V
  <2>1. PICK S \in SUBSET K : f \in [S -> V]
    BY <1>1 DEF Table
  <2>2. QED
    BY <1>1, <2>1 DEF Table
<1>2. ASSUME /\ f = [x \in DOMAIN f |-> f[x]] /\ IsFiniteSet(DOMAIN f)
             /\ DOMAIN f \subseteq K /\ \A x \in DOMAIN f : f[x] \in V
      PROVE  f \in Table(K, V)
  <2>1. f \in [DOMAIN f -> V]
    BY <1>2
  <2>2. QED
    BY <1>2, <2>1 DEF Table
<1>3. QED
  BY <1>1, <1>2

\* Two tables with the same keys and values are equal.
LEMMA TableEqual ==
    ASSUME NEW K, NEW V, NEW f \in Table(K, V), NEW g \in Table(K, V),
           DOMAIN f = DOMAIN g, \A x \in DOMAIN f : f[x] = g[x]
    PROVE  f = g
<1>1. f = [x \in DOMAIN f |-> f[x]] /\ g = [x \in DOMAIN g |-> g[x]]
  BY TableOf
<1>2. [x \in DOMAIN f |-> f[x]] = [x \in DOMAIN g |-> g[x]]
  OBVIOUS
<1>3. QED
  BY <1>1, <1>2

LEMMA TableEmpty ==
    ASSUME NEW K, NEW V
    PROVE  Empty \in Table(K, V) /\ DOMAIN Empty = {}
<1>1. DOMAIN Empty = {} /\ Empty = [x \in DOMAIN Empty |-> Empty[x]]
  BY DEF Empty
<1>2. IsFiniteSet(DOMAIN Empty) /\ DOMAIN Empty \subseteq K /\ \A x \in DOMAIN Empty : Empty[x] \in V
  BY <1>1, FS_EmptySet
<1> HIDE DEF Empty
<1>3. QED
  BY <1>1, <1>2, TableOf

\* g is f with the value v at k; g is f without k.
PutAt(f, g, k, v) ==
    DOMAIN g = DOMAIN f \cup {k} /\ \A x \in DOMAIN g : g[x] = IF x = k THEN v ELSE f[x]
TakenOut(f, g, k) ==
    DOMAIN g = DOMAIN f \ {k} /\ \A x \in DOMAIN g : g[x] = f[x]

LEMMA TablePut ==
    ASSUME NEW K, NEW V, NEW f \in Table(K, V), NEW k \in K, NEW v \in V
    PROVE  /\ Put(f, k, v) \in Table(K, V)
           /\ PutAt(f, Put(f, k, v), k, v)
<1> DEFINE g == Put(f, k, v)
<1>1. DOMAIN g = DOMAIN f \cup {k} /\ g = [x \in DOMAIN g |-> g[x]]
  BY DEF Put
<1>2. \A x \in DOMAIN g : g[x] = IF x = k THEN v ELSE f[x]
  BY DEF Put
<1>3. IsFiniteSet(DOMAIN g)
  BY <1>1, TableOf, FS_AddElement
<1>4. DOMAIN f \subseteq K /\ \A x \in DOMAIN f : f[x] \in V
  BY TableOf
<1> HIDE DEF g
<1>5. g \in Table(K, V)
  BY <1>1, <1>2, <1>3, <1>4, TableOf
<1>6. QED
  BY <1>1, <1>2, <1>5 DEF g, PutAt

LEMMA TableRestrict ==
    ASSUME NEW K, NEW V, NEW f \in Table(K, V), NEW S \in SUBSET DOMAIN f
    PROVE  /\ Restrict(f, S) \in Table(K, V)
           /\ DOMAIN Restrict(f, S) = S
           /\ \A x \in S : Restrict(f, S)[x] = f[x]
<1> DEFINE g == Restrict(f, S)
<1>1. DOMAIN g = S /\ g = [x \in DOMAIN g |-> g[x]] /\ \A x \in S : g[x] = f[x]
  BY DEF Restrict
<1>2. IsFiniteSet(DOMAIN f) /\ DOMAIN f \subseteq K /\ \A x \in DOMAIN f : f[x] \in V
  BY TableOf
<1>3. IsFiniteSet(S)
  BY <1>2, FS_Subset
<1> HIDE DEF g
<1>4. g \in Table(K, V)
  BY <1>1, <1>2, <1>3, TableOf
<1>5. QED
  BY <1>1, <1>4 DEF g

LEMMA TableWithout ==
    ASSUME NEW K, NEW V, NEW f \in Table(K, V), NEW k
    PROVE  /\ Without(f, k) \in Table(K, V)
           /\ TakenOut(f, Without(f, k), k)
<1>1. DOMAIN f \ {k} \in SUBSET DOMAIN f /\ Without(f, k) = Restrict(f, DOMAIN f \ {k})
  BY DEF Without
<1>2. /\ Restrict(f, DOMAIN f \ {k}) \in Table(K, V)
      /\ DOMAIN Restrict(f, DOMAIN f \ {k}) = DOMAIN f \ {k}
      /\ \A x \in DOMAIN f \ {k} : Restrict(f, DOMAIN f \ {k})[x] = f[x]
  BY <1>1, TableRestrict
<1>3. QED
  BY <1>1, <1>2 DEF TakenOut

-----------------------------------------------------------------------------
(* The type of a database, and of the mutations that requests commit.      *)

StoredDocuments == [source : Objects, version : Nat \ {0}, seqNo : Nat]
DocumentTables == Table(Ids, StoredDocuments)
TombstoneTables == Table(Ids, Nat)
AliasSets == {s \in SUBSET Names : IsFiniteSet(s)}
Indexes ==
    [config : Objects, aliases : AliasSets, documents : DocumentTables,
     tombstones : TombstoneTables, storeSize : Nat]
Bodies == [patterns : SUBSET Names, config : Objects]
Databases ==
    [indexes : Table(Names, Indexes), templates : Table(Templates, Bodies),
     registry : Table(Registry, Objects), aliases : Table(Names, Names), seqNo : Nat]

PutMutations ==
    [kind : {"IndexDocument", "CreateDocument"}, index : Names, id : Ids, source : Objects]
    \cup [kind : {"UpdateDocument"}, index : Names, id : Ids, source : Objects,
          upsert : BOOLEAN]
DeleteMutations == [kind : {"DeleteDocument"}, index : Names, id : Ids]
CreateMutations == [kind : {"CreateIndex"}, index : Names, config : Objects]
NamedMutations ==
    [kind : {"DeleteIndex"}, index : Names]
    \cup [kind : {"PutConfig"}, index : Names, config : Objects]
    \cup [kind : {"PutAlias", "DeleteAlias"}, index : Names, alias : Names]
CatalogMutations ==
    [kind : {"PutTemplate"}, template : Templates, body : Bodies]
    \cup [kind : {"DeleteTemplate"}, template : Templates]
    \cup [kind : {"PutRegistryObject"}, object : Registry, body : Objects]
    \cup [kind : {"DeleteRegistryObject"}, object : Registry]
Renames ==
    {m \in [kind : {"RenameDocument"}, index : Names, id : DOMAIN Legacy, newId : Ids] :
         m.newId = Legacy[m.id]}

WriteMutations == PutMutations \cup DeleteMutations \cup CreateMutations
Mutations == WriteMutations \cup NamedMutations \cup CatalogMutations
Replayable == Mutations \cup Renames

LEMMA EmptyDatabaseType == EmptyDatabase \in Databases
<1>1. /\ Empty \in Table(Names, Indexes) /\ Empty \in Table(Templates, Bodies)
      /\ Empty \in Table(Registry, Objects) /\ Empty \in Table(Names, Names)
  BY TableEmpty
<1>2. QED
  BY <1>1 DEF EmptyDatabase, Databases

LEMMA ObjectSizes ==
    ASSUME NEW o \in Objects
    PROVE  IsFiniteSet(o) /\ Cardinality(o) \in Nat /\ EstimateValue(o) \in Nat
<1>1. IsFiniteSet(o) /\ Cardinality(o) \in Nat
  BY FieldsAssumption, FS_Subset, FS_CardinalityType DEF Objects
<1>2. QED
  BY <1>1 DEF EstimateValue

LEMMA DocumentSizes ==
    ASSUME NEW id, NEW o \in Objects
    PROVE  /\ EstimateDocument(id, o) \in Nat /\ EstimateDocument(id, o) > 0
           /\ EstimateTombstone(id) \in Nat
<1>1. EstimateValue(o) \in Nat /\ IdLength(id) \in Nat
  BY ObjectSizes DEF IdLength
<1>2. QED
  BY <1>1 DEF EstimateDocument, EstimateTombstone

-----------------------------------------------------------------------------
(* The size of an index is a sum over its tables.                          *)

DocumentBytes(docs) == [id \in DOMAIN docs |-> EstimateDocument(id, docs[id].source)]
TombstoneBytes(tombs) == [id \in DOMAIN tombs |-> EstimateTombstone(id)]

LEMMA DocumentsSummable ==
    ASSUME NEW docs \in DocumentTables
    PROVE  Summable(DocumentBytes(docs)) /\ DOMAIN DocumentBytes(docs) = DOMAIN docs
<1>1. IsFiniteSet(DOMAIN docs) /\ \A id \in DOMAIN docs : docs[id] \in StoredDocuments
  BY TableOf DEF DocumentTables
<1>2. \A id \in DOMAIN docs : EstimateDocument(id, docs[id].source) \in Nat
  BY <1>1, DocumentSizes DEF StoredDocuments
<1>3. QED
  BY <1>1, <1>2 DEF DocumentBytes, Summable

LEMMA TombstonesSummable ==
    ASSUME NEW tombs \in TombstoneTables
    PROVE  Summable(TombstoneBytes(tombs)) /\ DOMAIN TombstoneBytes(tombs) = DOMAIN tombs
<1>1. IsFiniteSet(DOMAIN tombs)
  BY TableOf DEF TombstoneTables
<1>2. {} \in Objects
  BY DEF Objects
<1>3. \A id \in DOMAIN tombs : EstimateTombstone(id) \in Nat
  BY <1>2, DocumentSizes
<1>4. QED
  BY <1>1, <1>3 DEF TombstoneBytes, Summable

LEMMA DocumentSum ==
    ASSUME NEW docs \in DocumentTables
    PROVE  MapThenSumSet(LAMBDA id : EstimateDocument(id, docs[id].source), DOMAIN docs)
               = SumOf(DocumentBytes(docs))
<1> DEFINE S == DOMAIN docs
           g == DocumentBytes(docs)
           R(f) == [s \in SUBSET S |->
                       IF s = {} THEN 0
                       ELSE EstimateDocument(Some(s), docs[Some(s)].source) + f[s \ {Some(s)}]]
           total == CHOOSE f : f = R(f)
<1>1. Summable(g) /\ DOMAIN g = S
  BY DocumentsSummable
<1>2. ASSUME NEW f PROVE f = R(f) <=> IsSum(f, g, S)
  <2>1. ASSUME NEW s \in SUBSET S, s # {}
        PROVE  g[Some(s)] = EstimateDocument(Some(s), docs[Some(s)].source)
    BY <2>1 DEF Some, DocumentBytes
  <2>2. R(f) = [s \in SUBSET S |-> IF s = {} THEN 0 ELSE g[Some(s)] + f[s \ {Some(s)}]]
    BY <2>1
  <2>3. QED
    BY <2>2 DEF IsSum
<1>3. MapThenSumSet(LAMBDA id : EstimateDocument(id, docs[id].source), S) = total[S]
  BY DEF MapThenSumSet, MapThenFoldSet, Some
<1>4. PICK f : IsSum(f, g, S)
  BY <1>1, SumOfFunction
<1>5. IsSum(total, g, S)
  <2>1. f = R(f)
    BY <1>2, <1>4
  <2>2. total = R(total)
    BY <2>1
  <2>3. QED
    BY <1>2, <2>2
<1> HIDE DEF total
<1>6. QED
  BY <1>1, <1>3, <1>5, SumOfValue

LEMMA TombstoneSum ==
    ASSUME NEW tombs \in TombstoneTables
    PROVE  MapThenSumSet(EstimateTombstone, DOMAIN tombs) = SumOf(TombstoneBytes(tombs))
<1> DEFINE S == DOMAIN tombs
           g == TombstoneBytes(tombs)
           R(f) == [s \in SUBSET S |->
                       IF s = {} THEN 0 ELSE EstimateTombstone(Some(s)) + f[s \ {Some(s)}]]
           total == CHOOSE f : f = R(f)
<1>1. Summable(g) /\ DOMAIN g = S
  BY TombstonesSummable
<1>2. ASSUME NEW f PROVE f = R(f) <=> IsSum(f, g, S)
  <2>1. ASSUME NEW s \in SUBSET S, s # {} PROVE g[Some(s)] = EstimateTombstone(Some(s))
    BY <2>1 DEF Some, TombstoneBytes
  <2>2. R(f) = [s \in SUBSET S |-> IF s = {} THEN 0 ELSE g[Some(s)] + f[s \ {Some(s)}]]
    BY <2>1
  <2>3. QED
    BY <2>2 DEF IsSum
<1>3. MapThenSumSet(EstimateTombstone, S) = total[S]
  BY DEF MapThenSumSet, MapThenFoldSet, Some
<1>4. PICK f : IsSum(f, g, S)
  BY <1>1, SumOfFunction
<1>5. IsSum(total, g, S)
  <2>1. f = R(f)
    BY <1>2, <1>4
  <2>2. total = R(total)
    BY <2>1
  <2>3. QED
    BY <1>2, <2>2
<1> HIDE DEF total
<1>6. QED
  BY <1>1, <1>3, <1>5, SumOfValue

DocumentSize(docs) == SumOf(DocumentBytes(docs))
TombstoneSize(tombs) == SumOf(TombstoneBytes(tombs))
DocumentBytesAt(docs, id) ==
    IF Has(docs, id) THEN EstimateDocument(id, docs[id].source) ELSE 0
TombstoneBytesAt(tombs, id) == IF Has(tombs, id) THEN EstimateTombstone(id) ELSE 0

LEMMA IndexSize ==
    ASSUME NEW ix \in Indexes
    PROVE  /\ EstimateIndex(ix) = 1 + EstimateValue(ix.config) + Cardinality(ix.aliases)
                                  + DocumentSize(ix.documents) + TombstoneSize(ix.tombstones)
           /\ EstimateValue(ix.config) \in Nat /\ Cardinality(ix.aliases) \in Nat
           /\ DocumentSize(ix.documents) \in Nat /\ TombstoneSize(ix.tombstones) \in Nat
           /\ EstimateIndex(ix) \in Nat
<1>1. /\ ix.config \in Objects /\ IsFiniteSet(ix.aliases)
      /\ ix.documents \in DocumentTables /\ ix.tombstones \in TombstoneTables
  BY DEF Indexes, AliasSets
<1>2. EstimateIndex(ix) = 1 + EstimateValue(ix.config) + Cardinality(ix.aliases)
                          + DocumentSize(ix.documents) + TombstoneSize(ix.tombstones)
  BY <1>1, DocumentSum, TombstoneSum DEF EstimateIndex, DocumentSize, TombstoneSize
<1>3. DocumentSize(ix.documents) \in Nat /\ TombstoneSize(ix.tombstones) \in Nat
  BY <1>1, DocumentsSummable, TombstonesSummable, SumOfNat DEF DocumentSize, TombstoneSize
<1>4. EstimateValue(ix.config) \in Nat /\ Cardinality(ix.aliases) \in Nat
  BY <1>1, ObjectSizes, FS_CardinalityType
<1>5. QED
  BY <1>2, <1>3, <1>4

LEMMA DocumentSizePut ==
    ASSUME NEW docs \in DocumentTables, NEW id \in Ids, NEW v \in StoredDocuments
    PROVE  /\ DocumentBytesAt(docs, id) \in Nat /\ DocumentSize(docs) \in Nat
           /\ DocumentBytesAt(docs, id) <= DocumentSize(docs)
           /\ DocumentSize(Put(docs, id, v)) =
                  (DocumentSize(docs) - DocumentBytesAt(docs, id))
                  + EstimateDocument(id, v.source)
<1> DEFINE g == DocumentBytes(docs)
           h == DocumentBytes(Put(docs, id, v))
           n == EstimateDocument(id, v.source)
<1>1. Summable(g) /\ DOMAIN g = DOMAIN docs /\ SumOf(g) \in Nat /\ SumOf(g) >= 0
  BY DocumentsSummable, SumOfNat
<1>2. n \in Nat
  BY DocumentSizes DEF StoredDocuments
<1>3. IsPut(g, h, id, n)
  BY <1>1 DEF IsPut, DocumentBytes, Put
<1>4. \A x \in DOMAIN docs : g[x] = EstimateDocument(x, docs[x].source)
  BY DEF DocumentBytes
<1> HIDE DEF g, h, n
<1>5. /\ id \in DOMAIN g => /\ g[id] \in Nat /\ g[id] <= SumOf(g)
                            /\ SumOf(h) = (SumOf(g) - g[id]) + n
      /\ id \notin DOMAIN g => SumOf(h) = SumOf(g) + n
  BY <1>1, <1>2, <1>3, SumOfPut
<1>6. QED
  BY <1>1, <1>2, <1>4, <1>5 DEF g, h, n, DocumentSize, DocumentBytesAt, Has

LEMMA DocumentSizeWithout ==
    ASSUME NEW docs \in DocumentTables, NEW id
    PROVE  /\ DocumentBytesAt(docs, id) \in Nat /\ DocumentSize(docs) \in Nat
           /\ DocumentBytesAt(docs, id) <= DocumentSize(docs)
           /\ DocumentSize(Without(docs, id)) =
                  DocumentSize(docs) - DocumentBytesAt(docs, id)
<1> DEFINE g == DocumentBytes(docs)
           h == DocumentBytes(Without(docs, id))
<1>1. Summable(g) /\ DOMAIN g = DOMAIN docs /\ SumOf(g) \in Nat /\ SumOf(g) >= 0
  BY DocumentsSummable, SumOfNat
<1>2. h = [x \in DOMAIN g \ {id} |-> g[x]]
  BY <1>1 DEF DocumentBytes, Without, Restrict
<1>3. \A x \in DOMAIN docs : g[x] = EstimateDocument(x, docs[x].source)
  BY DEF DocumentBytes
<1> HIDE DEF g, h
<1>4. /\ id \in DOMAIN g => /\ g[id] \in Nat /\ g[id] <= SumOf(g)
                            /\ SumOf(h) = SumOf(g) - g[id]
      /\ id \notin DOMAIN g => SumOf(h) = SumOf(g)
  BY <1>1, <1>2, SumOfWithout
<1>5. QED
  BY <1>1, <1>3, <1>4 DEF g, h, DocumentSize, DocumentBytesAt, Has

LEMMA TombstoneSizePut ==
    ASSUME NEW tombs \in TombstoneTables, NEW id \in Ids, NEW v
    PROVE  /\ TombstoneBytesAt(tombs, id) \in Nat /\ TombstoneSize(tombs) \in Nat
           /\ TombstoneBytesAt(tombs, id) <= TombstoneSize(tombs)
           /\ TombstoneSize(Put(tombs, id, v)) =
                  (TombstoneSize(tombs) - TombstoneBytesAt(tombs, id)) + EstimateTombstone(id)
<1> DEFINE g == TombstoneBytes(tombs)
           h == TombstoneBytes(Put(tombs, id, v))
           n == EstimateTombstone(id)
<1>1. Summable(g) /\ DOMAIN g = DOMAIN tombs /\ SumOf(g) \in Nat /\ SumOf(g) >= 0
  BY TombstonesSummable, SumOfNat
<1>2. n \in Nat
  BY DocumentSizes DEF Objects
<1>3. IsPut(g, h, id, n)
  BY <1>1 DEF IsPut, TombstoneBytes, Put
<1>4. \A x \in DOMAIN tombs : g[x] = EstimateTombstone(x)
  BY DEF TombstoneBytes
<1> HIDE DEF g, h, n
<1>5. /\ id \in DOMAIN g => /\ g[id] \in Nat /\ g[id] <= SumOf(g)
                            /\ SumOf(h) = (SumOf(g) - g[id]) + n
      /\ id \notin DOMAIN g => SumOf(h) = SumOf(g) + n
  BY <1>1, <1>2, <1>3, SumOfPut
<1>6. QED
  BY <1>1, <1>2, <1>4, <1>5 DEF g, h, n, TombstoneSize, TombstoneBytesAt, Has

LEMMA TombstoneSizeWithout ==
    ASSUME NEW tombs \in TombstoneTables, NEW id
    PROVE  /\ TombstoneBytesAt(tombs, id) \in Nat /\ TombstoneSize(tombs) \in Nat
           /\ TombstoneBytesAt(tombs, id) <= TombstoneSize(tombs)
           /\ TombstoneSize(Without(tombs, id)) =
                  TombstoneSize(tombs) - TombstoneBytesAt(tombs, id)
<1> DEFINE g == TombstoneBytes(tombs)
           h == TombstoneBytes(Without(tombs, id))
<1>1. Summable(g) /\ DOMAIN g = DOMAIN tombs /\ SumOf(g) \in Nat /\ SumOf(g) >= 0
  BY TombstonesSummable, SumOfNat
<1>2. h = [x \in DOMAIN g \ {id} |-> g[x]]
  BY <1>1 DEF TombstoneBytes, Without, Restrict
<1>3. \A x \in DOMAIN tombs : g[x] = EstimateTombstone(x)
  BY DEF TombstoneBytes
<1> HIDE DEF g, h
<1>4. /\ id \in DOMAIN g => /\ g[id] \in Nat /\ g[id] <= SumOf(g)
                            /\ SumOf(h) = SumOf(g) - g[id]
      /\ id \notin DOMAIN g => SumOf(h) = SumOf(g)
  BY <1>1, <1>2, SumOfWithout
<1>5. QED
  BY <1>1, <1>3, <1>4 DEF g, h, TombstoneSize, TombstoneBytesAt, Has

-----------------------------------------------------------------------------
(* What a document mutation does to an index.                              *)

\* The incremental size is no less than the size computed anew.
Covers(ix) == ix.storeSize >= EstimateIndex(ix)

\* r is ix with other documents, tombstones and size.
SameButDocuments(ix, r, docs, tombs, size) ==
    /\ r \in Indexes /\ r.config = ix.config /\ r.aliases = ix.aliases
    /\ r.documents = docs /\ r.tombstones = tombs /\ r.storeSize = size

LEMMA DropDocumentBytesEffect ==
    ASSUME NEW ix \in Indexes, NEW id, DocumentBytesAt(ix.documents, id) <= ix.storeSize,
           DocumentBytesAt(ix.documents, id) \in Nat
    PROVE  SameButDocuments(ix, DropDocumentBytes(ix, id), ix.documents, ix.tombstones,
                            ix.storeSize - DocumentBytesAt(ix.documents, id))
<1>1. ix.storeSize \in Nat
  BY DEF Indexes
<1>2. CASE Has(ix.documents, id)
  <2>1. DocumentBytesAt(ix.documents, id) = EstimateDocument(id, ix.documents[id].source)
    BY <1>2 DEF DocumentBytesAt
  <2> DEFINE n == ix.storeSize - DocumentBytesAt(ix.documents, id)
  <2>2. DropDocumentBytes(ix, id) = [ix EXCEPT !.storeSize = n] /\ n \in Nat
    BY <1>1, <1>2, <2>1 DEF DropDocumentBytes, SaturatingSub
  <2> HIDE DEF n
  <2>3. QED
    BY <2>2 DEF n, SameButDocuments, Indexes
<1>3. CASE ~Has(ix.documents, id)
  <2>1. DropDocumentBytes(ix, id) = ix /\ ix.storeSize - DocumentBytesAt(ix.documents, id) = ix.storeSize
    BY <1>1, <1>3 DEF DropDocumentBytes, DocumentBytesAt
  <2>2. QED
    BY <2>1 DEF SameButDocuments
<1>4. QED
  BY <1>2, <1>3

LEMMA DropTombstoneEffect ==
    ASSUME NEW ix \in Indexes, NEW id, TombstoneBytesAt(ix.tombstones, id) <= ix.storeSize,
           TombstoneBytesAt(ix.tombstones, id) \in Nat
    PROVE  SameButDocuments(ix, DropTombstone(ix, id), ix.documents, Without(ix.tombstones, id),
                            ix.storeSize - TombstoneBytesAt(ix.tombstones, id))
<1>1. ix.storeSize \in Nat /\ ix.tombstones \in TombstoneTables
  BY DEF Indexes
<1>2. /\ Without(ix.tombstones, id) \in TombstoneTables
      /\ TakenOut(ix.tombstones, Without(ix.tombstones, id), id)
  BY <1>1, TableWithout DEF TombstoneTables
<1>3. CASE Has(ix.tombstones, id)
  <2> DEFINE n == ix.storeSize - TombstoneBytesAt(ix.tombstones, id)
             t == Without(ix.tombstones, id)
  <2>a. TombstoneBytesAt(ix.tombstones, id) = EstimateTombstone(id)
    BY <1>3 DEF TombstoneBytesAt
  <2>b. SaturatingSub(ix.storeSize, EstimateTombstone(id)) = n /\ n \in Nat
    BY <1>1, <2>a DEF SaturatingSub
  <2>1. /\ DropTombstone(ix, id) = [ix EXCEPT !.tombstones = t, !.storeSize = n]
        /\ n \in Nat
    BY <1>3, <2>b DEF DropTombstone
  <2>2. t \in TombstoneTables
    BY <1>2
  <2> HIDE DEF n, t
  <2>3. QED
    BY <2>1, <2>2 DEF n, t, SameButDocuments, Indexes
<1>4. CASE ~Has(ix.tombstones, id)
  <2>1. /\ DropTombstone(ix, id) = ix
        /\ ix.storeSize - TombstoneBytesAt(ix.tombstones, id) = ix.storeSize
    BY <1>1, <1>4 DEF DropTombstone, TombstoneBytesAt
  <2>2. Without(ix.tombstones, id) = ix.tombstones
    <3>1. DOMAIN Without(ix.tombstones, id) = DOMAIN ix.tombstones
      BY <1>2, <1>4 DEF Has, TakenOut
    <3>2. \A x \in DOMAIN ix.tombstones : Without(ix.tombstones, id)[x] = ix.tombstones[x]
      BY <1>2, <1>4 DEF Has, TakenOut
    <3>3. QED
      BY <1>1, <1>2, <3>1, <3>2, TableEqual DEF TombstoneTables
  <2>3. QED
    BY <2>1, <2>2 DEF SameButDocuments
<1>5. QED
  BY <1>3, <1>4

Stored(source, version, s) == [source |-> source, version |-> version, seqNo |-> s]

LEMMA PutDocumentEffect ==
    ASSUME NEW ix \in Indexes, NEW id \in Ids, NEW source \in Objects,
           NEW version \in Nat \ {0}, NEW s \in Nat
    PROVE  SameButDocuments(ix, PutDocument(ix, id, source, version, s),
                            Put(ix.documents, id, Stored(source, version, s)), ix.tombstones,
                            ix.storeSize + EstimateDocument(id, source))
<1> DEFINE docs == Put(ix.documents, id, Stored(source, version, s))
           n == ix.storeSize + EstimateDocument(id, source)
<1>1. Stored(source, version, s) \in StoredDocuments
  BY DEF Stored, StoredDocuments
<1>2. docs \in DocumentTables
  BY <1>1, TablePut DEF DocumentTables, Indexes
<1>3. n \in Nat
  BY DocumentSizes DEF Indexes
<1>4. PutDocument(ix, id, source, version, s) =
          [ix EXCEPT !.documents = docs, !.storeSize = n]
  BY DEF PutDocument, Stored
<1> HIDE DEF docs, n
<1>5. QED
  BY <1>2, <1>3, <1>4 DEF docs, n, SameButDocuments, Indexes

\* The source that a put leaves.
NewSource(ix, m) ==
    IF m.kind = "UpdateDocument"
    THEN MergeObject(IF Has(ix.documents, m.id) THEN ix.documents[m.id].source ELSE {}, m.source)
    ELSE m.source

\* The mutation changes the index.
TakesEffect(ix, m) ==
    CASE m.kind = "IndexDocument"  -> TRUE
      [] m.kind = "CreateDocument" -> ~Has(ix.documents, m.id)
      [] m.kind = "UpdateDocument" -> Has(ix.documents, m.id) \/ m.upsert
      [] m.kind = "DeleteDocument" -> Has(ix.documents, m.id)

BytesAt(ix, id) == DocumentBytesAt(ix.documents, id) + TombstoneBytesAt(ix.tombstones, id)

IsPutOf(ix, m, s, r) ==
    SameButDocuments(ix, r,
        Put(ix.documents, m.id, Stored(NewSource(ix, m), NextVersion(ix, m.id), s)),
        Without(ix.tombstones, m.id),
        (ix.storeSize - BytesAt(ix, m.id)) + EstimateDocument(m.id, NewSource(ix, m)))

IsDeleteOf(ix, m, s, r) ==
    SameButDocuments(ix, r, Without(ix.documents, m.id), Put(ix.tombstones, m.id, s),
        (ix.storeSize - DocumentBytesAt(ix.documents, m.id)) + EstimateTombstone(m.id))

\* An index whose size is covered accounts for what it holds at an id.
LEMMA BytesCovered ==
    ASSUME NEW ix \in Indexes, NEW id, Covers(ix)
    PROVE  /\ BytesAt(ix, id) <= ix.storeSize /\ ix.storeSize \in Nat
           /\ DocumentBytesAt(ix.documents, id) \in Nat
           /\ TombstoneBytesAt(ix.tombstones, id) \in Nat
<1>1. ix.documents \in DocumentTables /\ ix.tombstones \in TombstoneTables /\ ix.storeSize \in Nat
  BY DEF Indexes
<1>2. /\ DocumentBytesAt(ix.documents, id) \in Nat
      /\ DocumentBytesAt(ix.documents, id) <= DocumentSize(ix.documents)
  BY <1>1, DocumentSizeWithout
<1>3. /\ TombstoneBytesAt(ix.tombstones, id) \in Nat
      /\ TombstoneBytesAt(ix.tombstones, id) <= TombstoneSize(ix.tombstones)
  BY <1>1, TombstoneSizeWithout
<1>4. /\ EstimateIndex(ix) = 1 + EstimateValue(ix.config) + Cardinality(ix.aliases)
                             + DocumentSize(ix.documents) + TombstoneSize(ix.tombstones)
      /\ EstimateValue(ix.config) \in Nat /\ Cardinality(ix.aliases) \in Nat
      /\ DocumentSize(ix.documents) \in Nat /\ TombstoneSize(ix.tombstones) \in Nat
  BY IndexSize
<1>5. QED
  BY <1>1, <1>2, <1>3, <1>4 DEF Covers, BytesAt

LEMMA NewSourceType ==
    ASSUME NEW ix \in Indexes, NEW m \in PutMutations
    PROVE  NewSource(ix, m) \in Objects /\ NextVersion(ix, m.id) \in Nat \ {0} /\ m.id \in Ids
<1>1. m.source \in Objects /\ m.id \in Ids
  BY DEF PutMutations
<1>2. ix.documents \in DocumentTables
  BY DEF Indexes
<1>3. Has(ix.documents, m.id) => ix.documents[m.id] \in StoredDocuments
  BY <1>2, TableOf DEF DocumentTables, Has
<1>4. QED
  BY <1>1, <1>3 DEF NewSource, NextVersion, MergeObject, Objects, StoredDocuments

LEMMA ApplyDocumentPut ==
    ASSUME NEW ix \in Indexes, NEW m \in PutMutations, NEW s \in Nat, Covers(ix),
           TakesEffect(ix, m)
    PROVE  IsPutOf(ix, m, s, ApplyDocument(ix, m, s))
<1> DEFINE src == NewSource(ix, m)
           v == NextVersion(ix, m.id)
           db1 == DocumentBytesAt(ix.documents, m.id)
           tb1 == TombstoneBytesAt(ix.tombstones, m.id)
           e == EstimateDocument(m.id, src)
<1>1. src \in Objects /\ v \in Nat \ {0} /\ m.id \in Ids /\ e \in Nat
  BY NewSourceType, DocumentSizes
<1>2. db1 + tb1 <= ix.storeSize /\ ix.storeSize \in Nat /\ db1 \in Nat /\ tb1 \in Nat
  BY BytesCovered DEF BytesAt
<1>3. BytesAt(ix, m.id) = db1 + tb1
  BY DEF BytesAt
<1> HIDE DEF src, v, db1, tb1, e
<1>4. ASSUME NEW a, SameButDocuments(ix, a, ix.documents, ix.tombstones, ix.storeSize - db1)
      PROVE  /\ IsPutOf(ix, m, s, PutDocument(DropTombstone(a, m.id), m.id, src, v, s))
             /\ IsPutOf(ix, m, s, DropTombstone(PutDocument(a, m.id, src, v, s), m.id))
  <2>1. /\ a \in Indexes /\ a.config = ix.config /\ a.aliases = ix.aliases
        /\ a.documents = ix.documents /\ a.tombstones = ix.tombstones
        /\ a.storeSize = ix.storeSize - db1
    BY <1>4 DEF SameButDocuments
  <2> DEFINE b == DropTombstone(a, m.id)
             c == PutDocument(a, m.id, src, v, s)
             r1 == PutDocument(b, m.id, src, v, s)
             r2 == DropTombstone(c, m.id)
             tombs == Without(ix.tombstones, m.id)
             docs == Put(ix.documents, m.id, Stored(src, v, s))
  <2>2. SameButDocuments(a, b, ix.documents, tombs, (ix.storeSize - db1) - tb1)
    BY <1>2, <2>1, DropTombstoneEffect DEF tb1
  <2>3. SameButDocuments(a, c, docs, ix.tombstones, (ix.storeSize - db1) + e)
    BY <1>1, <1>2, <2>1, PutDocumentEffect DEF e
  <2>4. SameButDocuments(b, r1, docs, tombs, ((ix.storeSize - db1) - tb1) + e)
    <3>1. b \in Indexes /\ b.documents = ix.documents /\ b.tombstones = tombs
          /\ b.storeSize = (ix.storeSize - db1) - tb1
      BY <2>2 DEF SameButDocuments
    <3> HIDE DEF b
    <3>2. QED
      BY <1>1, <3>1, PutDocumentEffect DEF e
  <2>5. SameButDocuments(c, r2, docs, tombs, ((ix.storeSize - db1) + e) - tb1)
    <3>1. c \in Indexes /\ c.documents = docs /\ c.tombstones = ix.tombstones
          /\ c.storeSize = (ix.storeSize - db1) + e
      BY <2>3 DEF SameButDocuments
    <3>2. tb1 <= c.storeSize
      BY <1>1, <1>2, <3>1
    <3>3. tb1 = TombstoneBytesAt(c.tombstones, m.id)
      BY <3>1 DEF tb1
    <3> HIDE DEF c
    <3>4. SameButDocuments(c, DropTombstone(c, m.id), c.documents, Without(c.tombstones, m.id),
                           c.storeSize - TombstoneBytesAt(c.tombstones, m.id))
      BY <1>2, <3>1, <3>2, <3>3, DropTombstoneEffect
    <3>5. QED
      BY <3>1, <3>3, <3>4
  <2>6. /\ ((ix.storeSize - db1) - tb1) + e = (ix.storeSize - (db1 + tb1)) + e
        /\ ((ix.storeSize - db1) + e) - tb1 = (ix.storeSize - (db1 + tb1)) + e
    BY <1>1, <1>2
  <2>7. SameButDocuments(ix, r1, docs, tombs, (ix.storeSize - (db1 + tb1)) + e)
    BY <2>1, <2>2, <2>4, <2>6 DEF SameButDocuments
  <2>8. SameButDocuments(ix, r2, docs, tombs, (ix.storeSize - (db1 + tb1)) + e)
    BY <2>1, <2>3, <2>5, <2>6 DEF SameButDocuments
  <2>9. QED
    BY <1>3, <2>7, <2>8 DEF IsPutOf, src, v, e
<1>5. SameButDocuments(ix, DropDocumentBytes(ix, m.id), ix.documents, ix.tombstones,
                       ix.storeSize - db1)
  BY <1>2, DropDocumentBytesEffect DEF db1
<1>6. CASE m.kind = "IndexDocument"
  <2>1. ApplyDocument(ix, m, s) =
            PutDocument(DropTombstone(DropDocumentBytes(ix, m.id), m.id), m.id, src, v, s)
    BY <1>6 DEF ApplyDocument, src, v, NewSource
  <2>2. QED
    BY <1>4, <1>5, <2>1
<1>7. CASE m.kind = "CreateDocument"
  <2>1. ~Has(ix.documents, m.id)
    BY <1>7 DEF TakesEffect
  <2>2. ApplyDocument(ix, m, s) = PutDocument(DropTombstone(ix, m.id), m.id, src, v, s)
    BY <1>7, <2>1 DEF ApplyDocument, src, v, NewSource, NextVersion
  <2>3. ix.storeSize - db1 = ix.storeSize
    BY <1>2, <2>1 DEF db1, DocumentBytesAt
  <2>4. SameButDocuments(ix, ix, ix.documents, ix.tombstones, ix.storeSize - db1)
    BY <2>3 DEF SameButDocuments
  <2>5. QED
    BY <1>4, <2>2, <2>4
<1>8. CASE m.kind = "UpdateDocument"
  <2>1. Has(ix.documents, m.id) \/ m.upsert
    BY <1>8 DEF TakesEffect
  <2>2. ApplyDocument(ix, m, s) =
            DropTombstone(PutDocument(DropDocumentBytes(ix, m.id), m.id, src, v, s), m.id)
    BY <1>8, <2>1 DEF ApplyDocument, src, v, NewSource
  <2>3. QED
    BY <1>4, <1>5, <2>2
<1>9. m.kind \in {"IndexDocument", "CreateDocument", "UpdateDocument"}
  BY DEF PutMutations
<1>10. QED
  BY <1>6, <1>7, <1>8, <1>9

LEMMA ApplyDocumentDelete ==
    ASSUME NEW ix \in Indexes, NEW m \in DeleteMutations, NEW s \in Nat, Covers(ix),
           TakesEffect(ix, m)
    PROVE  IsDeleteOf(ix, m, s, ApplyDocument(ix, m, s))
<1>1. m.kind = "DeleteDocument" /\ m.id \in Ids
  BY DEF DeleteMutations
<1>2. Has(ix.documents, m.id)
  BY <1>1 DEF TakesEffect
<1> DEFINE a == DropDocumentBytes(ix, m.id)
           n == DocumentBytesAt(ix.documents, m.id)
           docs == Without(ix.documents, m.id)
           tombs == Put(ix.tombstones, m.id, s)
           e == EstimateTombstone(m.id)
<1>3. n <= ix.storeSize /\ n \in Nat /\ ix.storeSize \in Nat
  BY BytesCovered DEF BytesAt
<1>4. SameButDocuments(ix, a, ix.documents, ix.tombstones, ix.storeSize - n)
  BY <1>3, DropDocumentBytesEffect
<1>5. docs \in DocumentTables /\ tombs \in TombstoneTables
  BY <1>1, TableWithout, TablePut DEF Indexes, DocumentTables, TombstoneTables
<1>6. e \in Nat
  BY DocumentSizes DEF Objects
<1>7. ApplyDocument(ix, m, s) =
          [a EXCEPT !.documents = Without(@, m.id), !.tombstones = Put(@, m.id, s),
                    !.storeSize = @ + e]
  BY <1>1, <1>2 DEF ApplyDocument
<1> HIDE DEF a, e
<1>8. a \in Indexes
  BY <1>4 DEF SameButDocuments
<1>9. ApplyDocument(ix, m, s) =
          [a EXCEPT !.documents = docs, !.tombstones = tombs, !.storeSize = (ix.storeSize - n) + e]
  BY <1>4, <1>7, <1>8 DEF SameButDocuments, Indexes
<1> HIDE DEF n, docs, tombs
<1>10. (ix.storeSize - n) + e \in Nat
  BY <1>3, <1>6
<1>11. SameButDocuments(ix, ApplyDocument(ix, m, s), docs, tombs, (ix.storeSize - n) + e)
  BY <1>4, <1>5, <1>8, <1>9, <1>10 DEF SameButDocuments, Indexes
<1>12. QED
  BY <1>11 DEF n, docs, tombs, e, IsDeleteOf

LEMMA ApplyDocumentNothing ==
    ASSUME NEW ix, NEW m \in PutMutations \cup DeleteMutations, NEW s, ~TakesEffect(ix, m)
    PROVE  ApplyDocument(ix, m, s) = ix
BY DEF PutMutations, DeleteMutations, TakesEffect, ApplyDocument

-----------------------------------------------------------------------------
(* How far the incremental size of an index is from the computed one.      *)

Slack(ix) == ix.storeSize - EstimateIndex(ix)

LEMMA PutSlack ==
    ASSUME NEW ix \in Indexes, NEW m \in PutMutations, NEW s \in Nat, NEW r, Covers(ix),
           IsPutOf(ix, m, s, r)
    PROVE  r \in Indexes /\ Covers(r) /\ Slack(r) = Slack(ix)
<1> DEFINE src == NewSource(ix, m)
           doc == Stored(src, NextVersion(ix, m.id), s)
           e == EstimateDocument(m.id, src)
           x == DocumentBytesAt(ix.documents, m.id)
           y == TombstoneBytesAt(ix.tombstones, m.id)
<1>1. src \in Objects /\ m.id \in Ids /\ doc \in StoredDocuments /\ doc.source = src
  BY NewSourceType DEF Stored, StoredDocuments
<1>2. e \in Nat
  BY <1>1, DocumentSizes
<1>3. /\ r \in Indexes /\ r.config = ix.config /\ r.aliases = ix.aliases
      /\ r.documents = Put(ix.documents, m.id, doc) /\ r.tombstones = Without(ix.tombstones, m.id)
      /\ r.storeSize = (ix.storeSize - (x + y)) + e
  BY DEF IsPutOf, SameButDocuments, BytesAt
<1>4. ix.documents \in DocumentTables /\ ix.tombstones \in TombstoneTables /\ ix.storeSize \in Nat
  BY DEF Indexes
<1> HIDE DEF src, doc, e, x, y
<1>5. /\ x \in Nat /\ x <= DocumentSize(ix.documents) /\ DocumentSize(ix.documents) \in Nat
      /\ DocumentSize(r.documents) = (DocumentSize(ix.documents) - x) + e
  BY <1>1, <1>3, <1>4, DocumentSizePut DEF x, e
<1>6. /\ y \in Nat /\ y <= TombstoneSize(ix.tombstones) /\ TombstoneSize(ix.tombstones) \in Nat
      /\ TombstoneSize(r.tombstones) = TombstoneSize(ix.tombstones) - y
  BY <1>3, <1>4, TombstoneSizeWithout DEF y
<1>7. /\ EstimateIndex(ix) = 1 + EstimateValue(ix.config) + Cardinality(ix.aliases)
                             + DocumentSize(ix.documents) + TombstoneSize(ix.tombstones)
      /\ EstimateValue(ix.config) \in Nat /\ Cardinality(ix.aliases) \in Nat
      /\ EstimateIndex(ix) \in Nat
  BY IndexSize
<1>8. /\ EstimateIndex(r) = 1 + EstimateValue(r.config) + Cardinality(r.aliases)
                             + DocumentSize(r.documents) + TombstoneSize(r.tombstones)
      /\ EstimateIndex(r) \in Nat
  BY <1>3, IndexSize
<1>9. EstimateIndex(r) = (EstimateIndex(ix) - (x + y)) + e
  BY <1>2, <1>3, <1>5, <1>6, <1>7, <1>8
<1>10. QED
  BY <1>2, <1>3, <1>4, <1>5, <1>6, <1>7, <1>9 DEF Covers, Slack

LEMMA DeleteSlack ==
    ASSUME NEW ix \in Indexes, NEW m \in DeleteMutations, NEW s \in Nat, NEW r, Covers(ix),
           IsDeleteOf(ix, m, s, r)
    PROVE  /\ r \in Indexes /\ Covers(r)
           /\ ~Has(ix.tombstones, m.id) => Slack(r) = Slack(ix)
<1> DEFINE e == EstimateTombstone(m.id)
           x == DocumentBytesAt(ix.documents, m.id)
           y == TombstoneBytesAt(ix.tombstones, m.id)
<1>1. m.id \in Ids /\ e \in Nat
  BY DocumentSizes DEF DeleteMutations, Objects
<1>2. /\ r \in Indexes /\ r.config = ix.config /\ r.aliases = ix.aliases
      /\ r.documents = Without(ix.documents, m.id) /\ r.tombstones = Put(ix.tombstones, m.id, s)
      /\ r.storeSize = (ix.storeSize - x) + e
  BY DEF IsDeleteOf, SameButDocuments
<1>3. ix.documents \in DocumentTables /\ ix.tombstones \in TombstoneTables /\ ix.storeSize \in Nat
  BY DEF Indexes
<1>4. ~Has(ix.tombstones, m.id) => y = 0
  BY DEF TombstoneBytesAt
<1> HIDE DEF e, x, y
<1>5. /\ x \in Nat /\ x <= DocumentSize(ix.documents) /\ DocumentSize(ix.documents) \in Nat
      /\ DocumentSize(r.documents) = DocumentSize(ix.documents) - x
  BY <1>2, <1>3, DocumentSizeWithout DEF x
<1>6. /\ y \in Nat /\ y <= TombstoneSize(ix.tombstones) /\ TombstoneSize(ix.tombstones) \in Nat
      /\ TombstoneSize(r.tombstones) = (TombstoneSize(ix.tombstones) - y) + e
  BY <1>1, <1>2, <1>3, TombstoneSizePut DEF y, e
<1>7. /\ EstimateIndex(ix) = 1 + EstimateValue(ix.config) + Cardinality(ix.aliases)
                             + DocumentSize(ix.documents) + TombstoneSize(ix.tombstones)
      /\ EstimateValue(ix.config) \in Nat /\ Cardinality(ix.aliases) \in Nat
      /\ EstimateIndex(ix) \in Nat
  BY IndexSize
<1>8. /\ EstimateIndex(r) = 1 + EstimateValue(r.config) + Cardinality(r.aliases)
                             + DocumentSize(r.documents) + TombstoneSize(r.tombstones)
      /\ EstimateIndex(r) \in Nat
  BY <1>2, IndexSize
<1>9. EstimateIndex(r) = (EstimateIndex(ix) - (x + y)) + e
  BY <1>1, <1>2, <1>5, <1>6, <1>7, <1>8
<1>10. QED
  BY <1>1, <1>2, <1>3, <1>4, <1>5, <1>6, <1>7, <1>9 DEF Covers, Slack

\* recompute_store_size
LEMMA RecomputeEffect ==
    ASSUME NEW ix \in Indexes
    PROVE  /\ SameButDocuments(ix, Recompute(ix), ix.documents, ix.tombstones, EstimateIndex(ix))
           /\ EstimateIndex(Recompute(ix)) = EstimateIndex(ix)
           /\ Covers(Recompute(ix)) /\ Slack(Recompute(ix)) = 0
<1>1. EstimateIndex(ix) \in Nat
  BY IndexSize
<1> DEFINE n == EstimateIndex(ix)
<1>2. Recompute(ix) = [ix EXCEPT !.storeSize = n]
  BY DEF Recompute
<1> HIDE DEF n
<1>3. SameButDocuments(ix, Recompute(ix), ix.documents, ix.tombstones, n)
  BY <1>1, <1>2 DEF n, SameButDocuments, Indexes
<1>4. EstimateIndex(Recompute(ix)) = n
  BY <1>3, IndexSize DEF n, SameButDocuments
<1>5. QED
  BY <1>1, <1>3, <1>4 DEF n, SameButDocuments, Covers, Slack

\* Two indexes with the same contents have the same size.
LEMMA SameSize ==
    ASSUME NEW ix \in Indexes, NEW r \in Indexes, r.config = ix.config, r.aliases = ix.aliases,
           r.documents = ix.documents, r.tombstones = ix.tombstones
    PROVE  EstimateIndex(r) = EstimateIndex(ix)
BY IndexSize

LEMMA NewIndexEffect ==
    ASSUME NEW config \in Objects
    PROVE  /\ NewIndex(config) \in Indexes /\ Covers(NewIndex(config))
           /\ Slack(NewIndex(config)) = 0
           /\ NewIndex(config).storeSize = EstimateIndex(NewIndex(config))
           /\ NewIndex(config).config = config /\ NewIndex(config).aliases = {}
           /\ DOMAIN NewIndex(config).documents = {} /\ DOMAIN NewIndex(config).tombstones = {}
<1> DEFINE ix == [config |-> config, aliases |-> {}, documents |-> Empty,
                  tombstones |-> Empty, storeSize |-> 0]
<1>1. {} \in AliasSets
  BY FS_EmptySet DEF AliasSets
<1>2. Empty \in DocumentTables /\ Empty \in TombstoneTables /\ DOMAIN Empty = {}
  BY TableEmpty DEF DocumentTables, TombstoneTables
<1>3. /\ ix \in Indexes /\ ix.config = config /\ ix.aliases = {} /\ ix.documents = Empty
      /\ ix.tombstones = Empty
  BY <1>1, <1>2 DEF Indexes
<1>4. NewIndex(config) = Recompute(ix)
  BY DEF NewIndex
<1> HIDE DEF ix
<1>5. QED
  BY <1>2, <1>3, <1>4, RecomputeEffect DEF SameButDocuments

-----------------------------------------------------------------------------
(* The other changes of an index.                                          *)

MovedTo(ix, m, r) ==
    /\ r \in Indexes /\ r.config = ix.config /\ r.aliases = ix.aliases
    /\ r.tombstones = ix.tombstones
    /\ r.documents = Put(Without(ix.documents, m.id), m.newId, ix.documents[m.id])
    /\ r.storeSize = EstimateIndex(r)

Moves(ix, m) == Has(ix.documents, m.id) /\ ~Has(ix.documents, m.newId)

LEMMA RenameEffect ==
    ASSUME NEW ix \in Indexes, NEW m \in Renames, Covers(ix)
    PROVE  /\ Moves(ix, m) => MovedTo(ix, m, ApplyRename(ix, m))
           /\ ~Moves(ix, m) => ApplyRename(ix, m) = ix
           /\ ApplyRename(ix, m).storeSize <= ix.storeSize
           /\ m.id # m.newId
<1>1. m.id \in DOMAIN Legacy /\ m.newId = Legacy[m.id] /\ m.newId \in Ids
  BY DEF Renames
<1>2. m.newId \notin DOMAIN Legacy
  BY <1>1, DatabaseAssumption DEF Range
<1>3. ASSUME Moves(ix, m)
      PROVE  /\ MovedTo(ix, m, ApplyRename(ix, m))
             /\ ApplyRename(ix, m).storeSize <= ix.storeSize
  <2> DEFINE doc == ix.documents[m.id]
             rest == Without(ix.documents, m.id)
             docs == Put(rest, m.newId, doc)
             j == [ix EXCEPT !.documents = docs]
             r == ApplyRename(ix, m)
             e == EstimateDocument(m.newId, doc.source)
             x == EstimateDocument(m.id, doc.source)
  <2>1. ix.documents \in DocumentTables /\ ix.storeSize \in Nat
    BY DEF Indexes
  <2>2. doc \in StoredDocuments
    BY <1>3, <2>1, TableOf DEF DocumentTables, Moves, Has
  <2>3. /\ rest \in DocumentTables /\ TakenOut(ix.documents, rest, m.id)
        /\ docs \in DocumentTables
    BY <1>1, <2>1, <2>2, TableWithout, TablePut DEF DocumentTables
  <2>4. r = Recompute(j)
    BY <1>3 DEF ApplyRename, Moves
  <2>5. /\ j \in Indexes /\ j.config = ix.config /\ j.aliases = ix.aliases
        /\ j.tombstones = ix.tombstones /\ j.documents = docs
    <3> HIDE DEF docs
    <3>1. QED
      BY <2>3 DEF Indexes
  <2>6. /\ DocumentBytesAt(ix.documents, m.id) = x /\ DocumentBytesAt(rest, m.newId) = 0
    BY <1>3, <2>3 DEF DocumentBytesAt, Moves, Has, TakenOut
  <2>7. e \in Nat /\ x \in Nat /\ e <= x
    BY <1>1, <1>2, <2>2, ObjectSizes DEF EstimateDocument, IdLength, Has, StoredDocuments
  <2> HIDE DEF doc, rest, docs, j, r, e, x
  <2>8. /\ DocumentSize(rest) = DocumentSize(ix.documents) - x /\ DocumentSize(ix.documents) \in Nat
        /\ x <= DocumentSize(ix.documents)
    BY <2>1, <2>6, DocumentSizeWithout DEF rest
  <2>9. DocumentSize(docs) = (DocumentSize(rest) - 0) + e
    BY <1>1, <2>2, <2>3, <2>6, DocumentSizePut DEF docs, e
  <2>10. EstimateIndex(j) <= EstimateIndex(ix) /\ EstimateIndex(j) \in Nat /\ EstimateIndex(ix) \in Nat
    <3>1. EstimateIndex(ix) = 1 + EstimateValue(ix.config) + Cardinality(ix.aliases)
                              + DocumentSize(ix.documents) + TombstoneSize(ix.tombstones)
      BY IndexSize
    <3>2. EstimateIndex(j) = 1 + EstimateValue(ix.config) + Cardinality(ix.aliases)
                             + DocumentSize(docs) + TombstoneSize(ix.tombstones)
      BY <2>5, IndexSize
    <3>3. /\ EstimateValue(ix.config) \in Nat /\ Cardinality(ix.aliases) \in Nat
          /\ TombstoneSize(ix.tombstones) \in Nat
      BY IndexSize
    <3>4. EstimateIndex(j) \in Nat /\ EstimateIndex(ix) \in Nat
      BY <2>5, IndexSize
    <3>5. DocumentSize(docs) <= DocumentSize(ix.documents) /\ DocumentSize(docs) \in Nat
      BY <2>7, <2>8, <2>9
    <3>6. QED
      BY <2>8, <3>1, <3>2, <3>3, <3>4, <3>5
  <2>11. /\ SameButDocuments(j, r, j.documents, j.tombstones, EstimateIndex(j))
         /\ EstimateIndex(r) = EstimateIndex(j)
    BY <2>4, <2>5, RecomputeEffect
  <2>12. MovedTo(ix, m, r)
    BY <2>5, <2>11 DEF MovedTo, SameButDocuments, docs, rest, doc
  <2>13. r.storeSize <= ix.storeSize
    BY <2>1, <2>10, <2>11 DEF Covers, SameButDocuments
  <2>14. QED
    BY <2>12, <2>13 DEF r
<1>4. ASSUME ~Moves(ix, m)
      PROVE  ApplyRename(ix, m) = ix /\ ApplyRename(ix, m).storeSize <= ix.storeSize
  <2>1. ApplyRename(ix, m) = ix /\ ix.storeSize \in Nat
    BY <1>4 DEF ApplyRename, Moves, Indexes
  <2>2. QED
    BY <2>1
<1>5. QED
  BY <1>1, <1>2, <1>3, <1>4

\* A change of the configuration or of the aliases of an index.
Reconfigured(ix, r) ==
    /\ r \in Indexes /\ r.documents = ix.documents /\ r.tombstones = ix.tombstones
    /\ r.storeSize = EstimateIndex(r)

NewConfig(ix, m) == IF m.kind = "PutConfig" THEN MergeObject(ix.config, m.config) ELSE ix.config
NewAliases(ix, m) ==
    CASE m.kind = "PutConfig"   -> ix.aliases
      [] m.kind = "PutAlias"    -> ix.aliases \cup {m.alias}
      [] m.kind = "DeleteAlias" -> ix.aliases \ {m.alias}

Reconfigure(ix, m) ==
    Recompute([ix EXCEPT !.config = NewConfig(ix, m), !.aliases = NewAliases(ix, m)])

ConfigKinds == {"PutConfig", "PutAlias", "DeleteAlias"}

LEMMA ReconfigureEffect ==
    ASSUME NEW ix \in Indexes, NEW m \in NamedMutations, m.kind \in ConfigKinds
    PROVE  /\ Reconfigured(ix, Reconfigure(ix, m))
           /\ Reconfigure(ix, m).config = NewConfig(ix, m)
           /\ Reconfigure(ix, m).aliases = NewAliases(ix, m)
<1> DEFINE c == NewConfig(ix, m)
           a == NewAliases(ix, m)
           j == [ix EXCEPT !.config = c, !.aliases = a]
<1>1. c \in Objects
  BY DEF NewConfig, MergeObject, Objects, Indexes, NamedMutations
<1>2. a \in AliasSets
  <2>1. ix.aliases \in SUBSET Names /\ IsFiniteSet(ix.aliases)
    BY DEF Indexes, AliasSets
  <2>2. CASE m.kind = "PutConfig"
    BY <2>1, <2>2 DEF NewAliases, AliasSets
  <2>3. CASE m.kind = "PutAlias"
    <3>1. a = ix.aliases \cup {m.alias} /\ m.alias \in Names
      BY <2>3 DEF NewAliases, NamedMutations
    <3>2. IsFiniteSet(ix.aliases \cup {m.alias})
      BY <2>1, FS_AddElement
    <3>3. QED
      BY <2>1, <3>1, <3>2 DEF AliasSets
  <2>4. CASE m.kind = "DeleteAlias"
    <3>1. a = ix.aliases \ {m.alias}
      BY <2>4 DEF NewAliases
    <3>2. IsFiniteSet(ix.aliases \ {m.alias})
      BY <2>1, FS_RemoveElement
    <3>3. QED
      BY <2>1, <3>1, <3>2 DEF AliasSets
  <2>5. QED
    BY <2>2, <2>3, <2>4 DEF ConfigKinds
<1> HIDE DEF c, a
<1>3. /\ j \in Indexes /\ j.config = c /\ j.aliases = a /\ j.documents = ix.documents
      /\ j.tombstones = ix.tombstones
  BY <1>1, <1>2 DEF Indexes
<1>4. Reconfigure(ix, m) = Recompute(j)
  BY DEF Reconfigure, c, a
<1> HIDE DEF j
<1>5. QED
  BY <1>3, <1>4, RecomputeEffect DEF SameButDocuments, Reconfigured, c, a

-----------------------------------------------------------------------------
(* Mutation::apply_to, part by part.                                       *)

OnIndexKinds == DocumentMutations \cup ConfigKinds \cup {"RenameDocument"}

IndexAfter(ix, m, s) ==
    IF m.kind \in DocumentMutations THEN ApplyDocument(ix, m, s)
    ELSE IF m.kind = "RenameDocument" THEN ApplyRename(ix, m) ELSE Reconfigure(ix, m)

NextIndexes(d, m) ==
    IF m.kind \in OnIndexKinds
    THEN IF Has(d.indexes, m.index)
         THEN Put(d.indexes, m.index, IndexAfter(d.indexes[m.index], m, d.seqNo + 1))
         ELSE d.indexes
    ELSE IF m.kind = "CreateIndex" /\ ~Has(d.indexes, m.index)
    THEN Put(d.indexes, m.index, NewIndex(m.config))
    ELSE IF m.kind = "DeleteIndex" THEN Without(d.indexes, m.index)
    ELSE d.indexes

NextAliases(d, m) ==
    IF m.kind = "DeleteIndex"
    THEN Restrict(d.aliases, {a \in DOMAIN d.aliases : d.aliases[a] # m.index})
    ELSE IF m.kind = "PutAlias" THEN Put(d.aliases, m.alias, m.index)
    ELSE IF m.kind = "DeleteAlias" THEN Without(d.aliases, m.alias)
    ELSE d.aliases

NextTemplates(d, m) ==
    IF m.kind = "PutTemplate" THEN Put(d.templates, m.template, m.body)
    ELSE IF m.kind = "DeleteTemplate" THEN Without(d.templates, m.template)
    ELSE d.templates

NextRegistry(d, m) ==
    IF m.kind = "PutRegistryObject" THEN Put(d.registry, m.object, m.body)
    ELSE IF m.kind = "DeleteRegistryObject" THEN Without(d.registry, m.object)
    ELSE d.registry

NextSeqNo(d, m) == IF m.kind \in DocumentMutations THEN d.seqNo + 1 ELSE d.seqNo

Kinds ==
    OnIndexKinds \cup {"CreateIndex", "DeleteIndex", "PutTemplate", "DeleteTemplate",
                       "PutRegistryObject", "DeleteRegistryObject"}

LEMMA MutationKinds ==
    ASSUME NEW m \in Replayable
    PROVE  m.kind \in Kinds
BY DEF Replayable, Mutations, WriteMutations, PutMutations, DeleteMutations, CreateMutations,
       NamedMutations, CatalogMutations, Renames, Kinds, OnIndexKinds, DocumentMutations,
       ConfigKinds

\* A change of one index of a database.
LEMMA UpdatedIndex ==
    ASSUME NEW d \in Databases, NEW n, Has(d.indexes, n), NEW r
    PROVE  [d EXCEPT !.indexes[n] = r] =
               [indexes |-> Put(d.indexes, n, r), templates |-> d.templates,
                registry |-> d.registry, aliases |-> d.aliases, seqNo |-> d.seqNo]
<1>1. d.indexes \in Table(Names, Indexes)
  BY DEF Databases
<1>2. d.indexes = [x \in DOMAIN d.indexes |-> d.indexes[x]]
  BY <1>1, TableOf
<1>3. DOMAIN d.indexes \cup {n} = DOMAIN d.indexes
  BY DEF Has
<1>4. [d.indexes EXCEPT ![n] = r] = [x \in DOMAIN d.indexes |-> IF x = n THEN r ELSE d.indexes[x]]
  BY <1>2
<1>5. [d.indexes EXCEPT ![n] = r] = Put(d.indexes, n, r)
  BY <1>3, <1>4 DEF Put
<1>6. [d EXCEPT !.indexes[n] = r] = [d EXCEPT !.indexes = [d.indexes EXCEPT ![n] = r]]
  OBVIOUS
<1>7. QED
  BY <1>5, <1>6 DEF Databases

ApplyParts(d, m) ==
    [indexes |-> NextIndexes(d, m), templates |-> NextTemplates(d, m),
     registry |-> NextRegistry(d, m), aliases |-> NextAliases(d, m),
     seqNo |-> NextSeqNo(d, m)]

LEMMA ApplyOnIndex ==
    ASSUME NEW d \in Databases, NEW m \in Replayable, m.kind \in OnIndexKinds,
           Has(d.indexes, m.index)
    PROVE  ApplyMutation(d, m) = ApplyParts(d, m)
<1> DEFINE n == m.index
           ix == d.indexes[n]
           r == IndexAfter(ix, m, d.seqNo + 1)
           u == [indexes |-> Put(d.indexes, n, r), templates |-> d.templates,
                 registry |-> d.registry, aliases |-> d.aliases, seqNo |-> d.seqNo]
<1>1. [d EXCEPT !.indexes[n] = r] = u
  <2> HIDE DEF r
  <2>1. QED
    BY UpdatedIndex
<1>2. ix \in Indexes
  BY TableOf DEF Databases, Has
<1>3. NextIndexes(d, m) = Put(d.indexes, n, r)
  BY DEF NextIndexes
<1>4. NextTemplates(d, m) = d.templates /\ NextRegistry(d, m) = d.registry
  BY DEF NextTemplates, NextRegistry, OnIndexKinds, DocumentMutations, ConfigKinds
<1>5. CASE m.kind \in DocumentMutations
  <2>1. r = ApplyDocument(ix, m, d.seqNo + 1)
    BY <1>5 DEF IndexAfter
  <2>2. ApplyMutation(d, m) = [[d EXCEPT !.indexes[n] = r] EXCEPT !.seqNo = d.seqNo + 1]
    BY <1>5, <2>1 DEF ApplyMutation, OnIndex, DocumentMutations, Databases
  <2>3. NextAliases(d, m) = d.aliases /\ NextSeqNo(d, m) = d.seqNo + 1
    BY <1>5 DEF NextAliases, NextSeqNo, DocumentMutations
  <2> HIDE DEF r
  <2>4. QED
    BY <1>1, <1>3, <1>4, <2>2, <2>3 DEF ApplyParts
<1>6. CASE m.kind = "RenameDocument"
  <2>1. r = ApplyRename(ix, m)
    BY <1>6 DEF IndexAfter, DocumentMutations
  <2>2. ApplyMutation(d, m) = [d EXCEPT !.indexes[n] = r]
    BY <1>6, <2>1 DEF ApplyMutation, OnIndex, DocumentMutations
  <2>3. NextAliases(d, m) = d.aliases /\ NextSeqNo(d, m) = d.seqNo
    BY <1>6 DEF NextAliases, NextSeqNo, DocumentMutations
  <2> HIDE DEF r
  <2>4. QED
    BY <1>1, <1>3, <1>4, <2>2, <2>3 DEF ApplyParts
<1>7. CASE m.kind = "PutConfig"
  <2>1. r = Recompute([ix EXCEPT !.config = MergeObject(@, m.config)])
    BY <1>2, <1>7 DEF IndexAfter, DocumentMutations, Reconfigure, NewConfig, NewAliases, Indexes
  <2>2. ApplyMutation(d, m) = [d EXCEPT !.indexes[n] = r]
    BY <1>7, <2>1 DEF ApplyMutation, OnIndex, DocumentMutations
  <2>3. NextAliases(d, m) = d.aliases /\ NextSeqNo(d, m) = d.seqNo
    BY <1>7 DEF NextAliases, NextSeqNo, DocumentMutations
  <2> HIDE DEF r
  <2>4. QED
    BY <1>1, <1>3, <1>4, <2>2, <2>3 DEF ApplyParts
<1>8. CASE m.kind = "PutAlias"
  <2>1. r = Recompute([ix EXCEPT !.aliases = @ \cup {m.alias}])
    BY <1>2, <1>8 DEF IndexAfter, DocumentMutations, Reconfigure, NewConfig, NewAliases, Indexes
  <2>2. ApplyMutation(d, m) = [[d EXCEPT !.indexes[n] = r] EXCEPT !.aliases = Put(@, m.alias, n)]
    BY <1>8, <2>1 DEF ApplyMutation, OnIndex, DocumentMutations
  <2>3. NextAliases(d, m) = Put(d.aliases, m.alias, n) /\ NextSeqNo(d, m) = d.seqNo
    BY <1>8 DEF NextAliases, NextSeqNo, DocumentMutations
  <2> HIDE DEF r
  <2>4. QED
    BY <1>1, <1>3, <1>4, <2>2, <2>3 DEF ApplyParts
<1>9. CASE m.kind = "DeleteAlias"
  <2>1. r = Recompute([ix EXCEPT !.aliases = @ \ {m.alias}])
    BY <1>2, <1>9 DEF IndexAfter, DocumentMutations, Reconfigure, NewConfig, NewAliases, Indexes
  <2>2. ApplyMutation(d, m) = [[d EXCEPT !.indexes[n] = r] EXCEPT !.aliases = Without(@, m.alias)]
    BY <1>9, <2>1 DEF ApplyMutation, OnIndex, DocumentMutations
  <2>3. NextAliases(d, m) = Without(d.aliases, m.alias) /\ NextSeqNo(d, m) = d.seqNo
    BY <1>9 DEF NextAliases, NextSeqNo, DocumentMutations
  <2> HIDE DEF r
  <2>4. QED
    BY <1>1, <1>3, <1>4, <2>2, <2>3 DEF ApplyParts
<1>10. QED
  BY <1>5, <1>6, <1>7, <1>8, <1>9 DEF OnIndexKinds, ConfigKinds

\* apply_to changes nothing but the parts that it names.
LEMMA ApplyIsParts ==
    ASSUME NEW d \in Databases, NEW m \in Replayable
    PROVE  ApplyMutation(d, m) = ApplyParts(d, m)
<1>1. d = [indexes |-> d.indexes, templates |-> d.templates, registry |-> d.registry,
           aliases |-> d.aliases, seqNo |-> d.seqNo]
  BY DEF Databases
<1>2. CASE m.kind \in OnIndexKinds /\ Has(d.indexes, m.index)
  BY <1>2, ApplyOnIndex
<1>3. CASE m.kind \in OnIndexKinds /\ ~Has(d.indexes, m.index)
  <2>1. /\ NextIndexes(d, m) = d.indexes /\ NextTemplates(d, m) = d.templates
        /\ NextRegistry(d, m) = d.registry
    BY <1>3 DEF NextIndexes, NextTemplates, NextRegistry, OnIndexKinds, DocumentMutations, ConfigKinds
  <2>2. CASE m.kind \in DocumentMutations
    <3>1. ApplyMutation(d, m) = [d EXCEPT !.seqNo = @ + 1]
      BY <1>3, <2>2 DEF ApplyMutation, OnIndex, DocumentMutations
    <3>2. NextAliases(d, m) = d.aliases /\ NextSeqNo(d, m) = d.seqNo + 1
      BY <2>2 DEF NextAliases, NextSeqNo, DocumentMutations
    <3>3. QED
      BY <1>1, <2>1, <3>1, <3>2 DEF ApplyParts
  <2>3. CASE m.kind \in {"RenameDocument", "PutConfig"}
    <3>1. ApplyMutation(d, m) = d
      BY <1>3, <2>3 DEF ApplyMutation, OnIndex, DocumentMutations
    <3>2. NextAliases(d, m) = d.aliases /\ NextSeqNo(d, m) = d.seqNo
      BY <2>3 DEF NextAliases, NextSeqNo, DocumentMutations
    <3>3. QED
      BY <1>1, <2>1, <3>1, <3>2 DEF ApplyParts
  <2>4. CASE m.kind = "PutAlias"
    <3>1. ApplyMutation(d, m) = [d EXCEPT !.aliases = Put(@, m.alias, m.index)]
      BY <1>3, <2>4 DEF ApplyMutation, OnIndex, DocumentMutations
    <3>2. NextAliases(d, m) = Put(d.aliases, m.alias, m.index) /\ NextSeqNo(d, m) = d.seqNo
      BY <2>4 DEF NextAliases, NextSeqNo, DocumentMutations
    <3>3. QED
      BY <1>1, <2>1, <3>1, <3>2 DEF ApplyParts
  <2>5. CASE m.kind = "DeleteAlias"
    <3>1. ApplyMutation(d, m) = [d EXCEPT !.aliases = Without(@, m.alias)]
      BY <1>3, <2>5 DEF ApplyMutation, OnIndex, DocumentMutations
    <3>2. NextAliases(d, m) = Without(d.aliases, m.alias) /\ NextSeqNo(d, m) = d.seqNo
      BY <2>5 DEF NextAliases, NextSeqNo, DocumentMutations
    <3>3. QED
      BY <1>1, <2>1, <3>1, <3>2 DEF ApplyParts
  <2>6. QED
    BY <1>3, <2>2, <2>3, <2>4, <2>5 DEF OnIndexKinds, ConfigKinds
<1>4. CASE m.kind = "CreateIndex"
  <2>1. ApplyMutation(d, m) = IF Has(d.indexes, m.index) THEN d
                              ELSE [d EXCEPT !.indexes = Put(@, m.index, NewIndex(m.config))]
    BY <1>4 DEF ApplyMutation, DocumentMutations
  <2>2. QED
    BY <1>1, <1>4, <2>1 DEF ApplyParts, NextIndexes, NextTemplates, NextRegistry, NextAliases,
                            NextSeqNo, OnIndexKinds, DocumentMutations, ConfigKinds
<1>5. CASE m.kind = "DeleteIndex"
  <2>1. ApplyMutation(d, m) =
            [d EXCEPT !.indexes = Without(@, m.index),
                      !.aliases = Restrict(@, {a \in DOMAIN @ : @[a] # m.index})]
    BY <1>5 DEF ApplyMutation, DocumentMutations
  <2>2. QED
    BY <1>1, <1>5, <2>1 DEF ApplyParts, NextIndexes, NextTemplates, NextRegistry, NextAliases,
                            NextSeqNo, OnIndexKinds, DocumentMutations, ConfigKinds
<1>6. CASE m.kind \in {"PutTemplate", "DeleteTemplate"}
  <2>1. ApplyMutation(d, m) = [d EXCEPT !.templates = NextTemplates(d, m)]
    BY <1>6 DEF ApplyMutation, DocumentMutations, NextTemplates
  <2>2. QED
    BY <1>1, <1>6, <2>1 DEF ApplyParts, NextIndexes, NextRegistry, NextAliases,
                            NextSeqNo, OnIndexKinds, DocumentMutations, ConfigKinds
<1>7. CASE m.kind \in {"PutRegistryObject", "DeleteRegistryObject"}
  <2>1. ApplyMutation(d, m) = [d EXCEPT !.registry = NextRegistry(d, m)]
    BY <1>7 DEF ApplyMutation, DocumentMutations, NextRegistry
  <2>2. QED
    BY <1>1, <1>7, <2>1 DEF ApplyParts, NextIndexes, NextTemplates, NextAliases,
                            NextSeqNo, OnIndexKinds, DocumentMutations, ConfigKinds
<1>8. QED
  BY <1>2, <1>3, <1>4, <1>5, <1>6, <1>7, MutationKinds DEF Kinds

-----------------------------------------------------------------------------
(* Mutations keep the type, and the sizes of indexes covered.              *)

LEMMA MutationFields ==
    ASSUME NEW m \in Replayable
    PROVE  /\ m.kind \in {"IndexDocument", "CreateDocument", "UpdateDocument"} => m \in PutMutations
           /\ m.kind = "DeleteDocument" => m \in DeleteMutations
           /\ m.kind \in ConfigKinds => m \in NamedMutations
           /\ m.kind = "RenameDocument" => m \in Renames
           /\ m.kind = "CreateIndex" => m.config \in Objects /\ m.index \in Names
           /\ m.kind \in {"PutAlias", "DeleteAlias"} => m.alias \in Names
           /\ m.kind = "PutTemplate" => m.template \in Templates /\ m.body \in Bodies
           /\ m.kind = "PutRegistryObject" => m.object \in Registry /\ m.body \in Objects
           /\ m.kind \in OnIndexKinds => m.index \in Names
BY DEF Replayable, Mutations, WriteMutations, PutMutations, DeleteMutations, CreateMutations,
       NamedMutations, CatalogMutations, Renames, OnIndexKinds, DocumentMutations, ConfigKinds

LEMMA IndexAfterType ==
    ASSUME NEW ix \in Indexes, Covers(ix), NEW m \in Replayable, m.kind \in OnIndexKinds,
           NEW s \in Nat
    PROVE  IndexAfter(ix, m, s) \in Indexes /\ Covers(IndexAfter(ix, m, s))
<1> DEFINE r == IndexAfter(ix, m, s)
<1>1. CASE m.kind \in DocumentMutations
  <2>1. r = ApplyDocument(ix, m, s) /\ m \in PutMutations \cup DeleteMutations
    BY <1>1, MutationFields DEF IndexAfter, DocumentMutations
  <2>2. CASE ~TakesEffect(ix, m)
    BY <2>1, <2>2, ApplyDocumentNothing
  <2>3. CASE TakesEffect(ix, m) /\ m \in PutMutations
    BY <2>1, <2>3, ApplyDocumentPut, PutSlack
  <2>4. CASE TakesEffect(ix, m) /\ m \in DeleteMutations
    BY <2>1, <2>4, ApplyDocumentDelete, DeleteSlack
  <2>5. QED
    BY <2>1, <2>2, <2>3, <2>4
<1>2. CASE m.kind = "RenameDocument"
  <2>1. r = ApplyRename(ix, m) /\ m \in Renames
    BY <1>2, MutationFields DEF IndexAfter, DocumentMutations
  <2>2. (r \in Indexes /\ r.storeSize = EstimateIndex(r)) \/ r = ix
    BY <2>1, RenameEffect DEF MovedTo
  <2>3. QED
    BY <2>2, IndexSize DEF Covers
<1>3. CASE m.kind \in ConfigKinds
  <2>1. r = Reconfigure(ix, m) /\ m \in NamedMutations
    BY <1>3, MutationFields DEF IndexAfter, DocumentMutations, ConfigKinds
  <2>2. r \in Indexes /\ r.storeSize = EstimateIndex(r)
    BY <1>3, <2>1, ReconfigureEffect DEF Reconfigured
  <2>3. QED
    BY <2>2, IndexSize DEF Covers
<1>4. QED
  BY <1>1, <1>2, <1>3 DEF OnIndexKinds

Covered(d) == \A n \in DOMAIN d.indexes : Covers(d.indexes[n])

\* The indexes after a mutation: one is replaced, put or taken out, or none.
LEMMA NextIndexesCases ==
    ASSUME NEW d \in Databases, Covered(d), NEW m \in Replayable
    PROVE  /\ NextIndexes(d, m) \in Table(Names, Indexes)
           /\ \/ NextIndexes(d, m) = d.indexes
              \/ /\ m.kind \in OnIndexKinds /\ Has(d.indexes, m.index)
                 /\ PutAt(d.indexes, NextIndexes(d, m), m.index,
                          IndexAfter(d.indexes[m.index], m, d.seqNo + 1))
                 /\ d.indexes[m.index] \in Indexes /\ Covers(d.indexes[m.index])
              \/ /\ m.kind = "CreateIndex" /\ ~Has(d.indexes, m.index)
                 /\ PutAt(d.indexes, NextIndexes(d, m), m.index, NewIndex(m.config))
              \/ m.kind = "DeleteIndex" /\ TakenOut(d.indexes, NextIndexes(d, m), m.index)
<1>1. d.indexes \in Table(Names, Indexes) /\ d.seqNo + 1 \in Nat
  BY DEF Databases
<1>2. CASE m.kind \in OnIndexKinds /\ Has(d.indexes, m.index)
  <2> DEFINE r == IndexAfter(d.indexes[m.index], m, d.seqNo + 1)
  <2>1. d.indexes[m.index] \in Indexes /\ Covers(d.indexes[m.index])
    BY <1>1, <1>2, TableOf DEF Has, Covered
  <2>2. r \in Indexes /\ m.index \in Names
    BY <1>1, <1>2, <2>1, IndexAfterType, MutationFields
  <2>3. NextIndexes(d, m) = Put(d.indexes, m.index, r)
    BY <1>2 DEF NextIndexes
  <2> HIDE DEF r
  <2>4. QED
    BY <1>1, <1>2, <2>1, <2>2, <2>3, TablePut DEF r
<1>3. CASE m.kind = "CreateIndex" /\ ~Has(d.indexes, m.index)
  <2>1. NextIndexes(d, m) = Put(d.indexes, m.index, NewIndex(m.config))
    BY <1>3 DEF NextIndexes, OnIndexKinds, DocumentMutations, ConfigKinds
  <2>2. NewIndex(m.config) \in Indexes /\ m.index \in Names
    BY <1>3, MutationFields, NewIndexEffect
  <2>3. QED
    BY <1>1, <1>3, <2>1, <2>2, TablePut
<1>4. CASE m.kind = "DeleteIndex"
  <2>1. NextIndexes(d, m) = Without(d.indexes, m.index)
    BY <1>4 DEF NextIndexes, OnIndexKinds, DocumentMutations, ConfigKinds
  <2>2. QED
    BY <1>1, <1>4, <2>1, TableWithout
<1>5. QED
  BY <1>1, <1>2, <1>3, <1>4 DEF NextIndexes

LEMMA ApplyType ==
    ASSUME NEW d \in Databases, Covered(d), NEW m \in Replayable
    PROVE  ApplyMutation(d, m) \in Databases /\ Covered(ApplyMutation(d, m))
<1> DEFINE I == NextIndexes(d, m)
<1>1. ApplyMutation(d, m) = ApplyParts(d, m)
  BY ApplyIsParts
<1>2. /\ d.templates \in Table(Templates, Bodies) /\ d.registry \in Table(Registry, Objects)
      /\ d.aliases \in Table(Names, Names) /\ d.seqNo \in Nat
  BY DEF Databases
<1>3. I \in Table(Names, Indexes)
  BY NextIndexesCases
<1>4. NextTemplates(d, m) \in Table(Templates, Bodies)
  BY <1>2, MutationFields, TablePut, TableWithout DEF NextTemplates
<1>5. NextRegistry(d, m) \in Table(Registry, Objects)
  BY <1>2, MutationFields, TablePut, TableWithout DEF NextRegistry
<1>6. NextAliases(d, m) \in Table(Names, Names)
  <2>1. CASE m.kind = "DeleteIndex"
    BY <1>2, <2>1, TableRestrict DEF NextAliases
  <2>2. CASE m.kind = "PutAlias"
    BY <1>2, <2>2, MutationFields, TablePut DEF NextAliases, OnIndexKinds, ConfigKinds
  <2>3. CASE m.kind = "DeleteAlias"
    BY <1>2, <2>3, TableWithout DEF NextAliases
  <2>4. QED
    BY <1>2, <2>1, <2>2, <2>3 DEF NextAliases
<1>7. NextSeqNo(d, m) \in Nat
  BY <1>2 DEF NextSeqNo
<1>8. ASSUME NEW n \in DOMAIN I PROVE Covers(I[n])
  <2>1. CASE I = d.indexes
    BY <2>1 DEF Covered
  <2>2. CASE /\ m.kind \in OnIndexKinds /\ Has(d.indexes, m.index)
             /\ PutAt(d.indexes, I, m.index, IndexAfter(d.indexes[m.index], m, d.seqNo + 1))
             /\ d.indexes[m.index] \in Indexes /\ Covers(d.indexes[m.index])
    <3>1. Covers(IndexAfter(d.indexes[m.index], m, d.seqNo + 1))
      BY <1>2, <2>2, IndexAfterType
    <3>2. QED
      BY <2>2, <3>1 DEF PutAt, Covered
  <2>3. CASE /\ m.kind = "CreateIndex" /\ ~Has(d.indexes, m.index)
             /\ PutAt(d.indexes, I, m.index, NewIndex(m.config))
    <3>1. Covers(NewIndex(m.config))
      BY <2>3, MutationFields, NewIndexEffect
    <3>2. QED
      BY <2>3, <3>1 DEF PutAt, Covered
  <2>4. CASE m.kind = "DeleteIndex" /\ TakenOut(d.indexes, I, m.index)
    BY <2>4 DEF TakenOut, Covered
  <2>5. QED
    BY <2>1, <2>2, <2>3, <2>4, NextIndexesCases
<1> HIDE DEF I
<1>9. ApplyMutation(d, m) \in Databases /\ ApplyMutation(d, m).indexes = I
  BY <1>1, <1>3, <1>4, <1>5, <1>6, <1>7 DEF ApplyParts, Databases, I
<1>10. QED
  BY <1>8, <1>9 DEF Covered

-----------------------------------------------------------------------------
(* The sequence numbers in use, and where.                                 *)

Roles == {"document", "tombstone"}

Numbered(ix, id, k, x) ==
    \/ k = "document" /\ Has(ix.documents, id) /\ ix.documents[id].seqNo = x
    \/ k = "tombstone" /\ Has(ix.tombstones, id) /\ ix.tombstones[id] = x

RoleOf(m) == IF m.kind = "DeleteDocument" THEN "tombstone" ELSE "document"

LEMMA PutNumbers ==
    ASSUME NEW ix \in Indexes, NEW m \in PutMutations, NEW s \in Nat, NEW r,
           IsPutOf(ix, m, s, r), NEW id, NEW k, NEW x, Numbered(r, id, k, x)
    PROVE  Numbered(ix, id, k, x) \/ (x = s /\ id = m.id /\ k = "document")
<1> DEFINE doc == Stored(NewSource(ix, m), NextVersion(ix, m.id), s)
<1>1. ix.documents \in DocumentTables /\ ix.tombstones \in TombstoneTables
  BY DEF Indexes
<1>2. doc \in StoredDocuments /\ doc.seqNo = s /\ m.id \in Ids
  BY NewSourceType DEF Stored, StoredDocuments
<1>3. r.documents = Put(ix.documents, m.id, doc) /\ r.tombstones = Without(ix.tombstones, m.id)
  BY DEF IsPutOf, SameButDocuments
<1> HIDE DEF doc
<1>4. PutAt(ix.documents, r.documents, m.id, doc)
  BY <1>1, <1>2, <1>3, TablePut DEF DocumentTables
<1>5. TakenOut(ix.tombstones, r.tombstones, m.id)
  BY <1>1, <1>3, TableWithout DEF TombstoneTables
<1>6. QED
  BY <1>2, <1>4, <1>5 DEF Numbered, PutAt, TakenOut, Has

LEMMA DeleteNumbers ==
    ASSUME NEW ix \in Indexes, NEW m \in DeleteMutations, NEW s \in Nat, NEW r,
           IsDeleteOf(ix, m, s, r), NEW id, NEW k, NEW x, Numbered(r, id, k, x)
    PROVE  Numbered(ix, id, k, x) \/ (x = s /\ id = m.id /\ k = "tombstone")
<1>1. ix.documents \in DocumentTables /\ ix.tombstones \in TombstoneTables /\ m.id \in Ids
  BY DEF Indexes, DeleteMutations
<1>2. r.documents = Without(ix.documents, m.id) /\ r.tombstones = Put(ix.tombstones, m.id, s)
  BY DEF IsDeleteOf, SameButDocuments
<1>3. TakenOut(ix.documents, r.documents, m.id)
  BY <1>1, <1>2, TableWithout DEF DocumentTables
<1>4. PutAt(ix.tombstones, r.tombstones, m.id, s)
  BY <1>1, <1>2, TablePut DEF TombstoneTables
<1>5. QED
  BY <1>3, <1>4 DEF Numbered, PutAt, TakenOut, Has

\* The documents after a rename.
LEMMA MovedDocuments ==
    ASSUME NEW ix \in Indexes, NEW m \in Renames, NEW r, Moves(ix, m), MovedTo(ix, m, r)
    PROVE  /\ DOMAIN r.documents = (DOMAIN ix.documents \ {m.id}) \cup {m.newId}
           /\ r.documents[m.newId] = ix.documents[m.id]
           /\ \A id \in DOMAIN r.documents : id # m.newId => r.documents[id] = ix.documents[id]
           /\ r.tombstones = ix.tombstones
<1> DEFINE rest == Without(ix.documents, m.id)
           doc == ix.documents[m.id]
<1>1. ix.documents \in DocumentTables /\ m.newId \in Ids
  BY DEF Indexes, Renames
<1>2. doc \in StoredDocuments
  BY <1>1, TableOf DEF DocumentTables, Moves, Has
<1>3. rest \in DocumentTables /\ TakenOut(ix.documents, rest, m.id)
  BY <1>1, TableWithout DEF DocumentTables
<1>4. r.documents = Put(rest, m.newId, doc) /\ r.tombstones = ix.tombstones
  BY DEF MovedTo
<1> HIDE DEF rest, doc
<1>5. PutAt(rest, r.documents, m.newId, doc)
  BY <1>1, <1>2, <1>3, <1>4, TablePut DEF DocumentTables
<1>6. QED
  BY <1>3, <1>4, <1>5 DEF PutAt, TakenOut, doc

LEMMA MoveNumbers ==
    ASSUME NEW ix \in Indexes, NEW m \in Renames, NEW r, Moves(ix, m), MovedTo(ix, m, r),
           m.id # m.newId, NEW id, NEW k, NEW x, Numbered(r, id, k, x)
    PROVE  \/ Numbered(ix, id, k, x) /\ ~(id = m.id /\ k = "document")
              /\ ~(id = m.newId /\ k = "document")
           \/ id = m.newId /\ k = "document" /\ Numbered(ix, m.id, k, x)
BY MovedDocuments DEF Numbered, Moves, Has

Placed(d, n, id, k, x) == Has(d.indexes, n) /\ Numbered(d.indexes[n], id, k, x)

NumbersBounded(d) ==
    \A n \in Names, id \in Ids, k \in Roles, x \in Nat : Placed(d, n, id, k, x) => x <= d.seqNo

NumbersUnique(d) ==
    \A n1, n2 \in Names, id1, id2 \in Ids, k1, k2 \in Roles, x \in Nat :
        Placed(d, n1, id1, k1, x) /\ Placed(d, n2, id2, k2, x) =>
            n1 = n2 /\ id1 = id2 /\ k1 = k2

\* A database as the store keeps it.
Good(d) == d \in Databases /\ Covered(d) /\ NumbersBounded(d) /\ NumbersUnique(d)

\* Where the numbers after a mutation were before it.
LEMMA ApplyNumbers ==
    ASSUME NEW d \in Databases, Covered(d), NEW m \in Mutations,
           NEW n \in Names, NEW id \in Ids, NEW k \in Roles, NEW x \in Nat,
           Placed(ApplyMutation(d, m), n, id, k, x)
    PROVE  \/ Placed(d, n, id, k, x)
           \/ /\ m.kind \in DocumentMutations /\ x = d.seqNo + 1
              /\ n = m.index /\ id = m.id /\ k = RoleOf(m)
<1> DEFINE I == NextIndexes(d, m)
<1>1. m \in Replayable /\ m.kind # "RenameDocument"
  BY DEF Replayable, Mutations, WriteMutations, PutMutations, DeleteMutations, CreateMutations,
         NamedMutations, CatalogMutations
<1>2. ApplyMutation(d, m).indexes = I
  BY <1>1, ApplyIsParts DEF ApplyParts
<1>3. Has(I, n) /\ Numbered(I[n], id, k, x)
  BY <1>2 DEF Placed
<1>4. CASE I = d.indexes
  BY <1>3, <1>4 DEF Placed
<1>5. CASE /\ m.kind \in OnIndexKinds /\ Has(d.indexes, m.index)
           /\ PutAt(d.indexes, I, m.index, IndexAfter(d.indexes[m.index], m, d.seqNo + 1))
           /\ d.indexes[m.index] \in Indexes /\ Covers(d.indexes[m.index])
  <2> DEFINE ix == d.indexes[m.index]
             s == d.seqNo + 1
             r == IndexAfter(ix, m, s)
  <2>1. s \in Nat
    BY DEF Databases
  <2>2. CASE n # m.index
    BY <1>3, <1>5, <2>2 DEF PutAt, Placed, Has
  <2>3. CASE n = m.index
    <3>1. Numbered(r, id, k, x)
      BY <1>3, <1>5, <2>3 DEF PutAt, Has
    <3>2. CASE m.kind \in DocumentMutations
      <4>1. r = ApplyDocument(ix, m, s) /\ m \in PutMutations \cup DeleteMutations
        BY <1>1, <3>2, MutationFields DEF IndexAfter, DocumentMutations
      <4> HIDE DEF ix, s, r
      <4>a. ix \in Indexes /\ Covers(ix)
        BY <1>5 DEF ix
      <4>2. CASE ~TakesEffect(ix, m)
        BY <1>5, <2>3, <3>1, <4>1, <4>2, ApplyDocumentNothing DEF Placed, ix
      <4>3. CASE TakesEffect(ix, m) /\ m \in PutMutations
        <5>1. Numbered(ix, id, k, x) \/ (x = s /\ id = m.id /\ k = "document")
          BY <2>1, <3>1, <4>1, <4>3, <4>a, ApplyDocumentPut, PutNumbers
        <5>2. RoleOf(m) = "document"
          BY <4>3 DEF PutMutations, RoleOf
        <5>3. QED
          BY <1>5, <2>3, <3>2, <5>1, <5>2 DEF Placed, ix, s
      <4>4. CASE TakesEffect(ix, m) /\ m \in DeleteMutations
        <5>1. Numbered(ix, id, k, x) \/ (x = s /\ id = m.id /\ k = "tombstone")
          BY <2>1, <3>1, <4>1, <4>4, <4>a, ApplyDocumentDelete, DeleteNumbers
        <5>2. RoleOf(m) = "tombstone"
          BY <4>4 DEF DeleteMutations, RoleOf
        <5>3. QED
          BY <1>5, <2>3, <3>2, <5>1, <5>2 DEF Placed, ix, s
      <4>5. QED
        BY <4>1, <4>2, <4>3, <4>4
    <3>3. CASE m.kind \in ConfigKinds
      <4>1. r = Reconfigure(ix, m) /\ m \in NamedMutations
        BY <1>1, <3>3, MutationFields DEF IndexAfter, DocumentMutations, ConfigKinds
      <4>2. r.documents = ix.documents /\ r.tombstones = ix.tombstones
        BY <1>5, <3>3, <4>1, ReconfigureEffect DEF Reconfigured
      <4>3. QED
        BY <1>5, <2>3, <3>1, <4>2 DEF Placed, Numbered
    <3>4. QED
      BY <1>1, <1>5, <3>2, <3>3 DEF OnIndexKinds
  <2>4. QED
    BY <2>2, <2>3
<1>6. CASE /\ m.kind = "CreateIndex" /\ ~Has(d.indexes, m.index)
           /\ PutAt(d.indexes, I, m.index, NewIndex(m.config))
  <2>1. /\ DOMAIN NewIndex(m.config).documents = {}
        /\ DOMAIN NewIndex(m.config).tombstones = {}
    BY <1>1, <1>6, MutationFields, NewIndexEffect
  <2>2. n # m.index
    BY <1>3, <1>6, <2>1 DEF PutAt, Numbered, Has
  <2>3. QED
    BY <1>3, <1>6, <2>2 DEF PutAt, Placed, Has
<1>7. CASE m.kind = "DeleteIndex" /\ TakenOut(d.indexes, I, m.index)
  BY <1>3, <1>7 DEF TakenOut, Placed, Has
<1>8. QED
  BY <1>1, <1>4, <1>5, <1>6, <1>7, NextIndexesCases

\* A mutation takes the next number for at most one document or tombstone.
LEMMA ApplyGood ==
    ASSUME NEW d, Good(d), NEW m \in Mutations
    PROVE  Good(ApplyMutation(d, m))
<1> DEFINE e == ApplyMutation(d, m)
<1>1. d \in Databases /\ Covered(d) /\ m \in Replayable
  BY DEF Good, Replayable
<1>2. e \in Databases /\ Covered(e)
  BY <1>1, ApplyType
<1>3. e.seqNo = IF m.kind \in DocumentMutations THEN d.seqNo + 1 ELSE d.seqNo
  BY <1>1, ApplyIsParts DEF ApplyParts, NextSeqNo
<1>4. d.seqNo \in Nat
  BY <1>1 DEF Databases
<1>5. ASSUME NEW n \in Names, NEW id \in Ids, NEW k \in Roles, NEW x \in Nat,
             Placed(e, n, id, k, x)
      PROVE  \/ Placed(d, n, id, k, x) /\ x <= d.seqNo
             \/ /\ m.kind \in DocumentMutations /\ x = d.seqNo + 1
                /\ n = m.index /\ id = m.id /\ k = RoleOf(m)
  BY <1>1, <1>5, ApplyNumbers DEF Good, NumbersBounded
<1> HIDE DEF e
<1>6. NumbersBounded(e)
  BY <1>3, <1>4, <1>5 DEF NumbersBounded
<1>7. NumbersUnique(e)
  <2> SUFFICES ASSUME NEW n1 \in Names, NEW n2 \in Names, NEW id1 \in Ids, NEW id2 \in Ids,
                      NEW k1 \in Roles, NEW k2 \in Roles, NEW x \in Nat,
                      Placed(e, n1, id1, k1, x), Placed(e, n2, id2, k2, x)
               PROVE  n1 = n2 /\ id1 = id2 /\ k1 = k2
    BY DEF NumbersUnique
  <2>1. CASE x <= d.seqNo
    <3>1. Placed(d, n1, id1, k1, x) /\ Placed(d, n2, id2, k2, x)
      BY <1>4, <1>5, <2>1
    <3>2. QED
      BY <3>1 DEF Good, NumbersUnique
  <2>2. CASE ~(x <= d.seqNo)
    BY <1>5, <2>2
  <2>3. QED
    BY <2>1, <2>2
<1>8. QED
  BY <1>2, <1>6, <1>7 DEF Good, e

-----------------------------------------------------------------------------
(* The size of the database and the number of its documents are sums, too. *)

StoreSizes(f) == [n \in DOMAIN f |-> f[n].storeSize]
DocumentCounts(f) == [n \in DOMAIN f |-> Cardinality(DOMAIN f[n].documents)]
TemplateSizes(f) == [t \in DOMAIN f |-> 1 + EstimateValue(f[t].config)]
RegistrySizes(f) == [o \in DOMAIN f |-> 1 + EstimateValue(f[o])]

LEMMA StoreSum ==
    ASSUME NEW f \in Table(Names, Indexes)
    PROVE  /\ MapThenSumSet(LAMBDA x : f[x].storeSize, DOMAIN f) = SumOf(StoreSizes(f))
           /\ Summable(StoreSizes(f)) /\ DOMAIN StoreSizes(f) = DOMAIN f
<1> DEFINE S == DOMAIN f
           g == StoreSizes(f)
           R(h) == [s \in SUBSET S |->
                       IF s = {} THEN 0 ELSE f[Some(s)].storeSize + h[s \ {Some(s)}]]
           total == CHOOSE h : h = R(h)
<1>1. Summable(g) /\ DOMAIN g = S
  <2>1. IsFiniteSet(S) /\ \A x \in S : f[x] \in Indexes
    BY TableOf
  <2>2. \A x \in S : f[x].storeSize \in Nat
    BY <2>1 DEF Indexes
  <2>3. QED
    BY <2>1, <2>2 DEF StoreSizes, Summable
<1>2. ASSUME NEW h PROVE h = R(h) <=> IsSum(h, g, S)
  <2>1. ASSUME NEW s \in SUBSET S, s # {} PROVE g[Some(s)] = f[Some(s)].storeSize
    BY <2>1 DEF Some, StoreSizes
  <2>2. R(h) = [s \in SUBSET S |-> IF s = {} THEN 0 ELSE g[Some(s)] + h[s \ {Some(s)}]]
    BY <2>1
  <2>3. QED
    BY <2>2 DEF IsSum
<1>3. MapThenSumSet(LAMBDA x : f[x].storeSize, S) = total[S]
  BY DEF MapThenSumSet, MapThenFoldSet, Some
<1>4. PICK h : IsSum(h, g, S)
  BY <1>1, SumOfFunction
<1>5. IsSum(total, g, S)
  <2>1. h = R(h)
    BY <1>2, <1>4
  <2>2. total = R(total)
    BY <2>1
  <2>3. QED
    BY <1>2, <2>2
<1> HIDE DEF total
<1>6. QED
  BY <1>1, <1>3, <1>5, SumOfValue

LEMMA CountSum ==
    ASSUME NEW f \in Table(Names, Indexes)
    PROVE  /\ MapThenSumSet(LAMBDA x : Cardinality(DOMAIN f[x].documents), DOMAIN f) = SumOf(DocumentCounts(f))
           /\ Summable(DocumentCounts(f)) /\ DOMAIN DocumentCounts(f) = DOMAIN f
<1> DEFINE S == DOMAIN f
           g == DocumentCounts(f)
           R(h) == [s \in SUBSET S |->
                       IF s = {} THEN 0 ELSE Cardinality(DOMAIN f[Some(s)].documents) + h[s \ {Some(s)}]]
           total == CHOOSE h : h = R(h)
<1>1. Summable(g) /\ DOMAIN g = S
  <2>1. IsFiniteSet(S) /\ \A x \in S : f[x] \in Indexes
    BY TableOf
  <2>2. \A x \in S : Cardinality(DOMAIN f[x].documents) \in Nat
    BY <2>1, TableOf, FS_CardinalityType DEF Indexes, DocumentTables
  <2>3. QED
    BY <2>1, <2>2 DEF DocumentCounts, Summable
<1>2. ASSUME NEW h PROVE h = R(h) <=> IsSum(h, g, S)
  <2>1. ASSUME NEW s \in SUBSET S, s # {} PROVE g[Some(s)] = Cardinality(DOMAIN f[Some(s)].documents)
    BY <2>1 DEF Some, DocumentCounts
  <2>2. R(h) = [s \in SUBSET S |-> IF s = {} THEN 0 ELSE g[Some(s)] + h[s \ {Some(s)}]]
    BY <2>1
  <2>3. QED
    BY <2>2 DEF IsSum
<1>3. MapThenSumSet(LAMBDA x : Cardinality(DOMAIN f[x].documents), S) = total[S]
  BY DEF MapThenSumSet, MapThenFoldSet, Some
<1>4. PICK h : IsSum(h, g, S)
  BY <1>1, SumOfFunction
<1>5. IsSum(total, g, S)
  <2>1. h = R(h)
    BY <1>2, <1>4
  <2>2. total = R(total)
    BY <2>1
  <2>3. QED
    BY <1>2, <2>2
<1> HIDE DEF total
<1>6. QED
  BY <1>1, <1>3, <1>5, SumOfValue

LEMMA TemplateSum ==
    ASSUME NEW f \in Table(Templates, Bodies)
    PROVE  /\ MapThenSumSet(LAMBDA x : 1 + EstimateValue(f[x].config), DOMAIN f) = SumOf(TemplateSizes(f))
           /\ Summable(TemplateSizes(f)) /\ DOMAIN TemplateSizes(f) = DOMAIN f
<1> DEFINE S == DOMAIN f
           g == TemplateSizes(f)
           R(h) == [s \in SUBSET S |->
                       IF s = {} THEN 0 ELSE 1 + EstimateValue(f[Some(s)].config) + h[s \ {Some(s)}]]
           total == CHOOSE h : h = R(h)
<1>1. Summable(g) /\ DOMAIN g = S
  <2>1. IsFiniteSet(S) /\ \A x \in S : f[x] \in Bodies
    BY TableOf
  <2>2. \A x \in S : 1 + EstimateValue(f[x].config) \in Nat
    BY <2>1, ObjectSizes DEF Bodies
  <2>3. QED
    BY <2>1, <2>2 DEF TemplateSizes, Summable
<1>2. ASSUME NEW h PROVE h = R(h) <=> IsSum(h, g, S)
  <2>1. ASSUME NEW s \in SUBSET S, s # {} PROVE g[Some(s)] = 1 + EstimateValue(f[Some(s)].config)
    BY <2>1 DEF Some, TemplateSizes
  <2>2. R(h) = [s \in SUBSET S |-> IF s = {} THEN 0 ELSE g[Some(s)] + h[s \ {Some(s)}]]
    BY <2>1
  <2>3. QED
    BY <2>2 DEF IsSum
<1>3. MapThenSumSet(LAMBDA x : 1 + EstimateValue(f[x].config), S) = total[S]
  BY DEF MapThenSumSet, MapThenFoldSet, Some
<1>4. PICK h : IsSum(h, g, S)
  BY <1>1, SumOfFunction
<1>5. IsSum(total, g, S)
  <2>1. h = R(h)
    BY <1>2, <1>4
  <2>2. total = R(total)
    BY <2>1
  <2>3. QED
    BY <1>2, <2>2
<1> HIDE DEF total
<1>6. QED
  BY <1>1, <1>3, <1>5, SumOfValue

LEMMA RegistrySum ==
    ASSUME NEW f \in Table(Registry, Objects)
    PROVE  /\ MapThenSumSet(LAMBDA x : 1 + EstimateValue(f[x]), DOMAIN f) = SumOf(RegistrySizes(f))
           /\ Summable(RegistrySizes(f)) /\ DOMAIN RegistrySizes(f) = DOMAIN f
<1> DEFINE S == DOMAIN f
           g == RegistrySizes(f)
           R(h) == [s \in SUBSET S |->
                       IF s = {} THEN 0 ELSE 1 + EstimateValue(f[Some(s)]) + h[s \ {Some(s)}]]
           total == CHOOSE h : h = R(h)
<1>1. Summable(g) /\ DOMAIN g = S
  <2>1. IsFiniteSet(S) /\ \A x \in S : f[x] \in Objects
    BY TableOf
  <2>2. \A x \in S : 1 + EstimateValue(f[x]) \in Nat
    BY <2>1, ObjectSizes
  <2>3. QED
    BY <2>1, <2>2 DEF RegistrySizes, Summable
<1>2. ASSUME NEW h PROVE h = R(h) <=> IsSum(h, g, S)
  <2>1. ASSUME NEW s \in SUBSET S, s # {} PROVE g[Some(s)] = 1 + EstimateValue(f[Some(s)])
    BY <2>1 DEF Some, RegistrySizes
  <2>2. R(h) = [s \in SUBSET S |-> IF s = {} THEN 0 ELSE g[Some(s)] + h[s \ {Some(s)}]]
    BY <2>1
  <2>3. QED
    BY <2>2 DEF IsSum
<1>3. MapThenSumSet(LAMBDA x : 1 + EstimateValue(f[x]), S) = total[S]
  BY DEF MapThenSumSet, MapThenFoldSet, Some
<1>4. PICK h : IsSum(h, g, S)
  BY <1>1, SumOfFunction
<1>5. IsSum(total, g, S)
  <2>1. h = R(h)
    BY <1>2, <1>4
  <2>2. total = R(total)
    BY <2>1
  <2>3. QED
    BY <1>2, <2>2
<1> HIDE DEF total
<1>6. QED
  BY <1>1, <1>3, <1>5, SumOfValue

StoreBytes(d) == SumOf(StoreSizes(d.indexes))

\* The part of the estimate that is not about indexes.
CatalogBytes(d) ==
    128 + SumOf(TemplateSizes(d.templates)) + 4 * Cardinality(DOMAIN d.aliases)
    + Cardinality({o[1] : o \in DOMAIN d.registry}) + SumOf(RegistrySizes(d.registry))

LEMMA DatabaseSize ==
    ASSUME NEW d \in Databases
    PROVE  /\ EstimateDatabase(d) = StoreBytes(d) + CatalogBytes(d)
           /\ StoreBytes(d) \in Nat /\ CatalogBytes(d) \in Nat
           /\ EstimateDatabase(d) \in Nat
<1> DEFINE st == SumOf(StoreSizes(d.indexes))
           te == SumOf(TemplateSizes(d.templates))
           re == SumOf(RegistrySizes(d.registry))
           al == Cardinality(DOMAIN d.aliases)
           ns == {o[1] : o \in DOMAIN d.registry}
<1>1. /\ d.indexes \in Table(Names, Indexes) /\ d.templates \in Table(Templates, Bodies)
      /\ d.registry \in Table(Registry, Objects) /\ d.aliases \in Table(Names, Names)
  BY DEF Databases
<1>2. /\ MapThenSumSet(LAMBDA n : d.indexes[n].storeSize, DOMAIN d.indexes) = st
      /\ Summable(StoreSizes(d.indexes))
  BY <1>1, StoreSum
<1>3. /\ MapThenSumSet(LAMBDA t : 1 + EstimateValue(d.templates[t].config), DOMAIN d.templates) = te
      /\ Summable(TemplateSizes(d.templates))
  BY <1>1, TemplateSum
<1>4. /\ MapThenSumSet(LAMBDA o : 1 + EstimateValue(d.registry[o]), DOMAIN d.registry) = re
      /\ Summable(RegistrySizes(d.registry))
  BY <1>1, RegistrySum
<1>5. st \in Nat /\ te \in Nat /\ re \in Nat
  BY <1>2, <1>3, <1>4, SumOfNat
<1>6. al \in Nat /\ IsFiniteSet(DOMAIN d.registry)
  BY <1>1, TableOf, FS_CardinalityType
<1>7. Cardinality(ns) \in Nat
  <2> DEFINE h == [o \in DOMAIN d.registry |-> o[1]]
  <2>1. h \in Surjection(DOMAIN d.registry, ns)
    BY DEF Surjection
  <2>2. IsFiniteSet(ns)
    BY <1>6, <2>1, FS_Surjection
  <2>3. QED
    BY <2>2, FS_CardinalityType
<1>8. EstimateDatabase(d) = 128 + st + te + 4 * al + Cardinality(ns) + re
  BY <1>2, <1>3, <1>4 DEF EstimateDatabase
<1> HIDE DEF st, te, re, al, ns
<1>9. CatalogBytes(d) = 128 + te + 4 * al + Cardinality(ns) + re /\ StoreBytes(d) = st
  BY DEF CatalogBytes, StoreBytes, st, te, re, al, ns
<1>10. QED
  BY <1>5, <1>6, <1>7, <1>8, <1>9

LEMMA CountIsSum ==
    ASSUME NEW d \in Databases
    PROVE  /\ DocumentCount(d) = SumOf(DocumentCounts(d.indexes)) /\ DocumentCount(d) \in Nat
           /\ Summable(DocumentCounts(d.indexes)) /\ Summable(StoreSizes(d.indexes))
           /\ DOMAIN DocumentCounts(d.indexes) = DOMAIN d.indexes
           /\ DOMAIN StoreSizes(d.indexes) = DOMAIN d.indexes
<1>1. d.indexes \in Table(Names, Indexes)
  BY DEF Databases
<1>2. DocumentCount(d) = SumOf(DocumentCounts(d.indexes))
  BY <1>1, CountSum DEF DocumentCount
<1>3. /\ Summable(DocumentCounts(d.indexes)) /\ Summable(StoreSizes(d.indexes))
      /\ DOMAIN DocumentCounts(d.indexes) = DOMAIN d.indexes
      /\ DOMAIN StoreSizes(d.indexes) = DOMAIN d.indexes
  BY <1>1, CountSum, StoreSum
<1>4. QED
  BY <1>2, <1>3, SumOfNat

\* One index put or replaced.
LEMMA PutIndexSums ==
    ASSUME NEW d \in Databases, NEW e \in Databases, NEW n, NEW r \in Indexes,
           PutAt(d.indexes, e.indexes, n, r)
    PROVE  /\ Has(d.indexes, n) =>
                  /\ d.indexes[n].storeSize <= StoreBytes(d) /\ d.indexes[n].storeSize \in Nat
                  /\ StoreBytes(e) = (StoreBytes(d) - d.indexes[n].storeSize) + r.storeSize
                  /\ Cardinality(DOMAIN d.indexes[n].documents) \in Nat
                  /\ DocumentCount(e) =
                         (DocumentCount(d) - Cardinality(DOMAIN d.indexes[n].documents))
                         + Cardinality(DOMAIN r.documents)
           /\ ~Has(d.indexes, n) =>
                  /\ StoreBytes(e) = StoreBytes(d) + r.storeSize
                  /\ DocumentCount(e) = DocumentCount(d) + Cardinality(DOMAIN r.documents)
<1> DEFINE c == Cardinality(DOMAIN r.documents)
           g == StoreSizes(d.indexes)
           h == StoreSizes(e.indexes)
           p == DocumentCounts(d.indexes)
           q == DocumentCounts(e.indexes)
           v == r.storeSize
<1>1. v \in Nat /\ c \in Nat
  BY TableOf, FS_CardinalityType DEF Indexes, DocumentTables
<1>2. /\ Summable(g) /\ DOMAIN g = DOMAIN d.indexes
      /\ Summable(p) /\ DOMAIN p = DOMAIN d.indexes
  BY CountIsSum
<1>3. IsPut(g, h, n, v)
  BY DEF IsPut, PutAt, StoreSizes
<1>4. IsPut(p, q, n, c)
  BY DEF IsPut, PutAt, DocumentCounts
<1>5. /\ \A x \in DOMAIN d.indexes : g[x] = d.indexes[x].storeSize
      /\ \A x \in DOMAIN d.indexes : p[x] = Cardinality(DOMAIN d.indexes[x].documents)
  BY DEF StoreSizes, DocumentCounts
<1>6. /\ StoreBytes(d) = SumOf(g) /\ StoreBytes(e) = SumOf(h)
      /\ DocumentCount(d) = SumOf(p) /\ DocumentCount(e) = SumOf(q)
  BY CountIsSum DEF StoreBytes
<1> HIDE DEF g, h, p, q, v, c
<1>7. /\ n \in DOMAIN g => /\ g[n] \in Nat /\ g[n] <= SumOf(g)
                           /\ SumOf(h) = (SumOf(g) - g[n]) + v
      /\ n \notin DOMAIN g => SumOf(h) = SumOf(g) + v
  BY <1>1, <1>2, <1>3, SumOfPut
<1>8. /\ n \in DOMAIN p => /\ p[n] \in Nat /\ p[n] <= SumOf(p)
                           /\ SumOf(q) = (SumOf(p) - p[n]) + c
      /\ n \notin DOMAIN p => SumOf(q) = SumOf(p) + c
  BY <1>1, <1>2, <1>4, SumOfPut
<1>9. QED
  BY <1>2, <1>5, <1>6, <1>7, <1>8 DEF Has, v, c

ReplacedBytes(d, e, n, r) ==
    /\ d.indexes[n].storeSize <= StoreBytes(d) /\ d.indexes[n].storeSize \in Nat
    /\ StoreBytes(e) = (StoreBytes(d) - d.indexes[n].storeSize) + r.storeSize

ReplacedCount(d, e, n, r) ==
    /\ Cardinality(DOMAIN d.indexes[n].documents) \in Nat
    /\ DocumentCount(e) = (DocumentCount(d) - Cardinality(DOMAIN d.indexes[n].documents))
                          + Cardinality(DOMAIN r.documents)

LEMMA ReplacedIndexSums ==
    ASSUME NEW d \in Databases, NEW e \in Databases, NEW n, NEW r \in Indexes,
           PutAt(d.indexes, e.indexes, n, r), Has(d.indexes, n)
    PROVE  ReplacedBytes(d, e, n, r) /\ ReplacedCount(d, e, n, r)
BY PutIndexSums DEF ReplacedBytes, ReplacedCount

\* A part of the indexes, each no larger.
LEMMA LessIndexSums ==
    ASSUME NEW d \in Databases, NEW e \in Databases, DOMAIN e.indexes \subseteq DOMAIN d.indexes,
           \A n \in DOMAIN e.indexes : /\ e.indexes[n].storeSize <= d.indexes[n].storeSize
                                       /\ e.indexes[n].documents = d.indexes[n].documents
    PROVE  StoreBytes(e) <= StoreBytes(d) /\ DocumentCount(e) <= DocumentCount(d)
<1> DEFINE g == StoreSizes(d.indexes)
           h == StoreSizes(e.indexes)
           p == DocumentCounts(d.indexes)
           q == DocumentCounts(e.indexes)
<1>1. /\ Summable(g) /\ Summable(p) /\ Summable(h) /\ Summable(q)
      /\ DOMAIN g = DOMAIN d.indexes /\ DOMAIN p = DOMAIN d.indexes
      /\ DOMAIN h = DOMAIN e.indexes /\ DOMAIN q = DOMAIN e.indexes
  BY CountIsSum
<1>2. \A x \in DOMAIN h : h[x] <= g[x]
  BY <1>1 DEF StoreSizes
<1>3. \A x \in DOMAIN q : q[x] = p[x]
  BY <1>1 DEF DocumentCounts
<1>4. /\ StoreBytes(d) = SumOf(g) /\ StoreBytes(e) = SumOf(h)
      /\ DocumentCount(d) = SumOf(p) /\ DocumentCount(e) = SumOf(q)
  BY CountIsSum DEF StoreBytes
<1> HIDE DEF g, h, p, q
<1>5. \A x \in DOMAIN q : q[x] <= p[x]
  BY <1>1, <1>3 DEF Summable
<1>6. SumOf(h) <= SumOf(g)
  BY <1>1, <1>2, SumOfLess
<1>7. SumOf(q) <= SumOf(p)
  BY <1>1, <1>5, SumOfLess
<1>8. QED
  BY <1>4, <1>6, <1>7

LEMMA SameCatalog ==
    ASSUME NEW d, NEW e, e.templates = d.templates, e.registry = d.registry,
           DOMAIN e.aliases = DOMAIN d.aliases
    PROVE  CatalogBytes(e) = CatalogBytes(d)
BY DEF CatalogBytes

-----------------------------------------------------------------------------
(* estimate_mutation_size_delta is what the mutation adds and takes away.  *)

LEMMA DeltaExact ==
    ASSUME NEW d \in Databases, Covered(d), NEW m \in PutMutations \cup DeleteMutations,
           Has(d.indexes, m.index), NEW s \in Nat
    PROVE  LET ix == d.indexes[m.index]
               delta == SizeDelta(d, m)
           IN  /\ delta.add \in Nat /\ delta.subtract \in Nat /\ delta.subtract <= ix.storeSize
               /\ ApplyDocument(ix, m, s).storeSize = (ix.storeSize - delta.subtract) + delta.add
<1> DEFINE ix == d.indexes[m.index]
           delta == SizeDelta(d, m)
           x == DocumentBytesAt(ix.documents, m.id)
           y == TombstoneBytesAt(ix.tombstones, m.id)
           e == EstimateDocument(m.id, NewSource(ix, m))
           t == EstimateTombstone(m.id)
           r == ApplyDocument(ix, m, s)
<1>1. ix \in Indexes /\ Covers(ix)
  BY TableOf DEF Databases, Has, Covered
<1>2. x + y <= ix.storeSize /\ ix.storeSize \in Nat /\ x \in Nat /\ y \in Nat
  BY <1>1, BytesCovered DEF BytesAt
<1>3. t \in Nat
  BY DocumentSizes DEF Objects
<1>4. CASE ~TakesEffect(ix, m)
  <2>1. r = ix
    BY <1>4, ApplyDocumentNothing
  <2>2. m.kind \in {"CreateDocument", "UpdateDocument", "DeleteDocument"}
    BY <1>4 DEF TakesEffect, PutMutations, DeleteMutations
  <2>3. delta = [add |-> 0, subtract |-> 0]
    BY <1>4, <2>2 DEF TakesEffect, SizeDelta
  <2>4. delta.add = 0 /\ delta.subtract = 0
    BY <2>3
  <2> HIDE DEF ix, delta, r
  <2>5. QED
    BY <1>2, <2>1, <2>4 DEF ix, delta, r
<1>5. CASE TakesEffect(ix, m) /\ m \in PutMutations
  <2>1. IsPutOf(ix, m, s, r)
    BY <1>1, <1>5, ApplyDocumentPut
  <2>2. r.storeSize = (ix.storeSize - (x + y)) + e
    BY <2>1 DEF IsPutOf, SameButDocuments, BytesAt
  <2>3. e \in Nat
    BY <1>1, <1>5, NewSourceType, DocumentSizes
  <2>4. delta.add = e /\ delta.subtract = x + y
    <3>1. CASE m.kind = "IndexDocument"
      BY <3>1 DEF SizeDelta, NewSource, DocumentBytesAt, TombstoneBytesAt
    <3>2. CASE m.kind = "CreateDocument"
      <4>1. ~Has(ix.documents, m.id)
        BY <1>5, <3>2 DEF TakesEffect
      <4>2. x = 0 /\ x + y = y
        BY <1>2, <4>1 DEF DocumentBytesAt
      <4>3. delta = [add |-> EstimateDocument(m.id, m.source), subtract |-> y]
        BY <3>2, <4>1 DEF SizeDelta, TombstoneBytesAt
      <4>4. e = EstimateDocument(m.id, m.source)
        BY <3>2 DEF NewSource
      <4> HIDE DEF delta, x, y, e
      <4>5. QED
        BY <4>2, <4>3, <4>4
    <3>3. CASE m.kind = "UpdateDocument"
      <4>1. Has(ix.documents, m.id) \/ m.upsert
        BY <1>5, <3>3 DEF TakesEffect
      <4>2. delta = [add |-> e, subtract |-> x + y]
        BY <3>3, <4>1 DEF SizeDelta, NewSource, DocumentBytesAt, TombstoneBytesAt
      <4> HIDE DEF delta, x, y, e
      <4>3. QED
        BY <4>2
    <3>4. QED
      BY <1>5, <3>1, <3>2, <3>3 DEF PutMutations
  <2> HIDE DEF ix, delta, r, x, y, e
  <2>5. QED
    BY <1>2, <2>2, <2>3, <2>4 DEF ix, delta, r
<1>6. CASE TakesEffect(ix, m) /\ m \in DeleteMutations
  <2>1. IsDeleteOf(ix, m, s, r)
    BY <1>1, <1>6, ApplyDocumentDelete
  <2>2. r.storeSize = (ix.storeSize - x) + t
    BY <2>1 DEF IsDeleteOf, SameButDocuments
  <2>3. m.kind = "DeleteDocument" /\ Has(ix.documents, m.id)
    BY <1>6 DEF TakesEffect, DeleteMutations
  <2>4. delta = [add |-> t, subtract |-> x]
    BY <2>3 DEF SizeDelta, DocumentBytesAt
  <2> HIDE DEF ix, delta, r, x, y, t
  <2>5. QED
    BY <1>2, <1>3, <2>2, <2>4 DEF ix, delta, r
<1>7. QED
  BY <1>4, <1>5, <1>6

\* The size that estimate_database_bytes_after_mutation predicts is the size
\* that the database has once the mutation is applied.
LEMMA PredictionHolds ==
    ASSUME NEW d \in Databases, Covered(d), NEW m \in WriteMutations,
           IF m.kind = "CreateIndex" THEN ~Has(d.indexes, m.index) ELSE Has(d.indexes, m.index)
    PROVE  EstimateAfter(d, m) = EstimateDatabase(ApplyMutation(d, m))
<1> DEFINE e == ApplyMutation(d, m)
           delta == SizeDelta(d, m)
<1>1. m \in Replayable
  BY DEF Replayable, Mutations
<1>2. e \in Databases /\ e = ApplyParts(d, m)
  BY <1>1, ApplyType, ApplyIsParts
<1>3. m.kind \in DocumentMutations \cup {"CreateIndex"}
  BY DEF WriteMutations, PutMutations, DeleteMutations, CreateMutations, DocumentMutations
<1>4. e.templates = d.templates /\ e.registry = d.registry /\ e.aliases = d.aliases
      /\ e.indexes = NextIndexes(d, m)
  BY <1>2, <1>3 DEF ApplyParts, NextTemplates, NextRegistry, NextAliases, DocumentMutations
<1>5. EstimateAfter(d, m) = SaturatingSub(EstimateDatabase(d), delta.subtract) + delta.add
  BY DEF EstimateAfter
<1> HIDE DEF e, delta
<1>6. /\ EstimateDatabase(d) = StoreBytes(d) + CatalogBytes(d)
      /\ EstimateDatabase(e) = StoreBytes(e) + CatalogBytes(d)
      /\ StoreBytes(d) \in Nat /\ CatalogBytes(d) \in Nat /\ StoreBytes(e) \in Nat
  BY <1>2, <1>4, DatabaseSize, SameCatalog
<1>7. CASE m.kind = "CreateIndex"
  <2> DEFINE r == NewIndex(m.config)
  <2>1. PutAt(d.indexes, e.indexes, m.index, r) /\ ~Has(d.indexes, m.index)
    <3>1. NextIndexes(d, m) = Put(d.indexes, m.index, r) /\ ~Has(d.indexes, m.index)
      BY <1>7 DEF NextIndexes, OnIndexKinds, DocumentMutations, ConfigKinds
    <3>2. d.indexes \in Table(Names, Indexes) /\ m.index \in Names /\ r \in Indexes
      BY <1>1, <1>7, MutationFields, NewIndexEffect DEF Databases
    <3> HIDE DEF r
    <3>3. QED
      BY <1>4, <3>1, <3>2, TablePut
  <2>2. r \in Indexes /\ r.storeSize = EstimateIndex(r) /\ r.storeSize \in Nat
    BY <1>1, <1>7, MutationFields, NewIndexEffect, IndexSize
  <2>3. delta = [add |-> EstimateIndex(r), subtract |-> 0]
    BY <1>7 DEF SizeDelta, delta
  <2>4. StoreBytes(e) = StoreBytes(d) + r.storeSize
    BY <1>2, <2>1, <2>2, PutIndexSums
  <2> HIDE DEF r
  <2>5. QED
    BY <1>5, <1>6, <2>2, <2>3, <2>4 DEF SaturatingSub, e
<1>8. CASE m.kind \in DocumentMutations
  <2> DEFINE ix == d.indexes[m.index]
             s == d.seqNo + 1
             r == ApplyDocument(ix, m, s)
  <2>1. Has(d.indexes, m.index) /\ m \in PutMutations \cup DeleteMutations /\ s \in Nat
    BY <1>1, <1>8, MutationFields DEF DocumentMutations, Databases
  <2>2. NextIndexes(d, m) = Put(d.indexes, m.index, r)
    BY <1>8, <2>1 DEF NextIndexes, IndexAfter, OnIndexKinds
  <2>3. r \in Indexes /\ m.index \in Names
    <3>1. ix \in Indexes /\ Covers(ix) /\ IndexAfter(ix, m, s) = r /\ m.kind \in OnIndexKinds
      BY <1>8, <2>1, TableOf DEF Databases, Has, Covered, IndexAfter, OnIndexKinds
    <3>2. QED
      BY <1>1, <2>1, <3>1, IndexAfterType, MutationFields
  <2>4. d.indexes \in Table(Names, Indexes)
    BY DEF Databases
  <2>5. /\ delta.add \in Nat /\ delta.subtract \in Nat /\ delta.subtract <= ix.storeSize
        /\ r.storeSize = (ix.storeSize - delta.subtract) + delta.add
    BY <2>1, DeltaExact DEF delta
  <2> HIDE DEF r, s, ix
  <2>6. PutAt(d.indexes, e.indexes, m.index, r)
    BY <1>4, <2>2, <2>3, <2>4, TablePut
  <2>7. /\ ix.storeSize <= StoreBytes(d) /\ ix.storeSize \in Nat
        /\ StoreBytes(e) = (StoreBytes(d) - ix.storeSize) + r.storeSize
    <3>1. e \in Databases /\ Has(d.indexes, m.index)
      BY <1>2, <2>1
    <3>2. /\ d.indexes[m.index].storeSize <= StoreBytes(d) /\ d.indexes[m.index].storeSize \in Nat
          /\ StoreBytes(e) = (StoreBytes(d) - d.indexes[m.index].storeSize) + r.storeSize
      BY <2>3, <2>6, <3>1, ReplacedIndexSums DEF ReplacedBytes
    <3>3. QED
      BY <3>2 DEF ix
  <2>8. SaturatingSub(EstimateDatabase(d), delta.subtract) =
            (StoreBytes(d) + CatalogBytes(d)) - delta.subtract
    BY <1>6, <2>5, <2>7 DEF SaturatingSub
  <2>9. QED
    BY <1>5, <1>6, <2>5, <2>7, <2>8 DEF e
<1>9. QED
  BY <1>3, <1>7, <1>8

-----------------------------------------------------------------------------
(* The repairs of the store when it opens.                                 *)

Moved(d, e, m) ==
    LET ix == d.indexes[m.index]
        r  == e.indexes[m.index]
    IN  /\ Has(d.indexes, m.index) /\ ix \in Indexes
        /\ Moves(ix, m) /\ MovedTo(ix, m, r) /\ r.storeSize <= ix.storeSize
        /\ PutAt(d.indexes, e.indexes, m.index, r)

LEMMA RenameCases ==
    ASSUME NEW d \in Databases, Covered(d), NEW m \in Renames
    PROVE  LET e == ApplyMutation(d, m)
           IN  /\ e \in Databases /\ Covered(e)
               /\ e.templates = d.templates /\ e.registry = d.registry
               /\ e.aliases = d.aliases /\ e.seqNo = d.seqNo
               /\ e = d \/ Moved(d, e, m)
<1> DEFINE e == ApplyMutation(d, m)
           ix == d.indexes[m.index]
           r == ApplyRename(ix, m)
<1>1. m \in Replayable /\ m.kind = "RenameDocument" /\ m.index \in Names
  BY DEF Replayable, Renames
<1>2. e \in Databases /\ Covered(e) /\ e = ApplyParts(d, m)
  BY <1>1, ApplyType, ApplyIsParts
<1>3. /\ e.templates = d.templates /\ e.registry = d.registry
      /\ e.aliases = d.aliases /\ e.seqNo = d.seqNo /\ e.indexes = NextIndexes(d, m)
  BY <1>1, <1>2 DEF ApplyParts, NextTemplates, NextRegistry, NextAliases, NextSeqNo,
                    DocumentMutations
<1>4. d = [indexes |-> d.indexes, templates |-> d.templates, registry |-> d.registry,
           aliases |-> d.aliases, seqNo |-> d.seqNo]
  BY DEF Databases
<1>5. ASSUME e.indexes = d.indexes PROVE e = d
  BY <1>2, <1>3, <1>4, <1>5 DEF ApplyParts
<1>6. CASE ~Has(d.indexes, m.index)
  <2>1. e.indexes = d.indexes
    BY <1>1, <1>3, <1>6 DEF NextIndexes, OnIndexKinds
  <2>2. QED
    BY <1>2, <1>3, <1>5, <2>1
<1>7. CASE Has(d.indexes, m.index)
  <2>1. e.indexes = Put(d.indexes, m.index, r)
    BY <1>1, <1>3, <1>7 DEF NextIndexes, OnIndexKinds, IndexAfter, DocumentMutations
  <2>2. ix \in Indexes /\ Covers(ix)
    BY <1>7, TableOf DEF Databases, Has, Covered
  <2>3. /\ Moves(ix, m) => MovedTo(ix, m, r)
        /\ ~Moves(ix, m) => r = ix
        /\ r.storeSize <= ix.storeSize
    BY <2>2, RenameEffect
  <2>4. r \in Indexes
    BY <2>2, <2>3 DEF MovedTo
  <2>5. PutAt(d.indexes, e.indexes, m.index, r)
    <3> HIDE DEF r, e
    <3>1. d.indexes \in Table(Names, Indexes)
      BY DEF Databases
    <3>2. QED
      BY <1>1, <2>1, <2>4, <3>1, TablePut
  <2>6. e.indexes[m.index] = r
    BY <2>5 DEF PutAt
  <2>7. CASE Moves(ix, m)
    <3>1. Moved(d, e, m)
      <4> HIDE DEF e, r
      <4>1. QED
        BY <1>7, <2>2, <2>3, <2>5, <2>6, <2>7 DEF Moved
    <3>2. QED
      BY <1>2, <1>3, <3>1
  <2>8. CASE ~Moves(ix, m)
    <3>1. e.indexes \in Table(Names, Indexes) /\ d.indexes \in Table(Names, Indexes)
      BY <1>2 DEF Databases
    <3>2. DOMAIN e.indexes = DOMAIN d.indexes
      BY <1>7, <2>5 DEF PutAt, Has
    <3>3. \A n \in DOMAIN e.indexes : e.indexes[n] = d.indexes[n]
      BY <2>3, <2>5, <2>8 DEF PutAt
    <3>4. e.indexes = d.indexes
      <4> HIDE DEF e
      <4>1. QED
        BY <3>1, <3>2, <3>3, TableEqual
    <3>5. QED
      BY <1>2, <1>3, <1>5, <3>4
  <2>9. QED
    BY <2>7, <2>8
<1>8. QED
  BY <1>6, <1>7

LEMMA RenameGood ==
    ASSUME NEW d, Good(d), NEW m \in Renames
    PROVE  Good(ApplyMutation(d, m))
<1> DEFINE e == ApplyMutation(d, m)
           n0 == m.index
           ix == d.indexes[n0]
           r == e.indexes[n0]
<1>1. d \in Databases /\ Covered(d)
  BY DEF Good
<1>2. e \in Databases /\ Covered(e) /\ e.seqNo = d.seqNo /\ (e = d \/ Moved(d, e, m))
  BY <1>1, RenameCases
<1>3. m.id # m.newId /\ m.id \in Ids /\ m.newId \in Ids /\ n0 \in Names
  BY DatabaseAssumption DEF Renames, Range
<1> HIDE DEF e
<1>4. CASE e = d
  BY <1>4 DEF e
<1>5. CASE Moved(d, e, m)
  <2>1. /\ Has(d.indexes, n0) /\ ix \in Indexes /\ Moves(ix, m) /\ MovedTo(ix, m, r)
        /\ PutAt(d.indexes, e.indexes, n0, r)
    BY <1>5 DEF Moved
  <2>2. ASSUME NEW n \in Names, NEW id \in Ids, NEW k \in Roles, NEW x \in Nat,
               Placed(e, n, id, k, x)
        PROVE  \/ /\ Placed(d, n, id, k, x) /\ ~(n = n0 /\ id = m.id /\ k = "document")
                  /\ ~(n = n0 /\ id = m.newId /\ k = "document")
               \/ /\ n = n0 /\ id = m.newId /\ k = "document"
                  /\ Placed(d, n0, m.id, "document", x)
    <3>1. CASE n # n0
      BY <2>1, <2>2, <3>1 DEF Placed, PutAt, Has
    <3>2. CASE n = n0
      <4>1. Numbered(r, id, k, x)
        BY <2>2, <3>2 DEF Placed
      <4>2. \/ Numbered(ix, id, k, x) /\ ~(id = m.id /\ k = "document")
               /\ ~(id = m.newId /\ k = "document")
            \/ id = m.newId /\ k = "document" /\ Numbered(ix, m.id, k, x)
        <5> HIDE DEF ix, r
        <5>1. QED
          BY <1>3, <2>1, <4>1, MoveNumbers
      <4>3. QED
        BY <2>1, <3>2, <4>2 DEF Placed
    <3>3. QED
      BY <3>1, <3>2
  <2> HIDE DEF ix, r, n0
  <2>3. NumbersBounded(e)
    <3> SUFFICES ASSUME NEW n \in Names, NEW id \in Ids, NEW k \in Roles, NEW x \in Nat,
                        Placed(e, n, id, k, x)
                 PROVE  x <= e.seqNo
      BY DEF NumbersBounded
    <3>1. Placed(d, n, id, k, x) \/ Placed(d, n0, m.id, "document", x)
      BY <2>2
    <3>2. QED
      BY <1>2, <1>3, <3>1 DEF Good, NumbersBounded, Roles
  <2>4. NumbersUnique(e)
    <3> SUFFICES ASSUME NEW n1 \in Names, NEW n2 \in Names, NEW id1 \in Ids, NEW id2 \in Ids,
                        NEW k1 \in Roles, NEW k2 \in Roles, NEW x \in Nat,
                        Placed(e, n1, id1, k1, x), Placed(e, n2, id2, k2, x)
                 PROVE  n1 = n2 /\ id1 = id2 /\ k1 = k2
      BY DEF NumbersUnique
    <3>1. ASSUME NEW a1 \in Names, NEW a2 \in Names, NEW b1 \in Ids, NEW b2 \in Ids,
                 NEW c1 \in Roles, NEW c2 \in Roles, Placed(d, a1, b1, c1, x),
                 Placed(d, a2, b2, c2, x)
          PROVE  a1 = a2 /\ b1 = b2 /\ c1 = c2
      BY <3>1 DEF Good, NumbersUnique
    <3>2. \/ /\ Placed(d, n1, id1, k1, x) /\ ~(n1 = n0 /\ id1 = m.id /\ k1 = "document")
          \/ /\ n1 = n0 /\ id1 = m.newId /\ k1 = "document"
             /\ Placed(d, n0, m.id, "document", x)
      BY <2>2
    <3>3. \/ /\ Placed(d, n2, id2, k2, x) /\ ~(n2 = n0 /\ id2 = m.id /\ k2 = "document")
          \/ /\ n2 = n0 /\ id2 = m.newId /\ k2 = "document"
             /\ Placed(d, n0, m.id, "document", x)
      BY <2>2
    <3>4. "document" \in Roles
      BY DEF Roles
    <3>5. QED
      BY <1>3, <3>1, <3>2, <3>3, <3>4
  <2>5. QED
    BY <1>2, <2>3, <2>4 DEF Good, e
<1>6. QED
  BY <1>2, <1>4, <1>5

\* A repair makes the database no larger: the decoded id is shorter, and what
\* recompute_store_size computes is at most what was accounted for.
LEMMA RenameSizes ==
    ASSUME NEW d \in Databases, Covered(d), NEW m \in Renames
    PROVE  LET e == ApplyMutation(d, m)
           IN  /\ EstimateDatabase(e) <= EstimateDatabase(d)
               /\ DocumentCount(e) = DocumentCount(d)
               /\ DOMAIN e.indexes = DOMAIN d.indexes
<1> DEFINE e == ApplyMutation(d, m)
           n == m.index
           ix == d.indexes[n]
           r == e.indexes[n]
<1>1. /\ e \in Databases /\ e.templates = d.templates /\ e.registry = d.registry
      /\ e.aliases = d.aliases /\ (e = d \/ Moved(d, e, m))
  BY RenameCases
<1> HIDE DEF e
<1>2. /\ EstimateDatabase(d) = StoreBytes(d) + CatalogBytes(d)
      /\ EstimateDatabase(e) = StoreBytes(e) + CatalogBytes(d)
      /\ StoreBytes(d) \in Nat /\ CatalogBytes(d) \in Nat /\ StoreBytes(e) \in Nat
  BY <1>1, DatabaseSize, SameCatalog
<1>3. CASE e = d
  BY <1>2, <1>3 DEF e
<1>4. CASE Moved(d, e, m)
  <2>1. /\ Has(d.indexes, n) /\ ix \in Indexes /\ Moves(ix, m) /\ MovedTo(ix, m, r)
        /\ r.storeSize <= ix.storeSize /\ PutAt(d.indexes, e.indexes, n, r) /\ r \in Indexes
    BY <1>4 DEF Moved, MovedTo
  <2>2. ReplacedBytes(d, e, n, r) /\ ReplacedCount(d, e, n, r)
    <3> HIDE DEF r, n
    <3>1. QED
      BY <1>1, <2>1, ReplacedIndexSums
  <2>3. Cardinality(DOMAIN r.documents) = Cardinality(DOMAIN ix.documents)
    <3> HIDE DEF r, ix
    <3>1. DOMAIN r.documents = (DOMAIN ix.documents \ {m.id}) \cup {m.newId}
      BY <2>1, MovedDocuments
    <3>2. /\ IsFiniteSet(DOMAIN ix.documents) /\ m.id \in DOMAIN ix.documents
          /\ m.newId \notin DOMAIN ix.documents
      BY <2>1, TableOf DEF Indexes, DocumentTables, Moves, Has
    <3>3. /\ IsFiniteSet(DOMAIN ix.documents \ {m.id})
          /\ Cardinality(DOMAIN ix.documents \ {m.id}) = Cardinality(DOMAIN ix.documents) - 1
      BY <3>2, FS_RemoveElement
    <3>4. Cardinality((DOMAIN ix.documents \ {m.id}) \cup {m.newId}) =
              Cardinality(DOMAIN ix.documents \ {m.id}) + 1
      BY <3>2, <3>3, FS_AddElement
    <3>5. Cardinality(DOMAIN ix.documents) \in Nat
      BY <3>2, FS_CardinalityType
    <3>6. QED
      BY <3>1, <3>3, <3>4, <3>5
  <2>4. DocumentCount(d) \in Nat
    BY CountIsSum
  <2>5. DocumentCount(e) = DocumentCount(d)
    BY <2>2, <2>3, <2>4 DEF ReplacedCount
  <2>6. r.storeSize \in Nat
    BY <2>1 DEF Indexes
  <2>7. StoreBytes(e) <= StoreBytes(d)
    BY <1>2, <2>1, <2>2, <2>6 DEF ReplacedBytes
  <2>8. DOMAIN e.indexes = DOMAIN d.indexes
    BY <2>1 DEF PutAt, Has
  <2>9. EstimateDatabase(e) <= EstimateDatabase(d)
    BY <1>2, <2>7
  <2>10. QED
    BY <2>5, <2>8, <2>9 DEF e
<1>5. QED
  BY <1>1, <1>3, <1>4

-----------------------------------------------------------------------------
(* What the log describes: a database that is the one in memory, except    *)
(* that it may lack an index and may have counted fewer bytes.             *)

Mirrored(ix, jx) ==
    /\ jx.config = ix.config /\ jx.aliases = ix.aliases /\ jx.documents = ix.documents
    /\ jx.tombstones = ix.tombstones /\ jx.storeSize <= ix.storeSize

Mirrors(d, e) ==
    /\ DOMAIN e.indexes \subseteq DOMAIN d.indexes
    /\ \A n \in DOMAIN e.indexes : Mirrored(d.indexes[n], e.indexes[n])
    /\ e.templates = d.templates /\ e.registry = d.registry
    /\ e.aliases = d.aliases /\ e.seqNo = d.seqNo

LEMMA MirroredAfter ==
    ASSUME NEW ix \in Indexes, NEW jx \in Indexes, Covers(ix), Covers(jx), Mirrored(ix, jx),
           NEW m \in Mutations, m.kind \in OnIndexKinds, NEW s \in Nat
    PROVE  Mirrored(IndexAfter(ix, m, s), IndexAfter(jx, m, s))
<1> DEFINE r == IndexAfter(ix, m, s)
           q == IndexAfter(jx, m, s)
<1>1. m \in Replayable /\ m.kind # "RenameDocument"
  BY DEF Replayable, Mutations, WriteMutations, PutMutations, DeleteMutations, CreateMutations,
         NamedMutations, CatalogMutations
<1>2. /\ jx.config = ix.config /\ jx.aliases = ix.aliases /\ jx.documents = ix.documents
      /\ jx.tombstones = ix.tombstones /\ jx.storeSize <= ix.storeSize
  BY DEF Mirrored
<1>3. ix.storeSize \in Nat /\ jx.storeSize \in Nat
  BY DEF Indexes
<1>4. CASE m.kind \in DocumentMutations
  <2>1. /\ r = ApplyDocument(ix, m, s) /\ q = ApplyDocument(jx, m, s)
        /\ m \in PutMutations \cup DeleteMutations
    BY <1>1, <1>4, MutationFields DEF IndexAfter, DocumentMutations
  <2>2. TakesEffect(jx, m) <=> TakesEffect(ix, m)
    BY <1>2 DEF TakesEffect
  <2> HIDE DEF r, q
  <2>3. CASE ~TakesEffect(ix, m)
    BY <2>1, <2>2, <2>3, ApplyDocumentNothing DEF r, q
  <2>4. CASE TakesEffect(ix, m) /\ m \in PutMutations
    <3>1. IsPutOf(ix, m, s, r) /\ IsPutOf(jx, m, s, q)
      BY <2>1, <2>2, <2>4, ApplyDocumentPut
    <3>2. /\ NewSource(jx, m) = NewSource(ix, m) /\ NextVersion(jx, m.id) = NextVersion(ix, m.id)
          /\ BytesAt(jx, m.id) = BytesAt(ix, m.id)
      BY <1>2 DEF NewSource, NextVersion, BytesAt
    <3> DEFINE b == BytesAt(ix, m.id)
               e == EstimateDocument(m.id, NewSource(ix, m))
    <3>3. b \in Nat /\ e \in Nat
      BY <2>4, BytesCovered, NewSourceType, DocumentSizes DEF BytesAt
    <3>4. r.storeSize = (ix.storeSize - b) + e /\ q.storeSize = (jx.storeSize - b) + e
      BY <3>1, <3>2 DEF IsPutOf, SameButDocuments
    <3>5. /\ q.config = r.config /\ q.aliases = r.aliases /\ q.documents = r.documents
          /\ q.tombstones = r.tombstones
      BY <1>2, <3>1, <3>2 DEF IsPutOf, SameButDocuments
    <3> HIDE DEF b, e
    <3>6. q.storeSize <= r.storeSize
      BY <1>2, <1>3, <3>3, <3>4
    <3>7. QED
      BY <3>5, <3>6 DEF Mirrored, r, q
  <2>5. CASE TakesEffect(ix, m) /\ m \in DeleteMutations
    <3>1. IsDeleteOf(ix, m, s, r) /\ IsDeleteOf(jx, m, s, q)
      BY <2>1, <2>2, <2>5, ApplyDocumentDelete
    <3> DEFINE b == DocumentBytesAt(ix.documents, m.id)
               e == EstimateTombstone(m.id)
    <3>2. b \in Nat /\ e \in Nat
      BY BytesCovered, DocumentSizes DEF Objects
    <3>3. r.storeSize = (ix.storeSize - b) + e /\ q.storeSize = (jx.storeSize - b) + e
      BY <1>2, <3>1 DEF IsDeleteOf, SameButDocuments
    <3>4. /\ q.config = r.config /\ q.aliases = r.aliases /\ q.documents = r.documents
          /\ q.tombstones = r.tombstones
      BY <1>2, <3>1 DEF IsDeleteOf, SameButDocuments
    <3> HIDE DEF b, e
    <3>5. q.storeSize <= r.storeSize
      BY <1>2, <1>3, <3>2, <3>3
    <3>6. QED
      BY <3>4, <3>5 DEF Mirrored, r, q
  <2>6. QED
    BY <2>1, <2>3, <2>4, <2>5
<1>5. CASE m.kind \in ConfigKinds
  <2>1. r = Reconfigure(ix, m) /\ q = Reconfigure(jx, m) /\ m \in NamedMutations
    BY <1>1, <1>5, MutationFields DEF IndexAfter, DocumentMutations, ConfigKinds
  <2>2. /\ Reconfigured(ix, r) /\ r.config = NewConfig(ix, m) /\ r.aliases = NewAliases(ix, m)
    BY <1>5, <2>1, ReconfigureEffect
  <2>3. /\ Reconfigured(jx, q) /\ q.config = NewConfig(jx, m) /\ q.aliases = NewAliases(jx, m)
    BY <1>5, <2>1, ReconfigureEffect
  <2> HIDE DEF r, q
  <2>4. NewConfig(ix, m) = NewConfig(jx, m) /\ NewAliases(ix, m) = NewAliases(jx, m)
    BY <1>2 DEF NewConfig, NewAliases
  <2>5. /\ r \in Indexes /\ q \in Indexes
        /\ q.config = r.config /\ q.aliases = r.aliases /\ q.documents = r.documents
        /\ q.tombstones = r.tombstones
        /\ r.storeSize = EstimateIndex(r) /\ q.storeSize = EstimateIndex(q)
    BY <1>2, <2>2, <2>3, <2>4 DEF Reconfigured
  <2>6. EstimateIndex(q) = EstimateIndex(r) /\ EstimateIndex(r) \in Nat
    BY <2>5, SameSize, IndexSize
  <2>7. q.storeSize <= r.storeSize
    BY <2>5, <2>6
  <2>8. QED
    BY <2>5, <2>7 DEF Mirrored, r, q
<1>6. QED
  BY <1>1, <1>4, <1>5 DEF OnIndexKinds

\* The names of the indexes after a mutation.
LEMMA NextDomain ==
    ASSUME NEW d \in Databases, Covered(d), NEW m \in Mutations
    PROVE  DOMAIN NextIndexes(d, m) =
               IF m.kind = "CreateIndex" THEN DOMAIN d.indexes \cup {m.index}
               ELSE IF m.kind = "DeleteIndex" THEN DOMAIN d.indexes \ {m.index}
               ELSE DOMAIN d.indexes
<1>1. m \in Replayable
  BY DEF Replayable
<1>2. CASE m.kind \in OnIndexKinds
  <2>1. m.kind # "CreateIndex" /\ m.kind # "DeleteIndex"
    BY <1>2 DEF OnIndexKinds, DocumentMutations, ConfigKinds
  <2>2. CASE Has(d.indexes, m.index)
    BY <1>2, <2>1, <2>2 DEF NextIndexes, Put, Has
  <2>3. CASE ~Has(d.indexes, m.index)
    BY <1>2, <2>1, <2>3 DEF NextIndexes
  <2>4. QED
    BY <2>2, <2>3
<1>3. CASE m.kind \notin OnIndexKinds
  BY <1>3 DEF NextIndexes, Put, Without, Restrict, Has
<1>4. QED
  BY <1>2, <1>3

\* A mutation that both apply keeps the one the mirror of the other, unless it
\* creates an index that only the first has.
LEMMA ApplyMirrors ==
    ASSUME NEW d \in Databases, NEW e \in Databases, Covered(d), Covered(e), Mirrors(d, e),
           NEW m \in Mutations, m.kind = "CreateIndex" => ~Has(d.indexes, m.index)
    PROVE  Mirrors(ApplyMutation(d, m), ApplyMutation(e, m))
<1> DEFINE I == NextIndexes(d, m)
           J == NextIndexes(e, m)
           n0 == m.index
<1>1. m \in Replayable
  BY DEF Replayable
<1>2. ApplyMutation(d, m) = ApplyParts(d, m) /\ ApplyMutation(e, m) = ApplyParts(e, m)
  BY <1>1, ApplyIsParts
<1>3. /\ NextTemplates(e, m) = NextTemplates(d, m) /\ NextRegistry(e, m) = NextRegistry(d, m)
      /\ NextAliases(e, m) = NextAliases(d, m) /\ NextSeqNo(e, m) = NextSeqNo(d, m)
  BY DEF Mirrors, NextTemplates, NextRegistry, NextAliases, NextSeqNo
<1>4. /\ DOMAIN e.indexes \subseteq DOMAIN d.indexes /\ e.seqNo = d.seqNo
      /\ \A n \in DOMAIN e.indexes : Mirrored(d.indexes[n], e.indexes[n])
  BY DEF Mirrors
<1>5. DOMAIN J \subseteq DOMAIN I
  BY <1>4, NextDomain
<1>6. ASSUME NEW n \in DOMAIN J PROVE Mirrored(I[n], J[n])
  <2>1. CASE m.kind \in OnIndexKinds
    <3>1. m.kind # "CreateIndex" /\ m.kind # "DeleteIndex"
      BY <2>1 DEF OnIndexKinds, DocumentMutations, ConfigKinds
    <3>2. n \in DOMAIN e.indexes /\ n \in DOMAIN d.indexes
      BY <1>4, <3>1, NextDomain
    <3>3. CASE n = n0
      <4>1. I = Put(d.indexes, n0, IndexAfter(d.indexes[n0], m, d.seqNo + 1))
        BY <2>1, <3>2, <3>3 DEF NextIndexes, Has
      <4>2. J = Put(e.indexes, n0, IndexAfter(e.indexes[n0], m, d.seqNo + 1))
        BY <1>4, <2>1, <3>2, <3>3 DEF NextIndexes, Has
      <4>3. /\ I[n] = IndexAfter(d.indexes[n0], m, d.seqNo + 1)
            /\ J[n] = IndexAfter(e.indexes[n0], m, d.seqNo + 1)
        BY <3>3, <4>1, <4>2 DEF Put
      <4>4. /\ d.indexes[n0] \in Indexes /\ Covers(d.indexes[n0])
            /\ e.indexes[n0] \in Indexes /\ Covers(e.indexes[n0])
            /\ Mirrored(d.indexes[n0], e.indexes[n0]) /\ d.seqNo + 1 \in Nat
        BY <1>4, <3>2, <3>3, TableOf DEF Databases, Covered
      <4>5. QED
        BY <2>1, <4>3, <4>4, MirroredAfter
    <3>4. CASE n # n0
      <4>1. I[n] = d.indexes[n]
        BY <2>1, <3>2, <3>4 DEF NextIndexes, Put
      <4>2. J[n] = e.indexes[n]
        BY <2>1, <3>2, <3>4 DEF NextIndexes, Put
      <4>3. QED
        BY <1>4, <3>2, <4>1, <4>2
    <3>5. QED
      BY <3>3, <3>4
  <2>2. CASE m.kind = "CreateIndex"
    <3>1. ~Has(d.indexes, n0) /\ ~Has(e.indexes, n0)
      BY <1>4, <2>2 DEF Has
    <3>2. /\ I = Put(d.indexes, n0, NewIndex(m.config))
          /\ J = Put(e.indexes, n0, NewIndex(m.config))
      BY <2>2, <3>1 DEF NextIndexes, OnIndexKinds, DocumentMutations, ConfigKinds
    <3>3. CASE n = n0
      <4>1. I[n] = NewIndex(m.config) /\ J[n] = NewIndex(m.config)
        BY <3>2, <3>3 DEF Put
      <4>2. NewIndex(m.config).storeSize \in Nat
        BY <1>1, <2>2, MutationFields, NewIndexEffect DEF Indexes
      <4>3. QED
        BY <4>1, <4>2 DEF Mirrored
    <3>4. CASE n # n0
      <4>1. n \in DOMAIN e.indexes /\ n \in DOMAIN d.indexes
        BY <1>4, <3>2, <3>4 DEF Put
      <4>2. I[n] = d.indexes[n] /\ J[n] = e.indexes[n]
        BY <3>2, <3>4, <4>1 DEF Put
      <4>3. QED
        BY <1>4, <4>1, <4>2
    <3>5. QED
      BY <3>3, <3>4
  <2>3. CASE m.kind = "DeleteIndex"
    <3>1. I = Without(d.indexes, n0) /\ J = Without(e.indexes, n0)
      BY <2>3 DEF NextIndexes, OnIndexKinds, DocumentMutations, ConfigKinds
    <3>2. n \in DOMAIN e.indexes /\ n \in DOMAIN d.indexes /\ n # n0
      BY <1>4, <3>1 DEF Without, Restrict
    <3>3. I[n] = d.indexes[n] /\ J[n] = e.indexes[n]
      BY <3>1, <3>2 DEF Without, Restrict
    <3>4. QED
      BY <1>4, <3>2, <3>3
  <2>4. CASE m.kind \notin OnIndexKinds \cup {"CreateIndex", "DeleteIndex"}
    <3>1. I = d.indexes /\ J = e.indexes
      BY <2>4 DEF NextIndexes
    <3>2. QED
      BY <1>4, <3>1
  <2>5. QED
    BY <2>1, <2>2, <2>3, <2>4
<1> HIDE DEF I, J
<1>7. QED
  BY <1>2, <1>3, <1>5, <1>6 DEF Mirrors, ApplyParts, I, J

LEMMA MirrorSizes ==
    ASSUME NEW d \in Databases, NEW e \in Databases, Mirrors(d, e)
    PROVE  /\ EstimateDatabase(e) <= EstimateDatabase(d)
           /\ DocumentCount(e) <= DocumentCount(d)
           /\ Cardinality(DOMAIN e.indexes) <= Cardinality(DOMAIN d.indexes)
<1>1. StoreBytes(e) <= StoreBytes(d) /\ DocumentCount(e) <= DocumentCount(d)
  BY LessIndexSums DEF Mirrors, Mirrored
<1>2. CatalogBytes(e) = CatalogBytes(d)
  BY SameCatalog DEF Mirrors
<1>3. /\ EstimateDatabase(d) = StoreBytes(d) + CatalogBytes(d)
      /\ EstimateDatabase(e) = StoreBytes(e) + CatalogBytes(e)
      /\ StoreBytes(d) \in Nat /\ CatalogBytes(d) \in Nat /\ StoreBytes(e) \in Nat
  BY DatabaseSize
<1>4. IsFiniteSet(DOMAIN d.indexes) /\ DOMAIN e.indexes \in SUBSET DOMAIN d.indexes
  BY TableOf DEF Databases, Mirrors
<1>5. Cardinality(DOMAIN e.indexes) <= Cardinality(DOMAIN d.indexes)
  BY <1>4, FS_Subset
<1>6. QED
  BY <1>1, <1>2, <1>3, <1>5

-----------------------------------------------------------------------------
(* A snapshot of the database: loading it recomputes the sizes.            *)

LEMMA SnapshotIndexes ==
    ASSUME NEW d \in Databases
    PROVE  LET e == RecomputeStoreSizes(d)
           IN  /\ e \in Databases /\ DOMAIN e.indexes = DOMAIN d.indexes
               /\ \A n \in DOMAIN d.indexes : /\ e.indexes[n] = Recompute(d.indexes[n])
                                              /\ d.indexes[n] \in Indexes
               /\ e.templates = d.templates /\ e.registry = d.registry
               /\ e.aliases = d.aliases /\ e.seqNo = d.seqNo
<1> DEFINE I == [n \in DOMAIN d.indexes |-> Recompute(d.indexes[n])]
<1>1. d.indexes \in Table(Names, Indexes)
  BY DEF Databases
<1>2. /\ IsFiniteSet(DOMAIN d.indexes) /\ DOMAIN d.indexes \subseteq Names
      /\ \A n \in DOMAIN d.indexes : d.indexes[n] \in Indexes
  BY <1>1, TableOf
<1>3. \A n \in DOMAIN d.indexes : Recompute(d.indexes[n]) \in Indexes
  BY <1>2, RecomputeEffect DEF SameButDocuments
<1>4. /\ I = [n \in DOMAIN I |-> I[n]] /\ DOMAIN I = DOMAIN d.indexes
      /\ \A n \in DOMAIN I : I[n] = Recompute(d.indexes[n])
  OBVIOUS
<1>5. RecomputeStoreSizes(d) = [d EXCEPT !.indexes = I]
  BY DEF RecomputeStoreSizes
<1> HIDE DEF I
<1>6. I \in Table(Names, Indexes)
  BY <1>2, <1>3, <1>4, TableOf
<1>7. QED
  BY <1>2, <1>4, <1>5, <1>6 DEF Databases

LEMMA SnapshotGood ==
    ASSUME NEW d, Good(d)
    PROVE  Good(RecomputeStoreSizes(d)) /\ Mirrors(d, RecomputeStoreSizes(d))
<1> DEFINE e == RecomputeStoreSizes(d)
<1>1. d \in Databases /\ Covered(d)
  BY DEF Good
<1>2. /\ e \in Databases /\ DOMAIN e.indexes = DOMAIN d.indexes
      /\ \A n \in DOMAIN d.indexes : e.indexes[n] = Recompute(d.indexes[n])
                                     /\ d.indexes[n] \in Indexes
      /\ e.templates = d.templates /\ e.registry = d.registry
      /\ e.aliases = d.aliases /\ e.seqNo = d.seqNo
  BY <1>1, SnapshotIndexes
<1> HIDE DEF e
<1>3. ASSUME NEW n \in DOMAIN d.indexes
      PROVE  Mirrored(d.indexes[n], e.indexes[n]) /\ Covers(e.indexes[n])
  <2>1. d.indexes[n] \in Indexes /\ e.indexes[n] = Recompute(d.indexes[n]) /\ Covers(d.indexes[n])
    BY <1>1, <1>2 DEF Covered
  <2>2. /\ SameButDocuments(d.indexes[n], e.indexes[n], d.indexes[n].documents,
                            d.indexes[n].tombstones, EstimateIndex(d.indexes[n]))
        /\ Covers(e.indexes[n])
    BY <2>1, RecomputeEffect
  <2>3. EstimateIndex(d.indexes[n]) \in Nat /\ d.indexes[n].storeSize \in Nat
    BY <2>1, IndexSize DEF Indexes
  <2>4. QED
    BY <2>1, <2>2, <2>3 DEF SameButDocuments, Mirrored, Covers
<1>4. Mirrors(d, e)
  BY <1>2, <1>3 DEF Mirrors
<1>5. Covered(e)
  BY <1>2, <1>3 DEF Covered
<1>6. ASSUME NEW n, NEW id, NEW k, NEW x, Placed(e, n, id, k, x)
      PROVE  Placed(d, n, id, k, x)
  BY <1>2, <1>3, <1>6 DEF Placed, Numbered, Mirrored, Has
<1>7. NumbersBounded(e)
  BY <1>2, <1>6 DEF Good, NumbersBounded
<1>8. NumbersUnique(e)
  <2> SUFFICES ASSUME NEW n1 \in Names, NEW n2 \in Names, NEW id1 \in Ids, NEW id2 \in Ids,
                      NEW k1 \in Roles, NEW k2 \in Roles, NEW x \in Nat,
                      Placed(e, n1, id1, k1, x), Placed(e, n2, id2, k2, x)
               PROVE  n1 = n2 /\ id1 = id2 /\ k1 = k2
    BY DEF NumbersUnique
  <2>1. Placed(d, n1, id1, k1, x) /\ Placed(d, n2, id2, k2, x)
    BY <1>6
  <2>2. QED
    BY <2>1 DEF Good, NumbersUnique
<1>9. QED
  BY <1>2, <1>4, <1>5, <1>7, <1>8 DEF Good, e

-----------------------------------------------------------------------------
(* What validate_mutation accepts stays within the limits.                 *)

CountsOK(d) ==
    Cardinality(DOMAIN d.indexes) <= MaxIndexes /\ DocumentCount(d) <= MaxDocuments

\* A document mutation changes the number of documents by one at most.
LEMMA DocumentCountAfter ==
    ASSUME NEW ix \in Indexes, Covers(ix), NEW m \in PutMutations \cup DeleteMutations,
           NEW s \in Nat
    PROVE  LET r == ApplyDocument(ix, m, s)
           IN  /\ Cardinality(DOMAIN r.documents) \in Nat
               /\ Cardinality(DOMAIN ix.documents) \in Nat
               /\ Cardinality(DOMAIN r.documents) <= Cardinality(DOMAIN ix.documents) + 1
               /\ Has(ix.documents, m.id) \/ m \in DeleteMutations =>
                      Cardinality(DOMAIN r.documents) <= Cardinality(DOMAIN ix.documents)
<1> DEFINE r == ApplyDocument(ix, m, s)
<1>1. ix.documents \in DocumentTables
  BY DEF Indexes
<1>2. IsFiniteSet(DOMAIN ix.documents)
  BY <1>1, TableOf DEF DocumentTables
<1>3. Cardinality(DOMAIN ix.documents) \in Nat
  BY <1>2, FS_CardinalityType
<1>4. CASE ~TakesEffect(ix, m)
  <2>1. r = ix
    BY <1>4, ApplyDocumentNothing
  <2> HIDE DEF r
  <2>2. QED
    BY <1>3, <2>1 DEF r
<1>5. CASE TakesEffect(ix, m) /\ m \in PutMutations
  <2>0. IsPutOf(ix, m, s, r)
    BY <1>5, ApplyDocumentPut
  <2>1. DOMAIN r.documents = DOMAIN ix.documents \cup {m.id}
    BY <2>0 DEF IsPutOf, SameButDocuments, Put
  <2>2. Cardinality(DOMAIN r.documents) =
            IF m.id \in DOMAIN ix.documents THEN Cardinality(DOMAIN ix.documents)
            ELSE Cardinality(DOMAIN ix.documents) + 1
    BY <1>2, <2>1, FS_AddElement
  <2>3. m \notin DeleteMutations
    BY <1>5 DEF PutMutations, DeleteMutations
  <2> HIDE DEF r
  <2>4. QED
    BY <1>3, <2>2, <2>3 DEF r, Has
<1>6. CASE TakesEffect(ix, m) /\ m \in DeleteMutations
  <2>0. IsDeleteOf(ix, m, s, r)
    BY <1>6, ApplyDocumentDelete
  <2>1. DOMAIN r.documents = DOMAIN ix.documents \ {m.id}
    BY <2>0 DEF IsDeleteOf, SameButDocuments, Without, Restrict
  <2>2. IsFiniteSet(DOMAIN r.documents)
    BY <1>2, <2>1, FS_RemoveElement
  <2>3. Cardinality(DOMAIN r.documents) <= Cardinality(DOMAIN ix.documents)
    BY <1>2, <2>1, FS_Subset
  <2>4. Cardinality(DOMAIN r.documents) \in Nat
    BY <2>2, FS_CardinalityType
  <2> HIDE DEF r
  <2>5. QED
    BY <1>3, <2>3, <2>4 DEF r
<1>7. QED
  BY <1>4, <1>5, <1>6

LEMMA Validated ==
    ASSUME NEW d, NEW m \in Mutations, ValidateMutation(d, m) = Accepted
    PROVE  /\ m.kind = "CreateIndex" =>
                  ~Has(d.indexes, m.index) /\ ~(Cardinality(DOMAIN d.indexes) >= MaxIndexes)
           /\ m.kind \in OnIndexKinds \ {"DeleteAlias"} => Has(d.indexes, m.index)
           /\ m.kind \in {"IndexDocument", "CreateDocument", "UpdateDocument"} =>
                  \/ Has(d.indexes[m.index].documents, m.id)
                  \/ ~(DocumentCount(d) >= MaxDocuments)
           /\ m.kind = "CreateDocument" => ~Has(d.indexes[m.index].documents, m.id)
           /\ m.kind = "UpdateDocument" => m.upsert \/ Has(d.indexes[m.index].documents, m.id)
           /\ m.kind = "PutAlias" => ~Has(d.indexes, m.alias)
           /\ m.kind = "DeleteAlias" => Has(d.aliases, m.alias) /\ d.aliases[m.alias] = m.index
           /\ m.kind = "DeleteIndex" => Has(d.indexes, m.index)
<1>1. m.kind \in Kinds /\ m.kind # "RenameDocument"
  <2>1. m \in Replayable
    BY DEF Replayable
  <2>2. QED
    BY <2>1, MutationKinds DEF Mutations, WriteMutations, PutMutations, DeleteMutations,
                               CreateMutations, NamedMutations, CatalogMutations
<1>2. CASE m.kind = "CreateIndex"
  BY <1>2 DEF ValidateMutation, Accepted, OnIndexKinds, DocumentMutations, ConfigKinds
<1>3. CASE m.kind \in {"DeleteIndex", "PutConfig", "DeleteDocument"}
  BY <1>3 DEF ValidateMutation, Accepted, OnIndexKinds, DocumentMutations, ConfigKinds
<1>4. CASE m.kind \in {"IndexDocument", "CreateDocument", "UpdateDocument"}
  <2>1. ValidateDocument(d, m) = Accepted
    BY <1>4 DEF ValidateMutation
  <2>2. QED
    BY <1>4, <2>1 DEF ValidateDocument, Accepted
<1>5. CASE m.kind \in {"PutAlias", "DeleteAlias"}
  <2>1. ValidateAlias(d, m) = Accepted
    BY <1>5 DEF ValidateMutation
  <2>2. QED
    BY <1>5, <2>1 DEF ValidateAlias, Accepted
<1>6. CASE m.kind \in {"PutTemplate", "DeleteTemplate", "PutRegistryObject", "DeleteRegistryObject"}
  BY <1>6 DEF OnIndexKinds, DocumentMutations, ConfigKinds
<1>7. QED
  BY <1>1, <1>2, <1>3, <1>4, <1>5, <1>6 DEF Kinds, OnIndexKinds, DocumentMutations, ConfigKinds

LEMMA ApplyCounts ==
    ASSUME NEW d \in Databases, Covered(d), CountsOK(d), NEW m \in Mutations,
           ValidateMutation(d, m) = Accepted
    PROVE  CountsOK(ApplyMutation(d, m))
<1> DEFINE e == ApplyMutation(d, m)
<1>1. m \in Replayable /\ m.kind # "RenameDocument"
  BY DEF Replayable, Mutations, WriteMutations, PutMutations, DeleteMutations, CreateMutations,
         NamedMutations, CatalogMutations
<1>2. e \in Databases /\ e.indexes = NextIndexes(d, m)
  BY <1>1, ApplyType, ApplyIsParts DEF ApplyParts
<1>3. /\ IsFiniteSet(DOMAIN d.indexes) /\ DocumentCount(d) \in Nat
      /\ Cardinality(DOMAIN d.indexes) \in Nat
  BY TableOf, CountIsSum, FS_CardinalityType DEF Databases
<1>4. /\ Cardinality(DOMAIN d.indexes) <= MaxIndexes /\ DocumentCount(d) <= MaxDocuments
      /\ MaxIndexes \in Nat /\ MaxDocuments \in Nat
  BY DatabaseAssumption DEF CountsOK
<1> HIDE DEF e
<1>5. CASE e.indexes = d.indexes
  BY <1>2, <1>4, <1>5, CountIsSum DEF CountsOK, e
<1>6. CASE /\ m.kind \in OnIndexKinds /\ Has(d.indexes, m.index)
           /\ PutAt(d.indexes, e.indexes, m.index, IndexAfter(d.indexes[m.index], m, d.seqNo + 1))
           /\ d.indexes[m.index] \in Indexes /\ Covers(d.indexes[m.index])
  <2> DEFINE n == m.index
             ix == d.indexes[n]
             s == d.seqNo + 1
             r == IndexAfter(ix, m, s)
  <2>1. s \in Nat
    BY DEF Databases
  <2>2. r \in Indexes
    BY <1>1, <1>6, <2>1, IndexAfterType
  <2>3. DOMAIN e.indexes = DOMAIN d.indexes
    BY <1>6 DEF PutAt, Has
  <2>4. ReplacedCount(d, e, n, r)
    <3> HIDE DEF r, n
    <3>1. QED
      BY <1>2, <1>6, <2>2, ReplacedIndexSums DEF r, n
  <2>5. CASE m.kind \in ConfigKinds
    <3>1. r = Reconfigure(ix, m) /\ m \in NamedMutations
      BY <1>1, <2>5, MutationFields DEF IndexAfter, DocumentMutations, ConfigKinds
    <3>2. r.documents = ix.documents
      BY <1>6, <2>5, <3>1, ReconfigureEffect DEF Reconfigured
    <3> HIDE DEF r
    <3>3. DocumentCount(e) = DocumentCount(d)
      BY <1>3, <2>4, <3>2 DEF ReplacedCount
    <3>4. QED
      BY <1>4, <2>3, <3>3 DEF CountsOK, e
  <2>6. CASE m.kind \in DocumentMutations
    <3>1. r = ApplyDocument(ix, m, s) /\ m \in PutMutations \cup DeleteMutations
      BY <1>1, <2>6, MutationFields DEF IndexAfter, DocumentMutations
    <3>2. /\ Cardinality(DOMAIN r.documents) \in Nat
          /\ Cardinality(DOMAIN ix.documents) \in Nat
          /\ Cardinality(DOMAIN r.documents) <= Cardinality(DOMAIN ix.documents) + 1
          /\ Has(ix.documents, m.id) \/ m \in DeleteMutations =>
                 Cardinality(DOMAIN r.documents) <= Cardinality(DOMAIN ix.documents)
      BY <1>6, <2>1, <3>1, DocumentCountAfter
    <3>3. Has(ix.documents, m.id) \/ m \in DeleteMutations \/ ~(DocumentCount(d) >= MaxDocuments)
      <4>1. CASE m \in PutMutations
        <5>1. m.kind \in {"IndexDocument", "CreateDocument", "UpdateDocument"}
          BY <4>1 DEF PutMutations
        <5>2. QED
          BY <5>1, Validated
      <4>2. QED
        BY <3>1, <4>1
    <3> HIDE DEF r, ix
    <3>4. DocumentCount(e) = (DocumentCount(d) - Cardinality(DOMAIN ix.documents))
                             + Cardinality(DOMAIN r.documents)
      BY <2>4 DEF ReplacedCount, ix
    <3>5. DocumentCount(e) <= MaxDocuments
      BY <1>3, <1>4, <3>2, <3>3, <3>4
    <3>6. QED
      BY <1>4, <2>3, <3>5 DEF CountsOK, e
  <2>7. QED
    BY <1>1, <1>6, <2>5, <2>6 DEF OnIndexKinds
<1>7. CASE /\ m.kind = "CreateIndex" /\ ~Has(d.indexes, m.index)
           /\ PutAt(d.indexes, e.indexes, m.index, NewIndex(m.config))
  <2> DEFINE r == NewIndex(m.config)
  <2>1. r \in Indexes /\ DOMAIN r.documents = {}
    BY <1>1, <1>7, MutationFields, NewIndexEffect
  <2>2. Cardinality(DOMAIN r.documents) = 0
    BY <2>1, FS_EmptySet
  <2>3. DocumentCount(e) = DocumentCount(d) + Cardinality(DOMAIN r.documents)
    <3> HIDE DEF r
    <3>1. QED
      BY <1>2, <1>7, <2>1, PutIndexSums DEF r
  <2>4. Cardinality(DOMAIN e.indexes) = Cardinality(DOMAIN d.indexes) + 1
    BY <1>3, <1>7, FS_AddElement DEF PutAt, Has
  <2>5. ~(Cardinality(DOMAIN d.indexes) >= MaxIndexes)
    BY <1>7, Validated
  <2> HIDE DEF r
  <2>6. QED
    BY <1>3, <1>4, <2>2, <2>3, <2>4, <2>5 DEF CountsOK, e
<1>8. CASE m.kind = "DeleteIndex" /\ TakenOut(d.indexes, e.indexes, m.index)
  <2>1. DOMAIN e.indexes \subseteq DOMAIN d.indexes
    BY <1>8 DEF TakenOut
  <2>2. \A n \in DOMAIN e.indexes : /\ e.indexes[n] = d.indexes[n] /\ e.indexes[n] \in Indexes
    BY <1>2, <1>8, TableOf DEF TakenOut, Databases
  <2>3. \A n \in DOMAIN e.indexes : /\ e.indexes[n].storeSize <= d.indexes[n].storeSize
                                    /\ e.indexes[n].documents = d.indexes[n].documents
    BY <2>2 DEF Indexes
  <2>4. DocumentCount(e) <= DocumentCount(d) /\ DocumentCount(e) \in Nat
    BY <1>2, <2>1, <2>3, LessIndexSums, CountIsSum
  <2>5. /\ Cardinality(DOMAIN e.indexes) <= Cardinality(DOMAIN d.indexes)
        /\ Cardinality(DOMAIN e.indexes) \in Nat
    BY <1>3, <2>1, FS_Subset, FS_CardinalityType
  <2>6. QED
    BY <1>3, <1>4, <2>4, <2>5 DEF CountsOK, e
<1>9. QED
  BY <1>1, <1>2, <1>5, <1>6, <1>7, <1>8, NextIndexesCases

-----------------------------------------------------------------------------
(* What a mutation of one index leaves of its documents, of the precision  *)
(* of its size and of its aliases.                                         *)

SameAt(ix, r, id) ==
    /\ Has(r.documents, id) <=> Has(ix.documents, id)
    /\ Has(ix.documents, id) => r.documents[id] = ix.documents[id]
    /\ Has(r.tombstones, id) <=> Has(ix.tombstones, id)
    /\ Has(ix.tombstones, id) => r.tombstones[id] = ix.tombstones[id]

\* What an index holds at an id, if anything, has a number from s on.
NewAt(r, id, s) ==
    /\ Has(r.documents, id) => r.documents[id].seqNo >= s
    /\ Has(r.tombstones, id) => r.tombstones[id] >= s

UsedAt(r, id) == Has(r.documents, id) \/ Has(r.tombstones, id)

\* r is ix after document writes with numbers from s on: each id is as it was, or
\* shows that it was written.
Traces(ix, r, s) ==
    \A id \in Ids : SameAt(ix, r, id) \/ (NewAt(r, id, s) /\ UsedAt(r, id))

LEMMA TracesSame ==
    ASSUME NEW ix, NEW r, NEW s, r.documents = ix.documents, r.tombstones = ix.tombstones
    PROVE  Traces(ix, r, s)
BY DEF Traces, SameAt

ExactIndex(ix) == Slack(ix) = 0 /\ DOMAIN ix.documents \cap DOMAIN ix.tombstones = {}

LEMMA PutKeeps ==
    ASSUME NEW ix \in Indexes, Covers(ix), NEW m \in PutMutations, NEW s \in Nat, NEW r,
           IsPutOf(ix, m, s, r)
    PROVE  Traces(ix, r, s) /\ (ExactIndex(ix) => ExactIndex(r)) /\ r.aliases = ix.aliases
<1> DEFINE doc == Stored(NewSource(ix, m), NextVersion(ix, m.id), s)
<1>1. ix.documents \in DocumentTables /\ ix.tombstones \in TombstoneTables
  BY DEF Indexes
<1>2. doc \in StoredDocuments /\ doc.seqNo = s /\ m.id \in Ids
  BY NewSourceType DEF Stored, StoredDocuments
<1>3. /\ r.documents = Put(ix.documents, m.id, doc) /\ r.tombstones = Without(ix.tombstones, m.id)
      /\ r.aliases = ix.aliases
  BY DEF IsPutOf, SameButDocuments
<1> HIDE DEF doc
<1>4. PutAt(ix.documents, r.documents, m.id, doc)
  BY <1>1, <1>2, <1>3, TablePut DEF DocumentTables
<1>5. TakenOut(ix.tombstones, r.tombstones, m.id)
  BY <1>1, <1>3, TableWithout DEF TombstoneTables
<1>6. Traces(ix, r, s)
  <2>1. ASSUME NEW id \in Ids, id # m.id PROVE SameAt(ix, r, id)
    BY <1>4, <1>5, <2>1 DEF SameAt, PutAt, TakenOut, Has
  <2>2. Has(r.documents, m.id) /\ r.documents[m.id].seqNo = s /\ ~Has(r.tombstones, m.id)
    BY <1>2, <1>4, <1>5 DEF PutAt, TakenOut, Has
  <2>3. NewAt(r, m.id, s) /\ UsedAt(r, m.id)
    BY <2>2 DEF NewAt, UsedAt
  <2>4. QED
    BY <2>1, <2>3 DEF Traces
<1>7. ASSUME ExactIndex(ix) PROVE ExactIndex(r)
  <2>1. Slack(r) = 0
    BY <1>7, PutSlack DEF ExactIndex
  <2>2. DOMAIN r.documents \cap DOMAIN r.tombstones = {}
    BY <1>4, <1>5, <1>7 DEF ExactIndex, PutAt, TakenOut
  <2>3. QED
    BY <2>1, <2>2 DEF ExactIndex
<1>8. QED
  BY <1>3, <1>6, <1>7

LEMMA DeleteKeeps ==
    ASSUME NEW ix \in Indexes, Covers(ix), NEW m \in DeleteMutations, NEW s \in Nat, NEW r,
           IsDeleteOf(ix, m, s, r), Has(ix.documents, m.id)
    PROVE  Traces(ix, r, s) /\ (ExactIndex(ix) => ExactIndex(r)) /\ r.aliases = ix.aliases
<1>1. ix.documents \in DocumentTables /\ ix.tombstones \in TombstoneTables /\ m.id \in Ids
  BY DEF Indexes, DeleteMutations
<1>2. /\ r.documents = Without(ix.documents, m.id) /\ r.tombstones = Put(ix.tombstones, m.id, s)
      /\ r.aliases = ix.aliases
  BY DEF IsDeleteOf, SameButDocuments
<1>3. TakenOut(ix.documents, r.documents, m.id)
  BY <1>1, <1>2, TableWithout DEF DocumentTables
<1>4. PutAt(ix.tombstones, r.tombstones, m.id, s)
  BY <1>1, <1>2, TablePut DEF TombstoneTables
<1>5. Traces(ix, r, s)
  <2>1. ASSUME NEW id \in Ids, id # m.id PROVE SameAt(ix, r, id)
    BY <1>3, <1>4, <2>1 DEF SameAt, PutAt, TakenOut, Has
  <2>2. Has(r.tombstones, m.id) /\ r.tombstones[m.id] = s /\ ~Has(r.documents, m.id)
    BY <1>3, <1>4 DEF PutAt, TakenOut, Has
  <2>3. NewAt(r, m.id, s) /\ UsedAt(r, m.id)
    BY <2>2 DEF NewAt, UsedAt
  <2>4. QED
    BY <2>1, <2>3 DEF Traces
<1>6. ASSUME ExactIndex(ix) PROVE ExactIndex(r)
  <2>1. ~Has(ix.tombstones, m.id)
    BY <1>6 DEF ExactIndex, Has
  <2>2. Slack(r) = 0
    BY <1>6, <2>1, DeleteSlack DEF ExactIndex
  <2>3. DOMAIN r.documents \cap DOMAIN r.tombstones = {}
    BY <1>3, <1>4, <1>6 DEF ExactIndex, PutAt, TakenOut
  <2>4. QED
    BY <2>2, <2>3 DEF ExactIndex
<1>7. QED
  BY <1>2, <1>5, <1>6

LEMMA IndexAfterKeeps ==
    ASSUME NEW ix \in Indexes, Covers(ix), NEW m \in Mutations, m.kind \in OnIndexKinds,
           NEW s \in Nat
    PROVE  LET r == IndexAfter(ix, m, s)
           IN  /\ Traces(ix, r, s)
               /\ ExactIndex(ix) => ExactIndex(r)
               /\ r.aliases = IF m.kind \in ConfigKinds THEN NewAliases(ix, m) ELSE ix.aliases
<1> DEFINE r == IndexAfter(ix, m, s)
<1>1. m \in Replayable /\ m.kind # "RenameDocument"
  BY DEF Replayable, Mutations, WriteMutations, PutMutations, DeleteMutations, CreateMutations,
         NamedMutations, CatalogMutations
<1>2. CASE m.kind \in DocumentMutations
  <2>1. r = ApplyDocument(ix, m, s) /\ m \in PutMutations \cup DeleteMutations
    BY <1>1, <1>2, MutationFields DEF IndexAfter, DocumentMutations
  <2>2. m.kind \notin ConfigKinds
    BY <1>2 DEF DocumentMutations, ConfigKinds
  <2> HIDE DEF r
  <2>3. CASE ~TakesEffect(ix, m)
    <3>1. r = ix
      BY <2>1, <2>3, ApplyDocumentNothing
    <3>2. Traces(ix, ix, s)
      BY TracesSame
    <3>3. QED
      BY <1>2, <2>2, <3>1, <3>2 DEF r
  <2>4. CASE TakesEffect(ix, m) /\ m \in PutMutations
    <3>1. IsPutOf(ix, m, s, r)
      BY <2>1, <2>4, ApplyDocumentPut
    <3>2. Traces(ix, r, s) /\ (ExactIndex(ix) => ExactIndex(r)) /\ r.aliases = ix.aliases
      BY <2>4, <3>1, PutKeeps
    <3>3. QED
      BY <1>2, <2>2, <3>2 DEF r
  <2>5. CASE TakesEffect(ix, m) /\ m \in DeleteMutations
    <3>1. IsDeleteOf(ix, m, s, r)
      BY <2>1, <2>5, ApplyDocumentDelete
    <3>2. Has(ix.documents, m.id)
      BY <2>5 DEF TakesEffect, DeleteMutations
    <3>3. Traces(ix, r, s) /\ (ExactIndex(ix) => ExactIndex(r)) /\ r.aliases = ix.aliases
      BY <2>5, <3>1, <3>2, DeleteKeeps
    <3>4. QED
      BY <1>2, <2>2, <3>3 DEF r
  <2>6. QED
    BY <2>1, <2>3, <2>4, <2>5
<1>3. CASE m.kind \in ConfigKinds
  <2>1. r = Reconfigure(ix, m) /\ m \in NamedMutations /\ m.kind \notin DocumentMutations
    BY <1>1, <1>3, MutationFields DEF IndexAfter, DocumentMutations, ConfigKinds
  <2>2. Reconfigured(ix, r) /\ r.aliases = NewAliases(ix, m)
    BY <1>3, <2>1, ReconfigureEffect
  <2> HIDE DEF r
  <2>3. /\ r.documents = ix.documents /\ r.tombstones = ix.tombstones
        /\ r.storeSize = EstimateIndex(r) /\ r \in Indexes
    BY <2>2 DEF Reconfigured
  <2>4. Slack(r) = 0
    BY <2>3, IndexSize DEF Slack
  <2>5. (ExactIndex(ix) => ExactIndex(r)) /\ Traces(ix, r, s)
    BY <2>3, <2>4, TracesSame DEF ExactIndex
  <2>6. QED
    BY <1>3, <2>1, <2>2, <2>5 DEF r
<1>4. QED
  BY <1>1, <1>2, <1>3 DEF OnIndexKinds

-----------------------------------------------------------------------------
(* What document writes leave behind: a database that comes from an        *)
(* earlier one shows, by its sequence numbers, where it was written.       *)

\* An index that was made anew holds nothing older.
MadeSince(r, s) == \A id \in Ids : NewAt(r, id, s)

Traced(d0, d) ==
    /\ d0.seqNo <= d.seqNo
    /\ \A n \in DOMAIN d.indexes :
           \/ MadeSince(d.indexes[n], d0.seqNo + 1)
           \/ /\ Has(d0.indexes, n)
              /\ Traces(d0.indexes[n], d.indexes[n], d0.seqNo + 1)

LEMMA TracedSelf ==
    ASSUME NEW d \in Databases
    PROVE  Traced(d, d)
BY TracesSame DEF Traced, Has, Databases

\* The parts of a database after a mutation.
LEMMA ApplyCases ==
    ASSUME NEW d \in Databases, Covered(d), NEW m \in Mutations
    PROVE  LET e == ApplyMutation(d, m)
           IN  /\ m \in Replayable /\ m.kind # "RenameDocument"
               /\ e \in Databases /\ Covered(e)
               /\ e.indexes = NextIndexes(d, m) /\ e.aliases = NextAliases(d, m)
               /\ e.seqNo = NextSeqNo(d, m)
<1>1. m \in Replayable /\ m.kind # "RenameDocument"
  BY DEF Replayable, Mutations, WriteMutations, PutMutations, DeleteMutations, CreateMutations,
         NamedMutations, CatalogMutations
<1>2. QED
  BY <1>1, ApplyType, ApplyIsParts DEF ApplyParts

LEMMA NewLater ==
    ASSUME NEW r \in Indexes, NEW id \in Ids, NEW s \in Nat, NEW t \in Nat, s <= t,
           NewAt(r, id, t)
    PROVE  NewAt(r, id, s)
<1>1. Has(r.documents, id) => r.documents[id].seqNo \in Nat
  <2>1. r.documents \in DocumentTables
    BY DEF Indexes
  <2>2. Has(r.documents, id) => r.documents[id] \in StoredDocuments
    BY <2>1, TableOf DEF DocumentTables, Has
  <2>3. QED
    BY <2>2 DEF StoredDocuments
<1>2. Has(r.tombstones, id) => r.tombstones[id] \in Nat
  BY TableOf DEF Indexes, TombstoneTables, Has
<1>3. QED
  BY <1>1, <1>2 DEF NewAt

LEMMA TracesNext ==
    ASSUME NEW ix, NEW r, NEW q \in Indexes, NEW s \in Nat, NEW t \in Nat, s <= t,
           Traces(r, q, t)
    PROVE  /\ MadeSince(r, s) => MadeSince(q, s)
           /\ Traces(ix, r, s) => Traces(ix, q, s)
<1>1. ASSUME NEW id \in Ids
      PROVE  \/ NewAt(q, id, s) /\ UsedAt(q, id)
             \/ SameAt(r, q, id)
  BY NewLater DEF Traces
<1>2. ASSUME NEW id, SameAt(r, q, id)
      PROVE  /\ NewAt(r, id, s) => NewAt(q, id, s)
             /\ UsedAt(r, id) => UsedAt(q, id)
             /\ SameAt(ix, r, id) => SameAt(ix, q, id)
  BY <1>2 DEF SameAt, NewAt, UsedAt
<1>3. QED
  BY <1>1, <1>2 DEF MadeSince, Traces

\* Every mutation but a rename leaves a trace.
LEMMA ApplyTraced ==
    ASSUME NEW d0 \in Databases, NEW d \in Databases, Covered(d), Traced(d0, d),
           NEW m \in Mutations
    PROVE  Traced(d0, ApplyMutation(d, m))
<1> DEFINE e == ApplyMutation(d, m)
           s == d0.seqNo + 1
           t == d.seqNo + 1
           From(n, r) == MadeSince(r, s) \/ (Has(d0.indexes, n) /\ Traces(d0.indexes[n], r, s))
<1>1. /\ m \in Replayable /\ m.kind # "RenameDocument"
      /\ e \in Databases /\ e.indexes = NextIndexes(d, m) /\ e.seqNo = NextSeqNo(d, m)
  BY ApplyCases
<1>2. /\ d0.seqNo \in Nat /\ d.seqNo \in Nat /\ e.seqNo \in Nat
      /\ d.seqNo <= e.seqNo /\ d0.seqNo <= d.seqNo
  BY <1>1 DEF Databases, NextSeqNo, Traced
<1>3. s \in Nat /\ t \in Nat /\ s <= t /\ d0.seqNo <= e.seqNo
  BY <1>2
<1>4. \A n \in DOMAIN d.indexes : From(n, d.indexes[n])
  BY DEF Traced
<1> HIDE DEF e, s, t
<1>5. ASSUME NEW n \in DOMAIN e.indexes
      PROVE  From(n, e.indexes[n])
  <2>1. CASE e.indexes = d.indexes
    BY <1>4, <2>1
  <2>2. CASE /\ m.kind \in OnIndexKinds /\ Has(d.indexes, m.index)
             /\ PutAt(d.indexes, e.indexes, m.index, IndexAfter(d.indexes[m.index], m, t))
             /\ d.indexes[m.index] \in Indexes /\ Covers(d.indexes[m.index])
    <3> DEFINE ix == d.indexes[m.index]
               r == IndexAfter(ix, m, t)
    <3>1. CASE n # m.index
      BY <1>4, <2>2, <3>1 DEF PutAt, Has
    <3>2. CASE n = m.index
      <4>1. e.indexes[n] = r /\ n \in DOMAIN d.indexes
        BY <2>2, <3>2 DEF PutAt, Has
      <4>2. Traces(ix, r, t) /\ r \in Indexes
        BY <1>1, <1>3, <2>2, IndexAfterKeeps, IndexAfterType
      <4>3. From(n, ix)
        BY <1>4, <3>2, <4>1
      <4> HIDE DEF ix, r
      <4>4. From(n, r)
        BY <1>3, <4>2, <4>3, TracesNext
      <4>5. QED
        BY <4>1, <4>4
    <3>3. QED
      BY <3>1, <3>2
  <2>3. CASE /\ m.kind = "CreateIndex" /\ ~Has(d.indexes, m.index)
             /\ PutAt(d.indexes, e.indexes, m.index, NewIndex(m.config))
    <3>1. DOMAIN NewIndex(m.config).documents = {} /\ DOMAIN NewIndex(m.config).tombstones = {}
      BY <1>1, <2>3, MutationFields, NewIndexEffect
    <3>2. MadeSince(NewIndex(m.config), s)
      BY <3>1 DEF MadeSince, NewAt, Has
    <3>3. QED
      BY <1>4, <2>3, <3>2 DEF PutAt
  <2>4. CASE m.kind = "DeleteIndex" /\ TakenOut(d.indexes, e.indexes, m.index)
    BY <1>4, <2>4 DEF TakenOut
  <2>5. QED
    BY <1>1, <2>1, <2>2, <2>3, <2>4, NextIndexesCases DEF t
<1>6. QED
  BY <1>3, <1>5 DEF Traced, e, s

-----------------------------------------------------------------------------
(* Every alias is one that its index lists.                                *)

Linked(d) ==
    \A a \in DOMAIN d.aliases :
        Has(d.indexes, d.aliases[a]) /\ a \in d.indexes[d.aliases[a]].aliases

\* The aliases that an index lists after a mutation.
LEMMA AliasesAfter ==
    ASSUME NEW d \in Databases, Covered(d), NEW m \in Mutations, NEW e, e = ApplyMutation(d, m),
           NEW n, Has(d.indexes, n), m.kind = "DeleteIndex" => n # m.index
    PROVE  /\ Has(e.indexes, n)
           /\ \A a \in d.indexes[n].aliases :
                  ~(m.kind = "DeleteAlias" /\ a = m.alias) => a \in e.indexes[n].aliases
           /\ m.kind = "PutAlias" /\ n = m.index => m.alias \in e.indexes[n].aliases
<1>1. /\ m \in Replayable /\ m.kind # "RenameDocument" /\ e.indexes = NextIndexes(d, m)
  BY ApplyCases
<1>2. m.kind = "PutAlias" => m.kind \in OnIndexKinds
  BY DEF OnIndexKinds, ConfigKinds
<1>3. CASE m.kind \in OnIndexKinds /\ Has(d.indexes, m.index) /\ n = m.index
  <2> DEFINE ix == d.indexes[m.index]
             s == d.seqNo + 1
             r == IndexAfter(ix, m, s)
  <2>1. s \in Nat /\ ix \in Indexes /\ Covers(ix)
    BY <1>3, TableOf DEF Databases, Covered, Has
  <2>2. e.indexes = Put(d.indexes, m.index, r)
    BY <1>1, <1>3 DEF NextIndexes
  <2>3. r.aliases = IF m.kind \in ConfigKinds THEN NewAliases(ix, m) ELSE ix.aliases
    BY <1>3, <2>1, IndexAfterKeeps
  <2> HIDE DEF r
  <2>4. e.indexes[n] = r /\ Has(e.indexes, n)
    BY <1>3, <2>2 DEF Put, Has
  <2>5. QED
    BY <1>3, <2>3, <2>4 DEF NewAliases, ConfigKinds
<1>4. CASE ~(m.kind \in OnIndexKinds /\ Has(d.indexes, m.index) /\ n = m.index)
  <2>1. Has(e.indexes, n) /\ e.indexes[n] = d.indexes[n]
    <3>1. CASE e.indexes = d.indexes
      BY <3>1
    <3>2. CASE m.kind \in OnIndexKinds /\ Has(d.indexes, m.index)
               /\ PutAt(d.indexes, e.indexes, m.index, IndexAfter(d.indexes[m.index], m, d.seqNo + 1))
      BY <1>4, <3>2 DEF PutAt, Has
    <3>3. CASE /\ m.kind = "CreateIndex" /\ ~Has(d.indexes, m.index)
               /\ PutAt(d.indexes, e.indexes, m.index, NewIndex(m.config))
      BY <3>3 DEF PutAt, Has
    <3>4. CASE m.kind = "DeleteIndex" /\ TakenOut(d.indexes, e.indexes, m.index)
      BY <3>4 DEF TakenOut, Has
    <3>5. QED
      BY <1>1, <3>1, <3>2, <3>3, <3>4, NextIndexesCases
  <2>2. ~(m.kind = "PutAlias" /\ n = m.index)
    BY <1>2, <1>4
  <2>3. QED
    BY <2>1, <2>2
<1>5. QED
  BY <1>3, <1>4

\* Validation keeps aliases linked: the index of a new alias exists, and an
\* alias goes with the index it leads to.
LEMMA ApplyLinked ==
    ASSUME NEW d \in Databases, Covered(d), Linked(d), NEW m \in Mutations,
           ValidateMutation(d, m) = Accepted
    PROVE  Linked(ApplyMutation(d, m))
<1> DEFINE e == ApplyMutation(d, m)
<1>1. e.aliases = NextAliases(d, m) /\ m \in Replayable
  BY ApplyCases
<1>2. /\ m.kind = "PutAlias" => Has(d.indexes, m.index) /\ m.alias \in Names /\ m.index \in Names
      /\ m.kind = "DeleteAlias" => Has(d.aliases, m.alias) /\ d.aliases[m.alias] = m.index
  BY <1>1, Validated, MutationFields DEF OnIndexKinds, ConfigKinds
<1>3. d.aliases \in Table(Names, Names)
  BY DEF Databases
<1> HIDE DEF e
<1>4. SUFFICES ASSUME NEW a \in DOMAIN e.aliases
               PROVE  Has(e.indexes, e.aliases[a]) /\ a \in e.indexes[e.aliases[a]].aliases
  BY DEF Linked, e
<1>5. CASE m.kind = "PutAlias" /\ a = m.alias
  <2>1. PutAt(d.aliases, e.aliases, m.alias, m.index)
    BY <1>1, <1>2, <1>3, <1>5, TablePut DEF NextAliases
  <2>2. e.aliases[a] = m.index
    BY <1>5, <2>1 DEF PutAt
  <2>3. QED
    BY <1>2, <1>5, <2>2, AliasesAfter DEF e
<1>6. CASE ~(m.kind = "PutAlias" /\ a = m.alias)
  <2>1. a \in DOMAIN d.aliases /\ e.aliases[a] = d.aliases[a]
    <3>1. CASE m.kind = "PutAlias"
      <4>1. PutAt(d.aliases, e.aliases, m.alias, m.index)
        BY <1>1, <1>2, <1>3, <3>1, TablePut DEF NextAliases
      <4>2. QED
        BY <1>6, <3>1, <4>1 DEF PutAt
    <3>2. CASE m.kind = "DeleteIndex"
      BY <1>1, <3>2 DEF NextAliases, Restrict
    <3>3. CASE m.kind = "DeleteAlias"
      BY <1>1, <3>3 DEF NextAliases, Without, Restrict
    <3>4. QED
      BY <1>1, <3>1, <3>2, <3>3 DEF NextAliases
  <2>2. m.kind = "DeleteIndex" => d.aliases[a] # m.index
    BY <1>1, <2>1 DEF NextAliases, Restrict
  <2>3. ~(m.kind = "DeleteAlias" /\ a = m.alias)
    BY <1>1 DEF NextAliases, Without, Restrict
  <2>4. Has(d.indexes, d.aliases[a]) /\ a \in d.indexes[d.aliases[a]].aliases
    BY <2>1 DEF Linked
  <2>5. QED
    BY <2>1, <2>2, <2>3, <2>4, AliasesAfter DEF e
<1>7. QED
  BY <1>5, <1>6

LEMMA RenameLinked ==
    ASSUME NEW d \in Databases, Covered(d), Linked(d), NEW m \in Renames
    PROVE  Linked(ApplyMutation(d, m))
<1> DEFINE e == ApplyMutation(d, m)
<1>1. e.aliases = d.aliases /\ (e = d \/ Moved(d, e, m))
  BY RenameCases
<1> HIDE DEF e
<1>2. ASSUME NEW n, Has(d.indexes, n)
      PROVE  Has(e.indexes, n) /\ e.indexes[n].aliases = d.indexes[n].aliases
  BY <1>1, <1>2 DEF Moved, MovedTo, PutAt, Has
<1>3. QED
  BY <1>1, <1>2 DEF Linked, e

LEMMA MirrorLinked ==
    ASSUME NEW d, NEW e, Mirrors(d, e), DOMAIN e.indexes = DOMAIN d.indexes, Linked(d)
    PROVE  Linked(e)
BY DEF Linked, Mirrors, Mirrored, Has

-----------------------------------------------------------------------------
(* Where no document is moved, the size of every index is exact.           *)

Exact(d) == \A n \in DOMAIN d.indexes : ExactIndex(d.indexes[n])

LEMMA ApplyExact ==
    ASSUME NEW d \in Databases, Covered(d), Exact(d), NEW m \in Mutations
    PROVE  Exact(ApplyMutation(d, m))
<1> DEFINE e == ApplyMutation(d, m)
<1>1. /\ m \in Replayable /\ m.kind # "RenameDocument" /\ e.indexes = NextIndexes(d, m)
  BY ApplyCases
<1> HIDE DEF e
<1>2. SUFFICES ASSUME NEW n \in DOMAIN e.indexes
               PROVE  ExactIndex(e.indexes[n])
  BY DEF Exact, e
<1>3. CASE e.indexes = d.indexes
  BY <1>3 DEF Exact
<1>4. CASE /\ m.kind \in OnIndexKinds /\ Has(d.indexes, m.index)
           /\ PutAt(d.indexes, e.indexes, m.index, IndexAfter(d.indexes[m.index], m, d.seqNo + 1))
           /\ d.indexes[m.index] \in Indexes /\ Covers(d.indexes[m.index])
  <2> DEFINE ix == d.indexes[m.index]
             s == d.seqNo + 1
             r == IndexAfter(ix, m, s)
  <2>1. s \in Nat
    BY DEF Databases
  <2>2. CASE n # m.index
    BY <1>4, <2>2 DEF PutAt, Exact
  <2>3. CASE n = m.index
    <3>1. e.indexes[n] = r
      BY <1>4, <2>3 DEF PutAt
    <3>2. ExactIndex(ix) => ExactIndex(r)
      BY <1>4, <2>1, IndexAfterKeeps
    <3>3. ExactIndex(ix)
      BY <1>4 DEF Exact, Has
    <3>4. QED
      BY <3>1, <3>2, <3>3
  <2>4. QED
    BY <2>2, <2>3
<1>5. CASE /\ m.kind = "CreateIndex" /\ ~Has(d.indexes, m.index)
           /\ PutAt(d.indexes, e.indexes, m.index, NewIndex(m.config))
  <2>1. /\ DOMAIN NewIndex(m.config).documents = {} /\ Slack(NewIndex(m.config)) = 0
    BY <1>1, <1>5, MutationFields, NewIndexEffect
  <2>2. ExactIndex(NewIndex(m.config))
    BY <2>1 DEF ExactIndex
  <2>3. QED
    BY <1>5, <2>2 DEF PutAt, Exact
<1>6. CASE m.kind = "DeleteIndex" /\ TakenOut(d.indexes, e.indexes, m.index)
  BY <1>6 DEF TakenOut, Exact
<1>7. QED
  BY <1>1, <1>3, <1>4, <1>5, <1>6, NextIndexesCases

LEMMA SnapshotExact ==
    ASSUME NEW d \in Databases, Exact(d)
    PROVE  Exact(RecomputeStoreSizes(d))
<1> DEFINE e == RecomputeStoreSizes(d)
<1>1. /\ DOMAIN e.indexes = DOMAIN d.indexes
      /\ \A n \in DOMAIN d.indexes : /\ e.indexes[n] = Recompute(d.indexes[n])
                                     /\ d.indexes[n] \in Indexes
  BY SnapshotIndexes
<1> HIDE DEF e
<1>2. ASSUME NEW n \in DOMAIN e.indexes
      PROVE  ExactIndex(e.indexes[n])
  <2>1. e.indexes[n] = Recompute(d.indexes[n]) /\ d.indexes[n] \in Indexes /\ ExactIndex(d.indexes[n])
    BY <1>1, <1>2 DEF Exact
  <2>2. /\ Slack(e.indexes[n]) = 0
        /\ SameButDocuments(d.indexes[n], e.indexes[n], d.indexes[n].documents,
                            d.indexes[n].tombstones, EstimateIndex(d.indexes[n]))
    BY <2>1, RecomputeEffect
  <2>3. QED
    BY <2>1, <2>2 DEF ExactIndex, SameButDocuments
<1>3. QED
  BY <1>2 DEF Exact, e

-----------------------------------------------------------------------------
(* What every step keeps: d is the database in memory, e the one that the  *)
(* log describes, d0 the database in memory before the step.  In the       *)
(* strict form no index is in memory only; without encoded ids the sizes   *)
(* are exact.                                                              *)

KeptStrictly(strict, d, e) == strict => DOMAIN e.indexes = DOMAIN d.indexes /\ Linked(d)
KeptExactly(d, e) == DOMAIN Legacy = {} => Exact(d) /\ Exact(e)
Kept(strict, d0, d, e) ==
    /\ Good(d) /\ Good(e) /\ Mirrors(d, e) /\ CountsOK(d)
    /\ FitsMemory(EstimateDatabase(d)) /\ Traced(d0, d)
    /\ KeptStrictly(strict, d, e) /\ KeptExactly(d, e)

\* A mutation that is validated and fits, applied to both.
LEMMA KeptByMutation ==
    ASSUME NEW strict, NEW d0 \in Databases, NEW d, NEW e, Kept(strict, d0, d, e),
           NEW m \in Mutations, ValidateMutation(d, m) = Accepted,
           FitsMemory(EstimateDatabase(ApplyMutation(d, m)))
    PROVE  Kept(strict, d0, ApplyMutation(d, m), ApplyMutation(e, m))
<1> DEFINE d1 == ApplyMutation(d, m)
           e1 == ApplyMutation(e, m)
<1>1. /\ Good(d) /\ Good(e) /\ Mirrors(d, e) /\ CountsOK(d) /\ Traced(d0, d)
      /\ KeptStrictly(strict, d, e) /\ KeptExactly(d, e)
  BY DEF Kept
<1>2. d \in Databases /\ Covered(d) /\ e \in Databases /\ Covered(e)
  BY <1>1 DEF Good
<1>3. Good(d1) /\ Good(e1)
  BY <1>1, ApplyGood
<1>4. m.kind = "CreateIndex" => ~Has(d.indexes, m.index)
  BY Validated
<1>5. Mirrors(d1, e1)
  BY <1>1, <1>2, <1>4, ApplyMirrors
<1>6. CountsOK(d1)
  BY <1>1, <1>2, ApplyCounts
<1>7. Traced(d0, d1)
  BY <1>1, <1>2, ApplyTraced
<1>8. KeptStrictly(strict, d1, e1)
  <2>1. SUFFICES ASSUME strict
                 PROVE  DOMAIN e1.indexes = DOMAIN d1.indexes /\ Linked(d1)
    BY DEF KeptStrictly
  <2>2. DOMAIN e.indexes = DOMAIN d.indexes /\ Linked(d)
    BY <1>1, <2>1 DEF KeptStrictly
  <2>3. d1.indexes = NextIndexes(d, m) /\ e1.indexes = NextIndexes(e, m)
    BY <1>2, ApplyCases
  <2>4. DOMAIN e1.indexes = DOMAIN d1.indexes
    BY <1>2, <2>2, <2>3, NextDomain
  <2>5. Linked(d1)
    BY <1>2, <2>2, ApplyLinked
  <2>6. QED
    BY <2>4, <2>5
<1>9. KeptExactly(d1, e1)
  BY <1>1, <1>2, ApplyExact DEF KeptExactly
<1> HIDE DEF d1, e1
<1>10. QED
  BY <1>3, <1>5, <1>6, <1>7, <1>8, <1>9 DEF Kept, d1, e1

\* An index created in memory only.
LEMMA KeptByPhantom ==
    ASSUME NEW d0 \in Databases, NEW d, NEW e, Kept(FALSE, d0, d, e),
           NEW m \in CreateMutations, ValidateMutation(d, m) = Accepted,
           FitsMemory(EstimateDatabase(ApplyMutation(d, m)))
    PROVE  Kept(FALSE, d0, ApplyMutation(d, m), e)
<1> DEFINE d1 == ApplyMutation(d, m)
<1>1. /\ Good(d) /\ Good(e) /\ Mirrors(d, e) /\ CountsOK(d) /\ Traced(d0, d)
      /\ KeptExactly(d, e)
  BY DEF Kept
<1>2. d \in Databases /\ Covered(d) /\ e \in Databases /\ Covered(e)
  BY <1>1 DEF Good
<1>3. m \in Mutations /\ m.kind = "CreateIndex" /\ m \in Replayable
  BY DEF Mutations, WriteMutations, CreateMutations, Replayable
<1>4. Good(d1) /\ CountsOK(d1) /\ Traced(d0, d1)
  BY <1>1, <1>2, <1>3, ApplyGood, ApplyCounts, ApplyTraced
<1>5. ~Has(d.indexes, m.index)
  BY <1>3, Validated
<1>6. d1 = ApplyParts(d, m)
  BY <1>2, <1>3, ApplyIsParts
<1>7. /\ d1.indexes = Put(d.indexes, m.index, NewIndex(m.config))
      /\ d1.templates = d.templates /\ d1.registry = d.registry /\ d1.aliases = d.aliases
      /\ d1.seqNo = d.seqNo
  BY <1>3, <1>5, <1>6 DEF ApplyParts, NextIndexes, NextTemplates, NextRegistry, NextAliases,
                          NextSeqNo, OnIndexKinds, ConfigKinds, DocumentMutations
<1> HIDE DEF d1
<1>8. Mirrors(d1, e)
  BY <1>1, <1>5, <1>7 DEF Mirrors, Put, Has
<1>9. KeptExactly(d1, e)
  BY <1>1, <1>2, <1>3, ApplyExact DEF KeptExactly, d1
<1>10. QED
  BY <1>1, <1>4, <1>8, <1>9 DEF Kept, KeptStrictly, d1

LEMMA KeptBySnapshot ==
    ASSUME NEW strict, NEW d0 \in Databases, NEW d, NEW e, Kept(strict, d0, d, e)
    PROVE  Kept(strict, d0, d, RecomputeStoreSizes(d))
<1> DEFINE f == RecomputeStoreSizes(d)
<1>1. d \in Databases
  BY DEF Kept, Good
<1>2. Good(f) /\ Mirrors(d, f)
  BY SnapshotGood DEF Kept
<1>3. DOMAIN f.indexes = DOMAIN d.indexes
  BY <1>1, SnapshotIndexes
<1>4. KeptExactly(d, f)
  BY <1>1, SnapshotExact DEF Kept, KeptExactly
<1> HIDE DEF f
<1>5. QED
  BY <1>2, <1>3, <1>4 DEF Kept, KeptStrictly, f

LEMMA MirrorSelf ==
    ASSUME NEW d \in Databases
    PROVE  Mirrors(d, d)
<1>1. ASSUME NEW n \in DOMAIN d.indexes
      PROVE  Mirrored(d.indexes[n], d.indexes[n])
  <2>1. d.indexes[n] \in Indexes
    BY TableOf DEF Databases
  <2>2. d.indexes[n].storeSize \in Nat
    BY <2>1 DEF Indexes
  <2>3. d.indexes[n].storeSize <= d.indexes[n].storeSize
    BY <2>2
  <2>4. QED
    BY <2>3 DEF Mirrored
<1>2. QED
  BY <1>1 DEF Mirrors

\* The database that the log describes, opened.  (A restart ends every request.)
LEMMA KeptByLoad ==
    ASSUME NEW strict, NEW d0 \in Databases, NEW d, NEW e, Kept(strict, d0, d, e)
    PROVE  Kept(strict, e, e, e)
<1>1. /\ Good(d) /\ Good(e) /\ Mirrors(d, e) /\ CountsOK(d)
      /\ KeptStrictly(strict, d, e) /\ KeptExactly(d, e) /\ FitsMemory(EstimateDatabase(d))
  BY DEF Kept
<1>2. d \in Databases /\ e \in Databases
  BY <1>1 DEF Good
<1>3. /\ EstimateDatabase(e) <= EstimateDatabase(d) /\ EstimateDatabase(e) \in Nat
      /\ EstimateDatabase(d) \in Nat
      /\ DocumentCount(e) <= DocumentCount(d) /\ DocumentCount(e) \in Nat
      /\ DocumentCount(d) \in Nat
      /\ Cardinality(DOMAIN e.indexes) <= Cardinality(DOMAIN d.indexes)
  BY <1>1, <1>2, MirrorSizes, DatabaseSize, CountIsSum
<1>4. Cardinality(DOMAIN e.indexes) \in Nat /\ Cardinality(DOMAIN d.indexes) \in Nat
  BY <1>2, TableOf, FS_CardinalityType DEF Databases
<1>5. MaxIndexes \in Nat /\ MaxDocuments \in Nat /\ MemoryLimit \in Nat
  BY DatabaseAssumption
<1>6. CountsOK(e) /\ FitsMemory(EstimateDatabase(e))
  BY <1>1, <1>3, <1>4, <1>5 DEF CountsOK, FitsMemory
<1>7. Traced(e, e)
  BY <1>2, TracedSelf
<1>8. Mirrors(e, e)
  BY <1>2, MirrorSelf
<1>9. KeptStrictly(strict, e, e)
  BY <1>1, MirrorLinked DEF KeptStrictly
<1>10. QED
  BY <1>1, <1>6, <1>7, <1>8, <1>9 DEF Kept, KeptExactly

\* A repair.
LEMMA KeptByRename ==
    ASSUME NEW strict, NEW d0 \in Databases, NEW d, Kept(strict, d0, d, d), NEW m \in Renames
    PROVE  LET e == ApplyMutation(d, m) IN Kept(strict, e, e, e)
<1> DEFINE e == ApplyMutation(d, m)
<1>1. /\ Good(d) /\ CountsOK(d)
      /\ KeptStrictly(strict, d, d) /\ FitsMemory(EstimateDatabase(d))
  BY DEF Kept
<1>2. d \in Databases /\ Covered(d)
  BY <1>1 DEF Good
<1>3. Good(e)
  BY <1>1, <1>2, RenameGood
<1>4. e \in Databases /\ Traced(e, e)
  BY <1>3, TracedSelf DEF Good
<1>5. /\ EstimateDatabase(e) <= EstimateDatabase(d) /\ DocumentCount(e) = DocumentCount(d)
      /\ DOMAIN e.indexes = DOMAIN d.indexes
  BY <1>2, RenameSizes
<1>6. Linked(d) => Linked(e)
  BY <1>2, RenameLinked
<1> HIDE DEF e
<1>7. EstimateDatabase(e) \in Nat /\ EstimateDatabase(d) \in Nat /\ MemoryLimit \in Nat
  BY <1>2, <1>4, DatabaseSize, DatabaseAssumption
<1>8. CountsOK(e) /\ FitsMemory(EstimateDatabase(e))
  BY <1>1, <1>5, <1>7 DEF CountsOK, FitsMemory
<1>9. Mirrors(e, e)
  BY <1>4, MirrorSelf
<1>10. KeptStrictly(strict, e, e)
  BY <1>1, <1>6 DEF KeptStrictly
<1>11. DOMAIN Legacy # {}
  BY DEF Renames
<1>12. QED
  BY <1>3, <1>4, <1>8, <1>9, <1>10, <1>11 DEF Kept, KeptExactly, e

\* The next step starts where this one ends.
LEMMA KeptAgain ==
    ASSUME NEW strict, NEW d0, NEW d, NEW e, Kept(strict, d0, d, e)
    PROVE  Kept(strict, d, d, e)
BY TracedSelf DEF Kept, Good

LEMMA KeptWeaker ==
    ASSUME NEW strict, NEW d0, NEW d, NEW e, Kept(strict, d0, d, e)
    PROVE  Kept(FALSE, d0, d, e)
BY DEF Kept, KeptStrictly

LEMMA KeptInitially ==
    ASSUME NEW strict
    PROVE  Kept(strict, EmptyDatabase, EmptyDatabase, EmptyDatabase)
<1> DEFINE d == EmptyDatabase
<1>1. d \in Databases
  BY EmptyDatabaseType
<1>2. DOMAIN d.indexes = {} /\ DOMAIN d.aliases = {} /\ d.seqNo = 0
  BY DEF EmptyDatabase, Empty
<1> HIDE DEF d
<1>3. Good(d)
  BY <1>1, <1>2 DEF Good, Covered, NumbersBounded, NumbersUnique, Placed, Has
<1>4. Mirrors(d, d)
  BY <1>2 DEF Mirrors
<1>5. Traced(d, d)
  BY <1>1, TracedSelf
<1>6. DocumentCount(d) = 0 /\ Cardinality(DOMAIN d.indexes) = 0
  <2>1. DocumentCounts(d.indexes) = [n \in {} |-> Cardinality(DOMAIN d.indexes[n].documents)]
    BY <1>2 DEF DocumentCounts
  <2>2. DOMAIN DocumentCounts(d.indexes) = {} /\ DocumentCount(d) = SumOf(DocumentCounts(d.indexes))
    BY <1>1, <1>2, CountIsSum
  <2>3. QED
    BY <1>2, <2>2, SumOfEmpty, FS_EmptySet
<1>7. CountsOK(d)
  BY <1>6, DatabaseAssumption DEF CountsOK
<1>8. FitsMemory(EstimateDatabase(d))
  BY LimitAssumption DEF d
<1>9. Linked(d) /\ Exact(d)
  BY <1>2 DEF Linked, Exact
<1>10. QED
  BY <1>3, <1>4, <1>5, <1>7, <1>8, <1>9 DEF Kept, KeptStrictly, KeptExactly, d

=============================================================================
