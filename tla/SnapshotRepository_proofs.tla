----------------------- MODULE SnapshotRepository_proofs -----------------------
(***************************************************************************)
(* Proofs about SnapshotRepository, for every set of repositories,         *)
(* snapshots and contents, any number of generations and every combination *)
(* of faults.                                                              *)
(***************************************************************************)
EXTENDS SnapshotRepository, TLAPS

Publishing == op.step \in {"blob", "mkdir", "generation", "latest"}

\* The catalog that is about to be published says what clients were told, apart
\* from the snapshots the operation is about, of which nothing was said.
CatalogAgrees ==
    \A s \in Snapshots :
        /\ s \in op.touched => expected[op.repo][s] = Unknown
        /\ s \notin op.touched =>
              /\ expected[op.repo][s] \in Contents =>
                    s \in DOMAIN op.catalog /\ op.catalog[s] = expected[op.repo][s]
              /\ expected[op.repo][s] = Absent => s \notin DOMAIN op.catalog

\* The blob of a new snapshot is written before the generation that names it.
BlobFirst ==
    IF op.step = "blob"
    THEN \E s \in DOMAIN op.catalog : op.touched = {s}
    ELSE \A s \in op.touched \cap DOMAIN op.catalog : op.catalog[s] \in blobs[op.repo]

\* The next generation is in its file before the pointer moves to it.
GenerationFirst ==
    op.step = "latest" =>
        /\ latest[op.repo] + 1 \in DOMAIN gens[op.repo]
        /\ gens[op.repo][latest[op.repo] + 1] = op.catalog

PublishAgrees ==
    Publishing =>
        /\ latest[op.repo] < MaxGeneration[op.repo]
        /\ CatalogAgrees
        /\ BlobFirst
        /\ GenerationFirst

\* cleanup_repository keeps the blobs of the snapshots clients know of.
CleanupAgrees ==
    op.step = "cleanup" => \A s \in Snapshots :
        expected[op.repo][s] \in Contents => expected[op.repo][s] \in op.referenced

\* While repositories are removed nothing is promised of them, and those that
\* are done have no pointer.
RemoveAgrees ==
    op.step = "remove" =>
        /\ op.repo \in op.names /\ op.left \subseteq op.names
        /\ \A r \in op.names, s \in Snapshots : expected[r][s] = Unknown
        /\ \A r \in op.names \ (op.left \cup {op.repo}) : Missing(r)

\* The inductive invariant.
RepositoryInv ==
    /\ TypeOK
    /\ AnswersHold
    /\ SnapshotsComplete
    /\ PublishAgrees
    /\ CleanupAgrees
    /\ RemoveAgrees

-----------------------------------------------------------------------------
(***************************************************************************)
(* Types.                                                                  *)
(***************************************************************************)

\* The part of TypeOK about the files.
FilesOK ==
    /\ dirs \subseteq Repositories
    /\ DOMAIN latest = Repositories /\ DOMAIN gens = Repositories
    /\ \A r \in Repositories :
           /\ latest[r] \in Generations(r) \cup {NoGeneration}
           /\ DOMAIN gens[r] \subseteq Generations(r)
           /\ \A g \in DOMAIN gens[r] : gens[r][g] \in Catalogs
    /\ blobs \in [Repositories -> SUBSET Contents]

ExpectedOK == expected \in [Repositories -> [Snapshots -> Contents \cup {Absent, Unknown}]]

\* What an operation knows by the step it is at.
LEMMA OperationShape ==
    ASSUME op \in Operations
    PROVE  /\ Publishing => /\ op \in [step : {"blob", "mkdir", "generation", "latest"},
                                       repo : Repositories, catalog : Catalogs,
                                       touched : SUBSET Snapshots]
                            /\ op.repo \in Repositories /\ op.catalog \in Catalogs
                            /\ op.touched \subseteq Snapshots
           /\ op.step = "cleanup" => /\ op \in [step : {"cleanup"}, repo : Repositories,
                                                referenced : SUBSET Contents]
                                     /\ op.repo \in Repositories
                                     /\ op.referenced \subseteq Contents
           /\ op.step = "remove" => /\ op \in [step : {"remove"}, repo : Repositories,
                                               left : SUBSET Repositories,
                                               names : SUBSET Repositories]
                                    /\ op.repo \in Repositories
                                    /\ op.left \subseteq Repositories
                                    /\ op.names \subseteq Repositories
BY DEF Operations, Publishing, Idle

\* Putting a snapshot into a catalog and taking some out gives a catalog.
LEMMA PutCatalog ==
    ASSUME NEW c \in Catalogs, NEW s \in Snapshots, NEW content \in Contents
    PROVE  /\ Put(c, s, content) \in Catalogs
           /\ DOMAIN Put(c, s, content) = DOMAIN c \cup {s}
           /\ Put(c, s, content)[s] = content
           /\ \A t \in DOMAIN c : t # s => Put(c, s, content)[t] = c[t]
<1>1. PICK S \in SUBSET Snapshots : c \in [S -> Contents]
  BY DEF Catalogs
<1>2. Put(c, s, content) \in [S \cup {s} -> Contents]
  BY <1>1 DEF Put
<1>3. S \cup {s} \in SUBSET Snapshots
  OBVIOUS
<1>4. Put(c, s, content) \in Catalogs
  BY <1>2, <1>3, Zenon DEF Catalogs
<1>5. QED
  BY <1>4 DEF Put

LEMMA WithoutCatalog ==
    ASSUME NEW c \in Catalogs, NEW names
    PROVE  /\ Without(c, names) \in Catalogs
           /\ DOMAIN Without(c, names) = DOMAIN c \ names
           /\ \A t \in DOMAIN c \ names : Without(c, names)[t] = c[t]
<1>1. PICK S \in SUBSET Snapshots : c \in [S -> Contents]
  BY DEF Catalogs
<1>2. Without(c, names) \in [S \ names -> Contents]
  BY <1>1 DEF Without, Restrict
<1>3. S \ names \in SUBSET Snapshots
  OBVIOUS
<1>4. Without(c, names) \in Catalogs
  BY <1>2, <1>3, Zenon DEF Catalogs
<1>5. QED
  BY <1>4 DEF Without, Restrict

\* The catalog of an empty repository.
LEMMA EmptyCatalogType == EmptyCatalog \in Catalogs /\ DOMAIN EmptyCatalog = {}
<1>1. EmptyCatalog \in [{} -> Contents]
  BY DEF EmptyCatalog
<1>2. {} \in SUBSET Snapshots
  OBVIOUS
<1>3. EmptyCatalog \in Catalogs
  BY <1>1, <1>2, Zenon DEF Catalogs
<1>4. QED
  BY <1>3 DEF EmptyCatalog

\* The snapshots of a catalog are named snapshots with contents.
LEMMA CatalogType ==
    ASSUME NEW c \in Catalogs
    PROVE  DOMAIN c \subseteq Snapshots /\ \A s \in DOMAIN c : c[s] \in Contents
BY DEF Catalogs

\* The type invariant by its parts.
LEMMA TypeParts == TypeOK <=> FilesOK /\ op \in Operations /\ ExpectedOK
BY DEF TypeOK, FilesOK, ExpectedOK

\* The operation a request starts, and the one that is over.
LEMMA PublishType ==
    ASSUME NEW step \in {"blob", "mkdir", "generation", "latest"}, NEW r \in Repositories,
           NEW c \in Catalogs, NEW touched \in SUBSET Snapshots
    PROVE  Publish(step, r, c, touched) \in Operations
BY DEF Publish, Operations

LEMMA IdleKeeps ==
    ASSUME op' = Idle
    PROVE  op' \in Operations /\ PublishAgrees' /\ CleanupAgrees' /\ RemoveAgrees'
BY DEF Idle, Operations, PublishAgrees, Publishing, CleanupAgrees, RemoveAgrees

-----------------------------------------------------------------------------
(***************************************************************************)
(* The effect of one file operation.  Each of these facts serves both the  *)
(* step that goes on and the one that reports an error although the file   *)
(* was changed.                                                            *)
(***************************************************************************)

Promises == FilesOK /\ AnswersHold /\ SnapshotsComplete

LEMMA BlobWrittenKeeps ==
    ASSUME RepositoryInv, BlobWritten, UNCHANGED expected
    PROVE  Promises'
<1> USE DEF RepositoryInv
<1>1. op.step = "blob" /\ Publishing
  BY DEF BlobWritten, Publishing
<1>2. op.repo \in Repositories /\ op.catalog \in Catalogs
  BY <1>1, OperationShape, TypeParts
<1>3. PICK s \in op.touched : blobs' = [blobs EXCEPT ![op.repo] = @ \cup {op.catalog[s]}]
  BY DEF BlobWritten
<1>4. op.catalog[s] \in Contents
  BY <1>1, <1>2, <1>3, CatalogType DEF PublishAgrees, BlobFirst
<1>5. FilesOK'
  BY <1>2, <1>3, <1>4, TypeParts DEF FilesOK, BlobWritten
<1>6. AnswersHold'
  BY DEF AnswersHold, GetSnapshots, Readable, Missing, Catalog, BlobWritten
<1>7. SnapshotsComplete'
  BY <1>2, <1>3, TypeParts DEF SnapshotsComplete, FilesOK
<1>8. QED
  BY <1>5, <1>6, <1>7 DEF Promises

LEMMA DirectoryMadeKeeps ==
    ASSUME RepositoryInv, DirectoryMade, UNCHANGED expected
    PROVE  Promises'
<1> USE DEF RepositoryInv
<1>1. op.repo \in Repositories
  BY OperationShape, TypeParts DEF DirectoryMade, Publishing
<1>2. FilesOK'
  BY <1>1, TypeParts DEF FilesOK, DirectoryMade
<1>3. AnswersHold' /\ SnapshotsComplete'
  BY DEF AnswersHold, SnapshotsComplete, GetSnapshots, Readable, Missing, Catalog, DirectoryMade
<1>4. QED
  BY <1>2, <1>3 DEF Promises

\* The generation written is not the one index.latest names.
LEMMA GenerationWrittenKeeps ==
    ASSUME RepositoryInv, GenerationWritten, UNCHANGED expected
    PROVE  Promises'
<1> USE DEF RepositoryInv
<1>1. op.step = "generation" /\ Publishing
  BY DEF GenerationWritten, Publishing
<1>2. op.repo \in Repositories /\ op.catalog \in Catalogs
  BY <1>1, OperationShape, TypeParts
<1> DEFINE next == latest[op.repo] + 1
<1>3. latest[op.repo] \in Nat /\ next \in Generations(op.repo)
  BY <1>1, <1>2, TypeParts, RepositoryAssumption
     DEF FilesOK, PublishAgrees, Generations, NoGeneration
<1>4. gens' = [gens EXCEPT ![op.repo] = Put(@, next, op.catalog)]
  BY DEF GenerationWritten
<1>5. /\ gens'[op.repo] = Put(gens[op.repo], next, op.catalog)
      /\ \A r \in Repositories \ {op.repo} : gens'[r] = gens[r]
      /\ DOMAIN gens' = Repositories
  BY <1>2, <1>4, TypeParts DEF FilesOK
<1>6. /\ DOMAIN gens'[op.repo] = DOMAIN gens[op.repo] \cup {next}
      /\ gens'[op.repo][next] = op.catalog
      /\ \A g \in DOMAIN gens[op.repo] : g # next => gens'[op.repo][g] = gens[op.repo][g]
  BY <1>5 DEF Put
<1>7. FilesOK'
  <2>1. ASSUME NEW r \in Repositories
        PROVE  /\ DOMAIN gens'[r] \subseteq Generations(r)
               /\ \A g \in DOMAIN gens'[r] : gens'[r][g] \in Catalogs
    BY <1>2, <1>3, <1>5, <1>6, TypeParts DEF FilesOK
  <2>2. QED
    BY <1>5, <2>1, TypeParts DEF FilesOK, GenerationWritten
<1>8. ASSUME NEW r \in Repositories
      PROVE  /\ Readable(r)' <=> Readable(r)
             /\ Readable(r) => Catalog(r)' = Catalog(r)
  <2>1. latest' = latest
    BY DEF GenerationWritten
  <2>2. CASE r = op.repo
    BY <1>3, <1>6, <2>1, <2>2 DEF Readable, Missing, Catalog
  <2>3. CASE r # op.repo
    BY <1>5, <2>1, <2>3 DEF Readable, Missing, Catalog
  <2>4. QED
    BY <2>2, <2>3
<1>9. AnswersHold'
  BY <1>8 DEF AnswersHold, GetSnapshots
<1>10. SnapshotsComplete'
  BY DEF SnapshotsComplete, GenerationWritten
<1>11. QED
  BY <1>7, <1>9, <1>10 DEF Promises

\* What the pointer moves to: the catalog of the operation.
LEMMA PointerMoves ==
    ASSUME RepositoryInv, PointerWritten
    PROVE  /\ FilesOK'
           /\ op.repo \in Repositories /\ op.catalog \in Catalogs /\ op.touched \subseteq Snapshots
           /\ \A r \in Repositories : r = op.repo => Readable(r)' /\ Catalog(r)' = op.catalog
           /\ \A r \in Repositories \ {op.repo} :
                 /\ Readable(r)' <=> Readable(r)
                 /\ Catalog(r)' = Catalog(r)
<1> USE DEF RepositoryInv
<1>1. op.step = "latest" /\ Publishing
  BY DEF PointerWritten, Publishing
<1>2. op.repo \in Repositories /\ op.catalog \in Catalogs /\ op.touched \subseteq Snapshots
  BY <1>1, OperationShape, TypeParts
<1>3. latest[op.repo] \in Nat /\ latest[op.repo] + 1 \in Generations(op.repo)
  BY <1>1, <1>2, TypeParts, RepositoryAssumption
     DEF FilesOK, PublishAgrees, Generations, NoGeneration
<1>4. /\ latest'[op.repo] = latest[op.repo] + 1
      /\ \A r \in Repositories \ {op.repo} : latest'[r] = latest[r]
      /\ DOMAIN latest' = Repositories
      /\ gens' = gens /\ dirs' = dirs /\ blobs' = blobs
  BY <1>2, TypeParts DEF FilesOK, PointerWritten
<1>5. FilesOK'
  <2>1. \A r \in Repositories : latest'[r] \in Generations(r) \cup {NoGeneration}
    BY <1>3, <1>4, TypeParts DEF FilesOK
  <2>2. QED
    BY <1>4, <2>1, TypeParts DEF FilesOK
<1>6. \A r \in Repositories : r = op.repo => Readable(r)' /\ Catalog(r)' = op.catalog
  BY <1>1, <1>3, <1>4 DEF PublishAgrees, GenerationFirst, Readable, Missing, Catalog, NoGeneration
<1>7. \A r \in Repositories \ {op.repo} :
         /\ Readable(r)' <=> Readable(r)
         /\ Catalog(r)' = Catalog(r)
  BY <1>4 DEF Readable, Missing, Catalog
<1>8. QED
  BY <1>2, <1>5, <1>6, <1>7

LEMMA PointerWrittenKeeps ==
    ASSUME RepositoryInv, PointerWritten, UNCHANGED expected
    PROVE  Promises'
<1> USE DEF RepositoryInv
<1>1. Publishing /\ blobs' = blobs
  BY DEF PointerWritten, Publishing
<1>2. CatalogAgrees
  BY <1>1 DEF PublishAgrees
<1>3. ASSUME NEW r \in Repositories, NEW s \in Snapshots
      PROVE  /\ expected[r][s] \in Contents =>
                    s \in GetSnapshots(r)' /\ Catalog(r)'[s] = expected[r][s]
             /\ expected[r][s] = Absent => s \notin GetSnapshots(r)'
  <2>1. CASE r = op.repo
    BY <1>2, <2>1, PointerMoves, ContentsAssumption
       DEF CatalogAgrees, GetSnapshots, Absent, Unknown
  <2>2. CASE r # op.repo
    BY <2>2, PointerMoves DEF AnswersHold, GetSnapshots
  <2>3. QED
    BY <2>1, <2>2
<1>4. AnswersHold'
  BY <1>3 DEF AnswersHold
<1>5. SnapshotsComplete'
  BY <1>1 DEF SnapshotsComplete
<1>6. QED
  BY <1>4, <1>5, PointerMoves DEF Promises

LEMMA UnreferencedBlobRemovedKeeps ==
    ASSUME RepositoryInv, UnreferencedBlobRemoved, UNCHANGED expected
    PROVE  Promises'
<1> USE DEF RepositoryInv
<1>1. op.repo \in Repositories /\ op.step = "cleanup"
  BY OperationShape, TypeParts DEF UnreferencedBlobRemoved
<1>2. PICK content \in blobs[op.repo] \ op.referenced :
          blobs' = [blobs EXCEPT ![op.repo] = @ \ {content}]
  BY DEF UnreferencedBlobRemoved
<1>3. FilesOK'
  BY <1>1, <1>2, TypeParts DEF FilesOK, UnreferencedBlobRemoved
<1>4. AnswersHold'
  BY DEF AnswersHold, GetSnapshots, Readable, Missing, Catalog, UnreferencedBlobRemoved
<1>5. SnapshotsComplete'
  BY <1>1, <1>2, TypeParts DEF SnapshotsComplete, CleanupAgrees, FilesOK
<1>6. QED
  BY <1>3, <1>4, <1>5 DEF Promises

\* A repository that is being removed: nothing is promised of it.
LEMMA RemovalShape ==
    ASSUME RepositoryInv, op.step = "remove"
    PROVE  /\ op.repo \in Repositories /\ op.repo \in op.names
           /\ \A s \in Snapshots : /\ expected[op.repo][s] \notin Contents
                                   /\ expected[op.repo][s] # Absent
BY OperationShape, TypeParts, ContentsAssumption DEF RepositoryInv, RemoveAgrees, Absent, Unknown

LEMMA FileRemovedKeeps ==
    ASSUME RepositoryInv, FileRemoved, UNCHANGED expected
    PROVE  /\ Promises'
           /\ \A r \in Repositories : Missing(r) => Missing(r)'
<1> USE DEF RepositoryInv
<1>1. op.step = "remove"
  BY DEF FileRemoved
<1>2. op.repo \in Repositories
  BY <1>1, RemovalShape
<1>3. /\ FilesOK'
      /\ \A r \in Repositories : latest'[r] = latest[r] \/ latest'[r] = NoGeneration
      /\ \A r \in Repositories \ {op.repo} :
            latest'[r] = latest[r] /\ gens'[r] = gens[r] /\ blobs'[r] = blobs[r]
  <2>1. ASSUME NEW content \in blobs[op.repo],
               blobs' = [blobs EXCEPT ![op.repo] = @ \ {content}], UNCHANGED <<latest, gens>>
        PROVE  <1>3!:
    BY <1>2, <2>1, TypeParts DEF FilesOK, FileRemoved
  <2>2. ASSUME NEW g \in DOMAIN gens[op.repo],
               gens' = [gens EXCEPT ![op.repo] = Without(@, {g})], UNCHANGED <<latest, blobs>>
        PROVE  <1>3!:
    <3>1. /\ gens'[op.repo] = Without(gens[op.repo], {g})
          /\ \A r \in Repositories \ {op.repo} : gens'[r] = gens[r]
          /\ DOMAIN gens' = Repositories
      BY <1>2, <2>2, TypeParts DEF FilesOK
    <3>2. /\ DOMAIN gens'[op.repo] \subseteq DOMAIN gens[op.repo]
          /\ \A h \in DOMAIN gens'[op.repo] : gens'[op.repo][h] = gens[op.repo][h]
      BY <3>1 DEF Without, Restrict
    <3>3. ASSUME NEW r \in Repositories
          PROVE  /\ DOMAIN gens'[r] \subseteq Generations(r)
                 /\ \A h \in DOMAIN gens'[r] : gens'[r][h] \in Catalogs
      BY <1>2, <3>1, <3>2, TypeParts DEF FilesOK
    <3>4. FilesOK /\ dirs' = dirs /\ latest' = latest /\ blobs' = blobs
      BY <2>2, TypeParts DEF FileRemoved
    <3>5. FilesOK'
      BY <3>1, <3>3, <3>4 DEF FilesOK
    <3>6. QED
      BY <2>2, <3>1, <3>5
  <2>3. ASSUME latest' = [latest EXCEPT ![op.repo] = NoGeneration], UNCHANGED <<gens, blobs>>
        PROVE  <1>3!:
    BY <1>2, <2>3, TypeParts DEF FilesOK, FileRemoved
  <2>4. QED
    BY <2>1, <2>2, <2>3 DEF FileRemoved
<1>4. AnswersHold'
  <2>1. ASSUME NEW r \in Repositories, NEW s \in Snapshots
        PROVE  /\ expected[r][s] \in Contents =>
                      s \in GetSnapshots(r)' /\ Catalog(r)'[s] = expected[r][s]
               /\ expected[r][s] = Absent => s \notin GetSnapshots(r)'
    <3>1. CASE r = op.repo
      BY <1>1, <3>1, RemovalShape
    <3>2. CASE r # op.repo
      BY <1>3, <3>2 DEF AnswersHold, GetSnapshots, Readable, Missing, Catalog
    <3>3. QED
      BY <3>1, <3>2
  <2>2. QED
    BY <2>1 DEF AnswersHold
<1>5. SnapshotsComplete'
  BY <1>1, <1>3, RemovalShape DEF SnapshotsComplete
<1>6. QED
  BY <1>3, <1>4, <1>5 DEF Promises, Missing

LEMMA DirectoryRemovedKeeps ==
    ASSUME RepositoryInv, DirectoryRemoved, UNCHANGED expected
    PROVE  Promises'
<1>1. FilesOK'
  BY TypeParts DEF RepositoryInv, FilesOK, DirectoryRemoved
<1>2. AnswersHold' /\ SnapshotsComplete'
  BY DEF RepositoryInv, AnswersHold, SnapshotsComplete, GetSnapshots, Readable, Missing, Catalog,
         DirectoryRemoved
<1>3. QED
  BY <1>1, <1>2 DEF Promises

LEMMA FilesKept ==
    ASSUME RepositoryInv, UNCHANGED files, UNCHANGED expected
    PROVE  Promises'
<1>1. FilesOK'
  BY TypeParts DEF RepositoryInv, FilesOK, files
<1>2. AnswersHold' /\ SnapshotsComplete'
  BY DEF RepositoryInv, AnswersHold, SnapshotsComplete, GetSnapshots, Readable, Missing, Catalog,
         files
<1>3. QED
  BY <1>1, <1>2 DEF Promises

-----------------------------------------------------------------------------
(***************************************************************************)
(* The operations start.                                                   *)
(***************************************************************************)

\* What the lock holder knows of a catalog it has just read.
LEMMA CatalogRead ==
    ASSUME RepositoryInv, NEW r \in Repositories, Readable(r)
    PROVE  /\ Catalog(r) \in Catalogs
           /\ \A s \in Snapshots :
                 /\ expected[r][s] \in Contents =>
                       s \in DOMAIN Catalog(r) /\ Catalog(r)[s] = expected[r][s]
                 /\ expected[r][s] = Absent => s \notin DOMAIN Catalog(r)
<1>1. Catalog(r) \in Catalogs
  BY TypeParts DEF RepositoryInv, FilesOK, Readable, Catalog
<1>2. QED
  BY <1>1 DEF RepositoryInv, AnswersHold, GetSnapshots

\* Forgetting what was said of some snapshots breaks no promise.
LEMMA ForgetKeeps ==
    ASSUME RepositoryInv, NEW rs, NEW touched, Forget(rs, touched), UNCHANGED files
    PROVE  /\ Promises' /\ ExpectedOK'
           /\ \A r \in Repositories, s \in Snapshots :
                 expected'[r][s] = IF r \in rs /\ s \in touched THEN Unknown ELSE expected[r][s]
<1> USE DEF RepositoryInv
<1>1. \A r \in Repositories, s \in Snapshots :
         expected'[r][s] = IF r \in rs /\ s \in touched THEN Unknown ELSE expected[r][s]
  BY DEF Forget
<1>2. ExpectedOK'
  BY TypeParts DEF Forget, ExpectedOK
<1>3. FilesOK'
  BY TypeParts DEF FilesOK, files
<1>4. AnswersHold'
  BY <1>1, ContentsAssumption
     DEF AnswersHold, GetSnapshots, Readable, Missing, Catalog, files, Absent, Unknown
<1>5. SnapshotsComplete'
  BY <1>1, ContentsAssumption DEF SnapshotsComplete, files
<1>6. QED
  BY <1>1, <1>2, <1>3, <1>4, <1>5 DEF Promises

\* An operation that is not about to publish, clean up or remove.
LEMMA OtherSteps ==
    /\ Publishing' => CleanupAgrees' /\ RemoveAgrees'
    /\ op'.step = "cleanup" => PublishAgrees' /\ RemoveAgrees'
    /\ op'.step = "remove" => PublishAgrees' /\ CleanupAgrees'
BY DEF Publishing, PublishAgrees, CleanupAgrees, RemoveAgrees

LEMMA PutRepositoryStep ==
    ASSUME RepositoryInv, NEW r \in Repositories, PutRepository(r)
    PROVE  RepositoryInv'
<1> DEFINE c == IF Missing(r) THEN EmptyCatalog ELSE Catalog(r)
<1>1. /\ op' = Publish("mkdir", r, c, {}) /\ latest[r] < MaxGeneration[r]
      /\ UNCHANGED files /\ UNCHANGED expected
  BY DEF PutRepository
<1>2. c \in Catalogs
  BY CatalogRead, EmptyCatalogType DEF PutRepository
<1>3. \A s \in Snapshots :
         /\ expected[r][s] \in Contents => s \in DOMAIN c /\ c[s] = expected[r][s]
         /\ expected[r][s] = Absent => s \notin DOMAIN c
  <2>1. CASE Missing(r)
    BY <2>1, EmptyCatalogType DEF RepositoryInv, AnswersHold, GetSnapshots, Readable
  <2>2. CASE ~Missing(r)
    BY <2>2, CatalogRead DEF PutRepository
  <2>3. QED
    BY <2>1, <2>2
<1> HIDE DEF c
<1>4. /\ op'.step = "mkdir" /\ op'.repo = r /\ op'.catalog = c /\ op'.touched = {}
      /\ op' \in Operations
  BY <1>1, <1>2, PublishType DEF Publish
<1>5. PublishAgrees'
  BY <1>1, <1>3, <1>4 DEF PublishAgrees, CatalogAgrees, BlobFirst, GenerationFirst, files
<1>6. Promises' /\ ExpectedOK'
  BY <1>1, FilesKept, TypeParts DEF RepositoryInv, ExpectedOK
<1>7. Publishing'
  BY <1>4 DEF Publishing
<1>8. QED
  BY <1>4, <1>5, <1>6, <1>7, OtherSteps, TypeParts DEF RepositoryInv, Promises, TypeOK, FilesOK, ExpectedOK

LEMMA CreateSnapshotStep ==
    ASSUME RepositoryInv, NEW r \in Repositories, NEW s \in Snapshots, NEW content \in Contents,
           CreateSnapshot(r, s, content)
    PROVE  RepositoryInv'
<1> DEFINE c == Put(Catalog(r), s, content)
<1>1. /\ op' = Publish("blob", r, c, {s}) /\ latest[r] < MaxGeneration[r]
      /\ Readable(r) /\ Forget({r}, {s}) /\ UNCHANGED files
  BY DEF CreateSnapshot
<1>2. /\ c \in Catalogs /\ DOMAIN c = DOMAIN Catalog(r) \cup {s}
      /\ \A t \in DOMAIN Catalog(r) : t # s => c[t] = Catalog(r)[t]
  <2>1. Catalog(r) \in Catalogs
    BY <1>1, CatalogRead
  <2>2. QED
    BY <2>1, PutCatalog
<1> HIDE DEF c
<1>3. /\ op'.step = "blob" /\ op'.repo = r /\ op'.catalog = c /\ op'.touched = {s}
      /\ op' \in Operations
  BY <1>1, <1>2, PublishType DEF Publish
<1>4. /\ Promises' /\ ExpectedOK'
      /\ \A t \in Snapshots : expected'[r][t] = IF t = s THEN Unknown ELSE expected[r][t]
  BY <1>1, ForgetKeeps
<1>5. CatalogAgrees'
  <2>1. ASSUME NEW t \in Snapshots, t # s
        PROVE  /\ expected[r][t] \in Contents => t \in DOMAIN c /\ c[t] = expected[r][t]
               /\ expected[r][t] = Absent => t \notin DOMAIN c
    BY <1>1, <1>2, <2>1, CatalogRead
  <2>2. QED
    BY <1>3, <1>4, <2>1 DEF CatalogAgrees
<1>6. PublishAgrees'
  BY <1>1, <1>2, <1>3, <1>5 DEF PublishAgrees, BlobFirst, GenerationFirst, files
<1>7. Publishing'
  BY <1>3 DEF Publishing
<1>8. QED
  BY <1>3, <1>4, <1>6, <1>7, OtherSteps DEF RepositoryInv, Promises, TypeOK, FilesOK, ExpectedOK

LEMMA DeleteSnapshotStep ==
    ASSUME RepositoryInv, NEW r \in Repositories, NEW names \in SUBSET Snapshots,
           DeleteSnapshot(r, names)
    PROVE  RepositoryInv'
<1> DEFINE c == Without(Catalog(r), names)
<1>1. /\ op' = Publish("mkdir", r, c, names) /\ latest[r] < MaxGeneration[r]
      /\ Readable(r) /\ Forget({r}, names) /\ UNCHANGED files
  BY DEF DeleteSnapshot
<1>2. /\ c \in Catalogs /\ DOMAIN c = DOMAIN Catalog(r) \ names
      /\ \A t \in DOMAIN Catalog(r) \ names : c[t] = Catalog(r)[t]
  BY <1>1, CatalogRead, WithoutCatalog
<1> HIDE DEF c
<1>3. /\ op'.step = "mkdir" /\ op'.repo = r /\ op'.catalog = c /\ op'.touched = names
      /\ op' \in Operations
  BY <1>1, <1>2, PublishType DEF Publish
<1>4. /\ Promises' /\ ExpectedOK'
      /\ \A t \in Snapshots : expected'[r][t] = IF t \in names THEN Unknown ELSE expected[r][t]
  BY <1>1, ForgetKeeps
<1>5. CatalogAgrees'
  BY <1>1, <1>2, <1>3, <1>4, CatalogRead DEF CatalogAgrees
<1>6. PublishAgrees'
  BY <1>1, <1>2, <1>3, <1>5 DEF PublishAgrees, BlobFirst, GenerationFirst, files
<1>7. Publishing'
  BY <1>3 DEF Publishing
<1>8. QED
  BY <1>3, <1>4, <1>6, <1>7, OtherSteps DEF RepositoryInv, Promises, TypeOK, FilesOK, ExpectedOK

LEMMA CleanupRepositoryStep ==
    ASSUME RepositoryInv, NEW r \in Repositories, CleanupRepository(r)
    PROVE  RepositoryInv'
<1>1. /\ op' = [step |-> "cleanup", repo |-> r, referenced |-> Range(Catalog(r))]
      /\ Readable(r) /\ UNCHANGED files /\ UNCHANGED expected
  BY DEF CleanupRepository
<1>2. Range(Catalog(r)) \subseteq Contents
  BY <1>1, CatalogRead, CatalogType DEF Range
<1>3. op' \in Operations
  BY <1>1, <1>2 DEF Operations
<1>4. CleanupAgrees'
  BY <1>1, CatalogRead DEF CleanupAgrees, Range
<1>5. Promises' /\ ExpectedOK'
  BY <1>1, FilesKept, TypeParts DEF RepositoryInv, ExpectedOK
<1>6. op'.step = "cleanup"
  BY <1>1
<1>7. QED
  BY <1>3, <1>4, <1>5, <1>6, OtherSteps DEF RepositoryInv, Promises, TypeOK, FilesOK, ExpectedOK

LEMMA DeleteRepositoryStep ==
    ASSUME RepositoryInv, NEW names \in SUBSET Repositories, DeleteRepository(names)
    PROVE  RepositoryInv'
<1>1. PICK r \in names :
         op' = [step |-> "remove", repo |-> r, left |-> names \ {r}, names |-> names]
  BY DEF DeleteRepository
<1>2. Forget(names, Snapshots) /\ UNCHANGED files
  BY DEF DeleteRepository
<1>3. op' \in Operations /\ op'.step = "remove"
  BY <1>1 DEF Operations
<1>4. /\ Promises' /\ ExpectedOK'
      /\ \A q \in names, s \in Snapshots : expected'[q][s] = Unknown
  BY <1>2, ForgetKeeps
<1>5. RemoveAgrees'
  BY <1>1, <1>4 DEF RemoveAgrees
<1>6. QED
  BY <1>3, <1>4, <1>5, OtherSteps DEF RepositoryInv, Promises, TypeOK, FilesOK, ExpectedOK

-----------------------------------------------------------------------------
(***************************************************************************)
(* The operations go on and end.                                           *)
(***************************************************************************)

\* The next step of an operation that publishes.
LEMMA GoToStep ==
    ASSUME RepositoryInv, Publishing, NEW step \in {"mkdir", "generation", "latest"}, GoTo(step)
    PROVE  /\ op' \in Operations /\ ExpectedOK' /\ Publishing' /\ op'.step = step
           /\ op'.repo = op.repo /\ op'.catalog = op.catalog /\ op'.touched = op.touched
           /\ op.repo \in Repositories /\ op.catalog \in Catalogs /\ op.touched \subseteq Snapshots
           /\ CatalogAgrees'
<1>1. /\ op \in [step : {"blob", "mkdir", "generation", "latest"}, repo : Repositories,
                 catalog : Catalogs, touched : SUBSET Snapshots]
      /\ op.repo \in Repositories /\ op.catalog \in Catalogs /\ op.touched \subseteq Snapshots
  BY OperationShape, TypeParts DEF RepositoryInv
<1>2. op' = [op EXCEPT !.step = step] /\ UNCHANGED expected
  BY DEF GoTo
<1>3. /\ op' \in [step : {"blob", "mkdir", "generation", "latest"}, repo : Repositories,
                  catalog : Catalogs, touched : SUBSET Snapshots]
      /\ op'.step = step
      /\ op'.repo = op.repo /\ op'.catalog = op.catalog /\ op'.touched = op.touched
  BY <1>1, <1>2
<1>4. op' \in Operations /\ Publishing'
  BY <1>3 DEF Operations, Publishing
<1>5. ExpectedOK'
  BY <1>2, TypeParts DEF RepositoryInv, ExpectedOK
<1>6. CatalogAgrees'
  BY <1>2, <1>3 DEF RepositoryInv, PublishAgrees, CatalogAgrees
<1>7. QED
  BY <1>1, <1>3, <1>4, <1>5, <1>6

LEMMA WriteBlobStep == RepositoryInv /\ WriteBlob => RepositoryInv'
<1> SUFFICES ASSUME RepositoryInv, WriteBlob PROVE RepositoryInv'
  OBVIOUS
<1>1. BlobWritten /\ GoTo("mkdir") /\ Publishing /\ op.step = "blob" /\ UNCHANGED expected
  BY DEF WriteBlob, BlobWritten, Publishing, GoTo
<1>2. Promises'
  BY <1>1, BlobWrittenKeeps
<1>3. /\ op' \in Operations /\ ExpectedOK' /\ Publishing' /\ CatalogAgrees'
      /\ op'.step = "mkdir" /\ op'.repo = op.repo /\ op'.catalog = op.catalog
      /\ op'.touched = op.touched /\ op.repo \in Repositories
  BY <1>1, GoToStep
<1>4. BlobFirst'
  BY <1>1, <1>3, TypeParts DEF RepositoryInv, PublishAgrees, BlobFirst, BlobWritten, FilesOK
<1>5. PublishAgrees'
  BY <1>1, <1>3, <1>4 DEF RepositoryInv, PublishAgrees, GenerationFirst, BlobWritten
<1>6. QED
  BY <1>2, <1>3, <1>5, OtherSteps DEF RepositoryInv, Promises, TypeOK, FilesOK, ExpectedOK

LEMMA MakeDirectoryStep == RepositoryInv /\ MakeDirectory => RepositoryInv'
<1> SUFFICES ASSUME RepositoryInv, MakeDirectory PROVE RepositoryInv'
  OBVIOUS
<1>1. /\ DirectoryMade /\ GoTo("generation") /\ Publishing /\ op.step = "mkdir"
      /\ UNCHANGED expected
  BY DEF MakeDirectory, DirectoryMade, Publishing, GoTo
<1>2. Promises'
  BY <1>1, DirectoryMadeKeeps
<1>3. /\ op' \in Operations /\ ExpectedOK' /\ Publishing' /\ CatalogAgrees'
      /\ op'.step = "generation" /\ op'.repo = op.repo /\ op'.catalog = op.catalog
      /\ op'.touched = op.touched
  BY <1>1, GoToStep
<1>4. PublishAgrees'
  BY <1>1, <1>3 DEF RepositoryInv, PublishAgrees, BlobFirst, GenerationFirst, DirectoryMade
<1>5. QED
  BY <1>2, <1>3, <1>4, OtherSteps DEF RepositoryInv, Promises, TypeOK, FilesOK, ExpectedOK

LEMMA WriteGenerationStep == RepositoryInv /\ WriteGeneration => RepositoryInv'
<1> SUFFICES ASSUME RepositoryInv, WriteGeneration PROVE RepositoryInv'
  OBVIOUS
<1>1. /\ GenerationWritten /\ GoTo("latest") /\ Publishing /\ op.step = "generation"
      /\ UNCHANGED expected
  BY DEF WriteGeneration, GenerationWritten, Publishing, GoTo
<1>2. Promises'
  BY <1>1, GenerationWrittenKeeps
<1>3. /\ op' \in Operations /\ ExpectedOK' /\ Publishing' /\ CatalogAgrees'
      /\ op'.step = "latest" /\ op'.repo = op.repo /\ op'.catalog = op.catalog
      /\ op'.touched = op.touched /\ op.repo \in Repositories
  BY <1>1, GoToStep
<1>4. /\ latest[op.repo] + 1 \in DOMAIN gens'[op.repo]
      /\ gens'[op.repo][latest[op.repo] + 1] = op.catalog
  BY <1>1, <1>3, TypeParts DEF RepositoryInv, FilesOK, GenerationWritten, Put
<1>5. PublishAgrees'
  BY <1>1, <1>3, <1>4 DEF RepositoryInv, PublishAgrees, BlobFirst, GenerationFirst, GenerationWritten
<1>6. QED
  BY <1>2, <1>3, <1>5, OtherSteps DEF RepositoryInv, Promises, TypeOK, FilesOK, ExpectedOK

\* The operation answers: the snapshots it was about are what its catalog says,
\* and their blobs were written before.
LEMMA WriteLatestStep == RepositoryInv /\ WriteLatest => RepositoryInv'
<1> SUFFICES ASSUME RepositoryInv, WriteLatest PROVE RepositoryInv'
  OBVIOUS
<1> USE DEF RepositoryInv
<1> DEFINE answer(s) == IF s \notin op.touched THEN expected[op.repo][s]
                        ELSE IF s \in DOMAIN op.catalog THEN op.catalog[s] ELSE Absent
<1>1. /\ PointerWritten /\ Publishing /\ op.step = "latest" /\ op' = Idle /\ blobs' = blobs
      /\ CatalogAgrees /\ BlobFirst
  BY DEF WriteLatest, PointerWritten, Publishing, PublishAgrees
<1>2. op.repo \in Repositories /\ op.catalog \in Catalogs
  BY <1>1, PointerMoves
<1>3. /\ \A s \in Snapshots : expected'[op.repo][s] = answer(s)
      /\ \A r \in Repositories \ {op.repo} : expected'[r] = expected[r]
  BY <1>2, TypeParts DEF WriteLatest, ExpectedOK
<1>4. \A s \in Snapshots : answer(s) \in Contents \cup {Absent, Unknown}
  BY <1>2, TypeParts, CatalogType DEF ExpectedOK
<1>5. ExpectedOK'
  <2>1. [s \in Snapshots |-> answer(s)] \in [Snapshots -> Contents \cup {Absent, Unknown}]
    BY <1>4
  <2>2. expected' = [expected EXCEPT ![op.repo] = [s \in Snapshots |-> answer(s)]]
    BY <1>2, TypeParts DEF WriteLatest, ExpectedOK
  <2>3. QED
    BY <1>2, <2>1, <2>2, TypeParts DEF ExpectedOK
<1>6. ASSUME NEW r \in Repositories, NEW s \in Snapshots
      PROVE  /\ expected'[r][s] \in Contents =>
                    s \in GetSnapshots(r)' /\ Catalog(r)'[s] = expected'[r][s]
             /\ expected'[r][s] = Absent => s \notin GetSnapshots(r)'
  <2>1. CASE r = op.repo
    <3>1. GetSnapshots(r)' = DOMAIN op.catalog /\ Catalog(r)' = op.catalog
      BY <1>1, <2>1, PointerMoves DEF GetSnapshots
    <3>2. \A x \in DOMAIN op.catalog : op.catalog[x] # Absent
      BY <1>2, CatalogType, ContentsAssumption
    <3>3. QED
      BY <1>1, <1>3, <2>1, <3>1, <3>2, ContentsAssumption DEF CatalogAgrees
  <2>2. CASE r # op.repo
    BY <1>1, <1>3, <2>2, PointerMoves DEF AnswersHold, GetSnapshots
  <2>3. QED
    BY <2>1, <2>2
<1>7. AnswersHold'
  BY <1>6 DEF AnswersHold
<1>8. SnapshotsComplete'
  BY <1>1, <1>3, ContentsAssumption DEF SnapshotsComplete, BlobFirst
<1>9. QED
  BY <1>1, <1>5, <1>7, <1>8, PointerMoves, IdleKeeps DEF TypeOK, FilesOK, ExpectedOK

\* The shape of the steps that leave the operation where it is.
LEMMA StayStep ==
    ASSUME RepositoryInv, NEW step \in {"cleanup", "remove"}, op.step = step, GoTo(step)
    PROVE  op' = op /\ ExpectedOK'
<1>1. op' = [op EXCEPT !.step = step] /\ UNCHANGED expected
  BY DEF GoTo
<1>2. op' = op
  BY <1>1, OperationShape, TypeParts DEF RepositoryInv
<1>3. QED
  BY <1>1, <1>2, TypeParts DEF RepositoryInv, ExpectedOK

LEMMA RemoveUnreferencedBlobStep == RepositoryInv /\ RemoveUnreferencedBlob => RepositoryInv'
<1> SUFFICES ASSUME RepositoryInv, RemoveUnreferencedBlob PROVE RepositoryInv'
  OBVIOUS
<1>1. /\ UnreferencedBlobRemoved /\ GoTo("cleanup") /\ op.step = "cleanup" /\ UNCHANGED expected
  BY DEF RemoveUnreferencedBlob, UnreferencedBlobRemoved, GoTo
<1>2. op' = op /\ ExpectedOK'
  BY <1>1, StayStep
<1>3. Promises'
  BY <1>1, UnreferencedBlobRemovedKeeps
<1>4. CleanupAgrees' /\ op' \in Operations
  BY <1>1, <1>2, TypeParts DEF RepositoryInv, CleanupAgrees
<1>5. QED
  BY <1>1, <1>2, <1>3, <1>4, OtherSteps DEF RepositoryInv, Promises, TypeOK, FilesOK, ExpectedOK

LEMMA RemoveFileStep == RepositoryInv /\ RemoveFile => RepositoryInv'
<1> SUFFICES ASSUME RepositoryInv, RemoveFile PROVE RepositoryInv'
  OBVIOUS
<1>1. FileRemoved /\ GoTo("remove") /\ op.step = "remove" /\ UNCHANGED expected
  BY DEF RemoveFile, FileRemoved, GoTo
<1>2. op' = op /\ ExpectedOK'
  BY <1>1, StayStep
<1>3. Promises' /\ \A r \in Repositories : Missing(r) => Missing(r)'
  BY <1>1, FileRemovedKeeps
<1>4. op' \in Operations /\ op.names \subseteq Repositories
  BY <1>1, <1>2, TypeParts, OperationShape DEF RepositoryInv
<1>5. RemoveAgrees'
  BY <1>1, <1>2, <1>3, <1>4 DEF RepositoryInv, RemoveAgrees
<1>6. QED
  BY <1>1, <1>2, <1>3, <1>4, <1>5, OtherSteps DEF RepositoryInv, Promises, TypeOK, FilesOK, ExpectedOK

\* The directory of one repository is gone: the next one, or the answer, which
\* every repository asked for has no pointer for.
LEMMA RemoveDirectoryStep == RepositoryInv /\ RemoveDirectory => RepositoryInv'
<1> SUFFICES ASSUME RepositoryInv, RemoveDirectory PROVE RepositoryInv'
  OBVIOUS
<1> USE DEF RepositoryInv
<1>1. DirectoryRemoved /\ op.step = "remove" /\ Missing(op.repo)
  BY DEF RemoveDirectory, DirectoryRemoved
<1>2. /\ op \in [step : {"remove"}, repo : Repositories, left : SUBSET Repositories,
                 names : SUBSET Repositories]
      /\ op.repo \in Repositories /\ op.left \subseteq Repositories
      /\ op.names \subseteq Repositories
  BY <1>1, OperationShape, TypeParts
<1>3. latest' = latest /\ gens' = gens /\ blobs' = blobs
  BY <1>1 DEF DirectoryRemoved
<1>4. FilesOK'
  BY <1>1, TypeParts DEF FilesOK, DirectoryRemoved
<1>5. CASE op.left = {}
  <2>1. /\ expected' = [r \in Repositories |->
                IF r \in op.names THEN [s \in Snapshots |-> Absent] ELSE expected[r]]
        /\ op' = Idle
    BY <1>5 DEF RemoveDirectory
  <2>2. ExpectedOK'
    BY <2>1, TypeParts DEF ExpectedOK
  <2>3. \A r \in op.names : Missing(r)
    BY <1>1, <1>5 DEF RemoveAgrees
  <2>4. AnswersHold'
    BY <1>3, <2>1, <2>3, ContentsAssumption
       DEF AnswersHold, GetSnapshots, Readable, Missing, Catalog
  <2>5. SnapshotsComplete'
    BY <1>3, <2>1, ContentsAssumption DEF SnapshotsComplete
  <2>6. QED
    BY <1>4, <2>1, <2>2, <2>4, <2>5, IdleKeeps DEF TypeOK, FilesOK, ExpectedOK
<1>6. CASE op.left # {}
  <2>1. PICK r \in op.left : op' = [op EXCEPT !.repo = r, !.left = @ \ {r}]
    BY <1>6 DEF RemoveDirectory
  <2>2. UNCHANGED expected
    BY <1>6 DEF RemoveDirectory
  <2>3. /\ op' \in Operations /\ op'.step = "remove"
        /\ op'.repo = r /\ op'.left = op.left \ {r} /\ op'.names = op.names
    BY <1>2, <2>1 DEF Operations
  <2>4. Promises'
    BY <1>1, <2>2, DirectoryRemovedKeeps
  <2>5. RemoveAgrees'
    BY <1>1, <1>3, <2>1, <2>2, <2>3 DEF RemoveAgrees, Missing
  <2>6. QED
    BY <2>2, <2>3, <2>4, <2>5, OtherSteps, TypeParts DEF Promises, TypeOK, FilesOK, ExpectedOK
<1>7. QED
  BY <1>5, <1>6

\* An operation that ends without an answer: done, killed or failed.
LEMMA EndStep ==
    ASSUME RepositoryInv, Promises', op' = Idle, UNCHANGED expected
    PROVE  RepositoryInv'
BY IdleKeeps, TypeParts DEF RepositoryInv, Promises, TypeOK, FilesOK, ExpectedOK

LEMMA CleanupDoneStep == RepositoryInv /\ CleanupDone => RepositoryInv'
BY FilesKept, EndStep DEF CleanupDone

LEMMA KillStep == RepositoryInv /\ Kill => RepositoryInv'
BY FilesKept, EndStep DEF Kill

\* A file operation that fails may have had its effect.
LEMMA StepFailsStep == RepositoryInv /\ StepFails => RepositoryInv'
<1> SUFFICES ASSUME RepositoryInv, StepFails PROVE RepositoryInv'
  OBVIOUS
<1>1. op' = Idle /\ UNCHANGED expected
  BY DEF StepFails
<1>2. Promises'
  BY <1>1, FilesKept, BlobWrittenKeeps, DirectoryMadeKeeps, GenerationWrittenKeeps,
     PointerWrittenKeeps, UnreferencedBlobRemovedKeeps, FileRemovedKeeps, DirectoryRemovedKeeps
     DEF StepFails
<1>3. QED
  BY <1>1, <1>2, EndStep

-----------------------------------------------------------------------------
(***************************************************************************)
(* The invariant.                                                          *)
(***************************************************************************)

LEMMA RepositoryInit == Init => RepositoryInv
<1> SUFFICES ASSUME Init PROVE RepositoryInv
  OBVIOUS
<1>1. op.step = "idle" /\ op \in Operations
  BY DEF Init, Idle, Operations
<1>2. FilesOK /\ ExpectedOK
  BY DEF Init, FilesOK, ExpectedOK
<1>3. AnswersHold /\ SnapshotsComplete
  BY ContentsAssumption
     DEF Init, AnswersHold, SnapshotsComplete, GetSnapshots, Readable, Missing
<1>4. PublishAgrees /\ CleanupAgrees /\ RemoveAgrees
  BY <1>1 DEF PublishAgrees, CleanupAgrees, RemoveAgrees, Publishing
<1>5. QED
  BY <1>1, <1>2, <1>3, <1>4, TypeParts DEF RepositoryInv

LEMMA RepositoryStutter == RepositoryInv /\ UNCHANGED vars => RepositoryInv'
<1> SUFFICES ASSUME RepositoryInv, UNCHANGED vars PROVE RepositoryInv'
  OBVIOUS
<1>1. UNCHANGED files /\ UNCHANGED expected /\ op' = op
  BY DEF vars
<1>2. Promises'
  BY <1>1, FilesKept
<1>3. op' \in Operations /\ ExpectedOK'
  BY <1>1, TypeParts DEF RepositoryInv, ExpectedOK
<1>4. PublishAgrees' /\ CleanupAgrees' /\ RemoveAgrees'
  BY <1>1 DEF RepositoryInv, PublishAgrees, CleanupAgrees, RemoveAgrees, Publishing, CatalogAgrees,
              BlobFirst, GenerationFirst, Missing, files
<1>5. QED
  BY <1>2, <1>3, <1>4 DEF RepositoryInv, Promises, TypeOK, FilesOK, ExpectedOK

LEMMA RepositoryStep == RepositoryInv /\ [Next]_vars => RepositoryInv'
BY PutRepositoryStep, CreateSnapshotStep, DeleteSnapshotStep, CleanupRepositoryStep,
   DeleteRepositoryStep, WriteBlobStep, MakeDirectoryStep, WriteGenerationStep, WriteLatestStep,
   RemoveUnreferencedBlobStep, CleanupDoneStep, RemoveFileStep, RemoveDirectoryStep,
   KillStep, StepFailsStep, RepositoryStutter
   DEF Next

\* The inductive invariant holds in every state of every instance, with every
\* combination of kills, failing file operations and interrupted deletions.
THEOREM RepositoryInvariant == Spec => []RepositoryInv
BY RepositoryInit, RepositoryStep, PTL DEF Spec

\* Type correctness of the repository's files and of the operation in progress.
THEOREM RepositoryTypeCorrect == Spec => []TypeOK
<1>1. RepositoryInv => TypeOK
  BY DEF RepositoryInv
<1>2. QED
  BY <1>1, RepositoryInvariant, PTL

\* What create_snapshot, delete_snapshot and delete_repository answered holds
\* until the next request about that snapshot, whatever is killed or fails.
THEOREM RepositoryAnswersHold == Spec => []AnswersHold
<1>1. RepositoryInv => AnswersHold
  BY DEF RepositoryInv
<1>2. QED
  BY <1>1, RepositoryInvariant, PTL

\* No operation, cleanup_repository included, takes away the blob of a snapshot
\* whose creation was answered.
THEOREM RepositorySnapshotsComplete == Spec => []SnapshotsComplete
<1>1. RepositoryInv => SnapshotsComplete
  BY DEF RepositoryInv
<1>2. QED
  BY <1>1, RepositoryInvariant, PTL

-----------------------------------------------------------------------------
(***************************************************************************)
(* Published generations.                                                  *)
(***************************************************************************)

GenerationsFixed ==
    \A r \in Repositories :
        ~Missing(r) /\ latest'[r] # NoGeneration =>
            /\ latest'[r] >= latest[r]
            /\ \A g \in DOMAIN gens[r] \cap DOMAIN gens'[r] :
                   g <= latest[r] => gens'[r][g] = gens[r][g]

LEMMA FilesKeptFixed ==
    ASSUME FilesOK, latest' = latest, gens' = gens
    PROVE  GenerationsFixed
<1>1. \A r \in Repositories : latest[r] \in Nat
  BY RepositoryAssumption DEF FilesOK, Generations, NoGeneration
<1>2. QED
  BY <1>1 DEF GenerationsFixed

LEMMA GenerationWrittenFixed ==
    ASSUME RepositoryInv, GenerationWritten
    PROVE  GenerationsFixed
<1>1. FilesOK /\ op.repo \in Repositories
  BY OperationShape, TypeParts DEF RepositoryInv, GenerationWritten, Publishing
<1>2. \A r \in Repositories : latest[r] \in Nat /\ \A g \in DOMAIN gens[r] : g \in Nat
  BY <1>1, RepositoryAssumption DEF FilesOK, Generations, NoGeneration
<1>3. \A r \in Repositories : gens'[r] = IF r = op.repo
                                         THEN Put(gens[r], latest[r] + 1, op.catalog)
                                         ELSE gens[r]
  BY <1>1 DEF GenerationWritten, FilesOK
<1>4. \A r \in Repositories : \A g \in DOMAIN gens[r] :
         g <= latest[r] => gens'[r][g] = gens[r][g]
  <2> SUFFICES ASSUME NEW r \in Repositories, NEW g \in DOMAIN gens[r], g <= latest[r]
               PROVE  gens'[r][g] = gens[r][g]
    OBVIOUS
  <2>1. g # latest[r] + 1
    BY <1>2
  <2>2. QED
    BY <1>3, <2>1 DEF Put
<1>5. QED
  BY <1>2, <1>4 DEF GenerationsFixed, GenerationWritten

LEMMA PointerWrittenFixed ==
    ASSUME RepositoryInv, PointerWritten
    PROVE  GenerationsFixed
<1>1. FilesOK /\ op.repo \in Repositories
  BY OperationShape, TypeParts DEF RepositoryInv, PointerWritten, Publishing
<1>2. \A r \in Repositories : latest[r] \in Nat
  BY <1>1, RepositoryAssumption DEF FilesOK, Generations, NoGeneration
<1>3. \A r \in Repositories : latest'[r] = IF r = op.repo THEN latest[r] + 1 ELSE latest[r]
  BY <1>1 DEF PointerWritten, FilesOK
<1>4. QED
  BY <1>2, <1>3 DEF GenerationsFixed, PointerWritten

LEMMA FileRemovedFixed ==
    ASSUME RepositoryInv, FileRemoved
    PROVE  GenerationsFixed
<1>1. FilesOK /\ op.repo \in Repositories
  BY RemovalShape, TypeParts DEF RepositoryInv, FileRemoved
<1>2. \A r \in Repositories : latest[r] \in Nat
  BY <1>1, RepositoryAssumption DEF FilesOK, Generations, NoGeneration
<1>3. CASE latest' = latest /\ gens' = gens
  BY <1>1, <1>3, FilesKeptFixed
<1>4. ASSUME NEW g \in DOMAIN gens[op.repo],
             gens' = [gens EXCEPT ![op.repo] = Without(@, {g})], latest' = latest
      PROVE  GenerationsFixed
  <2>1. \A r \in Repositories : gens'[r] = IF r = op.repo THEN Without(gens[r], {g}) ELSE gens[r]
    BY <1>1, <1>4 DEF FilesOK
  <2>2. \A r \in Repositories : \A h \in DOMAIN gens'[r] : gens'[r][h] = gens[r][h]
    BY <2>1 DEF Without, Restrict
  <2>3. \A r \in Repositories : latest'[r] >= latest[r]
    BY <1>2, <1>4
  <2>4. QED
    BY <2>2, <2>3 DEF GenerationsFixed
<1>5. CASE latest' = [latest EXCEPT ![op.repo] = NoGeneration] /\ gens' = gens
  <2>1. \A r \in Repositories : latest'[r] = IF r = op.repo THEN NoGeneration ELSE latest[r]
    BY <1>1, <1>5 DEF FilesOK
  <2>2. QED
    BY <1>2, <1>5, <2>1 DEF GenerationsFixed
<1>6. QED
  BY <1>3, <1>4, <1>5 DEF FileRemoved

\* Every step keeps the generations up to the current one, or removes files.
LEMMA StepFixed == RepositoryInv /\ [Next]_vars => GenerationsFixed
<1> SUFFICES ASSUME RepositoryInv, [Next]_vars PROVE GenerationsFixed
  OBVIOUS
<1>1. \/ latest' = latest /\ gens' = gens
      \/ GenerationWritten \/ PointerWritten \/ FileRemoved
  BY DEF Next, vars, files, PutRepository, CreateSnapshot, DeleteSnapshot, CleanupRepository,
         DeleteRepository, WriteBlob, BlobWritten, MakeDirectory, DirectoryMade, WriteGeneration,
         WriteLatest, RemoveUnreferencedBlob, UnreferencedBlobRemoved, CleanupDone, RemoveFile,
         RemoveDirectory, DirectoryRemoved, Kill, StepFails
<1>2. FilesOK
  BY TypeParts DEF RepositoryInv
<1>3. QED
  BY <1>1, <1>2, FilesKeptFixed, GenerationWrittenFixed, PointerWrittenFixed, FileRemovedFixed

\* A published generation is never written again while index.latest is there, so
\* an update that stops half-way leaves the catalog that was current intact.
THEOREM RepositoryGenerationsFixed == Spec => PublishedGenerationsFixed
<1>1. RepositoryInv /\ [Next]_vars => [GenerationsFixed]_vars
  BY StepFixed
<1>2. QED
  BY <1>1, RepositoryInvariant, PTL DEF Spec, PublishedGenerationsFixed, GenerationsFixed

=============================================================================
