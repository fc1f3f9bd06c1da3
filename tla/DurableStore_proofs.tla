-------------------------- MODULE DurableStore_proofs --------------------------
(***************************************************************************)
(* Proofs about DurableStore, for every number of transactions, every      *)
(* snapshot threshold and every sequence of kills and restarts.            *)
(*                                                                         *)
(* Part one proves the type invariant under every kind of fault.  Part two *)
(* assumes that the process is killed only between two writes (Faults is   *)
(* empty) and proves that the directory stays openable and that opening it *)
(* loads exactly the committed transactions, each once.  The argument is   *)
(* RecoveryLemma: in every state of the inductive invariant KillInv, what  *)
(* load_durable_state computes from snapshot, metadata and log is          *)
(* Recovered, the base snapshot plus the transactions with a commit record *)
(* that it does not cover.  StepKill shows that Recovered changes only     *)
(* when a commit record is appended, never during the five steps of        *)
(* write_snapshot_generation.  Part three uses it for the refinement of    *)
(* AtomicStore.  Part four allows every combination of faults again: then  *)
(* the directory may stop being openable and a transaction may be applied  *)
(* twice, and what is left to prove is that nothing acknowledged is lost.  *)
(***************************************************************************)
EXTENDS DurableStore, WellFoundedInduction, SequenceTheorems, TLAPS

USE DEF Tx, NoTx, FaultKinds

\* A nonempty set of naturals has a least element, the one Min denotes; this is
\* what makes the position of a commit record well defined.
LEMMA MinExists ==
    ASSUME NEW S \in SUBSET Nat, S # {}
    PROVE  Min(S) \in S /\ \A y \in S : Min(S) <= y
<1>1. PICK x \in S : \A y \in S : ~(<<y, x>> \in OpToRel(<, Nat))
  BY NatLessThanWellFounded, WFMin, Zenon
<1>2. ASSUME NEW y \in S, y < x PROVE FALSE
  <2>1. <<y, x>> \in {p \in Nat \X Nat : p[1] < p[2]}
    BY <1>2
  <2>2. <<y, x>> \in OpToRel(<, Nat)
    BY <2>1 DEF OpToRel
  <2>3. QED
    BY <1>1, <2>2, Zenon
<1>3. \A y \in S : x <= y
  BY <1>2
<1>4. QED
  BY <1>1, <1>3, Zenon DEF Min

\* Applying a transaction to a database gives a database.
LEMMA ApplyType ==
    ASSUME NEW d \in Db, NEW t \in Tx
    PROVE  Apply(d, t) \in Db
BY DEF Db, Apply


\* What append_json_record leaves in the log, whole or cut, is a piece.
LEMMA PieceType ==
    ASSUME NEW rec \in {"begin", "commit", "marker"}, NEW t \in Tx,
           NEW whole \in BOOLEAN, NEW nl \in BOOLEAN
    PROVE  Piece(rec, t, whole, nl) \in Pieces
BY DEF Piece, Pieces

\* A record that was appended completely is a piece.
LEMMA RecordType ==
    ASSUME NEW rec \in {"begin", "commit", "marker"}, NEW t \in Tx
    PROVE  Record(rec, t) \in Pieces
BY DEF Record, Piece, Pieces

\* The empty database, metadata and flush state have their types.
LEMMA EmptyTypes ==
    /\ EmptyDb \in Db
    /\ NoFlush \in FlushStates
    /\ NoCur \in [id : Tx \cup {NoTx}, writes : Nat]
    /\ NoMeta \in [generation : Nat, last : Tx \cup {NoTx}, compacted : BOOLEAN]
BY DEF EmptyDb, Db, NoFlush, NoCur, NoMeta, FlushStates

\* The thread inside the commit path knows its transaction, and a snapshot is
\* labelled with the transaction being committed.
CommitInProgress ==
    /\ pc \in {"repairBegun", "repairCommitted", "begun", "committed"}
              \cup SnapshotSteps => cur.id \in Tx
    /\ pc \in SnapshotSteps => flush.last = cur.id

\* The inductive form of TypeOK.
TypeInv == TypeOK /\ CommitInProgress

\* A new data directory satisfies the type invariant.
LEMMA InitType == Init => TypeInv
<1> SUFFICES ASSUME Init PROVE TypeInv
  OBVIOUS
<1>1. DiskTypeOK
  BY EmptyTypes DEF Init, DiskTypeOK
<1>2. ProcessTypeOK
  BY EmptyTypes DEF Init, ProcessTypeOK, Steps
<1>3. HistoryTypeOK
  BY ConstantsAssumption DEF Init, HistoryTypeOK, Outcomes
<1>4. CommitInProgress
  BY DEF Init, CommitInProgress, SnapshotSteps
<1>5. QED
  BY <1>1, <1>2, <1>3, <1>4 DEF TypeInv, TypeOK

\* load_durable_state, when it succeeds, loads a database.
LEMMA LoadedType == TypeOK /\ LoadOk => Loaded \in Db
<1> SUFFICES ASSUME TypeOK, LoadOk PROVE Loaded \in Db
  OBVIOUS
<1>1. Base \in Db
  BY DEF TypeOK, DiskTypeOK, LoadOk, Base, HasMeta, EmptyDb, Db
<1>2. \A t \in Tx : Base[t] + (IF Replays(t) THEN 1 ELSE 0) \in Nat
  BY <1>1 DEF Db
<1>3. QED
  BY <1>2, Zenon DEF Loaded, Db

\* An append that did not finish leaves a log.
LEMMA InterruptedType ==
    ASSUME NEW lg \in Seq(Pieces), NEW rec \in {"begin", "commit"}, NEW t \in Tx,
           NEW l \in Interrupted(lg, rec, t)
    PROVE  l \in Seq(Pieces) /\ Len(l) >= Len(lg)
<1>1. \A whole \in BOOLEAN : Piece(rec, t, whole, FALSE) \in Pieces
  BY PieceType
<1>2. CASE l = lg
  BY <1>2
<1>3. CASE l # lg
  <2>1. PICK whole \in BOOLEAN : l = Append(lg, Piece(rec, t, whole, FALSE))
    BY <1>3 DEF Interrupted
  <2>2. PICK p \in Pieces : l = Append(lg, p)
    BY <1>1, <2>1, Zenon
  <2>3. QED
    BY <2>2
<1>4. QED
  BY <1>2, <1>3

\* Compaction leaves a log.
LEMMA CompactedType ==
    ASSUME DiskTypeOK, LogCompacted, flush.last \in Tx
    PROVE  DiskTypeOK'
<1>1. Min(CommitRecords) \in Nat
  <2>1. CommitRecords \in SUBSET Nat /\ CommitRecords # {}
    BY DEF LogCompacted, CommitRecords
  <2>2. QED
    BY <2>1, MinExists
<1>2. SubSeq(log, Min(CommitRecords) + 1, Len(log)) \in Seq(Pieces)
  BY <1>1 DEF DiskTypeOK
<1>3. <<Record("marker", flush.last)>> \in Seq(Pieces)
  BY RecordType
<1>4. log' \in Seq(Pieces) /\ synced' \in 0..Len(log')
  BY <1>2, <1>3 DEF LogCompacted
<1>5. QED
  BY <1>4 DEF LogCompacted, DiskTypeOK

\* The snapshot files keep their types.
LEMMA GenerationFileType ==
    ASSUME TypeOK, GenerationFileWritten PROVE DiskTypeOK'
<1>1. NextGeneration \in Nat /\ db \in Db
  BY DEF TypeOK, ProcessTypeOK, NextGeneration, FlushStates
<1>2. DOMAIN snapshots' = DOMAIN snapshots \cup {NextGeneration}
  BY DEF GenerationFileWritten
<1>3. \A g \in DOMAIN snapshots' : snapshots'[g] \in Db
  BY <1>1, <1>2, Zenon DEF GenerationFileWritten, TypeOK, DiskTypeOK
<1>4. QED
  BY <1>1, <1>2, <1>3 DEF TypeOK, DiskTypeOK, GenerationFileWritten

\* snapshot.meta.json written by write_snapshot_generation has its type.
LEMMA MetadataType ==
    ASSUME TypeOK, NEW c \in BOOLEAN, MetadataWritten(c)
    PROVE  DiskTypeOK' /\ durable' \subseteq Tx
<1>1. NextGeneration \in Nat /\ flush.last \in Tx \cup {NoTx}
  BY DEF TypeOK, ProcessTypeOK, NextGeneration, FlushStates
<1>2. meta' \in [generation : Nat, last : Tx \cup {NoTx}, compacted : BOOLEAN]
  BY <1>1, Zenon DEF MetadataWritten
<1>3. QED
  BY <1>2 DEF TypeOK, DiskTypeOK, HistoryTypeOK, MetadataWritten

\* snapshot.json written after the metadata has its type.
LEMMA LatestFileType ==
    ASSUME TypeOK, LatestFileWritten PROVE DiskTypeOK'
BY DEF TypeOK, DiskTypeOK, ProcessTypeOK, LatestFileWritten

\* A step that leaves the files alone keeps their types.
LEMMA DiskUnchanged ==
    ASSUME DiskTypeOK, UNCHANGED disk PROVE DiskTypeOK'
BY DEF DiskTypeOK, disk

\* The end of the process.
LEMMA EndType ==
    ASSUME ProcessEnds PROVE ProcessTypeOK' /\ CommitInProgress'
BY EmptyTypes DEF ProcessEnds, ProcessTypeOK, CommitInProgress, Steps, SnapshotSteps

\* A step that leaves the history alone keeps its type.
LEMMA HistoryUnchanged ==
    ASSUME HistoryTypeOK, UNCHANGED history PROVE HistoryTypeOK'
BY DEF HistoryTypeOK, history

\* A client's answer: the transaction is acknowledged.
LEMMA AcknowledgeType ==
    ASSUME TypeInv, Acknowledge
    PROVE  /\ outcome' \in [Tx -> Outcomes]
           /\ cur' \in [id : Tx \cup {NoTx}, writes : Nat]
           /\ pc' \in Steps
           /\ CommitInProgress'
<1>1. outcome' \in [Tx -> Outcomes]
  BY DEF TypeInv, TypeOK, HistoryTypeOK, Acknowledge, Outcomes
<1>2. cur' \in [id : Tx \cup {NoTx}, writes : Nat]
  BY EmptyTypes DEF Acknowledge
<1>3. pc' \in Steps /\ CommitInProgress'
  BY DEF Acknowledge, Steps, CommitInProgress, SnapshotSteps
<1>4. QED
  BY <1>1, <1>2, <1>3

\* An append of a whole record.
LEMMA AppendType ==
    ASSUME DiskTypeOK, NEW rec \in {"begin", "commit"}, NEW t \in Tx,
           log' = Append(log, Record(rec, t)),
           UNCHANGED <<synced, snapshots, meta, snapshotJson>>
    PROVE  DiskTypeOK'
<1>1. Record(rec, t) \in Pieces
  BY RecordType
<1>2. log' \in Seq(Pieces) /\ synced' \in 0..Len(log')
  BY <1>1 DEF DiskTypeOK
<1>3. QED
  BY <1>2 DEF DiskTypeOK

\* An append that does not finish.
LEMMA AppendInterruptedType ==
    ASSUME TypeInv, AppendInterrupted
    PROVE  DiskTypeOK' /\ clock' \in 1..(MaxTx + 1)
<1> USE DEF TypeInv, TypeOK
<1> DEFINE t == IF AppendedAt[pc] = "begin" THEN clock ELSE cur.id
<1>1. AppendedAt[pc] \in {"begin", "commit"} /\ t \in Tx
  BY DEF AppendInterrupted, AppendedAt, CommitInProgress
<1>2. log' \in Interrupted(log, AppendedAt[pc], t)
  BY DEF AppendInterrupted
<1>3. log' \in Seq(Pieces) /\ Len(log') >= Len(log)
  <2> HIDE DEF t
  <2>1. log \in Seq(Pieces)
    BY DEF DiskTypeOK
  <2>2. QED
    BY <1>1, <1>2, <2>1, InterruptedType
<1>4. clock' \in 1..(MaxTx + 1)
  BY ConstantsAssumption DEF AppendInterrupted, HistoryTypeOK
<1>5. QED
  BY <1>3, <1>4 DEF AppendInterrupted, DiskTypeOK

\* A power loss leaves a log.
LEMMA PowerLossType ==
    ASSUME DiskTypeOK, PowerLoss PROVE DiskTypeOK'
<1>1. PICK k \in synced..Len(log) :
          \/ log' = SubSeq(log, 1, k)
          \/ /\ k < Len(log)
             /\ \E whole \in {FALSE, log[k + 1].whole} :
                    log' = Append(SubSeq(log, 1, k),
                                  [log[k + 1] EXCEPT !.whole = whole,
                                                     !.nl = FALSE])
  BY Zenon DEF PowerLoss
<1>2. k \in Nat /\ SubSeq(log, 1, k) \in Seq(Pieces)
  BY DEF DiskTypeOK
<1>3. CASE log' = SubSeq(log, 1, k)
  BY <1>2, <1>3 DEF DiskTypeOK, PowerLoss
<1>4. CASE log' # SubSeq(log, 1, k)
  <2>1. log[k + 1] \in Pieces
    BY <1>1, <1>2, <1>4 DEF DiskTypeOK
  <2>2. \A whole \in {FALSE, log[k + 1].whole} :
            [log[k + 1] EXCEPT !.whole = whole, !.nl = FALSE] \in Pieces
    BY <2>1 DEF Pieces
  <2>3. PICK p \in Pieces : log' = Append(SubSeq(log, 1, k), p)
    BY <1>1, <1>4, <2>2, Zenon
  <2>4. QED
    BY <1>2, <2>3 DEF DiskTypeOK, PowerLoss
<1>5. QED
  BY <1>3, <1>4

\* Every action, faults included, preserves the type invariant.
LEMMA StepType == TypeInv /\ [Next]_vars => TypeInv'
<1> SUFFICES ASSUME TypeInv, [Next]_vars PROVE TypeInv'
  OBVIOUS
<1> USE DEF TypeInv, TypeOK
<1>1. CASE Open
  <2>1. DiskTypeOK'
    BY <1>1, DiskUnchanged DEF Open
  <2>2. ProcessTypeOK' /\ CommitInProgress'
    BY <1>1, LoadedType
    DEF Open, ProcessTypeOK, DiskTypeOK, CommitInProgress, Steps, SnapshotSteps,
        FlushStates
  <2>3. HistoryTypeOK'
    BY <1>1 DEF Open, HistoryTypeOK, Outcomes
  <2>4. QED
    BY <2>1, <2>2, <2>3
<1>2. CASE OpenRejected \/ UNCHANGED vars
  <2>1. UNCHANGED disk /\ UNCHANGED history /\ UNCHANGED volatile /\ pc' = pc
    BY <1>2 DEF OpenRejected, vars
  <2>2. ProcessTypeOK' /\ CommitInProgress'
    BY <2>1 DEF volatile, ProcessTypeOK, CommitInProgress
  <2>3. QED
    BY <2>1, <2>2, DiskUnchanged, HistoryUnchanged
<1>3. CASE RepairBegin
  <2>1. DiskTypeOK'
    BY <1>3, AppendType DEF RepairBegin
  <2>2. ProcessTypeOK' /\ CommitInProgress'
    BY <1>3, ConstantsAssumption
    DEF RepairBegin, ProcessTypeOK, CommitInProgress, Steps, SnapshotSteps
  <2>3. HistoryTypeOK'
    BY <1>3, ConstantsAssumption DEF RepairBegin, HistoryTypeOK, Outcomes
  <2>4. QED
    BY <2>1, <2>2, <2>3
<1>4. CASE RepairCommit
  <2>1. cur.id \in Tx
    BY <1>4 DEF RepairCommit, CommitInProgress
  <2>2. DiskTypeOK'
    BY <1>4, <2>1, AppendType DEF RepairCommit
  <2>3. ProcessTypeOK' /\ CommitInProgress'
    BY <1>4, <2>1
    DEF RepairCommit, ProcessTypeOK, CommitInProgress, volatile, Steps, SnapshotSteps
  <2>4. QED
    BY <1>4, <2>2, <2>3, HistoryUnchanged DEF RepairCommit
<1>5. CASE RepairApply
  <2>1. cur.id \in Tx
    BY <1>5 DEF RepairApply, CommitInProgress
  <2>2. DiskTypeOK'
    BY <1>5 DEF RepairApply, DiskTypeOK
  <2>3. Apply(db, cur.id) \in Db
    BY <2>1, ApplyType DEF ProcessTypeOK
  <2>c. flush' \in FlushStates
    BY <1>5, <2>1 DEF RepairApply, ProcessTypeOK, FlushStates
  <2>4. ProcessTypeOK' /\ CommitInProgress'
    BY <1>5, <2>3, <2>c, EmptyTypes
    DEF RepairApply, ProcessTypeOK, CommitInProgress, Steps, SnapshotSteps
  <2>5. HistoryTypeOK'
    BY <1>5 DEF RepairApply, HistoryTypeOK, Outcomes
  <2>6. QED
    BY <2>2, <2>4, <2>5
<1>6. CASE Begin
  <2>1. DiskTypeOK'
    BY <1>6, AppendType DEF Begin
  <2>2. Apply(db, clock) \in Db
    BY <1>6, ApplyType DEF Begin, ProcessTypeOK
  <2>3. cur' \in [id : Tx \cup {NoTx}, writes : Nat] /\ cur'.id \in Tx
    BY <1>6, ConstantsAssumption DEF Begin
  <2>4. ProcessTypeOK' /\ CommitInProgress'
    BY <1>6, <2>2, <2>3 DEF Begin, ProcessTypeOK, CommitInProgress, Steps, SnapshotSteps
  <2>5. body' \in [Tx -> {"write", "legacy", "repair"}]
    BY <1>6, ConstantsAssumption DEF Begin, HistoryTypeOK
  <2>6. HistoryTypeOK'
    BY <1>6, <2>5, ConstantsAssumption DEF Begin, HistoryTypeOK, Outcomes
  <2>7. QED
    BY <2>1, <2>4, <2>6
<1>7. CASE Commit
  <2>1. cur.id \in Tx
    BY <1>7 DEF Commit, CommitInProgress
  <2>2. DiskTypeOK'
    BY <1>7, <2>1, AppendType DEF Commit
  <2>3. ProcessTypeOK' /\ CommitInProgress'
    BY <1>7, <2>1, EmptyTypes
    DEF Commit, ProcessTypeOK, CommitInProgress, Steps, SnapshotSteps
  <2>4. QED
    BY <1>7, <2>2, <2>3, HistoryUnchanged DEF Commit
<1>8. CASE AfterCommit
  <2>1. DiskTypeOK'
    BY <1>8, DiskUnchanged DEF AfterCommit
  <2>2. cur.id \in Tx /\ flush.dirty \in Nat /\ cur.writes \in Nat
    BY <1>8 DEF AfterCommit, CommitInProgress, ProcessTypeOK, FlushStates
  <2>3. flush' \in FlushStates
        /\ flush'.last = cur.id
    BY <1>8, <2>2 DEF AfterCommit, ProcessTypeOK, FlushStates
  <2>4. CASE Acknowledge
    BY <1>8, <2>1, <2>3, <2>4, AcknowledgeType DEF AfterCommit, ProcessTypeOK, HistoryTypeOK
  <2>5. CASE pc' = "snapshot" /\ UNCHANGED <<cur, outcome>>
    BY <1>8, <2>1, <2>2, <2>3, <2>5
    DEF AfterCommit, ProcessTypeOK, HistoryTypeOK, CommitInProgress, Steps, SnapshotSteps
  <2>6. QED
    BY <1>8, <2>4, <2>5 DEF AfterCommit
<1>9. CASE WriteGenerationSnapshot
  BY <1>9, GenerationFileType
  DEF WriteGenerationSnapshot, GenerationFileWritten, volatile, ProcessTypeOK,
      HistoryTypeOK, CommitInProgress, Steps, SnapshotSteps
<1>10. CASE WriteMetadata
  BY <1>10, MetadataType
  DEF WriteMetadata, volatile, ProcessTypeOK, HistoryTypeOK, CommitInProgress,
      Steps, SnapshotSteps
<1>11. CASE CompactLog
  <2>1. flush.last \in Tx
    BY <1>11 DEF CompactLog, CommitInProgress, SnapshotSteps
  <2>2. DiskTypeOK'
    BY <1>11, <2>1, CompactedType, DiskUnchanged DEF CompactLog
  <2>3. durable' = durable
    BY <1>11 DEF CompactLog, LogCompacted
  <2>4. QED
    BY <1>11, <2>2, <2>3
    DEF CompactLog, volatile, ProcessTypeOK, HistoryTypeOK, CommitInProgress,
        Steps, SnapshotSteps
<1>12. CASE WriteCompactedMetadata
  BY <1>12, MetadataType
  DEF WriteCompactedMetadata, volatile, ProcessTypeOK, HistoryTypeOK,
      CommitInProgress, Steps, SnapshotSteps
<1>13. CASE WriteLatestSnapshot
  <2>1. DiskTypeOK' /\ durable' = durable
    BY <1>13, LatestFileType DEF WriteLatestSnapshot, LatestFileWritten
  <2>2. flush' \in FlushStates
    BY <1>13 DEF WriteLatestSnapshot, ProcessTypeOK, FlushStates, NextGeneration
  <2>3. Acknowledge
    BY <1>13 DEF WriteLatestSnapshot
  <2>4. QED
    BY <1>13, <2>1, <2>2, <2>3, AcknowledgeType
    DEF WriteLatestSnapshot, ProcessTypeOK, HistoryTypeOK
<1>14. CASE SyncLog
  <2>a. durable' \subseteq Tx
    BY <1>14, Zenon DEF SyncLog, HistoryTypeOK
  <2>1. DiskTypeOK' /\ HistoryTypeOK'
    BY <1>14, <2>a DEF SyncLog, DiskTypeOK, HistoryTypeOK
  <2>2. ProcessTypeOK' /\ CommitInProgress'
    BY <1>14 DEF SyncLog, ProcessTypeOK, CommitInProgress
  <2>3. QED
    BY <2>1, <2>2
<1>15. CASE Kill
  BY <1>15, DiskUnchanged, EndType DEF Kill, InDoubt, HistoryTypeOK, Outcomes
<1>16. CASE KilledInAppend
  <2>1. DiskTypeOK' /\ clock' \in 1..(MaxTx + 1)
    BY <1>16, AppendInterruptedType DEF KilledInAppend
  <2>2. outcome' \in [Tx -> Outcomes]
    BY <1>16 DEF KilledInAppend, InDoubt, HistoryTypeOK, Outcomes
  <2>3. QED
    BY <1>16, <2>1, <2>2, EndType DEF KilledInAppend, AppendInterrupted, HistoryTypeOK
<1>17. CASE AppendFails
  <2>1. DiskTypeOK' /\ clock' \in 1..(MaxTx + 1)
    BY <1>17, AppendInterruptedType DEF AppendFails
  <2>2. outcome' \in [Tx -> Outcomes]
    BY <1>17 DEF AppendFails, HistoryTypeOK, Outcomes
  <2>3. HistoryTypeOK'
    BY <1>17, <2>1, <2>2 DEF AppendFails, AppendInterrupted, HistoryTypeOK
  <2>4. ProcessTypeOK' /\ CommitInProgress'
    <3>1. CASE ProcessEnds
      BY <3>1, EndType
    <3>2. CASE ~ProcessEnds
      BY <1>17, <3>2, EmptyTypes
      DEF AppendFails, ProcessTypeOK, CommitInProgress, Steps, SnapshotSteps
    <3>3. QED
      BY <3>1, <3>2
  <2>5. QED
    BY <2>1, <2>3, <2>4
<1>18. CASE SnapshotStepFails
  <2>1. flush.last \in Tx
    BY <1>18 DEF SnapshotStepFails, CommitInProgress, SnapshotSteps
  <2>2. DiskTypeOK' /\ durable' \subseteq Tx
    BY <1>18, <2>1, DiskUnchanged, GenerationFileType, MetadataType, CompactedType,
       LatestFileType
    DEF SnapshotStepFails, GenerationFileWritten, LogCompacted, LatestFileWritten,
        HistoryTypeOK
  <2>3. Acknowledge
    BY <1>18, Zenon DEF SnapshotStepFails
  <2>4. QED
    BY <1>18, <2>2, <2>3, AcknowledgeType DEF SnapshotStepFails, ProcessTypeOK, HistoryTypeOK
<1>19. CASE PowerLoss
  BY <1>19, PowerLossType, EndType DEF PowerLoss, InDoubt, HistoryTypeOK, Outcomes
<1>20. QED
  BY <1>1, <1>2, <1>3, <1>4, <1>5, <1>6, <1>7, <1>8, <1>9, <1>10, <1>11, <1>12,
     <1>13, <1>14, <1>15, <1>16, <1>17, <1>18, <1>19 DEF Next

\* Whatever faults occur, every file of the data directory, the in-memory state
\* and the history have their types.
THEOREM StoreTypeCorrect == Spec => []TypeOK
<1>1. TypeInv => TypeOK
  BY DEF TypeInv
<1>2. QED
  BY <1>1, InitType, StepType, PTL DEF Spec

-----------------------------------------------------------------------------
(* Without faults other than kills between steps (Faults = {}) the log is  *)
(* a sequence of whole records in transaction order, and the snapshot the  *)
(* metadata names covers the transactions up to metadata.last.             *)

LogOrder ==
    /\ \A i \in 1..Len(log) : log[i].whole /\ log[i].nl /\ log[i].tx < clock
    /\ \A i \in 1..Len(log) : log[i].rec = "marker" => i = 1
    /\ \A i \in 1..Len(log) :
           log[i].rec = "commit" =>
               i > 1 /\ log[i - 1].rec = "begin" /\ log[i - 1].tx = log[i].tx
    /\ \A i, j \in 1..Len(log) :
           i < j => \/ log[i].tx < log[j].tx
                    \/ /\ j = i + 1 /\ log[i].tx = log[j].tx
                       /\ log[i].rec = "begin" /\ log[j].rec = "commit"

SnapshotCovers ==
    IF HasMeta
    THEN /\ meta.generation \in DOMAIN snapshots
         /\ meta.last \in Tx /\ meta.last < clock
         /\ \A t \in Tx : snapshots[meta.generation][t] \in
                              IF t <= meta.last THEN {0, 1} ELSE {0}
         /\ IF meta.compacted
            THEN \A i \in 1..Len(log) :
                     log[i].rec # "marker" => log[i].tx > meta.last
            ELSE \E i \in 1..Len(log) :
                     log[i].tx = meta.last /\ log[i].rec \in {"commit", "marker"}
    ELSE meta = NoMeta /\ \A i \in 1..Len(log) : log[i].rec # "marker"

\* Under LogOrder and SnapshotCovers recovery gives the snapshot and every
\* transaction after it that has a commit record.
HasCommit(t) == \E i \in 1..Len(log) : log[i].rec = "commit" /\ log[i].tx = t

Recovered ==
    [t \in Tx |-> Base[t] + IF t > meta.last /\ HasCommit(t) THEN 1 ELSE 0]

\* Where the thread inside the commit path is, and what it has written.
InCommit == {"repairBegun", "repairCommitted", "begun", "committed"}

CommitPosition ==
    /\ pc \in {"begun", "repairBegun"} =>
           /\ Len(log) > 0
           /\ log[Len(log)].rec = "begin" /\ log[Len(log)].tx = cur.id
    /\ pc \in {"committed", "repairCommitted", "snapshot", "meta", "compact"} =>
           /\ Len(log) > 0
           /\ log[Len(log)].rec = "commit" /\ log[Len(log)].tx = cur.id
    /\ pc = "metaCompacted" =>
           Len(log) = 1 /\ log[1].rec = "marker" /\ log[1].tx = cur.id
    /\ pc \in InCommit \cup SnapshotSteps => outcome[cur.id] = "pending"

GenerationPosition ==
    /\ pc \in {"idle", "repair", "snapshot", "meta"} \cup InCommit =>
           flush.generation = meta.generation
    /\ pc \in {"snapshot", "meta"} \cup InCommit => meta.last < cur.id
    /\ pc = "meta" => /\ NextGeneration \in DOMAIN snapshots
                      /\ snapshots[NextGeneration] = db
    /\ pc \in {"compact", "metaCompacted", "latest"} =>
           meta.generation = NextGeneration /\ meta.last = cur.id
    /\ pc \in {"compact", "metaCompacted"} => ~meta.compacted

ProcessAgrees ==
    /\ pc \in {"idle", "repair", "repairBegun", "committed"} \cup SnapshotSteps =>
           db = Recovered
    /\ pc = "begun" => before = Recovered /\ db = Apply(before, cur.id)
    /\ pc = "repairCommitted" => Recovered = Apply(db, cur.id)
    /\ pc \in {"committed", "repairCommitted"} \cup SnapshotSteps =>
           Recovered[cur.id] = 1

OutcomeAgrees ==
    \A t \in Tx :
        /\ Recovered[t] \in {0, 1}
        /\ outcome[t] \in {"acked", "recovered"} => Recovered[t] = 1
        /\ outcome[t] = "failed" => Recovered[t] = 0

KillInv ==
    /\ TypeInv
    /\ LogOrder
    /\ SnapshotCovers
    /\ CommitPosition
    /\ GenerationPosition
    /\ ProcessAgrees
    /\ OutcomeAgrees

\* Positions of the log: what TypeOK says of a piece.
LEMMA PieceAt ==
    ASSUME DiskTypeOK, NEW i \in 1..Len(log)
    PROVE  log[i].rec \in {"begin", "commit", "marker"} /\ log[i].tx \in Tx
<1>1. log[i] \in Pieces
  BY DEF DiskTypeOK
<1>2. QED
  BY <1>1 DEF Pieces

\* Every line parses.
LEMMA EveryLineParses ==
    ASSUME DiskTypeOK, LogOrder, NEW i \in 1..Len(log)
    PROVE  Parses(log, i)
<1>1. log[i].whole /\ log[i].nl
  BY DEF LogOrder
<1>2. i > 1 => log[i - 1].nl
  BY DEF LogOrder, DiskTypeOK
<1>3. QED
  BY <1>1, <1>2, Zenon DEF Parses, StartsLine, EndsLine

\* The replay starts after a record that is not a begin record, and the commit
\* records behind it are those of the transactions after the snapshot.
LEMMA ReplayStartsAfterSnapshot ==
    ASSUME DiskTypeOK, LogOrder, SnapshotCovers
    PROVE  /\ ReplayStart \in 0..Len(log)
           /\ ReplayStart > 0 => log[ReplayStart].rec # "begin"
           /\ ReplaysAfter => HighWater # {}
           /\ \A i \in 1..Len(log) :
                  log[i].rec = "commit" => (i > ReplayStart <=> log[i].tx > meta.last)
<1>0. Len(log) \in Nat /\ meta.last \in Nat
  BY DEF DiskTypeOK
<1>1. CASE ReplaysAfter
  <2>1. PICK h \in 1..Len(log) :
            log[h].tx = meta.last /\ log[h].rec \in {"commit", "marker"}
    BY <1>1 DEF SnapshotCovers, ReplaysAfter
  <2>2. Parses(log, h)
    BY EveryLineParses
  <2>3. h \in HighWater
    BY <2>1, <2>2 DEF HighWater, IsCommitFor, IsMarkerFor
  <2>4. HighWater \in SUBSET Nat
    BY DEF HighWater
  <2>5. Min(HighWater) \in HighWater
    BY <2>3, <2>4, MinExists
  <2>6. ReplayStart = Min(HighWater)
    BY <1>1, <2>3, Zenon DEF ReplayStart
  <2>7. /\ ReplayStart \in 1..Len(log)
        /\ log[ReplayStart].tx = meta.last
        /\ log[ReplayStart].rec \in {"commit", "marker"}
    BY <2>5, <2>6 DEF HighWater, IsCommitFor, IsMarkerFor
  <2>8. ASSUME NEW i \in 1..Len(log), log[i].rec = "commit"
        PROVE  i > ReplayStart <=> log[i].tx > meta.last
    <3>1. log[i].tx \in Nat
      BY PieceAt
    <3>2. CASE i > ReplayStart
      BY <2>7, <3>1, <3>2, <1>0 DEF LogOrder
    <3>3. CASE i = ReplayStart
      BY <2>7, <3>1, <3>3, <1>0
    <3>4. CASE i < ReplayStart
      BY <2>7, <3>1, <3>4, <1>0 DEF LogOrder
    <3>5. QED
      BY <2>7, <3>2, <3>3, <3>4
  <2>9. QED
    BY <2>3, <2>7, <2>8
<1>2. CASE ~ReplaysAfter
  <2>1. ReplayStart = 0
    BY <1>2 DEF ReplayStart
  <2>2. ASSUME NEW i \in 1..Len(log), log[i].rec = "commit"
        PROVE  log[i].tx > meta.last
    <3>1. log[i].tx \in Tx
      BY PieceAt
    <3>2. CASE HasMeta
      <4>1. meta.compacted
        BY <1>2, <3>2 DEF ReplaysAfter, SnapshotCovers
      <4>2. QED
        BY <2>2, <3>2, <4>1 DEF SnapshotCovers
    <3>3. CASE ~HasMeta
      BY <3>1, <3>3 DEF SnapshotCovers, NoMeta
    <3>4. QED
      BY <3>2, <3>3
  <2>3. QED
    BY <1>0, <1>2, <2>1, <2>2
<1>3. QED
  BY <1>1, <1>2

\* Recovery succeeds and gives Recovered.
LEMMA RecoveryLemma ==
    DiskTypeOK /\ LogOrder /\ SnapshotCovers => LoadOk /\ Loaded = Recovered
<1> SUFFICES ASSUME DiskTypeOK, LogOrder, SnapshotCovers
             PROVE  LoadOk /\ Loaded = Recovered
  OBVIOUS
<1> DEFINE rs == ReplayStart
<1>0. Len(log) \in Nat /\ rs \in 0..Len(log)
  BY ReplayStartsAfterSnapshot DEF DiskTypeOK
<1>1. \A i \in 1..Len(log) : Parses(log, i)
  BY EveryLineParses
<1>2. LoadOk
  <2>1. HasMeta => meta.generation \in DOMAIN snapshots
    BY DEF SnapshotCovers
  <2>2. ReplaysAfter => HighWater # {}
    BY ReplayStartsAfterSnapshot
  <2>3. \A i \in (rs + 1)..Len(log) : Parses(log, i)
    BY <1>0, <1>1
  <2>4. QED
    BY <2>1, <2>2, <2>3, Zenon DEF LoadOk
<1>3. ASSUME NEW t \in Tx PROVE Replays(t) <=> t > meta.last /\ HasCommit(t)
  <2>1. ASSUME Replays(t) PROVE t > meta.last /\ HasCommit(t)
    <3>1. PICK i \in (rs + 1)..Len(log) : IsCommitFor(log, i, t)
      BY <2>1, Zenon DEF Replays
    <3>2. i \in 1..Len(log) /\ i > rs /\ log[i].rec = "commit" /\ log[i].tx = t
      BY <1>0, <3>1 DEF IsCommitFor
    <3>3. QED
      BY <3>2, ReplayStartsAfterSnapshot DEF HasCommit
  <2>2. ASSUME t > meta.last, HasCommit(t) PROVE Replays(t)
    <3>1. PICK i \in 1..Len(log) : log[i].rec = "commit" /\ log[i].tx = t
      BY <2>2, Zenon DEF HasCommit
    <3>2. i > rs
      BY <2>2, <3>1, ReplayStartsAfterSnapshot
    <3>3. i > 1 /\ log[i - 1].rec = "begin" /\ log[i - 1].tx = t
      BY <3>1 DEF LogOrder
    <3>4. i - 1 # rs
      BY <1>0, <3>3, ReplayStartsAfterSnapshot
    <3>5. i \in (rs + 1)..Len(log) /\ i - 1 \in (rs + 1)..Len(log) /\ i - 1 < i
      BY <1>0, <3>2, <3>3, <3>4
    <3>6. i - 1 \in 1..Len(log)
      BY <1>0, <3>3
    <3>7. Parses(log, i) /\ Parses(log, i - 1)
      BY <1>1, <3>6
    <3>8. QED
      BY <3>1, <3>3, <3>5, <3>7, Zenon DEF Replays, IsCommitFor
  <2>3. QED
    BY <2>1, <2>2
<1>4. Loaded = Recovered
  BY <1>3, Zenon DEF Loaded, Recovered
<1>5. QED
  BY <1>2, <1>4

-----------------------------------------------------------------------------
(* What the steps do to the log and to Recovered.                          *)

\* The fields of a record that was appended completely.
LEMMA RecordFields ==
    ASSUME NEW rec, NEW t
    PROVE  /\ Record(rec, t).rec = rec /\ Record(rec, t).tx = t
           /\ Record(rec, t).whole /\ Record(rec, t).nl
BY DEF Record, Piece

\* The log after a record was appended.
LEMMA AppendedLog ==
    ASSUME DiskTypeOK, NEW rec \in {"begin", "commit"}, NEW t \in Tx,
           log' = Append(log, Record(rec, t))
    PROVE  /\ Len(log) \in Nat /\ Len(log') = Len(log) + 1
           /\ \A i \in 1..Len(log) : i \in 1..Len(log') /\ log'[i] = log[i]
           /\ \A i \in 1..Len(log') : i \in 1..Len(log) \/ i = Len(log')
           /\ log'[Len(log')].rec = rec /\ log'[Len(log')].tx = t
           /\ log'[Len(log')].whole /\ log'[Len(log')].nl
<1>1. Record(rec, t) \in Pieces
  BY RecordType
<1>2. log'[Len(log')] = Record(rec, t) /\ Len(log') = Len(log) + 1 /\ Len(log) \in Nat
  BY <1>1 DEF DiskTypeOK
<1>3. \A i \in 1..Len(log) : i \in 1..Len(log') /\ log'[i] = log[i]
  BY <1>1, <1>2 DEF DiskTypeOK
<1>4. \A i \in 1..Len(log') : i \in 1..Len(log) \/ i = Len(log')
  BY <1>2
<1>5. /\ log'[Len(log')].rec = rec /\ log'[Len(log')].tx = t
      /\ log'[Len(log')].whole /\ log'[Len(log')].nl
  <2>1. /\ Record(rec, t).rec = rec /\ Record(rec, t).tx = t
        /\ Record(rec, t).whole /\ Record(rec, t).nl
    BY RecordFields
  <2>2. QED
    BY <1>2, <2>1, Zenon
<1>6. QED
  BY <1>2, <1>3, <1>4, <1>5, Zenon

\* A begin record with a new transaction id does not change what is recovered.
LEMMA BeginAppended ==
    ASSUME DiskTypeOK, LogOrder, SnapshotCovers, clock \in Tx,
           log' = Append(log, Record("begin", clock)), clock' = clock + 1,
           UNCHANGED <<snapshots, meta>>
    PROVE  /\ LogOrder' /\ SnapshotCovers' /\ Recovered' = Recovered
           /\ Len(log') > 0 /\ log'[Len(log')].rec = "begin"
           /\ log'[Len(log')].tx = clock
<1> DEFINE n == Len(log')
<1>1. /\ Len(log) \in Nat /\ n = Len(log) + 1
      /\ \A i \in 1..Len(log) : i \in 1..n /\ log'[i] = log[i]
      /\ \A i \in 1..n : i \in 1..Len(log) \/ i = n
      /\ log'[n].rec = "begin" /\ log'[n].tx = clock
      /\ log'[n].whole /\ log'[n].nl
  BY AppendedLog
<1> HIDE DEF n
<1>2. \A i \in 1..Len(log) : log[i].tx \in Nat /\ log[i].tx < clock
  BY PieceAt DEF LogOrder
<1>3. LogOrder'
  <2>1. \A i \in 1..n : log'[i].whole /\ log'[i].nl
    BY <1>1, Zenon DEF LogOrder
  <2>2. \A i \in 1..n : log'[i].tx < clock'
    BY <1>1, <1>2
  <2>3. \A i \in 1..n : log'[i].rec = "marker" => i = 1
    BY <1>1 DEF LogOrder
  <2>4. ASSUME NEW i \in 1..n, log'[i].rec = "commit"
        PROVE  i > 1 /\ log'[i - 1].rec = "begin" /\ log'[i - 1].tx = log'[i].tx
    <3>1. i \in 1..Len(log) /\ log'[i] = log[i]
      BY <1>1, <2>4
    <3>2. i > 1 /\ log[i - 1].rec = "begin" /\ log[i - 1].tx = log[i].tx
      BY <2>4, <3>1 DEF LogOrder
    <3>3. i - 1 \in 1..Len(log)
      BY <1>1, <3>1, <3>2
    <3>4. QED
      BY <1>1, <3>1, <3>2, <3>3
  <2>5. ASSUME NEW i \in 1..n, NEW j \in 1..n, i < j
        PROVE  \/ log'[i].tx < log'[j].tx
               \/ /\ j = i + 1 /\ log'[i].tx = log'[j].tx
                  /\ log'[i].rec = "begin" /\ log'[j].rec = "commit"
    <3>1. i \in 1..Len(log) /\ log'[i] = log[i]
      BY <1>1, <2>5
    <3>2. CASE j \in 1..Len(log)
      BY <1>1, <2>5, <3>1, <3>2 DEF LogOrder
    <3>3. CASE j = n
      BY <1>1, <1>2, <3>1, <3>3
    <3>4. QED
      BY <1>1, <3>2, <3>3
  <2>6. QED
    BY <2>1, <2>2, <2>3, <2>4, <2>5 DEF LogOrder, n
<1>4. SnapshotCovers'
  <2>1. CASE HasMeta
    <3>1. meta'.last < clock' /\ meta'.last < clock
      BY <2>1 DEF SnapshotCovers
    <3>2. CASE meta.compacted
      <4>1. \A i \in 1..n : log'[i].rec # "marker" => log'[i].tx > meta'.last
        BY <1>1, <2>1, <3>1, <3>2 DEF SnapshotCovers
      <4>2. QED
        BY <2>1, <3>1, <3>2, <4>1 DEF SnapshotCovers, HasMeta, n
    <3>3. CASE ~meta.compacted
      <4>1. \E i \in 1..n : log'[i].tx = meta'.last /\ log'[i].rec \in {"commit", "marker"}
        BY <1>1, <2>1, <3>3 DEF SnapshotCovers
      <4>2. QED
        BY <2>1, <3>1, <3>3, <4>1 DEF SnapshotCovers, HasMeta, n
    <3>4. QED
      BY <3>2, <3>3
  <2>2. CASE ~HasMeta
    BY <1>1, <2>2 DEF SnapshotCovers, HasMeta, n
  <2>3. QED
    BY <2>1, <2>2
<1>5. Recovered' = Recovered
  <2>1. \A t \in Tx : HasCommit(t)' <=> HasCommit(t)
    BY <1>1 DEF HasCommit, n
  <2>2. Base' = Base
    BY DEF Base, HasMeta
  <2>3. QED
    BY <2>1, <2>2, Zenon DEF Recovered
<1>6. QED
  BY <1>1, <1>3, <1>4, <1>5 DEF n

\* The commit record of the transaction whose begin record is the last one adds
\* this transaction, and nothing else, to what is recovered.
LEMMA CommitAppended ==
    ASSUME DiskTypeOK, LogOrder, SnapshotCovers, NEW t \in Tx,
           Len(log) > 0, log[Len(log)].rec = "begin", log[Len(log)].tx = t,
           meta.last < t,
           log' = Append(log, Record("commit", t)), clock' = clock,
           UNCHANGED <<snapshots, meta>>
    PROVE  /\ LogOrder' /\ SnapshotCovers'
           /\ Recovered[t] = 0 /\ Recovered' = Apply(Recovered, t)
           /\ Len(log') > 0 /\ log'[Len(log')].rec = "commit"
           /\ log'[Len(log')].tx = t
<1> DEFINE n == Len(log')
<1>1. /\ Len(log) \in Nat /\ n = Len(log) + 1
      /\ \A i \in 1..Len(log) : i \in 1..n /\ log'[i] = log[i]
      /\ \A i \in 1..n : i \in 1..Len(log) \/ i = n
      /\ log'[n].rec = "commit" /\ log'[n].tx = t
      /\ log'[n].whole /\ log'[n].nl
  BY AppendedLog
<1> HIDE DEF n
<1>a. Len(log) \in 1..Len(log) /\ log'[Len(log)] = log[Len(log)] /\ meta.last \in Nat
  BY <1>1 DEF DiskTypeOK
<1>2. \A i \in 1..Len(log) : log[i].tx \in Nat /\ log[i].tx <= t
  <2> SUFFICES ASSUME NEW i \in 1..Len(log) PROVE log[i].tx \in Nat /\ log[i].tx <= t
    OBVIOUS
  <2>1. log[i].tx \in Nat
    BY PieceAt
  <2>2. CASE i = Len(log)
    BY <2>2, <2>1
  <2>3. CASE i < Len(log)
    BY <1>a, <2>1, <2>3 DEF LogOrder
  <2>4. QED
    BY <1>1, <2>1, <2>2, <2>3
<1>3. LogOrder'
  <2>1. \A i \in 1..n : log'[i].whole /\ log'[i].nl
    BY <1>1, Zenon DEF LogOrder
  <2>2. \A i \in 1..n : log'[i].tx < clock'
    BY <1>1, <1>a DEF LogOrder
  <2>3. \A i \in 1..n : log'[i].rec = "marker" => i = 1
    BY <1>1 DEF LogOrder
  <2>4. ASSUME NEW i \in 1..n, log'[i].rec = "commit"
        PROVE  i > 1 /\ log'[i - 1].rec = "begin" /\ log'[i - 1].tx = log'[i].tx
    <3>1. CASE i \in 1..Len(log)
      <4>1. i > 1 /\ log[i - 1].rec = "begin" /\ log[i - 1].tx = log[i].tx
        BY <1>1, <2>4, <3>1 DEF LogOrder
      <4>2. i - 1 \in 1..Len(log)
        BY <1>1, <3>1, <4>1
      <4>3. QED
        BY <1>1, <3>1, <4>1, <4>2
    <3>2. CASE i = n
      BY <1>1, <1>a, <3>2
    <3>3. QED
      BY <1>1, <3>1, <3>2
  <2>5. ASSUME NEW i \in 1..n, NEW j \in 1..n, i < j
        PROVE  \/ log'[i].tx < log'[j].tx
               \/ /\ j = i + 1 /\ log'[i].tx = log'[j].tx
                  /\ log'[i].rec = "begin" /\ log'[j].rec = "commit"
    <3>1. i \in 1..Len(log) /\ log'[i] = log[i]
      BY <1>1, <2>5
    <3>2. CASE j \in 1..Len(log)
      BY <1>1, <2>5, <3>1, <3>2 DEF LogOrder
    <3>3. CASE j = n /\ i = Len(log)
      BY <1>1, <1>a, <3>3
    <3>4. CASE j = n /\ i < Len(log)
      <4>1. log[i].tx < t
        BY <1>a, <3>1, <3>4 DEF LogOrder
      <4>2. QED
        BY <1>1, <3>1, <3>4, <4>1
    <3>5. QED
      BY <1>1, <3>1, <3>2, <3>3, <3>4
  <2>6. QED
    BY <2>1, <2>2, <2>3, <2>4, <2>5 DEF LogOrder, n
<1>4. SnapshotCovers'
  <2>1. CASE HasMeta
    <3>1. meta'.last < clock' /\ meta'.last < t
      BY <2>1 DEF SnapshotCovers
    <3>2. CASE meta.compacted
      <4>1. \A i \in 1..n : log'[i].rec # "marker" => log'[i].tx > meta'.last
        BY <1>1, <2>1, <3>1, <3>2 DEF SnapshotCovers
      <4>2. QED
        BY <2>1, <3>1, <3>2, <4>1 DEF SnapshotCovers, HasMeta, n
    <3>3. CASE ~meta.compacted
      <4>1. \E i \in 1..n : log'[i].tx = meta'.last /\ log'[i].rec \in {"commit", "marker"}
        BY <1>1, <2>1, <3>3 DEF SnapshotCovers
      <4>2. QED
        BY <2>1, <3>1, <3>3, <4>1 DEF SnapshotCovers, HasMeta, n
    <3>4. QED
      BY <3>2, <3>3
  <2>2. CASE ~HasMeta
    BY <1>1, <2>2 DEF SnapshotCovers, HasMeta, n
  <2>3. QED
    BY <2>1, <2>2
<1>5. ~HasCommit(t)
  <2>1. SUFFICES ASSUME NEW i \in 1..Len(log), log[i].rec = "commit", log[i].tx = t
                 PROVE  FALSE
    BY Zenon DEF HasCommit
  <2>2. i < Len(log)
    BY <1>1, <2>1
  <2>3. QED
    BY <1>a, <1>2, <2>1, <2>2 DEF LogOrder
<1>6. Base[t] = 0
  BY DEF Base, SnapshotCovers, EmptyDb
<1>7. Recovered[t] = 0
  BY <1>5, <1>6 DEF Recovered
<1>8. Base' = Base
  BY DEF Base, HasMeta
<1>9. \A u \in Tx : HasCommit(u)' <=> HasCommit(u) \/ u = t
  BY <1>1 DEF HasCommit, n
<1>10. Recovered' = Apply(Recovered, t)
  <2>1. Recovered' = [u \in Tx |-> IF u = t THEN 1 ELSE Recovered[u]]
    <3>1. \A u \in Tx : Base'[u] + (IF u > meta'.last /\ HasCommit(u)' THEN 1 ELSE 0)
                        = IF u = t THEN 1 ELSE Recovered[u]
      BY <1>6, <1>8, <1>9 DEF Recovered
    <3>2. QED
      BY <3>1, Zenon DEF Recovered
  <2>2. Apply(Recovered, t) = [u \in Tx |-> IF u = t THEN 1 ELSE Recovered[u]]
    <3>1. Recovered = [u \in Tx |-> Recovered[u]]
      BY Zenon DEF Recovered
    <3>2. Recovered[t] + 1 = 1
      BY <1>7
    <3>3. Apply(Recovered, t) = [Recovered EXCEPT ![t] = 1]
      BY <3>2, Zenon DEF Apply
    <3>4. QED
      BY <3>1, <3>3, Zenon
  <2>3. QED
    BY <2>1, <2>2
<1>11. QED
  BY <1>1, <1>3, <1>4, <1>7, <1>10 DEF n

\* A new generation file does not touch the one the metadata names.
LEMMA NewGeneration ==
    ASSUME TypeOK, SnapshotCovers, flush.generation = meta.generation,
           GenerationFileWritten, clock' = clock
    PROVE  /\ SnapshotCovers' /\ Recovered' = Recovered
           /\ NextGeneration \in DOMAIN snapshots' /\ snapshots'[NextGeneration] = db
<1>1. NextGeneration \in Nat /\ NextGeneration # meta.generation
  BY DEF TypeOK, ProcessTypeOK, FlushStates, NextGeneration
<1>2. /\ DOMAIN snapshots' = DOMAIN snapshots \cup {NextGeneration}
      /\ snapshots'[NextGeneration] = db
      /\ meta.generation \in DOMAIN snapshots =>
             snapshots'[meta.generation] = snapshots[meta.generation]
  BY <1>1 DEF GenerationFileWritten
<1>3. log' = log /\ meta' = meta
  BY DEF GenerationFileWritten
<1>4. SnapshotCovers'
  BY <1>2, <1>3 DEF SnapshotCovers, HasMeta
<1>5. Base' = Base
  BY <1>2, <1>3 DEF Base, HasMeta, SnapshotCovers
<1>6. \A t \in Tx : HasCommit(t)' <=> HasCommit(t)
  BY <1>3, Zenon DEF HasCommit
<1>7. Recovered' = Recovered
  BY <1>3, <1>5, <1>6, Zenon DEF Recovered
<1>8. QED
  BY <1>2, <1>4, <1>7

\* No record of the log is newer than the last one.
LEMMA LastIsNewest ==
    ASSUME DiskTypeOK, LogOrder, NEW t \in Tx, Len(log) > 0, log[Len(log)].tx = t
    PROVE  /\ \A i \in 1..Len(log) : log[i].tx \in Nat /\ log[i].tx <= t
           /\ \A u \in Tx : u > t => ~HasCommit(u)
           /\ t < clock
<1>1. Len(log) \in 1..Len(log)
  BY DEF DiskTypeOK
<1>2. ASSUME NEW i \in 1..Len(log) PROVE log[i].tx \in Nat /\ log[i].tx <= t
  <2>1. log[i].tx \in Nat
    BY PieceAt
  <2>2. CASE i = Len(log)
    BY <2>2, <2>1
  <2>3. CASE i < Len(log)
    BY <1>1, <2>1, <2>3 DEF LogOrder
  <2>4. QED
    BY <1>1, <2>1, <2>2, <2>3
<1>3. \A u \in Tx : u > t => ~HasCommit(u)
  BY <1>2 DEF HasCommit
<1>4. QED
  BY <1>1, <1>2, <1>3 DEF LogOrder

\* The metadata switches to a snapshot of the recovered state, which the log
\* still leads up to.
LEMMA MetadataSwitches ==
    ASSUME TypeOK, LogOrder, SnapshotCovers, OutcomeAgrees, NEW t \in Tx,
           Len(log) > 0, log[Len(log)].rec = "commit", log[Len(log)].tx = t,
           meta.last < t, flush.last = t,
           NextGeneration \in DOMAIN snapshots, snapshots[NextGeneration] = Recovered,
           MetadataWritten(FALSE), clock' = clock
    PROVE  SnapshotCovers' /\ Recovered' = Recovered
<1>0. meta.last \in Nat
  BY DEF TypeOK, DiskTypeOK
<1>1. /\ meta'.generation = NextGeneration /\ meta'.last = t /\ ~meta'.compacted
      /\ log' = log /\ snapshots' = snapshots
  BY DEF MetadataWritten
<1>2. NextGeneration # 0
  BY DEF TypeOK, ProcessTypeOK, FlushStates, NextGeneration
<1>3. (\A u \in Tx : u > t => ~HasCommit(u)) /\ t < clock
  BY LastIsNewest DEF TypeOK
<1>4. \A u \in Tx : u > t => Recovered[u] = 0
  <2> SUFFICES ASSUME NEW u \in Tx, u > t PROVE Recovered[u] = 0
    OBVIOUS
  <2>1. Base[u] = 0
    BY <1>0 DEF Base, SnapshotCovers, EmptyDb
  <2>2. QED
    BY <1>3, <2>1 DEF Recovered
<1>5. SnapshotCovers'
  <2>1. \A u \in Tx : snapshots'[meta'.generation][u] \in
                          IF u <= meta'.last THEN {0, 1} ELSE {0}
    BY <1>1, <1>4 DEF OutcomeAgrees
  <2>2. \E i \in 1..Len(log') : log'[i].tx = meta'.last /\ log'[i].rec \in {"commit", "marker"}
    <3>1. Len(log) \in 1..Len(log)
      BY DEF TypeOK, DiskTypeOK
    <3>2. QED
      BY <1>1, <3>1
  <2>3. HasMeta'
    BY <1>1, <1>2 DEF HasMeta
  <2>4. QED
    BY <1>1, <1>3, <2>1, <2>2, <2>3 DEF SnapshotCovers
<1>6. Recovered' = Recovered
  <2>1. Base' = Recovered
    BY <1>1, <1>2 DEF Base, HasMeta
  <2>2. \A u \in Tx : HasCommit(u)' <=> HasCommit(u)
    BY <1>1, Zenon DEF HasCommit
  <2>3. \A u \in Tx : Base'[u] + (IF u > meta'.last /\ HasCommit(u)' THEN 1 ELSE 0)
                      = Recovered[u]
    BY <1>1, <1>3, <2>1, <2>2 DEF OutcomeAgrees
  <2>4. Recovered = [u \in Tx |-> Recovered[u]]
    BY Zenon DEF Recovered
  <2>5. Recovered' = [u \in Tx |-> Recovered[u]]
    BY <2>3, Zenon DEF Recovered
  <2>6. QED
    BY <2>4, <2>5
<1>7. QED
  BY <1>5, <1>6

\* Compaction right after the commit leaves the marker alone.
LEMMA LogCut ==
    ASSUME TypeOK, LogOrder, SnapshotCovers, NEW t \in Tx,
           Len(log) > 0, log[Len(log)].rec = "commit", log[Len(log)].tx = t,
           HasMeta, meta.last = t, ~meta.compacted, flush.last = t
    PROVE  /\ CommitRecords # {}
           /\ LogCompacted /\ clock' = clock =>
                  /\ LogOrder' /\ SnapshotCovers' /\ Recovered' = Recovered
                  /\ Len(log') = 1 /\ log'[1].rec = "marker" /\ log'[1].tx = t
<1>1. Len(log) \in 1..Len(log) /\ Len(log) \in Nat
  BY DEF TypeOK, DiskTypeOK
<1>2. Len(log) \in CommitRecords
  BY <1>1, EveryLineParses DEF CommitRecords, IsCommitFor, TypeOK
<1>3. Min(CommitRecords) = Len(log)
  <2>1. CommitRecords \in SUBSET Nat
    BY DEF CommitRecords
  <2>2. Min(CommitRecords) \in CommitRecords
    BY <1>2, <2>1, MinExists
  <2>3. ASSUME NEW i \in CommitRecords PROVE i = Len(log)
    <3>1. i \in 1..Len(log) /\ log[i].rec = "commit" /\ log[i].tx = t
      BY <2>3 DEF CommitRecords, IsCommitFor
    <3>2. CASE i < Len(log)
      BY <1>1, <3>1, <3>2 DEF LogOrder
    <3>3. QED
      BY <1>1, <3>1, <3>2
  <2>4. QED
    BY <2>2, <2>3
<1>4. SUFFICES ASSUME LogCompacted, clock' = clock
               PROVE  /\ LogOrder' /\ SnapshotCovers' /\ Recovered' = Recovered
                      /\ Len(log') = 1 /\ log'[1].rec = "marker" /\ log'[1].tx = t
  BY <1>2
<1>5. log' = <<Record("marker", t)>>
  <2>1. SubSeq(log, Len(log) + 1, Len(log)) = <<>>
    BY <1>1 DEF TypeOK, DiskTypeOK
  <2>2. Record("marker", t) \in Pieces
    BY RecordType
  <2>3. log' = <<Record("marker", t)>> \o <<>>
    BY <1>3, <1>4, <2>1 DEF LogCompacted
  <2>4. QED
    BY <2>2, <2>3
<1>6. log'[1] = Record("marker", t) /\ Len(log') = 1
  BY <1>5
<1>7. /\ log'[1].rec = "marker" /\ log'[1].tx = t /\ log'[1].whole /\ log'[1].nl
  <2>1. /\ Record("marker", t).rec = "marker" /\ Record("marker", t).tx = t
        /\ Record("marker", t).whole /\ Record("marker", t).nl
    BY RecordFields
  <2>2. QED
    BY <1>6, <2>1, Zenon
<1>8. LogOrder'
  <2>1. t < clock
    BY LastIsNewest DEF TypeOK
  <2>2. \A i \in 1..Len(log') : i = 1
    BY <1>6
  <2>3. QED
    BY <1>4, <1>6, <1>7, <2>1, <2>2 DEF LogOrder
<1>9. meta' = meta /\ snapshots' = snapshots
  BY <1>4 DEF LogCompacted
<1>10. SnapshotCovers'
  <2>1. \E i \in 1..Len(log') : log'[i].tx = meta'.last /\ log'[i].rec \in {"commit", "marker"}
    BY <1>6, <1>7, <1>9
  <2>2. QED
    BY <1>4, <1>9, <2>1 DEF SnapshotCovers, HasMeta
<1>11. Recovered' = Recovered
  <2>1. Base' = Base
    BY <1>9 DEF Base, HasMeta
  <2>2. \A u \in Tx : u > meta.last => ~HasCommit(u)
    BY LastIsNewest DEF TypeOK
  <2>3. \A u \in Tx : ~HasCommit(u)'
    BY <1>6, <1>7 DEF HasCommit
  <2>4. \A u \in Tx : (u > meta'.last /\ HasCommit(u)') <=> (u > meta.last /\ HasCommit(u))
    BY <1>9, <2>2, <2>3, Zenon
  <2>5. QED
    BY <2>1, <2>4, Zenon DEF Recovered
<1>12. QED
  BY <1>6, <1>7, <1>8, <1>10, <1>11

\* The metadata says log_compacted once the log is the marker alone.
LEMMA MetadataCompacted ==
    ASSUME TypeOK, SnapshotCovers, NEW t \in Tx,
           Len(log) = 1, log[1].rec = "marker",
           HasMeta, meta.generation = NextGeneration, meta.last = t, flush.last = t,
           MetadataWritten(TRUE), clock' = clock
    PROVE  SnapshotCovers' /\ Recovered' = Recovered
<1>1. /\ meta'.generation = meta.generation /\ meta'.last = meta.last
      /\ log' = log /\ snapshots' = snapshots
  BY DEF MetadataWritten
<1>a. meta'.compacted
  BY DEF MetadataWritten
<1>2. SnapshotCovers'
  <2>1. \A i \in 1..Len(log') : log'[i].rec # "marker" => log'[i].tx > meta'.last
    <3>a. \A i \in 1..1 : i = 1
      OBVIOUS
    <3>b. Len(log') = 1
      BY <1>1
    <3>1. \A i \in 1..Len(log') : i = 1
      BY <3>a, <3>b, Zenon
    <3>2. QED
      BY <1>1, <3>1, Zenon
  <2>2. /\ HasMeta' /\ meta'.generation \in DOMAIN snapshots'
        /\ meta'.last \in Tx /\ meta'.last < clock'
        /\ \A u \in Tx : snapshots'[meta'.generation][u] \in
                             IF u <= meta'.last THEN {0, 1} ELSE {0}
    BY <1>1 DEF SnapshotCovers, HasMeta
  <2>3. QED
    BY <1>a, <2>1, <2>2, Zenon DEF SnapshotCovers
<1>3. Base' = Base
  BY <1>1 DEF Base, HasMeta
<1>4. \A u \in Tx : HasCommit(u)' <=> HasCommit(u)
  BY <1>1, Zenon DEF HasCommit
<1>5. QED
  BY <1>1, <1>2, <1>3, <1>4, Zenon DEF Recovered

\* Steps that leave the log, the metadata and the snapshot files alone.
LEMMA RecoveredUnchanged ==
    ASSUME LogOrder, SnapshotCovers, log' = log, meta' = meta,
           snapshots' = snapshots, clock' = clock
    PROVE  LogOrder' /\ SnapshotCovers' /\ Recovered' = Recovered
<1>1. LogOrder'
  BY Zenon DEF LogOrder
<1>2. SnapshotCovers'
  BY Zenon DEF SnapshotCovers, HasMeta
<1>3. Recovered' = Recovered
  BY Zenon DEF Recovered, Base, HasMeta, HasCommit
<1>4. QED
  BY <1>1, <1>2, <1>3

\* The client's answer agrees with what is recovered.
LEMMA AcknowledgeAgrees ==
    ASSUME TypeInv, OutcomeAgrees, Acknowledge, Recovered' = Recovered,
           Recovered[cur.id] = 1, cur.id \in Tx
    PROVE  /\ OutcomeAgrees' /\ CommitPosition' /\ pc' = "idle"
<1>1. outcome' = [outcome EXCEPT ![cur.id] = "acked"] /\ outcome \in [Tx -> Outcomes]
  BY DEF Acknowledge, TypeInv, TypeOK, HistoryTypeOK
<1>2. \A t \in Tx : outcome'[t] = IF t = cur.id THEN "acked" ELSE outcome[t]
  BY <1>1
<1>3. OutcomeAgrees'
  BY <1>2 DEF OutcomeAgrees
<1>4. pc' = "idle"
  BY DEF Acknowledge
<1>5. CommitPosition'
  BY <1>4 DEF CommitPosition, InCommit, SnapshotSteps
<1>6. QED
  BY <1>3, <1>4, <1>5

\* A new data directory satisfies the inductive invariant.
LEMMA InitKill == Init => KillInv
<1> SUFFICES ASSUME Init PROVE KillInv
  OBVIOUS
<1>1. TypeInv
  BY InitType
<1>2. Len(log) = 0 /\ \A i \in 1..Len(log) : FALSE
  BY DEF Init
<1>3. LogOrder
  BY <1>2, Zenon DEF LogOrder
<1>4. ~HasMeta /\ meta = NoMeta
  BY DEF Init, HasMeta, NoMeta
<1>5. SnapshotCovers
  BY <1>2, <1>4, Zenon DEF SnapshotCovers
<1>6. \A t \in Tx : Recovered[t] = 0
  <2>1. \A t \in Tx : ~HasCommit(t)
    BY <1>2, Zenon DEF HasCommit
  <2>2. QED
    BY <1>4, <2>1 DEF Recovered, Base, EmptyDb
<1>7. OutcomeAgrees
  BY <1>6 DEF OutcomeAgrees, Init
<1>8. CommitPosition /\ GenerationPosition /\ ProcessAgrees
  BY DEF Init, CommitPosition, GenerationPosition, ProcessAgrees, InCommit, SnapshotSteps
<1>9. QED
  BY <1>1, <1>3, <1>5, <1>7, <1>8 DEF KillInv

\* Without faults other than kills, every action preserves the inductive
\* invariant: the core of the recovery argument, one step for each action.
LEMMA StepKill ==
    ASSUME Faults = {}
    PROVE  KillInv /\ [Next]_vars => KillInv'
<1> SUFFICES ASSUME KillInv, [Next]_vars PROVE KillInv'
  OBVIOUS
<1> USE DEF KillInv
<1>0. TypeInv'
  BY StepType
<1>1. CASE Open
  <2>1. LogOrder' /\ SnapshotCovers' /\ Recovered' = Recovered
    BY <1>1, RecoveredUnchanged DEF Open, disk
  <2>2. Loaded = Recovered
    BY RecoveryLemma DEF TypeInv, TypeOK
  <2>3. /\ pc' \in {"idle", "repair"} /\ db' = Recovered
        /\ flush'.generation = meta'.generation
    BY <1>1, <2>2 DEF Open, disk
  <2>4. CommitPosition' /\ GenerationPosition' /\ ProcessAgrees'
    BY <2>1, <2>3
    DEF CommitPosition, GenerationPosition, ProcessAgrees, InCommit, SnapshotSteps
  <2>5. OutcomeAgrees'
    <3>1. \A t \in Tx : outcome'[t] =
              IF outcome[t] # "doubt" THEN outcome[t]
              ELSE IF Recovered[t] > 0 THEN "recovered" ELSE "failed"
      BY <1>1, <2>2 DEF Open
    <3>2. QED
      BY <2>1, <3>1 DEF OutcomeAgrees
  <2>6. QED
    BY <1>0, <2>1, <2>4, <2>5
<1>2. CASE OpenRejected \/ UNCHANGED vars
  <2>1. UNCHANGED vars
    BY <1>2 DEF OpenRejected
  <2>2. LogOrder' /\ SnapshotCovers' /\ Recovered' = Recovered
    BY <2>1, RecoveredUnchanged DEF vars, disk, history
  <2>3. CommitPosition' /\ GenerationPosition' /\ ProcessAgrees' /\ OutcomeAgrees'
    BY <2>1, <2>2, Zenon
    DEF vars, disk, volatile, history, CommitPosition, GenerationPosition,
        ProcessAgrees, OutcomeAgrees, NextGeneration
  <2>4. QED
    BY <1>0, <2>2, <2>3
<1>3. CASE RepairBegin \/ Begin
  <2>1. /\ clock \in Tx /\ clock' = clock + 1
        /\ log' = Append(log, Record("begin", clock))
        /\ UNCHANGED <<snapshots, meta, flush>>
        /\ outcome' = [outcome EXCEPT ![clock] = "pending"]
        /\ cur'.id = clock
    BY <1>3 DEF RepairBegin, Begin
  <2>2. /\ LogOrder' /\ SnapshotCovers' /\ Recovered' = Recovered
        /\ Len(log') > 0 /\ log'[Len(log')].rec = "begin" /\ log'[Len(log')].tx = clock
    BY <2>1, BeginAppended DEF TypeInv, TypeOK
  <2>3. \A t \in Tx : outcome'[t] = IF t = clock THEN "pending" ELSE outcome[t]
    BY <2>1 DEF TypeInv, TypeOK, HistoryTypeOK
  <2>4. OutcomeAgrees'
    BY <2>2, <2>3 DEF OutcomeAgrees
  <2>5. pc' \in {"begun", "repairBegun"}
    BY <1>3 DEF RepairBegin, Begin
  <2>6. CommitPosition'
    BY <2>1, <2>2, <2>3, <2>5 DEF CommitPosition, InCommit, SnapshotSteps
  <2>7. meta'.last < cur'.id
    BY <2>1 DEF SnapshotCovers, NoMeta
  <2>8. flush'.generation = meta'.generation
    BY <1>3, <2>1 DEF RepairBegin, Begin, GenerationPosition, InCommit
  <2>9. GenerationPosition'
    BY <2>5, <2>7, <2>8 DEF GenerationPosition, InCommit
  <2>10. ProcessAgrees'
    <3>1. CASE RepairBegin
      BY <2>2, <3>1 DEF RepairBegin, ProcessAgrees, SnapshotSteps
    <3>2. CASE Begin
      BY <2>2, <2>1, <3>2 DEF Begin, ProcessAgrees, SnapshotSteps
    <3>3. QED
      BY <1>3, <3>1, <3>2
  <2>11. QED
    BY <1>0, <2>2, <2>4, <2>6, <2>9, <2>10
<1>4. CASE RepairCommit \/ Commit
  <2>1. /\ pc \in {"begun", "repairBegun"} /\ cur.id \in Tx
        /\ log' = Append(log, Record("commit", cur.id))
        /\ clock' = clock /\ outcome' = outcome /\ cur' = cur /\ db' = db
        /\ UNCHANGED <<snapshots, meta, flush>>
        /\ pc' = IF pc = "begun" THEN "committed" ELSE "repairCommitted"
    BY <1>4
    DEF RepairCommit, Commit, volatile, history, TypeInv, CommitInProgress
  <2>2. /\ Len(log) > 0 /\ log[Len(log)].rec = "begin" /\ log[Len(log)].tx = cur.id
        /\ meta.last < cur.id
    BY <2>1 DEF CommitPosition, GenerationPosition, InCommit
  <2>3. /\ LogOrder' /\ SnapshotCovers'
        /\ Recovered[cur.id] = 0 /\ Recovered' = Apply(Recovered, cur.id)
        /\ Len(log') > 0 /\ log'[Len(log')].rec = "commit" /\ log'[Len(log')].tx = cur.id
    BY <2>1, <2>2, CommitAppended DEF TypeInv, TypeOK
  <2>4. \A t \in Tx : Recovered'[t] = IF t = cur.id THEN 1 ELSE Recovered[t]
    <3>1. Recovered = [u \in Tx |-> Recovered[u]]
      BY Zenon DEF Recovered
    <3>2. \A t \in Tx : Apply(Recovered, cur.id)[t] =
              IF t = cur.id THEN Recovered[t] + 1 ELSE Recovered[t]
      BY <3>1, Zenon DEF Apply
    <3>3. QED
      BY <2>3, <3>2
  <2>5. outcome[cur.id] = "pending"
    BY <2>1 DEF CommitPosition, InCommit
  <2>6. OutcomeAgrees'
    BY <2>1, <2>4, <2>5 DEF OutcomeAgrees
  <2>7. CommitPosition' /\ GenerationPosition'
    BY <2>1, <2>2, <2>3, <2>5
    DEF CommitPosition, GenerationPosition, InCommit, SnapshotSteps
  <2>8. ProcessAgrees'
    BY <2>1, <2>3, <2>4 DEF ProcessAgrees, SnapshotSteps
  <2>9. QED
    BY <1>0, <2>3, <2>6, <2>7, <2>8
<1>5. CASE RepairApply
  <2>1. LogOrder' /\ SnapshotCovers' /\ Recovered' = Recovered
    BY <1>5, RecoveredUnchanged DEF RepairApply
  <2>2. Recovered[cur.id] = 1 /\ cur.id \in Tx
    BY <1>5 DEF RepairApply, ProcessAgrees, TypeInv, CommitInProgress
  <2>3. OutcomeAgrees' /\ CommitPosition' /\ pc' = "idle"
    BY <1>5, <2>1, <2>2, AcknowledgeAgrees DEF RepairApply, Acknowledge
  <2>4. GenerationPosition'
    BY <1>5 DEF RepairApply, GenerationPosition, InCommit
  <2>5. ProcessAgrees'
    BY <1>5, <2>1 DEF RepairApply, ProcessAgrees, SnapshotSteps
  <2>6. QED
    BY <1>0, <2>1, <2>3, <2>4, <2>5
<1>6. CASE AfterCommit
  <2>1. LogOrder' /\ SnapshotCovers' /\ Recovered' = Recovered
    BY <1>6, RecoveredUnchanged DEF AfterCommit, disk
  <2>2. Recovered[cur.id] = 1 /\ cur.id \in Tx
    BY <1>6 DEF AfterCommit, ProcessAgrees, TypeInv, CommitInProgress
  <2>3. db' = Recovered /\ flush'.generation = meta'.generation /\ meta' = meta /\ log' = log
    BY <1>6 DEF AfterCommit, ProcessAgrees, GenerationPosition, InCommit, disk
  <2>4. CASE Acknowledge
    <3>1. OutcomeAgrees' /\ CommitPosition' /\ pc' = "idle"
      BY <2>1, <2>2, <2>4, AcknowledgeAgrees
    <3>2. GenerationPosition' /\ ProcessAgrees'
      BY <2>1, <2>3, <3>1
      DEF GenerationPosition, ProcessAgrees, InCommit, SnapshotSteps
    <3>3. QED
      BY <1>0, <2>1, <3>1, <3>2
  <2>5. CASE pc' = "snapshot" /\ UNCHANGED <<cur, outcome>>
    <3>1. OutcomeAgrees'
      BY <2>1, <2>5 DEF OutcomeAgrees
    <3>2. CommitPosition' /\ GenerationPosition'
      BY <1>6, <2>3, <2>5
      DEF AfterCommit, CommitPosition, GenerationPosition, InCommit, SnapshotSteps
    <3>3. ProcessAgrees'
      BY <2>1, <2>2, <2>3, <2>5 DEF ProcessAgrees, SnapshotSteps
    <3>4. QED
      BY <1>0, <2>1, <3>1, <3>2, <3>3
  <2>6. QED
    BY <1>6, <2>4, <2>5 DEF AfterCommit
<1>7. CASE WriteGenerationSnapshot
  <2>1. /\ SnapshotCovers' /\ Recovered' = Recovered
        /\ NextGeneration \in DOMAIN snapshots' /\ snapshots'[NextGeneration] = db
    BY <1>7, NewGeneration DEF WriteGenerationSnapshot, GenerationPosition, TypeInv
  <2>2. LogOrder'
    BY <1>7, Zenon DEF WriteGenerationSnapshot, GenerationFileWritten, LogOrder
  <2>3. /\ UNCHANGED <<log, meta, db, cur, flush, outcome>> /\ pc = "snapshot" /\ pc' = "meta"
    BY <1>7 DEF WriteGenerationSnapshot, GenerationFileWritten, volatile
  <2>4. CommitPosition' /\ GenerationPosition'
    BY <2>1, <2>3
    DEF CommitPosition, GenerationPosition, NextGeneration, InCommit, SnapshotSteps
  <2>5. ProcessAgrees' /\ OutcomeAgrees'
    BY <2>1, <2>3 DEF ProcessAgrees, OutcomeAgrees, SnapshotSteps
  <2>6. QED
    BY <1>0, <2>1, <2>2, <2>4, <2>5
<1>8. CASE WriteMetadata
  <2>1. /\ UNCHANGED <<log, snapshots, db, cur, flush, outcome, clock>>
        /\ pc = "meta" /\ pc' = "compact" /\ MetadataWritten(FALSE)
    BY <1>8 DEF WriteMetadata, MetadataWritten, volatile
  <2>2. /\ cur.id \in Tx /\ flush.last = cur.id /\ meta.last < cur.id
        /\ Len(log) > 0 /\ log[Len(log)].rec = "commit" /\ log[Len(log)].tx = cur.id
        /\ NextGeneration \in DOMAIN snapshots /\ snapshots[NextGeneration] = Recovered
    BY <2>1
    DEF TypeInv, CommitInProgress, SnapshotSteps, GenerationPosition, CommitPosition,
        ProcessAgrees
  <2>3. SnapshotCovers' /\ Recovered' = Recovered
    BY <2>1, <2>2, MetadataSwitches DEF TypeInv
  <2>4. LogOrder'
    BY <2>1, Zenon DEF LogOrder
  <2>5. CommitPosition'
    BY <2>1 DEF CommitPosition, InCommit, SnapshotSteps
  <2>6. GenerationPosition'
    BY <2>1, <2>2 DEF GenerationPosition, MetadataWritten, NextGeneration, InCommit
  <2>7. ProcessAgrees' /\ OutcomeAgrees'
    BY <2>1, <2>3 DEF ProcessAgrees, OutcomeAgrees, SnapshotSteps
  <2>8. QED
    BY <1>0, <2>3, <2>4, <2>5, <2>6, <2>7
<1>9. CASE CompactLog
  <2>1. /\ cur.id \in Tx /\ flush.last = cur.id /\ meta.last = cur.id
        /\ ~meta.compacted /\ HasMeta
        /\ Len(log) > 0 /\ log[Len(log)].rec = "commit" /\ log[Len(log)].tx = cur.id
    BY <1>9
    DEF CompactLog, TypeInv, TypeOK, ProcessTypeOK, FlushStates, CommitInProgress,
        SnapshotSteps, GenerationPosition, CommitPosition, HasMeta, NextGeneration
  <2>2. CommitRecords # {}
    BY <2>1, LogCut DEF TypeInv
  <2>3. /\ LogCompacted /\ UNCHANGED <<meta, snapshots, db, cur, flush, outcome, clock>>
        /\ pc = "compact" /\ pc' = "metaCompacted"
    BY <1>9, <2>2 DEF CompactLog, LogCompacted, volatile
  <2>4. /\ LogOrder' /\ SnapshotCovers' /\ Recovered' = Recovered
        /\ Len(log') = 1 /\ log'[1].rec = "marker" /\ log'[1].tx = cur.id
    BY <2>1, <2>3, LogCut DEF TypeInv
  <2>5. CommitPosition'
    BY <2>3, <2>4 DEF CommitPosition, InCommit, SnapshotSteps
  <2>6. GenerationPosition'
    BY <2>3 DEF GenerationPosition, NextGeneration, InCommit
  <2>7. ProcessAgrees' /\ OutcomeAgrees'
    BY <2>3, <2>4 DEF ProcessAgrees, OutcomeAgrees, SnapshotSteps
  <2>8. QED
    BY <1>0, <2>4, <2>5, <2>6, <2>7
<1>10. CASE WriteCompactedMetadata
  <2>1. /\ UNCHANGED <<log, snapshots, db, cur, flush, outcome, clock>>
        /\ pc = "metaCompacted" /\ pc' = "latest" /\ MetadataWritten(TRUE)
    BY <1>10 DEF WriteCompactedMetadata, MetadataWritten, volatile
  <2>2. /\ cur.id \in Tx /\ flush.last = cur.id /\ meta.last = cur.id
        /\ meta.generation = NextGeneration /\ HasMeta
        /\ Len(log) = 1 /\ log[1].rec = "marker"
    BY <2>1
    DEF TypeInv, TypeOK, ProcessTypeOK, FlushStates, CommitInProgress,
        SnapshotSteps, GenerationPosition, CommitPosition, HasMeta, NextGeneration
  <2>3. SnapshotCovers' /\ Recovered' = Recovered
    BY <2>1, <2>2, MetadataCompacted DEF TypeInv
  <2>4. LogOrder'
    BY <2>1, Zenon DEF LogOrder
  <2>5. CommitPosition'
    BY <2>1 DEF CommitPosition, InCommit, SnapshotSteps
  <2>6. GenerationPosition'
    BY <2>1, <2>2 DEF GenerationPosition, MetadataWritten, NextGeneration, InCommit
  <2>7. ProcessAgrees' /\ OutcomeAgrees'
    BY <2>1, <2>3 DEF ProcessAgrees, OutcomeAgrees, SnapshotSteps
  <2>8. QED
    BY <1>0, <2>3, <2>4, <2>5, <2>6, <2>7
<1>11. CASE WriteLatestSnapshot
  <2>1. LogOrder' /\ SnapshotCovers' /\ Recovered' = Recovered
    BY <1>11, RecoveredUnchanged DEF WriteLatestSnapshot, LatestFileWritten
  <2>2. Recovered[cur.id] = 1 /\ cur.id \in Tx /\ db' = Recovered
    BY <1>11 DEF WriteLatestSnapshot, ProcessAgrees, TypeInv, CommitInProgress, SnapshotSteps
  <2>3. OutcomeAgrees' /\ CommitPosition' /\ pc' = "idle"
    BY <1>11, <2>1, <2>2, AcknowledgeAgrees DEF WriteLatestSnapshot
  <2>4. flush'.generation = meta'.generation
    BY <1>11 DEF WriteLatestSnapshot, LatestFileWritten, GenerationPosition
  <2>5. GenerationPosition' /\ ProcessAgrees'
    BY <2>1, <2>2, <2>3, <2>4 DEF GenerationPosition, ProcessAgrees, InCommit, SnapshotSteps
  <2>6. QED
    BY <1>0, <2>1, <2>3, <2>5
<1>12. CASE SyncLog
  <2>1. UNCHANGED <<log, snapshots, meta, pc, db, before, flush, cur, clock, outcome>>
    BY <1>12 DEF SyncLog
  <2>2. LogOrder' /\ SnapshotCovers' /\ Recovered' = Recovered
    BY <2>1, RecoveredUnchanged
  <2>3. CommitPosition' /\ GenerationPosition' /\ ProcessAgrees' /\ OutcomeAgrees'
    BY <2>1, <2>2, Zenon
    DEF CommitPosition, GenerationPosition, ProcessAgrees, OutcomeAgrees, NextGeneration
  <2>4. QED
    BY <1>0, <2>2, <2>3
<1>13. CASE Kill
  <2>1. LogOrder' /\ SnapshotCovers' /\ Recovered' = Recovered
    BY <1>13, RecoveredUnchanged DEF Kill, disk
  <2>2. pc' = "down"
    BY <1>13 DEF Kill, ProcessEnds
  <2>3. CommitPosition' /\ GenerationPosition' /\ ProcessAgrees'
    BY <2>2
    DEF CommitPosition, GenerationPosition, ProcessAgrees, InCommit, SnapshotSteps
  <2>4. \A t \in Tx : outcome'[t] = IF outcome[t] = "pending" THEN "doubt" ELSE outcome[t]
    BY <1>13 DEF Kill, InDoubt
  <2>5. OutcomeAgrees'
    BY <2>1, <2>4 DEF OutcomeAgrees
  <2>6. QED
    BY <1>0, <2>1, <2>3, <2>5
<1>14. ~KilledInAppend /\ ~AppendFails /\ ~SnapshotStepFails /\ ~PowerLoss
  BY DEF KilledInAppend, AppendFails, SnapshotStepFails, PowerLoss
<1>15. QED
  BY <1>1, <1>2, <1>3, <1>4, <1>5, <1>6, <1>7, <1>8, <1>9, <1>10, <1>11, <1>12,
     <1>13, <1>14 DEF Next

\* When the process may be killed between any two steps and nothing else goes
\* wrong, the data directory can be opened after every step.
THEOREM KillRecoverable ==
    ASSUME Faults = {}
    PROVE  Spec => []Recoverable
<1>1. KillInv => Recoverable
  BY RecoveryLemma DEF KillInv, TypeInv, TypeOK, Recoverable
<1>2. KillInv /\ [Next]_vars => KillInv'
  BY StepKill
<1>3. QED
  BY <1>1, <1>2, InitKill, PTL DEF Spec

\* In the same setting a restart gives exactly the database that clients saw.
THEOREM KillMemoryMatchesDisk ==
    ASSUME Faults = {}
    PROVE  Spec => []MemoryMatchesDisk
<1>1. KillInv => MemoryMatchesDisk
  BY RecoveryLemma DEF KillInv, TypeInv, TypeOK, ProcessAgrees, MemoryMatchesDisk
<1>2. KillInv /\ [Next]_vars => KillInv'
  BY StepKill
<1>3. QED
  BY <1>1, <1>2, InitKill, PTL DEF Spec

\* In the same setting every acknowledged transaction is applied exactly once.
THEOREM KillAckedAppliedOnce ==
    ASSUME Faults = {}
    PROVE  Spec => []AckedAppliedOnce
<1>1. KillInv => AckedAppliedOnce
  BY RecoveryLemma DEF KillInv, TypeInv, TypeOK, OutcomeAgrees, AckedAppliedOnce
<1>2. KillInv /\ [Next]_vars => KillInv'
  BY StepKill
<1>3. QED
  BY <1>1, <1>2, InitKill, PTL DEF Spec

\* In the same setting no transaction is applied twice.
THEOREM KillAppliedAtMostOnce ==
    ASSUME Faults = {}
    PROVE  Spec => []AppliedAtMostOnce
<1>1. KillInv => AppliedAtMostOnce
  BY RecoveryLemma DEF KillInv, TypeInv, TypeOK, OutcomeAgrees, AppliedAtMostOnce
<1>2. KillInv /\ [Next]_vars => KillInv'
  BY StepKill
<1>3. QED
  BY <1>1, <1>2, InitKill, PTL DEF Spec

\* In the same setting a transaction that was reported as failed stays away, and
\* one that a restarted server showed stays.
THEOREM KillOutcomesFinal ==
    ASSUME Faults = {}
    PROVE  Spec => []OutcomesFinal
<1>1. KillInv => OutcomesFinal
  BY RecoveryLemma
  DEF KillInv, TypeInv, TypeOK, OutcomeAgrees, OutcomesFinal
<1>2. KillInv /\ [Next]_vars => KillInv'
  BY StepKill
<1>3. QED
  BY <1>1, <1>2, InitKill, PTL DEF Spec

-----------------------------------------------------------------------------
(* Refinement: with kills only, DurableStore implements AtomicStore.       *)

\* What a step does to the mapped variables.
LEMMA MappedStep ==
    ASSUME Faults = {}, KillInv, KillInv', [Next]_vars, Loaded' = Recovered'
    PROVE  [Abstract!AtomicNext]_(Abstract!absVars)
<1> USE DEF KillInv
<1>1. Loaded = Recovered
  BY RecoveryLemma DEF TypeInv, TypeOK
<1>a. Recovered = [t \in Tx |-> Recovered[t]]
  BY Zenon DEF Recovered
<1>b. SUFFICES \/ UNCHANGED <<Loaded, VisibleDb, Serving>>
               \/ Abstract!AtomicNext
  BY DEF Abstract!absVars
<1>2. CASE Open
  <2>1. Recovered' = Recovered
    BY <1>2, RecoveredUnchanged DEF Open, disk
  <2>2. pc = "down" /\ pc' \in {"idle", "repair"} /\ db' = Loaded
    BY <1>2 DEF Open
  <2>3. CASE pc' = "repair"
    BY <1>1, <2>1, <2>2, <2>3 DEF Serving, VisibleDb
  <2>4. CASE pc' = "idle"
    <3>1. ~Serving /\ Serving' = TRUE /\ VisibleDb' = Loaded /\ Loaded' = Loaded
      BY <1>1, <2>1, <2>2, <2>4 DEF Serving, VisibleDb
    <3>2. QED
      BY <3>1, Zenon DEF Abstract!AtomicNext, Abstract!Serve
  <2>5. QED
    BY <2>2, <2>3, <2>4
<1>3. CASE RepairBegin
  <2>1. Recovered' = Recovered
    BY <1>3, BeginAppended DEF RepairBegin, TypeInv, TypeOK
  <2>2. pc = "repair" /\ pc' = "repairBegun"
    BY <1>3 DEF RepairBegin
  <2>3. QED
    BY <1>1, <2>1, <2>2 DEF Serving, VisibleDb
<1>4. CASE Begin
  <2>1. Recovered' = Recovered
    BY <1>4, BeginAppended DEF Begin, TypeInv, TypeOK
  <2>2. pc = "idle" /\ pc' = "begun" /\ before' = db
    BY <1>4 DEF Begin
  <2>3. QED
    BY <1>1, <2>1, <2>2 DEF Serving, VisibleDb
<1>5. CASE RepairCommit \/ Commit
  <2>1. /\ pc \in {"begun", "repairBegun"} /\ cur.id \in Tx
        /\ log' = Append(log, Record("commit", cur.id))
        /\ clock' = clock /\ db' = db /\ UNCHANGED <<snapshots, meta>>
        /\ pc' = IF pc = "begun" THEN "committed" ELSE "repairCommitted"
    BY <1>5 DEF RepairCommit, Commit, volatile, history, TypeInv, CommitInProgress
  <2>2. /\ Len(log) > 0 /\ log[Len(log)].rec = "begin" /\ log[Len(log)].tx = cur.id
        /\ meta.last < cur.id
    BY <2>1 DEF CommitPosition, GenerationPosition, InCommit
  <2>3. Recovered[cur.id] = 0 /\ Recovered' = Apply(Recovered, cur.id)
    BY <2>1, <2>2, CommitAppended DEF TypeInv, TypeOK
  <2>4. Apply(Recovered, cur.id) = [Recovered EXCEPT ![cur.id] = 1]
    <3>1. Recovered[cur.id] + 1 = 1
      BY <2>3
    <3>2. QED
      BY <3>1, Zenon DEF Apply
  <2>5. Loaded[cur.id] = 0 /\ Loaded' = [Loaded EXCEPT ![cur.id] = 1]
    BY <1>1, <2>3, <2>4, Zenon
  <2>6. CASE pc = "begun"
    <3>1. Serving = TRUE /\ Serving' = TRUE /\ VisibleDb' = db'
      BY <2>1, <2>6 DEF Serving, VisibleDb
    <3>2. db' = Loaded'
      BY <2>1, <2>3, <2>6 DEF ProcessAgrees
    <3>3. QED
      BY <2>1, <2>5, <3>1, <3>2, Zenon
      DEF Abstract!AtomicNext, Abstract!CommitTransaction
  <2>7. CASE pc = "repairBegun"
    <3>1. Serving = FALSE /\ Serving' = FALSE /\ VisibleDb' = VisibleDb
      BY <2>1, <2>7 DEF Serving, VisibleDb
    <3>2. QED
      BY <2>1, <2>5, <3>1, Zenon
      DEF Abstract!AtomicNext, Abstract!RepairTransaction
  <2>8. QED
    BY <2>1, <2>6, <2>7
<1>6. CASE RepairApply
  <2>1. Recovered' = Recovered
    BY <1>6, RecoveredUnchanged DEF RepairApply
  <2>2. pc = "repairCommitted" /\ pc' = "idle" /\ db' = Recovered
    BY <1>6 DEF RepairApply, ProcessAgrees
  <2>3. Serving = FALSE /\ Serving' = TRUE /\ VisibleDb' = Loaded /\ Loaded' = Loaded
    BY <1>1, <2>1, <2>2 DEF Serving, VisibleDb
  <2>4. QED
    BY <2>3, Zenon DEF Abstract!AtomicNext, Abstract!Serve
<1>7. CASE /\ Recovered' = Recovered /\ db' = db
           /\ pc \in {"idle", "committed"} \cup SnapshotSteps
           /\ pc' \in {"idle", "committed"} \cup SnapshotSteps
  BY <1>1, <1>7 DEF Serving, VisibleDb, SnapshotSteps
<1>8. CASE AfterCommit
  <2>1. Recovered' = Recovered
    BY <1>8, RecoveredUnchanged DEF AfterCommit, disk
  <2>2. QED
    BY <1>7, <1>8, <2>1 DEF AfterCommit, Acknowledge, SnapshotSteps
<1>9. CASE WriteGenerationSnapshot
  <2>1. Recovered' = Recovered
    BY <1>9, NewGeneration DEF WriteGenerationSnapshot, GenerationPosition, TypeInv
  <2>2. QED
    BY <1>7, <1>9, <2>1 DEF WriteGenerationSnapshot, SnapshotSteps, volatile
<1>10. CASE WriteMetadata \/ CompactLog \/ WriteCompactedMetadata
  <2>1. /\ db' = db /\ pc \in SnapshotSteps
        /\ pc' \in {"compact", "metaCompacted", "latest"}
    BY <1>10 DEF WriteMetadata, CompactLog, WriteCompactedMetadata, volatile, SnapshotSteps
  <2>2. Recovered = db /\ Recovered' = db'
    BY <2>1 DEF ProcessAgrees, SnapshotSteps
  <2>3. QED
    BY <1>7, <2>1, <2>2 DEF SnapshotSteps
<1>11. CASE WriteLatestSnapshot
  <2>1. Recovered' = Recovered
    BY <1>11, RecoveredUnchanged DEF WriteLatestSnapshot, LatestFileWritten
  <2>2. QED
    BY <1>7, <1>11, <2>1 DEF WriteLatestSnapshot, Acknowledge, SnapshotSteps
<1>12. CASE SyncLog \/ OpenRejected \/ UNCHANGED vars
  <2>1. UNCHANGED <<log, snapshots, meta, pc, db, before, clock>>
    BY <1>12 DEF SyncLog, OpenRejected, vars, disk, volatile, history
  <2>2. Recovered' = Recovered
    BY <2>1, RecoveredUnchanged
  <2>3. QED
    BY <1>1, <2>1, <2>2 DEF Serving, VisibleDb
<1>13. CASE Kill
  <2>1. Recovered' = Recovered
    BY <1>13, RecoveredUnchanged DEF Kill, disk
  <2>2. pc' = "down"
    BY <1>13 DEF Kill, ProcessEnds
  <2>3. Serving' = FALSE /\ VisibleDb' = EmptyDb /\ Loaded' = Loaded
    BY <1>1, <2>1, <2>2 DEF Serving, VisibleDb
  <2>4. CASE Serving
    BY <2>3, <2>4, Zenon DEF Abstract!AtomicNext, Abstract!Stop, Abstract!NothingApplied, EmptyDb
  <2>5. CASE ~Serving
    BY <2>3, <2>5 DEF VisibleDb, Serving
  <2>6. QED
    BY <2>4, <2>5
<1>14. ~KilledInAppend /\ ~AppendFails /\ ~SnapshotStepFails /\ ~PowerLoss
  BY DEF KilledInAppend, AppendFails, SnapshotStepFails, PowerLoss
<1>15. QED
  BY <1>2, <1>3, <1>4, <1>5, <1>6, <1>8, <1>9, <1>10, <1>11, <1>12, <1>13, <1>14
  DEF Next

\* When the process may be killed between any two steps and nothing else goes
\* wrong, the log, the snapshots and the recovery implement the atomic store.
THEOREM KillRefinement ==
    ASSUME Faults = {}
    PROVE  Spec => ImplementsAtomicStore
<1>1. Init => Abstract!AtomicInit
  <2> SUFFICES ASSUME Init PROVE Abstract!AtomicInit
    OBVIOUS
  <2>1. KillInv
    BY InitKill
  <2>2. Loaded = Recovered
    BY <2>1, RecoveryLemma DEF KillInv, TypeInv, TypeOK
  <2>3. Recovered = [t \in Tx |-> 0]
    <3>1. \A t \in Tx : ~HasCommit(t)
      BY DEF Init, HasCommit
    <3>2. Base = EmptyDb
      BY DEF Init, Base, HasMeta, NoMeta
    <3>3. \A t \in Tx : Base[t] + (IF t > meta.last /\ HasCommit(t) THEN 1 ELSE 0) = 0
      BY <3>1, <3>2 DEF EmptyDb
    <3>4. QED
      BY <3>3, Zenon DEF Recovered
  <2>4. VisibleDb = [t \in Tx |-> 0] /\ Serving = FALSE
    BY DEF Init, VisibleDb, Serving, EmptyDb
  <2>5. QED
    BY <2>2, <2>3, <2>4, Zenon DEF Abstract!AtomicInit, Abstract!NothingApplied
<1>2. KillInv /\ [Next]_vars => KillInv'
  BY StepKill
<1>3. KillInv => Loaded = Recovered
  BY RecoveryLemma DEF KillInv, TypeInv, TypeOK
<1>4. KillInv' => (Loaded = Recovered)'
  BY <1>3, PTL
<1>5. KillInv /\ KillInv' /\ [Next]_vars => [Abstract!AtomicNext]_(Abstract!absVars)
  BY <1>4, MappedStep
<1>6. QED
  BY <1>1, <1>2, <1>5, InitKill, PTL DEF Spec, ImplementsAtomicStore, Abstract!AtomicSpec

-----------------------------------------------------------------------------
(* Under every combination of faults: nothing acknowledged is lost.        *)
(*                                                                         *)
(* The snapshot the metadata names may be overwritten by a later attempt   *)
(* at the same generation, the log may hold cut records, records of failed *)
(* transactions and records a snapshot already covers.  What survives all  *)
(* of it is weaker than Recovered: a transaction is in the base snapshot,  *)
(* or it is newer than the metadata and both its records are complete.     *)

\* Both records of t are complete in the first n pieces.
InLog(lg, n, t) ==
    \E i, j \in 1..n :
        j < i /\ lg[j] = Record("begin", t) /\ lg[i] = Record("commit", t)

Survives(lg, n, last, base, t) ==
    base[t] >= 1 \/ (t > last /\ InLog(lg, n, t))

BeforeCommitRecord == {"begun", "repairBegun"}
AfterCommitRecord  == {"committed", "repairCommitted"} \cup SnapshotSteps
CommitPath         == BeforeCommitRecord \cup AfterCommitRecord

\* Transaction ids never decrease along the log, and the clock is past all of
\* them.
FaultLog ==
    /\ \A i, j \in 1..Len(log) : i < j => log[i].tx <= log[j].tx
    /\ \A i \in 1..Len(log) : log[i].tx < clock
    /\ meta.last < clock
    /\ HasMeta => meta.generation \in DOMAIN snapshots

\* Nothing is known of a transaction id before the clock hands it out.
FaultAges ==
    /\ \A t \in durable : t < clock
    /\ \A t \in Tx : db[t] > 0 \/ before[t] > 0 => t < clock
    /\ \A g \in DOMAIN snapshots : \A t \in Tx : snapshots[g][t] > 0 => t < clock

\* What was acknowledged survives a kill; what was also fsynced survives in the
\* synced part of the log.
FaultKept ==
    /\ \A t \in Tx : outcome[t] = "acked" =>
                         Survives(log, Len(log), meta.last, Base, t)
    /\ \A t \in durable : outcome[t] \in {"acked", "pending"} =>
                              Survives(log, synced, meta.last, Base, t)

\* The running server holds what it acknowledged, so its snapshots do.
FaultMemory ==
    /\ pc # "down" => \A t \in Tx : outcome[t] = "acked" => db[t] >= 1
    /\ pc = "begun" => \A t \in Tx : outcome[t] = "acked" => before[t] >= 1
    /\ pc \in {"begun", "committed"} \cup SnapshotSteps => db[cur.id] >= 1

\* The transaction being committed is the newest one and its records are whole.
FaultCurrent ==
    /\ \A t \in Tx : outcome[t] = "pending" => (pc \in CommitPath /\ t = cur.id)
    /\ pc \in CommitPath =>
           /\ cur.id = clock - 1 /\ outcome[cur.id] = "pending"
           /\ \A i \in 1..Len(log) :
                  log[i].tx = cur.id => (log[i].whole /\ log[i].nl)
    /\ pc \in BeforeCommitRecord =>
           /\ cur.id > meta.last
           /\ \E j \in 1..Len(log) : log[j] = Record("begin", cur.id)
    /\ pc \in AfterCommitRecord => Survives(log, Len(log), meta.last, Base, cur.id)

\* Where write_snapshot_generation is.
FaultSnapshot ==
    /\ pc \in SnapshotSteps \ {"snapshot"} =>
           NextGeneration \in DOMAIN snapshots /\ snapshots[NextGeneration] = db
    /\ pc \in {"compact", "metaCompacted", "latest"} =>
           meta.generation = NextGeneration

FaultInv ==
    /\ TypeInv /\ FaultLog /\ FaultAges /\ FaultKept
    /\ FaultMemory /\ FaultCurrent /\ FaultSnapshot

\* The snapshot the metadata names is a database.
LEMMA BaseType ==
    ASSUME DiskTypeOK, FaultLog
    PROVE  Base \in Db
BY DEF DiskTypeOK, FaultLog, Base, HasMeta, EmptyDb, Db

\* What survives in a directory that opens is loaded: the records of a
\* transaction newer than the metadata are behind the point where the replay
\* starts, and complete lines parse when the replay accepts the log.
LEMMA FaultRecovery ==
    ASSUME DiskTypeOK, FaultLog, LoadOk, NEW t \in Tx,
           Survives(log, Len(log), meta.last, Base, t)
    PROVE  Loaded[t] >= 1
<1>1. Base \in Db /\ Base[t] \in Nat
  BY BaseType DEF Db
<1>2. Loaded[t] = Base[t] + IF Replays(t) THEN 1 ELSE 0
  BY DEF Loaded
<1>3. CASE Base[t] >= 1
  BY <1>1, <1>2, <1>3
<1>4. CASE t > meta.last /\ InLog(log, Len(log), t)
  <2>1. PICK i, j \in 1..Len(log) :
            j < i /\ log[j] = Record("begin", t) /\ log[i] = Record("commit", t)
    BY <1>4 DEF InLog
  <2>2. /\ log[j].rec = "begin" /\ log[j].tx = t /\ log[j].whole /\ log[j].nl
        /\ log[i].rec = "commit" /\ log[i].tx = t /\ log[i].whole /\ log[i].nl
    <3>1. \A rec \in {"begin", "commit"} :
              /\ Record(rec, t).rec = rec /\ Record(rec, t).tx = t
              /\ Record(rec, t).whole /\ Record(rec, t).nl
      BY RecordFields
    <3>2. QED
      BY <2>1, <3>1
  <2>3. ReplayStart \in Nat /\ ReplayStart < j
    <3>1. CASE ~ReplaysAfter
      BY <3>1, <2>1 DEF ReplayStart
    <3>2. CASE ReplaysAfter
      <4>1. HighWater \in SUBSET Nat /\ HighWater # {}
        BY <3>2, SMTT(30) DEF LoadOk, HighWater
      <4>2. Min(HighWater) \in HighWater
        BY <4>1, MinExists
      <4> DEFINE h == Min(HighWater)
      <4>3. h \in 1..Len(log) /\ log[h].tx = meta.last /\ ReplayStart = h
        BY <3>2, <4>1, <4>2 DEF HighWater, IsCommitFor, IsMarkerFor, ReplayStart
      <4> HIDE DEF h
      <4>4. ~(j < h) /\ j # h
        BY <4>3, <2>2, <1>4 DEF FaultLog, DiskTypeOK
      <4>5. QED
        BY <4>3, <4>4
    <3>3. QED
      BY <3>1, <3>2
  <2>4. i \in (ReplayStart + 1)..Len(log) /\ j \in (ReplayStart + 1)..Len(log)
    BY <2>1, <2>3 DEF DiskTypeOK
  <2>5. Parses(log, i) /\ Parses(log, j)
    <3>1. ~InFinalLine(log, i) /\ ~InFinalLine(log, j)
      BY <2>2, <2>4, <2>3 DEF InFinalLine, DiskTypeOK
    <3>2. QED
      BY <2>4, <3>1 DEF LoadOk
  <2>6. Replays(t)
    BY <2>1, <2>2, <2>4, <2>5 DEF Replays, IsCommitFor
  <2>7. QED
    BY <1>1, <1>2, <2>6
<1>5. QED
  BY <1>3, <1>4 DEF Survives

\* The store never forgets an acknowledgement.
LEMMA FaultInvImplies == FaultInv => AckedNotLost
BY FaultRecovery DEF FaultInv, FaultKept, AckedNotLost, TypeInv, TypeOK

LEMMA FaultInit == Init => FaultInv
<1> SUFFICES ASSUME Init PROVE FaultInv
  OBVIOUS
<1>1. TypeInv
  BY InitType
<1>2. /\ Len(log) = 0 /\ DOMAIN snapshots = {} /\ ~HasMeta
      /\ \A t \in Tx : db[t] = 0 /\ before[t] = 0
  BY DEF Init, HasMeta, NoMeta, EmptyDb
<1>3. FaultLog /\ FaultAges
  BY <1>2 DEF Init, FaultLog, FaultAges, NoMeta
<1>4. FaultKept /\ FaultMemory /\ FaultCurrent /\ FaultSnapshot
  BY <1>2 DEF Init, FaultKept, FaultMemory, FaultCurrent, FaultSnapshot,
     CommitPath, BeforeCommitRecord, AfterCommitRecord, SnapshotSteps
<1>5. QED
  BY <1>1, <1>3, <1>4 DEF FaultInv

\* Complete records stay where they are when the log grows.
LEMMA SurvivesLonger ==
    ASSUME NEW lg, NEW lg2, NEW n \in Nat, NEW m \in Nat, n <= m,
           \A i \in 1..n : lg2[i] = lg[i],
           NEW last, NEW base, NEW t, Survives(lg, n, last, base, t)
    PROVE  Survives(lg2, m, last, base, t)
<1>1. InLog(lg, n, t) => InLog(lg2, m, t)
  BY DEF InLog
<1>2. QED
  BY <1>1 DEF Survives

\* What a sync may add to the durable transactions does survive.
LEMMA LoadedSurvives ==
    ASSUME FaultInv, LoadOk, NEW t \in Tx, Loaded[t] > 0
    PROVE  /\ t < clock
           /\ outcome[t] \in {"acked", "pending"} =>
                  Survives(log, Len(log), meta.last, Base, t)
<1>1. Base \in Db /\ Base[t] \in Nat
  BY BaseType DEF Db, FaultInv, TypeInv, TypeOK
<1>2. Loaded[t] = Base[t] + IF Replays(t) THEN 1 ELSE 0
  BY DEF Loaded
<1>3. CASE Base[t] > 0
  <2>1. t < clock
    BY <1>3 DEF Base, EmptyDb, FaultInv, FaultAges, LoadOk
  <2>2. QED
    BY <1>1, <1>3, <2>1 DEF Survives
<1>4. CASE Replays(t)
  <2>1. PICK i, j \in (ReplayStart + 1)..Len(log) :
            /\ j < i
            /\ Parses(log, j) /\ log[j].rec = "begin" /\ log[j].tx = t
            /\ IsCommitFor(log, i, t)
    BY <1>4 DEF Replays
  <2>2. ReplayStart \in Nat
    <3>1. HighWater \in SUBSET Nat
      BY DEF HighWater
    <3>2. HighWater # {} => Min(HighWater) \in Nat
      BY <3>1, MinExists
    <3>3. QED
      BY <3>2 DEF ReplayStart, FaultInv, TypeInv, TypeOK, DiskTypeOK
  <2>3. i \in 1..Len(log) /\ j \in 1..Len(log)
    BY <2>1, <2>2 DEF FaultInv, TypeInv, TypeOK, DiskTypeOK
  <2>4. log[i].rec = "commit" /\ log[i].tx = t
    BY <2>1 DEF IsCommitFor
  <2>5. t < clock
    BY <2>3, <2>4 DEF FaultInv, FaultLog
  <2>6. ASSUME outcome[t] = "pending"
        PROVE  Survives(log, Len(log), meta.last, Base, t)
    <3>1. pc \in CommitPath /\ t = cur.id
      BY <2>6 DEF FaultInv, FaultCurrent
    <3>2. CASE pc \in AfterCommitRecord
      BY <3>1, <3>2 DEF FaultInv, FaultCurrent
    <3>3. CASE pc \in BeforeCommitRecord
      <4>1. log[i].whole /\ log[i].nl /\ log[j].whole /\ log[j].nl
        BY <2>1, <2>3, <2>4, <3>1 DEF FaultInv, FaultCurrent
      <4>2. log[i] \in Pieces /\ log[j] \in Pieces
        BY <2>3 DEF FaultInv, TypeInv, TypeOK, DiskTypeOK
      <4>3. log[i] = Record("commit", t) /\ log[j] = Record("begin", t)
        BY <2>1, <2>4, <4>1, <4>2 DEF Pieces, Record, Piece
      <4>4. t > meta.last
        BY <3>1, <3>3 DEF FaultInv, FaultCurrent
      <4>5. QED
        BY <2>1, <2>3, <4>3, <4>4 DEF Survives, InLog
    <3>4. QED
      BY <3>1, <3>2, <3>3 DEF CommitPath
  <2>7. QED
    BY <2>5, <2>6 DEF FaultInv, FaultKept
<1>5. QED
  BY <1>1, <1>2, <1>3, <1>4

\* The survivors of this state survive the step.
StillSurvive ==
    \A t \in Tx :
        /\ Survives(log, Len(log), meta.last, Base, t) =>
               Survives(log', Len(log'), meta'.last, Base', t)
        /\ Survives(log, synced, meta.last, Base, t) =>
               Survives(log', synced', meta'.last, Base', t)

\* An append, finished or not, of a piece that is not older than the others.
LEMMA LogGrows ==
    ASSUME FaultInv, NEW p \in Pieces, log' \in {log, Append(log, p)},
           UNCHANGED <<synced, snapshots, meta>>,
           clock' \in Nat, clock <= clock', p.tx < clock',
           \A i \in 1..Len(log) : log[i].tx <= p.tx
    PROVE  /\ FaultLog' /\ StillSurvive /\ Base' = Base
           /\ Len(log) \in Nat /\ Len(log') \in {Len(log), Len(log) + 1}
           /\ \A i \in 1..Len(log) : i \in 1..Len(log') /\ log'[i] = log[i]
           /\ \A i \in 1..Len(log') : i \in 1..Len(log) \/ (i = Len(log) + 1 /\ log'[i] = p)
<1> USE DEF FaultInv, TypeInv, TypeOK
<1>1. Base' = Base
  BY DEF Base, HasMeta
<1>2. /\ Len(log) \in Nat /\ Len(log') \in {Len(log), Len(log) + 1}
      /\ \A i \in 1..Len(log) : i \in 1..Len(log') /\ log'[i] = log[i]
      /\ \A i \in 1..Len(log') : i \in 1..Len(log) \/ (i = Len(log) + 1 /\ log'[i] = p)
  BY DEF DiskTypeOK
<1>3. synced \in Nat /\ synced <= Len(log) /\ synced <= synced
  BY DEF DiskTypeOK
<1>4. StillSurvive
  <2> SUFFICES ASSUME NEW t \in Tx
               PROVE  /\ Survives(log, Len(log), meta.last, Base, t) =>
                             Survives(log', Len(log'), meta.last, Base, t)
                      /\ Survives(log, synced, meta.last, Base, t) =>
                             Survives(log', synced, meta.last, Base, t)
    BY <1>1 DEF StillSurvive
  <2>1. Len(log') \in Nat /\ Len(log) <= Len(log')
    BY <1>2
  <2>2. \A i \in 1..synced : log'[i] = log[i]
    BY <1>2, <1>3
  <2>3. \A i \in 1..Len(log) : log'[i] = log[i]
    BY <1>2
  <2>4. Survives(log, Len(log), meta.last, Base, t) =>
            Survives(log', Len(log'), meta.last, Base, t)
    BY <1>2, <2>1, <2>3, SurvivesLonger
  <2>5. Survives(log, synced, meta.last, Base, t) =>
            Survives(log', synced, meta.last, Base, t)
    BY <1>3, <2>2, SurvivesLonger
  <2>6. QED
    BY <2>4, <2>5
<1>5. FaultLog'
  <2>1. \A i \in 1..Len(log) : log[i].tx \in Nat
    BY PieceAt
  <2>2. p.tx \in Nat
    BY DEF Pieces
  <2>3. \A i \in 1..Len(log') : log'[i].tx < clock'
    <3>1. clock \in Nat /\ \A i \in 1..Len(log) : log[i].tx < clock
      BY DEF FaultLog, HistoryTypeOK
    <3>2. \A i \in 1..Len(log) : log[i].tx < clock'
      BY <2>1, <3>1
    <3>3. QED
      BY <1>2, <3>2
  <2>4. \A i, j \in 1..Len(log') : i < j => log'[i].tx <= log'[j].tx
    BY <1>2, <2>1, <2>2 DEF FaultLog
  <2>5. meta'.last < clock' /\ (HasMeta' => meta'.generation \in DOMAIN snapshots')
    BY DEF FaultLog, HasMeta, DiskTypeOK, HistoryTypeOK
  <2>6. QED
    BY <2>3, <2>4, <2>5 DEF FaultLog
<1>6. QED
  BY <1>1, <1>2, <1>4, <1>5

\* Nothing becomes known of transactions the clock has not handed out.
LEMMA AgesKept ==
    ASSUME FaultInv, clock' \in Nat, clock <= clock', TypeInv',
           snapshots' = snapshots, durable' = durable,
           \A t \in Tx : db'[t] > 0 \/ before'[t] > 0 =>
                             t < clock' \/ db[t] > 0 \/ before[t] > 0
    PROVE  FaultAges'
<1>1. clock \in Nat /\ Tx \subseteq Nat /\ durable \subseteq Tx
  BY DEF FaultInv, TypeInv, TypeOK, HistoryTypeOK
<1>2. \A t \in Tx : t < clock => t < clock'
  BY <1>1
<1>3. QED
  BY <1>1, <1>2 DEF FaultInv, FaultAges

\* begin and commit records of commits and repairs.
LEMMA RecordAppended ==
    ASSUME FaultInv, NEW rec \in {"begin", "commit"}, NEW t \in Tx,
           log' = Append(log, Record(rec, t)),
           UNCHANGED <<synced, snapshots, meta>>,
           clock' \in Nat, clock <= clock', t < clock',
           \A i \in 1..Len(log) : log[i].tx <= t
    PROVE  /\ FaultLog' /\ StillSurvive /\ Base' = Base
           /\ Len(log) \in Nat /\ Len(log') = Len(log) + 1
           /\ \A i \in 1..Len(log) : i \in 1..Len(log') /\ log'[i] = log[i]
           /\ \A i \in 1..Len(log') : i \in 1..Len(log) \/ i = Len(log')
           /\ log'[Len(log')] = Record(rec, t)
<1>1. Record(rec, t) \in Pieces
  BY RecordType
<1>2. Record(rec, t).tx = t
  BY RecordFields
<1>3. Len(log') = Len(log) + 1 /\ log'[Len(log')] = Record(rec, t)
  BY <1>1 DEF FaultInv, TypeInv, TypeOK, DiskTypeOK
<1> DEFINE p == Record(rec, t)
<1>4. /\ p \in Pieces /\ log' \in {log, Append(log, p)} /\ p.tx < clock'
      /\ \A i \in 1..Len(log) : log[i].tx <= p.tx
  BY <1>1, <1>2
<1> HIDE DEF p
<1>5. /\ FaultLog' /\ StillSurvive /\ Base' = Base
      /\ Len(log) \in Nat
      /\ \A i \in 1..Len(log) : i \in 1..Len(log') /\ log'[i] = log[i]
      /\ \A i \in 1..Len(log') : i \in 1..Len(log) \/ i = Len(log) + 1
  BY <1>4, LogGrows
<1>6. QED
  BY <1>3, <1>5

\* What becomes of FaultKept when the survivors still survive.
LEMMA KeptStays ==
    ASSUME FaultInv, TypeInv', StillSurvive, durable' = durable,
           \A t \in Tx : outcome'[t] = "acked" => outcome[t] = "acked",
           \A t \in durable : outcome'[t] = "pending" => outcome[t] = "pending"
    PROVE  FaultKept'
<1>1. durable \subseteq Tx
  BY DEF FaultInv, TypeInv, TypeOK, HistoryTypeOK
<1>2. QED
  BY <1>1 DEF FaultInv, FaultKept, StillSurvive

\* Begin and RepairBegin: the newest transaction has a complete begin record.
LEMMA BeginKeeps ==
    ASSUME FaultInv, TypeInv', clock \in Tx, clock' = clock + 1,
           log' = Append(log, Record("begin", clock)),
           UNCHANGED <<synced, snapshots, meta, durable>>,
           cur'.id = clock, outcome' = [outcome EXCEPT ![clock] = "pending"],
           pc \in {"idle", "repair"}, pc' \in BeforeCommitRecord
    PROVE  FaultLog' /\ FaultKept' /\ FaultCurrent' /\ FaultSnapshot'
<1> USE DEF FaultInv, TypeInv, TypeOK
<1>1. clock' \in Nat /\ clock <= clock' /\ clock < clock'
  BY DEF HistoryTypeOK
<1>2. \A i \in 1..Len(log) : log[i].tx \in Nat /\ log[i].tx < clock
  BY PieceAt DEF FaultLog
<1>3. \A i \in 1..Len(log) : log[i].tx <= clock
  BY <1>2
<1>4. /\ FaultLog' /\ StillSurvive /\ Base' = Base
      /\ Len(log) \in Nat /\ Len(log') = Len(log) + 1
      /\ \A i \in 1..Len(log) : i \in 1..Len(log') /\ log'[i] = log[i]
      /\ \A i \in 1..Len(log') : i \in 1..Len(log) \/ i = Len(log')
      /\ log'[Len(log')] = Record("begin", clock)
  BY <1>1, <1>3, RecordAppended
<1>5. outcome \in [Tx -> Outcomes]
  BY DEF HistoryTypeOK
<1>6. FaultKept'
  <2>1. \A t \in Tx : outcome'[t] = "acked" => outcome[t] = "acked"
    BY <1>5
  <2>2. \A t \in durable : t \in Tx /\ t # clock
    BY DEF FaultAges, HistoryTypeOK
  <2>3. \A t \in durable : outcome'[t] = "pending" => outcome[t] = "pending"
    BY <1>5, <2>2
  <2>4. QED
    BY <1>4, <2>1, <2>3, KeptStays
<1>7. FaultCurrent'
  <2>1. pc \notin CommitPath /\ pc' \in CommitPath /\ pc' \notin AfterCommitRecord
    BY DEF CommitPath, BeforeCommitRecord, AfterCommitRecord, SnapshotSteps
  <2>2. \A t \in Tx : outcome'[t] = "pending" => t = cur'.id
    BY <1>5, <2>1 DEF FaultCurrent
  <2>3. cur'.id = clock' - 1 /\ outcome'[cur'.id] = "pending"
    BY <1>5 DEF HistoryTypeOK
  <2>4. log'[Len(log')].whole /\ log'[Len(log')].nl
    BY <1>4, RecordFields
  <2>5. \A i \in 1..Len(log') : log'[i].tx = cur'.id => (log'[i].whole /\ log'[i].nl)
    BY <1>2, <1>4, <2>4
  <2>6. cur'.id > meta'.last
    BY DEF FaultLog, DiskTypeOK, HistoryTypeOK
  <2>7. \E j \in 1..Len(log') : log'[j] = Record("begin", cur'.id)
    BY <1>4
  <2>8. QED
    BY <2>1, <2>2, <2>3, <2>5, <2>6, <2>7 DEF FaultCurrent
<1>8. FaultSnapshot'
  BY DEF FaultSnapshot, BeforeCommitRecord, SnapshotSteps
<1>9. QED
  BY <1>4, <1>6, <1>7, <1>8

\* Commit and RepairCommit: now both records are complete.
LEMMA CommitKeeps ==
    ASSUME FaultInv, TypeInv', pc \in BeforeCommitRecord,
           log' = Append(log, Record("commit", cur.id)),
           UNCHANGED <<synced, snapshots, meta, durable, clock, outcome, cur>>,
           pc' \in {"committed", "repairCommitted"}
    PROVE  FaultLog' /\ FaultKept' /\ FaultCurrent' /\ FaultSnapshot'
<1> USE DEF FaultInv, TypeInv, TypeOK
<1>1. pc \in CommitPath /\ pc' \in CommitPath /\ pc' \in AfterCommitRecord
      /\ pc' \notin BeforeCommitRecord
  BY DEF CommitPath, BeforeCommitRecord, AfterCommitRecord, SnapshotSteps
<1>2. cur.id \in Tx /\ cur.id = clock - 1 /\ clock' \in Nat /\ clock <= clock'
      /\ cur.id < clock'
  BY <1>1 DEF FaultCurrent, CommitInProgress, CommitPath, BeforeCommitRecord,
     HistoryTypeOK
<1>3. \A i \in 1..Len(log) : log[i].tx <= cur.id
  BY <1>2, PieceAt DEF FaultLog, HistoryTypeOK
<1>4. /\ FaultLog' /\ StillSurvive /\ Base' = Base
      /\ Len(log) \in Nat /\ Len(log') = Len(log) + 1
      /\ \A i \in 1..Len(log) : i \in 1..Len(log') /\ log'[i] = log[i]
      /\ \A i \in 1..Len(log') : i \in 1..Len(log) \/ i = Len(log')
      /\ log'[Len(log')] = Record("commit", cur.id)
  BY <1>2, <1>3, RecordAppended
<1>5. FaultKept'
  BY <1>4, KeptStays
<1>6. FaultCurrent'
  <2>1. \A t \in Tx : outcome'[t] = "pending" => pc' \in CommitPath /\ t = cur'.id
    BY <1>1 DEF FaultCurrent
  <2>2. log'[Len(log')].whole /\ log'[Len(log')].nl
    BY <1>4, RecordFields
  <2>3. \A i \in 1..Len(log') : log'[i].tx = cur'.id => (log'[i].whole /\ log'[i].nl)
    BY <1>1, <1>4, <2>2 DEF FaultCurrent
  <2>4. cur.id > meta.last /\ \E j \in 1..Len(log) : log[j] = Record("begin", cur.id)
    BY DEF FaultCurrent
  <2>5. InLog(log', Len(log'), cur.id)
    BY <1>4, <2>4 DEF InLog
  <2>6. Survives(log', Len(log'), meta'.last, Base', cur'.id)
    BY <2>4, <2>5 DEF Survives
  <2>7. QED
    BY <1>1, <1>2, <2>1, <2>3, <2>6 DEF FaultCurrent
<1>7. FaultSnapshot'
  BY DEF FaultSnapshot, SnapshotSteps
<1>8. QED
  BY <1>4, <1>5, <1>6, <1>7

\* What a step of write_snapshot_generation can do to the data directory, with
\* or without reporting an error.
SnapshotEffect ==
    \/ UNCHANGED <<disk, durable>>
    \/ pc = "snapshot" /\ GenerationFileWritten
    \/ pc = "meta" /\ MetadataWritten(FALSE)
    \/ pc = "compact" /\ LogCompacted
    \/ pc = "metaCompacted" /\ MetadataWritten(TRUE)
    \/ pc = "latest" /\ LatestFileWritten

\* A log with a piece in front of it.
LEMMA PrependedLog ==
    ASSUME NEW p \in Pieces, NEW r \in Seq(Pieces)
    PROVE  /\ Len(r) \in Nat /\ Len(<<p>> \o r) = 1 + Len(r) /\ (<<p>> \o r)[1] = p
           /\ \A i \in 2..(1 + Len(r)) : (<<p>> \o r)[i] = r[i - 1]
<1>1. <<p>> \in Seq(Pieces) /\ Len(<<p>>) = 1 /\ <<p>>[1] = p
  OBVIOUS
<1>2. /\ Len(<<p>> \o r) = Len(<<p>>) + Len(r) /\ Len(r) \in Nat
      /\ \A i \in 1..(Len(<<p>>) + Len(r)) :
             (<<p>> \o r)[i] = IF i <= Len(<<p>>) THEN <<p>>[i] ELSE r[i - Len(<<p>>)]
  BY <1>1, ConcatProperties
<1>3. QED
  BY <1>1, <1>2

\* The compacted log is in order, and its first record is the marker.
LEMMA CompactedLog ==
    ASSUME FaultInv, pc \in SnapshotSteps, LogCompacted, TypeInv'
    PROVE  /\ \A i, j \in 1..Len(log') : i < j => log'[i].tx <= log'[j].tx
           /\ \A i \in 1..Len(log') : log'[i].tx <= cur.id
           /\ \A i \in 1..Len(log') :
                  log'[i].tx = cur.id => (log'[i].whole /\ log'[i].nl)
<1> USE DEF FaultInv, TypeInv, TypeOK
<1>1. flush.last = cur.id /\ cur.id \in Tx /\ cur.id = clock - 1
      /\ \A i \in 1..Len(log) : log[i].tx = cur.id => (log[i].whole /\ log[i].nl)
  BY DEF CommitInProgress, FaultCurrent, CommitPath, AfterCommitRecord
<1> DEFINE m == Min(CommitRecords)
<1>2. m \in CommitRecords
  <2>1. CommitRecords \in SUBSET Nat /\ CommitRecords # {}
    BY DEF LogCompacted, CommitRecords
  <2>2. QED
    BY <2>1, MinExists
<1>3. m \in 1..Len(log) /\ Len(log) \in Nat
  BY <1>2 DEF CommitRecords, DiskTypeOK
<1>4. log' = <<Record("marker", cur.id)>> \o SubSeq(log, m + 1, Len(log))
  BY <1>1 DEF LogCompacted
<1> HIDE DEF m
<1> DEFINE rest == SubSeq(log, m + 1, Len(log))
<1>5. /\ rest \in Seq(Pieces) /\ Len(rest) = Len(log) - m
      /\ \A i \in 1..Len(rest) : rest[i] = log[m + i]
  BY <1>3 DEF DiskTypeOK
<1> HIDE DEF rest
<1>6. Record("marker", cur.id) \in Pieces /\ Record("marker", cur.id).tx = cur.id
      /\ Record("marker", cur.id).whole /\ Record("marker", cur.id).nl
  BY <1>1, RecordType, RecordFields
<1> DEFINE mark == Record("marker", cur.id)
<1>7. log' = <<mark>> \o rest
  BY <1>4 DEF rest
<1>m. mark \in Pieces /\ mark.tx = cur.id /\ mark.whole /\ mark.nl
  BY <1>6
<1> HIDE DEF mark
<1>8. /\ Len(log') = Len(log) - m + 1 /\ log'[1] = mark
      /\ \A i \in 2..Len(log') : i - 1 \in 1..Len(rest) /\ log'[i] = rest[i - 1]
  <2>1. /\ Len(rest) \in Nat /\ Len(log') = 1 + Len(rest) /\ log'[1] = mark
        /\ \A i \in 2..(1 + Len(rest)) : log'[i] = rest[i - 1]
    BY <1>5, <1>7, <1>m, PrependedLog, Zenon
  <2>2. QED
    BY <1>3, <1>5, <2>1
<1>9. \A i \in 2..Len(log') : m + (i - 1) \in 1..Len(log) /\ log'[i] = log[m + (i - 1)]
  <2> SUFFICES ASSUME NEW i \in 2..Len(log')
               PROVE  m + (i - 1) \in 1..Len(log) /\ log'[i] = log[m + (i - 1)]
    OBVIOUS
  <2>1. i - 1 \in 1..Len(rest) /\ log'[i] = rest[i - 1]
    BY <1>8
  <2>2. rest[i - 1] = log[m + (i - 1)]
    BY <1>5, <2>1
  <2>3. QED
    BY <1>3, <1>5, <2>1, <2>2
<1>10. \A i \in 1..Len(log') : i = 1 \/ i \in 2..Len(log')
  BY <1>8
<1>11. \A i \in 1..Len(log) : log[i].tx \in Nat /\ log[i].tx <= cur.id
  BY <1>1, PieceAt DEF FaultLog, HistoryTypeOK
<1>12. log[m].tx = cur.id
  BY <1>1, <1>2 DEF CommitRecords, IsCommitFor
<1>13. \A i \in 2..Len(log') : log'[i].tx = cur.id
  <2> SUFFICES ASSUME NEW i \in 2..Len(log') PROVE log'[i].tx = cur.id
    OBVIOUS
  <2>1. m + (i - 1) \in 1..Len(log) /\ log'[i] = log[m + (i - 1)] /\ m < m + (i - 1)
    BY <1>3, <1>9
  <2>2. log[m].tx <= log[m + (i - 1)].tx
    BY <1>3, <2>1 DEF FaultLog
  <2>3. QED
    BY <1>11, <1>12, <2>1, <2>2, <1>1
<1>14. \A i \in 1..Len(log') : log'[i].tx = cur.id
  BY <1>8, <1>10, <1>13, <1>m
<1>15. \A i \in 1..Len(log') : log'[i].whole /\ log'[i].nl
  <2>1. \A i \in 2..Len(log') : log'[i].whole /\ log'[i].nl
    BY <1>1, <1>9, <1>13
  <2>2. QED
    BY <1>8, <1>10, <2>1, <1>m
<1>16. \A i \in 1..Len(log') : log'[i].tx <= cur.id
  BY <1>1, <1>14
<1>17. QED
  BY <1>14, <1>15, <1>16

\* Each file of a snapshot is written so that everything acknowledged, and the
\* transaction being committed, survives.
LEMMA SnapshotKeeps ==
    ASSUME FaultInv, TypeInv', pc \in SnapshotSteps, SnapshotEffect,
           UNCHANGED <<clock, db, before>>
    PROVE  /\ FaultLog' /\ FaultAges'
           /\ \A i \in 1..Len(log') :
                  log'[i].tx = cur.id => (log'[i].whole /\ log'[i].nl)
           /\ \A t \in Tx : outcome[t] = "acked" \/ t = cur.id =>
                  Survives(log', Len(log'), meta'.last, Base', t)
           /\ \A t \in durable' : outcome[t] \in {"acked", "pending"} =>
                  Survives(log', synced', meta'.last, Base', t)
<1> USE DEF FaultInv, TypeInv, TypeOK
<1> DEFINE Goal ==
           /\ FaultLog' /\ FaultAges'
           /\ \A i \in 1..Len(log') :
                  log'[i].tx = cur.id => (log'[i].whole /\ log'[i].nl)
           /\ \A t \in Tx : outcome[t] = "acked" \/ t = cur.id =>
                  Survives(log', Len(log'), meta'.last, Base', t)
           /\ \A t \in durable' : outcome[t] \in {"acked", "pending"} =>
                  Survives(log', synced', meta'.last, Base', t)
<1>1. /\ flush.last = cur.id /\ cur.id \in Tx /\ cur.id = clock - 1 /\ cur.id < clock
      /\ \A i \in 1..Len(log) : log[i].tx = cur.id => (log[i].whole /\ log[i].nl)
      /\ Survives(log, Len(log), meta.last, Base, cur.id)
  BY DEF CommitInProgress, FaultCurrent, CommitPath, AfterCommitRecord, HistoryTypeOK
<1>2. \A t \in Tx : outcome[t] \in {"acked", "pending"} \/ t = cur.id => db[t] >= 1
  BY DEF FaultMemory, FaultCurrent, SnapshotSteps
<1>3. durable' \subseteq Tx
  BY DEF HistoryTypeOK
\* It is enough that the new base snapshot is the database.
<1>4. ASSUME FaultLog', FaultAges',
             \A i \in 1..Len(log') :
                 log'[i].tx = cur.id => (log'[i].whole /\ log'[i].nl),
             Base' = db
      PROVE  Goal
  <2>1. \A t \in Tx : \A n : db[t] >= 1 => Survives(log', n, meta'.last, Base', t)
    BY <1>4 DEF Survives
  <2>2. QED
    BY <1>2, <1>3, <1>4, <2>1
\* Or that nothing changes.
<1>5. ASSUME FaultAges', UNCHANGED <<log, synced, meta, durable>>, Base' = Base,
             DOMAIN snapshots \subseteq DOMAIN snapshots'
      PROVE  Goal
  <2>1. FaultLog'
    BY <1>5 DEF FaultLog, HasMeta
  <2>2. QED
    BY <1>1, <1>5, <2>1 DEF FaultKept
<1>6. CASE UNCHANGED <<disk, durable>> \/ LatestFileWritten
  <2>1. UNCHANGED <<log, synced, meta, durable, snapshots>>
    BY <1>6 DEF disk, LatestFileWritten
  <2>2. Base' = Base /\ FaultAges'
    BY <2>1 DEF Base, HasMeta, FaultAges
  <2>3. QED
    BY <1>5, <2>1, <2>2
<1>7. CASE GenerationFileWritten
  <2>1. /\ UNCHANGED <<log, synced, meta, durable>>
        /\ DOMAIN snapshots' = DOMAIN snapshots \cup {NextGeneration}
        /\ snapshots'[NextGeneration] = db
        /\ \A g \in DOMAIN snapshots : g # NextGeneration => snapshots'[g] = snapshots[g]
    BY <1>7 DEF GenerationFileWritten
  <2>2. FaultAges'
    <3>1. \A g \in DOMAIN snapshots' :
              \/ snapshots'[g] = db
              \/ g \in DOMAIN snapshots /\ snapshots'[g] = snapshots[g]
      BY <2>1
    <3>2. QED
      BY <2>1, <3>1 DEF FaultAges
  <2>3. CASE meta.generation = NextGeneration
    <3>1. HasMeta' /\ Base' = db
      BY <2>1, <2>3 DEF HasMeta, Base, NextGeneration, ProcessTypeOK, FlushStates
    <3>2. FaultLog'
      BY <2>1, <2>3 DEF FaultLog, HasMeta
    <3>3. QED
      BY <1>1, <1>4, <2>1, <2>2, <3>1, <3>2
  <2>4. CASE meta.generation # NextGeneration
    <3>1. Base' = Base
      BY <2>1, <2>4 DEF Base, HasMeta, FaultLog
    <3>2. QED
      BY <1>5, <2>1, <2>2, <3>1
  <2>5. QED
    BY <2>3, <2>4
<1>8. ASSUME NEW compacted \in BOOLEAN, pc \in {"meta", "metaCompacted"},
             MetadataWritten(compacted)
      PROVE  Goal
  <2>1. NextGeneration \in DOMAIN snapshots /\ snapshots[NextGeneration] = db
    BY <1>8 DEF FaultSnapshot, SnapshotSteps
  <2>2. /\ meta'.generation = NextGeneration /\ meta'.last = cur.id
        /\ UNCHANGED <<log, synced, snapshots>>
    BY <1>1, <1>8 DEF MetadataWritten
  <2>3. HasMeta' /\ Base' = db
    BY <2>1, <2>2 DEF HasMeta, Base, NextGeneration, ProcessTypeOK, FlushStates
  <2>4. FaultLog'
    BY <1>1, <2>1, <2>2 DEF FaultLog
  <2>5. FaultAges'
    BY <1>8, <2>2 DEF FaultAges, MetadataWritten
  <2>6. QED
    BY <1>1, <1>4, <2>2, <2>3, <2>4, <2>5
<1>9. CASE pc = "compact" /\ LogCompacted
  <2>1. UNCHANGED <<snapshots, meta, durable>>
    BY <1>9 DEF LogCompacted
  <2>2. /\ \A i, j \in 1..Len(log') : i < j => log'[i].tx <= log'[j].tx
        /\ \A i \in 1..Len(log') : log'[i].tx <= cur.id
        /\ \A i \in 1..Len(log') :
               log'[i].tx = cur.id => (log'[i].whole /\ log'[i].nl)
    BY <1>9, CompactedLog
  <2>3. \A i \in 1..Len(log') : log'[i].tx \in Nat
    <3>1. \A i \in 1..Len(log') : log'[i] \in Pieces
      BY DEF DiskTypeOK
    <3>2. QED
      BY <3>1 DEF Pieces
  <2>4. \A i \in 1..Len(log') : log'[i].tx < clock'
    BY <1>1, <2>2, <2>3 DEF HistoryTypeOK
  <2>5. FaultLog' /\ FaultAges'
    BY <2>1, <2>2, <2>4 DEF FaultLog, FaultAges, HasMeta
  <2>6. meta.generation = NextGeneration /\ snapshots[NextGeneration] = db
    BY <1>9 DEF FaultSnapshot, SnapshotSteps
  <2>7. Base' = db
    BY <2>1, <2>6 DEF Base, HasMeta, NextGeneration, ProcessTypeOK, FlushStates
  <2>8. QED
    BY <1>4, <2>2, <2>5, <2>7
<1>10. QED
  BY <1>6, <1>7, <1>8, <1>9 DEF SnapshotEffect

\* The client gets its answer when the transaction survives.
LEMMA AcknowledgeKeeps ==
    ASSUME FaultInv, TypeInv', pc \in AfterCommitRecord, Acknowledge,
           FaultLog', FaultAges',
           \A t \in Tx : outcome[t] = "acked" \/ t = cur.id =>
               Survives(log', Len(log'), meta'.last, Base', t),
           \A t \in durable' : outcome[t] \in {"acked", "pending"} =>
               Survives(log', synced', meta'.last, Base', t),
           \A t \in Tx : outcome[t] = "acked" \/ t = cur.id => db'[t] >= 1
    PROVE  FaultInv'
<1> USE DEF FaultInv, TypeInv, TypeOK
<1>1. pc \in CommitPath /\ cur.id \in Tx /\ outcome[cur.id] = "pending"
  BY DEF CommitPath, AfterCommitRecord, CommitInProgress, FaultCurrent
<1>2. /\ outcome \in [Tx -> Outcomes] /\ durable' \subseteq Tx
      /\ outcome' = [outcome EXCEPT ![cur.id] = "acked"] /\ pc' = "idle"
  BY DEF HistoryTypeOK, Acknowledge
<1>3. \A t \in Tx : outcome'[t] = IF t = cur.id THEN "acked" ELSE outcome[t]
  BY <1>1, <1>2
<1>4. FaultKept'
  BY <1>1, <1>2, <1>3 DEF FaultKept
<1>5. FaultMemory'
  BY <1>2, <1>3 DEF FaultMemory, SnapshotSteps
<1>6. FaultCurrent'
  <2>1. \A t \in Tx : outcome'[t] # "pending"
    BY <1>3 DEF FaultCurrent
  <2>2. QED
    BY <1>2, <2>1
    DEF FaultCurrent, CommitPath, BeforeCommitRecord, AfterCommitRecord, SnapshotSteps
<1>7. FaultSnapshot'
  BY <1>2 DEF FaultSnapshot, SnapshotSteps
<1>8. QED
  BY <1>4, <1>5, <1>6, <1>7

\* The process ends: the transaction in progress is no longer pending.
LEMMA EndKeeps ==
    ASSUME FaultInv, TypeInv', ProcessEnds, FaultLog', FaultKept',
           snapshots' = snapshots, durable' = durable,
           clock' \in Nat, clock <= clock',
           \A t \in Tx : outcome'[t] # "pending"
    PROVE  FaultInv'
<1>1. pc' = "down" /\ db' = EmptyDb /\ before' = EmptyDb
  BY DEF ProcessEnds
<1>2. FaultAges'
  BY <1>1, AgesKept DEF EmptyDb
<1>3. FaultMemory' /\ FaultCurrent' /\ FaultSnapshot'
  BY <1>1
  DEF FaultMemory, FaultCurrent, FaultSnapshot, CommitPath, BeforeCommitRecord,
      AfterCommitRecord, SnapshotSteps
<1>4. QED
  BY <1>2, <1>3 DEF FaultInv

\* An append that did not finish leaves the survivors alone.
LEMMA InterruptedKeeps ==
    ASSUME FaultInv, TypeInv', AppendInterrupted
    PROVE  /\ FaultLog' /\ StillSurvive
           /\ clock' \in Nat /\ clock <= clock'
           /\ clock' - 1 \in Tx
           /\ pc \in {"idle", "repair"} => clock' - 1 = clock
           /\ pc \in BeforeCommitRecord => clock' - 1 = cur.id
<1> USE DEF FaultInv, TypeInv, TypeOK
<1> DEFINE t == IF AppendedAt[pc] = "begin" THEN clock ELSE cur.id
<1>1. /\ pc \in {"idle", "repair"} \/ pc \in BeforeCommitRecord
      /\ pc \in {"idle", "repair"} => AppendedAt[pc] = "begin"
      /\ pc \in BeforeCommitRecord => AppendedAt[pc] = "commit"
  BY DEF AppendInterrupted, AppendedAt, BeforeCommitRecord
<1>2. clock \in 1..(MaxTx + 1)
  BY DEF HistoryTypeOK
<1>3. /\ t \in Tx /\ clock' \in Nat /\ clock <= clock' /\ t = clock' - 1 /\ t >= clock - 1
      /\ pc \in {"idle", "repair"} => t = clock
      /\ pc \in BeforeCommitRecord => t = cur.id
  <2>1. CASE pc \in {"idle", "repair"}
    BY <1>1, <1>2, <2>1 DEF AppendInterrupted, BeforeCommitRecord
  <2>2. CASE pc \in BeforeCommitRecord
    <3>1. cur.id \in Tx /\ cur.id = clock - 1
      BY <2>2 DEF FaultCurrent, CommitPath, CommitInProgress, BeforeCommitRecord
    <3>2. QED
      BY <1>1, <1>2, <2>2, <3>1 DEF AppendInterrupted, BeforeCommitRecord
  <2>3. QED
    BY <1>1, <2>1, <2>2
<1>4. log' \in Interrupted(log, AppendedAt[pc], t)
  BY DEF AppendInterrupted
<1> HIDE DEF t
<1>5. \A i \in 1..Len(log) : log[i].tx <= t
  BY <1>2, <1>3, PieceAt DEF FaultLog
<1>6. PICK p \in Pieces : p.tx = t /\ log' \in {log, Append(log, p)}
  <2>1. \A whole \in BOOLEAN : Piece(AppendedAt[pc], t, whole, FALSE) \in Pieces
                               /\ Piece(AppendedAt[pc], t, whole, FALSE).tx = t
    <3>1. AppendedAt[pc] \in {"begin", "commit"}
      BY <1>1
    <3>2. QED
      BY <1>3, <3>1, PieceType DEF Piece
  <2>2. CASE log' = log
    BY <2>1, <2>2
  <2>3. CASE log' # log
    BY <1>4, <2>1, <2>3 DEF Interrupted
  <2>4. QED
    BY <2>2, <2>3
<1>7. UNCHANGED <<synced, snapshots, meta>>
  BY DEF AppendInterrupted
<1>8. p.tx < clock' /\ \A i \in 1..Len(log) : log[i].tx <= p.tx
  BY <1>2, <1>3, <1>5, <1>6
<1>9. FaultLog' /\ StillSurvive
  BY <1>3, <1>6, <1>7, <1>8, LogGrows
<1>10. QED
  BY <1>3, <1>9

\* A power loss takes the part of the log that was not fsynced.
LEMMA PowerLossKeeps ==
    ASSUME FaultInv, TypeInv', PowerLoss
    PROVE  FaultInv'
<1> USE DEF FaultInv, TypeInv, TypeOK
<1>1. PICK k \in synced..Len(log) :
          \/ log' = SubSeq(log, 1, k)
          \/ /\ k < Len(log)
             /\ \E whole \in {FALSE, log[k + 1].whole} :
                    log' = Append(SubSeq(log, 1, k),
                                  [log[k + 1] EXCEPT !.whole = whole,
                                                     !.nl = FALSE])
  BY Zenon DEF PowerLoss
<1>2. /\ synced \in Nat /\ Len(log) \in Nat /\ k \in Nat /\ synced <= k /\ k <= Len(log)
      /\ log \in Seq(Pieces)
  BY DEF DiskTypeOK
<1>3. /\ SubSeq(log, 1, k) \in Seq(Pieces) /\ Len(SubSeq(log, 1, k)) = k
      /\ \A i \in 1..k : SubSeq(log, 1, k)[i] = log[i]
  BY <1>2
<1>4. /\ Len(log') \in {k, k + 1} /\ Len(log') <= Len(log)
      /\ \A i \in 1..k : log'[i] = log[i]
      /\ \A i \in 1..Len(log') : log'[i].tx = log[i].tx
  <2>1. CASE log' = SubSeq(log, 1, k)
    BY <1>2, <1>3, <2>1
  <2>2. CASE log' # SubSeq(log, 1, k)
    <3>1. k < Len(log) /\ log[k + 1] \in Pieces
      BY <1>1, <1>2, <2>2
    <3>2. PICK p \in Pieces : log' = Append(SubSeq(log, 1, k), p) /\ p.tx = log[k + 1].tx
      <4>1. \A whole \in {FALSE, log[k + 1].whole} :
                /\ [log[k + 1] EXCEPT !.whole = whole, !.nl = FALSE] \in Pieces
                /\ [log[k + 1] EXCEPT !.whole = whole, !.nl = FALSE].tx = log[k + 1].tx
        BY <3>1 DEF Pieces
      <4>2. QED
        BY <1>1, <2>2, <4>1, Zenon
    <3>3. Len(log') = k + 1 /\ log'[k + 1] = p /\ \A i \in 1..k : log'[i] = log[i]
      BY <1>3, <3>2
    <3>4. QED
      BY <1>2, <3>1, <3>2, <3>3
  <2>3. QED
    BY <2>1, <2>2
<1>5. UNCHANGED <<snapshots, meta, clock, durable>> /\ synced' = Len(log') /\ ProcessEnds
  BY DEF PowerLoss
<1>6. Base' = Base /\ (HasMeta' <=> HasMeta)
  BY <1>5 DEF Base, HasMeta
<1>7. FaultLog'
  BY <1>2, <1>4, <1>5, <1>6 DEF FaultLog
<1>8. outcome \in [Tx -> Outcomes] /\ durable \subseteq Tx /\ clock \in Nat /\ clock <= clock
  BY DEF HistoryTypeOK
<1>9. \A t \in Tx : /\ outcome'[t] # "pending"
                    /\ outcome'[t] = "acked" => outcome[t] = "acked" /\ t \in durable
  BY <1>8 DEF PowerLoss, InDoubt
<1>10. \A t \in durable : outcome'[t] = "acked" =>
           Survives(log', Len(log'), meta.last, Base, t)
  <2> SUFFICES ASSUME NEW t \in durable, outcome'[t] = "acked"
               PROVE  Survives(log', Len(log'), meta.last, Base, t)
    OBVIOUS
  <2>1. Survives(log, synced, meta.last, Base, t)
    BY <1>8, <1>9 DEF FaultKept
  <2>2. Len(log') \in Nat /\ synced <= Len(log') /\ \A i \in 1..synced : log'[i] = log[i]
    BY <1>2, <1>4
  <2>3. QED
    BY <1>2, <2>1, <2>2, SurvivesLonger
<1>11. FaultKept'
  BY <1>5, <1>6, <1>8, <1>9, <1>10 DEF FaultKept
<1>12. QED
  BY <1>5, <1>7, <1>8, <1>9, <1>11, EndKeeps

\* fsync: what is loaded now survives in the synced part, which is all of it.
LEMMA SyncKeeps ==
    ASSUME FaultInv, TypeInv', UNCHANGED <<log, snapshots, meta, clock>>,
           synced' = Len(log),
           durable' = durable \cup {t \in Tx : LoadOk /\ Loaded[t] > 0}
    PROVE  /\ FaultLog' /\ Base' = Base
           /\ \A t \in durable' : t < clock'
           /\ \A t \in durable' : outcome[t] \in {"acked", "pending"} =>
                  Survives(log', synced', meta'.last, Base', t)
<1>1. Base' = Base /\ (HasMeta' <=> HasMeta)
  BY DEF Base, HasMeta
<1>2. FaultLog'
  BY <1>1 DEF FaultInv, FaultLog
<1>3. ASSUME NEW t \in durable'
      PROVE  /\ t < clock
             /\ outcome[t] \in {"acked", "pending"} =>
                    Survives(log, Len(log), meta.last, Base, t)
  <2>1. CASE t \in durable
    <3>1. t < clock
      BY <2>1 DEF FaultInv, FaultAges
    <3>2. synced \in Nat /\ Len(log) \in Nat /\ synced <= Len(log)
          /\ \A i \in 1..synced : log[i] = log[i]
      BY DEF FaultInv, TypeInv, TypeOK, DiskTypeOK
    <3>3. Survives(log, synced, meta.last, Base, t) =>
              Survives(log, Len(log), meta.last, Base, t)
      BY <3>2, SurvivesLonger
    <3>4. QED
      BY <2>1, <3>1, <3>3 DEF FaultInv, FaultKept
  <2>2. CASE t \notin durable
    BY <1>3, <2>2, LoadedSurvives
  <2>3. QED
    BY <2>1, <2>2
<1>4. QED
  BY <1>1, <1>2, <1>3

\* Every step, with whatever faults, preserves the invariant.
LEMMA StepFault == FaultInv /\ [Next]_vars => FaultInv'
<1> SUFFICES ASSUME FaultInv, [Next]_vars PROVE FaultInv'
  OBVIOUS
<1>0. TypeInv'
  BY StepType DEF FaultInv
<1>a. /\ outcome \in [Tx -> Outcomes] /\ clock \in Nat /\ clock <= clock
      /\ db \in Db /\ before \in Db /\ durable \subseteq Tx
  BY DEF FaultInv, TypeInv, TypeOK, HistoryTypeOK, ProcessTypeOK
<1> USE DEF FaultInv
<1>b. ASSUME UNCHANGED <<log, synced, snapshots, meta>>
      PROVE  /\ Base' = Base /\ StillSurvive /\ (HasMeta' <=> HasMeta)
  BY <1>b DEF Base, HasMeta, StillSurvive
<1>c. ASSUME UNCHANGED <<log, meta, snapshots, clock>>
      PROVE  FaultLog'
  BY <1>c DEF FaultLog, HasMeta
<1>1. CASE Open
  <2>1. /\ UNCHANGED <<log, synced, snapshots, meta, clock, durable, before>>
        /\ pc = "down" /\ pc' \in {"repair", "idle"} /\ LoadOk /\ db' = Loaded
    BY <1>1 DEF Open, disk
  <2>2. \A t \in Tx : /\ outcome'[t] = "acked" => outcome[t] = "acked"
                      /\ outcome'[t] # "pending"
    BY <1>1, <1>a
    DEF Open, FaultCurrent, CommitPath, BeforeCommitRecord, AfterCommitRecord,
        SnapshotSteps
  <2>3. FaultLog' /\ FaultKept'
    BY <1>0, <1>a, <1>b, <1>c, <2>1, <2>2, KeptStays
  <2>4. \A t \in Tx : Loaded[t] > 0 => t < clock
    BY <2>1, LoadedSurvives
  <2>5. FaultAges'
    BY <1>0, <1>a, <2>1, <2>4, AgesKept
  <2>6. \A t \in Tx : outcome[t] = "acked" => Loaded[t] >= 1
    BY <2>1, FaultInvImplies DEF AckedNotLost
  <2>7. FaultMemory' /\ FaultSnapshot' /\ FaultCurrent'
    BY <2>1, <2>2, <2>6
    DEF FaultMemory, FaultSnapshot, FaultCurrent, CommitPath, BeforeCommitRecord,
        AfterCommitRecord, SnapshotSteps
  <2>8. QED
    BY <1>0, <2>3, <2>5, <2>7
<1>2. CASE OpenRejected \/ UNCHANGED vars
  <2>1. /\ UNCHANGED <<log, synced, snapshots, meta, clock, durable, before, db,
                       flush, cur, outcome, pc>>
    BY <1>2 DEF OpenRejected, vars, disk, volatile, history
  <2>2. FaultLog' /\ FaultKept'
    BY <1>0, <1>a, <1>b, <1>c, <2>1, KeptStays
  <2>3. FaultAges'
    BY <1>0, <1>a, <2>1, AgesKept
  <2>4. FaultMemory' /\ FaultSnapshot' /\ FaultCurrent'
    BY <1>b, <2>1 DEF FaultMemory, FaultSnapshot, FaultCurrent, NextGeneration
  <2>5. QED
    BY <1>0, <2>2, <2>3, <2>4
<1>3. CASE RepairBegin
  <2>1. /\ clock \in Tx /\ clock' = clock + 1
        /\ log' = Append(log, Record("begin", clock))
        /\ UNCHANGED <<synced, snapshots, meta, durable, db, before>>
        /\ cur'.id = clock /\ outcome' = [outcome EXCEPT ![clock] = "pending"]
        /\ pc = "repair" /\ pc' = "repairBegun"
    BY <1>3 DEF RepairBegin
  <2>2. FaultLog' /\ FaultKept' /\ FaultCurrent' /\ FaultSnapshot'
    BY <1>0, <2>1, BeginKeeps DEF BeforeCommitRecord
  <2>3. FaultAges'
    BY <1>0, <1>a, <2>1, AgesKept
  <2>4. FaultMemory'
    BY <1>a, <2>1 DEF FaultMemory, SnapshotSteps
  <2>5. QED
    BY <1>0, <2>2, <2>3, <2>4
<1>4. CASE RepairCommit
  <2>1. /\ log' = Append(log, Record("commit", cur.id))
        /\ UNCHANGED <<synced, snapshots, meta, durable, clock, outcome, cur, db, before>>
        /\ pc = "repairBegun" /\ pc' = "repairCommitted"
    BY <1>4 DEF RepairCommit, volatile, history
  <2>2. FaultLog' /\ FaultKept' /\ FaultCurrent' /\ FaultSnapshot'
    BY <1>0, <2>1, CommitKeeps DEF BeforeCommitRecord
  <2>3. FaultAges'
    BY <1>0, <1>a, <2>1, AgesKept
  <2>4. FaultMemory'
    BY <2>1 DEF FaultMemory, SnapshotSteps
  <2>5. QED
    BY <1>0, <2>2, <2>3, <2>4
<1>5. CASE RepairApply
  <2>1. /\ UNCHANGED <<log, snapshots, meta, clock, before>> /\ synced' = Len(log)
        /\ durable' = durable \cup {t \in Tx : LoadOk /\ Loaded[t] > 0}
        /\ db' = Apply(db, cur.id) /\ Acknowledge /\ pc = "repairCommitted"
    BY <1>5 DEF RepairApply, Acknowledge
  <2>2. /\ FaultLog' /\ Base' = Base
        /\ \A t \in durable' : t < clock'
        /\ \A t \in durable' : outcome[t] \in {"acked", "pending"} =>
               Survives(log', synced', meta'.last, Base', t)
    BY <1>0, <2>1, SyncKeeps
  <2>3. /\ pc \in AfterCommitRecord /\ pc \in CommitPath /\ cur.id \in Tx
        /\ cur.id < clock
    BY <1>a, <2>1 DEF AfterCommitRecord, CommitPath, FaultCurrent, TypeInv, CommitInProgress
  <2>4. \A t \in Tx : db'[t] = IF t = cur.id THEN db[t] + 1 ELSE db[t]
    BY <1>a, <2>1, <2>3 DEF Db, Apply
  <2>5. \A t \in Tx : outcome[t] = "acked" \/ t = cur.id => db'[t] >= 1
    BY <1>a, <2>1, <2>4 DEF FaultMemory, Db
  <2>6. FaultAges'
    <3>1. \A t \in Tx : db'[t] > 0 \/ before'[t] > 0 => t < clock'
      BY <2>1, <2>3, <2>4 DEF FaultAges
    <3>2. QED
      BY <2>1, <2>2, <3>1 DEF FaultAges
  <2>7. \A t \in Tx : outcome[t] = "acked" \/ t = cur.id =>
            Survives(log', Len(log'), meta'.last, Base', t)
    BY <2>1, <2>2, <2>3 DEF FaultKept, FaultCurrent
  <2>8. QED
    BY <1>0, <2>1, <2>2, <2>3, <2>5, <2>6, <2>7, AcknowledgeKeeps
<1>6. CASE Begin
  <2>1. /\ clock \in Tx /\ clock' = clock + 1
        /\ log' = Append(log, Record("begin", clock))
        /\ UNCHANGED <<synced, snapshots, meta, durable>>
        /\ before' = db /\ db' = Apply(db, clock)
        /\ cur'.id = clock /\ outcome' = [outcome EXCEPT ![clock] = "pending"]
        /\ pc = "idle" /\ pc' = "begun"
    BY <1>6 DEF Begin
  <2>2. FaultLog' /\ FaultKept' /\ FaultCurrent' /\ FaultSnapshot'
    BY <1>0, <2>1, BeginKeeps DEF BeforeCommitRecord
  <2>3. \A t \in Tx : db[t] \in Nat /\ db'[t] = IF t = clock THEN db[t] + 1 ELSE db[t]
    BY <1>a, <2>1 DEF Db, Apply
  <2>4. FaultAges'
    <3>1. \A t \in Tx : db'[t] > 0 \/ before'[t] > 0 =>
                            t < clock' \/ db[t] > 0 \/ before[t] > 0
      BY <1>a, <2>1, <2>3
    <3>2. clock' \in Nat /\ clock <= clock'
      BY <1>a, <2>1
    <3>3. QED
      BY <1>0, <2>1, <3>1, <3>2, AgesKept
  <2>5. FaultMemory'
    <3>1. \A t \in Tx : outcome'[t] = "acked" => outcome[t] = "acked" /\ db[t] >= 1
      BY <1>a, <2>1 DEF FaultMemory
    <3>2. QED
      BY <2>1, <2>3, <3>1 DEF FaultMemory
  <2>6. QED
    BY <1>0, <2>2, <2>4, <2>5
<1>7. CASE Commit
  <2>1. /\ log' = Append(log, Record("commit", cur.id))
        /\ UNCHANGED <<synced, snapshots, meta, durable, clock, outcome, cur, db>>
        /\ before' = EmptyDb /\ pc = "begun" /\ pc' = "committed"
    BY <1>7 DEF Commit, history
  <2>2. FaultLog' /\ FaultKept' /\ FaultCurrent' /\ FaultSnapshot'
    BY <1>0, <2>1, CommitKeeps DEF BeforeCommitRecord
  <2>3. FaultAges'
    BY <1>0, <1>a, <2>1, AgesKept DEF EmptyDb
  <2>4. FaultMemory'
    BY <2>1 DEF FaultMemory
  <2>5. QED
    BY <1>0, <2>2, <2>3, <2>4
<1>8. CASE AfterCommit
  <2>1. /\ UNCHANGED <<log, synced, snapshots, meta, clock, durable, db, before>>
        /\ pc = "committed"
        /\ Acknowledge \/ (pc' = "snapshot" /\ UNCHANGED <<cur, outcome>>)
    BY <1>8 DEF AfterCommit, disk
  <2>2. FaultLog' /\ Base' = Base /\ StillSurvive
    BY <1>b, <1>c, <2>1
  <2>3. FaultAges'
    BY <1>0, <1>a, <2>1, AgesKept
  <2>4. /\ pc \in AfterCommitRecord
        /\ \A t \in Tx : outcome[t] = "acked" \/ t = cur.id => db[t] >= 1
    BY <2>1 DEF AfterCommitRecord, FaultMemory
  <2>5. CASE Acknowledge
    <3>1. \A t \in Tx : outcome[t] = "acked" \/ t = cur.id =>
              Survives(log', Len(log'), meta'.last, Base', t)
      BY <2>1, <2>2, <2>4 DEF FaultKept, FaultCurrent
    <3>2. \A t \in durable' : outcome[t] \in {"acked", "pending"} =>
              Survives(log', synced', meta'.last, Base', t)
      BY <2>1, <2>2 DEF FaultKept
    <3>3. QED
      BY <1>0, <2>1, <2>2, <2>3, <2>4, <2>5, <3>1, <3>2, AcknowledgeKeeps
  <2>6. CASE pc' = "snapshot" /\ UNCHANGED <<cur, outcome>>
    <3>1. FaultKept'
      BY <1>0, <2>1, <2>2, <2>6, KeptStays
    <3>2. FaultMemory' /\ FaultSnapshot'
      BY <2>1, <2>6 DEF FaultMemory, FaultSnapshot, SnapshotSteps
    <3>3. FaultCurrent'
      BY <2>1, <2>2, <2>6
      DEF FaultCurrent, CommitPath, BeforeCommitRecord, AfterCommitRecord, SnapshotSteps
    <3>4. QED
      BY <1>0, <2>2, <2>3, <3>1, <3>2, <3>3
  <2>7. QED
    BY <2>1, <2>5, <2>6
\* A step of write_snapshot_generation that succeeds and is not the last.
<1>9. ASSUME SnapshotEffect, pc \in SnapshotSteps, pc' \in SnapshotSteps,
             UNCHANGED <<volatile, clock, body, outcome>>, FaultSnapshot'
      PROVE  FaultInv'
  <2>1. UNCHANGED <<db, before, cur, flush, clock, outcome>>
    BY <1>9 DEF volatile
  <2>2. /\ FaultLog' /\ FaultAges'
        /\ \A i \in 1..Len(log') :
               log'[i].tx = cur.id => (log'[i].whole /\ log'[i].nl)
        /\ \A t \in Tx : outcome[t] = "acked" \/ t = cur.id =>
               Survives(log', Len(log'), meta'.last, Base', t)
        /\ \A t \in durable' : outcome[t] \in {"acked", "pending"} =>
               Survives(log', synced', meta'.last, Base', t)
    BY <1>0, <1>9, <2>1, SnapshotKeeps
  <2>3. cur.id \in Tx
    BY <1>9 DEF TypeInv, CommitInProgress
  <2>4. FaultKept'
    BY <2>1, <2>2 DEF FaultKept
  <2>5. FaultMemory'
    BY <1>9, <2>1 DEF FaultMemory, SnapshotSteps
  <2>6. FaultCurrent'
    <3>1. pc \in CommitPath /\ pc' \in CommitPath /\ pc' \notin BeforeCommitRecord
      BY <1>9 DEF CommitPath, AfterCommitRecord, BeforeCommitRecord, SnapshotSteps
    <3>2. Survives(log', Len(log'), meta'.last, Base', cur'.id)
      BY <2>1, <2>2, <2>3
    <3>3. QED
      BY <2>1, <2>2, <3>1, <3>2 DEF FaultCurrent
  <2>7. QED
    BY <1>0, <1>9, <2>2, <2>4, <2>5, <2>6
\* The last step, and every step that reports an error.
<1>10. ASSUME SnapshotEffect, pc \in SnapshotSteps, Acknowledge,
              UNCHANGED <<db, before, clock>>
       PROVE  FaultInv'
  <2>1. /\ FaultLog' /\ FaultAges'
        /\ \A t \in Tx : outcome[t] = "acked" \/ t = cur.id =>
               Survives(log', Len(log'), meta'.last, Base', t)
        /\ \A t \in durable' : outcome[t] \in {"acked", "pending"} =>
               Survives(log', synced', meta'.last, Base', t)
    BY <1>0, <1>10, SnapshotKeeps
  <2>2. /\ pc \in AfterCommitRecord
        /\ \A t \in Tx : outcome[t] = "acked" \/ t = cur.id => db'[t] >= 1
    BY <1>10 DEF AfterCommitRecord, FaultMemory, SnapshotSteps
  <2>3. QED
    BY <1>0, <1>10, <2>1, <2>2, AcknowledgeKeeps
<1>11. CASE WriteGenerationSnapshot
  <2>1. SnapshotEffect /\ pc \in SnapshotSteps /\ pc' \in SnapshotSteps
        /\ UNCHANGED <<volatile, clock, body, outcome>>
    BY <1>11 DEF WriteGenerationSnapshot, SnapshotEffect, SnapshotSteps
  <2>2. FaultSnapshot'
    BY <1>11 DEF WriteGenerationSnapshot, GenerationFileWritten, FaultSnapshot,
       NextGeneration, volatile, SnapshotSteps
  <2>3. QED
    BY <1>9, <2>1, <2>2
<1>12. CASE WriteMetadata
  <2>1. SnapshotEffect /\ pc \in SnapshotSteps /\ pc' \in SnapshotSteps
        /\ UNCHANGED <<volatile, clock, body, outcome>>
    BY <1>12 DEF WriteMetadata, SnapshotEffect, SnapshotSteps
  <2>2. FaultSnapshot'
    BY <1>12 DEF WriteMetadata, MetadataWritten, FaultSnapshot, NextGeneration,
       volatile, SnapshotSteps
  <2>3. QED
    BY <1>9, <2>1, <2>2
<1>13. CASE CompactLog
  <2>1. SnapshotEffect /\ pc \in SnapshotSteps /\ pc' \in SnapshotSteps
        /\ UNCHANGED <<volatile, clock, body, outcome>>
    BY <1>13 DEF CompactLog, SnapshotEffect, SnapshotSteps
  <2>2. UNCHANGED <<snapshots, meta>> /\ pc = "compact" /\ pc' \in {"latest", "metaCompacted"}
    BY <1>13 DEF CompactLog, LogCompacted, disk
  <2>3. FaultSnapshot'
    BY <2>1, <2>2 DEF FaultSnapshot, NextGeneration, volatile, SnapshotSteps
  <2>4. QED
    BY <1>9, <2>1, <2>3
<1>14. CASE WriteCompactedMetadata
  <2>1. SnapshotEffect /\ pc \in SnapshotSteps /\ pc' \in SnapshotSteps
        /\ UNCHANGED <<volatile, clock, body, outcome>>
    BY <1>14 DEF WriteCompactedMetadata, SnapshotEffect, SnapshotSteps
  <2>2. FaultSnapshot'
    BY <1>14 DEF WriteCompactedMetadata, MetadataWritten, FaultSnapshot,
       NextGeneration, volatile, SnapshotSteps
  <2>3. QED
    BY <1>9, <2>1, <2>2
<1>15. CASE WriteLatestSnapshot
  BY <1>10, <1>15 DEF WriteLatestSnapshot, SnapshotEffect, SnapshotSteps
<1>16. CASE SnapshotStepFails
  BY <1>10, <1>16 DEF SnapshotStepFails, SnapshotEffect, SnapshotSteps
<1>17. CASE SyncLog
  <2>1. /\ UNCHANGED <<log, snapshots, meta, clock, pc, db, before, flush, cur, outcome>>
        /\ synced' = Len(log)
        /\ durable' = durable \cup {t \in Tx : LoadOk /\ Loaded[t] > 0}
    BY <1>17 DEF SyncLog
  <2>2. /\ FaultLog' /\ Base' = Base
        /\ \A t \in durable' : t < clock'
        /\ \A t \in durable' : outcome[t] \in {"acked", "pending"} =>
               Survives(log', synced', meta'.last, Base', t)
    BY <1>0, <2>1, SyncKeeps
  <2>3. FaultAges' /\ FaultKept'
    BY <2>1, <2>2 DEF FaultAges, FaultKept
  <2>4. FaultMemory' /\ FaultSnapshot' /\ FaultCurrent'
    BY <2>1, <2>2 DEF FaultMemory, FaultSnapshot, FaultCurrent, NextGeneration
  <2>5. QED
    BY <1>0, <2>2, <2>3, <2>4
<1>18. CASE Kill
  <2>1. /\ UNCHANGED <<log, synced, snapshots, meta, clock, durable>> /\ ProcessEnds
        /\ outcome' = InDoubt
    BY <1>18 DEF Kill, disk
  <2>2. \A t \in Tx : /\ outcome'[t] # "pending"
                      /\ outcome'[t] = "acked" => outcome[t] = "acked"
    BY <1>a, <2>1 DEF InDoubt
  <2>3. FaultLog' /\ FaultKept'
    BY <1>0, <1>a, <1>b, <1>c, <2>1, <2>2, KeptStays
  <2>4. QED
    BY <1>0, <1>a, <2>1, <2>2, <2>3, EndKeeps
<1>19. CASE KilledInAppend
  <2>1. AppendInterrupted /\ ProcessEnds /\ UNCHANGED <<snapshots, durable>>
        /\ outcome' = [InDoubt EXCEPT ![clock' - 1] = "doubt"]
    BY <1>19 DEF KilledInAppend, AppendInterrupted
  <2>2. FaultLog' /\ StillSurvive /\ clock' \in Nat /\ clock <= clock'
    BY <1>0, <2>1, InterruptedKeeps
  <2>3. \A t \in Tx : /\ outcome'[t] # "pending"
                      /\ outcome'[t] = "acked" => outcome[t] = "acked"
    BY <1>a, <2>1 DEF InDoubt
  <2>4. FaultKept'
    BY <1>0, <1>a, <2>1, <2>2, <2>3, KeptStays
  <2>5. QED
    BY <1>0, <2>1, <2>2, <2>3, <2>4, EndKeeps
<1>20. CASE AppendFails
  <2>1. AppendInterrupted /\ UNCHANGED <<snapshots, durable>>
        /\ outcome' = [outcome EXCEPT ![clock' - 1] = "failed"]
    BY <1>20 DEF AppendFails, AppendInterrupted
  <2>2. /\ FaultLog' /\ StillSurvive /\ clock' \in Nat /\ clock <= clock' /\ clock' - 1 \in Tx
        /\ pc \in BeforeCommitRecord => clock' - 1 = cur.id
    BY <1>0, <2>1, InterruptedKeeps
  <2>p. pc \in {"idle", "repair"} \/ pc \in BeforeCommitRecord
    BY <2>1 DEF AppendInterrupted, AppendedAt, BeforeCommitRecord
  <2>q. \A t \in Tx : outcome[t] = "pending" => pc \in BeforeCommitRecord /\ t = cur.id
    BY <2>p DEF FaultCurrent, CommitPath, BeforeCommitRecord, AfterCommitRecord, SnapshotSteps
  <2>3. \A t \in Tx : /\ outcome'[t] # "pending"
                      /\ outcome'[t] = "acked" => outcome[t] = "acked"
    BY <1>a, <2>1, <2>2, <2>q
  <2>4. FaultKept'
    BY <1>0, <1>a, <2>1, <2>2, <2>3, KeptStays
  <2>5. CASE ProcessEnds
    BY <1>0, <2>1, <2>2, <2>3, <2>4, <2>5, EndKeeps
  <2>6. CASE ~ProcessEnds
    <3>1. /\ pc \in {"idle", "begun"} /\ db' = (IF pc = "begun" THEN before ELSE db)
          /\ before' = EmptyDb /\ pc' = "idle"
      BY <1>20, <2>6 DEF AppendFails
    <3>2. FaultAges'
      BY <1>0, <2>1, <2>2, <3>1, AgesKept DEF EmptyDb
    <3>3. FaultMemory'
      BY <2>3, <3>1 DEF FaultMemory, SnapshotSteps
    <3>4. FaultCurrent' /\ FaultSnapshot'
      BY <2>3, <3>1
      DEF FaultCurrent, FaultSnapshot, CommitPath, BeforeCommitRecord, AfterCommitRecord,
          SnapshotSteps
    <3>5. QED
      BY <1>0, <2>2, <2>4, <3>2, <3>3, <3>4
  <2>7. QED
    BY <2>5, <2>6
<1>21. CASE PowerLoss
  BY <1>0, <1>21, PowerLossKeeps
<1>22. QED
  BY <1>1, <1>2, <1>3, <1>4, <1>5, <1>6, <1>7, <1>8, <1>11, <1>12, <1>13, <1>14,
     <1>15, <1>16, <1>17, <1>18, <1>19, <1>20, <1>21 DEF Next

\* Whatever combination of kills, cut appends, append errors, snapshot errors and
\* power losses happens, a data directory that opens holds every transaction
\* that was acknowledged and not taken back by a power loss before its fsync.
THEOREM AckedSurvives == Spec => []AckedNotLost
<1>1. FaultInv /\ [Next]_vars => FaultInv'
  BY StepFault
<1>2. QED
  BY <1>1, FaultInit, FaultInvImplies, PTL DEF Spec
================================================================================
