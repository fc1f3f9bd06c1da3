----------------------------- MODULE DurableStore -----------------------------
(***************************************************************************)
(* The durable commit path and the recovery procedure of the store         *)
(* (src/storage/mod.rs, mutation_log.rs, snapshot.rs): every transaction   *)
(* is a begin and a commit record appended to mutations.jsonl; from time   *)
(* to time the state is written to snapshot.<generation>.json, named by    *)
(* snapshot.meta.json, and the log is cut after the last transaction the   *)
(* snapshot contains; opening the store loads the snapshot and replays the *)
(* rest of the log.                                                        *)
(*                                                                         *)
(* The process can be killed between any two steps.  Faults adds what else *)
(* may go wrong: a kill in the middle of an append, an I/O error while     *)
(* appending, an I/O error while writing snapshot files, and a power loss  *)
(* that takes the part of the log that was not fsynced.                    *)
(*                                                                         *)
(* Data abstraction.  A database is the multiset of the transactions that  *)
(* were applied to it, transaction ids are the values of a strictly        *)
(* increasing clock, and a log record is its kind and its transaction.     *)
(* The commit lock is held from Begin to the last snapshot step, so commits*)
(* do not interleave and the program counter below is that of the one      *)
(* thread inside the commit path.                                          *)
(***************************************************************************)
EXTENDS Naturals, Sequences, FiniteSetsExt

CONSTANTS
    MaxTx,          \* bound: transaction ids the clock hands out
    WriteThreshold, \* SnapshotPolicy.write_threshold
    MutationCounts, \* sizes of the transactions clients submit
    Bodies,         \* what clients submit: "write", or "legacy" (see Repair)
    Faults          \* subset of FaultKinds

FaultKinds == {"torn", "append_error", "snapshot_error", "power_loss"}

ASSUME ConstantsAssumption ==
    /\ MaxTx \in Nat
    /\ WriteThreshold \in Nat
    /\ MutationCounts \subseteq Nat
    /\ Bodies \subseteq {"write", "legacy"}
    /\ Faults \subseteq FaultKinds

Tx == 1..MaxTx
NoTx == 0

Db == [Tx -> Nat]
EmptyDb == [t \in Tx |-> 0]
Apply(d, t) == [d EXCEPT ![t] = @ + 1]

VARIABLES
    \* the data directory
    log,          \* mutations.jsonl, as the sequence of the appended pieces
    synced,       \* how many pieces of log survive a power loss
    snapshots,    \* generation -> content of snapshot.<generation>.json
    meta,         \* snapshot.meta.json
    snapshotJson, \* content of snapshot.json
    \* the process
    pc,           \* where the thread that holds the commit lock is
    db,           \* Store.inner
    before,       \* the state to go back to when the commit record fails
    flush,        \* SnapshotFlushState
    cur,          \* the transaction being committed and its mutation count
    syncDirty,    \* the mutation log syncer has been asked to sync
    \* the environment and history
    clock,        \* the next transaction id
    body,         \* what each transaction contains
    outcome,      \* what became of each transaction
    durable       \* transactions that were fsynced, in the log or a snapshot

disk     == <<log, synced, snapshots, meta, snapshotJson>>
volatile == <<db, before, flush, cur, syncDirty>>
history  == <<clock, body, outcome, durable>>
vars     == <<disk, pc, volatile, history>>

-----------------------------------------------------------------------------
(* mutations.jsonl.  append_json_record writes the JSON text of a record   *)
(* and then a newline.  A piece is what one append left in the file:       *)
(* `whole' when all of the JSON text is there, `nl' when the newline       *)
(* followed it.  A piece that follows one without a newline continues its  *)
(* line.                                                                   *)

Piece(rec, t, whole, nl) == [rec |-> rec, tx |-> t, whole |-> whole, nl |-> nl]
Record(rec, t) == Piece(rec, t, TRUE, TRUE)
Pieces == [rec : {"begin", "commit", "marker"}, tx : Tx,
           whole : BOOLEAN, nl : BOOLEAN]

\* What an append that did not finish may have left behind.
Interrupted(lg, rec, t) ==
    {lg} \cup {Append(lg, Piece(rec, t, whole, FALSE)) : whole \in BOOLEAN}

StartsLine(lg, i) == i > 1 => lg[i - 1].nl
EndsLine(lg, i)   == i < Len(lg) => lg[i].nl

\* Line i parses: it consists of one whole record and nothing else.
Parses(lg, i) == lg[i].whole /\ StartsLine(lg, i) /\ EndsLine(lg, i)

\* Piece i belongs to a final line without a newline.
InFinalLine(lg, i) == \A j \in i..Len(lg) : ~lg[j].nl

\* is_commit_record_for and is_compaction_marker_for
IsCommitFor(lg, i, t) == Parses(lg, i) /\ lg[i].rec = "commit" /\ lg[i].tx = t
IsMarkerFor(lg, i, t) == Parses(lg, i) /\ lg[i].rec = "marker" /\ lg[i].tx = t

-----------------------------------------------------------------------------
(* snapshot.meta.json and load_durable_state                               *)

NoMeta == [generation |-> 0, last |-> NoTx, compacted |-> FALSE]
HasMeta == meta.generation # 0

\* With log_compacted = false the replay starts after the commit record, or the
\* compaction marker, of the last transaction in the snapshot.
ReplaysAfter == HasMeta /\ ~meta.compacted /\ meta.last # NoTx

HighWater ==
    {i \in 1..Len(log) : IsCommitFor(log, i, meta.last)
                         \/ IsMarkerFor(log, i, meta.last)}

\* The last position of the log that is skipped.
ReplayStart ==
    IF ~ReplaysAfter THEN 0
    ELSE IF HighWater = {} THEN Len(log) ELSE Min(HighWater)

\* Opening succeeds: the snapshot named by the metadata exists, the high-water
\* transaction is in the log, and every replayed line parses, except for a
\* final line without a newline.
LoadOk ==
    /\ HasMeta => meta.generation \in DOMAIN snapshots
    /\ ReplaysAfter => HighWater # {}
    /\ \A i \in (ReplayStart + 1)..Len(log) :
           Parses(log, i) \/ InFinalLine(log, i)

\* Mutant: any commit record applies every pending transaction.
Replays_AnyCommit(t) ==
    \E i, j \in (ReplayStart + 1)..Len(log) :
        /\ j < i
        /\ Parses(log, j) /\ log[j].rec = "begin" /\ log[j].tx = t
        /\ Parses(log, i) /\ log[i].rec = "commit"

\* replay_record: begin puts the mutations in pending_transactions, commit
\* applies what is pending under its id; markers are skipped.
Replays(t) ==
    \E i, j \in (ReplayStart + 1)..Len(log) :
        /\ j < i
        /\ Parses(log, j) /\ log[j].rec = "begin" /\ log[j].tx = t
        /\ IsCommitFor(log, i, t)

Base == IF HasMeta THEN snapshots[meta.generation] ELSE EmptyDb

\* The database the store would hold after being opened on this disk.
Loaded == [t \in Tx |-> Base[t] + IF Replays(t) THEN 1 ELSE 0]

\* plan_dashboards_encoded_document_id_repairs finds something to rename: a
\* document with an encoded id ("legacy") was written after the last repair.
NeedsRepair(d) ==
    \E t \in Tx :
        /\ d[t] > 0 /\ body[t] = "legacy"
        /\ \A r \in Tx : d[r] > 0 /\ body[r] = "repair" => r < t

-----------------------------------------------------------------------------
(* State                                                                   *)

NoFlush == [generation |-> 0, dirty |-> 0, last |-> NoTx]
NoCur   == [id |-> NoTx, writes |-> 0]

SnapshotSteps == {"snapshot", "meta", "compact", "metaCompacted", "latest"}
Steps == {"down", "repair", "repairBegun", "repairCommitted",
          "idle", "begun", "committed"} \cup SnapshotSteps

\* "pending" while the commit is in progress; "doubt" when the process ended
\* before the client had an answer; "recovered" when a transaction in doubt
\* turned out to be committed; "failed" when the client got an error, or when a
\* transaction in doubt turned out not to be committed.
Outcomes == {"unused", "pending", "acked", "failed", "doubt", "recovered"}

FlushStates == [generation : Nat, dirty : Nat, last : Tx \cup {NoTx}]

DiskTypeOK ==
    /\ log \in Seq(Pieces)
    /\ synced \in 0..Len(log)
    /\ DOMAIN snapshots \subseteq Nat
    /\ \A g \in DOMAIN snapshots : snapshots[g] \in Db
    /\ meta \in [generation : Nat, last : Tx \cup {NoTx}, compacted : BOOLEAN]
    /\ snapshotJson \in Db

ProcessTypeOK ==
    /\ pc \in Steps
    /\ db \in Db /\ before \in Db
    /\ flush \in FlushStates
    /\ cur \in [id : Tx \cup {NoTx}, writes : Nat]
    /\ syncDirty \in BOOLEAN

HistoryTypeOK ==
    /\ clock \in 1..(MaxTx + 1)
    /\ body \in [Tx -> {"write", "legacy", "repair"}]
    /\ outcome \in [Tx -> Outcomes]
    /\ durable \subseteq Tx

TypeOK == DiskTypeOK /\ ProcessTypeOK /\ HistoryTypeOK

\* An empty data directory, and no server.
Init ==
    /\ log = <<>>
    /\ synced = 0
    /\ snapshots = [g \in {} |-> EmptyDb]
    /\ meta = NoMeta
    /\ snapshotJson = EmptyDb
    /\ pc = "down"
    /\ db = EmptyDb
    /\ before = EmptyDb
    /\ flush = NoFlush
    /\ cur = NoCur
    /\ syncDirty = FALSE
    /\ clock = 1
    /\ body = [t \in Tx |-> "write"]
    /\ outcome = [t \in Tx |-> "unused"]
    /\ durable = {}

-----------------------------------------------------------------------------
(* Store::open                                                             *)

Open ==
    /\ pc = "down"
    /\ LoadOk
    /\ db' = Loaded
    /\ flush' = [generation |-> meta.generation, dirty |-> 0, last |-> meta.last]
    /\ pc' = IF NeedsRepair(Loaded) THEN "repair" ELSE "idle"
    /\ outcome' = [t \in Tx |->
                      IF outcome[t] # "doubt" THEN outcome[t]
                      ELSE IF Loaded[t] > 0 THEN "recovered" ELSE "failed"]
    /\ UNCHANGED <<disk, before, cur, syncDirty, clock, body, durable>>

\* InvalidData: the server does not start.
OpenRejected ==
    /\ pc = "down"
    /\ ~LoadOk
    /\ UNCHANGED vars

\* repair_dashboards_encoded_document_ids: a transaction of its own, applied to
\* the loaded database and fsynced before the server starts.
RepairBegin ==
    /\ pc = "repair"
    /\ clock \in Tx
    /\ log' = Append(log, Record("begin", clock))
    /\ body' = [body EXCEPT ![clock] = "repair"]
    /\ outcome' = [outcome EXCEPT ![clock] = "pending"]
    /\ \E n \in MutationCounts : cur' = [id |-> clock, writes |-> n]
    /\ clock' = clock + 1
    /\ pc' = "repairBegun"
    /\ UNCHANGED <<synced, snapshots, meta, snapshotJson, db, before, flush,
                   syncDirty, durable>>

RepairCommit ==
    /\ pc = "repairBegun"
    /\ log' = Append(log, Record("commit", cur.id))
    /\ pc' = "repairCommitted"
    /\ UNCHANGED <<synced, snapshots, meta, snapshotJson, volatile, history>>

RepairApply ==
    /\ pc = "repairCommitted"
    /\ db' = Apply(db, cur.id)
    /\ synced' = Len(log)
    /\ flush' = [generation |-> flush.generation,
                 dirty |-> flush.dirty + cur.writes, last |-> cur.id]
    /\ outcome' = [outcome EXCEPT ![cur.id] = "acked"]
    /\ durable' = durable \cup {t \in Tx : LoadOk /\ Loaded[t] > 0}
    /\ cur' = NoCur
    /\ pc' = "idle"
    /\ UNCHANGED <<log, snapshots, meta, snapshotJson, before, syncDirty,
                   clock, body>>

-----------------------------------------------------------------------------
(* commit_mutations and append_committed_transaction.  Validation has      *)
(* accepted the mutations; see the module WriteOperations.                 *)

\* The begin record is appended and the candidate becomes the database; the
\* write lock is held, so readers do not see it yet.
Begin ==
    /\ pc = "idle"
    /\ clock \in Tx
    /\ log' = Append(log, Record("begin", clock))
    /\ before' = db
    /\ db' = Apply(db, clock)
    /\ \E n \in MutationCounts, b \in Bodies :
           /\ cur' = [id |-> clock, writes |-> n]
           /\ body' = [body EXCEPT ![clock] = b]
    /\ outcome' = [outcome EXCEPT ![clock] = "pending"]
    /\ clock' = clock + 1
    /\ pc' = "begun"
    /\ UNCHANGED <<synced, snapshots, meta, snapshotJson, flush, syncDirty,
                   durable>>

Commit ==
    /\ pc = "begun"
    /\ log' = Append(log, Record("commit", cur.id))
    /\ before' = EmptyDb
    /\ pc' = "committed"
    /\ UNCHANGED <<synced, snapshots, meta, snapshotJson, db, flush, cur,
                   syncDirty, history>>

\* The client gets its answer and the commit lock is released.
Acknowledge ==
    /\ outcome' = [outcome EXCEPT ![cur.id] = "acked"]
    /\ cur' = NoCur
    /\ pc' = "idle"

\* Mutant: last_transaction_id is only set by the first commit.
AfterCommit_StaleHighWater ==
    /\ pc = "committed"
    /\ syncDirty' = TRUE
    /\ LET dirty == flush.dirty + cur.writes
       IN  /\ flush' = [flush EXCEPT !.dirty = dirty,
                           !.last = IF @ = NoTx THEN cur.id ELSE @]
           /\ \/ dirty < WriteThreshold /\ Acknowledge
              \/ pc' = "snapshot" /\ UNCHANGED <<cur, outcome>>
    /\ UNCHANGED <<disk, db, before, clock, body, durable>>

\* Mutant: the log is compacted before the snapshot is written.
AfterCommit_CompactsFirst ==
    /\ pc = "committed"
    /\ syncDirty' = TRUE
    /\ LET dirty == flush.dirty + cur.writes
       IN  /\ flush' = [generation |-> flush.generation, dirty |-> dirty,
                        last |-> cur.id]
           /\ \/ dirty < WriteThreshold /\ Acknowledge
              \/ pc' = "compact" /\ UNCHANGED <<cur, outcome>>
    /\ UNCHANGED <<disk, db, before, clock, body, durable>>

\* schedule_mutation_log_sync and the first half of after_committed_transaction:
\* a snapshot is due when enough writes are dirty, or when the oldest of them
\* is older than the snapshot interval.
AfterCommit ==
    /\ pc = "committed"
    /\ syncDirty' = TRUE
    /\ LET writes == IF cur.writes = 0 THEN 1 ELSE cur.writes
           dirty  == flush.dirty + writes
       IN  /\ flush' = [generation |-> flush.generation, dirty |-> dirty,
                        last |-> cur.id]
           /\ \/ dirty < WriteThreshold /\ Acknowledge
              \/ pc' = "snapshot" /\ UNCHANGED <<cur, outcome>>
    /\ UNCHANGED <<disk, db, before, clock, body, durable>>

-----------------------------------------------------------------------------
(* write_snapshot_generation.  Every file is written to a temporary file,  *)
(* fsynced, renamed, and its directory fsynced: the file holds its old or  *)
(* its new content.  The effect of each step on the disk is separate from  *)
(* its control, because a step may report an error after the rename.       *)

NextGeneration == flush.generation + 1

\* Mutant: the snapshot is taken of the state before the transaction.
GenerationFileWritten_Before ==
    /\ snapshots' = [g \in DOMAIN snapshots \cup {NextGeneration} |->
                        IF g = NextGeneration THEN [db EXCEPT ![cur.id] = 0]
                        ELSE snapshots[g]]
    /\ UNCHANGED <<log, synced, meta, snapshotJson, durable>>

GenerationFileWritten ==
    /\ snapshots' = [g \in DOMAIN snapshots \cup {NextGeneration} |->
                        IF g = NextGeneration THEN db ELSE snapshots[g]]
    /\ UNCHANGED <<log, synced, meta, snapshotJson, durable>>

\* Mutant: the metadata says log_compacted before the log is compacted.
MetadataWritten_TooEarly(compacted) ==
    /\ meta' = [generation |-> NextGeneration, last |-> flush.last,
                compacted |-> TRUE]
    /\ durable' = durable \cup {t \in Tx : db[t] > 0}
    /\ UNCHANGED <<log, synced, snapshots, snapshotJson>>

MetadataWritten(compacted) ==
    /\ meta' = [generation |-> NextGeneration, last |-> flush.last,
                compacted |-> compacted]
    /\ durable' = durable \cup {t \in Tx : db[t] > 0}
    /\ UNCHANGED <<log, synced, snapshots, snapshotJson>>

\* compact_after finds the first commit record of the last transaction.
CommitRecords == {i \in 1..Len(log) : IsCommitFor(log, i, flush.last)}

\* Mutant: the compacted log has no marker.
LogCompacted_NoMarker ==
    /\ CommitRecords # {}
    /\ log' = SubSeq(log, Min(CommitRecords) + 1, Len(log))
    /\ synced' = Len(log')
    /\ UNCHANGED <<snapshots, meta, snapshotJson, durable>>



\* The new log is a marker and whatever follows the commit record.
LogCompacted ==
    /\ CommitRecords # {}
    /\ log' = <<Record("marker", flush.last)>>
                  \o SubSeq(log, Min(CommitRecords) + 1, Len(log))
    /\ synced' = Len(log')
    /\ UNCHANGED <<snapshots, meta, snapshotJson, durable>>

LatestFileWritten ==
    /\ snapshotJson' = db
    /\ UNCHANGED <<log, synced, snapshots, meta, durable>>

WriteGenerationSnapshot ==
    /\ pc = "snapshot"
    /\ GenerationFileWritten
    /\ pc' = "meta"
    /\ UNCHANGED <<volatile, clock, body, outcome>>

WriteMetadata ==
    /\ pc = "meta"
    /\ MetadataWritten(FALSE)
    /\ pc' = "compact"
    /\ UNCHANGED <<volatile, clock, body, outcome>>

CompactLog ==
    /\ pc = "compact"
    /\ IF CommitRecords = {}
       THEN pc' = "latest" /\ UNCHANGED <<disk, durable>>
       ELSE pc' = "metaCompacted" /\ LogCompacted
    /\ UNCHANGED <<volatile, clock, body, outcome>>

WriteCompactedMetadata ==
    /\ pc = "metaCompacted"
    /\ MetadataWritten(TRUE)
    /\ pc' = "latest"
    /\ UNCHANGED <<volatile, clock, body, outcome>>

\* snapshot.json, then the second half of after_committed_transaction.
WriteLatestSnapshot ==
    /\ pc = "latest"
    /\ LatestFileWritten
    /\ flush' = [generation |-> NextGeneration, dirty |-> 0, last |-> flush.last]
    /\ Acknowledge
    /\ UNCHANGED <<db, before, syncDirty, clock, body>>

\* A step of write_snapshot_generation returns an error: a warning is printed,
\* generation and dirty_writes stay as they are, and the commit still succeeds.
SnapshotStepFails ==
    /\ "snapshot_error" \in Faults
    /\ \/ pc \in SnapshotSteps /\ UNCHANGED <<disk, durable>>
       \/ pc = "snapshot" /\ GenerationFileWritten
       \/ pc = "meta" /\ MetadataWritten(FALSE)
       \/ pc = "compact" /\ LogCompacted
       \/ pc = "metaCompacted" /\ MetadataWritten(TRUE)
       \/ pc = "latest" /\ LatestFileWritten
    /\ Acknowledge
    /\ UNCHANGED <<db, before, flush, syncDirty, clock, body>>

-----------------------------------------------------------------------------
(* The mutation log syncer (module LogSyncer): some time after mark_dirty  *)
(* everything that was appended is fsynced.                                *)

\* Mutant: the syncer flushes without fsync.
SyncLog_NoFsync ==
    /\ pc # "down"
    /\ syncDirty
    /\ syncDirty' = FALSE
    /\ durable' = durable \cup {t \in Tx : LoadOk /\ Loaded[t] > 0}
    /\ UNCHANGED <<disk, pc, db, before, flush, cur, clock, body, outcome>>

SyncLog ==
    /\ pc # "down"
    /\ syncDirty
    /\ syncDirty' = FALSE
    /\ synced' = Len(log)
    /\ durable' = durable \cup {t \in Tx : LoadOk /\ Loaded[t] > 0}
    /\ UNCHANGED <<log, snapshots, meta, snapshotJson, pc, db, before, flush,
                   cur, clock, body, outcome>>

-----------------------------------------------------------------------------
(* Faults                                                                  *)

ProcessEnds ==
    /\ pc # "down"
    /\ pc' = "down"
    /\ db' = EmptyDb
    /\ before' = EmptyDb
    /\ flush' = NoFlush
    /\ cur' = NoCur
    /\ syncDirty' = FALSE

InDoubt == [t \in Tx |-> IF outcome[t] = "pending" THEN "doubt" ELSE outcome[t]]

\* The process is killed between two steps; the kernel keeps what was written.
Kill ==
    /\ ProcessEnds
    /\ outcome' = InDoubt
    /\ UNCHANGED <<disk, clock, body, durable>>

\* The record the thread is about to append, by program counter.
AppendedAt == [idle |-> "begin", repair |-> "begin",
               begun |-> "commit", repairBegun |-> "commit"]

AppendInterrupted ==
    /\ pc \in DOMAIN AppendedAt
    /\ AppendedAt[pc] = "begin" => clock \in Tx
    /\ LET t == IF AppendedAt[pc] = "begin" THEN clock ELSE cur.id
       IN  log' \in Interrupted(log, AppendedAt[pc], t)
    /\ clock' = IF AppendedAt[pc] = "begin" THEN clock + 1 ELSE clock
    /\ UNCHANGED <<synced, snapshots, meta, snapshotJson, body, durable>>

\* The process is killed in the middle of an append.
KilledInAppend ==
    /\ "torn" \in Faults
    /\ ProcessEnds
    /\ AppendInterrupted
    /\ outcome' = [InDoubt EXCEPT ![clock' - 1] = "doubt"]

\* append_json_record returns an error: a begin record leaves the database
\* alone, a commit record makes it go back to the state before; while the store
\* is being opened the error ends the process.
AppendFails ==
    /\ "append_error" \in Faults
    /\ AppendInterrupted
    /\ outcome' = [outcome EXCEPT ![clock' - 1] = "failed"]
    /\ \/ /\ pc \in {"idle", "begun"}
          /\ db' = IF pc = "begun" THEN before ELSE db
          /\ before' = EmptyDb
          /\ cur' = NoCur
          /\ pc' = "idle"
          /\ UNCHANGED <<flush, syncDirty>>
       \/ pc \in {"repair", "repairBegun"} /\ ProcessEnds

\* Power loss: the snapshot files are durable, of the log at least the synced
\* pieces survive, and the piece after the last one that survives may be cut.
\* The fsync is delayed by design, so an acknowledgement that was not followed
\* by one is in doubt again.
PowerLoss ==
    /\ "power_loss" \in Faults
    /\ ProcessEnds
    /\ outcome' = [t \in Tx |-> IF outcome[t] = "acked" /\ t \notin durable
                                THEN "doubt" ELSE InDoubt[t]]
    /\ \E k \in synced..Len(log) :
           \/ log' = SubSeq(log, 1, k)
           \/ /\ k < Len(log)
              /\ \E whole \in {FALSE, log[k + 1].whole} :
                     log' = Append(SubSeq(log, 1, k),
                                   [log[k + 1] EXCEPT !.whole = whole,
                                                      !.nl = FALSE])
    /\ synced' = Len(log')
    /\ UNCHANGED <<snapshots, meta, snapshotJson, clock, body, durable>>

-----------------------------------------------------------------------------

Next ==
    \/ Open \/ OpenRejected
    \/ RepairBegin \/ RepairCommit \/ RepairApply
    \/ Begin \/ Commit \/ AfterCommit
    \/ WriteGenerationSnapshot \/ WriteMetadata \/ CompactLog
    \/ WriteCompactedMetadata \/ WriteLatestSnapshot
    \/ SyncLog
    \/ Kill \/ KilledInAppend \/ AppendFails \/ SnapshotStepFails \/ PowerLoss

Spec == Init /\ [][Next]_vars

-----------------------------------------------------------------------------
(* Properties                                                              *)

\* Whatever step the process is stopped at, the data directory can be opened.
Recoverable == LoadOk

\* Between two commits the running server and its data directory agree: a
\* restart (load_durable_state) would give exactly what clients see now.
MemoryMatchesDisk == pc = "idle" /\ LoadOk => Loaded = db

\* A data directory that opens contains every transaction a client was told is
\* committed, once.
AckedAppliedOnce ==
    LoadOk => \A t \in Tx : outcome[t] = "acked" => Loaded[t] = 1

\* The same without the word "once", which is all that is left when snapshot
\* steps fail: nothing acknowledged is lost, by kills, torn or failing appends
\* and failing snapshots ever, by a power loss once it was fsynced in the log
\* (sync) or in a snapshot (write_snapshot_generation).
AckedNotLost == LoadOk => \A t \in Tx : outcome[t] = "acked" => Loaded[t] >= 1

\* No transaction is applied twice by snapshot and log together.
AppliedAtMostOnce == LoadOk => \A t \in Tx : Loaded[t] <= 1

\* What clients know stays true: a transaction that was reported as failed does
\* not come back (append_committed_transaction), and one that a restarted server
\* showed stays (load_durable_state).
OutcomesFinal ==
    LoadOk => \A t \in Tx :
        /\ outcome[t] = "failed" => Loaded[t] = 0
        /\ outcome[t] = "recovered" => Loaded[t] = 1

\* The log, the snapshots and the recovery implement the atomic store: every
\* step leaves the state recovery would give alone, except the append of a
\* commit record, which adds one transaction to it.
Serving == pc \notin {"down", "repair", "repairBegun", "repairCommitted"}

VisibleDb == IF ~Serving THEN EmptyDb ELSE IF pc = "begun" THEN before ELSE db

Abstract == INSTANCE AtomicStore WITH
    Tx <- Tx, committed <- Loaded, visible <- VisibleDb, up <- Serving

ImplementsAtomicStore == Abstract!AtomicSpec
=============================================================================
