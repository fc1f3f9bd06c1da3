# TLA+ models of mainstack-search (opensearch-lite)

The repository is a single-process search server with an OpenSearch-compatible
HTTP API. It keeps its whole database in memory, appends every change to a log,
writes snapshots of the state from time to time, and rebuilds the state from
both when it starts. This directory holds TLA+ models of the parts where the
order of steps decides whether data survive and whether answers are true, the
TLC configurations that check them on small instances, and TLAPS proofs of
their safety properties for every instance.

Paths below are relative to the repository (`src/storage/mod.rs` is the file of
that name in its crate).

## 1. Inventory

| Component | State | Operations | What is hard about it | Module |
|---|---|---|---|---|
| **Durable store** `storage/mod.rs`, `mutation_log.rs`, `snapshot.rs` | `mutations.jsonl`, `snapshot.<g>.json`, `snapshot.meta.json`, `snapshot.json`; in memory the database and `SnapshotFlushState` | commit (begin and commit record), snapshot generation, log compaction, open: load, replay, repair | a kill between any two file writes; torn appends; an I/O error half-way; a power loss before the delayed fsync | `DurableStore`, `AtomicStore` |
| **Mutation log syncer** `storage/mod.rs` | `dirty` under a mutex, `stop`, a condition variable, one thread | `mark_dirty`, the thread's batch loop, `Drop` | interleavings of three threads, lost wake-ups, failing fsync, shutdown | `LogSyncer` |
| **Database** `storage/mod.rs` | indexes (documents, tombstones, aliases, settings, mappings, size), templates, registry, alias table, sequence number | `apply_to`, `validate_mutation`, size estimates, name resolution | an incremental size that must not drift; two alias structures; replay must repeat what the first run did | `Database` |
| **Write requests** `storage/mod.rs`, `api/mod.rs` | the database in memory, the one on disk, requests between look-up and commit | create/delete index, mappings, settings, aliases, templates, registry, documents, bulk, delete/update by query, reindex | partial failure in a bulk request; names resolved before the lock is taken; limits at their edge | `WriteOperations` |
| **Snapshot repositories** `snapshots/service.rs` | per repository a directory, generation files, `index.latest`, content-named blobs | put, delete, cleanup repository; create, delete snapshot | kill or I/O error between blob, generation and pointer; blobs shared between snapshots | `SnapshotRepository` |
| **Search contexts** `runtime.rs`, `api/mod.rs` | scroll cursors, points in time, completed tasks | open, next page, clear; create, search, list, delete; record | captured data and time stamps taken before the lock; expiry, eviction, budgets | `SearchContexts` |
| **Search requests** `api/mod.rs` | none of their own; a client keeps the cursor of its last page | search, count, msearch, explain, by-query selection | two read locks in one request; pages of one search answered from different databases | `SearchRequests` |
| **Search evaluator** `search/` | none | queries, sorting, `search_after`, windows, limits, aggregations over one database | several code paths that must give one answer; the order behind a cursor; arrays, missing values and negative numbers | `SearchEvaluator` |
| **Agent fallback** `agent/`, `api/mod.rs` | none of its own | asks a model about a request the server does not implement, validates the reply, commits the mutations in it, answers | the reply is validated before and after the commit; any reply is possible | `AgentFallback`, `WriteOperations` |
| Snapshot restore `snapshots/restore.rs` | none | parses and validates a restore request; the handler then answers that restore is not supported | nothing is changed | not modelled |
| API classification, strict mode `api_spec/`, `api/mod.rs` | none | routing tables, guards | | not modelled |
| HTTP server, security, configuration, resources, catalog views, responses, benchmark | none that a request changes | | I/O, parsing, formatting, decisions on one request | not modelled |

How they interact: an HTTP handler calls the store. A write takes the commit
lock, works on a copy of the database (the candidate), appends it to the log as
one transaction, swaps the candidate in, asks the syncer for an fsync and, when
enough writes are dirty, writes a snapshot generation and cuts the log, all
before it answers. Reads take the read lock. Scrolls and points in time copy
what they need out of the store and live in a second lock-protected table. A
repository operation serialises a copy of the database under a third lock.
The locks are never nested the other way round, so the models treat them
separately: `DurableStore` is the inside of the commit lock,
`WriteOperations` what requests do around it, and the others stand alone.

What makes each component correct:

- *durable store*: the directory always opens; what clients were told is there,
  exactly once; what was refused never appears; the server and its directory
  agree whenever no commit is in progress;
- *syncer*: no appended record is forgotten; each is fsynced eventually; no
  commit waits for ever for the thread that does it; a clean shutdown leaves
  nothing unsynced and terminates;
- *write requests*: the log describes everything that was done to memory; the
  limits hold, and what was accepted is accepted again at the next start;
  the size bookkeeping is right; no sequence number is used twice; aliases
  lead to indexes, and reads through a name see what was written through it;
  the result of a bulk item, a `_create` and an `_update` is what the write did,
  and the answer to a PUT or DELETE of `_doc`, which is taken from a read before
  the write, is wrong only if the document was written in between; a reindex does
  not fail on conflicts that it planned itself;
- *agent fallback*: whatever the model replies, a success means that the
  requested change was made and nothing else, and any other answer that
  nothing was changed;
- *repositories*: answers stay true across kills and errors; a snapshot whose
  creation was answered keeps the data it captured;
- *contexts*: the pages of a scroll are a partition of what it captured; limits
  hold; nobody loses a context for a request that gains nothing from it, and
  nobody who kept an id is answered from the context of another;
- *searches*: paging through a search answers each document once, all of them
  from a point in time and all unchanged ones from the live database; every
  request that evaluates a query sees the same documents; the aggregations
  agree with the queries and with each other.

## 2. Modules and how they correspond to the code

`PROJECT.json` maps each definition to its lines.

**LogSyncer.** One variable per shared object and a program counter per thread.
The thread's loop (`run_mutation_log_syncer`) is split at each access to a
shared object: the test of `stop` and the wait on the condition variable are
different steps. `wait` releases the mutex and joins the wait set in one step,
which is what the condition variable guarantees; `Drop` sets `stop` and notifies
without the mutex, as the code does. The log is two counters, appended and
synced. A thread that could not be started is one of the initial states.

**DurableStore.** A database is the multiset of the transactions applied to it:
enough to tell a lost transaction, one applied twice and the right state apart.
The log is the sequence of what each append left in the file; a piece is whole
or cut, with or without its newline, and a piece after one without a newline
continues its line, so a torn record is merged with the next append exactly as
in a file opened in append mode. `LoadOk` and `Loaded` are `load_durable_state`:
the snapshot named by the metadata, then the records after the commit record (or
compaction marker) of the transaction the metadata name. The actions are the
steps of `append_committed_transaction`, `after_committed_transaction` and
`write_snapshot_generation`, one for each file operation; snapshot and metadata
files are replaced atomically because `snapshot.rs` writes, fsyncs and renames a
temporary file. `Faults` selects what may go wrong beyond a kill between two
steps: `torn`, `append_error`, `snapshot_error` (before or after the rename) and
`power_loss`. `Open` includes the repair transaction for encoded Dashboards ids.
Whether a snapshot is due may depend on the interval as well as on the count, so
a commit below the threshold may also take one.

**AtomicStore.** The abstract specification: a committed state to which a
transaction is added in one step, a visible state equal to it while the server
is up, and a crash that forgets the visible state only. `DurableStore` refines
it with `committed <- Loaded`: at every moment the abstract state is what
recovery would produce.

**Database.** Operators only: `apply_to`, `validate_mutation`, the estimates with
the code's constants (128, 64, 16) and its saturating subtraction,
`resolve_index`, `resolve_indices`, `template_config_for`,
`prepare_write_operation`. A JSON object is the set of its top-level fields.
Settings and mappings are one object, because the two mutations treat them
alike.

**AgentFallback.** Operators only: the requests with a write scope (there is one,
`indices.put_template`), the replies an endpoint can give, and the four checks of
`handle_agent_write` in their order: `validate_write_wrapper_before_tools`,
`apply_tool_calls` with `parse_mutations`, `validate_mutation_scope`,
`validate_wrapper_value`. The endpoint is external, so the reply is any wrapper,
or none.

**WriteOperations.** One action per kind of request. `db` is the database in
memory, `disk` the one that opening the store would load; a commit leaves the
log extended or a snapshot taken. The bulk path (validates against a prediction
of the size, keeps what succeeded) and the atomic path (measures, all or
nothing) are separate, as in the code. Requests that resolve a name under the
read lock and commit later take two steps with anything in between
(`DeleteIndex`, `PutConfig`, `PutAlias`, `DeleteAlias`, then `CommitPending`), and
so does a request put to the agent (`AskAgent`, `AgentReply`). PUT, POST and
DELETE of `_doc` are two steps as well (`LookUpDocument`, `CommitDocument`), because
`handle_document` looks the document up before it calls the store and answers from
what it saw (`DocumentAnswer`): "created" or "updated" for a write, and the version
that a deletion answers. A request under way also keeps, as history, the index its
name led to and the sequence number of its look-up. `_create` and `_update` answer
from what they wrote and are one step (`Document`), like a bulk request (`Bulk`);
`WriteResult` is what they and the items of a bulk request answer.

**SnapshotRepository.** Each operation is a sequence of file operations under the
catalog lock; a kill or an error may stop it anywhere, in `remove_dir_all` too,
or between two repositories that one request deletes.
A blob is its content, because its name is a hash of it. `expected` records what
clients were last told.

**SearchEvaluator.** Operators only. A JSON value is a record with its type. A
string is its rank in byte order, and the JSON text of another value is a rank
among the same strings, so that the comparisons by text of the code are
comparisons of numbers. Whether a text query accepts a string is a relation
(`TextMatches`). `MatchesQuery` is a recursive function that
gives each query its outcome on each source (`Sources`: the documents and the nested
objects in them) from the outcomes of its clauses; it keeps the order in which
`matches_bool` looks at clauses and the places where an error is passed on and
where it is swallowed. `Search` keeps the two ways of the code: a scan that keeps
only its window, and one that keeps every hit, sorts, cuts at the cursor and then
takes the window. `Count`, `MultiSearchItem`, `MatchingDocuments` and `Explain`
are the other callers.

**SearchContexts.** `runtime.rs` with the handlers that drive it. Opening a
context is two steps: read the store and take an id, then lock, purge, make room
and insert. What a scroll captures is what the evaluator answers, cut at
`CaptureSize` as the code cuts it; a point in time keeps the indexes it names.
`trace` is the history of what a scroll has captured and answered. `workload` is
chosen at the start and never changes: it says which kinds of request are sent
and which databases the store goes through.

**SearchRequests.** Composes both with clients that page. A page of the live
database is two steps, `ValidatePage` and `SearchPage`, one for each read lock of
`handle_search`; a page of a point in time is one step with `pit_database`.
Between any two of them the store is written to, contexts are opened and dropped,
and time passes. `unchanged` counts how often each document was answered that the
search has selected all the time and that no write has changed.

**MCWriteOperations**, **MCSnapshotRepository** and **MCSearchRequests** hold
constants that a configuration file cannot write down.
The proofs of a module `M` are in `M_proofs`; those of `LogSyncer` are at its end, and
those of `SearchContexts` in `SearchRequests_proofs`, whose module extends it.
`Database_proofs` and `SearchEvaluator_proofs` hold lemmas about the operators of
`Database` and `SearchEvaluator`, and `FiniteRecursion` the lemmas about recursive
functions on finite sets, sums and folds that the other proof modules share.
Definitions named `X_Something` with a comment "Mutant" are deliberately wrong
variants of `X`: for each property, one on which TLC finds it violated.

## 3. Runs

Run with `tlc -config <cfg> <module>`; PROJECT.json lists module, configuration
and properties of each.

| Run | States | What it checks |
|---|---|---|
| `log_syncer` | 1,722 | records never forgotten (`DirtyCoversUnsynced`), clean shutdown (`CleanShutdownSyncs`), eventual fsync (`DelayedSyncHappens`), shutdown with a pending batch terminates, a commit that waits for the mutex gets it (`CommitsReturn`) |
| `durable_store` | 255,687 | kills between any two steps: `Recoverable`, `MemoryMatchesDisk`, `AckedAppliedOnce`, `AppliedAtMostOnce`, `OutcomesFinal` (what was refused never appears, what recovery found stays), and the refinement `ImplementsAtomicStore` |
| `durable_store_faults` | 662,907 | all faults together: nothing acknowledged (after a power loss: nothing fsynced) is lost from a directory that opens (`AckedNotLost`) |
| `documents` | 8,184 | document writes, by-query requests, reindex over three indexes and reopening with repairs at the edge of the limits: `LogDescribesMemory`, `StoreSizeCovers`, `PredictionExact`, `ResultsTrue` (bulk items, `_create`, `_update`), `SeqNosUnique`, `ReindexConflictsPlanned` |
| `aliases` | 13,300 | names resolved before the lock, `_aliases` requests: `NamesResolve` (aliases lead to indexes, and reads follow writes), `OrderedActionsSound`, `LogDescribesMemory` |
| `catalog` | 118,800 | index creation, templates, registry, configuration, agent writes and requests to `_doc` with anything between look-up and write, against the limits: `WithinLimits`, `StoreSizeExact`, `LogDescribesMemory`, `AgentAnswersTrue`, `StaleAnswersExplained` |
| `snapshot_repository` | 2,020,306 | kills and errors at every file operation: `AnswersHold`, `SnapshotsComplete`, `PublishedGenerationsFixed` |
| `search_requests` | 176,562 | three workloads: contexts (two clients, every kind of context, the clock): `PagesPartitionHits`, `BudgetsHold`, `AdmissionJustified`, `ExpiredNotRevived`, `IdsNotReused`; paging (a client pages while documents and indexes come, go and change): `PitPagesPartition`, `LivePagesComplete`; answers (every combination of small documents): `ReadersAgree`, `AggregationsAgree` |
| `log_syncer_shutdown` | violation | `ShutdownCompletes` (finding 3) |
| `durable_store_torn_reopen` | violation | `Recoverable` with torn appends (finding 1) |
| `durable_store_snapshot_error` | violation | `AppliedAtMostOnce` with failing snapshot writes (finding 2) |
| `bulk_phantom_index` | violation | `LogDescribesMemory` with two-item bulk requests (finding 4) |

Bounds, and why they suffice. *LogSyncer*: three commits let one arrive before,
during and after an fsync; two failures let a retry fail. *DurableStore*: four
transactions of one or two mutations with threshold three give a snapshot,
transactions after it, a second generation over the first and a repair; each
transaction may be the one in doubt. With faults, three transactions and
threshold two still give a snapshot, a commit after it and a failed attempt
repeated. *WriteOperations*: the memory limits (360, 215) are chosen so that the
last document or index does not fit although the count limits would allow it;
two names and two ids make every pair collide, and the three indexes of
`documents` let a reindex read one id from two indexes and write it to a third.
In `catalog` a request to `_doc` is under way while bulk requests write the same
document, and indexes and aliases come and go; one client suffices for it, because
a request of another client to `_doc` commits what a bulk request of one item
commits. *SnapshotRepository*: two
snapshots and two contents give shared and unshared blobs; four generations
allow put, create, create, delete; the second repository is only there to be
put and to be deleted together with the first, so it has one generation.
*AgentFallback*: two tool calls of at most one mutation each give no commit, one,
and two, with the requested mutation, that of another object or body, and one of
another kind. *SearchContexts*: three ids against two slots
make eviction and refusal necessary; three documents against a budget of four make
the byte limit bite before the count, and none capture nothing; page size zero is the
size the code turns into one, and pages of two over three hits end with a partial one;
two ticks pass the lifetime of either kind. *SearchRequests*:
pages of one or two over three documents in two indexes, two of them with one id,
give a full page, a partial one and ties at the end of a page; the databases
differ in one document that comes, goes and changes its sort value, one that loses
the sorted field and one index that comes and goes, and any may follow any. The
requests sort by a field in either direction, by `_score`, by `_id` and by
nothing, over a name, an alias, a pattern and everything. One pager suffices,
because pagers share nothing but the store and the points in time. The answers
are compared on all 216 databases of three documents whose field is missing, a
negative number, a number, a text, an array with a value twice, or an array with
an object and a number, for 14 queries (every kind of clause but plain variants,
a clause the evaluator refuses among them), windows from 0 to 2 and every sort;
`Sources` is the set of all these documents and of the objects nested in them;
one query is as deep as the limit allows, and five buckets are one more than
three documents fill, so the bucket limit is never what decides here.
The sequence number, generation, id and clock bounds stop the exploration and
restrict no shorter behaviour. The two clients differ in name only, so `search_requests`
is checked up to their exchange; it has no liveness property.

Deadlock is checked everywhere except in `LogSyncer`, where the process is over
when `Drop` has returned. A directory that cannot be opened is a state in which
the server refuses to start again and again, not a deadlock.

Fairness is used in `LogSyncer` only. Weak fairness of a thread's steps says that
the operating system runs a runnable thread. Strong fairness of taking the mutex
says that a lock which is free again and again is granted eventually. Strong
fairness of leaving the timed loop stands for `wait_timeout` and the elapsed
time: the window ends after `MUTATION_LOG_SYNC_INTERVAL` at the latest, however
many notifications arrive. Nothing forces a commit, a shutdown or a spurious
wake-up. `ShutdownCompletes` fails under the same fairness: a missing wake-up is
not a matter of scheduling.

## 4. Proofs

`LogSyncer` (any number of commits and failures). The inductive invariant
adds to `DirtyCoversUnsynced` and the types that the mutex is held by exactly the
thread whose program counter says so, that `Drop` runs after the last commit and
after the thread has returned, and that `synced <= appended`. Without the first,
a step of the writer could clear what the syncer has seen. Theorems:
`TypeCorrect`, `NoForgottenRecord`, `CleanShutdown`.

`DurableStore_proofs`. `StoreTypeCorrect` holds under every combination of faults
and every value of the constants. The theorems whose names start with `Kill`
assume `Faults = {}`, that is kills between steps only (with the other faults
they are false; section 5), and any number of transactions, any threshold and any
set of mutation counts. None of the properties is inductive: whether the
directory opens depends on what the metadata say of the log. `KillInv` adds

- `LogOrder`: the log is whole records in transaction order, a commit right after
  its begin, a marker only in front;
- `SnapshotCovers`: the snapshot the metadata name exists and contains each
  transaction up to `meta.last` at most once and none after; the log has a commit
  record or marker for `meta.last`, or, once compacted, nothing older;
- `CommitPosition`, `GenerationPosition`: what the thread in the commit path has
  written so far, by program counter;
- `ProcessAgrees`, `OutcomeAgrees`: memory and outcomes against `Recovered`,
  the snapshot plus the committed transactions after it.

The first two give `RecoveryLemma`: opening succeeds and `Loaded = Recovered`.
The rest of the argument never looks at the replay procedure again: each step
changes `Recovered` by nothing, except the append of a commit record, which adds
one transaction. From that follow `KillRecoverable`, `KillMemoryMatchesDisk`,
`KillAckedAppliedOnce`, `KillAppliedAtMostOnce`, `KillOutcomesFinal`
and `KillRefinement`: `DurableStore`
implements `AtomicStore`.

`AckedSurvives` is about the same module with every fault at once, so it cannot
rest on `KillInv`: with torn appends, failing snapshots and power losses the log has
cut and merged lines, a snapshot may hold a transaction twice, and the directory may
not open. `FaultInv` therefore says nothing of opening. Its core, `FaultKept`, is
that every acknowledged transaction is in the snapshot the metadata name, or is
newer than `meta.last` and has whole begin and commit records on lines of their own
(`Survives`), and that the fsynced ones survive in the synced part of the log.
`FaultMemory`, `FaultCurrent`, `FaultSnapshot` and `FaultAges` say what the server
holds and where it is in the commit path, so that a snapshot it writes contains what
it replaces. What survives is loaded by any directory that opens, which gives
`AckedNotLost`.

`SnapshotRepository_proofs` (any repositories, snapshots, contents, number of
generations and faults). `RepositoryInv` adds to `AnswersHold` and
`SnapshotsComplete`, by the operation that holds the lock, what its file operations
have done: a catalog being published differs from what clients were told only in
the snapshots the request is about, the blob comes before the generation that names
it and the generation before the pointer (`PublishAgrees`); the blobs that cleanup
keeps include those of every snapshot clients know of (`CleanupAgrees`); nothing is
promised of a repository that is being removed (`RemoveAgrees`). Theorems: `RepositoryTypeCorrect`, `RepositoryAnswersHold`,
`RepositorySnapshotsComplete`, `RepositoryGenerationsFixed`.

`SearchRequests_proofs` (any clients, pagers, requests, limits, sizes, workloads,
databases, documents and queries). `ContextsInv` ties each cursor to the history of what it
answered, and both tables to their limits; it also covers the requests between
their two steps, which hold an id that nobody else has and a cursor that alone
fits the budget. Without the latter the eviction loop could empty the table and
still not fit. That the loop ends with a table that fits, and evicts in order, is
proved on the recursive function that models it, with the lemmas on sums of
`FiniteRecursion`. Theorems: `ContextsTypeCorrect`, `ContextsPagesPartition`,
`ContextsBudgets`, `ContextsAdmission`, `ContextsExpired` and `ContextsIdsNotReused`, which
says that an id out of use stays out of use, although a request takes its id before it
takes the lock, and that an insertion overwrites nothing. `SearchImplementsContexts` shows
that the composition with paging clients implements `SearchContexts`' own
specification; the theorems named `Search...` carry the six over to the specification
the run checks.

Paging has an invariant of its own, `PagingInv`, because neither `PitPagesPartition`
nor `LivePagesComplete` says where a session stands. Its parts, by session:

- `LivePaging`: a document that the search has selected all along and that no write
  has changed has been answered once if the cursor has reached it, and never
  otherwise. A page takes the hits behind the cursor up to its last one and moves the
  cursor there, so the statement survives it; a write changes no document it is about.
- `PitPaging`: what was sent lists, in the order of the sort, exactly the matched hits
  that the cursor has reached, and the id names the view the session saw first or
  nothing any more. The latter needs that ids are never handed out twice, and
  that a request between its two steps holds an id of its own.
- `ViewsFrozen`: what a point in time holds is a part of one database.

`PagingInvariant` gives `PitPagingPartitions` and `LivePagingComplete`, with the
exception for `_id` sorts over several indexes that `LivePagesComplete` names.
`ReadersAlwaysAgree` and `AggregationsAlwaysAgree` compare answers of the evaluator
on the database of the moment; they hold of any database whose documents are in
`Sources`.

They rest on `SearchEvaluator_proofs`, which says what the evaluator computes:

- *Order.* `CompareHits` is a strict order on hits whose sort values are comparable,
  and total when no two hits tie (`TieFree`), which the added tie-breakers
  ensure. The insertion sort lists a set in that order (`Lists`), whatever order its
  elements came in; a list cut at a cursor is the list of what is behind it.
- *Queries.* Each query has one outcome on each source, that of its branch of
  `matches_query_source`. The function that models the recursion is built
  set by set; `QueriesAreTrees` lets the argument take, from the queries not yet
  known to have an outcome, one whose clauses have theirs.
- *Windows.* The scan that keeps only its window answers what the scan that keeps
  everything answers after the cut, and fails when it fails.
- *Buckets and sums.* A quantity that starts at nothing and grows by a weight with
  each hit (`Weighs`) is the same for a list and for its parts together; document
  counts, value counts and sums are such quantities.

Sequences are reached without induction over data: a fold is a function on the
sets of positions (`FoldsTo`), and a property of all sequences follows by
`SequenceInduction` from a set of sequences that holds the empty one and is closed
under `Append`.

`WriteOperations_proofs`, on `Database_proofs` (any names, ids, fields, templates,
registry, limits, clients and requests of any length). `WriteInv` relates the
database in memory to the one in the log by `Kept`:

- `Good`, of both: the types, sizes that cover what is stored (`Covered`), and
  numbers that are unique and bounded by the counter. `Covered` is needed
  because the size of an index after a write is a saturating subtraction, right
  only when the size before covered the document replaced;
- `Mirrors`: the log has no index that memory has not, and those it has are equal
  but for a size that may be smaller after a reload;
- `CountsOK` and `FitsMemory`: the limits, of memory, which by `Mirrors` also
  bound what is loaded;
- `Traced`, between the database before a step and after it: an index is made anew
  with numbers the step took, or every id in it is as it was or carries such a
  number. A restart is excepted; it ends every request;
- `KeptStrictly`, under `NoPhantoms`: the same indexes in both, and every alias
  listed by its index (`Linked`);
- `KeptExactly`, when there is nothing to repair: the sizes are exact.

`WriteInv` also says, of every request between the look-up of a document and its
write, that the document is as the request saw it or the numbers show why not
(`Explained`). `Traced` carries it over the steps of the others, whatever they are,
and at the write it gives `StaleAnswersExplained`.

A request is a fold of one step over its mutations, operations or matched
documents. `FiniteRecursion` shows such a fold to be a chain, and finite induction
along the chain carries `Kept` from `db` to the candidate; that is what replaces
induction over data here. `WriteTypeCorrect`, `WriteSeqNosUnique`,
`WriteStoreSizeCovers`, `WriteWithinLimits`, `WriteAgentAnswers` and `WriteOrderedActions` hold unconditionally;
`WriteOrderedActions` rests on a second invariant along the fold
(`Settled`: what the actions ordered so far have done to every name), and so holds for
`_aliases` requests of any length.
`WriteStoreSizeExact` assumes `DOMAIN Legacy = {}`, because a repair may move a
document onto an id with a tombstone (section 5). `WriteLogDescribes`,
`WriteNamesResolve`, `WritePredictionExact`, `WriteResultsTrue` and
`WriteStaleAnswersExplained` assume `NoPhantoms`: no bulk request carries two operations. The run
`bulk_phantom_index` shows that `LogDescribesMemory` is false without it (finding
4). An alias put on such an index is in the log and the index is not, so after a
restart the alias leads nowhere, which is what the other four would meet. By-query
requests and reindex go through the atomic path and may be of any length.

Assumptions of the proofs: the named `ASSUME`s. `BoundsAssumption`,
`ConstantsAssumption`, `RepositoryAssumption`, `ContextsAssumption`,
`DatabaseAssumption`, `RequestsAssumption` and `AgentAssumption` type the constants.
`NamesAssumption` and `ContentsAssumption` say that the values for "none", "absent" and
"unknown" are none of the names and contents, `FieldsAssumption` that an object has
finitely many fields. `LimitAssumption` is a check of the code: `load_durable_state`
opens no store whose memory limit is below the empty database. Those of the searches:

- `NamesAssumption` (of `SearchEvaluator`) and `LimitsAssumption`: names and ids are
  finitely many numbers, since only their order counts, and the limits are numbers;
- `TextQueriesAssumption`: `TextMatches` covers text queries only;
- `QueriesAreTrees`, `SourcesClosed`: a query is a finite tree, as JSON is, and the
  objects nested in a source are sources;
- `DatabasesAssumption`: the databases hold named indexes, ids and sources, and
  `match_all` is a query. It says nothing of what the evaluator answers;
- `PageRequestsAssumption`: a client that pages asks for at least one hit, starts at
  the first, and sorts by finitely many clauses;
- `SortValuesAssumption`: `compare_sort_values` is transitive on the values of a field
  that is sorted by, as it is on values of one type and missing ones. Without it the
  paging theorems are false (section 5);
- `AggregatedValuesAssumption`: the values of an aggregated field have string forms.

TLC evaluates each of them on the constants of the runs.

The inductive invariants were first checked by TLC on the instances of section 3:
`FaultInv`, `RepositoryInv`, and `ContextsInv` and `PagingInv` in all states of
`durable_store_faults`, `snapshot_repository` and `search_requests`; `WriteInv`, its sequence numbers
taken from a finite range, in all states of `documents`, `aliases` and `catalog`.

Checked by TLC only: liveness (`DelayedSyncHappens`, `PendingBatchShutdownCompletes`,
`CommitsReturn`), because fairness and ENABLED are beyond the prover, and
`ReindexConflictsPlanned`. Every other property of a passing run is the conclusion of
a theorem. The other way round, `TypeCorrect`, `StoreTypeCorrect`, `ContextsTypeCorrect`
and `SearchTypeCorrect` are proved and no run checks them: the safety proofs rest on
these types, and on a small instance they say nothing that the other properties of the
run do not.

## 5. What the models showed

Findings, each with a run in which TLC refutes what the repository says:

1. *A torn record is tolerated once.* Replay ignores a cut final line but nothing
   removes it; the next append continues the line, and the start after that finds
   an unreadable line in the middle of the log.
2. *A failed snapshot reuses its generation number.* When
   `write_snapshot_generation` fails after the metadata, the next attempt
   overwrites the snapshot the metadata name; a kill before the new metadata are
   written makes replay apply transactions the snapshot already contains.
3. *A lost wake-up at shutdown.* `Drop` sets `stop` and notifies without the
   mutex; both may fall between the thread's test and its wait. With a pending
   batch it cannot happen (`PendingBatchShutdownCompletes`). The repository states
   only this second case ("shutdown performs one final best-effort sync when the
   dirty flag is still set"); that `Drop`, which joins the thread, returns when the
   flag is clear is not written down anywhere.
4. *A phantom index.* A bulk item that creates its index and then fails on the
   document leaves the index in memory but not in the log.

Limits of the code that the models also show, kept as hazards:

- after a power loss the metadata may name a transaction whose log records were
  not fsynced, and the directory does not open (`Recoverable` fails with
  `Faults = {"power_loss"}`);
- an append error after the whole commit record was written rolls memory back
  although replay will find the transaction (`OutcomesFinal` fails with
  `Faults = {"append_error"}`);
- a repository directory without `index.latest`, as a killed put or delete
  leaves it, makes the listing of all repositories fail;
- a repair may move a document onto an id that has a tombstone, which stays:
  `StoreSizeExact` holds without repairs, `StoreSizeCovers` with them;
- a search with a point in time and a `keep_alive` shorter than the rest of its
  lifetime brings its expiry forward;
- a sort by `_id` gets no tie-breaker, although ids are unique in one index only:
  a page of a search over several indexes that ends between two documents with
  one id loses the second (`LivePagesComplete` names this exception and fails
  without it; `docs/compatibility.md` promises tie-breakers for non-unique sort
  values);
- sort values of different types are compared by their texts, which is no order
  (9 < 10 < "1a" < 9), so pages over such a field lose or repeat documents
  (`PitPagesPartition` fails on a database that has them, which
  `SortValuesAssumption` excludes);
- a clause the evaluator does not support refuses a search only if some document
  gets as far as that clause, and never as a `should` clause; `_validate/query`
  checks the limits only and calls such a query valid;
- a search whose index is deleted between its two read locks answers with the
  documents of the other indexes, where `_msearch` and a point in time, which
  validate and read under one lock, answer an error or the whole;
- terms buckets count a value that an array holds twice as two, histogram and
  range aggregations pass over arrays.

## 6. What is abstracted or left out

Within the modelled parts: bytes of a record (a cut inside a multi-byte character
makes `read_line` itself fail); fsync of the directory entry of a new
`mutations.jsonl` or repository root; transaction ids from the wall clock (the
model's are unique and increasing); lock poisoning; ephemeral mode, which writes
nothing; nested JSON (an object is its set of top-level fields, so one
`merge_object` never meets another inside); ids computed by reindex scripts;
the prompt and context the agent is given; which indices a snapshot captures;
name patterns; repository settings; the `create` parameter of templates, which is
tested before the commit (hazards). By-query requests
take the matched documents in one fixed order; which documents match is open in
`WriteOperations` and given by `MatchingDocuments` in `SearchEvaluator`.

In the evaluator: text matching itself (lower-casing, tokens, the wildcard
matcher) is a relation the configuration gives; the numbers are integers;
`date_histogram`, the limits on nested aggregations (`validate_aggs`,
`MAX_TERMS_VALUES`), the `_source` filter, `simple_query_string` without fields and
its fall-back from a field with the suffix `.raw` or `.keyword` to the one without,
scores (the code gives every hit 1.0) and the layout of the answers are left out.
Sub-aggregations are the same operators on the hits of a bucket. `SortByClauses` is the
insertion sort that the standard library's `sort_by` performs on short slices;
for an order that is total, the case of the runs, any sort answers the same, and the
proofs use of it only that it lists the hits in order.

Not modelled: API classification, catalog views, responses and security decide
or format on one request without changing state; HTTP and TLS are library I/O;
the benchmark is a tool outside the server; configuration is read once at
start-up; restore parses a request and refuses it. Completed tasks are kept
until the process ends (`runtime.rs`), and blobs are named by a 64-bit hash
(`snapshots/service.rs`): growth and collisions are outside models in which ids
are few and a blob is its content.

## 7. Plan

Order of the work, the most important behaviour first; all but 10 is done.

1. `LogSyncer`, with safety, liveness and proofs.
2. `DurableStore` and `AtomicStore`, with faults, refinement and proofs.
3. `Database` and `WriteOperations`.
4. `SnapshotRepository`.
5. `SearchContexts`.
6. `AgentFallback`, the write fallback as a request of `WriteOperations`.
7. `SearchEvaluator` and `SearchRequests`: what searches answer, and paging
   against concurrent writes.
8. Proofs: `SnapshotRepository`, `SearchContexts` and its composition in
   `SearchRequests`, `AckedNotLost` under every fault, and the requests of
   `WriteOperations`.
9. Proofs about the evaluator, and on them of `SearchRequests`: paging, the readers
   and the aggregations.
10. Composition: `WriteOperations` over the transactions of `DurableStore`, so
   that "the log describes memory" and "recovery replays the log" give one
   statement about documents. Today the two meet in `disk`: `WriteOperations`
   takes for it what `DurableStore` shows recovery to produce.
