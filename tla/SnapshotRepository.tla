-------------------------- MODULE SnapshotRepository --------------------------
(***************************************************************************)
(* The snapshot repositories of src/snapshots/service.rs.  A repository is *)
(* a directory with generation files (index-<n>.json: the catalog of its   *)
(* snapshots), a pointer to the current one (index.latest), and blobs: the *)
(* databases the snapshots captured, named by a hash of their content.     *)
(*                                                                         *)
(* An operation holds the catalog lock from start to end, so there is one  *)
(* at a time; it changes several files, one step each, and the process may *)
(* be killed, or a file operation may fail, between any two.  Nothing is   *)
(* done about an interrupted operation when the server starts again.       *)
(*                                                                         *)
(* Data abstraction.  A blob and its name are the content it holds; a      *)
(* catalog maps the names of snapshots to the content they captured.       *)
(* Repository type and settings are left out: no operation depends on them.*)
(***************************************************************************)
EXTENDS Naturals, FiniteSets, Functions, TLC

CONSTANTS
    Repositories,  \* repository names
    Snapshots,     \* snapshot names
    Contents,      \* databases a snapshot can capture
    MaxGeneration, \* bound: repository -> generations written to it
    Faults         \* subset of FaultKinds

FaultKinds == {"kill", "io_error", "delete_interrupted"}

ASSUME RepositoryAssumption ==
    /\ MaxGeneration \in [Repositories -> Nat]
    /\ Faults \subseteq FaultKinds

NoGeneration == 0
Generations(r) == 1..MaxGeneration[r]
EmptyCatalog == [s \in {} |-> s]
Put(f, k, v) == [x \in DOMAIN f \cup {k} |-> IF x = k THEN v ELSE f[x]]
Without(f, ks) == Restrict(f, DOMAIN f \ ks)

Absent  == "absent"
Unknown == "unknown"

\* What clients were told is told apart from what they captured.
ASSUME ContentsAssumption == Absent \notin Contents /\ Unknown \notin Contents

VARIABLES
    dirs,    \* repositories whose directory exists
    latest,  \* repository -> content of index.latest
    gens,    \* repository -> generation -> catalog
    blobs,   \* repository -> contents of the files in blobs/
    op,      \* the operation that holds the catalog lock
    expected \* repository -> snapshot -> what the last answer to a client said

files == <<dirs, latest, gens, blobs>>
vars  == <<files, op, expected>>

Catalogs == UNION {[S -> Contents] : S \in SUBSET Snapshots}

Idle == [step |-> "idle"]

\* An operation that ends in write_next_generation: the catalog it publishes,
\* and the snapshots whose fate is open until it answers.
Publish(step, r, catalog, touched) ==
    [step |-> step, repo |-> r, catalog |-> catalog, touched |-> touched]

Init ==
    /\ dirs = {}
    /\ latest = [r \in Repositories |-> NoGeneration]
    /\ gens = [r \in Repositories |-> [g \in {} |-> EmptyCatalog]]
    /\ blobs = [r \in Repositories |-> {}]
    /\ op = Idle
    /\ expected = [r \in Repositories |-> [s \in Snapshots |-> Absent]]

-----------------------------------------------------------------------------
(* read_latest_optional                                                    *)

Missing(r)  == latest[r] = NoGeneration
Readable(r) == ~Missing(r) /\ latest[r] \in DOMAIN gens[r]
Catalog(r)  == gens[r][latest[r]]

\* repository_names: the directories, whatever is in them.
RepositoryNames == dirs

\* exact_names: some names, and only names there are.
ExactNames(names, available) == names # {} /\ names \subseteq available

\* get_snapshots of a repository
GetSnapshots(r) == IF Readable(r) THEN DOMAIN Catalog(r) ELSE {}

Forget(rs, touched) ==
    expected' = [r \in Repositories |-> [s \in Snapshots |->
                    IF r \in rs /\ s \in touched THEN Unknown ELSE expected[r][s]]]

-----------------------------------------------------------------------------
(* The operations start: everything up to the first file operation.        *)

PutRepository(r) ==
    /\ op = Idle
    /\ Missing(r) \/ Readable(r)
    /\ latest[r] < MaxGeneration[r]
    /\ op' = Publish("mkdir", r, IF Missing(r) THEN EmptyCatalog ELSE Catalog(r), {})
    /\ UNCHANGED <<files, expected>>

\* Mutant: the new catalog holds the new snapshot only.
CreateSnapshot_DropsOthers(r, s, content) ==
    /\ op = Idle
    /\ Readable(r)
    /\ latest[r] < MaxGeneration[r]
    /\ s \notin DOMAIN Catalog(r)
    /\ op' = Publish("blob", r, s :> content, {s})
    /\ Forget({r}, {s})
    /\ UNCHANGED files

CreateSnapshot(r, s, content) ==
    /\ op = Idle
    /\ Readable(r)
    /\ latest[r] < MaxGeneration[r]
    /\ s \notin DOMAIN Catalog(r)
    /\ op' = Publish("blob", r, Put(Catalog(r), s, content), {s})
    /\ Forget({r}, {s})
    /\ UNCHANGED files

\* Mutant: deleted snapshots are marked and stay in the catalog.
DeleteSnapshot_Marks(r, names) ==
    /\ op = Idle
    /\ Readable(r)
    /\ latest[r] < MaxGeneration[r]
    /\ ExactNames(names, DOMAIN Catalog(r))
    /\ op' = Publish("mkdir", r, [s \in DOMAIN Catalog(r) |->
                                     IF s \in names THEN Absent ELSE Catalog(r)[s]], names)
    /\ Forget({r}, names)
    /\ UNCHANGED files

DeleteSnapshot(r, names) ==
    /\ op = Idle
    /\ Readable(r)
    /\ latest[r] < MaxGeneration[r]
    /\ ExactNames(names, DOMAIN Catalog(r))
    /\ op' = Publish("mkdir", r, Without(Catalog(r), names), names)
    /\ Forget({r}, names)
    /\ UNCHANGED files

\* Mutant: the blobs in use are read from the generation before the current.
CleanupRepository_StaleCatalog(r) ==
    /\ op = Idle
    /\ Readable(r)
    /\ latest[r] - 1 \in DOMAIN gens[r]
    /\ op' = [step |-> "cleanup", repo |-> r,
              referenced |-> Range(gens[r][latest[r] - 1])]
    /\ UNCHANGED <<files, expected>>

CleanupRepository(r) ==
    /\ op = Idle
    /\ Readable(r)
    /\ op' = [step |-> "cleanup", repo |-> r, referenced |-> Range(Catalog(r))]
    /\ UNCHANGED <<files, expected>>

\* The repositories are removed one after the other.
DeleteRepository(names) ==
    /\ op = Idle
    /\ ExactNames(names, RepositoryNames)
    /\ \E r \in names : op' = [step |-> "remove", repo |-> r, left |-> names \ {r},
                               names |-> names]
    /\ Forget(names, Snapshots)
    /\ UNCHANGED files

-----------------------------------------------------------------------------
(* The file operations.  Each replaces or removes one file; the effect on  *)
(* the files is separate from the control, because an operation may report *)
(* an error after the rename.                                              *)

\* The blob is written unless a file with its name exists.
BlobWritten ==
    /\ op.step = "blob"
    /\ \E s \in op.touched :
           blobs' = [blobs EXCEPT ![op.repo] = @ \cup {op.catalog[s]}]
    /\ UNCHANGED <<dirs, latest, gens>>

DirectoryMade ==
    /\ op.step = "mkdir"
    /\ dirs' = dirs \cup {op.repo}
    /\ UNCHANGED <<latest, gens, blobs>>

\* Mutant: the current generation file is replaced.
GenerationWritten_InPlace ==
    /\ op.step = "generation"
    /\ gens' = [gens EXCEPT ![op.repo] =
                    Put(Put(@, latest[op.repo] + 1, op.catalog),
                        IF Missing(op.repo) THEN 1 ELSE latest[op.repo], op.catalog)]
    /\ UNCHANGED <<dirs, latest, blobs>>

GenerationWritten ==
    /\ op.step = "generation"
    /\ gens' = [gens EXCEPT ![op.repo] = Put(@, latest[op.repo] + 1, op.catalog)]
    /\ UNCHANGED <<dirs, latest, blobs>>

PointerWritten ==
    /\ op.step = "latest"
    /\ latest' = [latest EXCEPT ![op.repo] = @ + 1]
    /\ UNCHANGED <<dirs, gens, blobs>>

UnreferencedBlobRemoved ==
    /\ op.step = "cleanup"
    /\ \E content \in blobs[op.repo] \ op.referenced :
           blobs' = [blobs EXCEPT ![op.repo] = @ \ {content}]
    /\ UNCHANGED <<dirs, latest, gens>>

\* remove_dir_all: the files in any order, then the directory.
FileRemoved ==
    /\ op.step = "remove"
    /\ \/ \E content \in blobs[op.repo] :
              /\ blobs' = [blobs EXCEPT ![op.repo] = @ \ {content}]
              /\ UNCHANGED <<latest, gens>>
       \/ \E g \in DOMAIN gens[op.repo] :
              /\ gens' = [gens EXCEPT ![op.repo] = Without(@, {g})]
              /\ UNCHANGED <<latest, blobs>>
       \/ /\ ~Missing(op.repo)
          /\ latest' = [latest EXCEPT ![op.repo] = NoGeneration]
          /\ UNCHANGED <<gens, blobs>>
    /\ UNCHANGED dirs

DirectoryRemoved ==
    /\ op.step = "remove"
    /\ blobs[op.repo] = {} /\ DOMAIN gens[op.repo] = {} /\ Missing(op.repo)
    /\ dirs' = dirs \ {op.repo}
    /\ UNCHANGED <<latest, gens, blobs>>

-----------------------------------------------------------------------------
(* The steps of the operation in progress.                                 *)

GoTo(step) == op' = [op EXCEPT !.step = step] /\ UNCHANGED expected

WriteBlob         == BlobWritten /\ GoTo("mkdir")
MakeDirectory     == DirectoryMade /\ GoTo("generation")
WriteGeneration   == GenerationWritten /\ GoTo("latest")
RemoveUnreferencedBlob == UnreferencedBlobRemoved /\ GoTo("cleanup")
RemoveFile        == FileRemoved /\ GoTo("remove")

\* The last step of put_repository, create_snapshot and delete_snapshot.
WriteLatest ==
    /\ PointerWritten
    /\ expected' = [expected EXCEPT ![op.repo] =
           [s \in Snapshots |-> IF s \notin op.touched THEN @[s]
                                ELSE IF s \in DOMAIN op.catalog THEN op.catalog[s]
                                ELSE Absent]]
    /\ op' = Idle

CleanupDone ==
    /\ op.step = "cleanup"
    /\ blobs[op.repo] \subseteq op.referenced
    /\ op' = Idle
    /\ UNCHANGED <<files, expected>>

RemoveDirectory ==
    /\ DirectoryRemoved
    /\ IF op.left = {}
       THEN /\ expected' = [r \in Repositories |->
                   IF r \in op.names THEN [s \in Snapshots |-> Absent] ELSE expected[r]]
            /\ op' = Idle
       ELSE /\ \E r \in op.left : op' = [op EXCEPT !.repo = r, !.left = @ \ {r}]
            /\ UNCHANGED expected

-----------------------------------------------------------------------------
(* Faults                                                                  *)

Interruptible ==
    /\ op # Idle
    /\ op.step = "remove" => "delete_interrupted" \in Faults

\* The process is killed between two steps and started again.
Kill ==
    /\ "kill" \in Faults
    /\ Interruptible
    /\ op' = Idle
    /\ UNCHANGED <<files, expected>>

\* A file operation fails, before or after it had its effect: the request ends
\* with a repository_exception.
StepFails ==
    /\ "io_error" \in Faults
    /\ Interruptible
    /\ \/ UNCHANGED files
       \/ BlobWritten \/ DirectoryMade \/ GenerationWritten \/ PointerWritten
       \/ UnreferencedBlobRemoved \/ FileRemoved \/ DirectoryRemoved
    /\ op' = Idle
    /\ UNCHANGED expected

Next ==
    \/ \E r \in Repositories :
           \/ PutRepository(r) \/ CleanupRepository(r)
           \/ \E s \in Snapshots, content \in Contents : CreateSnapshot(r, s, content)
           \/ \E names \in SUBSET Snapshots : DeleteSnapshot(r, names)
    \/ \E names \in SUBSET Repositories : DeleteRepository(names)
    \/ WriteBlob \/ MakeDirectory \/ WriteGeneration \/ WriteLatest
    \/ RemoveUnreferencedBlob \/ CleanupDone
    \/ RemoveFile \/ RemoveDirectory
    \/ Kill \/ StepFails

Spec == Init /\ [][Next]_vars

-----------------------------------------------------------------------------
(* Properties                                                              *)

Operations ==
    {Idle}
    \cup [step : {"blob", "mkdir", "generation", "latest"}, repo : Repositories,
          catalog : Catalogs, touched : SUBSET Snapshots]
    \cup [step : {"cleanup"}, repo : Repositories, referenced : SUBSET Contents]
    \cup [step : {"remove"}, repo : Repositories, left : SUBSET Repositories,
          names : SUBSET Repositories]

\* Type invariant.
TypeOK ==
    /\ dirs \subseteq Repositories
    /\ DOMAIN latest = Repositories /\ DOMAIN gens = Repositories
    /\ \A r \in Repositories :
           /\ latest[r] \in Generations(r) \cup {NoGeneration}
           /\ DOMAIN gens[r] \subseteq Generations(r)
           /\ \A g \in DOMAIN gens[r] : gens[r][g] \in Catalogs
    /\ blobs \in [Repositories -> SUBSET Contents]
    /\ op \in Operations
    /\ expected \in [Repositories -> [Snapshots -> Contents \cup {Absent, Unknown}]]

\* What create_snapshot, delete_snapshot and delete_repository answered holds
\* until the next request about that snapshot, whatever operation is killed or
\* fails in between: a created snapshot is listed with the content it captured,
\* a deleted one is not listed.
AnswersHold ==
    \A r \in Repositories, s \in Snapshots :
        LET listed == s \in GetSnapshots(r)
        IN  /\ expected[r][s] \in Contents => listed /\ Catalog(r)[s] = expected[r][s]
            /\ expected[r][s] = Absent => ~listed

\* A snapshot whose creation was answered has its database until its deletion,
\* or that of the repository, is asked for: the blob is there.  Blobs are shared
\* by content, create_snapshot does not write one that exists, and
\* cleanup_repository removes them.
SnapshotsComplete ==
    \A r \in Repositories, s \in Snapshots :
        expected[r][s] \in Contents => expected[r][s] \in blobs[r]

\* A published generation is not written again as long as index.latest is
\* there: an update that fails half-way leaves the previous catalog intact.
PublishedGenerationsFixed ==
    [][\A r \in Repositories :
           ~Missing(r) /\ latest'[r] # NoGeneration =>
               /\ latest'[r] >= latest[r]
               /\ \A g \in DOMAIN gens[r] \cap DOMAIN gens'[r] :
                      g <= latest[r] => gens'[r][g] = gens[r][g]]_vars
=============================================================================
