---------------------------- MODULE WriteOperations ----------------------------
(***************************************************************************)
(* The write requests of the store (src/storage/mod.rs and the handlers of *)
(* src/api/mod.rs that call it) over the database of module Database: what *)
(* each request does to the database in memory and what it leaves in the   *)
(* mutation log.                                                           *)
(*                                                                         *)
(* Every write runs under the commit lock and is one step.  What is not    *)
(* under the lock is a step of its own: delete_index, put_mapping,         *)
(* put_settings, put_alias and delete_alias resolve a name first, release  *)
(* the read lock, and commit a mutation of the index they found; a write   *)
(* through the agent waits for the reply of its endpoint.                  *)
(* (ensure_index_for_write resolves first too, but nothing calls it.)      *)
(*                                                                         *)
(* `disk' is the database that opening the store would load: the last      *)
(* snapshot with the committed mutations after it applied.  When a         *)
(* snapshot is taken, and what a crash does to the files, is the subject   *)
(* of module DurableStore; here a commit may or may not take one.          *)
(* A rejected request changes nothing: it is a stuttering step.            *)
(***************************************************************************)
EXTENDS AgentFallback

CONSTANTS
    Clients,    \* threads that can be between reading and committing
    Requests,   \* the kinds of request a run explores
    MaxBulk,    \* bound: operations of a bulk request
    MaxActions, \* bound: actions of an _aliases request
    MaxSeqNo    \* bound: the sequence number where document writes stop

RequestKinds ==
    {"CreateIndex", "Template", "Registry", "Named", "AliasActions", "Agent",
     "Document", "Bulk", "DeleteByQuery", "UpdateByQuery", "Reindex", "Reopen"}

ASSUME RequestsAssumption ==
    /\ Requests \subseteq RequestKinds
    /\ MaxBulk \in Nat /\ MaxActions \in Nat /\ MaxSeqNo \in Nat

VARIABLES
    db,     \* Store.inner: the database that requests read
    disk,   \* the database in snapshot and log
    pending \* client -> what it is about to commit, the answer it got, or Nothing

vars == <<db, disk, pending>>

Nothing == [kind |-> "Nothing"]

Init ==
    /\ db = EmptyDatabase
    /\ disk = EmptyDatabase
    /\ pending = [c \in Clients |-> Nothing]

-----------------------------------------------------------------------------
(* commit_mutations: every mutation is validated against the candidate,    *)
(* applied, and the size of the result is checked; one failure discards    *)
(* the candidate.                                                          *)

Result(status, d) == [status |-> status, db |-> d]

\* Mutant: the memory check looks at the database before the mutation.
CommitOne_ChecksBefore(r, m) ==
    IF r.status # Accepted THEN r
    ELSE IF ValidateMutation(r.db, m) # Accepted
    THEN Result(ValidateMutation(r.db, m), r.db)
    ELSE Result(IF FitsMemory(EstimateDatabase(r.db)) THEN Accepted ELSE 429,
                ApplyMutation(r.db, m))

CommitOne(r, m) ==
    IF r.status # Accepted THEN r
    ELSE IF ValidateMutation(r.db, m) # Accepted
    THEN Result(ValidateMutation(r.db, m), r.db)
    ELSE LET d == ApplyMutation(r.db, m)
         IN  Result(IF FitsMemory(EstimateDatabase(d)) THEN Accepted ELSE 429, d)

CommitAll(d, ms) == FoldLeft(CommitOne, Result(Accepted, d), ms)

\* Replaying a transaction applies its mutations, whatever they meet.
Replay(d, ms) == FoldLeft(ApplyMutation, d, ms)

\* append_committed_transaction and after_committed_transaction: ms goes to the
\* log and the candidate becomes the database; a snapshot of the candidate may
\* be taken.  Loading it recomputes the store sizes.
Persist(candidate, ms) ==
    /\ db' = candidate
    /\ disk' \in {Replay(disk, ms), RecomputeStoreSizes(candidate)}

\* Mutant: only the first mutation of a transaction reaches the log.
CommitMutations_LogsFirst(ms) ==
    LET r == CommitAll(db, ms)
    IN  r.status = Accepted /\ Persist(r.db, <<Head(ms)>>)

CommitMutations(ms) ==
    LET r == CommitAll(db, ms)
    IN  r.status = Accepted /\ Persist(r.db, ms)

-----------------------------------------------------------------------------
(* Requests that commit what the client sent.                              *)

CreateIndex ==
    /\ "CreateIndex" \in Requests
    /\ \E n \in Names, config \in Objects :
           CommitMutations(<<[kind |-> "CreateIndex", index |-> n,
                              config |-> config]>>)
    /\ UNCHANGED pending

Template ==
    /\ "Template" \in Requests
    /\ \E t \in Templates :
           \/ \E patterns \in SUBSET Names, config \in Objects :
                  CommitMutations(<<[kind |-> "PutTemplate", template |-> t,
                      body |-> [patterns |-> patterns, config |-> config]]>>)
           \/ CommitMutations(<<[kind |-> "DeleteTemplate", template |-> t]>>)
    /\ UNCHANGED pending

\* handle_registry_namespace and handle_script_registry
RegistryObject ==
    /\ "Registry" \in Requests
    /\ \E o \in {r \in Registry : r[1] \in {"ingest_pipeline", "search_pipeline", "script"}} :
           \/ \E body \in Objects :
                  CommitMutations(<<[kind |-> "PutRegistryObject", object |-> o,
                                     body |-> body]>>)
           \/ CommitMutations(<<[kind |-> "DeleteRegistryObject", object |-> o]>>)
    /\ UNCHANGED pending

ComponentTemplate ==
    /\ "Registry" \in Requests
    /\ \E o \in {r \in Registry : r[1] = "component_template"} :
           \/ \E body \in Objects :
                  CommitMutations(<<[kind |-> "PutRegistryObject", object |-> o,
                                     body |-> body]>>)
           \/ CommitMutations(<<[kind |-> "DeleteRegistryObject", object |-> o]>>)
    /\ UNCHANGED pending

\* DELETE _template; PUT _template is routed to the agent.
LegacyTemplate ==
    /\ "Registry" \in Requests
    /\ \E o \in {r \in DOMAIN db.registry : r[1] = "legacy_template"} :
           CommitMutations(<<[kind |-> "DeleteRegistryObject", object |-> o]>>)
    /\ UNCHANGED pending

-----------------------------------------------------------------------------
(* Requests that name an index or an alias: the name is resolved under the *)
(* read lock, then the mutation of the resolved index is committed.        *)

Idle(c) == pending[c].kind \in {"Nothing", "Answer", "DocumentAnswer"}

Resolves(c, n) ==
    /\ "Named" \in Requests
    /\ Idle(c)
    /\ ResolveIndex(db, n) # NoName

Hold(c, m) ==
    /\ pending' = [pending EXCEPT ![c] = m]
    /\ UNCHANGED <<db, disk>>

DeleteIndex(c) ==
    \E n \in Names :
        /\ Resolves(c, n)
        /\ Hold(c, [kind |-> "DeleteIndex", index |-> ResolveIndex(db, n)])

\* put_mapping and put_settings
PutConfig(c) ==
    \E n \in Names, config \in Objects :
        /\ Resolves(c, n)
        /\ Hold(c, [kind |-> "PutConfig", index |-> ResolveIndex(db, n),
                    config |-> config])

PutAlias(c) ==
    \E n, alias \in Names :
        /\ Resolves(c, n)
        /\ Hold(c, [kind |-> "PutAlias", index |-> ResolveIndex(db, n),
                    alias |-> alias])

DeleteAlias(c) ==
    \E n, alias \in Names :
        /\ Resolves(c, n)
        /\ Hold(c, [kind |-> "DeleteAlias", index |-> ResolveIndex(db, n),
                    alias |-> alias])

Holding(c) == ~Idle(c) /\ pending[c].kind \notin {"AgentWrite", "DocumentRequest"}

\* Mutant: the mutation is trusted because its index was there when resolved.
CommitPending_Trusts(c) ==
    /\ Holding(c)
    /\ Persist(ApplyMutation(db, pending[c]), <<pending[c]>>)
    /\ pending' = [pending EXCEPT ![c] = Nothing]

CommitPending(c) ==
    /\ Holding(c)
    /\ \/ CommitMutations(<<pending[c]>>)
       \/ CommitAll(db, <<pending[c]>>).status # Accepted /\ UNCHANGED <<db, disk>>
    /\ pending' = [pending EXCEPT ![c] = Nothing]

-----------------------------------------------------------------------------
(* PUT _template through the agent: the request waits for a reply, and the *)
(* mutation that the reply proposes is committed if it is the requested    *)
(* one.                                                                    *)

AskAgent(c) ==
    /\ "Agent" \in Requests
    /\ Idle(c)
    /\ \E request \in AgentRequests : Hold(c, request)

Answer(c, status) ==
    pending' = [pending EXCEPT ![c] = [kind |-> "Answer", status |-> status]]

\* handle_agent_write and apply_tool_calls: a refused reply and a failed commit
\* are answered with the error, the answer to the others is checked once more.
AgentReply(c) ==
    /\ pending[c].kind = "AgentWrite"
    /\ \E w \in {NoWrapper} \cup Wrappers :
           IF ~ReplyActedOn(pending[c], w)
           THEN Answer(c, FailureResponse) /\ UNCHANGED <<db, disk>>
           ELSE LET ms == AllMutations(w.calls)
                    r  == CommitAll(db, ms)
                IN  \/ /\ ms = <<>>
                       /\ Answer(c, AnswerStatus(w, FALSE))
                       /\ UNCHANGED <<db, disk>>
                    \/ /\ r.status # Accepted
                       /\ Answer(c, r.status)
                       /\ UNCHANGED <<db, disk>>
                    \/ /\ ms # <<>>
                       /\ CommitMutations(ms)
                       /\ Answer(c, AnswerStatus(w, TRUE))

-----------------------------------------------------------------------------
(* POST _aliases: the mutations carry the names the client sent.           *)

AliasMutations ==
    [kind : {"PutAlias", "DeleteAlias"}, index : Names, alias : Names]
    \cup [kind : {"DeleteIndex"}, index : Names]

\* Mutant: the actions are committed as they were sent.
OrderAliasMutations_AsSent(ms) == ms

\* order_alias_mutations.  An index that some action of the request removes is
\* removed before the first alias that takes its name, and only once.
OrderAliasMutations(ms) ==
    LET removed == {m.index : m \in {ms[i] : i \in {j \in DOMAIN ms :
                                         ms[j].kind = "DeleteIndex"}}}
        Delete(n) == [kind |-> "DeleteIndex", index |-> n]
        Emit(ordered, m) ==
            LET emitted(n) == Contains(ordered, Delete(n))
            IN  CASE m.kind = "PutAlias" /\ m.alias \in removed
                     /\ ~emitted(m.alias) -> ordered \o <<Delete(m.alias), m>>
                  [] m.kind = "DeleteIndex" /\ emitted(m.index) -> ordered
                  [] OTHER -> Append(ordered, m)
    IN  FoldLeft(Emit, <<>>, ms)

AliasActions ==
    /\ "AliasActions" \in Requests
    /\ \E ms \in SeqOf(AliasMutations, MaxActions) :
           ms # <<>> /\ CommitMutations(OrderAliasMutations(ms))
    /\ UNCHANGED pending

-----------------------------------------------------------------------------
(* apply_write_operations: the operations of a bulk request succeed or     *)
(* fail one by one, and what succeeded is one transaction.  The store      *)
(* writes a single document as a bulk request of one operation.            *)

PutOps ==
    [kind : {"IndexDocument", "CreateDocument"}, name : Names, id : Ids,
     source : Objects]

\* parse_update_body: a doc, and an upsert document or none.
UpdateOps ==
    [kind : {"UpdateDocument"}, name : Names, id : Ids, source : Objects,
     asUpsert : BOOLEAN, upsert : {{}} \cup {{o} : o \in Objects}]

DeleteOps == [kind : {"DeleteDocument"}, name : Names, id : Ids]

WriteOps == PutOps \cup UpdateOps \cup DeleteOps

BulkMutation(r, m) ==
    IF r.status # Accepted THEN r
    ELSE IF ValidateMutation(r.db, m) # Accepted
    THEN Result(ValidateMutation(r.db, m), r.db)
    ELSE IF ~FitsMemory(EstimateAfter(r.db, m)) THEN Result(429, r.db)
    ELSE Result(Accepted, ApplyMutation(r.db, m))

\* get_document, as the set of the document or the empty set
GetDocument(d, n, id) ==
    LET index == ResolveIndex(d, n)
    IN  IF Has(d.indexes, index) /\ Has(d.indexes[index].documents, id)
        THEN {d.indexes[index].documents[id]} ELSE {}

\* PreparedOutcome::resolve on the candidate, and the result that the last part
\* of handle_bulk answers an item with, which takes a document with version 1 for
\* a new one; _update does the same and _create always answers "created".
WriteResult(op, before, r) ==
    IF r.status # Accepted THEN "error"
    ELSE IF op.kind = "DeleteDocument"
    THEN IF GetDocument(before, op.name, op.id) # {} THEN "deleted" ELSE "not_found"
    ELSE IF op.kind = "CreateDocument"
            \/ \E doc \in GetDocument(r.db, op.name, op.id) : doc.version = 1
    THEN "created" ELSE "updated"

\* Mutant: the creation of the index of a document is not logged.
BulkOperation_LogsLast(b, op) ==
    LET prepared == PrepareWriteOperation(b.db, op)
        r == FoldLeft(BulkMutation, Result(prepared.status, b.db), prepared.mutations)
        n == Len(prepared.mutations)
    IN  [db |-> r.db,
         committed |-> IF r.status = Accepted
                       THEN b.committed \o SubSeq(prepared.mutations, Max({n, 1}), n)
                       ELSE b.committed,
         results |-> Append(b.results, WriteResult(op, b.db, r))]

\* The mutations of an operation are applied to the candidate as they are
\* validated; a later failure does not take the earlier ones back.
BulkOperation(b, op) ==
    LET prepared == PrepareWriteOperation(b.db, op)
        r == FoldLeft(BulkMutation, Result(prepared.status, b.db), prepared.mutations)
    IN  [db |-> r.db,
         committed |-> IF r.status = Accepted THEN b.committed \o prepared.mutations
                       ELSE b.committed,
         results |-> Append(b.results, WriteResult(op, b.db, r))]

ApplyWriteOperations(d, ops) ==
    FoldLeft(BulkOperation, [db |-> d, committed |-> <<>>, results |-> <<>>], ops)

\* handle_document for _create and _update, which answer from what they wrote.
Document ==
    /\ "Document" \in Requests
    /\ db.seqNo < MaxSeqNo
    /\ \E op \in {o \in PutOps : o.kind = "CreateDocument"} \cup UpdateOps :
           LET b == ApplyWriteOperations(db, <<op>>)
           IN  b.committed # <<>> /\ Persist(b.db, b.committed)
    /\ UNCHANGED pending

\* handle_bulk
Bulk ==
    /\ "Bulk" \in Requests
    /\ db.seqNo < MaxSeqNo
    /\ \E ops \in SeqOf(WriteOps, MaxBulk) :
           LET b == ApplyWriteOperations(db, ops)
           IN  b.committed # <<>> /\ Persist(b.db, b.committed)
    /\ UNCHANGED pending

-----------------------------------------------------------------------------
(* PUT, POST and DELETE of _doc: handle_document looks the document up     *)
(* under the read lock first, writes under the commit lock, and answers    *)
(* from what it saw.                                                       *)

Versions(documents) == {doc.version : doc \in documents}

\* `index' and `since' are history: what the name led to and the number of the
\* last document write, when the document was looked up.
DocumentRequest(request, n, id) ==
    [kind |-> "DocumentRequest", request |-> request, name |-> n, id |-> id,
     seen |-> Versions(GetDocument(db, n, id)),
     index |-> ResolveIndex(db, n), since |-> db.seqNo]

LookUpDocument(c) ==
    /\ "Document" \in Requests
    /\ Idle(c)
    /\ db.seqNo < MaxSeqNo
    /\ \E request \in {"IndexDocument", "DeleteDocument"}, n \in Names, id \in Ids :
           Hold(c, DocumentRequest(request, n, id))

\* The operation of a request, whose body is parsed after the look-up.
DocumentOps(p) ==
    {op \in PutOps \cup DeleteOps :
         op.kind = p.request /\ op.name = p.name /\ op.id = p.id}

\* A write is answered with "created" or "updated" by what was seen before; a
\* deletion with what it did, and the version after the one seen.
DocumentResult(p, result) ==
    IF result = "error" \/ p.request = "DeleteDocument" THEN result
    ELSE IF p.seen = {} THEN "created" ELSE "updated"

DocumentAnswer(p, result) ==
    [kind |-> "DocumentAnswer", result |-> DocumentResult(p, result),
     version |-> IF result = "deleted" THEN {v + 1 : v \in p.seen} ELSE {}]

CommitDocument(c) ==
    /\ pending[c].kind = "DocumentRequest"
    /\ \E op \in DocumentOps(pending[c]) :
           LET b == ApplyWriteOperations(db, <<op>>)
           IN  /\ \/ b.committed # <<>> /\ Persist(b.db, b.committed)
                  \/ b.committed = <<>> /\ UNCHANGED <<db, disk>>
               /\ pending' = [pending EXCEPT ![c] = DocumentAnswer(@, b.results[1])]

-----------------------------------------------------------------------------
(* apply_dynamic_write_operations_atomic: the operations are built from    *)
(* the database under the lock and all of them succeed, or none.           *)

AtomicOperation(a, op) ==
    LET prepared == PrepareWriteOperation(a.db, op)
        r == FoldLeft(CommitOne, Result(prepared.status, a.db), prepared.mutations)
    IN  IF a.status # Accepted THEN a
        ELSE [status |-> r.status, db |-> r.db,
              committed |-> a.committed \o prepared.mutations]

ApplyAtomic(d, ops) ==
    FoldLeft(AtomicOperation,
             [status |-> Accepted, db |-> d, committed |-> <<>>], ops)

DynamicWrite(ops) ==
    LET a == ApplyAtomic(db, ops)
    IN  /\ a.status = Accepted
        /\ a.committed # <<>>
        /\ Persist(a.db, a.committed)

\* matching_documents: the query selects some documents of the indices.
DocumentsOf(d, names, ids) ==
    {doc \in names \X ids :
         Has(d.indexes, doc[1]) /\ Has(d.indexes[doc[1]].documents, doc[2])}
MatchedDocs == DocumentsOf(db, Names, Ids)
Source(doc) == db.indexes[doc[1]].documents[doc[2]].source

DeleteByQuery ==
    /\ "DeleteByQuery" \in Requests
    /\ db.seqNo < MaxSeqNo
    /\ \E docs \in SUBSET MatchedDocs :
           LET Op(doc) == [kind |-> "DeleteDocument", name |-> doc[1], id |-> doc[2]]
               matched == SetToSeq(docs)
           IN  DynamicWrite([i \in DOMAIN matched |-> Op(matched[i])])
    /\ UNCHANGED pending

\* remove_saved_object_list_value: the script removes a value from a list in the
\* source, here a field from the set of fields.
ScriptAction(source, target) ==
    IF source = {} \/ source = {target} THEN "Delete"
    ELSE IF target \notin source THEN "Noop" ELSE "Index"

UpdateByQueryOp(doc, target) ==
    IF ScriptAction(Source(doc), target) = "Delete"
    THEN [kind |-> "DeleteDocument", name |-> doc[1], id |-> doc[2]]
    ELSE [kind |-> "IndexDocument", name |-> doc[1], id |-> doc[2],
          source |-> Source(doc) \ {target}]

UpdateByQuery ==
    /\ "UpdateByQuery" \in Requests
    /\ db.seqNo < MaxSeqNo
    /\ \E docs \in SUBSET MatchedDocs, target \in Fields :
           LET changed == SetToSeq({doc \in docs :
                                        ScriptAction(Source(doc), target) # "Noop"})
           IN  DynamicWrite([i \in DOMAIN changed |-> UpdateByQueryOp(changed[i], target)])
    /\ UNCHANGED pending

DocumentExists(n, id) == GetDocument(db, n, id) # {}

\* Mutant: what the request itself has planned does not count as a conflict.
ReindexPlan_ForgetsPlanned(docs, dest, create, proceed) ==
    LET Plan(plan, doc) ==
            IF plan.failed THEN plan
            ELSE IF create /\ DocumentExists(dest, doc[2])
            THEN [plan EXCEPT !.failed = ~proceed]
            ELSE [plan EXCEPT !.ops = Append(@,
                      [kind |-> IF create THEN "CreateDocument" ELSE "IndexDocument",
                       name |-> dest, id |-> doc[2], source |-> Source(doc)])]
    IN  FoldLeft(Plan, [failed |-> FALSE, ops |-> <<>>], docs)

\* Reindex without a script: the documents keep their ids.  With op_type create
\* a document that exists, or was planned already, is a version conflict; the
\* request fails on the first one unless conflicts are to be skipped.
ReindexPlan(docs, dest, create, proceed) ==
    LET Plan(plan, doc) ==
            LET planned == \E i \in DOMAIN plan.ops : plan.ops[i].id = doc[2]
            IN  IF plan.failed THEN plan
                ELSE IF create /\ (DocumentExists(dest, doc[2]) \/ planned)
                THEN [plan EXCEPT !.failed = ~proceed]
                ELSE [plan EXCEPT !.ops = Append(@,
                          [kind |-> IF create THEN "CreateDocument" ELSE "IndexDocument",
                           name |-> dest, id |-> doc[2], source |-> Source(doc)])]
    IN  FoldLeft(Plan, [failed |-> FALSE, ops |-> <<>>], docs)

Reindex ==
    /\ "Reindex" \in Requests
    /\ db.seqNo < MaxSeqNo
    /\ \E docs \in SUBSET MatchedDocs, dest \in Names, create, proceed \in BOOLEAN :
           LET plan == ReindexPlan(SetToSeq(docs), dest, create, proceed)
           IN  ~plan.failed /\ DynamicWrite(plan.ops)
    /\ UNCHANGED pending

-----------------------------------------------------------------------------
(* The process stops and the store is opened again.                        *)

\* plan_dashboards_encoded_document_id_repairs
Repairs(d) ==
    LET encoded == DocumentsOf(d, Dashboards, DOMAIN Legacy)
        Plan(ms, doc) ==
            LET m == [kind |-> "RenameDocument", index |-> doc[1], id |-> doc[2],
                      newId |-> Legacy[doc[2]]]
                planned == \E i \in DOMAIN ms :
                               ms[i].index = m.index /\ ms[i].newId = m.newId
            IN  IF Has(d.indexes[m.index].documents, m.newId) \/ planned THEN ms
                ELSE Append(ms, m)
    IN  FoldLeft(Plan, <<>>, SetToSeq(encoded))

\* load_durable_state refuses a database beyond the memory limit, before and
\* after each repair.
LoadFits(d) ==
    \A k \in 0..Len(Repairs(d)) :
        FitsMemory(EstimateDatabase(Replay(d, SubSeq(Repairs(d), 1, k))))

\* Mutant: the repairs are not written to the log.
Reopen_RepairsInMemory ==
    /\ "Reopen" \in Requests
    /\ LoadFits(disk)
    /\ db' = Replay(disk, Repairs(disk))
    /\ pending' = [c \in Clients |-> Nothing]
    /\ UNCHANGED disk

\* Mutant: the counter of sequence numbers is not part of the snapshot.
Reopen_ForgetsSeqNo ==
    /\ "Reopen" \in Requests
    /\ LoadFits(disk)
    /\ db' = [Replay(disk, Repairs(disk)) EXCEPT !.seqNo = 0]
    /\ disk' = db'
    /\ pending' = [c \in Clients |-> Nothing]

\* load_durable_state and repair_dashboards_encoded_document_ids: the repairs
\* are one more transaction of the log.
Reopen ==
    /\ "Reopen" \in Requests
    /\ LoadFits(disk)
    /\ db' = Replay(disk, Repairs(disk))
    /\ disk' = db'
    /\ pending' = [c \in Clients |-> Nothing]

Next ==
    \/ CreateIndex \/ Template
    \/ RegistryObject \/ ComponentTemplate \/ LegacyTemplate
    \/ \E c \in Clients :
           \/ DeleteIndex(c) \/ PutConfig(c) \/ PutAlias(c) \/ DeleteAlias(c)
           \/ CommitPending(c)
           \/ AskAgent(c) \/ AgentReply(c)
           \/ LookUpDocument(c) \/ CommitDocument(c)
    \/ AliasActions
    \/ Document \/ Bulk \/ DeleteByQuery \/ UpdateByQuery \/ Reindex
    \/ Reopen

Spec == Init /\ [][Next]_vars

-----------------------------------------------------------------------------
(* Properties.                                                             *)

TypeOKDatabase(d) ==
    /\ DOMAIN d.indexes \subseteq Names
    /\ \A n \in DOMAIN d.indexes :
           LET ix == d.indexes[n]
           IN  /\ ix.config \in Objects
               /\ ix.aliases \subseteq Names
               /\ DOMAIN ix.documents \subseteq Ids
               /\ \A id \in DOMAIN ix.documents :
                      ix.documents[id] \in [source : Objects, version : Nat, seqNo : Nat]
               /\ DOMAIN ix.tombstones \subseteq Ids
               /\ Range(ix.tombstones) \subseteq Nat
               /\ ix.storeSize \in Nat
    /\ DOMAIN d.templates \subseteq Templates
    /\ \A t \in DOMAIN d.templates :
           d.templates[t] \in [patterns : SUBSET Names, config : Objects]
    /\ DOMAIN d.registry \subseteq Registry /\ Range(d.registry) \subseteq Objects
    /\ DOMAIN d.aliases \subseteq Names /\ Range(d.aliases) \subseteq Names
    /\ d.seqNo \in Nat

\* Type invariant.
TypeOK ==
    /\ TypeOKDatabase(db)
    /\ TypeOKDatabase(disk)
    /\ \A c \in Clients :
           pending[c] \in
               {Nothing} \cup [kind : {"DeleteIndex"}, index : Names]
               \cup [kind : {"PutConfig"}, index : Names, config : Objects]
               \cup [kind : {"PutAlias", "DeleteAlias"}, index : Names, alias : Names]
               \cup AgentRequests \cup [kind : {"Answer"}, status : Nat]
               \cup [kind : {"DocumentRequest"},
                     request : {"IndexDocument", "DeleteDocument"}, name : Names,
                     id : Ids, seen : SUBSET Nat, index : Names \cup {NoName},
                     since : 0..db.seqNo]
               \cup [kind : {"DocumentAnswer"},
                     result : {"error", "created", "updated", "deleted", "not_found"},
                     version : SUBSET Nat]

\* The database that opening the store would load is the one in memory, up to
\* the bookkeeping of store sizes: what apply_write_operations and
\* commit_mutations write to the log is all that they did to the database.
LogDescribesMemory == RecomputeStoreSizes(disk) = RecomputeStoreSizes(db)

\* store_size_bytes, which apply_to keeps up to date incrementally, is the size
\* that recompute_store_size would compute.
StoreSizeExact ==
    \A n \in DOMAIN db.indexes : db.indexes[n].storeSize = EstimateIndex(db.indexes[n])

\* store_size_bytes is never less than the size of the index, not even after
\* repairs have moved a document onto the id of a deleted one: the memory limit
\* is checked against no less than what is stored.  And opening the store, which
\* measures the database anew, never refuses for its size what was committed.
StoreSizeCovers ==
    /\ \A n \in DOMAIN db.indexes : db.indexes[n].storeSize >= EstimateIndex(db.indexes[n])
    /\ LoadFits(disk)

\* No sequence of requests takes the database over the limits that
\* validate_mutation and the two memory checks enforce.
WithinLimits ==
    /\ Cardinality(DOMAIN db.indexes) <= MaxIndexes
    /\ DocumentCount(db) <= MaxDocuments
    /\ FitsMemory(EstimateDatabase(db))

\* The size that apply_write_operations predicts before it applies a mutation
\* (validate_memory_after_mutation) is the size the database then has.
PredictionExact ==
    \A op \in WriteOps :
        LET p == PrepareWriteOperation(db, op)
        IN  p.mutations # <<>> =>
                EstimateAfter(db, Head(p.mutations)) =
                    EstimateDatabase(ApplyMutation(db, Head(p.mutations)))

\* The result that an item of a bulk request, a _create and an _update would be
\* answered with is what the write did, although "new" is inferred from the
\* version that the write left behind.  (PUT and DELETE of _doc answer from what
\* they saw before: see StaleAnswersExplained.)
ResultsTrue ==
    \A op \in WriteOps :
        LET b       == ApplyWriteOperations(db, <<op>>)
            existed == GetDocument(db, op.name, op.id) # {}
            exists  == GetDocument(b.db, op.name, op.id) # {}
        IN  CASE b.results[1] = "created"   -> ~existed /\ exists
              [] b.results[1] = "updated"   -> existed /\ exists
              [] b.results[1] = "deleted"   -> existed /\ ~exists
              [] b.results[1] = "not_found" -> ~existed /\ b.committed = <<>>
              [] b.results[1] = "error"     -> b.committed = <<>>

\* The sequence numbers in use, with the place where each is.
Sequenced(d) ==
    UNION {LET ix == d.indexes[n]
           IN  {<<n, id, "document", ix.documents[id].seqNo>> : id \in DOMAIN ix.documents}
               \cup {<<n, id, "tombstone", ix.tombstones[id]>> : id \in DOMAIN ix.tombstones}
           : n \in DOMAIN d.indexes}

\* No two live documents or tombstones carry the same sequence number, and none
\* is ahead of the counter: a restart cannot hand out a number again.
SeqNosUnique ==
    \A d \in {db, disk} :
        /\ \A x \in Sequenced(d) : x[4] <= d.seqNo
        /\ \A x, y \in Sequenced(d) : x[4] = y[4] => x = y

\* The sequence numbers that the document and the tombstone of an id carry.
NumbersAt(ix, id) ==
    {ix.documents[i].seqNo : i \in {id} \cap DOMAIN ix.documents}
    \cup {ix.tombstones[i] : i \in {id} \cap DOMAIN ix.tombstones}

\* The document was written or deleted since, or its index was made anew.
WrittenSince(ix, id, s) ==
    \/ \E x \in NumbersAt(ix, id) : x > s
    \/ \A i \in Ids : \A x \in NumbersAt(ix, i) : x > s

\* What the database shows of writes between the look-up of a document and now.
ChangedSince(p) ==
    LET n == ResolveIndex(db, p.name)
    IN  \/ n # p.index
        \/ Has(db.indexes, n) /\ WrittenSince(db.indexes[n], p.id, p.since)

\* An answer that is true of the document as the write finds it.
TrueOf(documents, answer) ==
    CASE answer.result \in {"created", "not_found"} -> documents = {}
      [] answer.result = "updated" -> documents # {}
      [] answer.result = "deleted" -> /\ documents # {}
                                      /\ answer.version = {v + 1 : v \in Versions(documents)}
      [] answer.result = "error"   -> TRUE

\* PUT, POST and DELETE of _doc answer from a look-up that was made before the
\* write.  Their answer is false only if the document was written or deleted
\* under their hands, and then the sequence numbers show it: a document is never
\* replaced, and never lost, behind the back of a request that looked it up.
StaleAnswersExplained ==
    [][\A c \in Clients :
           pending[c].kind = "DocumentRequest" /\ pending'[c].kind = "DocumentAnswer" =>
               \/ ChangedSince(pending[c])
               \/ TrueOf(GetDocument(db, pending[c].name, pending[c].id), pending'[c])]_vars

\* A reindex that creates documents counts every conflict while it plans: what it
\* planned is then refused for a limit or not at all, although it runs as one
\* transaction that a single conflict would undo, and although two of the indexes
\* it reads can hold the same id; and it leaves alone what the destination had.
\* (Every database is reached with no request under way, so the others need no
\* check.)
ReindexConflictsPlanned ==
    (\A c \in Clients : pending[c] = Nothing) =>
    \A docs \in SUBSET MatchedDocs, dest \in Names, proceed \in BOOLEAN :
        LET plan == ReindexPlan(SetToSeq(docs), dest, TRUE, proceed)
            a    == ApplyAtomic(db, plan.ops)
        IN  ~plan.failed =>
                /\ a.status \in {Accepted, 429}
                /\ a.status = Accepted =>
                       \A doc \in docs :
                           /\ DocumentExists(dest, doc[2]) =>
                                  GetDocument(a.db, dest, doc[2]) = GetDocument(db, dest, doc[2])
                           /\ ~DocumentExists(dest, doc[2]) =>
                                  \E d \in GetDocument(a.db, dest, doc[2]) :
                                      d.version = 1 /\ \E other \in docs :
                                          other[2] = doc[2] /\ d.source = Source(other)

\* Names lead where requests expect: every alias to an index, whatever was
\* deleted between the resolution of a name and the commit of the mutation built
\* from it; and a document written through a name is read through it, because
\* the index that resolve_index picks is one of those resolve_indices returns.
NamesResolve ==
    /\ \A a \in DOMAIN db.aliases : Has(db.indexes, db.aliases[a])
    /\ \A n \in Names : ResolveIndex(db, n) # NoName =>
                            ResolveIndex(db, n) \in ResolveIndices(db, n)

\* The answer to a write through the agent is true, whatever the endpoint
\* replied: a success has put the requested template and changed nothing else,
\* any other answer has changed nothing.
AgentAnswersTrue ==
    [][\A c \in Clients :
           pending[c].kind = "AgentWrite" /\ pending'[c].kind = "Answer" =>
               db' = IF Success(pending'[c].status)
                     THEN ApplyMutation(db, Requested(pending[c])) ELSE db]_vars

\* A client may send the actions of an _aliases request in any order that makes
\* sense to it: replacing an index by an alias of its name succeeds or fails
\* alike whether the alias or the removal (remove_index) comes first; and a
\* request that succeeds has removed every index it names and left every alias
\* as the last action about it says, unless that alias was put on an index that
\* the request removes.  (Every database is reached with no request under way,
\* so the others need no check.)
OrderedActionsSound ==
    (\A c \in Clients : pending[c] = Nothing) =>
    /\ \A put \in {m \in AliasMutations : m.kind = "PutAlias"} :
           LET remove == [kind |-> "DeleteIndex", index |-> put.alias]
           IN  CommitAll(db, OrderAliasMutations(<<put, remove>>)) =
                   CommitAll(db, OrderAliasMutations(<<remove, put>>))
    /\ \A ms \in SeqOf(AliasMutations, MaxActions) :
           LET r         == CommitAll(db, OrderAliasMutations(ms))
               removed   == {ms[i].index : i \in {j \in DOMAIN ms : ms[j].kind = "DeleteIndex"}}
               About(a)  == {i \in DOMAIN ms : ms[i].kind # "DeleteIndex" /\ ms[i].alias = a}
               Final(a)  == ms[Max(About(a))]
               Stays(a)  == Final(a).kind = "PutAlias" /\ Final(a).index \notin removed
           IN  r.status = Accepted =>
                   /\ removed \cap DOMAIN r.db.indexes = {}
                   /\ \A a \in Names : About(a) # {} =>
                          /\ Has(r.db.aliases, a) <=> Stays(a)
                          /\ Stays(a) => r.db.aliases[a] = Final(a).index
=============================================================================
