------------------------------- MODULE Database -------------------------------
(***************************************************************************)
(* The in-memory database of the store (src/storage/mod.rs): what each     *)
(* mutation does to it, what validate_mutation accepts, how the estimate   *)
(* of its size is kept, and which mutations a document write turns into.   *)
(* Only operators: module WriteOperations gives them a state.              *)
(*                                                                         *)
(* Data abstraction.  A JSON object is the set of its top-level fields, so *)
(* merge_object is a union and the length of the JSON text grows with the  *)
(* number of fields.  settings and mappings of an index are one such       *)
(* object, `config': PutMapping and PutSettings act alike on the two.  The *)
(* constants 128, 64 and 16 of the size estimate are the code's.           *)
(***************************************************************************)
EXTENDS Naturals, Sequences, FiniteSetsExt, Functions, TLC

CONSTANTS
    Names,        \* index names and alias names: they share one name space
    Ids,          \* document ids
    Legacy,       \* function from encoded document ids to decoded ones
    Dashboards,   \* names of the Dashboards saved-object indexes
    Fields,       \* field names of JSON objects
    Templates,    \* template names, numbers in the order of the BTreeMap
    Registry,     \* registry objects: <<namespace, name>>
    MaxIndexes,   \* StoreLimits.max_indexes
    MaxDocuments, \* StoreLimits.max_documents
    MemoryLimit   \* StoreLimits.memory_limit_bytes

ASSUME DatabaseAssumption ==
    /\ DOMAIN Legacy \subseteq Ids
    /\ Dashboards \subseteq Names
    /\ Range(Legacy) \subseteq Ids \ DOMAIN Legacy
    /\ Templates \subseteq Nat
    /\ \A o \in Registry : o = <<o[1], o[2]>>
    /\ MaxIndexes \in Nat /\ MaxDocuments \in Nat /\ MemoryLimit \in Nat

\* A JSON object has finitely many fields.
ASSUME FieldsAssumption == IsFiniteSet(Fields)

Objects == SUBSET Fields

NoName == "none"

\* Option::None is no name.
ASSUME NamesAssumption == NoName \notin Names

Empty == [x \in {} |-> x]
Put(f, k, v) == [x \in DOMAIN f \cup {k} |-> IF x = k THEN v ELSE f[x]]
Without(f, k) == Restrict(f, DOMAIN f \ {k})
Has(f, k) == k \in DOMAIN f

EmptyDatabase ==
    [indexes |-> Empty, templates |-> Empty, registry |-> Empty, aliases |-> Empty,
     seqNo |-> 0]

-----------------------------------------------------------------------------
(* The size estimate.                                                      *)

EstimateValue(object) == 2 + 6 * Cardinality(object)

IdLength(id) == IF Has(Legacy, id) THEN 3 ELSE 1
EstimateDocument(id, source) == IdLength(id) + 64 + EstimateValue(source)
EstimateTombstone(id) == IdLength(id) + 16

EstimateIndex(ix) ==
    1 + EstimateValue(ix.config) + Cardinality(ix.aliases)
    + MapThenSumSet(LAMBDA id : EstimateDocument(id, ix.documents[id].source),
                    DOMAIN ix.documents)
    + MapThenSumSet(EstimateTombstone, DOMAIN ix.tombstones)

EstimateDatabase(d) ==
    128 + MapThenSumSet(LAMBDA n : d.indexes[n].storeSize, DOMAIN d.indexes)
    + MapThenSumSet(LAMBDA t : 1 + EstimateValue(d.templates[t].config),
                    DOMAIN d.templates)
    + 4 * Cardinality(DOMAIN d.aliases)
    + Cardinality({o[1] : o \in DOMAIN d.registry})
    + MapThenSumSet(LAMBDA o : 1 + EstimateValue(d.registry[o]), DOMAIN d.registry)

\* Mutant: the operands are swapped.
SaturatingSub_Swapped(a, b) == b - a

SaturatingSub(a, b) == IF a >= b THEN a - b ELSE 0

Recompute(ix) == [ix EXCEPT !.storeSize = EstimateIndex(ix)]

RecomputeStoreSizes(d) ==
    [d EXCEPT !.indexes = [n \in DOMAIN @ |-> Recompute(@[n])]]

NewIndex(config) ==
    Recompute([config |-> config, aliases |-> {}, documents |-> Empty,
               tombstones |-> Empty, storeSize |-> 0])

DocumentCount(d) ==
    MapThenSumSet(LAMBDA n : Cardinality(DOMAIN d.indexes[n].documents),
                  DOMAIN d.indexes)

-----------------------------------------------------------------------------
(* Mutation::apply_to.  A mutation of an index that does not exist changes *)
(* nothing but the sequence number.                                        *)

DocumentMutations ==
    {"IndexDocument", "CreateDocument", "UpdateDocument", "DeleteDocument"}

\* Mutant: the bytes of the tombstone stay in store_size_bytes.
DropTombstone_KeepsBytes(ix, id) == [ix EXCEPT !.tombstones = Without(@, id)]

\* Mutant: the bytes are subtracted when there was no tombstone, too.
DropTombstone_Subtracts(ix, id) ==
    [ix EXCEPT !.tombstones = Without(@, id),
               !.storeSize = SaturatingSub(@, EstimateTombstone(id))]

DropTombstone(ix, id) ==
    IF Has(ix.tombstones, id)
    THEN [ix EXCEPT !.tombstones = Without(@, id),
                    !.storeSize = SaturatingSub(@, EstimateTombstone(id))]
    ELSE ix

DropDocumentBytes(ix, id) ==
    IF Has(ix.documents, id)
    THEN [ix EXCEPT !.storeSize =
              SaturatingSub(@, EstimateDocument(id, ix.documents[id].source))]
    ELSE ix

\* Mutant: the document gets the number before the counter is incremented.
PutDocument_OldSeqNo(ix, id, source, version, seqNo) ==
    [ix EXCEPT !.documents = Put(@, id, [source |-> source, version |-> version,
                                         seqNo |-> seqNo - 1]),
               !.storeSize = @ + EstimateDocument(id, source)]

PutDocument(ix, id, source, version, seqNo) ==
    [ix EXCEPT !.documents = Put(@, id, [source |-> source, version |-> version,
                                         seqNo |-> seqNo]),
               !.storeSize = @ + EstimateDocument(id, source)]

\* Mutant: a write of a document keeps its version.
NextVersion_Same(ix, id) ==
    IF Has(ix.documents, id) THEN ix.documents[id].version ELSE 1

NextVersion(ix, id) ==
    IF Has(ix.documents, id) THEN ix.documents[id].version + 1 ELSE 1

\* merge_object
MergeObject(old, new) == old \cup new

\* The part of apply_to for document mutations; s is the new sequence number.
ApplyDocument(ix, m, s) ==
    CASE m.kind = "IndexDocument" ->
             PutDocument(DropTombstone(DropDocumentBytes(ix, m.id), m.id),
                         m.id, m.source, NextVersion(ix, m.id), s)
      [] m.kind = "CreateDocument" ->
             IF Has(ix.documents, m.id) THEN ix
             ELSE PutDocument(DropTombstone(ix, m.id), m.id, m.source, 1, s)
      [] m.kind = "UpdateDocument" ->
             IF ~Has(ix.documents, m.id) /\ ~m.upsert THEN ix
             ELSE LET old == IF Has(ix.documents, m.id)
                             THEN ix.documents[m.id].source ELSE {}
                  IN  DropTombstone(
                          PutDocument(DropDocumentBytes(ix, m.id), m.id,
                                      MergeObject(old, m.source), NextVersion(ix, m.id), s),
                          m.id)
      [] m.kind = "DeleteDocument" ->
             IF ~Has(ix.documents, m.id) THEN ix
             ELSE [DropDocumentBytes(ix, m.id) EXCEPT
                       !.documents = Without(@, m.id),
                       !.tombstones = Put(@, m.id, s),
                       !.storeSize = @ + EstimateTombstone(m.id)]

ApplyRename(ix, m) ==
    IF Has(ix.documents, m.newId) \/ ~Has(ix.documents, m.id) THEN ix
    ELSE Recompute([ix EXCEPT !.documents =
                        Put(Without(@, m.id), m.newId, @[m.id])])

OnIndex(d, n, Op(_)) ==
    IF Has(d.indexes, n) THEN [d EXCEPT !.indexes[n] = Op(@)] ELSE d

ApplyMutation(d, m) ==
    CASE m.kind = "CreateIndex" ->
             IF Has(d.indexes, m.index) THEN d
             ELSE [d EXCEPT !.indexes = Put(@, m.index, NewIndex(m.config))]
      [] m.kind = "DeleteIndex" ->
             [d EXCEPT !.indexes = Without(@, m.index),
                       !.aliases = Restrict(@, {a \in DOMAIN @ : @[a] # m.index})]
      [] m.kind = "PutTemplate" ->
             [d EXCEPT !.templates = Put(@, m.template, m.body)]
      [] m.kind = "DeleteTemplate" ->
             [d EXCEPT !.templates = Without(@, m.template)]
      [] m.kind = "PutRegistryObject" ->
             [d EXCEPT !.registry = Put(@, m.object, m.body)]
      [] m.kind = "DeleteRegistryObject" ->
             [d EXCEPT !.registry = Without(@, m.object)]
      [] m.kind = "PutConfig" ->
             OnIndex(d, m.index, LAMBDA ix :
                 Recompute([ix EXCEPT !.config = MergeObject(@, m.config)]))
      [] m.kind = "PutAlias" ->
             [OnIndex(d, m.index, LAMBDA ix :
                  Recompute([ix EXCEPT !.aliases = @ \cup {m.alias}]))
              EXCEPT !.aliases = Put(@, m.alias, m.index)]
      [] m.kind = "DeleteAlias" ->
             [OnIndex(d, m.index, LAMBDA ix :
                  Recompute([ix EXCEPT !.aliases = @ \ {m.alias}]))
              EXCEPT !.aliases = Without(@, m.alias)]
      [] m.kind \in DocumentMutations ->
             [OnIndex(d, m.index, LAMBDA ix : ApplyDocument(ix, m, d.seqNo + 1))
              EXCEPT !.seqNo = @ + 1]
      [] m.kind = "RenameDocument" ->
             OnIndex(d, m.index, LAMBDA ix : ApplyRename(ix, m))

-----------------------------------------------------------------------------
(* validate_mutation: the status of the error, or Accepted.                *)

Accepted == 200

ValidateRegistryNamespace(namespace) ==
    IF namespace \in {"component_template", "legacy_template", "ingest_pipeline",
                      "search_pipeline", "script"} THEN Accepted ELSE 400

ValidateDocument(d, m) ==
    IF ~Has(d.indexes, m.index) THEN 404
    ELSE LET exists == Has(d.indexes[m.index].documents, m.id)
         IN  IF m.kind = "CreateDocument" /\ exists THEN 409
             ELSE IF m.kind = "UpdateDocument" /\ ~m.upsert /\ ~exists THEN 404
             ELSE IF ~exists /\ DocumentCount(d) >= MaxDocuments THEN 429
             ELSE Accepted

ValidateAlias(d, m) ==
    IF m.kind = "PutAlias"
    THEN IF ~Has(d.indexes, m.index) THEN 404
         ELSE IF Has(d.indexes, m.alias) THEN 400 ELSE Accepted
    ELSE IF Has(d.aliases, m.alias) /\ d.aliases[m.alias] = m.index
         THEN Accepted ELSE 404

\* Renames are only planned by the repair at start-up, which does not validate.
ValidateMutation(d, m) ==
    CASE m.kind = "CreateIndex" ->
             IF Has(d.indexes, m.index) THEN 400
             ELSE IF Cardinality(DOMAIN d.indexes) >= MaxIndexes THEN 429
             ELSE Accepted
      [] m.kind \in {"DeleteIndex", "PutConfig", "DeleteDocument"} ->
             IF Has(d.indexes, m.index) THEN Accepted ELSE 404
      [] m.kind = "PutTemplate" ->
             IF m.body.patterns = {} THEN 400 ELSE Accepted
      [] m.kind = "DeleteTemplate" ->
             IF Has(d.templates, m.template) THEN Accepted ELSE 404
      [] m.kind = "PutRegistryObject" -> ValidateRegistryNamespace(m.object[1])
      [] m.kind = "DeleteRegistryObject" ->
             IF ValidateRegistryNamespace(m.object[1]) # Accepted THEN 400
             ELSE IF Has(d.registry, m.object) THEN Accepted ELSE 404
      [] m.kind \in {"IndexDocument", "CreateDocument", "UpdateDocument"} ->
             ValidateDocument(d, m)
      [] m.kind \in {"PutAlias", "DeleteAlias"} -> ValidateAlias(d, m)

\* estimate_mutation_size_delta, for the mutations it handles.
SizeDelta(d, m) ==
    LET ix         == d.indexes[m.index]
        exists     == Has(ix.documents, m.id)
        documentB  == IF exists THEN EstimateDocument(m.id, ix.documents[m.id].source)
                      ELSE 0
        tombstoneB == IF Has(ix.tombstones, m.id) THEN EstimateTombstone(m.id) ELSE 0
        Nothing    == [add |-> 0, subtract |-> 0]
    IN  CASE m.kind = "CreateIndex" ->
                 [add |-> EstimateIndex(NewIndex(m.config)), subtract |-> 0]
          [] m.kind = "IndexDocument" ->
                 [add |-> EstimateDocument(m.id, m.source),
                  subtract |-> documentB + tombstoneB]
          [] m.kind = "CreateDocument" ->
                 IF exists THEN Nothing
                 ELSE [add |-> EstimateDocument(m.id, m.source),
                       subtract |-> tombstoneB]
          [] m.kind = "UpdateDocument" ->
                 IF ~exists /\ ~m.upsert THEN Nothing
                 ELSE LET old == IF exists THEN ix.documents[m.id].source ELSE {}
                      IN  [add |-> EstimateDocument(m.id, MergeObject(old, m.source)),
                           subtract |-> documentB + tombstoneB]
          [] m.kind = "DeleteDocument" ->
                 IF ~exists THEN Nothing
                 ELSE [add |-> EstimateTombstone(m.id), subtract |-> documentB]

\* Mutant: what the mutation replaces is not subtracted.
EstimateAfter_AddsOnly(d, m) == EstimateDatabase(d) + SizeDelta(d, m).add

\* estimate_database_bytes_after_mutation
EstimateAfter(d, m) ==
    LET delta == SizeDelta(d, m)
    IN  SaturatingSub(EstimateDatabase(d), delta.subtract) + delta.add

FitsMemory(bytes) == bytes <= MemoryLimit

\* load_durable_state opens no store whose limit is below the empty database.
ASSUME LimitAssumption == FitsMemory(EstimateDatabase(EmptyDatabase))

-----------------------------------------------------------------------------
(* Names and templates.                                                    *)

ResolveIndex(d, n) ==
    IF Has(d.indexes, n) THEN n
    ELSE IF Has(d.aliases, n) THEN d.aliases[n] ELSE NoName

\* resolve_indices: the indexes a search of the name reads.
ResolveIndices(d, n) ==
    LET listing == {i \in DOMAIN d.indexes : n \in d.indexes[i].aliases}
    IN  IF Has(d.indexes, n) THEN {n}
        ELSE IF listing # {} THEN listing
        ELSE IF Has(d.aliases, n) THEN {d.aliases[n]} ELSE {}

\* template_config_for: the first template, by name, with a matching pattern.
TemplateConfigFor(d, n) ==
    LET matching == {t \in DOMAIN d.templates : n \in d.templates[t].patterns}
    IN  IF matching = {} THEN {} ELSE d.templates[Min(matching)].config

\* resolve_or_create_index: the index written to and the mutations before.
ResolveOrCreateIndex(d, n) ==
    IF ResolveIndex(d, n) # NoName
    THEN [index |-> ResolveIndex(d, n), mutations |-> <<>>]
    ELSE [index |-> n,
          mutations |-> <<[kind |-> "CreateIndex", index |-> n,
                           config |-> TemplateConfigFor(d, n)]>>]

\* prepare_write_operation: the mutations of a document write, or an error.
Prepared(mutations) == [status |-> Accepted, mutations |-> mutations]
Refused(status) == [status |-> status, mutations |-> <<>>]

\* op.upsert holds the upsert document of the request, if there is one.
PrepareUpdate(d, op) ==
    LET target  == ResolveOrCreateIndex(d, op.name)
        creates == op.asUpsert \/ op.upsert # {}
        exists  == /\ Has(d.indexes, target.index)
                   /\ Has(d.indexes[target.index].documents, op.id)
    IN  IF ~creates /\ ~exists THEN Refused(404)
        ELSE Prepared(Append(target.mutations,
                 IF exists
                 THEN [kind |-> "UpdateDocument", index |-> target.index,
                       id |-> op.id, source |-> op.source, upsert |-> op.asUpsert]
                 ELSE [kind |-> "CreateDocument", index |-> target.index, id |-> op.id,
                       source |-> UNION (IF op.upsert = {} THEN {op.source}
                                         ELSE op.upsert)]))

PrepareDelete(d, op) ==
    LET index == ResolveIndex(d, op.name)
    IN  IF index = NoName THEN Refused(404)
        ELSE Prepared(IF Has(d.indexes[index].documents, op.id)
                      THEN <<[kind |-> "DeleteDocument", index |-> index,
                              id |-> op.id]>>
                      ELSE <<>>)

PrepareWriteOperation(d, op) ==
    CASE op.kind \in {"IndexDocument", "CreateDocument"} ->
             LET target == ResolveOrCreateIndex(d, op.name)
             IN  Prepared(Append(target.mutations,
                     [kind |-> op.kind, index |-> target.index, id |-> op.id,
                      source |-> op.source]))
      [] op.kind = "UpdateDocument" -> PrepareUpdate(d, op)
      [] op.kind = "DeleteDocument" -> PrepareDelete(d, op)
=============================================================================
