\* Document writes and by-query requests over three indexes; documents of the
\* Dashboards index under encoded ids are repaired when the store opens.
SPECIFICATION Spec
CONSTANTS
    Names = {"a", "b", "c"}
    Ids = {"enc", "dec"}
    Legacy <- OneLegacy
    Dashboards = {"a"}
    Fields = {"f", "g"}
    Templates = {1}
    Registry <- OtherObjects
    MaxIndexes = 3
    MaxDocuments = 3
    MemoryLimit = 360
    Clients = {c1}
    Requests = {"Bulk", "DeleteByQuery", "UpdateByQuery", "Reindex", "Reopen"}
    MaxBulk = 1
    MaxActions = 1
    MaxSeqNo = 3
    MaxToolCalls = 2
    MaxProposed = 1
INVARIANTS
    TypeOK
    LogDescribesMemory
    StoreSizeCovers
    PredictionExact
    ResultsTrue
    SeqNosUnique
    ReindexConflictsPlanned
