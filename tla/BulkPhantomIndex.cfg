\* A failed item of a bulk request leaves the index it created in memory only.
SPECIFICATION Spec
CONSTANTS
    Names = {"a", "b"}
    Ids = {"1", "2"}
    Legacy <- NoLegacy
    Dashboards = {}
    Fields = {"f"}
    Templates = {1}
    Registry <- OtherObjects
    MaxIndexes = 2
    MaxDocuments = 2
    MemoryLimit = 275
    Clients = {c1}
    Requests = {"Bulk", "Reopen"}
    MaxBulk = 2
    MaxActions = 1
    MaxSeqNo = 3
    MaxToolCalls = 2
    MaxProposed = 1
INVARIANTS
    LogDescribesMemory
