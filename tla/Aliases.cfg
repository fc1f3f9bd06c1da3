\* Aliases and indexes share names; a client resolves a name and commits later.
SPECIFICATION Spec
CONSTANTS
    Names = {"a", "b", "c"}
    Ids = {"1"}
    Legacy <- NoLegacy
    Dashboards = {}
    Fields = {}
    Templates = {1}
    Registry <- OtherObjects
    MaxIndexes = 2
    MaxDocuments = 1
    MemoryLimit = 1000
    Clients = {c1}
    Requests = {"CreateIndex", "Named", "AliasActions", "Registry", "Reopen"}
    MaxBulk = 1
    MaxActions = 2
    MaxSeqNo = 1
    MaxToolCalls = 2
    MaxProposed = 1
INVARIANTS
    LogDescribesMemory
    NamesResolve
    OrderedActionsSound
