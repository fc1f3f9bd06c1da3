\* Index creation, templates and registry objects against the memory limit.
SPECIFICATION Spec
CONSTANTS
    Names = {"a", "b"}
    Ids = {"1"}
    Legacy <- NoLegacy
    Dashboards = {}
    Fields = {"f"}
    Templates = {1}
    Registry <- LegacyTemplates
    MaxIndexes = 2
    MaxDocuments = 1
    MemoryLimit = 215
    Clients = {c1}
    Requests = {"CreateIndex", "Template", "Registry", "Named", "Agent", "Bulk", "Document", "Reopen"}
    MaxBulk = 1
    MaxActions = 1
    MaxSeqNo = 2
    MaxToolCalls = 2
    MaxProposed = 1
INVARIANTS
    LogDescribesMemory
    StoreSizeExact
    WithinLimits
PROPERTIES
    AgentAnswersTrue
    StaleAnswersExplained
