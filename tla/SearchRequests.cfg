\* Scrolls, points in time and paged searches; and every answer over small documents.
SPECIFICATION SearchSpec
CONSTANTS
    IndexNames = {1, 2}
    DocIds = {1, 2}
    StringForm <- JsonTexts
    TextMatches <- Texts
    Queries <- AllQueries
    Sources <- DocumentsAndNested
    MaxResultWindow = 5
    MaxQueryDepth = 2
    MaxQueryClauses = 6
    MaxBuckets = 5
    Clients = {c1, c2}
    Workloads <- ContextsAndPaging
    PitIndices <- PitExpressions
    Sizes = {0, 2}
    CaptureSize = 3
    MaxScrolls = 2
    ScrollBudget = 4
    ScrollTtl = 2
    MaxPits = 2
    PitBudget = 4
    KeepAlives = {0, 1}
    MaxId = 3
    MaxTime = 2
    Pagers = {p1}
    PageRequests <- Paged
    AggregatedFields <- OneField
SYMMETRY SymmetricClients
INVARIANTS
    PagesPartitionHits
    BudgetsHold
    PitPagesPartition
    LivePagesComplete
    ReadersAgree
    AggregationsAgree
PROPERTIES
    AdmissionJustified
    ExpiredNotRevived
    
