\* Does every Drop of the syncer return?
SPECIFICATION FairSpec
CONSTANTS
    MaxAppends = 1
    MaxSyncFailures = 0
PROPERTY
    ShutdownCompletes
CHECK_DEADLOCK FALSE
