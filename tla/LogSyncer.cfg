\* Safety and liveness of the delayed sync with up to three commits and two
\* failing fsync calls.
SPECIFICATION FairSpec
CONSTANTS
    MaxAppends = 3
    MaxSyncFailures = 2
INVARIANTS
    DirtyCoversUnsynced
    CleanShutdownSyncs
PROPERTIES
    DelayedSyncHappens
    CommitsReturn
    PendingBatchShutdownCompletes
\* The process ends when Drop has returned.
CHECK_DEADLOCK FALSE
