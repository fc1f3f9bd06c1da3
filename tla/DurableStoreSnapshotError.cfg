\* Failed snapshots: a transaction is applied twice after a restart.
SPECIFICATION Spec
CONSTANTS
    MaxTx = 3
    WriteThreshold = 1
    MutationCounts = {1}
    Bodies = {"write"}
    Faults = {"snapshot_error"}
INVARIANTS
    AppliedAtMostOnce
