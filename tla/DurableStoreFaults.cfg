\* Every kind of fault, in any combination.
SPECIFICATION Spec
CONSTANTS
    MaxTx = 3
    WriteThreshold = 2
    MutationCounts = {1}
    Bodies = {"write", "legacy"}
    Faults = {"torn", "append_error", "snapshot_error", "power_loss"}
INVARIANTS
    AckedNotLost
