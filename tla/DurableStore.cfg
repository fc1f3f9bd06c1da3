\* The process may be killed between any two steps.
SPECIFICATION Spec
CONSTANTS
    MaxTx = 4
    WriteThreshold = 3
    MutationCounts = {1, 2}
    Bodies = {"write", "legacy"}
    Faults = {}
INVARIANTS
    Recoverable
    MemoryMatchesDisk
    AckedAppliedOnce
    AppliedAtMostOnce
    OutcomesFinal
PROPERTIES
    ImplementsAtomicStore
