\* Torn appends: the directory stops being openable.
SPECIFICATION Spec
CONSTANTS
    MaxTx = 3
    WriteThreshold = 1
    MutationCounts = {1}
    Bodies = {"write"}
    Faults = {"torn"}
INVARIANTS
    Recoverable
