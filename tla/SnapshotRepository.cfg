\* Operations killed or failing at any file operation, in remove_dir_all, too.
SPECIFICATION Spec
CONSTANTS
    Repositories = {"r1", "r2"}
    Snapshots = {"s1", "s2"}
    Contents = {"x", "y"}
    MaxGeneration <- FourAndOne
    Faults = {"kill", "io_error", "delete_interrupted"}
INVARIANTS
    TypeOK
    AnswersHold
    SnapshotsComplete
PROPERTIES
    PublishedGenerationsFixed
