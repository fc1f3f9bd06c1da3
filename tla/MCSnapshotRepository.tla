------------------------- MODULE MCSnapshotRepository -------------------------
(* Bounds of the run of SnapshotRepository: one repository with room for    *)
(* several snapshots, and others that are only put and deleted with it.     *)
EXTENDS SnapshotRepository

FourAndOne == [r \in Repositories |-> IF r = "r1" THEN 4 ELSE 1]
=============================================================================
