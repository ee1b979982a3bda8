--------------------------- MODULE MCGpuOwnership ---------------------------
(* Small instances of GpuOwnership for TLC. *)
EXTENDS GpuOwnership, TLC

(* Every run keeps its records in one private directory. *)
SharedDir == [l \in Lease |-> "private"]
(* Each run was configured with a private directory of its own. *)
OwnDirs == [l \in Lease |-> l]
Symmetry == Permutations(Lease) \cup Permutations(Worker)
=============================================================================
