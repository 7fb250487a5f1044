---------------------------- MODULE MCStorageBatch ----------------------------
(* Small instances of StorageBatch for TLC. *)
EXTENDS StorageBatch, TLC

Symmetry == Permutations(Processes) \union Permutations(Batches)
=============================================================================
