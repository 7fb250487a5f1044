--------------------------- MODULE MCPendingTurn ---------------------------
(* Small instances of PendingTurn for TLC. *)
EXTENDS PendingTurn, TLC

(* No temporal property is checked under symmetry. *)
Symmetry == Permutations(Resumers) \union Permutations(Askers) \union Permutations(Texts)
=============================================================================
