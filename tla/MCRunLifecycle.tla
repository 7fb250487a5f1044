--------------------------- MODULE MCRunLifecycle ---------------------------
(* Small instances of RunLifecycle for TLC. *)
EXTENDS RunLifecycle, TLC

(* Any process may come to own a run and any other may sweep. *)
Symmetry == Permutations(Processes)
=============================================================================
