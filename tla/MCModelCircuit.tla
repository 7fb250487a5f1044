--------------------------- MODULE MCModelCircuit ---------------------------
(* A small instance of ModelCircuit for TLC. *)
EXTENDS ModelCircuit, TLC

CONSTANTS c1, c2, c3, c4

(* Most workers read the same configuration, one bears a failure less. *)
Limits == c1 :> 1 @@ c2 :> 2 @@ c3 :> 2 @@ c4 :> 2
=============================================================================
