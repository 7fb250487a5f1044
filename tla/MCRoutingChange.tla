--------------------------- MODULE MCRoutingChange ---------------------------
(* Small instances of RoutingChange for TLC. *)
EXTENDS RoutingChange, TLC

Symmetry == Permutations(Scenes) \union Permutations(Models) \union Permutations(Changes)

(* What makes a difference to the future.  Of the log, only the last       *)
(* receipt and that of the latest recovery are ever looked at, and with    *)
(* one recovery `files` tells which this is; that a transaction was        *)
(* interrupted matters until it has a receipt; the plan of a change that   *)
(* was undone or failed is not read again when another receipt is there.   *)
LastReceipt == IF log = <<>> THEN None ELSE log[Len(log)]

Open == {t \in Txns : files[t].receipt = "none"}

Past(t) == t \in Changes \ {LastReceipt} /\ files[t].receipt \in {"undone", "failed"}

View ==
    <<manifest, [t \in Txns |-> IF Past(t) THEN NoPlan ELSE plans[t]], files,
      LastReceipt, work, cleared, revoked, torn \intersect Open, edits, quiet>>
=============================================================================
