--------------------------- MODULE MCReplyOutbox ---------------------------
(* Small instances of ReplyOutbox for TLC. *)
EXTENDS ReplyOutbox, TLC

(* Delivery ids, keys, payloads, leases and callers are interchangeable. *)
Symmetry == Permutations(Ids) \cup Permutations(Keys) \cup Permutations(Payloads)
                \cup Permutations(Leases) \cup Permutations(Callers)
=============================================================================
