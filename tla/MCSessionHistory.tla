--------------------------- MODULE MCSessionHistory ---------------------------
(* Small instances of SessionHistory for TLC. *)
EXTENDS SessionHistory, TLC

Symmetry == Permutations(Turns)

(* What makes a difference to the future.  Revisions only grow and are     *)
(* only compared with that of the archive, by those who will still save; a *)
(* compaction that comes too late does nothing; a turn that ended is over. *)
Fresh(rev) == rev = archive.rev

TurnView(t) ==
    IF work[t].at \in {"over", "dead"} /\ t \notin runs
    THEN <<"over", work[t].resumes>>
    ELSE <<work[t].at, work[t].resumes, work[t].append,
           work[t].at \in {"ask_prepared", "prepared", "answer", "persist"} /\ Fresh(work[t].base)>>

ClearView ==
    IF clear.at = "idle" THEN <<clear.count>>
    ELSE <<clear.at, clear.count, clear.rounds, clear.residual,
           clear.at = "empty" /\ Fresh(clear.base)>>

View ==
    <<session, archive.turns, archive.memory, runs, cancelled \intersect runs, pending, replies,
      [t \in Turns |-> TurnView(t)],
      IF compaction.busy /\ Fresh(compaction.rev) THEN <<compaction.turns>> ELSE <<>>,
      ClearView, closing,
      [history EXCEPT !.persisted = @ \ history.erased]>>
=============================================================================
