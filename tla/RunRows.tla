------------------------------- MODULE RunRows -------------------------------
(***************************************************************************)
(* The rows of the `runs` table and what the statements of                 *)
(* SQLiteRunRegistry do to one of them (dayu/host/run_registry.py), with   *)
(* the transition table of dayu/contracts/run.py.  Every operator is one   *)
(* committed transaction seen from the row it touches.  started_at and     *)
(* created_at are abstracted to `aged`: the run is older than the ten      *)
(* minutes below which the orphan cleanup leaves it alone.                 *)
(***************************************************************************)
CONSTANTS Processes,    \* the owner identities (pid, start time, boot id)
          None          \* SQL NULL

ActiveStates   == {"created", "queued", "running"}
TerminalStates == {"succeeded", "failed", "cancelled", "unsettled"}
RunStates      == ActiveStates \union TerminalStates

CancelReasons  == {"user", "timeout"}

(* RunRecord.  `requested` is cancel_requested_reason; it is not NULL      *)
(* exactly when cancel_requested_at is not.                                *)
RunRow == [state     : RunStates,
           requested : CancelReasons \union {None},
           reason    : CancelReasons \union {None},
           owner     : Processes,
           aged      : BOOLEAN]

NoRow == [state |-> "none"]

(* register_run: the row a process inserts.                                *)
NewRow(p) == [state |-> "created", requested |-> None, reason |-> None,
              owner |-> p, aged |-> FALSE]

IsActive(row)   == row.state \in ActiveStates
IsTerminal(row) == row.state \in TerminalStates

(* is_valid_transition, the table _VALID_TRANSITIONS.                      *)
ValidTargets(state) ==
    CASE state = "created" -> {"queued", "running", "cancelled", "unsettled"}
      [] state = "queued"  -> {"running", "cancelled", "unsettled"}
      [] state = "running" -> {"succeeded", "failed", "cancelled", "unsettled"}
      [] OTHER             -> {}

(* _transition's guard, when process p asks for it.  The one exception to  *)
(* the table: the owner repairs a run that was taken for an orphan.        *)
CanMove(row, target, p) ==
    \/ target \in ValidTargets(row.state)
    \/ row.state = "unsettled" /\ target = "succeeded" /\ row.owner = p

(* _transition's UPDATE: start_run, complete_run, fail_run, mark_unsettled.*)
Moved(row, target) ==
    [row EXCEPT !.state = target, !.aged = (@ /\ target # "running")]

(* mark_cancelled's UPDATE, which also records why.                        *)
Cancelled(row, why) == [row EXCEPT !.state = "cancelled", !.reason = why]

(* A request_cancel in which the latest request wins.                      *)
LatestRequest(row, why) ==
    IF IsActive(row) THEN [row EXCEPT !.requested = why] ELSE row

(* A request_cancel without the state in its WHERE clause.                 *)
RequestAnyway(row, why) ==
    IF row.requested = None THEN [row EXCEPT !.requested = why] ELSE row

(* request_cancel: only on an active run, and the first request stays.     *)
CancelRequested(row, why) ==
    IF IsActive(row) /\ row.requested = None
    THEN [row EXCEPT !.requested = why]
    ELSE row

(* is_cancel_requested.                                                    *)
IsRequested(row) == row.requested # None

(* The orphan cleanup without the state in its WHERE clause.                *)
OrphanedBlindly(row) == [row EXCEPT !.state = "unsettled"]

(* cleanup_orphan_runs' UPDATE ... WHERE state IN active.                  *)
Orphaned(row) == IF IsActive(row) THEN [row EXCEPT !.state = "unsettled"] ELSE row

(* The same decision without a word about why a run was cancelled.         *)
ShouldDeleteCancelled(row) == row.state \notin {"failed", "unsettled"}

(* should_delete_pending_turn_after_terminal_run for a resumable turn, the *)
(* only kind the executor registers.                                       *)
ShouldDeleteTurn(row) ==
    CASE row.state \in {"failed", "unsettled"} -> FALSE
      [] row.state = "cancelled"               -> row.reason # "timeout"
      [] OTHER                                 -> TRUE
=============================================================================
