----------------------------- MODULE OutboxRows -----------------------------
(***************************************************************************)
(* One row of the reply_outbox table and the UPDATE statements that touch  *)
(* it (dayu/host/reply_outbox_store.py, SQLiteReplyOutboxStore).  Every    *)
(* operator below is one SQL statement run inside write_transaction, hence *)
(* atomic: its WHERE clause as a predicate and its SET clause as a         *)
(* function from rows to rows.  A row may carry more fields than the ones  *)
(* named here; the SET clauses leave them alone.                           *)
(***************************************************************************)
EXTENDS Naturals

CONSTANTS Leases,   \* fence tokens, uuid4 strings in the code
          NoLease   \* the SQL NULL in column lease_id

ASSUME NoLeaseIsNoLease == NoLease \notin Leases

(* ReplyOutboxState, plus "absent" for a delivery_id without a row. *)
OutboxState == {"absent", "pending_delivery", "delivery_in_progress",
                "delivered", "failed_retryable", "failed_terminal"}

(* last_error_message, abstracted to who wrote it: nobody, the sender's
   nack, or the stale cleanup. *)
OutboxError == {"none", "send_error", "stale_recovery"}

Claimable == {"pending_delivery", "failed_retryable"}

Present(r) == r.state # "absent"

-----------------------------------------------------------------------------
(* claim_reply: WHERE state IN (PENDING_DELIVERY, FAILED_RETRYABLE). *)
CanClaimUnsettled(r) == r.state \in Claimable \cup {"delivery_in_progress"}
CanClaim(r) == r.state \in Claimable

(* claim_reply: a fresh lease, one more attempt, updated_at refreshed. *)
ClaimedRow(r, l) == [r EXCEPT !.state = "delivery_in_progress",
                              !.attempts = @ + 1,
                              !.error = "none",
                              !.old = FALSE,
                              !.lease = l]

(* mark_delivered: WHERE state = DELIVERY_IN_PROGRESS AND lease_id = ?. *)
CanDeliver(r, l) == r.state = "delivery_in_progress" /\ r.lease = l

DeliveredRow(r) == [r EXCEPT !.state = "delivered",
                             !.error = "none",
                             !.old = FALSE]

(* mark_failed: WHERE state != DELIVERED AND lease_id = ?. *)
CanFail(r, l) == Present(r) /\ r.state # "delivered" /\ r.lease = l

FailedRowKeepsLease(r, retryable) ==
    [r EXCEPT !.state = IF retryable THEN "failed_retryable" ELSE "failed_terminal",
              !.error = "send_error",
              !.old = FALSE]

(* mark_failed: a retryable failure clears the lease, a terminal one keeps
   it. *)
FailedRow(r, retryable) ==
    [r EXCEPT !.state = IF retryable THEN "failed_retryable" ELSE "failed_terminal",
              !.error = "send_error",
              !.old = FALSE,
              !.lease = IF retryable THEN NoLease ELSE @]

(* cleanup_stale_in_progress_deliveries, the SELECT: in progress and not
   updated for max_age. *)
IsStaleCandidate(r) == r.state = "delivery_in_progress" /\ r.old

(* ... and the WHERE of its later UPDATE, which looks at the state only. *)
CanSweep(r) == r.state = "delivery_in_progress"

SweptRow(r) == [r EXCEPT !.state = "failed_retryable",
                         !.error = "stale_recovery",
                         !.old = FALSE,
                         !.lease = NoLease]

(* README 7.3 "lease_id": a lease is held exactly in the states that still
   have, or finally had, an owner. *)
LeaseHeldIn == {"delivery_in_progress", "delivered", "failed_terminal"}
=============================================================================
