---------------------------- MODULE ReplyOutbox ----------------------------
(***************************************************************************)
(* SQLiteReplyOutboxStore under concurrent callers.                        *)
(*                                                                         *)
(* Callers are threads of any process that shares the Host database: web   *)
(* request handlers, the WeChat daemon's tasks, the admin cleanup.  A      *)
(* store method is a few steps of one caller: reads outside a transaction, *)
(* one write transaction, and a read back.  Steps of different callers     *)
(* interleave; between two steps a caller may crash.                       *)
(*                                                                         *)
(* A lease is readable by everybody (ReplyDeliveryView.lease_id is part of *)
(* every list and get), and HTTP clients repeat requests, so ack and nack  *)
(* are issued by any caller with any lease handed out so far.              *)
(***************************************************************************)
EXTENDS OutboxRows, FiniteSets

CONSTANTS Ids,       \* delivery_id values, uuid based: never reused
          Keys,      \* delivery_key values
          Payloads,  \* everything _ensure_submit_request_matches compares
          Callers,   \* threads that call the store
          None       \* no value

ASSUME NoneIsFresh == None \notin Ids \cup Keys \cup Payloads

VARIABLES rows,      \* the reply_outbox table, by delivery_id
          usedIds,   \* delivery_ids generated so far
          usedLeases,\* lease_ids generated so far
          accepting, \* the session of these replies is ACTIVE
          call,      \* the store call each caller is in
          outcome,   \* how the caller's last call ended
          acked      \* ghost: <<id, lease>> for which mark_delivered returned

vars == <<rows, usedIds, usedLeases, accepting, call, outcome, acked>>

-----------------------------------------------------------------------------
Row == [state: OutboxState, lease: Leases \cup {NoLease}, attempts: Nat,
        error: OutboxError, old: BOOLEAN,
        key: Keys \cup {None}, payload: Payloads \cup {None}]

AbsentRow == [state |-> "absent", lease |-> NoLease, attempts |-> 0,
              error |-> "none", old |-> FALSE, key |-> None, payload |-> None]

NewRow(k, p) == [AbsentRow EXCEPT !.state = "pending_delivery", !.key = k, !.payload = p]

Steps == {"idle", "submit_insert", "submit_lookup", "submit_read", "claim_read",
          "ack_update", "ack_read", "nack_update", "nack_read", "sweep_update"}

(* Locals of a store method: the row it works on, the lease it passes or
   generated, mark_failed's retryable, whether its UPDATE hit a row
   (rowcount), cleanup's candidate ids, submit's request. *)
Call == [step: Steps, id: Ids \cup {None}, lease: Leases \cup {NoLease},
         retryable: BOOLEAN, hit: BOOLEAN, candidates: SUBSET Ids,
         key: Keys \cup {None}, payload: Payloads \cup {None}]

Idle == [step |-> "idle", id |-> None, lease |-> NoLease, retryable |-> FALSE,
         hit |-> FALSE, candidates |-> {}, key |-> None, payload |-> None]

Outcomes == {"none", "ok", "KeyError", "ValueError", "LeaseExpiredError",
             "RuntimeError", "DeliveryKeyConflictError", "SessionError"}

Init == /\ rows = [d \in Ids |-> AbsentRow]
        /\ usedIds = {}
        /\ usedLeases = {}
        /\ accepting = TRUE
        /\ call = [c \in Callers |-> Idle]
        /\ outcome = [c \in Callers |-> "none"]
        /\ acked = {}

-----------------------------------------------------------------------------
(* Control of a call *)

Enter(c, frame) == /\ call[c] = Idle
                   /\ call' = [call EXCEPT ![c] = frame]
                   /\ outcome' = [outcome EXCEPT ![c] = "none"]

Continue(c, frame) == /\ call' = [call EXCEPT ![c] = frame]
                      /\ UNCHANGED outcome

Return(c, result) == /\ call' = [call EXCEPT ![c] = Idle]
                     /\ outcome' = [outcome EXCEPT ![c] = result]

RowOfKey(k) == {d \in Ids : Present(rows[d]) /\ rows[d].key = k}

-----------------------------------------------------------------------------
(* submit_reply *)

(* ensure_session_active: read before, and outside, the insert's
   transaction. *)
SubmitCheck(c, k, p) ==
    /\ call[c] = Idle
    /\ IF accepting
       THEN Enter(c, [Idle EXCEPT !.step = "submit_insert", !.key = k, !.payload = p])
       ELSE Return(c, "SessionError")
    /\ UNCHANGED <<rows, usedIds, usedLeases, accepting, acked>>

(* INSERT OR IGNORE: the UNIQUE index on delivery_key decides. *)
InsertsAlways(k) == TRUE
InsertsRow(k) == RowOfKey(k) = {}

SubmitInsert(c) ==
    /\ call[c].step = "submit_insert"
    /\ \/ /\ InsertsRow(call[c].key)
          /\ \E d \in Ids \ usedIds :
              /\ usedIds' = usedIds \cup {d}
              /\ rows' = [rows EXCEPT ![d] = NewRow(call[c].key, call[c].payload)]
              /\ Continue(c, [call[c] EXCEPT !.step = "submit_read", !.id = d])
       \/ /\ ~InsertsRow(call[c].key)
          /\ UNCHANGED <<rows, usedIds>>
          /\ Continue(c, [call[c] EXCEPT !.step = "submit_lookup"])
    /\ UNCHANGED <<usedLeases, accepting, acked>>

(* rowcount = 1: read the created row back. *)
SubmitRead(c) ==
    /\ call[c].step = "submit_read"
    /\ Return(c, IF Present(rows[call[c].id]) THEN "ok" ELSE "RuntimeError")
    /\ UNCHANGED <<rows, usedIds, usedLeases, accepting, acked>>

(* rowcount = 0: read the row of the key, compare the payloads. *)
SubmitLookup(c) ==
    /\ call[c].step = "submit_lookup"
    /\ \/ /\ RowOfKey(call[c].key) = {}
          /\ Return(c, "RuntimeError")
       \/ \E d \in RowOfKey(call[c].key) :
             Return(c, IF rows[d].payload = call[c].payload
                       THEN "ok" ELSE "DeliveryKeyConflictError")
    /\ UNCHANGED <<rows, usedIds, usedLeases, accepting, acked>>

-----------------------------------------------------------------------------
(* claim_reply *)

(* generate_lease_id. *)
ReusableLeases == Leases
FreshLeases == Leases \ usedLeases

ClaimUpdate(c, d) ==
    /\ \/ /\ CanClaim(rows[d])
          /\ \E l \in FreshLeases :
              /\ usedLeases' = usedLeases \cup {l}
              /\ rows' = [rows EXCEPT ![d] = ClaimedRow(rows[d], l)]
              /\ Enter(c, [Idle EXCEPT !.step = "claim_read", !.id = d,
                                       !.lease = l, !.hit = TRUE])
       \/ /\ ~CanClaim(rows[d])
          /\ UNCHANGED <<rows, usedLeases>>
          /\ Enter(c, [Idle EXCEPT !.step = "claim_read", !.id = d])
    /\ UNCHANGED <<usedIds, accepting, acked>>

(* The record returned to the caller is read after the commit. *)
ClaimRead(c) ==
    LET d == call[c].id IN
    /\ call[c].step = "claim_read"
    /\ Return(c, CASE ~Present(rows[d]) /\ ~call[c].hit -> "KeyError"
                   [] ~Present(rows[d]) /\ call[c].hit  -> "RuntimeError"
                   [] Present(rows[d]) /\ ~call[c].hit  -> "ValueError"
                   [] Present(rows[d]) /\ call[c].hit   -> "ok")
    /\ UNCHANGED <<rows, usedIds, usedLeases, accepting, acked>>

-----------------------------------------------------------------------------
(* mark_delivered *)

(* A final row answers with the holder's own outcome only to its lease. *)
LeaseAnswer(d, l) == IF rows[d].lease = l THEN "ok" ELSE "LeaseExpiredError"

(* Ghost: the caller was told that its lease delivered the reply. *)
RecordAck(d, l, result) ==
    acked' = IF result = "ok" THEN acked \cup {<<d, l>>} ELSE acked

AckCheck(c, d, l) ==
    /\ call[c] = Idle
    /\ \/ /\ ~Present(rows[d])
          /\ Return(c, "KeyError") /\ UNCHANGED acked
       \/ /\ rows[d].state = "delivered"
          /\ Return(c, LeaseAnswer(d, l)) /\ RecordAck(d, l, LeaseAnswer(d, l))
       \/ /\ Present(rows[d]) /\ rows[d].state # "delivered"
          /\ Enter(c, [Idle EXCEPT !.step = "ack_update", !.id = d, !.lease = l])
          /\ UNCHANGED acked
    /\ UNCHANGED <<rows, usedIds, usedLeases, accepting>>

AckUpdate(c) ==
    LET d == call[c].id
        hit == CanDeliver(rows[d], call[c].lease)
    IN  /\ call[c].step = "ack_update"
        /\ rows' = IF hit THEN [rows EXCEPT ![d] = DeliveredRow(rows[d])] ELSE rows
        /\ Continue(c, [call[c] EXCEPT !.step = "ack_read", !.hit = hit])
        /\ UNCHANGED <<usedIds, usedLeases, accepting, acked>>

(* The read back that explains rowcount = 0. *)
AckOutcome(r, l, hit) ==
    CASE ~Present(r)                      -> "RuntimeError"
      [] Present(r) /\ hit                -> "ok"
      [] r.state = "delivered" /\ ~hit    -> IF r.lease = l THEN "ok" ELSE "LeaseExpiredError"
      [] r.state = "delivery_in_progress" /\ ~hit -> "LeaseExpiredError"
      [] OTHER                            -> "ValueError"

AckRead(c) ==
    LET d == call[c].id
        result == AckOutcome(rows[d], call[c].lease, call[c].hit)
    IN  /\ call[c].step = "ack_read"
        /\ Return(c, result)
        /\ RecordAck(d, call[c].lease, result)
        /\ UNCHANGED <<rows, usedIds, usedLeases, accepting>>

-----------------------------------------------------------------------------
(* mark_failed *)

NackCheck(c, d, l, retryable) ==
    /\ call[c] = Idle
    /\ \/ ~Present(rows[d]) /\ Return(c, "KeyError")
       \/ rows[d].state = "delivered" /\ Return(c, "ValueError")
       \/ rows[d].state = "failed_terminal" /\ Return(c, LeaseAnswer(d, l))
       \/ /\ Present(rows[d]) /\ rows[d].state \notin {"delivered", "failed_terminal"}
          /\ \/ Return(c, "ValueError")    \* _normalize_text: the error message is empty
             \/ Enter(c, [Idle EXCEPT !.step = "nack_update", !.id = d, !.lease = l,
                                      !.retryable = retryable])
    /\ UNCHANGED <<rows, usedIds, usedLeases, accepting, acked>>

NackUpdate(c) ==
    LET d == call[c].id
        hit == CanFail(rows[d], call[c].lease)
    IN  /\ call[c].step = "nack_update"
        /\ rows' = IF hit THEN [rows EXCEPT ![d] = FailedRow(rows[d], call[c].retryable)]
                   ELSE rows
        /\ Continue(c, [call[c] EXCEPT !.step = "nack_read", !.hit = hit])
        /\ UNCHANGED <<usedIds, usedLeases, accepting, acked>>

NackOutcome(r, l, hit) ==
    CASE hit /\ Present(r)                -> "ok"
      [] hit /\ ~Present(r)               -> "RuntimeError"
      [] ~hit /\ r.state = "delivered"    -> "ValueError"
      [] ~hit /\ r.state = "failed_terminal" /\ r.lease = l -> "ok"
      [] OTHER                            -> "LeaseExpiredError"

NackRead(c) ==
    /\ call[c].step = "nack_read"
    /\ Return(c, NackOutcome(rows[call[c].id], call[c].lease, call[c].hit))
    /\ UNCHANGED <<rows, usedIds, usedLeases, accepting, acked>>

-----------------------------------------------------------------------------
(* cleanup_stale_in_progress_deliveries *)

SweepSelect(c) ==
    LET stale == {d \in Ids : IsStaleCandidate(rows[d])}
    IN  /\ IF stale = {}
           THEN call[c] = Idle /\ Return(c, "ok")
           ELSE Enter(c, [Idle EXCEPT !.step = "sweep_update", !.candidates = stale])
        /\ UNCHANGED <<rows, usedIds, usedLeases, accepting, acked>>

SweepUpdate(c) ==
    /\ call[c].step = "sweep_update"
    /\ rows' = [d \in Ids |-> IF d \in call[c].candidates /\ CanSweep(rows[d])
                              THEN SweptRow(rows[d]) ELSE rows[d]]
    /\ Return(c, "ok")
    /\ UNCHANGED <<usedIds, usedLeases, accepting, acked>>

-----------------------------------------------------------------------------
(* The environment *)

(* cancel_session closes the session, clear_session_history suspends it;
   either then deletes its replies, and the second reactivates it. *)
SessionToggles ==
    /\ accepting' = ~accepting
    /\ UNCHANGED <<rows, usedIds, usedLeases, call, outcome, acked>>

DeleteBySessionId ==
    /\ ~accepting
    /\ rows' = [d \in Ids |-> AbsentRow]
    /\ UNCHANGED <<usedIds, usedLeases, accepting, call, outcome, acked>>

(* max_age goes by without an update of a row that is being delivered. *)
Grows(d) ==
    /\ rows[d].state = "delivery_in_progress" /\ ~rows[d].old
    /\ rows' = [rows EXCEPT ![d].old = TRUE]
    /\ UNCHANGED <<usedIds, usedLeases, accepting, call, outcome, acked>>

(* The caller's process dies between two steps of a call. *)
Crash(c) ==
    /\ call[c] # Idle
    /\ Return(c, "none")
    /\ UNCHANGED <<rows, usedIds, usedLeases, accepting, acked>>

CallerStep(c) ==
    \/ \E k \in Keys, p \in Payloads : SubmitCheck(c, k, p)
    \/ SubmitInsert(c) \/ SubmitRead(c) \/ SubmitLookup(c)
    \/ \E d \in usedIds : ClaimUpdate(c, d)
    \/ ClaimRead(c)
    \/ \E d \in usedIds, l \in usedLeases : AckCheck(c, d, l)
    \/ AckUpdate(c) \/ AckRead(c)
    \/ \E d \in usedIds, l \in usedLeases, retryable \in BOOLEAN : NackCheck(c, d, l, retryable)
    \/ NackUpdate(c) \/ NackRead(c)
    \/ SweepSelect(c) \/ SweepUpdate(c)
    \/ Crash(c)

Next == \/ \E c \in Callers : CallerStep(c)
        \/ SessionToggles \/ DeleteBySessionId
        \/ \E d \in Ids : Grows(d)

Spec == Init /\ [][Next]_vars

-----------------------------------------------------------------------------
(* Every variable keeps its type; the tokens in use have been generated. *)
TypeOK == /\ rows \in [Ids -> Row]
          /\ usedIds \in SUBSET Ids
          /\ usedLeases \in SUBSET Leases
          /\ accepting \in BOOLEAN
          /\ call \in [Callers -> Call]
          /\ outcome \in [Callers -> Outcomes]
          /\ acked \in SUBSET (Ids \X Leases)

(* README 7.3, "lease_id boundary": whatever calls race, a row has a lease
   exactly while it is being delivered or after it ended (delivered,
   failed_terminal); a row waiting for a claim has none, so no earlier holder
   can still touch it. *)
LeaseContract ==
    \A d \in Ids : (rows[d].lease # NoLease) <=> (rows[d].state \in LeaseHeldIn)

(* A caller that mark_delivered told "delivered" was told the truth for
   good: no nack, claim or cleanup, however late, takes the row of an
   acknowledged delivery out of DELIVERED or gives it another lease. *)
AckedIsDurable ==
    \A a \in acked : \/ rows[a[1]].state = "absent"
                      \/ /\ rows[a[1]].state = "delivered"
                         /\ rows[a[1]].lease = a[2]

(* Fencing: a lease a row has lost, or never had, is not given to it later,
   so a holder that lost its lease stays locked out. *)
LostLeaseStaysLost ==
    [][\A d \in Ids, l \in usedLeases :
          rows[d].lease # l => rows'[d].lease # l]_vars

(* The abstract ledger this store implements: a row in any state but
   absent and delivered is an open entry. *)
LedgerStatus(d) ==
    IF rows[d].state = "absent" THEN IF d \in usedIds THEN "gone" ELSE "unused"
    ELSE IF rows[d].state = "delivered" THEN "delivered" ELSE "open"

Ledger == INSTANCE DeliveryLedger WITH
             entries <- [d \in Ids |-> [status |-> LedgerStatus(d),
                                        key |-> rows[d].key,
                                        payload |-> rows[d].payload]]

(* submit_reply is idempotent per key, delivered is final, and nothing but
   the deletion of the session's replies removes a row: the store, with all
   its races, implements the ledger. *)
ImplementsLedger == Ledger!Spec

=============================================================================
