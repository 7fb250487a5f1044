--------------------------- MODULE WechatDelivery ---------------------------
(***************************************************************************)
(* The WeChat daemons (dayu/wechat/daemon.py) that take replies out of the *)
(* reply outbox and send them.  A daemon is a process with one asyncio     *)
(* loop: several delivery tasks run in it (the background scan, and one    *)
(* per inbound chat group), and switch only where they await the send.     *)
(* Store calls are synchronous, so each is one step here; their inner      *)
(* races are the subject of ReplyOutbox.  Another process may run the      *)
(* stale cleanup (host cleanup), which selects and updates in two steps.   *)
(***************************************************************************)
EXTENDS OutboxRows, FiniteSets

CONSTANTS Replies,      \* replies, one delivery record each
          Daemons,      \* daemon processes
          Labels,       \* --label: a state_dir, an account, an identity
          LabelOf,      \* the label each daemon process runs for
          Tasks,        \* delivery tasks of a daemon
          MaxAttempts,  \* config.delivery_max_attempts
          MaxCrashes,   \* bound: daemon deaths in a behaviour
          MaxSweeps     \* bound: stale cleanups in a behaviour

ASSUME MaxAttemptsIsPositive == MaxAttempts \in Nat \ {0}
ASSUME LeasesAreNumbers == Leases = Nat
ASSUME LabelOfIsTotal == LabelOf \in [Daemons -> Labels]

VARIABLES rows,        \* the outbox rows; label is wechat_runtime_identity
          process,     \* "down", "recovering" or "running", by daemon
          interrupted, \* rows and leases the starting daemon found in progress
          task,        \* the delivery tasks of each daemon
          sweep,       \* ids the cleanup selected and has not updated yet
          sent,        \* ghost: how often each reply reached the user
          disturbed,   \* ghost: replies hit by a crash, a cleanup, a send without
                       \* an answer or a store error
          parked,      \* ghost: replies left in delivery by a failure without words
          crashes, sweeps

ghosts == <<sent, disturbed, parked>>
vars == <<rows, process, interrupted, task, sweep, ghosts, crashes, sweeps>>

-----------------------------------------------------------------------------
(* A claim takes the next attempt number, so the number names the lease. *)
NextLease(r) == r.attempts + 1

Row == [state: OutboxState, lease: Leases \cup {NoLease}, attempts: Nat,
        error: OutboxError, old: BOOLEAN, label: Labels, addressed: BOOLEAN]

(* "send": awaiting send_text_message; "reject": out of attempts or without
   an address; "ack" and "nack": the answer is back. *)
TaskStep == {"idle", "scan", "send", "reject", "ack", "nack"}

TaskState == [step: TaskStep, queue: SUBSET Replies, reply: Replies \cup {"none"},
              lease: Leases \cup {NoLease}, retryable: BOOLEAN]

IdleTask == [step |-> "idle", queue |-> {}, reply |-> "none",
             lease |-> NoLease, retryable |-> FALSE]

Init == /\ rows \in [Replies -> {[state |-> "absent", lease |-> NoLease, attempts |-> 0,
                                  error |-> "none", old |-> FALSE, label |-> l,
                                  addressed |-> FALSE] : l \in Labels}]
        /\ process = [d \in Daemons |-> "down"]
        /\ interrupted = [d \in Daemons |-> {}]
        /\ task = [d \in Daemons |-> [t \in Tasks |-> IdleTask]]
        /\ sweep = {}
        /\ sent = [r \in Replies |-> 0]
        /\ disturbed = {}
        /\ parked = {}
        /\ crashes = 0
        /\ sweeps = 0

SetTask(d, t, s) == task' = [task EXCEPT ![d][t] = s]

(* The record is finished with: go on with the rest of the scan. *)
NextRecord(d, t) ==
    SetTask(d, t, IF task[d][t].queue = {} THEN IdleTask
                  ELSE [IdleTask EXCEPT !.step = "scan", !.queue = task[d][t].queue])

(* A store call raised out of _deliver_pending_replies: the scan is over. *)
AbandonScan(d, t) == SetTask(d, t, IdleTask)

-----------------------------------------------------------------------------
(* _submit_reply_for_delivery, for the daemon's own account; the metadata may
   lack delivery_target or delivery_thread_id. *)
Submit(d, r) ==
    /\ process[d] = "running"
    /\ rows[r].state = "absent" /\ rows[r].label = LabelOf[d]
    /\ \E addressed \in BOOLEAN :
         rows' = [rows EXCEPT ![r].state = "pending_delivery", ![r].addressed = addressed]
    /\ UNCHANGED <<process, interrupted, task, sweep, ghosts, crashes, sweeps>>

-----------------------------------------------------------------------------
(* run_forever up to the delivery loop *)

(* StateDirSingleInstanceLock: one live daemon per label. *)
LockFree(d) == \A e \in Daemons : LabelOf[e] = LabelOf[d] => process[e] = "down"

(* acquire the lock, then list the label's in-progress deliveries. *)
Interrupted(d) == {r \in Replies : /\ rows[r].state = "delivery_in_progress"
                                   /\ rows[r].label = LabelOf[d]}

Start(d) ==
    /\ process[d] = "down" /\ LockFree(d)
    /\ process' = [process EXCEPT ![d] = "recovering"]
    /\ interrupted' = [interrupted EXCEPT ![d] = {<<r, rows[r].lease>> : r \in Interrupted(d)}]
    /\ UNCHANGED <<rows, task, sweep, ghosts, crashes, sweeps>>

(* mark_delivery_failed with the lease that was listed; errors are logged. *)
RecoverOne(d) ==
    /\ process[d] = "recovering"
    /\ \E i \in interrupted[d] :
        /\ interrupted' = [interrupted EXCEPT ![d] = @ \ {i}]
        /\ IF CanFail(rows[i[1]], i[2]) /\ rows[i[1]].state # "failed_terminal"
           THEN /\ rows' = [rows EXCEPT ![i[1]] = FailedRow(rows[i[1]], TRUE)]
                /\ parked' = parked \ {i[1]}
           ELSE UNCHANGED <<rows, parked>>
    /\ UNCHANGED <<process, task, sweep, sent, disturbed, crashes, sweeps>>

FinishRecovery(d) ==
    /\ process[d] = "recovering" /\ interrupted[d] = {}
    /\ process' = [process EXCEPT ![d] = "running"]
    /\ UNCHANGED <<rows, interrupted, task, sweep, ghosts, crashes, sweeps>>

-----------------------------------------------------------------------------
(* _deliver_pending_replies *)

(* list_deliveries filters by scene and state, not by identity. *)
PendingOnly == {r \in Replies : rows[r].state = "pending_delivery"}
Deliverable == {r \in Replies : rows[r].state \in Claimable}

Scan(d, t) ==
    /\ process[d] = "running" /\ task[d][t].step = "idle" /\ Deliverable # {}
    /\ SetTask(d, t, [IdleTask EXCEPT !.step = "scan", !.queue = Deliverable])
    /\ UNCHANGED <<rows, process, interrupted, sweep, ghosts, crashes, sweeps>>

(* claimed.delivery_attempt_count > delivery_max_attempts. *)
NeverExhausted(r) == FALSE
Exhausted(r) == r.attempts > MaxAttempts

(* Out of attempts, or without a delivery_target: fail it; else send it. *)
AcksBeforeSending(r) == IF Exhausted(r) \/ ~r.addressed THEN "reject" ELSE "ack"
FirstStep(r) == IF Exhausted(r) \/ ~r.addressed THEN "reject" ELSE "send"

ClaimNext(d, t) ==
    /\ task[d][t].step = "scan"
    /\ \E r \in task[d][t].queue :
        LET rest == task[d][t].queue \ {r}
            claimed == ClaimedRow(rows[r], NextLease(rows[r]))
        IN  \/ /\ CanClaim(rows[r])
               /\ rows' = [rows EXCEPT ![r] = claimed]
               /\ SetTask(d, t, [step |-> FirstStep(claimed), queue |-> rest, reply |-> r,
                                 lease |-> claimed.lease, retryable |-> FALSE])
            \/ /\ ~CanClaim(rows[r])
               /\ SetTask(d, t, IF rest = {} THEN IdleTask
                                ELSE [task[d][t] EXCEPT !.queue = rest])
               /\ UNCHANGED rows
    /\ UNCHANGED <<process, interrupted, sweep, ghosts, crashes, sweeps>>

(* send_text_message returned: the message reached the user. *)
SendSucceeds(d, t) ==
    /\ task[d][t].step = "send"
    /\ sent' = [sent EXCEPT ![task[d][t].reply] = @ + 1]
    /\ SetTask(d, t, [task[d][t] EXCEPT !.step = "ack"])
    /\ UNCHANGED <<rows, process, interrupted, sweep, disturbed, parked, crashes, sweeps>>

(* mark_delivery_failed; raising ends the scan. *)
MarkFailed(d, t, retryable) ==
    LET r == task[d][t].reply IN
    \/ /\ CanFail(rows[r], task[d][t].lease)
       /\ rows' = [rows EXCEPT ![r] = FailedRow(rows[r], retryable)]
       /\ NextRecord(d, t)
    \/ /\ ~CanFail(rows[r], task[d][t].lease)
       /\ AbandonScan(d, t)
       /\ UNCHANGED rows

(* mark_delivery_failed with an empty error message: it raises before it
   touches the row, which stays in delivery with a lease nobody knows. *)
MarkFailedWordless(d, t) ==
    LET r == task[d][t].reply IN
    /\ AbandonScan(d, t)
    /\ parked' = IF CanFail(rows[r], task[d][t].lease) THEN parked \cup {r} ELSE parked
    /\ UNCHANGED rows

(* The send raises: the except clause runs on to its nack without an await,
   so that both are one step; what another process does between them it may
   as well do before. *)

(* ret # 0, or a 4xx status: iLink has answered that it refuses the message. *)
SendRefused(d, t) ==
    /\ task[d][t].step = "send"
    /\ MarkFailed(d, t, FALSE)
    /\ UNCHANGED <<process, interrupted, sweep, ghosts, crashes, sweeps>>

(* No answer says whether the user has the message. *)
SendUnanswered(d, t) ==
    LET r == task[d][t].reply IN
    /\ task[d][t].step = "send"
    /\ \E arrived \in {0, 1} : sent' = [sent EXCEPT ![r] = @ + arrived]
    /\ disturbed' = disturbed \cup {r}
    /\ UNCHANGED <<process, interrupted, sweep, crashes, sweeps>>

(* A broken connection, a 5xx status, a body that is not JSON: _request_json
   makes an IlinkApiError of each, which is not retryable. *)
SendBroken(d, t) ==
    SendUnanswered(d, t) /\ MarkFailed(d, t, FALSE) /\ UNCHANGED parked

(* httpx.TimeoutException is raised as it is: retryable, and mostly without
   a text for the nack. *)
SendTimesOut(d, t) ==
    /\ SendUnanswered(d, t)
    /\ \/ MarkFailed(d, t, TRUE) /\ UNCHANGED parked
       \/ MarkFailedWordless(d, t)

(* mark_delivery_delivered; when it raises, the except clause nacks.  The
   ValueError of a row that is no longer in progress is not retryable, a
   LeaseExpiredError is. *)
Ack(d, t) ==
    LET r == task[d][t].reply IN
    /\ task[d][t].step = "ack"
    /\ \/ /\ CanDeliver(rows[r], task[d][t].lease)
          /\ rows' = [rows EXCEPT ![r] = DeliveredRow(rows[r])]
          /\ NextRecord(d, t)
       \/ /\ ~CanDeliver(rows[r], task[d][t].lease)
          /\ SetTask(d, t, [task[d][t] EXCEPT
                              !.step = "nack",
                              !.retryable = rows[r].state \in {"delivery_in_progress",
                                                               "delivered"}])
          /\ UNCHANGED rows
    /\ UNCHANGED <<process, interrupted, sweep, ghosts, crashes, sweeps>>

(* The store itself raises in mark_delivery_delivered (a locked database):
   the message has been sent, and is nacked to be sent again. *)
AckRaises(d, t) ==
    /\ task[d][t].step = "ack"
    /\ disturbed' = disturbed \cup {task[d][t].reply}
    /\ SetTask(d, t, [task[d][t] EXCEPT !.step = "nack", !.retryable = TRUE])
    /\ UNCHANGED <<rows, process, interrupted, sweep, sent, parked, crashes, sweeps>>

(* The nack of a failed ack, or of a reply that is not sent at all. *)
Nack(d, t) ==
    /\ task[d][t].step \in {"nack", "reject"}
    /\ MarkFailed(d, t, task[d][t].retryable)
    /\ UNCHANGED <<process, interrupted, sweep, ghosts, crashes, sweeps>>

-----------------------------------------------------------------------------
(* The environment *)

(* The process dies, or run_forever is cancelled: every task is gone where
   it stood (asyncio.CancelledError is not caught around the send). *)
Crash(d) ==
    /\ process[d] # "down" /\ crashes < MaxCrashes
    /\ process' = [process EXCEPT ![d] = "down"]
    /\ interrupted' = [interrupted EXCEPT ![d] = {}]
    /\ task' = [task EXCEPT ![d] = [t \in Tasks |-> IdleTask]]
    /\ disturbed' = disturbed \cup {task[d][t].reply : t \in {u \in Tasks :
                                       task[d][u].step \notin {"idle", "scan"}}}
    /\ crashes' = crashes + 1
    /\ UNCHANGED <<rows, sweep, sent, parked, sweeps>>

Grows(r) ==
    /\ rows[r].state = "delivery_in_progress" /\ ~rows[r].old /\ sweeps < MaxSweeps
    /\ rows' = [rows EXCEPT ![r].old = TRUE]
    /\ UNCHANGED <<process, interrupted, task, sweep, ghosts, crashes, sweeps>>

SweepSelect ==
    /\ sweep = {} /\ sweeps < MaxSweeps
    /\ \E r \in Replies : IsStaleCandidate(rows[r])
    /\ sweep' = {r \in Replies : IsStaleCandidate(rows[r])}
    /\ sweeps' = sweeps + 1
    /\ UNCHANGED <<rows, process, interrupted, task, ghosts, crashes>>

SweepUpdate ==
    /\ sweep # {}
    /\ rows' = [r \in Replies |-> IF r \in sweep /\ CanSweep(rows[r])
                                  THEN SweptRow(rows[r]) ELSE rows[r]]
    /\ disturbed' = disturbed \cup sweep
    /\ parked' = parked \ sweep
    /\ sweep' = {}
    /\ UNCHANGED <<process, interrupted, task, sent, crashes, sweeps>>

TaskStepOf(d, t) ==
    \/ Scan(d, t) \/ ClaimNext(d, t)
    \/ SendSucceeds(d, t) \/ SendRefused(d, t) \/ SendBroken(d, t) \/ SendTimesOut(d, t)
    \/ Ack(d, t) \/ AckRaises(d, t) \/ Nack(d, t)

Recovery(d) == RecoverOne(d) \/ FinishRecovery(d)

Next == \/ \E d \in Daemons, r \in Replies : Submit(d, r)
        \/ \E d \in Daemons : Start(d) \/ Recovery(d) \/ Crash(d)
        \/ \E d \in Daemons, t \in Tasks : TaskStepOf(d, t)
        \/ \E r \in Replies : Grows(r)
        \/ SweepSelect \/ SweepUpdate

Spec == Init /\ [][Next]_vars

(* The event loop runs every ready task, sends time out (httpx.Timeout), the
   background scan repeats; nothing restarts a dead daemon (Restart=no). *)
Fairness == /\ \A d \in Daemons : WF_vars(Recovery(d))
            /\ \A d \in Daemons, t \in Tasks : WF_vars(TaskStepOf(d, t))

FairSpec == Spec /\ Fairness

-----------------------------------------------------------------------------
(* Every variable keeps its type. *)
TypeOK ==
    /\ rows \in [Replies -> Row]
    /\ process \in [Daemons -> {"down", "recovering", "running"}]
    /\ interrupted \in [Daemons -> SUBSET (Replies \X Leases)]
    /\ task \in [Daemons -> [Tasks -> TaskState]]
    /\ sweep \subseteq Replies
    /\ sent \in [Replies -> Nat]
    /\ disturbed \subseteq Replies
    /\ parked \subseteq Replies

(* daemon.py 1535: DELIVERED is only written after the message reached the
   user, whichever of the racing tasks, daemons and cleanups wrote last. *)
DeliveredWasSent ==
    \A r \in Replies : rows[r].state = "delivered" => sent[r] >= 1

(* --delivery-max-attempts: no reply reaches the user more often, over all
   tasks, restarts and cleanups. *)
SendsAreBounded == \A r \in Replies : sent[r] <= MaxAttempts

(* README.md 387, "label": unless its delivery was cut off by a crash, a stale
   cleanup or a store error, or a send of it got no answer, a reply reaches the
   user at most once, however many tasks and processes of the label compete
   for it. *)
OneSendWhenUndisturbed ==
    \A r \in Replies : r \notin disturbed => sent[r] <= 1

(* A terminal failure is never declared over a message that reached the user,
   unless a crash, a cleanup or a store error met the reply or one of its sends
   got no answer: what the daemon was told, by iLink and by the store, is what
   it writes. *)
NoFalseTerminal ==
    \A r \in Replies : rows[r].state = "failed_terminal" /\ r \notin disturbed
                           => sent[r] = 0

Settled(r) == rows[r].state \in {"delivered", "failed_terminal"}

(* While a daemon runs, a reply waiting in the outbox is eventually sent or
   given up: nacks, lost leases, abandoned scans, cleanups and crashes of
   others never keep it for good.  The one thing that does is a failure
   without words, which leaves the reply in delivery until a cleanup or the
   next start of the daemon finds it. *)
WaitingReplySettles ==
    \A r \in Replies : rows[r].state \in Claimable
                           ~> (Settled(r) \/ r \in parked
                                 \/ \A d \in Daemons : process[d] # "running")

(* README.md 618: daemons with different labels, each logged in by another
   account, run side by side; a reply is sent by the account it belongs to. *)
SentByItsLabel ==
    \A d \in Daemons, t \in Tasks :
        task[d][t].step = "send" => rows[task[d][t].reply].label = LabelOf[d]
=============================================================================
