----------------------- MODULE WechatDelivery_proofs -----------------------
(***************************************************************************)
(* Proofs about WechatDelivery, for every number of daemons, tasks,        *)
(* replies, attempts, crashes and cleanups: types, what DELIVERED means,   *)
(* the bound on sends, and what is promised for undisturbed replies.       *)
(***************************************************************************)
EXTENDS WechatDelivery, FiniteSetTheorems, TLAPS

Resting == {"idle", "scan"}

(* The task works on a reply it has claimed. *)
Holds(d, t, r) == task[d][t].step \notin Resting /\ task[d][t].reply = r

TaskIsSound(d, t) ==
    /\ task[d][t].step \notin Resting => task[d][t].reply \in Replies
    /\ task[d][t].step = "ack" => sent[task[d][t].reply] >= 1

RowIsSound(r) ==
    /\ rows[r].state = "delivery_in_progress" => rows[r].lease \in Leases
    /\ rows[r].state = "delivered" => sent[r] >= 1

(* The inductive invariant of types and of DELIVERED. *)
IInv ==
    /\ TypeOK
    /\ \A d \in Daemons, t \in Tasks : TaskIsSound(d, t)
    /\ \A r \in Replies : RowIsSound(r)

-----------------------------------------------------------------------------
(* The SQL statements on one row *)

(* claim_reply's SET clause: in progress, one more attempt, its lease. *)
LEMMA ClaimedRowFacts ==
    ASSUME NEW r \in Row
    PROVE  /\ ClaimedRow(r, NextLease(r)) \in Row
           /\ ClaimedRow(r, NextLease(r)).state = "delivery_in_progress"
           /\ ClaimedRow(r, NextLease(r)).attempts = r.attempts + 1
           /\ ClaimedRow(r, NextLease(r)).lease = r.attempts + 1
           /\ r.attempts + 1 \in Leases
<1>1. r.attempts \in Nat /\ r.attempts + 1 \in Nat /\ r.attempts + 1 \in Leases
  BY LeasesAreNumbers DEF Row
<1>2. ClaimedRow(r, NextLease(r)) = [r EXCEPT !.state = "delivery_in_progress",
                                   !.attempts = r.attempts + 1, !.error = "none",
                                   !.old = FALSE, !.lease = r.attempts + 1]
  BY DEF ClaimedRow, NextLease, Row
<1>3. ClaimedRow(r, NextLease(r)) \in Row
  BY <1>1, <1>2 DEF Row, OutboxState, OutboxError
<1>4. QED
  BY <1>1, <1>2, <1>3 DEF Row

(* mark_delivered's SET clause. *)
LEMMA DeliveredRowFacts ==
    ASSUME NEW r \in Row
    PROVE  /\ DeliveredRow(r) \in Row
           /\ DeliveredRow(r).state = "delivered"
           /\ DeliveredRow(r).attempts = r.attempts
  BY DEF DeliveredRow, Row, OutboxState, OutboxError

(* mark_failed's SET clause. *)
LEMMA FailedRowFacts ==
    ASSUME NEW r \in Row, NEW b \in BOOLEAN
    PROVE  /\ FailedRow(r, b) \in Row
           /\ FailedRow(r, b).state \in {"failed_retryable", "failed_terminal"}
           /\ FailedRow(r, b).attempts = r.attempts
  BY DEF FailedRow, Row, OutboxState, OutboxError

(* The stale cleanup's SET clause. *)
LEMMA SweptRowFacts ==
    ASSUME NEW r \in Row
    PROVE  /\ SweptRow(r) \in Row
           /\ SweptRow(r).state = "failed_retryable"
           /\ SweptRow(r).attempts = r.attempts
  BY DEF SweptRow, Row, OutboxState, OutboxError

-----------------------------------------------------------------------------
(* Steps of a task *)

(* What SetTask does to the tasks. *)
LEMMA TaskMoves ==
    ASSUME TypeOK, NEW d \in Daemons, NEW t \in Tasks, NEW s \in TaskState, SetTask(d, t, s)
    PROVE  /\ task' \in [Daemons -> [Tasks -> TaskState]]
           /\ task'[d][t] = s
           /\ \A e \in Daemons, u \in Tasks : e # d \/ u # t => task'[e][u] = task[e][u]
  BY DEF TypeOK, SetTask

(* A task that has done with a record rests. *)
LEMMA Rests ==
    ASSUME TypeOK, NEW d \in Daemons, NEW t \in Tasks
    PROVE  /\ IdleTask \in TaskState /\ IdleTask.step \in Resting
           /\ NextRecord(d, t) => \E s \in TaskState : s.step \in Resting /\ SetTask(d, t, s)
           /\ AbandonScan(d, t) => \E s \in TaskState : s.step \in Resting /\ SetTask(d, t, s)
<1>1. IdleTask \in TaskState /\ IdleTask.step \in Resting
  BY DEF IdleTask, TaskState, TaskStep, Resting
<1>2. task[d][t] \in TaskState
  BY DEF TypeOK
<1>3. task[d][t].queue \subseteq Replies
  BY <1>2 DEF TaskState
<1>4. [IdleTask EXCEPT !.step = "scan", !.queue = task[d][t].queue] \in TaskState
  BY <1>3 DEF IdleTask, TaskState, TaskStep
<1>5. [IdleTask EXCEPT !.step = "scan", !.queue = task[d][t].queue].step \in Resting
  BY DEF IdleTask, Resting
<1>6. QED
  BY <1>1, <1>4, <1>5 DEF NextRecord, AbandonScan

(* What a claim does, in the terms the invariants use: the task rests on,  *)
(* or it holds the row it has claimed.                                     *)
LEMMA ClaimFacts ==
    ASSUME TypeOK, NEW d \in Daemons, NEW t \in Tasks, ClaimNext(d, t)
    PROVE  /\ task[d][t].step \in Resting
           /\ \E s \in TaskState :
                /\ SetTask(d, t, s)
                /\ \/ s.step \in Resting /\ rows' = rows
                   \/ \E r \in Replies :
                        /\ CanClaim(rows[r])
                        /\ rows' = [rows EXCEPT ![r] = ClaimedRow(rows[r], NextLease(rows[r]))]
                        /\ s.step \in {"send", "reject"} /\ s.reply = r
                        /\ s.lease = rows[r].attempts + 1
                        /\ s.step = "send" => rows[r].attempts + 1 <= MaxAttempts
<1>1. PICK r \in task[d][t].queue :
        LET rest == task[d][t].queue \ {r}
            claimed == ClaimedRow(rows[r], NextLease(rows[r]))
        IN  \/ /\ CanClaim(rows[r])
               /\ rows' = [rows EXCEPT ![r] = claimed]
               /\ SetTask(d, t, [step |-> FirstStep(claimed), queue |-> rest, reply |-> r,
                                 lease |-> claimed.lease, retryable |-> FALSE])
            \/ /\ ~CanClaim(rows[r])
               /\ SetTask(d, t, IF rest = {} THEN IdleTask
                                ELSE [task[d][t] EXCEPT !.queue = rest])
               /\ UNCHANGED rows
  BY DEF ClaimNext
<1>2. task[d][t] \in TaskState /\ task[d][t].step = "scan" /\ task[d][t].step \in Resting
  BY DEF ClaimNext, TypeOK, Resting
<1>3. task[d][t].queue \subseteq Replies /\ r \in Replies /\ rows[r] \in Row
  BY <1>1, <1>2 DEF TaskState, TypeOK
<1> DEFINE rest == task[d][t].queue \ {r}
           claimed == ClaimedRow(rows[r], NextLease(rows[r]))
           s1 == [step |-> FirstStep(claimed), queue |-> rest, reply |-> r,
                  lease |-> claimed.lease, retryable |-> FALSE]
           s2 == IF rest = {} THEN IdleTask ELSE [task[d][t] EXCEPT !.queue = rest]
<1>4. CASE CanClaim(rows[r]) /\ rows' = [rows EXCEPT ![r] = claimed] /\ SetTask(d, t, s1)
  <2>1. /\ claimed.attempts = rows[r].attempts + 1 /\ claimed.lease = rows[r].attempts + 1
        /\ rows[r].attempts + 1 \in Leases /\ rows[r].attempts \in Nat
    BY <1>3, ClaimedRowFacts DEF Row
  <2>2. FirstStep(claimed) \in {"send", "reject"}
    BY DEF FirstStep
  <2>3. FirstStep(claimed) = "send" => claimed.attempts <= MaxAttempts
    BY <2>1, MaxAttemptsIsPositive DEF FirstStep, Exhausted
  <2>4. s1 \in TaskState /\ s1.step = FirstStep(claimed) /\ s1.reply = r
    BY <1>3, <2>1, <2>2 DEF TaskState, TaskStep
  <2>5. QED
    BY <1>2, <1>3, <1>4, <2>1, <2>2, <2>3, <2>4
<1>5. CASE SetTask(d, t, s2) /\ rows' = rows
  <2>1. s2 \in TaskState /\ s2.step \in Resting
    BY <1>2, <1>3 DEF IdleTask, TaskState, TaskStep, Resting
  <2>2. QED
    BY <1>2, <1>5, <2>1
<1>6. QED
  BY <1>1, <1>4, <1>5

(* What becomes of the row of a task whose failure is marked. *)
Marked(d, t, r) ==
    \/ /\ CanFail(rows[r], task[d][t].lease)
       /\ \E b \in BOOLEAN : rows' = [rows EXCEPT ![r] = FailedRow(rows[r], b)]
    \/ ~CanFail(rows[r], task[d][t].lease) /\ rows' = rows

(* What mark_delivery_failed does. *)
LEMMA MarkFacts ==
    ASSUME TypeOK, NEW d \in Daemons, NEW t \in Tasks, NEW b \in BOOLEAN, MarkFailed(d, t, b)
    PROVE  /\ Marked(d, t, task[d][t].reply)
           /\ \E s \in TaskState : SetTask(d, t, s) /\ s.step \in Resting
<1> DEFINE r == task[d][t].reply
<1>1. NextRecord(d, t) \/ AbandonScan(d, t)
        => \E s \in TaskState : s.step \in Resting /\ SetTask(d, t, s)
  BY Rests
<1>2. CASE CanFail(rows[r], task[d][t].lease)
  <2>1. rows' = [rows EXCEPT ![r] = FailedRow(rows[r], b)] /\ NextRecord(d, t)
    BY <1>2 DEF MarkFailed
  <2>2. QED
    BY <1>1, <1>2, <2>1 DEF Marked
<1>3. CASE ~CanFail(rows[r], task[d][t].lease)
  <2>1. rows' = rows /\ AbandonScan(d, t)
    BY <1>3 DEF MarkFailed
  <2>2. QED
    BY <1>1, <1>3, <2>1 DEF Marked
<1>4. QED
  BY <1>2, <1>3

(* A send that returns: its task goes on to the ack. *)
LEMMA SendFacts ==
    ASSUME IInv, NEW d \in Daemons, NEW t \in Tasks, SendSucceeds(d, t)
    PROVE  \E r \in Replies, s \in TaskState :
             /\ Holds(d, t, r) /\ task[d][t].step = "send"
             /\ SetTask(d, t, s) /\ s.step = "ack" /\ s.reply = r
             /\ s.lease = task[d][t].lease
             /\ sent' = [sent EXCEPT ![r] = @ + 1]
             /\ rows' = rows /\ disturbed' = disturbed /\ parked' = parked
<1> DEFINE r == task[d][t].reply
           s == [task[d][t] EXCEPT !.step = "ack"]
<1>1. task[d][t].step = "send" /\ task[d][t] \in TaskState
  BY DEF IInv, TypeOK, SendSucceeds
<1>2. r \in Replies /\ Holds(d, t, r)
  BY <1>1 DEF IInv, TaskIsSound, Holds, Resting
<1>3. s \in TaskState /\ s.step = "ack" /\ s.reply = r /\ s.lease = task[d][t].lease
  BY <1>1 DEF TaskState, TaskStep
<1>4. /\ SetTask(d, t, s) /\ sent' = [sent EXCEPT ![r] = @ + 1]
      /\ rows' = rows /\ disturbed' = disturbed /\ parked' = parked
  BY DEF SendSucceeds
<1>5. QED
  BY <1>1, <1>2, <1>3, <1>4

(* A send that fails: it did not arrive and its failure is marked, or its  *)
(* reply is disturbed.                                                     *)
LEMMA FailedSendFacts ==
    ASSUME IInv, NEW d \in Daemons, NEW t \in Tasks,
           SendRefused(d, t) \/ SendBroken(d, t) \/ SendTimesOut(d, t)
    PROVE  \E r \in Replies, arrived \in {0, 1}, s \in TaskState :
             /\ Holds(d, t, r) /\ task[d][t].step = "send"
             /\ SetTask(d, t, s) /\ s.step \in Resting
             /\ sent' = [sent EXCEPT ![r] = @ + arrived]
             /\ \/ /\ arrived = 0 /\ disturbed' = disturbed /\ parked' = parked
                   /\ Marked(d, t, r)
                \/ /\ disturbed' = disturbed \cup {r} /\ parked' \subseteq parked \cup {r}
                   /\ Marked(d, t, r) \/ rows' = rows
<1> DEFINE r == task[d][t].reply
<1>1. task[d][t].step = "send" /\ task[d][t] \in TaskState /\ TypeOK
  <2>1. task[d][t].step = "send"
    BY DEF SendRefused, SendBroken, SendTimesOut, SendUnanswered
  <2>2. QED
    BY <2>1 DEF IInv, TypeOK
<1>2. r \in Replies /\ Holds(d, t, r)
  BY <1>1 DEF IInv, TaskIsSound, Holds, Resting
<1>3. ASSUME NEW b \in BOOLEAN, MarkFailed(d, t, b)
      PROVE  /\ Marked(d, t, r)
             /\ \E s \in TaskState : SetTask(d, t, s) /\ s.step \in Resting
  BY <1>1, <1>3, MarkFacts
<1>4. CASE SendRefused(d, t)
  <2>1. sent' = sent /\ disturbed' = disturbed /\ parked' = parked /\ MarkFailed(d, t, FALSE)
    BY <1>4 DEF SendRefused, ghosts
  <2>2. sent' = [sent EXCEPT ![r] = @ + 0]
    BY <1>1, <1>2, <2>1 DEF TypeOK
  <2>3. QED
    BY <1>1, <1>2, <1>3, <2>1, <2>2
<1>5. CASE SendBroken(d, t) \/ SendTimesOut(d, t)
  <2>1. PICK arrived \in {0, 1} : sent' = [sent EXCEPT ![r] = @ + arrived]
    BY <1>5 DEF SendBroken, SendTimesOut, SendUnanswered
  <2>2. disturbed' = disturbed \cup {r} /\ parked' \subseteq parked \cup {r}
    BY <1>5 DEF SendBroken, SendTimesOut, SendUnanswered, MarkFailedWordless
  <2>3. /\ Marked(d, t, r) \/ rows' = rows
        /\ \E s \in TaskState : SetTask(d, t, s) /\ s.step \in Resting
    <3>1. CASE MarkFailed(d, t, FALSE) \/ MarkFailed(d, t, TRUE)
      BY <1>3, <3>1
    <3>2. CASE MarkFailedWordless(d, t)
      BY <1>1, <3>2, Rests DEF MarkFailedWordless
    <3>3. QED
      BY <1>5, <3>1, <3>2 DEF SendBroken, SendTimesOut
  <2>4. QED
    BY <1>1, <1>2, <2>1, <2>2, <2>3
<1>6. QED
  BY <1>4, <1>5

(* The store raises in an ack: nothing changes but the task. *)
LEMMA RaiseFacts ==
    ASSUME IInv, NEW d \in Daemons, NEW t \in Tasks, AckRaises(d, t)
    PROVE  \E r \in Replies, s \in TaskState :
             /\ Holds(d, t, r) /\ SetTask(d, t, s) /\ s.step = "nack" /\ s.reply = r
             /\ rows' = rows /\ sent' = sent /\ parked' = parked
             /\ disturbed' = disturbed \cup {r}
<1> DEFINE r == task[d][t].reply
           s == [task[d][t] EXCEPT !.step = "nack", !.retryable = TRUE]
<1>1. task[d][t].step = "ack" /\ task[d][t] \in TaskState
  BY DEF IInv, TypeOK, AckRaises
<1>2. r \in Replies /\ Holds(d, t, r)
  BY <1>1 DEF IInv, TaskIsSound, Holds, Resting
<1>3. s \in TaskState /\ s.step = "nack" /\ s.reply = r
  BY <1>1 DEF TaskState, TaskStep
<1>4. QED
  BY <1>2, <1>3 DEF AckRaises

(* What the answer to an ack or a nack does. *)
LEMMA AnswerFacts ==
    ASSUME IInv, NEW d \in Daemons, NEW t \in Tasks, Ack(d, t) \/ Nack(d, t)
    PROVE  \E r \in Replies, s \in TaskState :
             /\ Holds(d, t, r) /\ SetTask(d, t, s)
             /\ sent' = sent /\ disturbed' = disturbed /\ parked' = parked
             /\ \/ /\ task[d][t].step = "ack" /\ CanDeliver(rows[r], task[d][t].lease)
                   /\ rows' = [rows EXCEPT ![r] = DeliveredRow(rows[r])]
                   /\ s.step \in Resting
                \/ /\ task[d][t].step = "ack" /\ ~CanDeliver(rows[r], task[d][t].lease)
                   /\ rows' = rows
                   /\ s.step = "nack" /\ s.reply = r /\ s.lease = task[d][t].lease
                \/ /\ task[d][t].step \in {"nack", "reject"}
                   /\ Marked(d, t, r) /\ s.step \in Resting
<1> DEFINE r == task[d][t].reply
<1>1. task[d][t] \in TaskState /\ task[d][t].step \in {"ack", "nack", "reject"} /\ TypeOK
  BY DEF IInv, TypeOK, Ack, Nack
<1>2. r \in Replies /\ Holds(d, t, r)
  BY <1>1 DEF IInv, TaskIsSound, Holds, Resting
<1>3. sent' = sent /\ disturbed' = disturbed /\ parked' = parked
  BY DEF Ack, Nack, ghosts
<1>4. NextRecord(d, t) \/ AbandonScan(d, t)
        => \E s \in TaskState : s.step \in Resting /\ SetTask(d, t, s)
  BY Rests DEF IInv
<1>5. CASE Ack(d, t)
  <2>1. task[d][t].step = "ack"
    BY <1>5 DEF Ack
  <2>2. CASE CanDeliver(rows[r], task[d][t].lease)
    <3>1. rows' = [rows EXCEPT ![r] = DeliveredRow(rows[r])] /\ NextRecord(d, t)
      BY <1>5, <2>2 DEF Ack
    <3>2. QED
      BY <1>2, <1>3, <1>4, <2>1, <2>2, <3>1
  <2>3. CASE ~CanDeliver(rows[r], task[d][t].lease)
    <3> DEFINE s == [task[d][t] EXCEPT
                       !.step = "nack",
                       !.retryable = rows[r].state \in {"delivery_in_progress", "delivered"}]
    <3>1. s \in TaskState /\ s.step = "nack" /\ s.reply = r /\ s.lease = task[d][t].lease
      <4>1. ASSUME NEW b \in BOOLEAN
            PROVE  LET f == [task[d][t] EXCEPT !.step = "nack", !.retryable = b]
                   IN  f \in TaskState /\ f.step = "nack" /\ f.reply = r
                         /\ f.lease = task[d][t].lease
        BY <1>1 DEF TaskState, TaskStep
      <4>2. (rows[r].state \in {"delivery_in_progress", "delivered"}) \in BOOLEAN
        OBVIOUS
      <4>3. QED
        BY <4>1, <4>2, Zenon
    <3>2. SetTask(d, t, s) /\ rows' = rows
      BY <1>5, <2>3 DEF Ack
    <3>3. QED
      BY <1>2, <1>3, <2>1, <2>3, <3>1, <3>2
  <2>4. QED
    BY <2>2, <2>3
<1>6. CASE Nack(d, t)
  <2>1. task[d][t].step \in {"nack", "reject"} /\ task[d][t].retryable \in BOOLEAN
    BY <1>1, <1>6 DEF Nack, TaskState
  <2>2. MarkFailed(d, t, task[d][t].retryable)
    BY <1>6 DEF Nack
  <2>3. Marked(d, t, r) /\ \E s \in TaskState : SetTask(d, t, s) /\ s.step \in Resting
    BY <1>1, <2>1, <2>2, MarkFacts
  <2>4. QED
    BY <1>2, <1>3, <2>1, <2>3
<1>7. QED
  BY <1>5, <1>6

(* A scan only makes a list. *)
LEMMA ScanFacts ==
    ASSUME TypeOK, NEW d \in Daemons, NEW t \in Tasks, Scan(d, t)
    PROVE  /\ process[d] = "running" /\ task[d][t].step \in Resting
           /\ rows' = rows /\ sent' = sent /\ disturbed' = disturbed /\ parked' = parked
           /\ \E s \in TaskState : s.step \in Resting /\ SetTask(d, t, s)
<1> DEFINE s == [IdleTask EXCEPT !.step = "scan", !.queue = Deliverable]
<1>1. Deliverable \subseteq Replies
  BY DEF Deliverable
<1>2. s \in TaskState /\ s.step \in Resting
  BY <1>1 DEF IdleTask, TaskState, TaskStep, Resting
<1>3. QED
  BY <1>2 DEF Scan, ghosts, Resting

-----------------------------------------------------------------------------
(* Types, and DELIVERED *)

(* Rows and counts may change in this way. *)
RowsKeepSound ==
    /\ rows' \in [Replies -> Row] /\ sent' \in [Replies -> Nat]
    /\ \A r \in Replies : sent'[r] >= sent[r]
    /\ \A r \in Replies : rows'[r] # rows[r] => RowIsSound(r)'

(* Rows that change soundly, counts that only grow: what was true of a row *)
(* or of a task that stands still goes on being true.                      *)
LEMMA SoundStep ==
    ASSUME IInv, RowsKeepSound,
           process' \in [Daemons -> {"down", "recovering", "running"}],
           interrupted' \in [Daemons -> SUBSET (Replies \X Leases)],
           task' \in [Daemons -> [Tasks -> TaskState]],
           sweep' \subseteq Replies, disturbed' \subseteq Replies, parked' \subseteq Replies,
           \A d \in Daemons, t \in Tasks : task'[d][t] = task[d][t] \/ TaskIsSound(d, t)'
    PROVE  IInv'
<1>1. TypeOK'
  BY DEF TypeOK, RowsKeepSound
<1>2. ASSUME NEW r \in Replies PROVE RowIsSound(r)'
  <2>1. CASE rows'[r] = rows[r]
    <3>1. sent[r] \in Nat /\ sent'[r] \in Nat /\ sent'[r] >= sent[r]
      BY DEF IInv, TypeOK, RowsKeepSound
    <3>2. RowIsSound(r)
      BY DEF IInv
    <3>3. QED
      BY <2>1, <3>1, <3>2 DEF RowIsSound
  <2>2. CASE rows'[r] # rows[r]
    BY <2>2 DEF RowsKeepSound
  <2>3. QED
    BY <2>1, <2>2
<1>3. ASSUME NEW d \in Daemons, NEW t \in Tasks PROVE TaskIsSound(d, t)'
  <2>1. CASE task'[d][t] = task[d][t]
    <3>1. TaskIsSound(d, t)
      BY DEF IInv
    <3>2. CASE task[d][t].step = "ack"
      <4>1. task[d][t].reply \in Replies
        BY <3>1, <3>2 DEF TaskIsSound, Resting
      <4>2. /\ sent[task[d][t].reply] \in Nat /\ sent'[task[d][t].reply] \in Nat
            /\ sent'[task[d][t].reply] >= sent[task[d][t].reply]
        BY <4>1 DEF IInv, TypeOK, RowsKeepSound
      <4>3. QED
        BY <2>1, <3>1, <3>2, <4>1, <4>2 DEF TaskIsSound
    <3>3. CASE task[d][t].step # "ack"
      BY <2>1, <3>1, <3>3 DEF TaskIsSound
    <3>4. QED
      BY <3>2, <3>3
  <2>2. QED
    BY <1>3, <2>1
<1>4. QED
  BY <1>1, <1>2, <1>3 DEF IInv

(* A step of one task: only this task changes. *)
LEMMA SoundTaskStep ==
    ASSUME IInv, NEW d \in Daemons, NEW t \in Tasks, NEW s \in TaskState, SetTask(d, t, s),
           RowsKeepSound,
           process' = process, interrupted' = interrupted, sweep' = sweep,
           disturbed' \subseteq Replies, parked' \subseteq Replies,
           s.step \notin Resting => s.reply \in Replies,
           s.step = "ack" => sent'[s.reply] >= 1
    PROVE  IInv'
<1>1. TypeOK
  BY DEF IInv
<1>2. /\ task' \in [Daemons -> [Tasks -> TaskState]] /\ task'[d][t] = s
      /\ \A e \in Daemons, u \in Tasks : e # d \/ u # t => task'[e][u] = task[e][u]
  BY <1>1, TaskMoves
<1>3. TaskIsSound(d, t)'
  BY <1>2 DEF TaskIsSound
<1>4. \A e \in Daemons, u \in Tasks : task'[e][u] = task[e][u] \/ TaskIsSound(e, u)'
  BY <1>2, <1>3
<1>5. QED
  BY <1>1, <1>2, <1>4, SoundStep DEF TypeOK

(* Every step of a task keeps the invariant. *)
LEMMA TaskPreserves ==
    ASSUME IInv, NEW d \in Daemons, NEW t \in Tasks, TaskStepOf(d, t)
    PROVE  IInv'
<1>1. TypeOK /\ rows \in [Replies -> Row] /\ sent \in [Replies -> Nat]
      /\ disturbed \subseteq Replies /\ parked \subseteq Replies
  BY DEF IInv, TypeOK
<1>2. process' = process /\ interrupted' = interrupted /\ sweep' = sweep
  BY DEF TaskStepOf, Scan, ClaimNext, SendSucceeds, SendRefused, SendBroken, SendTimesOut,
         SendUnanswered, Ack, AckRaises, Nack
<1> DEFINE Counted == sent' \in [Replies -> Nat] /\ \A q \in Replies : sent'[q] >= sent[q]
<1>0. sent' = sent => Counted
  BY <1>1
<1>3. rows' = rows /\ sent' = sent => RowsKeepSound
  BY <1>1 DEF RowsKeepSound
<1>4. ASSUME NEW r \in Replies, NEW row \in Row,
             Counted, rows' = [rows EXCEPT ![r] = row],
             row.state = "delivery_in_progress" => row.lease \in Leases,
             row.state = "delivered" => sent'[r] >= 1
      PROVE  RowsKeepSound
  <2>1. RowIsSound(r)'
    BY <1>1, <1>4 DEF RowIsSound
  <2>2. QED
    BY <1>1, <1>4, <2>1 DEF RowsKeepSound
<1>5. CASE Scan(d, t)
  BY <1>1, <1>2, <1>3, <1>5, ScanFacts, SoundTaskStep DEF Resting
<1>6. CASE ClaimNext(d, t)
  <2>1. sent' = sent /\ disturbed' = disturbed /\ parked' = parked
    BY <1>6 DEF ClaimNext, ghosts
  <2>2. PICK s \in TaskState :
          /\ SetTask(d, t, s)
          /\ \/ s.step \in Resting /\ rows' = rows
             \/ \E r \in Replies :
                  /\ rows' = [rows EXCEPT ![r] = ClaimedRow(rows[r], NextLease(rows[r]))]
                  /\ s.step \in {"send", "reject"} /\ s.reply = r
    BY <1>1, <1>6, ClaimFacts
  <2>3. RowsKeepSound
    <3>1. CASE rows' = rows
      BY <1>3, <2>1, <3>1
    <3>2. ASSUME NEW r \in Replies,
                 rows' = [rows EXCEPT ![r] = ClaimedRow(rows[r], NextLease(rows[r]))]
          PROVE  RowsKeepSound
      BY <1>1, <1>0, <1>4, <2>1, <3>2, ClaimedRowFacts
    <3>3. QED
      BY <2>2, <3>1, <3>2
  <2>4. (s.step \notin Resting => s.reply \in Replies) /\ s.step # "ack"
    BY <2>2 DEF Resting
  <2>5. QED
    BY <1>1, <1>2, <2>1, <2>2, <2>3, <2>4, SoundTaskStep
<1>7. CASE SendSucceeds(d, t)
  <2>1. PICK r \in Replies, s \in TaskState :
             /\ Holds(d, t, r) /\ SetTask(d, t, s) /\ s.step = "ack" /\ s.reply = r
             /\ sent' = [sent EXCEPT ![r] = @ + 1]
             /\ rows' = rows /\ disturbed' = disturbed /\ parked' = parked
    BY <1>7, SendFacts
  <2>2. sent[r] \in Nat /\ sent' \in [Replies -> Nat]
        /\ sent'[r] = sent[r] + 1 /\ \A q \in Replies : sent'[q] >= sent[q]
    BY <1>1, <2>1
  <2>3. RowsKeepSound
    BY <1>1, <2>1, <2>2 DEF RowsKeepSound
  <2>4. QED
    BY <1>1, <1>2, <2>1, <2>2, <2>3, SoundTaskStep
<1>8. CASE SendRefused(d, t) \/ SendBroken(d, t) \/ SendTimesOut(d, t)
  <2>1. PICK r \in Replies, arrived \in {0, 1}, s \in TaskState :
             /\ Holds(d, t, r) /\ SetTask(d, t, s) /\ s.step \in Resting
             /\ sent' = [sent EXCEPT ![r] = @ + arrived]
             /\ disturbed' \subseteq disturbed \cup {r} /\ parked' \subseteq parked \cup {r}
             /\ Marked(d, t, r) \/ rows' = rows
    BY <1>8, FailedSendFacts
  <2>2. sent[r] \in Nat /\ sent' \in [Replies -> Nat]
        /\ sent'[r] = sent[r] + arrived /\ \A q \in Replies : sent'[q] >= sent[q]
    BY <1>1, <2>1
  <2>3. RowsKeepSound
    <3>1. CASE rows' = rows
      BY <1>1, <2>2, <3>1 DEF RowsKeepSound
    <3>2. ASSUME NEW b \in BOOLEAN, rows' = [rows EXCEPT ![r] = FailedRow(rows[r], b)]
          PROVE  RowsKeepSound
      BY <1>1, <1>4, <2>2, <3>2, FailedRowFacts
    <3>3. QED
      BY <2>1, <3>1, <3>2 DEF Marked
  <2>4. QED
    BY <1>1, <1>2, <2>1, <2>3, SoundTaskStep DEF Resting
<1>9. CASE AckRaises(d, t)
  BY <1>1, <1>2, <1>3, <1>9, RaiseFacts, SoundTaskStep DEF Resting
<1>10. CASE Ack(d, t) \/ Nack(d, t)
  <2>1. PICK r \in Replies, s \in TaskState :
             /\ Holds(d, t, r) /\ SetTask(d, t, s)
             /\ sent' = sent /\ disturbed' = disturbed /\ parked' = parked
             /\ \/ /\ task[d][t].step = "ack"
                   /\ rows' = [rows EXCEPT ![r] = DeliveredRow(rows[r])]
                \/ \E b \in BOOLEAN : rows' = [rows EXCEPT ![r] = FailedRow(rows[r], b)]
                \/ rows' = rows
             /\ s.step \in Resting \/ (s.step = "nack" /\ s.reply = r)
    BY <1>10, AnswerFacts DEF Marked
  <2>2. rows[r] \in Row
    BY <1>1
  <2>3. task[d][t].step = "ack" => sent[r] >= 1
    BY <2>1 DEF IInv, TaskIsSound, Holds
  <2>4. RowsKeepSound
    <3>1. CASE task[d][t].step = "ack" /\ rows' = [rows EXCEPT ![r] = DeliveredRow(rows[r])]
      BY <1>1, <1>0, <1>4, <2>1, <2>2, <2>3, <3>1, DeliveredRowFacts
    <3>2. ASSUME NEW b \in BOOLEAN, rows' = [rows EXCEPT ![r] = FailedRow(rows[r], b)]
          PROVE  RowsKeepSound
      BY <1>1, <1>0, <1>4, <2>1, <2>2, <3>2, FailedRowFacts
    <3>3. CASE rows' = rows
      BY <1>3, <2>1, <3>3
    <3>4. QED
      BY <2>1, <3>1, <3>2, <3>3
  <2>5. s.step # "ack" /\ (s.step \notin Resting => s.reply \in Replies)
    BY <2>1 DEF Resting
  <2>6. QED
    BY <1>1, <1>2, <2>1, <2>4, <2>5, SoundTaskStep
<1>11. QED
  BY <1>5, <1>6, <1>7, <1>8, <1>9, <1>10 DEF TaskStepOf

(* The environment, starts and recoveries. *)
LEMMA EnvironmentPreserves ==
    ASSUME IInv,
           \/ \E d \in Daemons, r \in Replies : Submit(d, r)
           \/ \E d \in Daemons : Start(d) \/ Recovery(d) \/ Crash(d)
           \/ \E r \in Replies : Grows(r)
           \/ SweepSelect \/ SweepUpdate
    PROVE  IInv'
<1>1. /\ TypeOK /\ rows \in [Replies -> Row] /\ sent \in [Replies -> Nat]
      /\ process \in [Daemons -> {"down", "recovering", "running"}]
      /\ interrupted \in [Daemons -> SUBSET (Replies \X Leases)]
      /\ task \in [Daemons -> [Tasks -> TaskState]]
      /\ sweep \subseteq Replies /\ disturbed \subseteq Replies /\ parked \subseteq Replies
  BY DEF IInv, TypeOK
<1>2. rows' = rows /\ sent' = sent => RowsKeepSound
  BY <1>1 DEF RowsKeepSound
<1>3. ASSUME sent' = sent, rows' \in [Replies -> Row],
             \A r \in Replies : \/ rows'[r] = rows[r]
                                \/ rows'[r].state \notin {"delivery_in_progress", "delivered"}
                                \/ /\ rows'[r].state = rows[r].state
                                   /\ rows'[r].lease = rows[r].lease
      PROVE  RowsKeepSound
  <2>1. ASSUME NEW r \in Replies PROVE rows'[r] # rows[r] => RowIsSound(r)'
    <3>1. RowIsSound(r)
      BY DEF IInv
    <3>2. QED
      BY <1>3, <3>1 DEF RowIsSound
  <2>2. QED
    BY <1>1, <1>3, <2>1 DEF RowsKeepSound
<1>4. ASSUME NEW d \in Daemons, NEW r \in Replies, Submit(d, r) PROVE IInv'
  <2>1. PICK a \in BOOLEAN :
          rows' = [rows EXCEPT ![r].state = "pending_delivery", ![r].addressed = a]
    BY <1>4 DEF Submit
  <2> DEFINE row == [rows[r] EXCEPT !.state = "pending_delivery", !.addressed = a]
  <2>2. row \in Row /\ row.state = "pending_delivery"
    BY <1>1 DEF Row, OutboxState
  <2>3. rows' = [rows EXCEPT ![r] = row]
    BY <1>1, <2>1
  <2>4. rows' \in [Replies -> Row] /\ sent' = sent
    BY <1>1, <1>4, <2>2, <2>3 DEF Submit, ghosts
  <2>5. RowsKeepSound
    BY <1>1, <1>3, <2>2, <2>3, <2>4
  <2>6. QED
    BY <1>1, <1>4, <2>5, SoundStep DEF Submit, ghosts
<1>5. ASSUME NEW d \in Daemons, Start(d) PROVE IInv'
  <2>1. {<<r, rows[r].lease>> : r \in Interrupted(d)} \subseteq Replies \X Leases
    BY DEF Interrupted, IInv, RowIsSound
  <2>2. /\ interrupted' \in [Daemons -> SUBSET (Replies \X Leases)]
        /\ process' \in [Daemons -> {"down", "recovering", "running"}]
    BY <1>1, <1>5, <2>1 DEF Start
  <2>3. QED
    BY <1>1, <1>2, <1>5, <2>2, SoundStep DEF Start, ghosts
<1>6. ASSUME NEW d \in Daemons, RecoverOne(d) PROVE IInv'
  <2>1. PICK i \in interrupted[d] :
          /\ interrupted' = [interrupted EXCEPT ![d] = @ \ {i}]
          /\ \/ rows' = [rows EXCEPT ![i[1]] = FailedRow(rows[i[1]], TRUE)]
             \/ rows' = rows
    BY <1>6 DEF RecoverOne
  <2>2. i[1] \in Replies
    BY <1>1, <2>1
  <2>3. FailedRow(rows[i[1]], TRUE) \in Row
        /\ FailedRow(rows[i[1]], TRUE).state \notin {"delivery_in_progress", "delivered"}
    BY <1>1, <2>2, FailedRowFacts
  <2>4. sent' = sent /\ disturbed' = disturbed /\ parked' \subseteq parked
    BY <1>6 DEF RecoverOne
  <2>5. RowsKeepSound
    BY <1>1, <1>3, <2>1, <2>2, <2>3, <2>4
  <2>6. interrupted' \in [Daemons -> SUBSET (Replies \X Leases)]
    BY <1>1, <2>1
  <2>7. QED
    BY <1>1, <1>6, <2>4, <2>5, <2>6, SoundStep DEF RecoverOne
<1>7. ASSUME NEW d \in Daemons, FinishRecovery(d) PROVE IInv'
  BY <1>1, <1>2, <1>7, SoundStep DEF FinishRecovery, ghosts
<1>8. ASSUME NEW d \in Daemons, Crash(d) PROVE IInv'
  <2>1. [t \in Tasks |-> IdleTask] \in [Tasks -> TaskState]
    BY <1>1, Rests DEF IdleTask, TaskState, TaskStep
  <2>2. task' \in [Daemons -> [Tasks -> TaskState]]
        /\ process' \in [Daemons -> {"down", "recovering", "running"}]
        /\ interrupted' \in [Daemons -> SUBSET (Replies \X Leases)]
    BY <1>1, <1>8, <2>1 DEF Crash
  <2>3. disturbed' \subseteq Replies
    <3>1. \A u \in Tasks : task[d][u].step \notin {"idle", "scan"} => task[d][u].reply \in Replies
      BY DEF IInv, TaskIsSound, Resting
    <3>2. QED
      BY <1>1, <1>8, <3>1 DEF Crash
  <2>4. \A e \in Daemons, t \in Tasks : task'[e][t] = task[e][t] \/ TaskIsSound(e, t)'
    <3>1. \A t \in Tasks : TaskIsSound(d, t)'
      BY <1>1, <1>8 DEF Crash, TaskIsSound, IdleTask, Resting
    <3>2. \A e \in Daemons, t \in Tasks : e # d => task'[e][t] = task[e][t]
      BY <1>1, <1>8 DEF Crash
    <3>3. QED
      BY <3>1, <3>2
  <2>5. QED
    BY <1>1, <1>2, <1>8, <2>2, <2>3, <2>4, SoundStep DEF Crash
<1>9. ASSUME NEW r \in Replies, Grows(r) PROVE IInv'
  <2> DEFINE row == [rows[r] EXCEPT !.old = TRUE]
  <2>1. row \in Row /\ row.state = rows[r].state /\ row.lease = rows[r].lease
    BY <1>1 DEF Row
  <2>2. rows' = [rows EXCEPT ![r] = row]
    BY <1>1, <1>9 DEF Grows
  <2>3. rows' \in [Replies -> Row] /\ sent' = sent
    BY <1>1, <1>9, <2>1, <2>2 DEF Grows, ghosts
  <2>4. RowsKeepSound
    BY <1>1, <1>3, <2>1, <2>2, <2>3
  <2>5. QED
    BY <1>1, <1>9, <2>4, SoundStep DEF Grows, ghosts
<1>10. CASE SweepSelect
  BY <1>1, <1>2, <1>10, SoundStep DEF SweepSelect, ghosts
<1>11. CASE SweepUpdate
  <2>1. \A r \in Replies : /\ SweptRow(rows[r]) \in Row
                           /\ SweptRow(rows[r]).state = "failed_retryable"
    BY <1>1, SweptRowFacts
  <2>2. rows' \in [Replies -> Row] /\ sent' = sent
    BY <1>1, <1>11, <2>1 DEF SweepUpdate
  <2>3. RowsKeepSound
    <3>1. \A r \in Replies : rows'[r] = rows[r] \/ rows'[r].state = "failed_retryable"
      BY <1>1, <1>11, <2>1 DEF SweepUpdate
    <3>2. QED
      BY <1>3, <2>2, <3>1
  <2>4. QED
    BY <1>1, <1>11, <2>3, SoundStep DEF SweepUpdate
<1>12. QED
  BY <1>4, <1>5, <1>6, <1>7, <1>8, <1>9, <1>10, <1>11 DEF Recovery

(* The invariant holds at first. *)
LEMMA InitIInv == Init => IInv
<1>1. IdleTask \in TaskState /\ IdleTask.step = "idle"
  BY DEF IdleTask, TaskState, TaskStep
<1>2. ASSUME Init PROVE IInv
  <2>1. rows \in [Replies -> Row] /\ \A r \in Replies : rows[r].state = "absent"
    <3>1. \A l \in Labels :
            LET row == [state |-> "absent", lease |-> NoLease, attempts |-> 0,
                        error |-> "none", old |-> FALSE, label |-> l, addressed |-> FALSE]
            IN  row \in Row /\ row.state = "absent"
      BY DEF Row, OutboxState, OutboxError
    <3>2. \A r \in Replies : \E l \in Labels :
            rows[r] = [state |-> "absent", lease |-> NoLease, attempts |-> 0,
                       error |-> "none", old |-> FALSE, label |-> l, addressed |-> FALSE]
      BY <1>2 DEF Init
    <3>3. \A r \in Replies : rows[r] \in Row /\ rows[r].state = "absent"
      BY <3>1, <3>2
    <3>4. rows = [r \in Replies |-> rows[r]]
      BY <1>2 DEF Init
    <3>5. QED
      BY <3>3, <3>4
  <2>2. TypeOK
    BY <1>1, <1>2, <2>1 DEF Init, TypeOK
  <2>3. QED
    BY <1>1, <1>2, <2>1, <2>2 DEF Init, IInv, RowIsSound, TaskIsSound, Resting
<1>3. QED
  BY <1>2

(* Every step keeps it. *)
LEMMA NextPreserves == ASSUME IInv, [Next]_vars PROVE IInv'
<1>1. CASE Next
  BY <1>1, TaskPreserves, EnvironmentPreserves DEF Next
<1>2. CASE UNCHANGED vars
  BY <1>2 DEF vars, ghosts, IInv, TypeOK, TaskIsSound, RowIsSound
<1>3. QED
  BY <1>1, <1>2

LEMMA Inductive == Spec => []IInv
  BY InitIInv, NextPreserves, PTL DEF Spec

(* Every variable keeps its type: in particular every lease is an attempt  *)
(* number, and whatever the recovery of daemon.py:1000 lists has one.      *)
THEOREM TypeCorrect == Spec => []TypeOK
<1>1. IInv => TypeOK
  BY DEF IInv
<1>2. QED
  BY <1>1, Inductive, PTL

(* daemon.py 1535: a row is DELIVERED only if the message reached the user,*)
(* however many tasks, daemons and cleanups have raced for it.             *)
THEOREM DeliveredWasSentHolds == Spec => []DeliveredWasSent
<1>1. IInv => DeliveredWasSent
  BY DEF IInv, RowIsSound, DeliveredWasSent
<1>2. QED
  BY <1>1, Inductive, PTL

-----------------------------------------------------------------------------
(* The bound on sends.  A message that was sent, and a send that is under  *)
(* way, each have an attempt of their own.                                 *)

Senders(r) == {w \in Daemons \X Tasks : /\ task[w[1]][w[2]].step = "send"
                                        /\ task[w[1]][w[2]].reply = r}

WithinAttempts(r) ==
    /\ IsFiniteSet(Senders(r))
    /\ sent[r] + Cardinality(Senders(r)) <= rows[r].attempts
    /\ sent[r] + Cardinality(Senders(r)) <= MaxAttempts

SInv == \A r \in Replies : WithinAttempts(r)

(* The senders after a step of one task. *)
LEMMA SendersMove ==
    ASSUME TypeOK, NEW d \in Daemons, NEW t \in Tasks, NEW s \in TaskState, SetTask(d, t, s),
           NEW r \in Replies
    PROVE  Senders(r)' = (Senders(r) \ {<<d, t>>}) \cup
                           (IF s.step = "send" /\ s.reply = r THEN {<<d, t>>} ELSE {})
<1>1. /\ task'[d][t] = s
      /\ \A e \in Daemons, u \in Tasks : e # d \/ u # t => task'[e][u] = task[e][u]
  BY TaskMoves
<1>2. ASSUME NEW e \in Daemons, NEW u \in Tasks
      PROVE  /\ <<e, u>> \in Senders(r) <=> task[e][u].step = "send" /\ task[e][u].reply = r
             /\ <<e, u>> \in Senders(r)' <=> task'[e][u].step = "send" /\ task'[e][u].reply = r
  BY DEF Senders
<1>3. Senders(r) \subseteq Daemons \X Tasks /\ Senders(r)' \subseteq Daemons \X Tasks
  BY DEF Senders
<1>4. \A e \in Daemons, u \in Tasks :
        <<e, u>> \in Senders(r)' <=>
          <<e, u>> \in (Senders(r) \ {<<d, t>>}) \cup
                         (IF s.step = "send" /\ s.reply = r THEN {<<d, t>>} ELSE {})
  BY <1>1, <1>2
<1>5. <<d, t>> \in Daemons \X Tasks
  OBVIOUS
<1>6. QED
  BY <1>3, <1>4, <1>5

(* Fewer senders, or as many, and no other message sent. *)
LEMMA FewerSenders ==
    ASSUME TypeOK, TypeOK', NEW r \in Replies, WithinAttempts(r),
           sent'[r] = sent[r], rows'[r].attempts >= rows[r].attempts,
           Senders(r)' \subseteq Senders(r)
    PROVE  WithinAttempts(r)'
<1>1. /\ sent[r] \in Nat /\ MaxAttempts \in Nat
      /\ rows[r].attempts \in Nat /\ rows'[r].attempts \in Nat
  BY MaxAttemptsIsPositive DEF TypeOK, Row
<1>2. /\ IsFiniteSet(Senders(r)') /\ Cardinality(Senders(r)') \in Nat
      /\ Cardinality(Senders(r)) \in Nat /\ Cardinality(Senders(r)') <= Cardinality(Senders(r))
  BY FS_Subset, FS_CardinalityType DEF WithinAttempts
<1>3. QED
  BY <1>1, <1>2 DEF WithinAttempts

(* Attempts are never taken back. *)
LEMMA AttemptsGrow ==
    ASSUME IInv, [Next]_vars, NEW r \in Replies
    PROVE  rows'[r].attempts >= rows[r].attempts
<1>1. TypeOK /\ rows \in [Replies -> Row] /\ \A q \in Replies : rows[q].attempts \in Nat
  BY DEF IInv, TypeOK, Row
<1>2. ASSUME NEW q \in Replies, NEW row \in Row, row.attempts >= rows[q].attempts,
             rows' = [rows EXCEPT ![q] = row]
      PROVE  rows'[r].attempts >= rows[r].attempts
  BY <1>1, <1>2
<1>3. CASE rows' = rows
  BY <1>1, <1>3
<1>4. ASSUME NEW q \in Replies, NEW b \in BOOLEAN,
             \/ rows' = [rows EXCEPT ![q] = FailedRow(rows[q], b)]
             \/ rows' = [rows EXCEPT ![q] = DeliveredRow(rows[q])]
             \/ rows' = [rows EXCEPT ![q] = ClaimedRow(rows[q], NextLease(rows[q]))]
             \/ rows' = [rows EXCEPT ![q].state = "pending_delivery", ![q].addressed = b]
             \/ rows' = [rows EXCEPT ![q].old = TRUE]
      PROVE  rows'[r].attempts >= rows[r].attempts
  <2>1. rows[q] \in Row /\ rows[q].attempts \in Nat
    BY <1>1
  <2>2. /\ FailedRow(rows[q], b) \in Row /\ FailedRow(rows[q], b).attempts = rows[q].attempts
        /\ DeliveredRow(rows[q]) \in Row /\ DeliveredRow(rows[q]).attempts = rows[q].attempts
        /\ ClaimedRow(rows[q], NextLease(rows[q])) \in Row
        /\ ClaimedRow(rows[q], NextLease(rows[q])).attempts = rows[q].attempts + 1
    BY <2>1, FailedRowFacts, DeliveredRowFacts, ClaimedRowFacts
  <2>3. /\ [rows[q] EXCEPT !.state = "pending_delivery", !.addressed = b] \in Row
        /\ [rows[q] EXCEPT !.state = "pending_delivery", !.addressed = b].attempts = rows[q].attempts
        /\ [rows[q] EXCEPT !.old = TRUE] \in Row
        /\ [rows[q] EXCEPT !.old = TRUE].attempts = rows[q].attempts
    BY <2>1 DEF Row, OutboxState
  <2>4. \E row \in Row : row.attempts >= rows[q].attempts /\ rows' = [rows EXCEPT ![q] = row]
    <3>1. /\ [rows EXCEPT ![q].state = "pending_delivery", ![q].addressed = b]
                = [rows EXCEPT ![q] = [rows[q] EXCEPT !.state = "pending_delivery",
                                                      !.addressed = b]]
          /\ [rows EXCEPT ![q].old = TRUE] = [rows EXCEPT ![q] = [rows[q] EXCEPT !.old = TRUE]]
      BY <1>1
    <3>2. rows[q].attempts + 1 >= rows[q].attempts /\ rows[q].attempts >= rows[q].attempts
      BY <2>1
    <3>3. QED
      BY <1>4, <2>2, <2>3, <3>1, <3>2, Zenon
  <2>5. QED
    BY <1>2, <2>4
<1>5. ASSUME NEW d \in Daemons, NEW t \in Tasks, TaskStepOf(d, t)
      PROVE  rows'[r].attempts >= rows[r].attempts
  <2>1. CASE ClaimNext(d, t)
    BY <1>1, <1>3, <1>4, <2>1, ClaimFacts
  <2>2. CASE Ack(d, t) \/ Nack(d, t)
    BY <1>3, <1>4, <2>2, AnswerFacts DEF Marked
  <2>3. CASE SendRefused(d, t) \/ SendBroken(d, t) \/ SendTimesOut(d, t)
    BY <1>3, <1>4, <2>3, FailedSendFacts DEF Marked
  <2>4. CASE Scan(d, t) \/ SendSucceeds(d, t) \/ AckRaises(d, t)
    BY <1>3, <2>4 DEF Scan, SendSucceeds, AckRaises
  <2>5. QED
    BY <1>5, <2>1, <2>2, <2>3, <2>4 DEF TaskStepOf
<1>6. ASSUME NEW d \in Daemons, RecoverOne(d) PROVE rows'[r].attempts >= rows[r].attempts
  <2>1. PICK i \in interrupted[d] :
          rows' = [rows EXCEPT ![i[1]] = FailedRow(rows[i[1]], TRUE)] \/ rows' = rows
    BY <1>6 DEF RecoverOne
  <2>2. i[1] \in Replies
    BY <2>1 DEF IInv, TypeOK
  <2>3. QED
    BY <1>3, <1>4, <2>1, <2>2
<1>7. CASE SweepUpdate
  <2>1. SweptRow(rows[r]).attempts = rows[r].attempts
    BY <1>1, SweptRowFacts
  <2>2. QED
    BY <1>1, <1>7, <2>1 DEF SweepUpdate
<1>8. ASSUME NEW d \in Daemons, NEW q \in Replies, Submit(d, q)
      PROVE  rows'[r].attempts >= rows[r].attempts
  BY <1>4, <1>8 DEF Submit
<1>9. ASSUME NEW q \in Replies, Grows(q) PROVE rows'[r].attempts >= rows[r].attempts
  BY <1>4, <1>9 DEF Grows
<1>10. CASE SweepSelect \/ UNCHANGED vars
             \/ \E d \in Daemons : Start(d) \/ FinishRecovery(d) \/ Crash(d)
  BY <1>3, <1>10 DEF SweepSelect, Start, FinishRecovery, Crash, vars
<1>11. QED
  BY <1>5, <1>6, <1>7, <1>8, <1>9, <1>10 DEF Next, Recovery

(* A step of a task keeps the bound: a claim takes an attempt for the send *)
(* it begins, the end of a send uses it up.                                *)
LEMMA TaskKeepsBound ==
    ASSUME IInv, IInv', SInv, NEW d \in Daemons, NEW t \in Tasks, TaskStepOf(d, t)
    PROVE  SInv'
<1>1. TypeOK /\ TypeOK' /\ task[d][t] \in TaskState
  BY DEF IInv, TypeOK
<1>2. SUFFICES ASSUME NEW q \in Replies PROVE WithinAttempts(q)'
  BY DEF SInv
<1>3. WithinAttempts(q)
  BY DEF SInv
<1>4. rows'[q].attempts >= rows[q].attempts
  BY AttemptsGrow DEF Next
<1>5. ASSUME NEW s \in TaskState, SetTask(d, t, s), s.step # "send", sent'[q] = sent[q]
      PROVE  WithinAttempts(q)'
  <2>1. Senders(q)' \subseteq Senders(q)
    BY <1>1, <1>5, SendersMove
  <2>2. QED
    BY <1>1, <1>3, <1>4, <1>5, <2>1, FewerSenders
<1>6. /\ sent[q] \in Nat /\ sent'[q] \in Nat /\ MaxAttempts \in Nat
      /\ rows[q] \in Row /\ rows[q].attempts \in Nat /\ rows'[q].attempts \in Nat
  BY <1>1, MaxAttemptsIsPositive DEF TypeOK, Row
<1>7. CASE Scan(d, t)
  BY <1>1, <1>5, <1>7, ScanFacts DEF Resting
<1>8. CASE ClaimNext(d, t)
  <2>1. sent' = sent
    BY <1>8 DEF ClaimNext, ghosts
  <2>2. PICK s \in TaskState :
                /\ SetTask(d, t, s)
                /\ \/ s.step \in Resting /\ rows' = rows
                   \/ \E r \in Replies :
                        /\ rows' = [rows EXCEPT ![r] = ClaimedRow(rows[r], NextLease(rows[r]))]
                        /\ s.step \in {"send", "reject"} /\ s.reply = r
                        /\ s.step = "send" => rows[r].attempts + 1 <= MaxAttempts
    BY <1>1, <1>8, ClaimFacts
  <2>3. task[d][t].step # "send"
    BY <1>8 DEF ClaimNext
  <2>4. CASE s.step = "send" /\ s.reply = q
    <3>1. /\ rows' = [rows EXCEPT ![q] = ClaimedRow(rows[q], NextLease(rows[q]))]
          /\ rows[q].attempts + 1 <= MaxAttempts
      BY <2>2, <2>4 DEF Resting
    <3>2. rows'[q].attempts = rows[q].attempts + 1
      BY <1>1, <1>6, <3>1, ClaimedRowFacts DEF TypeOK
    <3>3. <<d, t>> \notin Senders(q)
      BY <2>3 DEF Senders
    <3>4. Senders(q)' = Senders(q) \cup {<<d, t>>}
      BY <1>1, <2>2, <2>4, <3>3, SendersMove
    <3>5. /\ IsFiniteSet(Senders(q)') /\ Cardinality(Senders(q)) \in Nat
          /\ Cardinality(Senders(q)') = Cardinality(Senders(q)) + 1
      BY <1>3, <3>3, <3>4, FS_AddElement, FS_CardinalityType DEF WithinAttempts
    <3>6. QED
      BY <1>3, <1>6, <2>1, <3>1, <3>2, <3>5 DEF WithinAttempts
  <2>5. CASE ~(s.step = "send" /\ s.reply = q)
    <3>1. Senders(q)' \subseteq Senders(q)
      BY <1>1, <2>2, <2>5, SendersMove
    <3>2. QED
      BY <1>1, <1>3, <1>4, <2>1, <3>1, FewerSenders
  <2>6. QED
    BY <2>4, <2>5
<1>9. ASSUME NEW r \in Replies, NEW arrived \in {0, 1}, NEW s \in TaskState,
             Holds(d, t, r), task[d][t].step = "send", SetTask(d, t, s), s.step # "send",
             sent' = [sent EXCEPT ![r] = @ + arrived]
      PROVE  WithinAttempts(q)'
  <2>1. CASE r # q
    <3>1. sent'[q] = sent[q]
      BY <1>1, <1>9, <2>1 DEF TypeOK
    <3>2. QED
      BY <1>5, <1>9, <3>1
  <2>2. CASE r = q
    <3>1. sent'[q] = sent[q] + arrived
      BY <1>1, <1>9, <2>2 DEF TypeOK
    <3>2. <<d, t>> \in Senders(q)
      BY <1>9, <2>2 DEF Senders, Holds
    <3>3. Senders(q)' = Senders(q) \ {<<d, t>>}
      BY <1>1, <1>9, SendersMove
    <3>4. /\ IsFiniteSet(Senders(q)') /\ Cardinality(Senders(q)) \in Nat
          /\ Cardinality(Senders(q)') = Cardinality(Senders(q)) - 1
      BY <1>3, <3>2, <3>3, FS_RemoveElement, FS_CardinalityType DEF WithinAttempts
    <3>5. QED
      BY <1>3, <1>4, <1>6, <1>9, <3>1, <3>4 DEF WithinAttempts
  <2>3. QED
    BY <2>1, <2>2
<1>10. CASE SendSucceeds(d, t)
  <2>1. PICK r \in Replies, s \in TaskState :
             /\ Holds(d, t, r) /\ task[d][t].step = "send"
             /\ SetTask(d, t, s) /\ s.step = "ack"
             /\ sent' = [sent EXCEPT ![r] = @ + 1]
    BY <1>10, SendFacts
  <2>2. QED
    BY <1>9, <2>1
<1>11. CASE SendRefused(d, t) \/ SendBroken(d, t) \/ SendTimesOut(d, t)
  <2>1. PICK r \in Replies, arrived \in {0, 1}, s \in TaskState :
             /\ Holds(d, t, r) /\ task[d][t].step = "send"
             /\ SetTask(d, t, s) /\ s.step \in Resting
             /\ sent' = [sent EXCEPT ![r] = @ + arrived]
    BY <1>11, FailedSendFacts
  <2>2. QED
    BY <1>9, <2>1 DEF Resting
<1>12. CASE Ack(d, t) \/ Nack(d, t) \/ AckRaises(d, t)
  <2>1. PICK s \in TaskState : SetTask(d, t, s) /\ sent' = sent
                                 /\ (s.step \in Resting \/ s.step = "nack")
    BY <1>12, AnswerFacts, RaiseFacts
  <2>2. QED
    BY <1>5, <2>1 DEF Resting
<1>13. QED
  BY <1>7, <1>8, <1>10, <1>11, <1>12 DEF TaskStepOf

(* What runs beside the tasks only takes senders away. *)
LEMMA OthersKeepBound ==
    ASSUME IInv, IInv', SInv, [Next]_vars, sent' = sent,
           \A d \in Daemons, t \in Tasks :
              task'[d][t] = task[d][t] \/ task'[d][t].step \in Resting
    PROVE  SInv'
<1>1. SUFFICES ASSUME NEW q \in Replies PROVE WithinAttempts(q)'
  BY DEF SInv
<1>2. Senders(q)' \subseteq Senders(q)
  BY DEF Senders, Resting
<1>3. QED
  BY <1>2, AttemptsGrow, FewerSenders DEF IInv, SInv

LEMMA SendsInductive == Spec => []SInv
<1>1. ASSUME Init PROVE SInv
  <2>1. IInv
    BY <1>1, InitIInv
  <2>2. SUFFICES ASSUME NEW q \in Replies PROVE WithinAttempts(q)
    BY DEF SInv
  <2>3. Senders(q) = {}
    BY <1>1 DEF Senders, Init, IdleTask
  <2>4. IsFiniteSet(Senders(q)) /\ Cardinality(Senders(q)) = 0
    BY <2>3, FS_EmptySet
  <2>5. sent[q] = 0 /\ rows[q].attempts \in Nat /\ MaxAttempts \in Nat
    BY <1>1, <2>1, MaxAttemptsIsPositive DEF Init, IInv, TypeOK, Row
  <2>6. QED
    BY <2>4, <2>5 DEF WithinAttempts
<1>2. ASSUME IInv, IInv', SInv, [Next]_vars PROVE SInv'
  <2>1. CASE \E d \in Daemons, t \in Tasks : TaskStepOf(d, t)
    BY <1>2, <2>1, TaskKeepsBound
  <2>2. ASSUME NEW d \in Daemons, Crash(d) PROVE SInv'
    <3>1. \A e \in Daemons, t \in Tasks :
            task'[e][t] = task[e][t] \/ task'[e][t].step \in Resting
      BY <1>2, <2>2 DEF Crash, IInv, TypeOK, IdleTask, Resting
    <3>2. QED
      BY <1>2, <2>2, <3>1, OthersKeepBound DEF Crash
  <2>3. CASE task' = task /\ sent' = sent
    BY <1>2, <2>3, OthersKeepBound
  <2>4. QED
    BY <1>2, <2>1, <2>2, <2>3
       DEF Next, Submit, Start, Recovery, RecoverOne, FinishRecovery, Grows,
           SweepSelect, SweepUpdate, ghosts, vars
<1>3. QED
  BY <1>1, <1>2, Inductive, PTL DEF Spec

(* --delivery-max-attempts: whatever is retried, restarted or cleaned up,  *)
(* by however many daemons, no reply reaches the user more often.          *)
THEOREM SendsAreBoundedHolds == Spec => []SendsAreBounded
<1>1. ASSUME IInv, SInv PROVE SendsAreBounded
  <2>1. SUFFICES ASSUME NEW r \in Replies PROVE sent[r] <= MaxAttempts
    BY DEF SendsAreBounded
  <2>2. sent[r] \in Nat /\ MaxAttempts \in Nat
    BY <1>1, MaxAttemptsIsPositive DEF IInv, TypeOK
  <2>3. Cardinality(Senders(r)) \in Nat
    BY <1>1, FS_CardinalityType DEF SInv, WithinAttempts
  <2>4. QED
    BY <1>1, <2>2, <2>3 DEF SInv, WithinAttempts
<1>2. QED
  BY <1>1, Inductive, SendsInductive, PTL

-----------------------------------------------------------------------------
(* Undisturbed replies, with daemons of one label.  As long as no crash,   *)
(* cleanup or lost answer meets a reply, the task that has claimed it is   *)
(* the only one that works on it, with the lease of its row; and it was    *)
(* sent exactly if this task is about to ack it, or it is delivered.       *)

OneLabel == \A d, e \in Daemons : LabelOf[d] = LabelOf[e]

HolderIsAlone(r) ==
    \A d, e \in Daemons, t, u \in Tasks : Holds(d, t, r) /\ Holds(e, u, r) => d = e /\ t = u

HolderHasLease(d, t, r) ==
    /\ rows[r].state = "delivery_in_progress"
    /\ rows[r].lease = task[d][t].lease
    /\ sent[r] = IF task[d][t].step = "ack" THEN 1 ELSE 0

RestsUnsent(r) ==
    /\ rows[r].state # "delivery_in_progress"
    /\ sent[r] = 0 \/ (sent[r] = 1 /\ rows[r].state = "delivered")

Held(r) == \E d \in Daemons, t \in Tasks : Holds(d, t, r)

Orderly(r) ==
    /\ HolderIsAlone(r)
    /\ \A d \in Daemons, t \in Tasks : Holds(d, t, r) => HolderHasLease(d, t, r)
    /\ ~Held(r) => RestsUnsent(r)

(* Tasks run in running daemons; what a recovery has listed was cut off.   *)
UInv ==
    /\ \A d \in Daemons, t \in Tasks : process[d] # "running" => task[d][t].step = "idle"
    /\ \A d \in Daemons : \A i \in interrupted[d] : i[1] \in disturbed
    /\ \A r \in Replies \ disturbed : Orderly(r)

(* Nothing that concerns the reply has changed.                            *)
LEMMA OrderlyStays ==
    ASSUME NEW r \in Replies, Orderly(r), sent'[r] = sent[r],
           rows'[r].state = rows[r].state, rows'[r].lease = rows[r].lease,
           \A d \in Daemons, t \in Tasks :
              \/ task'[d][t] = task[d][t]
              \/ ~Holds(d, t, r) /\ ~Holds(d, t, r)'
    PROVE  Orderly(r)'
<1>1. \A d \in Daemons, t \in Tasks : Holds(d, t, r)' <=> Holds(d, t, r)
  BY DEF Holds
<1>2. HolderIsAlone(r)'
  BY <1>1 DEF Orderly, HolderIsAlone
<1>3. ASSUME NEW d \in Daemons, NEW t \in Tasks, Holds(d, t, r)' PROVE HolderHasLease(d, t, r)'
  <2>1. Holds(d, t, r) /\ task'[d][t] = task[d][t]
    BY <1>1, <1>3
  <2>2. QED
    BY <2>1 DEF Orderly, HolderHasLease
<1>4. ~Held(r)' => RestsUnsent(r)'
  BY <1>1 DEF Orderly, Held, RestsUnsent
<1>5. QED
  BY <1>2, <1>3, <1>4 DEF Orderly

(* The holder of a reply moves on and keeps it, or claims it.              *)
LEMMA HolderMoves ==
    ASSUME NEW r \in Replies, NEW d \in Daemons, NEW t \in Tasks,
           Orderly(r), Held(r) => Holds(d, t, r),
           Holds(d, t, r)', HolderHasLease(d, t, r)',
           \A e \in Daemons, u \in Tasks : e # d \/ u # t => task'[e][u] = task[e][u]
    PROVE  Orderly(r)'
<1>1. \A e \in Daemons, u \in Tasks : Holds(e, u, r)' => e = d /\ u = t
  <2>1. SUFFICES ASSUME NEW e \in Daemons, NEW u \in Tasks, Holds(e, u, r)', e # d \/ u # t
                 PROVE  FALSE
    OBVIOUS
  <2>2. Holds(e, u, r)
    BY <2>1 DEF Holds
  <2>3. Holds(d, t, r)
    BY <2>2 DEF Held
  <2>4. QED
    BY <2>1, <2>2, <2>3 DEF Orderly, HolderIsAlone
<1>2. QED
  BY <1>1 DEF Orderly, HolderIsAlone, Held

(* The holder of a reply has done with it.                                 *)
LEMMA HolderLeaves ==
    ASSUME NEW r \in Replies, NEW d \in Daemons, NEW t \in Tasks,
           Orderly(r), Holds(d, t, r), task'[d][t].step \in Resting, RestsUnsent(r)',
           \A e \in Daemons, u \in Tasks : e # d \/ u # t => task'[e][u] = task[e][u]
    PROVE  Orderly(r)'
<1>1. ASSUME NEW e \in Daemons, NEW u \in Tasks PROVE ~Holds(e, u, r)'
  <2>1. CASE e = d /\ u = t
    BY <2>1 DEF Holds
  <2>2. CASE e # d \/ u # t
    BY <2>2 DEF Holds, Orderly, HolderIsAlone
  <2>3. QED
    BY <2>1, <2>2
<1>2. QED
  BY <1>1 DEF Orderly, HolderIsAlone, Held

(* A step of a task.                                                       *)
LEMMA TaskKeepsOrder ==
    ASSUME IInv, UInv, NEW d \in Daemons, NEW t \in Tasks, TaskStepOf(d, t)
    PROVE  UInv'
<1>1. /\ TypeOK /\ rows \in [Replies -> Row] /\ sent \in [Replies -> Nat]
      /\ task[d][t] \in TaskState
  BY DEF IInv, TypeOK
<1>2. process' = process /\ interrupted' = interrupted
  BY DEF TaskStepOf, Scan, ClaimNext, SendSucceeds, SendRefused, SendBroken, SendTimesOut,
         SendUnanswered, Ack, AckRaises, Nack
<1>3. process[d] = "running"
  BY DEF UInv, TaskStepOf, Scan, ClaimNext, SendSucceeds, SendRefused, SendBroken, SendTimesOut,
         SendUnanswered, Ack, AckRaises, Nack
<1>4. ASSUME NEW s \in TaskState, SetTask(d, t, s), disturbed \subseteq disturbed',
             \A q \in Replies \ disturbed' : Orderly(q) => Orderly(q)'
      PROVE  UInv'
  <2>1. /\ task'[d][t] = s
        /\ \A e \in Daemons, u \in Tasks : e # d \/ u # t => task'[e][u] = task[e][u]
    BY <1>1, <1>4, TaskMoves
  <2>2. \A e \in Daemons, u \in Tasks : process'[e] # "running" => task'[e][u].step = "idle"
    BY <1>2, <1>3, <2>1 DEF UInv
  <2>3. QED
    BY <1>2, <1>4, <2>2 DEF UInv
<1>5. ASSUME NEW s \in TaskState, SetTask(d, t, s), NEW q \in Replies, Orderly(q),
             rows'[q] = rows[q], sent'[q] = sent[q],
             ~Holds(d, t, q), s.step \in Resting \/ s.reply # q
      PROVE  Orderly(q)'
  <2>1. /\ task'[d][t] = s
        /\ \A e \in Daemons, u \in Tasks : e # d \/ u # t => task'[e][u] = task[e][u]
    BY <1>1, <1>5, TaskMoves
  <2>2. ~Holds(d, t, q)'
    BY <1>5, <2>1 DEF Holds
  <2>3. QED
    BY <1>5, <2>1, <2>2, OrderlyStays
<1>6. CASE Scan(d, t)
  <2>1. PICK s \in TaskState : s.step \in Resting /\ SetTask(d, t, s)
    BY <1>1, <1>6, ScanFacts
  <2>2. \A q \in Replies : ~Holds(d, t, q) /\ rows'[q] = rows[q] /\ sent'[q] = sent[q]
    BY <1>1, <1>6, ScanFacts DEF Holds
  <2>3. QED
    BY <1>1, <1>4, <1>5, <1>6, <2>1, <2>2, ScanFacts
<1>7. CASE ClaimNext(d, t)
  <2>1. sent' = sent /\ disturbed' = disturbed /\ task[d][t].step \in Resting
    BY <1>1, <1>7, ClaimFacts DEF ClaimNext, ghosts
  <2>2. PICK s \in TaskState :
                /\ SetTask(d, t, s)
                /\ \/ s.step \in Resting /\ rows' = rows
                   \/ \E r \in Replies :
                        /\ CanClaim(rows[r])
                        /\ rows' = [rows EXCEPT ![r] = ClaimedRow(rows[r], NextLease(rows[r]))]
                        /\ s.step \in {"send", "reject"} /\ s.reply = r
                        /\ s.lease = rows[r].attempts + 1
    BY <1>1, <1>7, ClaimFacts
  <2>3. \A q \in Replies : ~Holds(d, t, q)
    BY <2>1 DEF Holds
  <2>4. ASSUME NEW q \in Replies \ disturbed', Orderly(q) PROVE Orderly(q)'
    <3>1. CASE s.step \in Resting /\ rows' = rows
      BY <1>5, <2>1, <2>2, <2>3, <2>4, <3>1
    <3>2. ASSUME NEW r \in Replies, CanClaim(rows[r]),
                 rows' = [rows EXCEPT ![r] = ClaimedRow(rows[r], NextLease(rows[r]))],
                 s.step \in {"send", "reject"}, s.reply = r, s.lease = rows[r].attempts + 1
          PROVE  Orderly(q)'
      <4>1. CASE q # r
        <5>1. rows'[q] = rows[q]
          BY <1>1, <3>2, <4>1
        <5>2. QED
          BY <1>5, <2>1, <2>2, <2>3, <2>4, <3>2, <4>1, <5>1
      <4>2. CASE q = r
        <5>1. ~Held(q)
          BY <2>4, <3>2, <4>2 DEF Orderly, Held, HolderHasLease, CanClaim, Claimable
        <5>2. sent[q] = 0
          BY <2>4, <3>2, <4>2, <5>1 DEF Orderly, RestsUnsent, CanClaim, Claimable
        <5>3. /\ task'[d][t] = s
              /\ \A e \in Daemons, u \in Tasks : e # d \/ u # t => task'[e][u] = task[e][u]
          BY <1>1, <2>2, TaskMoves
        <5>4. /\ rows'[q].state = "delivery_in_progress"
              /\ rows'[q].lease = rows[q].attempts + 1
          BY <1>1, <3>2, <4>2, ClaimedRowFacts
        <5>5. Holds(d, t, q)' /\ HolderHasLease(d, t, q)'
          BY <2>1, <3>2, <4>2, <5>2, <5>3, <5>4 DEF Holds, HolderHasLease, Resting
        <5>6. QED
          BY <2>4, <5>1, <5>3, <5>5, HolderMoves
      <4>3. QED
        BY <4>1, <4>2
    <3>3. QED
      BY <2>2, <3>1, <3>2
  <2>5. QED
    BY <1>4, <2>1, <2>2, <2>4
<1>8. CASE SendSucceeds(d, t)
  <2>1. PICK r \in Replies, s \in TaskState :
             /\ Holds(d, t, r) /\ task[d][t].step = "send"
             /\ SetTask(d, t, s) /\ s.step = "ack" /\ s.reply = r
             /\ s.lease = task[d][t].lease
             /\ sent' = [sent EXCEPT ![r] = @ + 1]
             /\ rows' = rows /\ disturbed' = disturbed
    BY <1>8, SendFacts
  <2>2. ASSUME NEW q \in Replies \ disturbed', Orderly(q) PROVE Orderly(q)'
    <3>1. CASE q # r
      <4>1. sent'[q] = sent[q] /\ ~Holds(d, t, q) /\ s.reply # q
        BY <1>1, <2>1, <3>1 DEF Holds
      <4>2. QED
        BY <1>5, <2>1, <2>2, <4>1
    <3>2. CASE q = r
      <4>1. HolderHasLease(d, t, q)
        BY <2>1, <2>2, <3>2 DEF Orderly
      <4>2. /\ task'[d][t] = s
            /\ \A e \in Daemons, u \in Tasks : e # d \/ u # t => task'[e][u] = task[e][u]
        BY <1>1, <2>1, TaskMoves
      <4>3. sent'[q] = 1
        BY <1>1, <2>1, <3>2, <4>1 DEF HolderHasLease
      <4>4. Holds(d, t, q)' /\ HolderHasLease(d, t, q)'
        BY <2>1, <3>2, <4>1, <4>2, <4>3 DEF Holds, HolderHasLease, Resting
      <4>5. QED
        BY <2>1, <2>2, <3>2, <4>2, <4>4, HolderMoves
    <3>3. QED
      BY <3>1, <3>2
  <2>3. QED
    BY <1>4, <2>1, <2>2
<1>9. ASSUME NEW q \in Replies, NEW s \in TaskState, Orderly(q), Holds(d, t, q),
             task[d][t].step # "ack", Marked(d, t, q), sent'[q] = sent[q],
             SetTask(d, t, s), s.step \in Resting
      PROVE  Orderly(q)'
  <2>1. HolderHasLease(d, t, q)
    BY <1>9 DEF Orderly
  <2>2. CanFail(rows[q], task[d][t].lease)
    BY <2>1 DEF HolderHasLease, CanFail, Present
  <2>3. /\ task'[d][t] = s
        /\ \A e \in Daemons, u \in Tasks : e # d \/ u # t => task'[e][u] = task[e][u]
    BY <1>1, <1>9, TaskMoves
  <2>4. rows'[q].state \in {"failed_retryable", "failed_terminal"}
    BY <1>1, <1>9, <2>2, FailedRowFacts DEF Marked
  <2>5. sent'[q] = 0
    BY <1>9, <2>1 DEF HolderHasLease
  <2>6. RestsUnsent(q)'
    BY <2>4, <2>5 DEF RestsUnsent
  <2>7. QED
    BY <1>9, <2>3, <2>6, HolderLeaves
<1>10. CASE SendRefused(d, t) \/ SendBroken(d, t) \/ SendTimesOut(d, t)
  <2>1. PICK r \in Replies, arrived \in {0, 1}, s \in TaskState :
             /\ Holds(d, t, r) /\ task[d][t].step = "send"
             /\ SetTask(d, t, s) /\ s.step \in Resting
             /\ sent' = [sent EXCEPT ![r] = @ + arrived]
             /\ \/ arrived = 0 /\ disturbed' = disturbed /\ Marked(d, t, r)
                \/ /\ disturbed' = disturbed \cup {r}
                   /\ Marked(d, t, r) \/ rows' = rows
    BY <1>10, FailedSendFacts
  <2>2. ASSUME NEW q \in Replies \ disturbed', Orderly(q) PROVE Orderly(q)'
    <3>1. CASE q # r
      <4>1. sent'[q] = sent[q] /\ rows'[q] = rows[q] /\ ~Holds(d, t, q)
        BY <1>1, <2>1, <3>1 DEF Holds, Marked
      <4>2. QED
        BY <1>5, <2>1, <2>2, <4>1
    <3>2. CASE q = r
      <4>1. arrived = 0 /\ Marked(d, t, q)
        BY <2>1, <2>2, <3>2
      <4>2. sent'[q] = sent[q]
        BY <1>1, <2>1, <3>2, <4>1
      <4>3. QED
        BY <1>9, <2>1, <2>2, <3>2, <4>1, <4>2
    <3>3. QED
      BY <3>1, <3>2
  <2>3. QED
    BY <1>4, <2>1, <2>2
<1>11. CASE AckRaises(d, t)
  <2>1. PICK r \in Replies, s \in TaskState :
             /\ Holds(d, t, r) /\ SetTask(d, t, s) /\ s.reply = r
             /\ rows' = rows /\ sent' = sent /\ disturbed' = disturbed \cup {r}
    BY <1>11, RaiseFacts
  <2>2. ASSUME NEW q \in Replies \ disturbed', Orderly(q) PROVE Orderly(q)'
    <3>1. q # r
      BY <2>1, <2>2
    <3>2. ~Holds(d, t, q) /\ s.reply # q
      BY <2>1, <3>1 DEF Holds
    <3>3. QED
      BY <1>5, <2>1, <2>2, <3>2
  <2>3. QED
    BY <1>4, <2>1, <2>2
<1>12. CASE Ack(d, t) \/ Nack(d, t)
  <2>1. PICK r \in Replies, s \in TaskState :
             /\ Holds(d, t, r) /\ SetTask(d, t, s)
             /\ sent' = sent /\ disturbed' = disturbed
             /\ \/ /\ task[d][t].step = "ack" /\ CanDeliver(rows[r], task[d][t].lease)
                   /\ rows' = [rows EXCEPT ![r] = DeliveredRow(rows[r])]
                   /\ s.step \in Resting
                \/ /\ task[d][t].step = "ack" /\ ~CanDeliver(rows[r], task[d][t].lease)
                   /\ rows' = rows
                   /\ s.step = "nack" /\ s.reply = r /\ s.lease = task[d][t].lease
                \/ /\ task[d][t].step \in {"nack", "reject"}
                   /\ Marked(d, t, r) /\ s.step \in Resting
    BY <1>12, AnswerFacts
  <2>2. ASSUME NEW q \in Replies \ disturbed', Orderly(q) PROVE Orderly(q)'
    <3>1. CASE q # r
      <4>1. rows'[q] = rows[q] /\ ~Holds(d, t, q) /\ (s.step \in Resting \/ s.reply # q)
        BY <1>1, <2>1, <3>1 DEF Holds, Marked
      <4>2. QED
        BY <1>5, <2>1, <2>2, <4>1
    <3>2. CASE q = r /\ task[d][t].step = "ack"
      <4>1. HolderHasLease(d, t, q) /\ Holds(d, t, q)
        BY <2>1, <2>2, <3>2 DEF Orderly
      <4>2. CanDeliver(rows[q], task[d][t].lease)
        BY <4>1 DEF HolderHasLease, CanDeliver
      <4>3. /\ task'[d][t] = s
            /\ \A e \in Daemons, u \in Tasks : e # d \/ u # t => task'[e][u] = task[e][u]
        BY <1>1, <2>1, TaskMoves
      <4>4. s.step \in Resting /\ rows'[q].state = "delivered"
        BY <1>1, <2>1, <3>2, <4>2, DeliveredRowFacts
      <4>5. sent'[q] = 1
        BY <2>1, <3>2, <4>1 DEF HolderHasLease
      <4>6. RestsUnsent(q)'
        BY <4>4, <4>5 DEF RestsUnsent
      <4>7. QED
        BY <2>2, <4>1, <4>3, <4>4, <4>6, HolderLeaves
    <3>3. CASE q = r /\ task[d][t].step # "ack"
      BY <1>9, <2>1, <2>2, <3>3
    <3>4. QED
      BY <3>1, <3>2, <3>3
  <2>3. QED
    BY <1>4, <2>1, <2>2
<1>13. QED
  BY <1>6, <1>7, <1>8, <1>10, <1>11, <1>12 DEF TaskStepOf

(* What runs beside the tasks.  A start finds nothing in progress that is  *)
(* undisturbed: the daemons of the label, hence all, are down.             *)
LEMMA OthersKeepOrder ==
    ASSUME OneLabel, IInv, UInv,
           \/ \E d \in Daemons, r \in Replies : Submit(d, r)
           \/ \E d \in Daemons : Start(d) \/ Recovery(d) \/ Crash(d)
           \/ \E r \in Replies : Grows(r)
           \/ SweepSelect \/ SweepUpdate
    PROVE  UInv'
<1>1. /\ rows \in [Replies -> Row] /\ sent \in [Replies -> Nat]
      /\ process \in [Daemons -> {"down", "recovering", "running"}]
      /\ interrupted \in [Daemons -> SUBSET (Replies \X Leases)]
      /\ task \in [Daemons -> [Tasks -> TaskState]]
  BY DEF IInv, TypeOK
<1>2. ASSUME task' = task, process' = process, interrupted' = interrupted, sent' = sent,
             disturbed \subseteq disturbed',
             \A r \in Replies \ disturbed' :
                rows'[r].state = rows[r].state /\ rows'[r].lease = rows[r].lease
      PROVE  UInv'
  <2>1. \A r \in Replies \ disturbed' : Orderly(r)'
    BY <1>2, OrderlyStays DEF UInv
  <2>2. QED
    BY <1>2, <2>1 DEF UInv
<1>3. ASSUME NEW d \in Daemons, NEW r \in Replies, Submit(d, r) PROVE UInv'
  <2>1. /\ rows[r].state = "absent"
        /\ \E a \in BOOLEAN :
             rows' = [rows EXCEPT ![r].state = "pending_delivery", ![r].addressed = a]
    BY <1>3 DEF Submit
  <2>2. rows'[r].state = "pending_delivery"
    BY <1>1, <2>1 DEF Row
  <2>3. \A q \in Replies : q # r => rows'[q] = rows[q]
    BY <1>1, <2>1
  <2>4. task' = task /\ process' = process /\ interrupted' = interrupted
        /\ sent' = sent /\ disturbed' = disturbed
    BY <1>3 DEF Submit, ghosts
  <2>5. ASSUME NEW q \in Replies \ disturbed' PROVE Orderly(q)'
    <3>1. Orderly(q)
      BY <2>4, <2>5 DEF UInv
    <3>2. CASE q # r
      BY <2>3, <2>4, <3>1, <3>2, OrderlyStays
    <3>3. CASE q = r
      <4>1. ~Held(q)
        BY <2>1, <3>1, <3>3 DEF Orderly, Held, HolderHasLease
      <4>2. sent[q] = 0
        BY <2>1, <3>1, <3>3, <4>1 DEF Orderly, RestsUnsent
      <4>3. \A e \in Daemons, u \in Tasks : ~Holds(e, u, q)'
        BY <2>4, <4>1 DEF Held, Holds
      <4>4. RestsUnsent(q)'
        BY <2>2, <2>4, <3>3, <4>2 DEF RestsUnsent
      <4>5. QED
        BY <4>3, <4>4 DEF Orderly, HolderIsAlone, Held
    <3>4. QED
      BY <3>2, <3>3
  <2>6. QED
    BY <2>4, <2>5 DEF UInv
<1>4. ASSUME NEW d \in Daemons, Start(d) PROVE UInv'
  <2>1. \A e \in Daemons : process[e] = "down"
    BY <1>4 DEF Start, LockFree, OneLabel
  <2>2. \A e \in Daemons, u \in Tasks : task[e][u].step = "idle"
    BY <2>1 DEF UInv
  <2>3. \A r \in Replies : ~Held(r)
    BY <2>2 DEF Held, Holds, Resting
  <2>4. \A r \in Interrupted(d) : r \in disturbed
    BY <2>3 DEF Interrupted, UInv, Orderly, RestsUnsent
  <2>5. task' = task /\ rows' = rows /\ sent' = sent /\ disturbed' = disturbed
    BY <1>4 DEF Start, ghosts
  <2>6. interrupted' = [interrupted EXCEPT ![d] = {<<r, rows[r].lease>> : r \in Interrupted(d)}]
    BY <1>4 DEF Start
  <2>7. \A e \in Daemons : \A i \in interrupted'[e] : i[1] \in disturbed'
    BY <1>1, <2>4, <2>5, <2>6 DEF UInv
  <2>8. \A e \in Daemons, u \in Tasks : task'[e][u].step = "idle"
    BY <2>2, <2>5
  <2>9. \A r \in Replies \ disturbed' : Orderly(r)'
    BY <2>5, OrderlyStays DEF UInv
  <2>10. QED
    BY <2>7, <2>8, <2>9 DEF UInv
<1>5. ASSUME NEW d \in Daemons, RecoverOne(d) PROVE UInv'
  <2>1. PICK i \in interrupted[d] :
          /\ interrupted' = [interrupted EXCEPT ![d] = @ \ {i}]
          /\ rows' = [rows EXCEPT ![i[1]] = FailedRow(rows[i[1]], TRUE)] \/ rows' = rows
    BY <1>5 DEF RecoverOne
  <2>2. i[1] \in disturbed
    BY <2>1 DEF UInv
  <2>3. task' = task /\ process' = process /\ sent' = sent /\ disturbed' = disturbed
    BY <1>5 DEF RecoverOne
  <2>4. \A r \in Replies \ disturbed' : rows'[r] = rows[r]
    BY <1>1, <2>1, <2>2, <2>3
  <2>5. \A e \in Daemons : interrupted'[e] \subseteq interrupted[e]
    BY <1>1, <2>1
  <2>6. \A r \in Replies \ disturbed' : Orderly(r)'
    BY <2>3, <2>4, OrderlyStays DEF UInv
  <2>7. QED
    BY <2>3, <2>5, <2>6 DEF UInv
<1>6. ASSUME NEW d \in Daemons, FinishRecovery(d) PROVE UInv'
  <2>1. /\ task' = task /\ rows' = rows /\ sent' = sent /\ disturbed' = disturbed
        /\ interrupted' = interrupted
    BY <1>6 DEF FinishRecovery, ghosts
  <2>2. \A e \in Daemons : process'[e] # "running" => process[e] # "running"
    BY <1>1, <1>6 DEF FinishRecovery
  <2>3. \A r \in Replies \ disturbed' : Orderly(r)'
    BY <2>1, OrderlyStays DEF UInv
  <2>4. QED
    BY <2>1, <2>2, <2>3 DEF UInv
<1>7. ASSUME NEW d \in Daemons, Crash(d) PROVE UInv'
  <2>1. /\ \A t \in Tasks : task'[d][t] = IdleTask
        /\ \A e \in Daemons : e # d => task'[e] = task[e] /\ process'[e] = process[e]
        /\ \A e \in Daemons : interrupted'[e] \subseteq interrupted[e]
        /\ rows' = rows /\ sent' = sent
    BY <1>1, <1>7 DEF Crash
  <2>2. \A t \in Tasks : task[d][t].step \notin Resting => task[d][t].reply \in disturbed'
    BY <1>7 DEF Crash, Resting
  <2>3. disturbed \subseteq disturbed'
    BY <1>7 DEF Crash
  <2>4. ASSUME NEW r \in Replies \ disturbed' PROVE Orderly(r)'
    <3>1. \A t \in Tasks : ~Holds(d, t, r) /\ ~Holds(d, t, r)'
      BY <2>1, <2>2, <2>4 DEF Holds, IdleTask, Resting
    <3>2. Orderly(r)
      BY <2>3, <2>4 DEF UInv
    <3>3. QED
      BY <2>1, <3>1, <3>2, OrderlyStays
  <2>5. \A e \in Daemons, t \in Tasks : process'[e] # "running" => task'[e][t].step = "idle"
    BY <2>1 DEF UInv, IdleTask
  <2>6. QED
    BY <2>1, <2>3, <2>4, <2>5 DEF UInv
<1>8. ASSUME NEW r \in Replies, Grows(r) PROVE UInv'
  <2>1. \A q \in Replies : rows'[q].state = rows[q].state /\ rows'[q].lease = rows[q].lease
    BY <1>1, <1>8 DEF Grows, Row
  <2>2. QED
    BY <1>2, <1>8, <2>1 DEF Grows, ghosts
<1>9. CASE SweepSelect
  BY <1>2, <1>9 DEF SweepSelect, ghosts
<1>10. CASE SweepUpdate
  <2>1. \A r \in Replies \ disturbed' : rows'[r] = rows[r]
    BY <1>1, <1>10 DEF SweepUpdate
  <2>2. QED
    BY <1>2, <1>10, <2>1 DEF SweepUpdate
<1>11. QED
  BY <1>3, <1>4, <1>5, <1>6, <1>7, <1>8, <1>9, <1>10 DEF Recovery

LEMMA OrderInductive == ASSUME OneLabel PROVE Spec => []UInv
<1>1. ASSUME Init PROVE UInv
  <2>1. \A d \in Daemons, t \in Tasks : task[d][t].step = "idle"
    BY <1>1 DEF Init, IdleTask
  <2>2. \A r \in Replies : rows[r].state = "absent" /\ sent[r] = 0
    BY <1>1 DEF Init
  <2>3. \A r \in Replies : Orderly(r)
    BY <2>1, <2>2 DEF Orderly, HolderIsAlone, Holds, RestsUnsent, Resting
  <2>4. QED
    BY <1>1, <2>1, <2>3 DEF Init, UInv
<1>2. ASSUME IInv, UInv, [Next]_vars PROVE UInv'
  <2>1. CASE UNCHANGED vars
    <3>1. \A r \in Replies \ disturbed' : Orderly(r)'
      BY <1>2, <2>1, OrderlyStays DEF UInv, vars, ghosts
    <3>2. QED
      BY <1>2, <2>1, <3>1 DEF UInv, vars, ghosts
  <2>2. CASE Next
    BY <1>2, <2>2, TaskKeepsOrder, OthersKeepOrder DEF Next
  <2>3. QED
    BY <1>2, <2>1, <2>2
<1>3. QED
  BY <1>1, <1>2, Inductive, PTL DEF Spec

(* What the two last theorems read off the invariant. *)
LEMMA UndisturbedSends ==
    ASSUME UInv, NEW r \in Replies, r \notin disturbed
    PROVE  /\ sent[r] \in {0, 1}
           /\ rows[r].state = "failed_terminal" => sent[r] = 0
<1>1. Orderly(r)
  BY DEF UInv
<1>2. CASE Held(r)
  <2>1. PICK d \in Daemons, t \in Tasks : Holds(d, t, r)
    BY <1>2 DEF Held
  <2>2. HolderHasLease(d, t, r)
    BY <1>1, <2>1 DEF Orderly
  <2>3. QED
    BY <2>2 DEF HolderHasLease
<1>3. CASE ~Held(r)
  BY <1>1, <1>3 DEF Orderly, RestsUnsent
<1>4. QED
  BY <1>2, <1>3

(* README.md 387: a reply that no crash, cleanup or lost answer has        *)
(* disturbed reaches the user at most once, with any number of daemons of  *)
(* one label and of tasks in them.                                         *)
THEOREM OneSendHolds == ASSUME OneLabel PROVE Spec => []OneSendWhenUndisturbed
<1>1. ASSUME UInv PROVE OneSendWhenUndisturbed
  BY <1>1, UndisturbedSends DEF OneSendWhenUndisturbed
<1>2. QED
  BY <1>1, OrderInductive, PTL

(* A reply that was not disturbed is not given up after it was sent.       *)
THEOREM NoFalseTerminalHolds == ASSUME OneLabel PROVE Spec => []NoFalseTerminal
<1>1. ASSUME UInv PROVE NoFalseTerminal
  BY <1>1, UndisturbedSends DEF NoFalseTerminal
<1>2. QED
  BY <1>1, OrderInductive, PTL
=============================================================================
