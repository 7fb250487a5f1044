# Verification of dayu-agent

dayu-agent runs language-model agents over financial filings. Its user interfaces
(CLI, web, WeChat daemon) call services, services call the **Host**
(`src/dayu/host`), and the Host runs agents and operations, keeps their state in one
SQLite database that several processes share, and delivers the replies. Services and the
filings storage keep further state in files, which they protect by locks and journals.
This directory models the shared state of the system: what its tables and files hold,
which transactions and file operations write them, and what the threads and processes
that race on them, fail or die may do to each other.

Contents

1. The system: components, state, interactions, what is hard
2. The modules and how they correspond to the code
3. The runs: what each checks, with which bounds
4. Fairness
5. What is proved
6. Where the code and its documents disagree
7. What is not modelled, and what is only model-checked
8. Plan

## 1. The system

### 1.1 Processes and threads

There is no server that owns the state. Every CLI command, the web application
and each WeChat daemon (one per `--label`) is a process with a Host of its own; the
processes share a workspace directory with one SQLite file, and meet in its tables.
Inside a process an asyncio loop runs agent streams, worker threads run operations
and the write pipeline, a `CancellationBridge` thread and a deadline timer accompany
each run, and a signal handler (shutdown coordinator) settles what is still running.
Every write is one `BEGIN IMMEDIATE` transaction (`host_store.py`), so the atomic
step of the models is one transaction; what goes wrong goes wrong *between*
transactions.

### 1.2 Inventory

| component | state | operations | what makes it correct |
|---|---|---|---|
| Reply outbox `host/reply_outbox_store.py` | rows: delivery key, content, state, lease, attempts, age | submit, claim, mark_delivered, mark_failed, stale cleanup, delete with the session | leases fence; an acknowledged delivery lasts; one live entry per key; content never changes |
| WeChat delivery `wechat/daemon.py` | tasks of the loop, the replies each holds, the instance lock | recover interrupted deliveries, scan, claim, send, ack or nack | only what was sent is recorded delivered; sends are bounded; one send when nothing is cut off; nothing waits for ever |
| Run registry `host/run_registry.py`, `contracts/run.py` | rows: state, requested reason, cancel reason, owner | register, start, complete, fail, request_cancel, mark_cancelled, mark_unsettled, orphan cleanup | outcomes stay; the first request decides |
| Executor `host/executor.py`, bridge, deadline watcher, token | position of each run, its timer, bridge, permits, resource entry | `run_operation_sync/stream`, the agent streams, `_finalize_*`, `_finish_run` | success is in the transcript; every way out ends the run; nothing it held outlives it; a cancel ends it |
| Shutdown coordinator `process_lifecycle/` | runs to settle | `settle_active_runs`, the interrupt that follows | the settle and the executor do not contradict each other |
| Concurrency governor `host/concurrency.py` | permits table | `acquire_many`, release, reaping of the dead | limits hold; all lanes or none; waits end |
| Pending turns `host/pending_turn_store.py`, `host/host.py` | one row per (session, scene): text, source run, state, lease, attempts, snapshot | upsert, acquire, rebind, release, record failure, settle, delete, three clean-up branches, the resume gate | no turn answered twice, attempts bounded, snapshot fits the state, no turn stuck |
| Sessions and barrier `host/session_registry.py`, `_session_barrier.py` | session state | ensure active, close, clear history, close idle | what is cleared stays so; a half-cleared session is locked; a closed one is empty and stays closed |
| Event bus `host/event_bus.py` | queues of subscribers | publish, subscribe, close | a subscriber gets the terminal event or the end |
| Conversation archive `host/conversation_*.py` | transcript with revision, file lock | compare-and-swap append, compaction, clear | no turn lost or resurrected |
| Process liveness, locks `process_liveness.py`, `state_dir_lock.py` | files, pids | is the owner alive, hold a lock | used by all of the above |
| Host store `host/host_store.py` | connections | transactions | atomic and serial |
| Scene preparation, agent building | none shared | pure assembly of prompts and tools | - |
| Engine `engine/` | per run | agent loop, runners, tools | bounded loops |
| Model circuit breaker, duplicate-call guard `engine/` | failure counts, the last calls | record, ask, half-open trial | one trial at a time; no false duplicate |
| Services `services/` | per call | business orchestration, write pipeline | - |
| Model-configuration change `services/write_model_configuration_*` | the scene manifests; per transaction an intent, a consumption, a receipt; clearances and revocations | plan, apply, roll back, recover by hand, clear, revoke | a receipt says what stands there; edits survive; what was interrupted only goes back; the gate opens only by an earned clearance |
| Filings: ingestion jobs `fins/ingestion` | jobs of a process | submit, run, cancel, retain | one running job per key; every job ends |
| Filings: file storage `fins/storage` | per ticker a directory, its staging copy, its backup, a lock | begin, commit, roll back a batch; recovery at opening | what was committed is kept; recovery leaves the living alone |
| Filings: download, processing `fins/` | per call | download, parse | - |
| Conversation labels `cli/conversation_label*` | label files, file lock | create, rename, remove | one label, one session |
| Front ends `cli/ web/ gui/ render` | none | parsing, routing, layout | - |
| Configuration, prompting, startup | read once | - | - |

### 1.3 How they interact

    service -> Host.run_* -> executor --register/start/complete--> runs table
                               |  |                                 ^   ^
                               |  +--acquire_many/release--> permits|   | orphan cleanup (any process)
                               |  +--accept/prepare/bind/delete--> pending turns
                               |  +--persist_turn--> transcript     |
                               +--token <-- bridge polls -----------+
                               +--token <-- deadline timer (request_cancel)
    signal handler -> Host.cancel_run_and_settle --> runs, pending turns, permits
    service -> submit_reply --> outbox <-- claim/ack/nack -- WeChat daemons
    host cleanup / startup --> outbox, permits, runs, pending turns

    Host.cancel_session / clear_session_history --> session state, then runs, turns,
                                                    replies, archive, one after the other
    every writer of rows --ensure_session_active--> session state, then its own write
    write commands (CLI) --file lock--> manifests, intents, receipts   <-- editors, no lock
    fins pipelines --ticker lock--> staging, directory, backup   <-- recovery at opening

Most components talk through rows; the in-process channels are the cancellation
token, the resource registry `_run_resources` and the event bus. The model-configuration
commands and the storage of filings share nothing with the Host but the workspace.

### 1.4 What is hard to test

`PROJECT.json` lists each hazard at its line. They fall into six groups.

* *Read, decide, write in two transactions.* `mark_failed` and `mark_delivered` of the
  outbox, its stale cleanup, `mark_cancelled`, `_finalize_cancelled`, the orphan cleanup, the
  resume gate and all branches of the turn clean-up read in one transaction and write in
  another; some carry a compare-and-swap, some do not.
* *Two who both may end a thing.* The executor and a settle release the same resources and
  write the same row; a resumer and a cleaner delete the same turn.
* *Crashes between steps.* A daemon between send and ack, a process with a permit, a lease or
  a row in RUNNING: the recovery is always somebody else's clean-up, which must not hit the
  living.
* *Several stores, one meaning.* A clear or a close empties an archive and three tables one
  after the other; a batch moves two directories; a change rewrites several manifests. Each may
  stop between any two steps, and what it left is judged later by what can be seen.
* *Retries.* Sends whose answer was lost, repeated submits, resumed turns, answers of calls that
  have been replaced.
* *Waiting.* Lanes held by others or the dead, a cancel that only a polling thread will see,
  a scan that stops at the first exception.

## 2. The modules

| module | stands for | kind |
|---|---|---|
| `OutboxRows` | the states of a reply row and the SQL that moves it | operators shared by two state machines |
| `ReplyOutbox` | `SQLiteReplyOutboxStore` and its concurrent callers | state machine |
| `DeliveryLedger` | what the outbox promises | abstract specification |
| `WechatDelivery` | the WeChat daemons over the outbox | state machine, composes `OutboxRows` |
| `RunRows` | the rows of the runs table, the transition table | operators |
| `RunLifecycle` | one hosted run against cancel, deadline, settle, orphan cleanup | state machine, composes `RunRows` |
| `RunPromise` | what the Host promises about one run | abstract specification |
| `ConcurrencyGovernor` | `SQLiteConcurrencyGovernor` | state machine |
| `LaneSlots` | what the governor promises | abstract specification |
| `PendingTurn` | the pending turn of one slot, who writes it and who cleans it | state machine |
| `SessionHistory` | one session: its turns, archive, compaction, clear and close | state machine |
| `StorageBatch` | the batches of one ticker's directory and their recovery | state machine |
| `AtomicBatches` | what the batches of a ticker promise | abstract specification |
| `RoutingChange` | transactions on the scene manifests and the gate | state machine |
| `ModelCircuit` | the circuit breaker of one model and the calls through it | state machine |
| `MC*` | the small instances and their symmetry | for TLC |
| `*_proofs` | theorems | for TLAPS |

### 2.1 ReplyOutbox

A store method is a few steps of one caller. `call[c]` is where caller `c` is and what
its locals hold; `rows` is the table.

| action | code |
|---|---|
| `SubmitCheck`, `SubmitInsert`, `SubmitLookup`, `SubmitRead` | `submit_reply`: write barrier, insert, on a conflict of the unique key look the row up and compare the content |
| `ClaimUpdate`, `ClaimRead` | `claim_reply`: UPDATE under conditions, commit, read back |
| `AckCheck`, `AckUpdate`, `AckRead` | `mark_delivered`: read, UPDATE with the lease in the WHERE clause, explain a miss from a read |
| `NackCheck`, `NackUpdate`, `NackRead` | `mark_failed`: pre-check, UPDATE, read |
| `SweepSelect`, `SweepUpdate` | `cleanup_stale_in_progress_deliveries`: SELECT by age, then one UPDATE per id |
| `DeleteBySessionId` | the session's clear |
| `SessionToggles`, `Grows` | a session that is closed and opened, time (a row's age flag) |
| `Crash` | the caller's process dies between two steps |

A lease can be read by everybody, so any caller may ack or nack with any lease handed out
so far. `acked` is a ghost: it records which acknowledgements the code gave.
`PROJECT.json` maps each action to its lines.

### 2.2 WechatDelivery

Each daemon has delivery tasks that switch only where they await the send, as asyncio does;
a store call is one step because its inner races are the subject of `ReplyOutbox`. The
daemon starts by listing interrupted deliveries of its label (`Recovery`), nacks them with
the listed lease, then runs; a task scans, claims, sends, acks or nacks. The two list calls of
a scan are one step.

| action | code |
|---|---|
| `SendSucceeds`, `Ack` | `send_text_message` returned, then `mark_delivery_delivered` |
| `SendRefused` | iLink answers with `ret` # 0 or a 4xx status: `IlinkApiError`, terminal |
| `SendBroken` | a connection that breaks, a 5xx status, a body that is not JSON: `_request_json` makes an `IlinkApiError` of each, terminal too, though the message may have arrived |
| `SendTimesOut` | `httpx.TimeoutException` is passed on: retryable; its text may be empty |
| `MarkFailed`, `Nack` | the nack in the `except`, for a reply out of attempts or without an address, and after an ack that failed; when it raises, the scan is over |
| `MarkFailedWordless` | a nack with an empty text: `mark_failed` raises ValueError before its UPDATE, the scan is over and the row stays in delivery |
| `AckRaises` | the store raises in the ack (a locked database): retryable |

`sent` counts what reached the user; `disturbed` marks the replies hit by a crash, a clean-up, a
send without an answer or a store error; `parked` those that a nack without a text left in
delivery, until a clean-up or the next start of the daemon. `Labels` gives each reply and each
daemon its `wechat_runtime_identity`. A nack follows the send that raised without an await in
between, so that both are one step.

### 2.3 RunLifecycle

`task[r].at` is where the executor is in run `r`: from `StartRun` over lane acquisition, `Hold`
(the resource entry), the stream, `Check`, `Persist`, `Complete`, `SettleStream` to `Finish`, with every exception
path (`Fail`, `Finalize*`, `Reconcile`, `Unwind`). Against it run `BridgePoll`, the deadline, the
user's cancel, the steps of `cancel_run_and_settle`, `KeyboardInterrupt` on the main thread, the
orphan cleanup (choose, then write) and crashes. `kind` is the entry point: an operation
(`run_operation_sync`, `run_operation_stream`), an agent of a scene without a conversation
(`oneshot`: `session_state` is None, nothing is persisted) or with one (`turn`), or
`replay_agent_and_wait` (`replay`), which registers no turn, never calls `persist_turn`, and builds
its agent outside every `try` (`BuildRaises`). A run is on the main thread (frozen while its signal
handler settles, then interrupted) or on a worker. `pending` is the turn of this run, simplified:
whether it exists; its sharing with resumed runs is the subject of `PendingTurn`.

Who ends a run pops its entry from `_run_resources` in one step and releases what it popped in
another: `Finish` and `FinishReleases` for the executor, `SettlePop` and `SettleReleases` for a
settle. Whoever finds no entry goes on at once, while the other may still be releasing. A permit
whose release fails is logged and stays in the table (`permit` is "stuck") until the governor's
reapers find its owner dead. `_finish_run_async` works in a thread of its own, which a signal
handler on the main thread does not stop (`FinishesApart`).

The second complete in `_settle_agent_stream_completion` is a branch of `SettleStream`: a run that was
neither completed in its stream nor cancelled does not come that far (a mutant that forgets the
cancellation does).

Simplifications: the session stays active; adjacent reads are merged where nobody can tell;
permits, timer and bridge of one release are one step (`_release_resources`); a liveness test
that may be wrong is the constant `Misjudges`; a consumer that goes away, or a replay whose agent
cannot be built, is `Abandons`; a bridge that gives up after repeated errors is `BridgeFails`.

`Promise(r)` maps a run to `RunPromise`: `fate` and `wish` are read off its row (how it ended, or
why it was cancelled; the first reason recorded), `pressed` is that a settle has reached it, `owed`
that the turn of a conversation is not in the transcript yet, `asks` that the pending turn is there, `told`
that CANCELLED was published.

### 2.4 ConcurrencyGovernor

A call asks, looks at its token and deadline (`look`), tries one transaction (`try`), is
denied, perhaps reaps (list the dead in one step, delete the listed in another) and turns
again. Time is abstracted: any denial may be the last one. `stale` holds what a reaper has
listed and not yet deleted. All processes read the same configuration, and a permit is named
by call and lane because permit ids are fresh UUIDs.

### 2.5 PendingTurn

One slot of `UNIQUE(session, scene)`. An execution (`Askers` by the user, `Resumers` by
`resume_pending_turn_stream`) is also its run and its lease. A resumer reads the row
(`ReadTurn`), passes the gate against the source run of *that* row (`Validate`), acquires
(`Acquire`, refused or purged), releases, fails, or goes on as an ordinary execution that
binds the turn to its own run. An ordinary execution accepts, prepares (both upserts),
persists its answer (`Persist`), completes its run in another transaction (`Complete`), marks the
turn sent and deletes it; or fails, reconciles, records the failure.
`kept` says that the answer of an execution is in the transcript, `asked` for which turns it
registered, `late` that its acquisition or upsert is one that `AnsweredOnce` excepts. An execution in
`Timed` has a deadline: whoever cancels its run may find the timeout recorded first, and
`mark_cancelled` keeps that reason (`Cancels`).
`ListTurns`, `RollBack`, `Judge` and `Delete` are the branches A, B and C of the clean-up:
A with its compare-and-swap on `updated_at`, B and C by id alone.

Assumptions: the session is ACTIVE and its scene resumable; the store raises only where the
code is written for that (best-effort deletes and releases); the orphan cleanup reaps only the
dead; consumers do not abandon streams; one cleaner at a time; rows of runs are not deleted. The
state of a run is reduced: `failed` is FAILED or UNSETTLED. The comparison of `updated_at`
becomes one of whole rows; the two could differ only if writes in between led back to the same
row, which a fresh lease rules out.

### 2.6 SessionHistory

`session` is the row of the session, `archive` the file with its revision, `runs`,
`pending` and `replies` the rows that belong to the session, `work[t]` where turn `t` is.

| action | code |
|---|---|
| `Begin`, `AskAccept`, `AskPrepared`, `AskReply`, `AskRegister` | `ensure_session_active`; each is followed by its write in a step of its own |
| `Register`, `Accept`, `Prepare`, `Prepared`, `Answer`, `Persist`, `Complete`, `Reply` | `run_agent_stream` and the service that submits the reply; `Persist` is `persist_turn` with its comparison of revisions |
| `Rebind`, `Resume`, `Die`, `Cleanup` | `resume_pending_turn_stream`; a process that dies under a turn; the orphan cleanup |
| `Compact` | the end of the background compaction: it saves if its revision is still there |
| `BeginClearing`, `LookForRuns`, `LookForPending`, `LookForReplies`, `Load`, `Empty` | `clear_session_history` up to the archive: barrier, preflight, cut |
| `DeletePending`, `DeleteReplies`, `Judge`, `Lock`, `Release` | the rest: deletes with up to `MaxRetry` rounds, what remains, `mark_clearing_failed`, `end_clearing` |
| `DieClearing` | its process dies |
| `Close`, `CancelRuns`, `SweepReplies`, `SweepPending` | `cancel_session` |

The barrier is a question and no lock: a writer that was let through writes whenever it
gets to it. `history.late` marks such writers, and the properties except them and nobody
else. Turns stand for their content, the replay stash (memory of one process) is left out,
and MCSessionHistory compares states by what matters for the future (its `View`: a
revision only as far as it is still the archive's, an ended turn only as ended); the
theorems of section 5 do without that.

### 2.7 StorageBatch

The directory of one ticker, the staging copy and the backup of each batch, the file lock,
and where each process is. A directory is the set of batches that wrote it and whether it is
whole: a move does all or nothing, the deletion of a tree may stop half-way. The journal
decides nothing about directories and is left out, but for the failure of writing it.

| action | code |
|---|---|
| `Open`, `SweepBatch`, `ListBackups`, `SweepBackup`, `Opened` | `ensure_batch_recovery`, `recover_orphan_batches`, `_recover_orphan_backup_dirs`: listings first, each entry later |
| `Begin`, `RollBack` | `begin_batch` with what is written into the copy; `rollback_batch` |
| `MoveAway`, `Swap`, `DeleteBackup`, `BackupDeleted`, `Committed` | the steps of `commit_batch` |
| `Raise`, `Handle`, `Removed`, `Restore`, `Failed` | a step that raises, and the handler, which decides from what exists and may fail itself |
| `Crash` | a process dies anywhere |

`Content` maps this to `AtomicBatches`: what the repository holds is the directory or, while that
is away or being deleted, the backup that recovery or the handler will put in its place. Who looks
for the directory itself between the two moves finds none; the promise is not about him.

### 2.8 RoutingChange

Changes, operator roll-backs and manual recoveries have one protocol, so that a
transaction is its plan (the routing it starts from, the one it leads to, the scenes it
rewrites) and `work` is the command that holds the lock. A command verifies, writes its
intent (`Begin`), consumes its approval (`Consume`), then looks at and replaces one
manifest after the other (`Check`, `Replace`), looks at the whole (`Preflight`) and writes
the receipt (`Record`). Any failure leads to `UndoCheck`, `Unreplace`, `Confirm`. `Abandon`
is a process that dies or an exception outside the handler; the same command run again
finds its consumption and restores (`Resume`). Beside it `Edit` is a person or a tool that
knows no lock. `Gate` is `_assess_gate_locked`, `Clear` and `Revoke` issue and revoke a
clearance.

Abstractions: manifests are their contents; the scenes of a plan are rewritten in any
order (the code has a fixed one); the latest receipt is the last one in the order of
writing, where the code compares `completed_at`, which has seconds, and then the id;
artifacts are valid and approvals are given (one that has expired does not begin); a change is
planned whether the gate is open or not, which is asked when it is applied; the
exports and the audit timeline only read.

### 2.9 ModelCircuit

`entry` is the row of one model, `stage` and `permit` where each call of `AsyncOpenAIRunner.call`
is and what it was given. Rows of different models share nothing, and the store in memory has the
same methods under a mutex.

| action | code |
|---|---|
| `AdmitClosed`, `AdmitProbe`, `TakeOver` | the three ways through `before_call`; a refusal changes nothing |
| `Elapse` | `_retry_after_locked` reaches 0: the cooldown of an open circuit, the lease of a probe |
| `Settle` | the first DONE or ERROR: `record_success` or `record_failure` |
| `SettleRaises` | the record raises before or after its commit, and `finally` records once more |
| `Abandon` | `record_abandoned` in `finally`, which may raise itself |
| `Die` | the worker dies, or the stream is never closed |

A call may stay in flight for any time, so that answers come in any order. Workers may have
different thresholds. `current` is history: who was let through since the circuit last changed
its state or its prober. The clock does not go back.

## 3. The runs

State counts are distinct states; the longest runs, `session` and `wechat`, take two to three minutes.

| run | cfg | instance | states | depth |
|---|---|---|---|---|
| `outbox` | `MCReplyOutbox` | 2 ids, 1 key, 2 contents, 2 leases, 2 callers; symmetric | 44,392 | 29 |
| `wechat` | `MCWechatDelivery` | 1 daemon that may die and start again, 2 tasks, 2 replies, 2 attempts, 1 crash, 1 clean-up | 531,093 | 43 |
| `wechat_labels` | `WechatDelivery_Labels` | 2 daemons of two labels, 1 reply | violated | |
| `lifecycle` | `MCRunLifecycle` | 1 run of any of 5 kinds, 2 processes, 2 settles, worker or main thread, misjudging, abandonment, bridge failures; symmetric | 1,243,007 | 35 |
| `lifecycle_ends` | `RunLifecycle_Ends` | 1 run on a worker, 2 processes, 1 settle, misjudging | 562,768 | 30 |
| `governor` | `MCConcurrencyGovernor` | 2 calls of 2 processes, 2 lanes of one permit, failing releases | 31,174 | 21 |
| `pending` | `MCPendingTurn` | 1 asker, 2 resumers, one of them with a deadline, 2 attempts | 428,274 | 34 |
| `session` | `MCSessionHistory` | 2 turns, 1 clear, 1 resume, 2 rounds of deleting, a close, failures, crashes; symmetric, with a view | 2,438,664 | 56 |
| `storage` | `MCStorageBatch` | 2 processes, 3 batches, failures and crashes everywhere; symmetric | 860,698 | 106 |
| `storage_lost` | `StorageBatch_Lost` | the same without failures of the file system | violated | |
| `circuit` | `MCModelCircuit` | 4 calls, one of a worker with threshold 1, three with 2 | 37,906 | 15 |
| `routing` | `MCRoutingChange` | 2 scenes, 2 models and a foreign content, 2 changes, 1 roll-back, 1 recovery, 1 edit; symmetric, with a view | 980,750 | 56 |

### What they show

* **outbox**. A row has a lease exactly while it is in delivery or ended
  (`LeaseContract`); a lease that was lost never comes back (`LostLeaseStaysLost`); every
  store step is a step or a stutter of `DeliveryLedger` (`ImplementsLedger`): one live entry
  per key with unchanging content, delivered stays delivered. Two callers suffice for every
  race in the store because a method holds nothing between its steps but a row it has read; the second
  content makes the key conflict matter. Leases are fresh UUIDs, so `Leases` bounds the
  number of claims: two are one claim that is lost and one that follows it, on one row or on
  two; the theorems of section 5 need no such bound.
* **wechat**. DELIVERED is only written of what was sent (`DeliveredWasSent`), a
  reply reaches the user at most `MaxAttempts` times over all tasks, restarts and clean-ups
  (`SendsAreBounded`), at most once unless it was disturbed (`OneSendWhenUndisturbed`), and a
  terminal failure is never declared over an undisturbed message that arrived
  (`NoFalseTerminal`). A send without an answer is a disturbance: over it the code may declare a
  terminal failure (`SendBroken`) or send again (`SendTimesOut`), whether it arrived or not. While
  the daemon runs, a claimable reply is delivered or given up (`WaitingReplySettles`), whatever
  scans are broken off by other replies; excepted are a daemon that is dead and a reply that was
  parked by a nack without a text (section 6). One crash and one clean-up, each at
  any moment, with two attempts reach every combination of lease that is lost and regained. The
  instance lock lets one process of a label run at a time, so one daemon that dies and starts
  again stands for its successors; the theorems of section 5 have any number.
* **lifecycle**. A finished run keeps state and reason whoever still writes
  (`OutcomeStays`), except for the executor's own completion of a run that was taken for an
  orphan; the run of a conversation succeeds only with its turn in the
  transcript (`SuccessIsPersisted`); a published CANCELLED agrees
  with the row (`CancelledIsTrue`); of deadline and user the first recorded decides
  (`FirstRequestDecides`); an ended executor left no registry entry, and, once a
  settle that popped the entry has released, no timer, no poller and no permit but one whose release failed
  (`NothingOutlivesTheRun`); the question of a failed, timed out or orphaned run is kept
  (`ResumableTurnStays`). For each run every step is one of `RunPromise` or none
  (`ImplementsPromise`): this has row, transcript, question and event agree at every moment, where the
  other properties look at two of them. Runs do not share state except through the lanes and the turn, both
  modelled elsewhere, so one run suffices. The second settle is another shutdown hook that
  reaches the same run.
* **lifecycle_ends**. Every way out of an executor leaves its run terminal
  (`EndedIsTerminal`) and a recorded cancel ends the run although nothing makes its stream
  end or its lane come free (`CancelEndsTheRun`). An abandoned stream and a replay whose agent
  cannot be built are excluded: section 6.
* **governor**. The table implements `LaneSlots` (`ImplementsSlots`): limits hold and a call has
  all its lanes or none. Waits end if runs end
  (`EveryWaitEnds`), and a cancelled wait ends even if no lane comes free (`CancelledWaitEnds`).
  Two calls that both want both lanes of one permit are the classic deadlock, two processes the
  case of a dead owner.
* **pending**. Attempts count acquisitions exactly and never exceed the limit
  (`ResumesAreBounded`); the transcript has no more answers to a turn than it was asked for
  (`AnsweredOnce`), where answers do not count whose run was lost between `persist_turn` and
  `complete_run`, and turns are excepted that someone acquired after a stale gate or that a run registered
  again after it had timed out (section 6); a lease ends by its holder or by age
  (`LeaseIsFenced`); a lease whose holder ended is freed (`StuckLeaseIsFreed`); a turn that is over
  is removed (`OverIsForgotten`). Two resumers with two attempts are needed for the fencing of one
  lease against another and for a retry after a roll-back. One deadline lets a run end as timed out
  as well as cancelled; deadlines of all executions are covered by the theorems.
* **session**. A turn that a clear erased, or that was prepared from what it erased, does
  not come back into the archive or its memory (`ClearedStaysCleared`); a turn that was
  persisted stays until a clear (`PersistedStays`); a session half cleared takes no new work
  (`MixedIsLocked`); a closed one is empty when `cancel_session` returns (`ClosedIsSwept`) and
  stays closed (`ClosedStays`). Two turns, a compaction and a resume are every kind of writer
  twice or beside another; one clear meets each of them at each of its steps. What the
  exceptions in the formulas stand for is in section 6.
* **storage**. Every step is one of `AtomicBatches` or none (`ImplementsAtomicBatches`): one batch at
  a time adds what it wrote, all at one moment; one that failed or died is there as a whole or not
  at all; one that was committed stays. Nobody but its process touches what a living batch
  works on (`LiveIsUntouched`). Three batches are one that committed, one that dies over it and
  one that comes after; two processes are one that works and one that opens and sweeps.
* **routing**. A receipt is true while nobody edits (`LastReceiptIsTrue`), an edit that a
  command could have seen is not written over (`EditsSurvive`), an interrupted transaction only goes
  back (`AppliedOnce`), the gate opens only by a clearance of the latest recovery
  (`GateIsEarned`). Two scenes make a transaction half-done, two changes let one overtake an
  interrupted other; a second recovery and further edits are covered by the theorems only. The
  view forgets what nothing reads again: all but the last receipt of the log, the plans of changes
  that came to nothing, and that a transaction with a receipt was once interrupted.
* **circuit**. At most one call in flight may still decide over a half-open circuit
  (`OneProber`); an answer from before the circuit's last change of state or prober changes
  nothing, even when its record is tried twice (`LateAnswersChangeNothing`); a closed
  circuit is below the highest threshold (`ClosedIsBelowThreshold`); who keeps asking is let through although
  probes hang or die (`NobodyIsShutOut`). Four calls open the circuit, probe it, replace the
  probe, close it, and let the displaced answer come afterwards; the lower threshold makes one
  failure open it while calls of the other workers are in flight.

The violated runs are described in section 6.

Each property of a passing run has a mutant in `PROJECT.json`: an operator in the module
(such as `Deaf`, `HandleAnyway`, `ResumeForwards`, `BindNothing`) that changes one mapped
definition the way a plausible bug would, and under which TLC finds that property
violated.

### Deadlock

Only `outbox` checks it: its environment always has a step. In the other models the system may
stop, all runs having ended or all processes being dead, and their cfgs say
`CHECK_DEADLOCK FALSE`; that nobody waits for ever is what the liveness properties are for.

## 4. Fairness

* **WechatDelivery**: weak fairness of each daemon's recovery and of each task's steps. The event
  loop runs every ready task, sends time out (httpx timeouts), the background scan repeats.
  Nothing is assumed to restart a dead daemon.
* **RunLifecycle**: weak fairness of the executor's own steps, of a bridge poll and of a settle's
  steps, `FinishReleases` and `SettleReleases` among them: a thread that can go on does. Nothing is asked of an uncancelled stream or a full lane,
  so that the cancel alone must end the run.
* **ConcurrencyGovernor**: weak fairness of a turn of the loop, strong fairness of listing stale
  permits: the loop's throttle skips most reaps but lets one through every five seconds.
  `EveryWaitEnds` has its premise in the formula: work ends, and no release fails.
* **PendingTurn**: weak fairness of `Age` (time passes), of the clean-up (it runs at starts and
  session creation, again and again) and of the orphan cleanup.

* **ModelCircuit**: weak fairness of the clock and of each caller's next attempt (services and
  users ask again). Nothing is asked of a call in flight.

The abstract specifications, `ReplyOutbox`, `SessionHistory`, `StorageBatch` and `RoutingChange`
have no fairness: their properties are safety. For the last three that is the code's own
promise: an interrupted clear, commit or change goes on only when somebody opens the
repository or runs the command again.

## 5. What is proved

TLAPS (SMT by Z3, Zenon, LS4 for the temporal steps) checks eight modules from nothing, for all
values of the constants. Every safety property of the passing runs is among the theorems; liveness
is left to TLC. The type invariants of the nine state machines are proved and have no place in a
run, where TLC has more to ask.

**`ReplyOutbox_proofs`**: `TypeCorrect`, `LeaseContractHolds`, `AckedIsDurableHolds`,
`LostLeaseStaysLostHolds`, `ImplementsLedgerHolds`. Assumptions: `NoneIsFresh` (the null value is
no id, key or content) and the one of `OutboxRows` on `NoLease`. The inductive invariant `IInv` adds to
the typing three parts: `RowIsSound` for every row (lease contract, and that only generated ids
and leases occur), `CallIsSound` for the locals of every call, and that acknowledged pairs are
delivered. Its crux is a conjunct of `CallIsSound`: between the UPDATE of `mark_delivered` that
hit a row and the read that answers the caller nobody revives the row. `AckedIsDurable` alone is not
inductive without it. One lemma shows for each kind of step what it does to rows and calls (`ReadStep`,
`WriteStep`, `AnswerStep`), so each method's proof is about its own conditions.
The refinement goes method by method: an insert is `Accept`, the acking UPDATE is `Deliver`, the
session's delete is `DropAll`, everything else a stutter (`HiddenSteps`).

**`ModelAccess_proofs`** has the two gates that a call to a model passes; they share no state, and
`ModelCircuit` has names of its own so that one module can extend both.

`ConcurrencyGovernor`: `TypeCorrect`, `LaneIsBoundedHolds`, `AllOrNothingHolds`,
`ImplementsSlotsHolds`. Assumption: `ConfigAssumption` (finitely many calls, limits are natural
numbers, calls and processes are told apart). The invariant `IInv` adds `StaleIsDead`, the crux of the
reaper: what was listed belongs to a dead process until it is deleted, since no one is reborn
under an old identity; `DeadAreStill`; and `AskedForSome`. Without `StaleIsDead`, `AllOrNothing` is not
inductive: a listing could name the permits of a working call. `GrantIsBounded` counts with the
theorems of finite sets.

`ModelCircuit`: `CircuitTypeCorrect`, `OneProberHolds`, `LateAnswersChangeNothingHolds`,
`ClosedIsBelowThresholdHolds`, for any calls. Assumption: `ThresholdAssumption` (thresholds are positive);
`ClosedIsBelowThresholdHolds` supposes that there is a call. The invariant `CircuitInv` speaks of the permits
that can still count, those in flight of the row's generation. `NoneAhead`: none is of a later generation,
so that the next one is fresh. `OpenIsFresh`: when the circuit opens nobody has a permit that counts.
`ProbeIsOne`: in a half-open circuit the last probe's is the only one. `ClosedIsCurrent`: a circuit that a
probe closed keeps its generation, and the probe may still be in flight because its record raised, but
it is a probe's, which a closed circuit does not listen to; all other permits that count were given
since (`LateAnswersChangeNothing` needs this).

**`PendingTurn_proofs`**: `TypeCorrect`, `SnapshotMatchesHolds`, `ResumesAreBoundedHolds`,
`LeaseIsFencedHolds`, `AnsweredOnceHolds`, for any number of askers and resumers. Assumption: `ConstantsAssumption`
(askers and resumers are told apart, `None` is nothing else, the limit is positive). None of
them is inductive alone. `Counted` (the row's attempts are those who acquired it) needs `Fresh`:
the id an ask is going to insert is known to no execution yet, so that a new row starts with nobody
counted. It needs `FrameIsSound` too: nobody has a lease before the acquisition. `LeaseIsFenced`
needs `CleanerIsSound`: the cleaner holds a RESUMING row only if that was old when it was listed,
so that a roll-back whose comparison succeeds hits an old row. `TurnIsKept` says what every step but an
acquisition and an upsert does to the slot (nothing, a delete, or a write that keeps id and attempts), and
`StepPreserves`, `MovePreserves` and `IdlePreserves` are the three ways such a step preserves `IInv`;
`AcquirePreserves` counts with the theorems of finite sets.
`AnsweredOnce` has an invariant of its own, `AInv`: for every turn those who have answered or
may still, but for answers whose run was lost (`Candidates`), are at most those who were asked, and fewer while the turn's source is
none of them (`Spare`). An ask adds one to both sides, an upsert that moves to another turn takes one
from both, a run that dies makes one spare, and a resume that binds uses it: `TakenOver` says that
it takes over from a dead run, because the gate saw that run dead and the dead stay so.
This covers users who ask again while others resume, which the instance of `pending` does not have.

**`SessionHistory_proofs`**: `TypeCorrect`, `PersistedStaysHolds`, `ClosedStaysHolds`,
`MixedIsLockedHolds`, `ClosedIsSweptHolds`, `ClearedStaysClearedHolds`, for any number of turns, clears,
resumes and rounds. `MixedIsLocked` follows from `OwedIsNoted`: what a clear still owes is among what it has
noted as residual, until it gives up and locks. `ClosedIsSwept` needs `OnlyLateWrite` (in a session that is
not active only those are at a write who had been let through) and `SweptSoFar` (what the close has
already been over holds nothing else). `ClearedStaysCleared` has the longest argument, `Erasure`: beside
`OnlyLateWrite`, that a clear has looked for runs before it empties (`ClearHasLooked`), that a compaction
whose revision is still there has seen all turns of the archive (`CompactionFits`), that a turn in the
archive has begun (`ArchivedHasBegun`), and that an erased turn is late or at a place from which it
writes no more (`ErasedIsOver`).

**`StorageBatch_proofs`**: `TypeCorrect`, `LiveIsUntouchedHolds`, `CommittedIsKeptHolds`,
`ImplementsAtomicBatchesHolds`, for any processes and batches. `LiveIsUntouched` is the lock alone. `CommittedIsKept` is not inductive; `Kept`
adds `Lone` (only one batch has left anything), `TargetKeeps` (the directory has everything whenever it
is there, unless the handler is deleting it), `BackupKeeps` (a backup that is not whole stands beside
such a directory) and `UnderWay` (what copy, directory and backup have at each step of commit and
handler). The refinement needs more than that nothing is lost: `Exact` says that copy and directory have
what was there before and the one batch at work, nothing else, so that `Swap` adds this batch and
the handler takes away no other. `InsideBatch` and `AfterStep` say once what is known before and after a step of
a batch, `ResolvedIsTheSame` and `BesideBatches` that recovery changes nothing of what is held.

**`RoutingChange_proofs`**: `TypeCorrect`, `EditsSurviveHolds`, `AppliedOnceHolds`,
`LastReceiptIsTrueHolds`, `GateIsEarnedHolds`, for any scenes, contents, transactions and number of edits.
`EditsSurvive` needs `KnowsTheScene`: at a replacement the manifest is what the command has looked at,
unless it was edited since. `AppliedOnce` needs `TornGoesBack`: an interrupted transaction is not at a
forward step. `LastReceiptIsTrue` needs `Truth`: a command that is about to write its receipt has just seen what
this will say, and what the last receipt vouches for stays until the next command has consumed its
approval. `GateIsEarned` needs `ClearedIsDone` (only a recovery with a receipt has a clearance, so
that a newer recovery starts without one).

**`WechatDelivery_proofs`**: `TypeCorrect`, `DeliveredWasSentHolds`, `SendsAreBoundedHolds`,
`OneSendHolds`, `NoFalseTerminalHolds`, for any daemons, tasks, replies, attempts, crashes and
clean-ups. Assumptions: `LeasesAreNumbers` (a lease is the number of the attempt that took it, which is how the
model names fresh UUIDs), the attempts are positive. `IInv` has the types and that a
DELIVERED row was sent. `SendsAreBounded` needs `SInv`: the messages sent and the tasks at a send
(`Senders`, counted with the theorems of finite sets) have an attempt each, and no claim lets `attempts` pass
the limit. `OneSendHolds` and `NoFalseTerminalHolds` suppose `OneLabel`, all daemons having one label as in
the run: `UInv` says that an undisturbed reply in delivery has one task that holds it, with the
lease of the row, and one that rests was never sent. With several labels recovery and scan
disagree about whose a reply is, which is the disagreement of `wechat_labels`.

**`RunLifecycle_proofs`**: `TypeCorrect`, `OutcomeStaysHolds`, `SuccessIsPersistedHolds`,
`CancelledIsTrueHolds`, `FirstRequestDecidesHolds`, `NothingOutlivesTheRunHolds`,
`EndedIsTerminalHolds`, `ResumableTurnStaysHolds`, `ImplementsPromiseHolds`, for any runs, processes and settles, with a liveness test that
may err, consumers that may leave and bridges that may fail. Assumption: `ConstantsAssumption`;
`EndedIsTerminalHolds` supposes `~Abandons` (streams are not left and the agent of a replay can be built). All follow from one invariant, which says for each run
what its row, its turn and what it holds are at each place of its executor:
`RowFits` (a token is only set on a row that was asked to end; the first request is the reason),
`PlaceFits` (which states a row may have while the executor is there, whoever else writes it),
`TurnFits` (who comes to a completion has persisted the turn of a conversation), `HoldingsFit` (from
`Hold` on everything is in the registry, or popped by one who is at its release, or released; before, it is
the executor's own). The
crux is `PlaceFits`: nobody but the executor makes a row SUCCEEDED or FAILED, and what others may do to it (cancel,
take for an orphan) leads only to states in which each later step of the executor still does the
right thing. `Goes`, `Moves` and `Took` reduce a step of one run to these four parts. The second
`complete_run` at the end of a stream turns out to write nothing (`SettleStreamLeaves`).
The refinement of `RunPromise` rests on the same invariant. `MayBecome` lists the six things that may
become of a row, with their conditions on the rest of the run, and `RowIsKept` maps them to steps of the
promise; `ClosingIsKept` does so for the reports at the end of a run, `Working` says that an executor
on its way to `persist_turn` has a run that is neither decided by itself nor reported. Each action is one of these
(`...IsKept`).

Out of the prover's reach, and so only model-checked: liveness under fairness (`WaitingReplySettles`,
`CancelEndsTheRun`, `EveryWaitEnds`, `CancelledWaitEnds`,
`StuckLeaseIsFreed`, `OverIsForgotten`, `NobodyIsShutOut`), anything with ENABLED, and what recursive definitions
compute by induction. No module declares a RECURSIVE operator.

## 6. Where the code and its documents disagree

Two disagreements have a run that reaches them.

1. `wechat_labels` (`SentByItsLabel`). `_deliver_pending_replies` lists by scene and state only,
   while recovery filters on `wechat_runtime_identity`; README.md:618 offers several labels with
   several accounts side by side. One label's daemon sends the other's replies.
2. `storage_lost` (`CommittedSurvivesCrashes`). docs/fins_storage_design.md:57 has the batches
   simulate ACID. Recovery runs once per process. A process that is open already and begins a batch
   where another died between the two moves of its commit takes the missing directory for a new
   ticker; its commit puts a directory there without the earlier documents, and the recovery of
   whoever opens next finds the directory and deletes the backup. `CommittedIsKept` excepts exactly this, by
   `unswept`, and a deletion that stopped half-way, by `mangled`.

The models show further ones, which have no run of their own.

In the Host:

* `mark_cancelled` promises idempotence to keep executor and signal handler apart, but checks in
  one transaction and moves in another (`run_registry.py:285`); the loser gets
  `cancelled -> cancelled` as ValueError and the settle skips its sweep and release.
* Branches B and C of the turn clean-up delete by id what they judged from a listing
  (`host.py:1321`), though host/README.md:229 rules out deleting the turn of an active run.
* The resume gate reads the source run before the acquisition, which compares neither
  (`host.py:1528`, `pending_turn_store.py:556`); a turn that another resumer has just answered can be
  acquired and answered again. `AnsweredOnce` excepts these late acquisitions.
* `mark_failed`: FAILED_TERMINAL does not absorb for two nacks of one lease that interleave
  (`reply_outbox_store.py:974` against its comment at 953).
* The stale sweep tests age only in its SELECT (`1070` against the docstring at 1024).
* `claim_reply` reads back after its commit and may return a later claim's lease (`809`).
* A holder whose lease was revoked gets ValueError where host/README.md:304 says
  LeaseExpiredError (`899`).
* UNSETTLED -> SUCCEEDED contradicts "a terminal state takes no transition"
  (`run_registry.py:591`, host/README.md:140); `OutcomeStays` excepts it.
* DONE is published before the state is stored (`executor.py:1385`, host/README.md:357).
* A signal between taking the resources and registering them (`executor.py:1522`) leaves bridge,
  timer and permits of the run to the end of the process (host/README.md:623).
* A stream that is closed or cancelled by its consumer (GeneratorExit, asyncio.CancelledError)
  passes both handlers and leaves its run RUNNING (`executor.py:677`, comment at 631).
* `replay_agent_and_wait` builds its agent before its `try` (`executor.py:1053`): when that raises, the
  run stays RUNNING with its bridge, timer and permits, against the comment at 1017 that `_finish_run`
  releases at the end. This and the abandoned stream are why `lifecycle_ends` has `Abandons = FALSE`.
* A process that dies between `persist_turn` and `complete_run` (`executor.py:1416`, `1423`), or a
  complete that raises there, leaves an answer in the transcript and a run that is orphaned or
  failed. Its turn is kept and resumed, and answered a second time: `append_turn` does not look for an
  answer that is there. `AnsweredOnce` does not count such answers (`TornOf`).
* A run that was settled with a recorded timeout while its executor went on may register its turn
  again (`pending_turn_store.py:847` does not look at the run) after a resume took it over; its dead run
  is the source again, and the gate lets another resume answer the turn once more. `AnsweredOnce`
  excepts this, by `late`; it takes a deadline of the asker, which the instance of `pending` does not
  have, and the theorem does.
* The barrier is no lock: who was let through before a clear or a close began may write its run,
  turn or reply after it, against host/README.md:562. `ClearedStaysCleared` and `ClosedIsSwept`
  except these writers, by `history.late`; without the exception both are violated, in 24 and in 7 steps.
  host/README.md:568 speaks of a preflight inside a lock, and none is held.
* `mark_clearing_failed` may itself fail: then `end_clearing` makes a half-cleared session
  writable, against docs/code_review.md:409. `MixedIsLocked` excepts it, by `history.unlocked`.
* A process that dies in `clear_session_history` leaves the session in CLEARING for ever
  (`host.py:951`); only closing ends it.
* A clear refuses while any reply row is there, a delivered one too.
* The purge of an over-limit turn, and the delete of a cancelled turn whose lease was lost,
  are by id and may hit a turn another resumer holds.

In the WeChat daemon:

* `_is_retryable_delivery_error` keeps "network errors, timeouts" retryable (`daemon.py:304`), and an
  `IlinkApiError` is to say that iLink has answered. `_request_json` makes one of every transport error but a timeout
  (`ilink_client.py:538`), so that a connection that breaks is terminal at once, whether the message arrived or not.
* A timeout is passed on as httpx raised it (`ilink_client.py:537`), mostly with an empty text. The nack
  hands that to `mark_failed`, which refuses an empty message before its UPDATE (`reply_outbox_store.py:964`):
  the retryable failure is never recorded, the scan ends, and the row stays in delivery as long as the
  daemon lives, unless a stale clean-up is run. `WaitingReplySettles` excepts exactly these, by `parked`.

In the storage of filings:

* When the deletion of the backup stops half-way, the handler of `commit_batch` finds a backup,
  removes the new directory and puts the rest of the backup in its place
  (`_fs_storage_infra.py:235`); docs/fins_storage_design.md:186 describes the handler for a failed
  move only.

In the model-configuration change:

* A change that fails between its intent and its consumption can never be run again: the intent
  of the first attempt has another `created_at`, and `_persist_immutable` refuses the second.
  Roll-backs and recoveries reuse theirs.
* A recovery that dies in the same place keeps the gate shut ("manual_recovery_required") until it is
  run again, which its plan refuses once the manifests have changed.
* An interrupted change is restored only when the same command is run again; nothing looks for
  one before another transaction begins. `LastReceiptIsTrue` speaks of states without such leavings.

In the model circuit breaker:

* config/README.md:442 has a probe that succeeds close the circuit. The lease of a probe is the cooldown (60
  seconds) and a call is settled at its end, which may come later: the next caller then replaces
  the probe and its success is dropped (`config/README.md:444` says so of late results). With a caller
  at each end of a lease and answers slower than that, the circuit of a healthy provider stays
  half-open as long as they come.
* A probe whose success cannot be written (a busy database) is recorded as abandoned and opens
  the circuit again (`async_openai_runner.py:1128`).
* `half_open_probe_in_flight` is written and never read.

## 7. What is not modelled

* **In the modelled components.** The in-memory twins of the stores and their list and get queries;
  the daemon's login, inbound polling, typing, chat turns and its own resume of turns, and store errors
  while it claims or nacks; the consumer of an operation stream that leaves it; the order of permits,
  timer and bridge within one release; the second
  signal while settling, exit codes, the async grace period; QUEUED, which no caller uses;
  `close_idle_sessions` and the deletion of an archive, which nothing but tests calls; the documents
  and manifests that are written within a batch; the validators, fingerprints, reports and exports
  of the model-configuration change, which only read; `reset` of the circuit breaker, which nothing but
  tests calls (it starts generations at 0 again, so that a permit from before may count), and a
  wall clock that is set back.
* **Planned** (section 8): event bus, ingestion jobs, duplicate-call guard,
  conversation labels.
* **Left out.** `host_store` (transactions are taken to be atomic), scene preparation, agent
  building, configuration, prompting, startup, front ends and rendering: pure assembly, I/O or
  layout without shared state. The engine stands in `RunLifecycle` as a stream that ends, raises
  or sees its token.
* **How much that is.** By lines most of the repository is of this kind: parsers, processors and
  scoring of filings (`fins/processors`, `fins/score_*`), validation and rendering of artifacts (a
  manual recovery clearance alone has 4,500 lines, most of which check fields), command lines,
  tools that analyse documents and traces under `utils/`. They compute a result from their input, one call at
  a time, keep no state that another actor changes, and a unit test reaches what can go wrong
  in them. The models stand for the parts where state is shared, and so cover a small share of all lines.
* **Time** is an age flag per row, or any denial that may be the last; no property is about a
  duration.
* **Liveness of processes** is an oracle that knows the dead; how it asks the operating system is
  left out.
* **Only model-checked**: all liveness.

## 8. Plan

The order follows what would hurt users most: lost or doubled replies, runs that never end or
change their outcome, lanes that jam, turns answered twice, histories and documents that get lost
or come back.

Done, in this order: `OutboxRows`, `ReplyOutbox` with `DeliveryLedger`, `WechatDelivery`, `RunRows`
and `RunLifecycle`, `ConcurrencyGovernor` with `LaneSlots`, `PendingTurn`, `SessionHistory`,
`StorageBatch`, `RoutingChange`; proofs of the safety properties of all of these; `ModelCircuit` and
its proofs; `RunPromise` and `AtomicBatches`, with the proofs that they are implemented.

Next:

1. An abstract specification of a turn (asked, answered, forgotten) that `PendingTurn` implements.
2. `EventSubscription`: `close()` drops the end sentinel when a queue is full (`event_bus.py:62`).
   Property: a subscriber is not left waiting.
3. Smaller protocols: the ingestion job manager, the shutdown coordinator's second signal, the
   duplicate-call guard, conversation labels and the state directory lock.
