---------------------------- MODULE RunLifecycle ----------------------------
(***************************************************************************)
(* One hosted run from register_run to the release of what it held         *)
(* (dayu/host/executor.py), against everything that reaches for its row    *)
(* meanwhile: the CancellationBridge thread, the RunDeadlineWatcher timer, *)
(* Host.cancel_run, Host.cancel_run_and_settle called from the shutdown    *)
(* hooks (dayu/host/host.py, dayu/process_lifecycle/coordinator.py), the   *)
(* orphan cleanup of any process and the death of the owner.               *)
(*                                                                         *)
(* A step is one committed transaction, or the in-process work between     *)
(* two of them.  The executor of a run and a settle of the same run do     *)
(* interleave: the write pipeline executes agent runs in worker threads    *)
(* while the signal handler settles them on the main thread.               *)
(***************************************************************************)
EXTENDS RunRows, FiniteSets, Naturals

CONSTANTS Runs,         \* run ids the model may register
          MaxSettles,   \* cancel_run_and_settle calls per run
          Misjudges,    \* is_owner_identity_alive may call a live owner dead
          Threads,      \* "worker" and "main", where runs may execute
          Abandons,     \* an agent run may be left where it stands: by the
                        \* consumer of its stream, by the factory of a replay
          BridgeFails   \* the bridge may meet its limit of failed polls

ASSUME ConstantsAssumption ==
    /\ MaxSettles \in Nat
    /\ Threads \subseteq {"worker", "main"}
    /\ {Misjudges, Abandons, BridgeFails} \subseteq BOOLEAN
    /\ None \notin CancelReasons \union Processes

VARIABLES
    runs,        \* the runs table
    kind,        \* which entry point of the executor runs it
    thread,      \* the thread that executes the run
    task,        \* where the executor is in each run
    token,       \* the CancellationToken of the run is set
    bridge,      \* the CancellationBridge polls
    watcher,     \* the deadline timer
    permit,      \* the lane permits of the run: "none", "held", or "stuck"
                 \* in the permits table after a release that failed
    registered,  \* _run_resources has an entry for the run
    pending,     \* the pending turn of the run
    transcript,  \* persist_turn has written the turn
    published,   \* terminal events the event bus was given
    settle,      \* where cancel_run_and_settle is in each run
    settles,     \* how often it was called
    orphans,     \* what a cleanup_orphan_runs has chosen and not yet written
    alive        \* processes still running

resources == <<bridge, watcher, permit, registered>>
turns     == <<pending, transcript, published>>
host      == <<settle, settles, orphans>>
shape     == <<kind, thread>>
vars      == <<runs, shape, task, token, resources, turns, host, alive>>

(* run_operation_sync, run_operation_stream, run_agent_stream for a scene  *)
(* without and with a conversation, and replay_agent_and_wait.             *)
Kinds == {"sync", "operation", "oneshot", "turn", "replay"}

Places == {"idle", "begin", "start", "acquire", "expired", "unwind", "hold",
           "accept", "prepare", "stream", "check", "persist", "complete",
           "mark", "settle", "failing", "read", "cancel", "drop",
           "report", "finish", "release", "done", "gone"}

(* Who asked for _finalize_cancelled, and so where its result goes:        *)
(*   begin    _start_run, before anything was started                      *)
(*   startup  _start_run's handler, for a CancelledError                   *)
(*   timeout  _start_run's handler, for another exception                  *)
(*   unbound  the answer to a CancelledError of _start_run, in which an    *)
(*            agent stream has not yet bound a pending turn                *)
(*   inside   the try block of the run                                     *)
(*   handler  one of its except blocks                                     *)
Callers == {"begin", "startup", "timeout", "unbound", "inside", "handler"}

(* `why` and `keep` are the locals that outlive a transaction: the reason  *)
(* _finalize_cancelled has read, and what to do with the pending turn      *)
(* according to the run record it returned.                                *)
Task(at)           == [at |-> at, for |-> None, why |-> None, keep |-> FALSE]
Finalizing(caller) == [Task("read") EXCEPT !.for = caller]

(* A settle runs in the signal handler, on the main thread: the frame of a *)
(* run on that thread stands still under it and is then cut off.           *)
Frozen(r) == thread[r] = "main" /\ settle[r] # "idle"

At(r, place) == task[r].at = place /\ ~Frozen(r)
GoesTo(r, next) == task' = [task EXCEPT ![r] = next]
Owner(r) == runs[r].owner

(* What publishes its end, what goes through _run_prepared_agent_stream,   *)
(* and what has a session_state and with it a turn to write and to resume. *)
IsAgent(r)  == kind[r] \in {"oneshot", "turn", "replay"}
IsStream(r) == kind[r] \in {"oneshot", "turn"}
HasTurn(r)  == kind[r] = "turn"

(* _finish_run_async does its work in a thread of its own, which neither   *)
(* stands still under a signal handler nor is cut off by its interrupt.    *)
FinishesApart(r) == kind[r] # "sync"

(* _is_cancelled: the token, or the row.                                   *)
IsCancelled(r) == token[r] \/ IsRequested(runs[r])

SetRow(r, row) == runs' = [runs EXCEPT ![r] = row]

(* A _release_resources in which the error of a permit is not caught.      *)
ReleaseRaises(r) ==
    \/ /\ permit'  = [permit EXCEPT ![r] = "none"]
       /\ watcher' = [watcher EXCEPT ![r] = IF @ = "armed" THEN "off" ELSE @]
       /\ bridge'  = [bridge EXCEPT ![r] = FALSE]
    \/ /\ permit' = [permit EXCEPT ![r] = "stuck"]
       /\ UNCHANGED <<watcher, bridge>>

(* _release_resources, of what was popped from the registry.  A permit     *)
(* whose release fails is logged and left in the table.                    *)
Release(r) ==
    /\ \E left \in {"none", "stuck"} : permit' = [permit EXCEPT ![r] = left]
    /\ watcher' = [watcher EXCEPT ![r] = IF @ = "armed" THEN "off" ELSE @]
    /\ bridge'  = [bridge EXCEPT ![r] = FALSE]

(* The watcher and the bridge stopped without the registry.                *)
StopWatching(r) ==
    /\ watcher' = [watcher EXCEPT ![r] = IF @ = "armed" THEN "off" ELSE @]
    /\ bridge'  = [bridge EXCEPT ![r] = FALSE]

-----------------------------------------------------------------------------

Init ==
    /\ runs       = [r \in Runs |-> NoRow]
    /\ kind       = [r \in Runs |-> "sync"]
    /\ thread     = [r \in Runs |-> "worker"]
    /\ task       = [r \in Runs |-> Task("idle")]
    /\ token      = [r \in Runs |-> FALSE]
    /\ bridge     = [r \in Runs |-> FALSE]
    /\ watcher    = [r \in Runs |-> "off"]
    /\ permit     = [r \in Runs |-> "none"]
    /\ registered = [r \in Runs |-> FALSE]
    /\ pending    = [r \in Runs |-> "none"]
    /\ transcript = [r \in Runs |-> FALSE]
    /\ published  = [r \in Runs |-> {}]
    /\ settle     = [r \in Runs |-> "idle"]
    /\ settles    = [r \in Runs |-> 0]
    /\ orphans    = [p \in Processes |-> {}]
    /\ alive      = [p \in Processes |-> TRUE]

-----------------------------------------------------------------------------
(* The executor, up to the point where the run holds its resources.        *)

(* register_run, in a session that stays open.                             *)
Register(r, p, k, t) ==
    /\ At(r, "idle")
    /\ alive[p]
    /\ SetRow(r, NewRow(p))
    /\ kind'   = [kind EXCEPT ![r] = k]
    /\ thread' = [thread EXCEPT ![r] = t]
    /\ GoesTo(r, Task("begin"))
    /\ UNCHANGED <<token, resources, turns, host, alive>>

(* _start_run's first read: a run cancelled before it started never does.  *)
Begin(r) ==
    /\ At(r, "begin")
    /\ token' = [token EXCEPT ![r] = @ \/ IsRequested(runs[r])]
    /\ GoesTo(r, IF IsRequested(runs[r]) THEN Finalizing("begin") ELSE Task("start"))
    /\ UNCHANGED <<runs, shape, resources, turns, host, alive>>

(* start_run, bridge.start, deadline_watcher.start.  With no timeout_ms    *)
(* the watcher is never armed.                                             *)
StartRun(r, timed) ==
    /\ At(r, "start")
    /\ CanMove(runs[r], "running", Owner(r))
    /\ SetRow(r, Moved(runs[r], "running"))
    /\ bridge'  = [bridge EXCEPT ![r] = TRUE]
    /\ watcher' = [watcher EXCEPT ![r] = IF timed THEN "armed" ELSE "off"]
    /\ GoesTo(r, Task("acquire"))
    /\ UNCHANGED <<shape, token, permit, registered, turns, host, alive>>

(* start_run's ValueError: the row was settled meanwhile.                  *)
StartRefused(r) ==
    /\ At(r, "start")
    /\ ~CanMove(runs[r], "running", Owner(r))
    /\ GoesTo(r, Task("done"))
    /\ UNCHANGED <<runs, shape, token, resources, turns, host, alive>>

(* acquire_many has committed the permits.                                 *)
Acquire(r) ==
    /\ At(r, "acquire")
    /\ ~token[r]
    /\ permit' = [permit EXCEPT ![r] = "held"]
    /\ GoesTo(r, Task("hold"))
    /\ UNCHANGED <<runs, shape, token, bridge, watcher, registered, turns, host, alive>>

(* acquire_many raised: CancelledError once the token is set, TimeoutError *)
(* at the deadline of the wait.                                            *)
AcquireCancelled(r) ==
    /\ At(r, "acquire")
    /\ token[r]
    /\ GoesTo(r, Finalizing("startup"))
    /\ UNCHANGED <<runs, shape, token, resources, turns, host, alive>>

(* A wait for a lane that ran out and left its run as it was.              *)
AcquireGivesUp(r) ==
    /\ At(r, "acquire")
    /\ GoesTo(r, [Task("unwind") EXCEPT !.for = "timeout"])
    /\ UNCHANGED <<runs, shape, token, resources, turns, host, alive>>

AcquireTimedOut(r) ==
    /\ At(r, "acquire")
    /\ GoesTo(r, IF IsCancelled(r) THEN Finalizing("timeout") ELSE Task("expired"))
    /\ UNCHANGED <<runs, shape, token, resources, turns, host, alive>>

(* _fail_run_preserving_original_exception in _start_run's handler.        *)
FailStart(r) ==
    /\ At(r, "expired")
    /\ SetRow(r, IF CanMove(runs[r], "failed", Owner(r))
                 THEN Moved(runs[r], "failed") ELSE runs[r])
    /\ GoesTo(r, [Task("unwind") EXCEPT !.for = "timeout"])
    /\ UNCHANGED <<shape, token, resources, turns, host, alive>>

(* deadline_watcher.stop, bridge.stop, raise.  The callers answer a        *)
(* CancelledError by finalizing once more, except a replay.                *)
Unwind(r) ==
    /\ At(r, "unwind")
    /\ StopWatching(r)
    /\ GoesTo(r, IF task[r].for = "startup" /\ kind[r] # "replay"
                 THEN Finalizing("unbound") ELSE Task("done"))
    /\ UNCHANGED <<runs, shape, token, permit, registered, turns, host, alive>>

(* The entry in _run_resources, from which both ways out release.          *)
Hold(r) ==
    /\ At(r, "hold")
    /\ registered' = [registered EXCEPT ![r] = TRUE]
    /\ GoesTo(r, Task(CASE IsStream(r)       -> "accept"
                        [] kind[r] = "replay" -> "prepare"
                        [] OTHER              -> "stream"))
    /\ UNCHANGED <<runs, shape, token, bridge, watcher, permit, turns, host, alive>>

-----------------------------------------------------------------------------
(* The body of the run.                                                    *)

(* _register_accepted_pending_turn; nothing for a scene that cannot resume *)
Accept(r) ==
    /\ At(r, "accept")
    /\ pending' = [pending EXCEPT ![r] = IF HasTurn(r) THEN "accepted" ELSE @]
    /\ GoesTo(r, Task("prepare"))
    /\ UNCHANGED <<runs, shape, token, resources, transcript, published, host, alive>>

(* scene_preparation.prepare, then _register_prepared_pending_turn; in a   *)
(* replay build_async_agent for the history of an earlier run.             *)
Prepare(r) ==
    /\ At(r, "prepare")
    /\ pending' = [pending EXCEPT ![r] = IF HasTurn(r) THEN "prepared" ELSE @]
    /\ GoesTo(r, Task("stream"))
    /\ UNCHANGED <<runs, shape, token, resources, transcript, published, host, alive>>

(* The engine's events are published as they come, DONE among them.        *)
PublishDone(r) ==
    /\ At(r, "stream")
    /\ IsAgent(r)
    /\ "done" \notin published[r]
    /\ published' = [published EXCEPT ![r] = @ \union {"done"}]
    /\ UNCHANGED <<runs, shape, task, token, resources, pending, transcript, host, alive>>

(* The stream, or the operation, came to its end.                          *)
EndStream(r) ==
    /\ At(r, "stream")
    /\ GoesTo(r, Task("check"))
    /\ UNCHANGED <<runs, shape, token, resources, turns, host, alive>>

(* The engine saw the token and raised CancelledError.                     *)
StreamCancelled(r) ==
    /\ At(r, "stream")
    /\ token[r]
    /\ GoesTo(r, Finalizing("handler"))
    /\ UNCHANGED <<runs, shape, token, resources, turns, host, alive>>

(* Any other exception of the body: _settle_agent_exception.               *)
BodyRaises(r) ==
    /\ \E place \in {"accept", "prepare", "stream", "persist"} : At(r, place)
    /\ ~(kind[r] = "replay" /\ task[r].at = "prepare")
    /\ GoesTo(r, IF IsCancelled(r) THEN Finalizing("handler") ELSE Task("failing"))
    /\ UNCHANGED <<runs, shape, token, resources, turns, host, alive>>

(* The agent of a replay is built outside every try: the error leaves the  *)
(* row RUNNING and the resources in the registry.                          *)
BuildRaises(r) ==
    /\ Abandons
    /\ At(r, "prepare")
    /\ kind[r] = "replay"
    /\ GoesTo(r, Task("gone"))
    /\ UNCHANGED <<runs, shape, token, resources, turns, host, alive>>

(* The last look at the cancellation before anything is made durable.  An  *)
(* agent stream leaves the decision to _settle_agent_stream_completion.    *)
Check(r) ==
    /\ At(r, "check")
    /\ GoesTo(r, CASE IsCancelled(r) /\ IsStream(r)  -> Task("settle")
                   [] IsCancelled(r) /\ ~IsStream(r) -> Finalizing("inside")
                   [] OTHER -> Task(IF HasTurn(r) THEN "persist" ELSE "complete"))
    /\ UNCHANGED <<runs, shape, token, resources, turns, host, alive>>

(* session_state.persist_turn, where the scene has a session_state.        *)
Persist(r) ==
    /\ At(r, "persist")
    /\ transcript' = [transcript EXCEPT ![r] = TRUE]
    /\ GoesTo(r, Task("complete"))
    /\ UNCHANGED <<runs, shape, token, resources, pending, published, host, alive>>

(* _complete_run_preserving_terminal_state: a row that is terminal and not *)
(* repairable is left as it is.  Whatever an operation or a replay is      *)
(* answered, what follows finds a terminal row and only releases.          *)
Succeeded(r) == IF CanMove(runs[r], "succeeded", Owner(r))
                THEN Moved(runs[r], "succeeded") ELSE runs[r]

Complete(r) ==
    /\ At(r, "complete")
    /\ SetRow(r, Succeeded(r))
    /\ GoesTo(r, Task(IF IsStream(r) THEN "mark" ELSE "finish"))
    /\ UNCHANGED <<shape, token, resources, turns, host, alive>>

(* _mark_pending_turn_sent_to_llm_best_effort, which may fail.             *)
MarkSent(r) ==
    /\ At(r, "mark")
    /\ \/ /\ pending[r] # "none"
          /\ pending' = [pending EXCEPT ![r] = "sent"]
       \/ UNCHANGED pending
    /\ GoesTo(r, Task("settle"))
    /\ UNCHANGED <<runs, shape, token, resources, transcript, published, host, alive>>

-----------------------------------------------------------------------------
(* The ways an executor brings its run to an end.                          *)

(* The end of a stream, cancellation before success.                                    *)
CancelledFirst(r) ==
    CASE IsCancelled(r) -> "cancelled"
      [] ~IsCancelled(r) /\ runs[r].state = "succeeded" -> "succeeded"
      [] OTHER -> "open"

(* The end of a stream with the cancellation forgotten.                    *)
NeverCancelled(r) == IF runs[r].state = "succeeded" THEN "succeeded" ELSE "open"

(* _settle_agent_stream_completion looks for success before cancellation.  *)
StreamOutcome(r) ==
    CASE runs[r].state = "succeeded" -> "succeeded"
      [] runs[r].state # "succeeded" /\ IsCancelled(r) -> "cancelled"
      [] OTHER -> "open"

(* A best-effort delete may fail and leave the turn to the cleanup.        *)
DropTurn(r) ==
    \/ pending' = [pending EXCEPT ![r] = "none"]
    \/ UNCHANGED pending

(* What is still open here is completed once more; a run that was neither  *)
(* completed in its stream nor cancelled does not come this far.           *)
SettleStream(r, outcome) ==
    LET row == IF outcome = "open" THEN Succeeded(r) ELSE runs[r]
    IN  /\ At(r, "settle")
        /\ SetRow(r, row)
        /\ IF outcome # "cancelled" /\ row.state = "succeeded"
           THEN DropTurn(r) ELSE UNCHANGED pending
        /\ GoesTo(r, IF outcome = "cancelled" THEN Finalizing("inside") ELSE Task("finish"))
        /\ UNCHANGED <<shape, token, resources, transcript, published, host, alive>>

(* _finalize_cancelled reads the row, and keeps a terminal one.            *)
AfterFinalizing(r, row) ==
    LET verdict == [Task("drop") EXCEPT !.for = "cancelled", !.keep = ~ShouldDeleteTurn(row)]
        caller == task[r].for
    IN  CASE caller = "begin"                -> IF kind[r] = "replay" THEN Task("done")
                                                ELSE Finalizing("unbound")
          [] caller \in {"startup", "timeout"} -> [Task("unwind") EXCEPT !.for = caller]
          [] caller = "unbound"              -> Task("report")
          [] OTHER                           -> verdict

FinalizeRead(r) ==
    /\ At(r, "read")
    /\ GoesTo(r, IF IsTerminal(runs[r])
                 THEN AfterFinalizing(r, runs[r])
                 ELSE [task[r] EXCEPT
                         !.at  = "cancel",
                         !.why = IF IsRequested(runs[r]) THEN runs[r].requested ELSE "user"])
    /\ UNCHANGED <<runs, shape, token, resources, turns, host, alive>>

(* mark_cancelled's _transition.  Its own idempotence check ran in an      *)
(* earlier transaction and saw what FinalizeRead saw.                      *)
FinalizeWrite(r) ==
    LET row == Cancelled(runs[r], task[r].why)
    IN  /\ At(r, "cancel")
        /\ CanMove(runs[r], "cancelled", Owner(r))
        /\ SetRow(r, row)
        /\ GoesTo(r, AfterFinalizing(r, row))
        /\ UNCHANGED <<shape, token, resources, turns, host, alive>>

(* Its ValueError, in whichever frame _finalize_cancelled was called from: *)
(* suppressed by _start_run's handler, caught again by the run's own       *)
(* except Exception when raised inside its try, and otherwise the caller's.*)
FinalizeRefused(r) ==
    LET caller == task[r].for
    IN  /\ At(r, "cancel")
        /\ ~CanMove(runs[r], "cancelled", Owner(r))
        /\ GoesTo(r, CASE caller \in {"begin", "unbound"}    -> Task("done")
                       [] caller \in {"startup", "timeout"} -> [Task("unwind") EXCEPT !.for = caller]
                       [] caller = "inside" -> IF IsCancelled(r) THEN Finalizing("handler")
                                               ELSE Task("failing")
                       [] OTHER -> Task("finish"))
        /\ UNCHANGED <<runs, shape, token, resources, turns, host, alive>>

(* _fail_run_preserving_original_exception.                                *)
Fail(r) ==
    LET row == IF CanMove(runs[r], "failed", Owner(r))
               THEN Moved(runs[r], "failed") ELSE runs[r]
    IN  /\ At(r, "failing")
        /\ SetRow(r, row)
        /\ GoesTo(r, [Task("drop") EXCEPT !.for = "failed", !.keep = ~ShouldDeleteTurn(row)])
        /\ UNCHANGED <<shape, token, resources, turns, host, alive>>

(* _reconcile_pending_turn_after_terminal_run by the record in hand, then, *)
(* for a cancelled agent run, the CANCELLED event.                         *)
Reconcile(r) ==
    /\ At(r, "drop")
    /\ pending' = [pending EXCEPT ![r] = IF task[r].keep THEN @ ELSE "none"]
    /\ published' = [published EXCEPT ![r] =
                       IF IsAgent(r) /\ task[r].for = "cancelled"
                       THEN @ \union {"cancelled"} ELSE @]
    /\ GoesTo(r, Task("finish"))
    /\ UNCHANGED <<runs, shape, token, resources, transcript, host, alive>>

(* The CANCELLED event of an agent run that never got to its body.         *)
ReportUnbound(r) ==
    /\ At(r, "report")
    /\ published' = [published EXCEPT ![r] = IF IsAgent(r) THEN @ \union {"cancelled"} ELSE @]
    /\ GoesTo(r, Task("done"))
    /\ UNCHANGED <<runs, shape, token, resources, pending, transcript, host, alive>>

(* The finally of every run: _finish_run pops the entry of the registry.   *)
(* Where a settle has popped it before, there is nothing to wait for.      *)
Finish(r) ==
    /\ task[r].at = "finish"
    /\ Frozen(r) => FinishesApart(r)
    /\ registered' = [registered EXCEPT ![r] = FALSE]
    /\ GoesTo(r, Task(IF registered[r] THEN "release" ELSE "done"))
    /\ UNCHANGED <<runs, shape, token, bridge, watcher, permit, turns, host, alive>>

(* And releases what it has popped.                                        *)
FinishReleases(r) ==
    /\ task[r].at = "release"
    /\ Frozen(r) => FinishesApart(r)
    /\ Release(r)
    /\ GoesTo(r, Task("done"))
    /\ UNCHANGED <<runs, shape, token, registered, turns, host, alive>>

(* The consumer closes an agent stream, or its task is cancelled: neither  *)
(* GeneratorExit nor asyncio.CancelledError is an Exception, and only the  *)
(* finally runs.                                                           *)
Abandon(r) ==
    /\ Abandons
    /\ \/ At(r, "prepare") /\ IsStream(r)
       \/ At(r, "stream") /\ IsAgent(r)
    /\ GoesTo(r, Task("finish"))
    /\ UNCHANGED <<runs, shape, token, resources, turns, host, alive>>

(* The signal handler, having settled the run, raises KeyboardInterrupt    *)
(* into its frame; the event loop is gone and so is the finally, unless a  *)
(* thread of its own is at it.  Only _start_run's own handler still runs.  *)
Interrupt(r) ==
    /\ thread[r] = "main"
    /\ settle[r] \in {"settled", "refused"}
    /\ task[r].at \notin {"idle", "done", "gone"}
    /\ ~(FinishesApart(r) /\ task[r].at = "release")
    /\ IF task[r].at = "acquire" THEN StopWatching(r) ELSE UNCHANGED <<watcher, bridge>>
    /\ GoesTo(r, Task("gone"))
    /\ UNCHANGED <<runs, shape, token, permit, registered, turns, host, alive>>

-----------------------------------------------------------------------------
(* What runs beside the executor.                                          *)

(* A bridge that waits for the run to end.                                 *)
BridgeAwaitsEnd(r) ==
    /\ bridge[r]
    /\ IsTerminal(runs[r])
    /\ bridge' = [bridge EXCEPT ![r] = FALSE]
    /\ UNCHANGED <<runs, shape, task, token, watcher, permit, registered, turns, host, alive>>

(* CancellationBridge._poll_loop, one turn.                                *)
BridgePoll(r) ==
    /\ bridge[r]
    /\ IsRequested(runs[r]) \/ IsTerminal(runs[r])
    /\ token'  = [token EXCEPT ![r] = @ \/ IsRequested(runs[r])]
    /\ bridge' = [bridge EXCEPT ![r] = FALSE]
    /\ UNCHANGED <<runs, shape, task, watcher, permit, registered, turns, host, alive>>

(* Too many polls in a row failed.                                         *)
BridgeGivesUp(r) ==
    /\ BridgeFails
    /\ bridge[r]
    /\ bridge' = [bridge EXCEPT ![r] = FALSE]
    /\ UNCHANGED <<runs, shape, task, token, watcher, permit, registered, turns, host, alive>>

(* RunDeadlineWatcher._on_timeout: the timer is beyond stop's reach once   *)
(* it fires, then comes the row, then the token.                           *)
DeadlineFires(r) ==
    /\ watcher[r] = "armed"
    /\ watcher' = [watcher EXCEPT ![r] = "fired"]
    /\ UNCHANGED <<runs, shape, task, token, bridge, permit, registered, turns, host, alive>>

DeadlineRequests(r) ==
    /\ watcher[r] = "fired"
    /\ SetRow(r, CancelRequested(runs[r], "timeout"))
    /\ watcher' = [watcher EXCEPT ![r] = "requested"]
    /\ UNCHANGED <<shape, task, token, bridge, permit, registered, turns, host, alive>>

DeadlineCancels(r) ==
    /\ watcher[r] = "requested"
    /\ token'   = [token EXCEPT ![r] = TRUE]
    /\ watcher' = [watcher EXCEPT ![r] = "off"]
    /\ UNCHANGED <<runs, shape, task, bridge, permit, registered, turns, host, alive>>

(* Host.cancel_run and cancel_session_runs, from any process.              *)
CancelRun(r) ==
    /\ runs[r] # NoRow
    /\ runs[r].requested = None
    /\ IsActive(runs[r])
    /\ SetRow(r, CancelRequested(runs[r], "user"))
    /\ UNCHANGED <<shape, task, token, resources, turns, host, alive>>

(* The ten minutes pass.                                                   *)
Age(r) ==
    /\ runs[r] # NoRow
    /\ ~runs[r].aged
    /\ SetRow(r, [runs[r] EXCEPT !.aged = TRUE])
    /\ UNCHANGED <<shape, task, token, resources, turns, host, alive>>

-----------------------------------------------------------------------------
(* ProcessShutdownCoordinator.settle_active_runs, by the owner, and        *)
(* cancel_run_and_settle for each run it listed.                           *)

SettleGoesTo(r, next) == settle' = [settle EXCEPT ![r] = next]

ListForSettling(r) ==
    /\ runs[r] # NoRow
    /\ alive[Owner(r)]
    /\ IsActive(runs[r]) \/ task[r].at \notin {"done", "gone"}
    /\ settle[r] \in {"idle", "settled", "refused"}
    /\ settles[r] < MaxSettles
    /\ settles' = [settles EXCEPT ![r] = @ + 1]
    /\ SettleGoesTo(r, "listed")
    /\ UNCHANGED <<runs, shape, task, token, resources, turns, orphans, alive>>

SettleRequest(r) ==
    /\ settle[r] = "listed"
    /\ SetRow(r, CancelRequested(runs[r], "user"))
    /\ SettleGoesTo(r, "asked")
    /\ UNCHANGED <<shape, task, token, resources, turns, settles, orphans, alive>>

(* get_run, and mark_cancelled's own check for CANCELLED.                  *)
SettleRead(r) ==
    /\ settle[r] = "asked"
    /\ SettleGoesTo(r, IF runs[r].state = "cancelled" THEN "sweep" ELSE "mark")
    /\ UNCHANGED <<runs, shape, task, token, resources, turns, settles, orphans, alive>>

(* mark_cancelled's _transition.                                           *)
SettleMark(r) ==
    /\ settle[r] = "mark"
    /\ CanMove(runs[r], "cancelled", Owner(r))
    /\ SetRow(r, Cancelled(runs[r], "user"))
    /\ SettleGoesTo(r, "sweep")
    /\ UNCHANGED <<shape, task, token, resources, turns, settles, orphans, alive>>

(* Its ValueError; the coordinator logs it and goes on to the next run.    *)
SettleRefused(r) ==
    /\ settle[r] = "mark"
    /\ ~CanMove(runs[r], "cancelled", Owner(r))
    /\ SettleGoesTo(r, "refused")
    /\ UNCHANGED <<runs, shape, task, token, resources, turns, settles, orphans, alive>>

(* cleanup_stale_pending_turns of the session, all Runs being of one       *)
(* session and no turn yet past its retention.                             *)
SweptTurn(r) ==
    IF runs[r] # NoRow /\ IsTerminal(runs[r]) /\ ShouldDeleteTurn(runs[r])
    THEN "none" ELSE pending[r]

SettleSweep(r) ==
    /\ settle[r] = "sweep"
    /\ pending' = [s \in Runs |-> SweptTurn(s)]
    /\ SettleGoesTo(r, "release")
    /\ UNCHANGED <<runs, shape, task, token, resources, transcript, published,
                   settles, orphans, alive>>

(* release_resources_for_run: the pop, and the release of what it found.   *)
SettlePop(r) ==
    /\ settle[r] = "release"
    /\ registered' = [registered EXCEPT ![r] = FALSE]
    /\ SettleGoesTo(r, IF registered[r] THEN "popped" ELSE "settled")
    /\ UNCHANGED <<runs, shape, task, token, bridge, watcher, permit, turns,
                   settles, orphans, alive>>

SettleReleases(r) ==
    /\ settle[r] = "popped"
    /\ Release(r)
    /\ SettleGoesTo(r, "settled")
    /\ UNCHANGED <<runs, shape, task, token, registered, turns, settles, orphans, alive>>

-----------------------------------------------------------------------------
(* Death of an owner, and the processes that notice it.                    *)

Crash(p) ==
    LET mine == {r \in Runs : runs[r] # NoRow /\ runs[r].owner = p}
        Lost(f, value) == [r \in Runs |-> IF r \in mine THEN value ELSE f[r]]
    IN  /\ alive[p]
        /\ alive'      = [alive EXCEPT ![p] = FALSE]
        /\ task'       = Lost(task, Task("gone"))
        /\ token'      = Lost(token, FALSE)
        /\ bridge'     = Lost(bridge, FALSE)
        /\ watcher'    = Lost(watcher, "off")
        /\ registered' = Lost(registered, FALSE)
        /\ settle'     = Lost(settle, "idle")
        /\ orphans'    = [orphans EXCEPT ![p] = {}]
        /\ UNCHANGED <<runs, shape, permit, turns, settles>>

(* list_active_runs and is_owner_identity_alive, before any write.         *)
LooksDead(r, p) == ~alive[Owner(r)] \/ (Misjudges /\ Owner(r) # p)

ChooseOrphans(p) ==
    /\ alive[p]
    /\ orphans[p] = {}
    /\ \E chosen \in SUBSET {r \in Runs : /\ runs[r] # NoRow
                                         /\ IsActive(runs[r])
                                         /\ runs[r].aged
                                         /\ LooksDead(r, p)} :
          /\ chosen # {}
          /\ {r \in Runs : /\ runs[r] # NoRow
                            /\ IsActive(runs[r])
                            /\ runs[r].aged
                            /\ ~alive[Owner(r)]} \subseteq chosen
          /\ orphans' = [orphans EXCEPT ![p] = chosen]
    /\ UNCHANGED <<runs, shape, task, token, resources, turns, settle, settles, alive>>

WriteOrphans(p) ==
    /\ orphans[p] # {}
    /\ runs' = [r \in Runs |-> IF r \in orphans[p] THEN Orphaned(runs[r]) ELSE runs[r]]
    /\ orphans' = [orphans EXCEPT ![p] = {}]
    /\ UNCHANGED <<shape, task, token, resources, turns, settle, settles, alive>>

-----------------------------------------------------------------------------

ExecutorStep(r) ==
    \/ Begin(r) \/ StartRefused(r) \/ Acquire(r) \/ AcquireCancelled(r)
    \/ \E timed \in BOOLEAN : StartRun(r, timed)
    \/ AcquireTimedOut(r) \/ FailStart(r) \/ Unwind(r) \/ Hold(r)
    \/ Accept(r) \/ Prepare(r) \/ PublishDone(r) \/ EndStream(r)
    \/ StreamCancelled(r) \/ BodyRaises(r) \/ BuildRaises(r) \/ Check(r) \/ Persist(r)
    \/ Complete(r) \/ MarkSent(r) \/ SettleStream(r, StreamOutcome(r))
    \/ FinalizeRead(r) \/ FinalizeWrite(r)
    \/ FinalizeRefused(r) \/ Fail(r) \/ Reconcile(r) \/ ReportUnbound(r)
    \/ Finish(r) \/ FinishReleases(r)

SettleStep(r) ==
    \/ SettleRequest(r) \/ SettleRead(r) \/ SettleMark(r) \/ SettleRefused(r)
    \/ SettleSweep(r) \/ SettlePop(r) \/ SettleReleases(r)

Next ==
    \/ \E r \in Runs, p \in Processes, k \in Kinds, t \in Threads : Register(r, p, k, t)
    \/ \E r \in Runs :
          \/ ExecutorStep(r)
          \/ Abandon(r) \/ Interrupt(r)
          \/ BridgePoll(r) \/ BridgeGivesUp(r)
          \/ DeadlineFires(r) \/ DeadlineRequests(r) \/ DeadlineCancels(r)
          \/ CancelRun(r) \/ Age(r)
          \/ ListForSettling(r) \/ SettleStep(r)
    \/ \E p \in Processes : Crash(p) \/ ChooseOrphans(p) \/ WriteOrphans(p)

Spec == Init /\ [][Next]_vars

(* What the code never waits for without a bound: its own next statement,  *)
(* the poll of a bridge (0.5 s), and an engine whose token is set, which   *)
(* the engine looks at between events.  Nothing is asked of a stream that  *)
(* was not cancelled, nor of a lane that is full.                          *)
OwnSteps(r) ==
    \/ Begin(r) \/ StartRefused(r) \/ AcquireCancelled(r)
    \/ \E timed \in BOOLEAN : StartRun(r, timed)
    \/ FailStart(r) \/ Unwind(r) \/ Hold(r) \/ Accept(r) \/ Prepare(r)
    \/ StreamCancelled(r) \/ Check(r) \/ Persist(r) \/ Complete(r) \/ MarkSent(r)
    \/ SettleStream(r, StreamOutcome(r))
    \/ FinalizeRead(r) \/ FinalizeWrite(r) \/ FinalizeRefused(r)
    \/ Fail(r) \/ Reconcile(r) \/ ReportUnbound(r) \/ Finish(r) \/ FinishReleases(r)

Fairness == \A r \in Runs : /\ WF_vars(OwnSteps(r))
                            /\ WF_vars(BridgePoll(r))
                            /\ WF_vars(SettleStep(r))

FairSpec == Spec /\ Fairness

-----------------------------------------------------------------------------
(* Every variable keeps to the values the code writes.                     *)
TypeOK ==
    /\ runs       \in [Runs -> RunRow \union {NoRow}]
    /\ kind       \in [Runs -> Kinds]
    /\ thread     \in [Runs -> {"worker", "main"}]
    /\ task       \in [Runs -> [at   : Places,
                                for  : Callers \union {"cancelled", "failed", None},
                                why  : CancelReasons \union {None},
                                keep : BOOLEAN]]
    /\ token      \in [Runs -> BOOLEAN]
    /\ bridge     \in [Runs -> BOOLEAN]
    /\ watcher    \in [Runs -> {"off", "armed", "fired", "requested"}]
    /\ permit     \in [Runs -> {"none", "held", "stuck"}]
    /\ registered \in [Runs -> BOOLEAN]
    /\ pending    \in [Runs -> {"none", "accepted", "prepared", "sent"}]
    /\ transcript \in [Runs -> BOOLEAN]
    /\ published  \in [Runs -> SUBSET {"done", "cancelled"}]
    /\ settle     \in [Runs -> {"idle", "listed", "asked", "mark", "sweep",
                               "release", "popped", "settled", "refused"}]
    /\ settles    \in [Runs -> 0..MaxSettles]
    /\ orphans    \in [Processes -> SUBSET Runs]
    /\ alive      \in [Processes -> BOOLEAN]

(* A finished run keeps its outcome whoever still writes to its row: the   *)
(* late cancel, the settle, the orphan cleanup that chose it while it was  *)
(* active.  The one way out is the executor of the run itself completing   *)
(* what was taken for an orphan.                                           *)
Outcome(r) == <<runs[r].state, IF IsTerminal(runs[r]) THEN runs[r].reason ELSE None>>

OutcomeStays ==
    [][\A r \in Runs :
         IsTerminal(runs[r]) =>
             \/ Outcome(r)' = Outcome(r)
             \/ /\ runs[r].state = "unsettled"
                /\ runs'[r].state = "succeeded"
                /\ task[r].at = "complete"
                /\ runs[r].owner = runs'[r].owner]_vars

(* The run of a conversation turn is recorded as succeeded only when the   *)
(* turn is in the transcript: a cancellation that stops the executor       *)
(* before persist_turn also stops every later complete of that run.  Runs  *)
(* of scenes without a conversation, and replays, have none to write.      *)
SuccessIsPersisted ==
    \A r \in Runs : runs[r].state = "succeeded" /\ HasTurn(r) => transcript[r]

(* A subscriber told CANCELLED is never contradicted by the row, not even  *)
(* when the token was set while the run was being completed.               *)
CancelledIsTrue ==
    \A r \in Runs :
        "cancelled" \in published[r] => runs[r].state \in {"cancelled", "unsettled"}

(* The pending turn of a run goes only when the run has succeeded or was   *)
(* cancelled by the user, whoever deletes it: a failed, timed out or       *)
(* orphaned run keeps the question it can be resumed from.                 *)
ResumableTurnStays ==
    [][\A r \in Runs :
         pending[r] # "none" /\ pending'[r] = "none" =>
             \/ runs'[r].state = "succeeded"
             \/ runs'[r].state = "cancelled" /\ runs'[r].reason = "user"]_vars

(* Of two cancellations that race, the deadline and the user, the one that *)
(* was recorded first is the reason the run ends with, when the executor   *)
(* ends it: what the caller was told and what decides over the turn agree. *)
FirstRequestDecides ==
    \A r \in Runs :
        runs[r].state = "cancelled" /\ settles[r] = 0 =>
            runs[r].reason = runs[r].requested

(* An executor that has ended left no registry entry, no timer, no polling *)
(* thread, and no permit but one whose release was tried and failed, on    *)
(* whatever path it ended; where a settle has popped the entry before it,  *)
(* all this is so when that settle is past its own release.                *)
NothingOutlivesTheRun ==
    \A r \in Runs :
        task[r].at = "done" =>
            /\ ~registered[r]
            /\ \/ settle[r] = "popped"
               \/ permit[r] # "held" /\ ~bridge[r] /\ watcher[r] # "armed"

(* Whatever reaches for a run, and in whatever order, those who have to do *)
(* with it see no more than RunPromise lets them see: every step is one of *)
(* its steps for each run, or none.                                        *)
Fate(row) == IF IsActive(row) THEN "open"
             ELSE IF row.state = "cancelled" THEN row.reason
             ELSE row.state

FirstWish(row) == IF row = NoRow THEN None ELSE row.requested

Promise(r) == INSTANCE RunPromise WITH
    Reasons <- CancelReasons,
    fate    <- Fate(runs[r]),
    wish    <- FirstWish(runs[r]),
    pressed <- settles[r] # 0,
    owed    <- HasTurn(r) /\ ~transcript[r],
    asks    <- pending[r] # "none",
    told    <- "cancelled" \in published[r]

ImplementsPromise ==
    /\ \A r \in Runs : Promise(r)!Init
    /\ [][\A r \in Runs : Promise(r)!Next \/ UNCHANGED Promise(r)!promise]_vars

(* Every way out of an executor leaves its run terminal, if its consumer   *)
(* stays and the agent of a replay can be built (~Abandons).               *)
EndedIsTerminal == \A r \in Runs : task[r].at = "done" => IsTerminal(runs[r])

(* A cancellation that was recorded while the owner lives ends the run,    *)
(* although nothing makes its stream end or a lane come free.              *)
CancelEndsTheRun ==
    \A r \in Runs :
        /\ IsActive(runs[r])
        /\ IsRequested(runs[r])
        ~> (IsActive(runs[r]) => ~alive[Owner(r)])

=============================================================================
