---------------------------- MODULE PendingTurn ----------------------------
(***************************************************************************)
(* The pending turn of one (session, scene) slot                           *)
(* (dayu/host/pending_turn_store.py): the row that outlives a run which    *)
(* failed, timed out or died, and from which the turn is executed again.   *)
(*                                                                         *)
(* Executions of the turn write it: those a user asked for                 *)
(* (DefaultHostExecutor.run_agent_stream) and those that resume it         *)
(* (Host.resume_pending_turn_stream), in any processes.  A cleaner         *)
(* (Host.cleanup_stale_pending_turns) runs beside them.  A step is one     *)
(* transaction on the row or on a run, with the in-process work before it. *)
(* The session stays ACTIVE, its scene is resumable, and the run of an     *)
(* execution is reduced to whether and how it ended: RunLifecycle has the  *)
(* rest.                                                                   *)
(***************************************************************************)
EXTENDS Naturals, FiniteSets

CONSTANTS Askers,       \* executions that a user asked for
          Resumers,     \* executions that resume a turn
          Texts,        \* what users ask
          Timed,        \* executions whose run has a deadline (timeout_ms)
          MaxAttempts,  \* pending_turn_resume_max_attempts
          None

(* An execution is also its run and, once it has acquired, its lease.      *)
Execs == Askers \union Resumers

ASSUME ConstantsAssumption ==
    /\ MaxAttempts \in Nat \ {0}
    /\ Askers \intersect Resumers = {}
    /\ Timed \subseteq Execs
    /\ None \notin Execs \union Texts \union (Execs \X {"accepted", "prepared"})

VARIABLES
    turn,   \* the row of the slot
    runs,   \* the state of each execution's run
    exec,   \* where each execution is, and its locals
    clean   \* where the cleaner is: the row it has listed, the id it deletes

vars == <<turn, runs, exec, clean>>

NoTurn == [id |-> None, text |-> None, source |-> None, state |-> "none",
           pre |-> "none", lease |-> None, attempts |-> 0,
           snapshot |-> "none", old |-> FALSE]

(* "cancelled" is a cancellation by the user, "timeout" one by the         *)
(* deadline; "failed" stands for FAILED and UNSETTLED.                     *)
RunStates == {"none", "active", "succeeded", "failed", "cancelled", "timeout"}
TurnStates == {"accepted", "prepared", "sent", "resuming"}
Acquirable == TurnStates \ {"resuming"}

Places == {"idle", "validate", "acquire", "start", "accept", "prepare",
           "bind", "stream", "complete", "mark", "settle", "reconcile", "release",
           "handle", "restore", "purge", "done", "gone"}

(* gate is the source run a resume has validated; lease: it has acquired;  *)
(* kept: its answer is in the transcript of the session; asked, a history: *)
(* the turns it was asked for; late, one too: it acquired a turn that had  *)
(* another source by then, or registered one again, as prepared, after its *)
(* run had timed out.                                                      *)
Exec(at) == [at |-> at, text |-> None, id |-> None, gate |-> None,
             lease |-> FALSE, kept |-> FALSE, asked |-> {}, late |-> FALSE]

Cleaner(at) == [at |-> at, row |-> NoTurn, id |-> None]

At(e, place)     == exec[e].at = place
GoesTo(e, place) == exec' = [exec EXCEPT ![e].at = place]
Ended(e)         == exec[e].at \in {"done", "gone"}
IsResume(e)      == e \in Resumers
Has(e)           == turn.state # "none" /\ turn.id = exec[e].id

(* A compare-and-set that forgets the lease.                               *)
HoldsAny(e)      == Has(e) /\ turn.state = "resuming"
(* state = resuming AND resume_lease_id = lease.                           *)
Holds(e)         == Has(e) /\ turn.state = "resuming" /\ turn.lease = e

(* The table without its last row: a success keeps the turn.               *)
ShouldDeleteCancelled(run) == run = "cancelled"
(* should_delete_pending_turn_after_terminal_run, for a resumable scene.   *)
ShouldDelete(run) == run \notin {"failed", "timeout"}

(* How a run may be cancelled: the reason recorded first is kept.          *)
Cancels(e) == {"cancelled"} \union (IF e \in Timed THEN {"timeout"} ELSE {})

(* What a terminal write does to a run: nothing once it is terminal.       *)
EndsAs(e, ends) == runs' = [runs EXCEPT ![e] = IF @ = "active" THEN ends ELSE @]

(* Every write of the row refreshes updated_at.                            *)
Write(row) == turn' = [row EXCEPT !.old = FALSE]

(* delete_pending_turn: by id, whoever holds it.                           *)
DeleteTurn(id) == turn' = IF turn.id = id THEN NoTurn ELSE turn

(* The caller of a best-effort delete swallows its failure.                *)
TryDeleteTurn(id) == DeleteTurn(id) \/ UNCHANGED turn

(* A resume that came to nothing does not count as an attempt.             *)
RestoredUncounted(row) ==
    [row EXCEPT !.state = row.pre, !.pre = "none", !.lease = None, !.attempts = @ - 1]

(* The row back in the state it was acquired in.                           *)
Restored(row) == [row EXCEPT !.state = row.pre, !.pre = "none", !.lease = None]

-----------------------------------------------------------------------------

Init ==
    /\ turn  = NoTurn
    /\ runs  = [e \in Execs |-> "none"]
    /\ exec  = [e \in Execs |-> Exec("idle")]
    /\ clean = Cleaner("idle")

-----------------------------------------------------------------------------
(* Host.resume_pending_turn_stream, up to the executor.                    *)

(* _require_resume_pending_turn_record.                                    *)
ReadTurn(e) ==
    /\ At(e, "idle")
    /\ turn.state # "none"
    /\ exec' = [exec EXCEPT ![e] =
                  [Exec("validate") EXCEPT !.id = turn.id, !.gate = turn.source]]
    /\ UNCHANGED <<turn, runs, clean>>

(* _validate_source_run_for_resume: the run the row named when it was read *)
Validate(e) ==
    /\ At(e, "validate")
    /\ LET source == runs[exec[e].gate]
       IN  exec' = [exec EXCEPT ![e] =
                      CASE source = "active" -> Exec("done")
                        [] source \in {"succeeded", "cancelled"} ->
                             [Exec("purge") EXCEPT !.id = exec[e].id]
                        [] OTHER -> [exec[e] EXCEPT !.at = "acquire"]]
    /\ UNCHANGED <<turn, runs, clean>>

(* The row as record_resume_attempt leaves it.                             *)
Acquired(e) == [turn EXCEPT !.state = "resuming", !.pre = turn.state, !.lease = e,
                            !.attempts = @ + 1]

(* _prepare_resume_target_for_acquired_turn: the kind of snapshot the      *)
(* state calls for.                                                        *)
Parses(row) == row.snapshot = IF row.pre = "accepted" THEN "accepted" ELSE "prepared"

(* record_resume_attempt, and the parse of what it returned.               *)
Acquire(e) ==
    /\ At(e, "acquire")
    /\ Has(e)
    /\ turn.state \in Acquirable
    /\ turn.attempts < MaxAttempts
    /\ Write(Acquired(e))
    /\ exec' = [exec EXCEPT ![e].lease = TRUE,
                            ![e].late = turn.source # exec[e].gate,
                            ![e].gate = None,
                            ![e].at = IF Parses(Acquired(e)) THEN "start" ELSE "purge"]
    /\ UNCHANGED <<runs, clean>>

(* The CAS failed: a turn at its limit is deleted in the same transaction, *)
(* one that is held or gone is left alone.                                 *)
AcquireRefused(e) ==
    /\ At(e, "acquire")
    /\ ~(Has(e) /\ turn.state \in Acquirable /\ turn.attempts < MaxAttempts)
    /\ IF Has(e) /\ turn.attempts >= MaxAttempts THEN turn' = NoTurn ELSE UNCHANGED turn
    /\ exec' = [exec EXCEPT ![e] = Exec("done")]
    /\ UNCHANGED <<runs, clean>>

(* The delete after a permanent refusal or after the last attempt.         *)
Purge(e) ==
    /\ At(e, "purge")
    /\ TryDeleteTurn(exec[e].id)
    /\ GoesTo(e, "done")
    /\ UNCHANGED <<runs, clean>>

-----------------------------------------------------------------------------
(* The executor.                                                           *)

(* register_run and _start_run.  Nobody sees the run of a resume before    *)
(* the turn is bound to it, nor that of a new ask before the turn is       *)
(* accepted, so neither is a step of its own.                              *)
Ask(e, text) ==
    /\ At(e, "idle")
    /\ runs' = [runs EXCEPT ![e] = "active"]
    /\ exec' = [exec EXCEPT ![e] = [Exec("accept") EXCEPT !.text = text]]
    /\ UNCHANGED <<turn, clean>>

Start(e) ==
    /\ At(e, "start")
    /\ runs' = [runs EXCEPT ![e] = "active"]
    /\ GoesTo(e, "bind")
    /\ UNCHANGED <<turn, clean>>

(* _start_run raised CancelledError, or something else: a lane that stayed *)
(* full, whether the run was cancelled meanwhile or not.                   *)
StartFails(e) ==
    /\ At(e, "start")
    /\ \/ \E ends \in Cancels(e) : runs' = [runs EXCEPT ![e] = ends]
          /\ GoesTo(e, "release")
       \/ \E ends \in Cancels(e) \union {"failed"} : runs' = [runs EXCEPT ![e] = ends]
          /\ GoesTo(e, "handle")
    /\ UNCHANGED <<turn, clean>>

(* _settle_agent_cancelled_before_pending_turn_binding, best effort.       *)
ReleaseLease(e) ==
    /\ At(e, "release")
    /\ \/ Holds(e) /\ Write(Restored(turn))
       \/ UNCHANGED turn
    /\ GoesTo(e, "done")
    /\ UNCHANGED <<runs, clean>>

(* upsert_pending_turn keeps what it does not write: attempts, pre, lease. *)
Upserted(e, state) ==
    [IF turn.state = "none"
     THEN [NoTurn EXCEPT !.id = <<e, state>>, !.text = exec[e].text] ELSE turn
     EXCEPT !.source = e, !.state = state, !.snapshot = state]

(* _register_accepted_pending_turn, _register_prepared_pending_turn.       *)
Upsert(e, at, state, next) ==
    /\ At(e, at)
    /\ turn.text \in {None, exec[e].text}
    /\ Write(Upserted(e, state))
    /\ LET id == Upserted(e, state).id
       IN  exec' = [exec EXCEPT ![e].id = id, ![e].asked = @ \union {id},
                                ![e].late = runs[e] = "timeout" /\ id \in exec[e].asked,
                                ![e].at = next]
    /\ UNCHANGED <<runs, clean>>

Accept(e)  == Upsert(e, "accept", "accepted", "prepare")
Prepare(e) == Upsert(e, "prepare", "prepared", "stream")

(* The source run left as it was when the turn was acquired.               *)
BindNothing(e) ==
    /\ At(e, "bind")
    /\ Holds(e)
    /\ Write(turn)
    /\ GoesTo(e, "stream")
    /\ UNCHANGED <<runs, clean>>

(* rebind_source_run_id_for_resume.                                        *)
Bind(e) ==
    /\ At(e, "bind")
    /\ Holds(e)
    /\ Write([turn EXCEPT !.source = e])
    /\ GoesTo(e, "stream")
    /\ UNCHANGED <<runs, clean>>

(* Where the executor goes with a run that is over: it reconciles the turn *)
(* it registered, and only a failure reaches resume_pending_turn_stream.   *)
After(e, run) == CASE ShouldDelete(run) -> "reconcile"
                   [] run = "failed" /\ IsResume(e) -> "handle"
                   [] OTHER -> "done"

(* The body raised, or saw that it was cancelled: the run is brought to    *)
(* its end, unless somebody else has done it.  A text that is not the      *)
(* slot's, and a lease that is not held any more, raise.                   *)
Break(e) ==
    /\ exec[e].at \in {"accept", "prepare", "bind", "stream", "complete"}
    /\ \E ends \in Cancels(e) \union {"failed"} : EndsAs(e, ends)
    /\ GoesTo(e, After(e, runs'[e]))
    /\ UNCHANGED <<turn, clean>>

(* _reconcile_pending_turn_after_terminal_run.                             *)
Reconcile(e) ==
    /\ At(e, "reconcile")
    /\ DeleteTurn(exec[e].id)
    /\ GoesTo(e, "done")
    /\ UNCHANGED <<runs, clean>>

(* The stream came to its end, the run was not cancelled at the last look, *)
(* and persist_turn has appended the answer, whoever answered before.      *)
Persist(e) ==
    /\ At(e, "stream")
    /\ runs[e] = "active"
    /\ exec' = [exec EXCEPT ![e].kept = TRUE, ![e].at = "complete"]
    /\ UNCHANGED <<turn, runs, clean>>

(* _complete_run_preserving_terminal_state, another transaction.           *)
Complete(e) ==
    /\ At(e, "complete")
    /\ EndsAs(e, "succeeded")
    /\ GoesTo(e, "mark")
    /\ UNCHANGED <<turn, clean>>

(* _mark_pending_turn_sent_to_llm_best_effort.                             *)
MarkSent(e) ==
    /\ At(e, "mark")
    /\ \/ Has(e) /\ Write([turn EXCEPT !.state = "sent"])
       \/ UNCHANGED turn
    /\ GoesTo(e, "settle")
    /\ UNCHANGED <<runs, clean>>

(* _settle_agent_stream_completion.                                        *)
Settled(e) ==
    /\ At(e, "settle")
    /\ IF runs[e] = "succeeded"
       THEN TryDeleteTurn(exec[e].id) /\ GoesTo(e, "done")
       ELSE UNCHANGED turn /\ GoesTo(e, After(e, runs[e]))
    /\ UNCHANGED <<runs, clean>>

-----------------------------------------------------------------------------
(* What resume_pending_turn_stream does with an exception of the executor. *)

Handle(e) ==
    /\ At(e, "handle")
    /\ GoesTo(e, CASE ~Has(e) -> "done"
                   [] Has(e) /\ turn.attempts >= MaxAttempts -> "purge"
                   [] OTHER -> "restore")
    /\ UNCHANGED <<turn, runs, clean>>

(* record_resume_failure.  LeaseExpiredError is swallowed.                 *)
RecordFailure(e) ==
    /\ At(e, "restore")
    /\ IF Holds(e) THEN Write(Restored(turn)) ELSE UNCHANGED turn
    /\ GoesTo(e, "done")
    /\ UNCHANGED <<runs, clean>>

-----------------------------------------------------------------------------
(* Around the executions.                                                  *)

(* Host.cancel_run_and_settle; its cleanup is one of the cleaner's.        *)
SettleRun(e) ==
    /\ runs[e] = "active"
    /\ ~Ended(e)
    /\ \E ends \in Cancels(e) : EndsAs(e, ends)
    /\ UNCHANGED <<turn, exec, clean>>

(* A process that dies under an execution leaves its run to be reaped, if  *)
(* it has not ended.                                                       *)
Crash(e) ==
    /\ ~Ended(e)
    /\ ~At(e, "idle")
    /\ GoesTo(e, IF runs[e] = "active" THEN "gone" ELSE "done")
    /\ UNCHANGED <<turn, runs, clean>>

(* cleanup_orphan_runs.                                                    *)
Reap(e) ==
    /\ At(e, "gone")
    /\ EndsAs(e, "failed")
    /\ GoesTo(e, "done")
    /\ UNCHANGED <<turn, clean>>

(* The row has not been written for ten minutes if it is RESUMING, for the *)
(* retention otherwise.                                                    *)
Age ==
    /\ turn.state # "none"
    /\ ~turn.old
    /\ turn' = [turn EXCEPT !.old = TRUE]
    /\ UNCHANGED <<runs, exec, clean>>

-----------------------------------------------------------------------------
(* Host.cleanup_stale_pending_turns.                                       *)

(* A RESUMING row that is not old is passed over.                          *)
ListTurns ==
    /\ clean.at = "idle"
    /\ turn.state # "none"
    /\ turn.state = "resuming" => turn.old
    /\ clean' = [Cleaner("look") EXCEPT !.row = turn]
    /\ UNCHANGED <<turn, runs, exec>>

Cleaned == clean' = Cleaner("idle")

(* Branch A passes over every RESUMING row.                                *)
RollBackNothing ==
    /\ clean.at = "look"
    /\ clean.row.state = "resuming"
    /\ Cleaned
    /\ UNCHANGED <<turn, runs, exec>>

(* Branch A: cleanup_stale_resuming, if updated_at is still the listed     *)
(* one.  Every write that leaves the row RESUMING changes another field    *)
(* too, so an equal row is a row with an equal updated_at.                 *)
RollBack ==
    /\ clean.at = "look"
    /\ clean.row.state = "resuming"
    /\ IF turn = clean.row THEN Write(Restored(turn)) ELSE UNCHANGED turn
    /\ Cleaned
    /\ UNCHANGED <<runs, exec>>

(* Branches B and C judge the listed row by its source run as it is now.   *)
Doomed(row) ==
    /\ runs[row.source] # "active"
    /\ \/ ShouldDelete(runs[row.source])
       \/ row.old /\ row.state \in {"accepted", "prepared"}

Judge ==
    /\ clean.at = "look"
    /\ clean.row.state # "resuming"
    /\ IF Doomed(clean.row) 
       THEN clean' = [Cleaner("delete") EXCEPT !.id = clean.row.id]
       ELSE Cleaned
    /\ UNCHANGED <<turn, runs, exec>>

Delete ==
    /\ clean.at = "delete"
    /\ DeleteTurn(clean.id)
    /\ Cleaned
    /\ UNCHANGED <<runs, exec>>

Clean == ListTurns \/ RollBack \/ Judge \/ Delete

-----------------------------------------------------------------------------

ResumeStep(e) == ReadTurn(e) \/ Validate(e) \/ Acquire(e) \/ AcquireRefused(e) \/ Purge(e)
                    \/ Start(e) \/ StartFails(e) \/ ReleaseLease(e) \/ Bind(e)
                    \/ Handle(e) \/ RecordFailure(e)

AskStep(e) == (\E text \in Texts : Ask(e, text)) \/ Accept(e) \/ Prepare(e)

AnyStep(e) == Break(e) \/ Reconcile(e) \/ Persist(e) \/ Complete(e) \/ MarkSent(e) \/ Settled(e)
                 \/ SettleRun(e) \/ Crash(e) \/ Reap(e)

Next ==
    \/ \E e \in Resumers : ResumeStep(e)
    \/ \E e \in Askers : AskStep(e)
    \/ \E e \in Execs : AnyStep(e)
    \/ Age
    \/ Clean

Spec == Init /\ [][Next]_vars

(* Time passes, the clean-up is run again and again, at the start of       *)
(* processes and sessions, and orphans are reaped there too.               *)
Fairness ==
    /\ WF_vars(Age)
    /\ WF_vars(Clean)
    /\ \A e \in Execs : WF_vars(Reap(e))

FairSpec == Spec /\ Fairness

-----------------------------------------------------------------------------
(* Properties.                                                             *)

Ids == Execs \X {"accepted", "prepared"}

Rows == [id : Ids, text : Texts, source : Execs, state : TurnStates,
         pre : Acquirable \union {"none"}, lease : Execs \union {None},
         attempts : 0..MaxAttempts, snapshot : {"accepted", "prepared"}, old : BOOLEAN]

(* Types, and the shape of a row: RESUMING has a state to go back to and a *)
(* holder; the cleaner has a row while it works.                           *)
TypeOK ==
    /\ turn \in Rows \union {NoTurn}
    /\ turn.state = "resuming" => turn.pre # "none" /\ turn.lease # None
    /\ runs \in [Execs -> RunStates]
    /\ exec \in [Execs -> [at : Places, text : Texts \union {None}, id : Ids \union {None},
                           gate : Execs \union {None}, lease : BOOLEAN, kept : BOOLEAN,
                           asked : SUBSET Ids, late : BOOLEAN]]
    /\ clean \in [at : {"idle", "look", "delete"}, row : Rows \union {NoTurn},
                  id : Ids \union {None}]
    /\ clean.at = "look" <=> clean.row # NoTurn
    /\ clean.at = "delete" <=> clean.id # None

(* The state a turn is resumed from says which snapshot it has             *)
(* (_prepare_resume_target_for_acquired_turn reads one as the other's kind *)
(* and deletes the turn for good): however upserts, leases and roll-backs  *)
(* of several executions interleave, the two change together.              *)
SnapshotMatches ==
    /\ turn.state \in {"accepted", "prepared"} => turn.snapshot = turn.state
    /\ turn.state = "resuming" /\ turn.pre # "sent" => turn.snapshot = turn.pre

(* Every acquisition of a turn counts against MaxAttempts, whether it was  *)
(* released, recorded as a failure, rolled back or asked over since        *)
(* (record_resume_attempt), so that a turn nobody can finish is not        *)
(* resumed for ever.                                                       *)
AcquiredBy(id) == {e \in Resumers : exec[e].id = id /\ exec[e].lease}

ResumesAreBounded ==
    /\ turn.state # "none" => turn.attempts = Cardinality(AcquiredBy(turn.id))
    /\ \A id \in Ids : Cardinality(AcquiredBy(id)) <= MaxAttempts

AskedFor(id)  == {e \in Askers : id \in exec[e].asked}
AnswersOf(id) == {e \in Execs : exec[e].id = id /\ exec[e].kept}

(* Answers whose run was then lost: the process died or complete_run       *)
(* raised, or a deadline was recorded, between the two transactions.       *)
TornOf(id)    == {e \in AnswersOf(id) : runs[e] \in {"failed", "timeout"}}
OneAnswer(id) == Cardinality(AnswersOf(id) \ TornOf(id)) <= Cardinality(AskedFor(id))
Late(id)      == \E e \in Execs : exec[e].id = id /\ exec[e].late

(* The transcript has no more answers to a turn than it was asked for,     *)
(* though the delete after an answer may fail, an orphan may be taken over *)
(* and a lease expire under its holder: rebind_source_run_id_for_resume    *)
(* lets the gate see whose answer the turn waits for.  Not counted is an   *)
(* answer whose run did not come to be completed: persisting the one and   *)
(* completing the other are two transactions, the turn is resumed and      *)
(* answered once more, and append_turn does not look for an answer that is *)
(* there.  Excepted are turns that somebody acquired who had read another  *)
(* source at the gate, and those that a run registered once more after it  *)
(* had been settled as timed out, which makes it their source again.       *)
AnsweredOnce == \A id \in Ids : ~Late(id) => OneAnswer(id)

(* While a turn is RESUMING, its lease ends only by a step of its holder   *)
(* or once the row is older than ten minutes, never by what somebody knows *)
(* of an earlier lease (host/README.md, 6.3.1 and 6.4 A).                  *)
LeaseEnds == /\ turn.state = "resuming"
             /\ turn'.id = turn.id
             /\ turn'.lease # turn.lease

LeaseIsFenced ==
    [][LeaseEnds => turn.old \/ exec'[turn.lease] # exec[turn.lease]]_vars

(* Whatever happened to the execution that had it, a turn does not stay    *)
(* RESUMING after its holder has ended (branch A).                         *)
Stuck == turn.state = "resuming" /\ Ended(turn.lease)

StuckLeaseIsFreed == Stuck ~> ~Stuck

(* A turn whose source run was answered or cancelled by the user does not  *)
(* stay: if the delete of the executor failed or its process died, branch  *)
(* B does it (host/README.md, 6.4).                                        *)
Over == turn.state # "none" /\ runs[turn.source] \in {"succeeded", "cancelled"}

OverIsForgotten == Over ~> ~Over

=============================================================================
