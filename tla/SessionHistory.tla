---------------------------- MODULE SessionHistory ----------------------------
(***************************************************************************)
(* One session: its turns, the clearing of its history and its closing     *)
(* (dayu/host: session_registry, _session_barrier, conversation_store,     *)
(* host.clear_session_history, host.cancel_session).                       *)
(*                                                                         *)
(* The archive is a file with a revision, under its own lock; the session, *)
(* its runs, pending turns and replies are rows of a database.  Writers of *)
(* rows first ask for the state of the session (ensure_session_active) and *)
(* write in a later transaction, whatever has become of it: the barrier is *)
(* a question, not a lock.  The archive has no barrier.                    *)
(*                                                                         *)
(* Turns stand for their content.  A compaction adds a memory of the turns *)
(* it has seen.  Whether a turn that fails leaves its pending turn behind  *)
(* is the matter of PendingTurn: here it may or may not.  The replay stash *)
(* is in the memory of one process and left out.                           *)
(***************************************************************************)
EXTENDS Naturals, FiniteSets

CONSTANTS Turns,        \* questions of a user, each of another scene
          MaxClears,    \* how often the history is cleared
          MaxResumes,   \* how often a turn is resumed
          MaxRetry      \* _CLEAR_HISTORY_MAX_RETRY

ASSUME ConstantsAssumption ==
    MaxClears \in Nat /\ MaxResumes \in Nat /\ MaxRetry \in Nat \ {0}

VARIABLES
    session,    \* SessionState
    archive,    \* the archive on disk
    runs,       \* the active runs
    cancelled,  \* those that are asked to stop
    pending,    \* the pending turn of each turn, or "none"
    replies,    \* the turns with a row in the reply outbox
    work,       \* where each turn is
    compaction, \* the background compaction
    clear,      \* clear_session_history
    closing,    \* cancel_session
    history     \* what the properties look back at

vars == <<session, archive, runs, cancelled, pending, replies, work, compaction,
          clear, closing, history>>
Rows == <<runs, pending, replies>>

States == {"active", "clearing", "clearing_failed", "closed"}

Places == {"idle", "register", "ask_accept", "accept", "prepare", "ask_prepared",
           "prepared", "answer", "persist", "complete", "ask_reply", "reply",
           "ask_register", "reregister", "rebind", "over", "dead"}

(* `base` is the revision that a turn was prepared from, `append` says     *)
(* that it is resumed from its snapshot and has none.                      *)
Idle == [at |-> "idle", base |-> 0, append |-> FALSE, resumes |-> 0]

At(t, place)     == work[t].at = place
GoesTo(t, place) == work' = [work EXCEPT ![t].at = place]

NoCompaction  == [busy |-> FALSE, rev |-> 0, turns |-> {}]
Compaction(a) == [busy |-> TRUE, rev |-> a.rev, turns |-> a.turns]

(* ensure_session_active.                                                  *)
SessionActive == session = "active"

(* history.persisted are the turns whose persist_turn has returned;        *)
(* history.erased those of the archive, or prepared from it, when it was   *)
(* emptied; history.late those that had been let through the barrier when  *)
(* it rose and wrote later; history.owed the stores that a clear that has  *)
(* emptied the archive has still to empty; history.unlocked says that the  *)
(* lock of such a clear could not be written.                              *)
NoHistory == [persisted |-> {}, erased |-> {}, late |-> {}, owed |-> {}, unlocked |-> FALSE]

Init ==
    /\ session    = "active"
    /\ archive    = [rev |-> 0, turns |-> {}, memory |-> {}]
    /\ runs       = {}
    /\ cancelled  = {}
    /\ pending    = [t \in Turns |-> "none"]
    /\ replies    = {}
    /\ work       = [t \in Turns |-> Idle]
    /\ compaction = NoCompaction
    /\ clear      = [at |-> "idle", base |-> 0, residual |-> {}, rounds |-> 0, count |-> 0]
    /\ closing    = "no"
    /\ history    = NoHistory

-----------------------------------------------------------------------------
(* A turn: DefaultHostExecutor.run_agent_stream.                           *)

Others == UNCHANGED <<session, compaction, clear, closing>>

(* A barrier that lets one through at `yes` and sends one on at `no`.      *)
Asks(t, from, yes, no) ==
    /\ At(t, from)
    /\ GoesTo(t, IF SessionActive THEN yes ELSE no)
    /\ UNCHANGED <<archive, Rows, cancelled, history>> /\ Others

Begin(t)       == Asks(t, "idle", "register", "idle") /\ SessionActive
AskAccept(t)   == Asks(t, "ask_accept", "accept", "prepare")
AskPrepared(t) == Asks(t, "ask_prepared", "prepared", "answer")
AskReply(t)    == Asks(t, "ask_reply", "reply", "over")

(* register_run, for a turn that begins or is resumed.                     *)
Register(t) ==
    /\ work[t].at \in {"register", "reregister"}
    /\ runs' = runs \union {t}
    /\ cancelled' = cancelled \ {t}
    /\ GoesTo(t, IF At(t, "register") THEN "ask_accept" ELSE "rebind")
    /\ UNCHANGED <<archive, pending, replies, history>> /\ Others

(* upsert_pending_turn, twice.                                             *)
Accept(t) ==
    /\ At(t, "accept")
    /\ pending' = [pending EXCEPT ![t] = "accepted"]
    /\ GoesTo(t, "prepare")
    /\ UNCHANGED <<archive, runs, cancelled, replies, history>> /\ Others

Prepared(t) ==
    /\ At(t, "prepared")
    /\ pending' = [pending EXCEPT ![t] = "prepared"]
    /\ GoesTo(t, "answer")
    /\ UNCHANGED <<archive, runs, cancelled, replies, history>> /\ Others

(* scene_preparation.prepare: the compaction of this process is cancelled, *)
(* the archive loaded and, if it is long, compacted and loaded again.      *)
Compacted(turns) == [rev |-> archive.rev + 1, turns |-> archive.turns, memory |-> turns]

Prepare(t) ==
    /\ At(t, "prepare")
    /\ compaction' \in {compaction, NoCompaction}
    /\ \/ UNCHANGED archive
       \/ ~(archive.turns \subseteq archive.memory) /\ archive' = Compacted(archive.turns)
    /\ work' = [work EXCEPT ![t].at = "ask_prepared", ![t].base = archive'.rev]
    /\ UNCHANGED <<session, Rows, cancelled, clear, closing, history>>

(* What a turn that fails or is cancelled leaves.                          *)
Settles(t) ==
    /\ runs' = runs \ {t}
    /\ pending' \in {pending, [pending EXCEPT ![t] = "none"]}
    /\ GoesTo(t, "over")

(* The model answers, or the turn fails or is cancelled.                   *)
Answer(t) ==
    /\ At(t, "answer")
    /\ \/ t \notin cancelled /\ GoesTo(t, "persist") /\ UNCHANGED Rows
       \/ Settles(t) /\ UNCHANGED replies
    /\ UNCHANGED <<archive, cancelled, history>> /\ Others

WithTurn(t) == [rev |-> archive.rev + 1, turns |-> archive.turns \union {t},
                memory |-> archive.memory]

(* It is written and a compaction may be scheduled.                        *)
Persisted(t) ==
    /\ archive' = WithTurn(t)
    /\ compaction' \in {compaction, Compaction(archive')}
    /\ history' = [history EXCEPT !.persisted = @ \union {t}]
    /\ GoesTo(t, "complete")
    /\ UNCHANGED <<session, Rows, cancelled, clear, closing>>

(* A save that does not ask for the revision.                              *)
PersistOver(t) ==
    /\ At(t, "persist")
    /\ archive' = [rev |-> archive.rev + 1, memory |-> archive.memory,
                   turns |-> {t} \union IF work[t].base = archive.rev THEN archive.turns ELSE {}]
    /\ compaction' \in {compaction, Compaction(archive')}
    /\ history' = [history EXCEPT !.persisted = @ \union {t}]
    /\ GoesTo(t, "complete")
    /\ UNCHANGED <<session, Rows, cancelled, clear, closing>>

(* ConversationSessionState.persist_turn: append_turn for a turn that was  *)
(* resumed, save against the revision it was prepared from otherwise.      *)
Persist(t) ==
    /\ At(t, "persist")
    /\ \/ /\ work[t].append \/ work[t].base = archive.rev
          /\ Persisted(t)
       \/ /\ ~work[t].append /\ work[t].base # archive.rev
          /\ Settles(t)
          /\ UNCHANGED <<archive, replies, cancelled, history>> /\ Others

(* The run is completed and the pending turn deleted.                      *)
Complete(t) ==
    /\ At(t, "complete")
    /\ runs' = runs \ {t}
    /\ pending' = [pending EXCEPT ![t] = "none"]
    /\ GoesTo(t, "ask_reply")
    /\ UNCHANGED <<archive, replies, cancelled, history>> /\ Others

(* submit_reply; a row stays when it is delivered.                         *)
Reply(t) ==
    /\ At(t, "reply")
    /\ replies' = replies \union {t}
    /\ GoesTo(t, "over")
    /\ UNCHANGED <<archive, runs, pending, cancelled, history>> /\ Others

(* The process of a turn dies; cleanup_orphan_runs ends the run.           *)
Die(t) ==
    /\ work[t].at \notin {"idle", "over", "dead"}
    /\ GoesTo(t, "dead")
    /\ UNCHANGED <<archive, Rows, cancelled, history>> /\ Others

Cleanup(t) ==
    /\ At(t, "dead")
    /\ t \in runs
    /\ runs' = runs \ {t}
    /\ UNCHANGED <<archive, pending, replies, cancelled, work, history>> /\ Others

(* resume_pending_turn_stream: the lease, a new run and its rebind, each   *)
(* behind the barrier.                                                     *)
Resume(t) ==
    /\ work[t].at \in {"over", "dead"}
    /\ work[t].resumes < MaxResumes
    /\ t \notin runs
    /\ pending[t] # "none"
    /\ SessionActive
    /\ work' = [work EXCEPT ![t] = [at |-> "ask_register", base |-> 0, resumes |-> @.resumes + 1,
                                    append |-> pending[t] = "prepared"]]
    /\ UNCHANGED <<archive, Rows, cancelled, history>> /\ Others

AskRegister(t) == Asks(t, "ask_register", "reregister", "over")

Rebind(t) ==
    /\ At(t, "rebind")
    /\ IF pending[t] # "none" /\ SessionActive
       THEN GoesTo(t, IF work[t].append THEN "answer" ELSE "prepare") /\ UNCHANGED Rows
       ELSE Settles(t) /\ UNCHANGED replies
    /\ UNCHANGED <<archive, cancelled, history>> /\ Others

(* _run_compaction: unless the transcript is another one by now.           *)
Compact ==
    /\ compaction.busy
    /\ compaction' = NoCompaction
    /\ \/ UNCHANGED archive
       \/ archive.rev = compaction.rev /\ archive' = Compacted(compaction.turns)
    /\ UNCHANGED <<session, Rows, cancelled, work, clear, closing, history>>

Turn(t) ==
    \/ Begin(t) \/ Register(t) \/ AskAccept(t) \/ Accept(t) \/ Prepare(t)
    \/ AskPrepared(t) \/ Prepared(t) \/ Answer(t) \/ Persist(t) \/ Complete(t)
    \/ AskReply(t) \/ Reply(t) \/ Die(t) \/ Cleanup(t)
    \/ Resume(t) \/ AskRegister(t) \/ Rebind(t)

-----------------------------------------------------------------------------
(* clear_session_history.                                                  *)

(* Let through, and not yet written.                                       *)
LetThrough == {t \in Turns : work[t].at \in {"register", "accept", "prepared", "reply", "reregister"}}

Clears(c) ==
    /\ clear' = c
    /\ UNCHANGED <<runs, cancelled, work, compaction, closing>>

ClearGoesTo(place) == Clears([clear EXCEPT !.at = place])

BeginClearing ==
    /\ clear.at = "idle"
    /\ clear.count < MaxClears
    /\ session = "active"
    /\ session' = "clearing"
    /\ Clears([clear EXCEPT !.at = "runs", !.count = @ + 1])
    /\ history' = [history EXCEPT !.late = @ \union LetThrough]
    /\ UNCHANGED <<archive, pending, replies>>

(* The looks that refuse, at whatever they find or raise.                  *)
Looks(from, empty, to) ==
    /\ clear.at = from
    /\ \/ empty /\ ClearGoesTo(to)
       \/ ClearGoesTo("release")
    /\ UNCHANGED <<session, archive, pending, replies, history>>

LookForNoRuns  == Looks("runs", TRUE, "pending")
LookForRuns    == Looks("runs", runs = {}, "pending")
LookForPending == Looks("pending", \A t \in Turns : pending[t] = "none", "replies")
LookForReplies == Looks("replies", replies = {}, "load")

Load ==
    /\ clear.at = "load"
    /\ Clears([clear EXCEPT !.at = "empty", !.base = archive.rev])
    /\ UNCHANGED <<session, archive, pending, replies, history>>

(* The turns that have seen the archive.                                   *)
HaveSeen == {t \in Turns : \/ work[t].at \in {"ask_prepared", "prepared", "answer", "persist"}
                          \/ pending[t] = "prepared"}

(* The cut.                                                                *)
Empty ==
    /\ clear.at = "empty"
    /\ IF archive.rev = clear.base
       THEN /\ archive' = [rev |-> archive.rev + 1, turns |-> {}, memory |-> {}]
            /\ Clears([clear EXCEPT !.at = "delete_pending", !.residual = {}, !.rounds = 1])
            /\ history' = [history EXCEPT !.erased = @ \union archive.turns \union HaveSeen,
                                          !.owed = {"pending", "replies"}, !.unlocked = FALSE]
       ELSE ClearGoesTo("release") /\ UNCHANGED <<archive, history>>
    /\ UNCHANGED <<session, pending, replies>>

(* A deletion that raises is noted.                                        *)
Deletes(store, from, to, ok) ==
    /\ clear.at = from
    /\ Clears([clear EXCEPT !.at = to, !.residual = IF ok THEN @ ELSE @ \union {store}])
    /\ history' = [history EXCEPT !.owed = IF ok THEN @ \ {store} ELSE @]
    /\ UNCHANGED <<session, archive>>

DeletePending(ok) ==
    /\ Deletes("pending", "delete_pending", "delete_replies", ok)
    /\ pending' = IF ok THEN [t \in Turns |-> "none"] ELSE pending
    /\ UNCHANGED replies

DeleteReplies(ok) ==
    /\ Deletes("replies", "delete_replies", "judge", ok)
    /\ replies' = IF ok THEN {} ELSE replies
    /\ UNCHANGED pending

(* Giving up without a lock.                                               *)
JudgeLeniently ==
    /\ clear.at = "judge"
    /\ ClearGoesTo("release")
    /\ UNCHANGED <<session, archive, pending, replies, history>>

Judge ==
    /\ clear.at = "judge"
    /\ CASE clear.residual = {} -> ClearGoesTo("release")
         [] clear.residual # {} /\ clear.rounds < MaxRetry ->
              Clears([clear EXCEPT !.at = "delete_pending", !.residual = {}, !.rounds = @ + 1])
         [] OTHER -> ClearGoesTo("lock")
    /\ UNCHANGED <<session, archive, pending, replies, history>>

(* mark_clearing_failed, which refuses a session that is not in clearing   *)
(* any more and may raise.                                                 *)
Lock ==
    /\ clear.at = "lock"
    /\ ClearGoesTo("release")
    /\ \/ /\ session' = IF session = "clearing" THEN "clearing_failed" ELSE session
          /\ UNCHANGED history
       \/ /\ history' = [history EXCEPT !.unlocked = TRUE]
          /\ UNCHANGED session
    /\ UNCHANGED <<archive, pending, replies>>

(* A release that asks nobody.                                             *)
ReleaseAnyway ==
    /\ clear.at = "release"
    /\ session' = IF session = "clearing_failed" THEN session ELSE "active"
    /\ ClearGoesTo("idle")
    /\ UNCHANGED <<archive, pending, replies, history>>

(* end_clearing, on every way out: refused unless the session is still in  *)
(* clearing.                                                               *)
Release ==
    /\ clear.at = "release"
    /\ session' = IF session = "clearing" THEN "active" ELSE session
    /\ ClearGoesTo("idle")
    /\ UNCHANGED <<archive, pending, replies, history>>

(* Its process dies; nothing takes the session out of clearing then.       *)
DieClearing ==
    /\ clear.at # "idle"
    /\ ClearGoesTo("idle")
    /\ UNCHANGED <<session, archive, pending, replies, history>>

ClearHistory ==
    \/ BeginClearing \/ LookForRuns \/ LookForPending \/ LookForReplies
    \/ Load \/ Empty
    \/ \E ok \in BOOLEAN : DeletePending(ok) \/ DeleteReplies(ok)
    \/ Judge \/ Lock \/ Release \/ DieClearing

-----------------------------------------------------------------------------
(* cancel_session.                                                         *)

Closes(from, to) ==
    /\ closing = from
    /\ closing' = to
    /\ UNCHANGED <<archive, work, compaction, clear>>

(* Only a session that is in use is closed.                                *)
CloseActive ==
    /\ Closes("no", "runs")
    /\ session' = IF session = "active" THEN "closed" ELSE session
    /\ history' = [history EXCEPT !.late = @ \union LetThrough]
    /\ UNCHANGED <<Rows, cancelled>>

(* close_session, whatever the session is in.                              *)
Close ==
    /\ Closes("no", "runs")
    /\ session' = "closed"
    /\ history' = [history EXCEPT !.late = @ \union LetThrough]
    /\ UNCHANGED <<Rows, cancelled>>

CancelRuns ==
    /\ Closes("runs", "replies")
    /\ cancelled' = cancelled \union runs
    /\ UNCHANGED <<session, Rows, history>>

SweepReplies ==
    /\ Closes("replies", "pending")
    /\ replies' = {}
    /\ UNCHANGED <<session, runs, cancelled, pending, history>>

SweepPending ==
    /\ Closes("pending", "done")
    /\ pending' = [t \in Turns |-> "none"]
    /\ UNCHANGED <<session, runs, cancelled, replies, history>>

CancelSession == Close \/ CancelRuns \/ SweepReplies \/ SweepPending

Next == (\E t \in Turns : Turn(t)) \/ Compact \/ ClearHistory \/ CancelSession

Spec == Init /\ [][Next]_vars

-----------------------------------------------------------------------------
(* Properties.                                                             *)

(* Types; a session is in clearing or locked only after a clear began; a   *)
(* run that waits for an answer is registered.                             *)
TypeOK ==
    /\ session \in States
    /\ archive \in [rev : Nat, turns : SUBSET Turns, memory : SUBSET Turns]
    /\ runs \subseteq Turns /\ cancelled \subseteq Turns /\ replies \subseteq Turns
    /\ pending \in [Turns -> {"none", "accepted", "prepared"}]
    /\ work \in [Turns -> [at : Places, base : Nat, append : BOOLEAN, resumes : 0..MaxResumes]]
    /\ compaction \in [busy : BOOLEAN, rev : Nat, turns : SUBSET Turns]
    /\ clear.count \in 0..MaxClears /\ clear.rounds \in 0..MaxRetry
    /\ clear.count = 0 => session \notin {"clearing", "clearing_failed"}
    /\ \A t \in Turns : work[t].at \in {"answer", "persist", "complete"} => t \in runs

(* A history that was cleared does not come back: no turn that was in the  *)
(* archive or had seen it when it was emptied is in it afterwards, written *)
(* by a run, a resumed run or a compaction, unless its writer had been let *)
(* through the barrier before this rose.                                   *)
ClearedStaysCleared ==
    (archive.turns \union archive.memory) \intersect history.erased \subseteq history.late

(* A turn whose persist_turn has returned stays in the archive until this  *)
(* is cleared, whatever turns and compactions write beside it.             *)
PersistedStays == history.persisted \ history.erased \subseteq archive.turns

(* A clear that has emptied the archive leaves a session open for writing  *)
(* only when it has emptied the other stores, too (docs/code_review.md:409)*)
(* or its lock could not be written.                                       *)
MixedIsLocked ==
    session = "active" /\ clear.at = "idle" /\ ~history.unlocked => history.owed = {}

(* Nothing puts a closed session back into use, not even the clear that it *)
(* was closed under.                                                       *)
ClosedStays == [][session = "closed" => session' = "closed"]_vars

(* When cancel_session is done, no run goes on and no row is left, except  *)
(* of those that had been let through the barrier when it rose.            *)
ClosedIsSwept ==
    closing = "done" =>
       (runs \ cancelled) \union replies \union {t \in Turns : pending[t] # "none"}
          \subseteq history.late

=============================================================================
