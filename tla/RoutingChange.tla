---------------------------- MODULE RoutingChange ----------------------------
(***************************************************************************)
(* Transactions on the scene manifests, the files that say which model     *)
(* writes which scene (dayu/services/write_model_configuration_*.py): a    *)
(* change, its roll-back by an operator, the manual recovery after a       *)
(* roll-back that failed, and the gate that a recovery shuts.              *)
(*                                                                         *)
(* The three kinds have one protocol, so that a transaction is its plan: a *)
(* complete routing it starts from, another it leads to, and the scenes it *)
(* rewrites.  A command works under one lock, which a dying process lets   *)
(* go, and leaves an intent, a consumption and a receipt in files.  Beside *)
(* the commands an editor, who knows no lock, writes manifests.            *)
(*                                                                         *)
(* A manifest is reduced to its content.  The scenes of a plan are         *)
(* rewritten in any order; the code has a fixed one.                       *)
(***************************************************************************)
EXTENDS Naturals, Sequences

CONSTANTS Scenes,       \* the manifests
          Models,       \* manifests that name a model,
          Foreign,      \* and what else the editor may write
          Changes,      \* approved changes,
          Rollbacks,    \* approved roll-backs and
          Recoveries,   \* approved manual recoveries, each with its approval
          MaxEdits,     \* how often the editor writes
          None

Contents == Models \union Foreign

Txns == Changes \union Rollbacks \union Recoveries

ASSUME ConstantsAssumption ==
    /\ Changes \intersect Rollbacks = {}
    /\ Recoveries \intersect (Changes \union Rollbacks) = {}
    /\ None \notin Txns \union Scenes
    /\ MaxEdits \in Nat

VARIABLES
    manifest,   \* what stands in each manifest
    plans,      \* the plan of each transaction
    files,      \* what each transaction has on disk: intent, consumed, receipt
    log,        \* the transactions that have a receipt, in that order
    work,       \* the command that holds the lock
    cleared,    \* the recoveries with a clearance
    revoked,    \* those whose clearance was revoked
    torn,       \* history: transactions interrupted after their consumption
    edits,      \* how often the editor has written
    quiet       \* history: not since the latest command that got to work

vars == <<manifest, plans, files, log, work, cleared, revoked, torn, edits, quiet>>

Routings == [Scenes -> Contents]

(* `of` is the change a roll-back takes back, the roll-back a recovery     *)
(* repairs.                                                                *)
Plans == [scenes : (SUBSET Scenes) \ {{}}, base : Routings, goal : Routings,
          of : Txns \union {None}]
NoPlan == [scenes |-> {}]

(* The statuses of the three kinds of receipt: applied, rolled_back and    *)
(* recovered; rolled_back, rolled_forward and starting_state_restored;     *)
(* rollback_failed and recovery_failed.                                    *)
Outcomes == {"done", "undone", "failed"}

NoFiles == [intent |-> FALSE, consumed |-> FALSE, receipt |-> "none"]

(* `left` are the scenes still to be rewritten or put back, `scene` the    *)
(* one at hand; `raced`, a history: it was edited after it was looked at.  *)
Idle == [txn |-> None, at |-> "idle", left |-> {}, scene |-> None,
         ok |-> TRUE, raced |-> FALSE, outcome |-> "none"]

LockFree == work = Idle
At(place) == work.at = place

From(t, s) == plans[t].base[s]
To(t, s)   == plans[t].goal[s]

Planned(t)     == plans[t] # NoPlan
Interrupted(t) == files[t].consumed /\ files[t].receipt = "none" /\ work.txn # t

(* _assert_target_bytes_current, _assert_target_bytes.                     *)
TargetsCurrent(t) == \A s \in plans[t].scenes : manifest[s] = From(t, s)

(* The preflight of a change or a roll-back compares the whole routing, a  *)
(* recovery the bytes it will replace.                                     *)
PlanCurrent(t) == IF t \in Recoveries THEN TargetsCurrent(t) ELSE manifest = plans[t].base

-----------------------------------------------------------------------------
(* The gate.                                                               *)

(* _internal_receipts: a transaction directory without a receipt.          *)
Unfinished == {t \in Recoveries : files[t].intent /\ files[t].receipt = "none"}

(* _latest_internal_receipt.                                               *)
IsLatest(i) == /\ i \in DOMAIN log /\ log[i] \in Recoveries
               /\ \A j \in DOMAIN log : log[j] \in Recoveries => j <= i
Latest == IF \E i \in DOMAIN log : IsLatest(i)
          THEN log[CHOOSE i \in DOMAIN log : IsLatest(i)] ELSE None

(* _assess_gate_locked.                                                    *)
Gate ==
    CASE Unfinished # {} -> "manual_recovery_required"
      [] Unfinished = {} /\ Latest = None -> "not_required"
      [] Unfinished = {} /\ Latest # None /\ files[Latest].receipt # "done" ->
           "manual_recovery_required"
      [] OTHER -> IF Latest \notin cleared THEN "clearance_required"
                  ELSE IF Latest \in revoked THEN "clearance_revoked" ELSE "cleared"

GateOpen == Gate \in {"not_required", "cleared"}

-----------------------------------------------------------------------------

Init ==
    /\ \E c \in Models : manifest = [s \in Scenes |-> c]
    /\ plans   = [t \in Txns |-> NoPlan]
    /\ files   = [t \in Txns |-> NoFiles]
    /\ log     = <<>>
    /\ work    = Idle
    /\ cleared = {}
    /\ revoked = {}
    /\ torn    = {}
    /\ edits   = 0
    /\ quiet   = TRUE

-----------------------------------------------------------------------------
(* Plans and their approvals.                                              *)

Plan(t, plan) ==
    /\ plans' = [plans EXCEPT ![t] = plan]
    /\ UNCHANGED <<manifest, files, log, work, cleared, revoked, torn, edits, quiet>>

(* build_write_model_configuration_preapplication_plan.  It takes no lock; *)
(* the command has asked the gate before, and it may have shut since.      *)
PlanChange(t, goal) ==
    /\ ~Planned(t)
    /\ goal # manifest
    /\ \A s \in Scenes : goal[s] \in Models \union {manifest[s]}
    /\ Plan(t, [scenes |-> {s \in Scenes : goal[s] # manifest[s]},
                base |-> manifest, goal |-> goal, of |-> None])

(* build_write_model_configuration_operator_rollback_plan: the change must *)
(* be applied and still be the routing.                                    *)
PlanRollback(t, change) ==
    /\ ~Planned(t)
    /\ files[change].receipt = "done"
    /\ manifest = plans[change].goal
    /\ Plan(t, [scenes |-> plans[change].scenes,
                base |-> manifest, goal |-> plans[change].base, of |-> change])

(* build_write_model_configuration_manual_recovery_plan: whatever stands   *)
(* in the manifests, back to the one side of the change or to the other.   *)
PlanRecovery(t, rollback) ==
    /\ ~Planned(t)
    /\ files[rollback].receipt = "failed"
    /\ \E goal \in {plans[rollback].base, plans[rollback].goal} :
          Plan(t, [scenes |-> plans[rollback].scenes,
                   base |-> manifest, goal |-> goal, of |-> rollback])

-----------------------------------------------------------------------------
(* A command: apply_write_model_configuration_preapplication_plan,         *)
(* apply_write_model_configuration_operator_rollback,                      *)
(* apply_write_model_configuration_manual_recovery.                        *)

(* It goes on holding the lock, at another place.                          *)
GoesOn(w) ==
    /\ work' = w
    /\ UNCHANGED <<plans, cleared, revoked, torn, edits, quiet>>

(* It is past its consumption: from here on it leaves a receipt.           *)
GetsToWork(w) ==
    /\ work' = w
    /\ quiet' = TRUE
    /\ UNCHANGED <<plans, cleared, revoked, torn, edits>>

Work(t, at) == [Idle EXCEPT !.txn = t, !.at = at, !.left = plans[t].scenes]

(* A receipt of the recovery must still be the failed roll-back's.         *)
SourceStands(t) ==
    t \in Recoveries => files[plans[t].of].receipt = "failed"

(* The plan is verified, the targets are looked at, and the intent is      *)
(* written: with _persist_immutable, so that a change refuses when it      *)
(* finds that of an earlier attempt, which has another created_at; with    *)
(* _persist_or_reuse_intent otherwise.  An approval may have expired: then *)
(* the command does not begin.                                             *)
Begin(t) ==
    /\ LockFree
    /\ Planned(t)
    /\ ~files[t].consumed
    /\ SourceStands(t)
    /\ PlanCurrent(t)
    /\ TargetsCurrent(t)
    /\ t \in Changes => ~files[t].intent
    /\ files' = [files EXCEPT ![t].intent = TRUE]
    /\ GoesOn(Work(t, "consume"))
    /\ UNCHANGED <<manifest, log>>

(* The second look at the targets, and _persist_exclusive.                 *)
Consume(t) ==
    /\ At("consume") /\ work.txn = t
    /\ TargetsCurrent(t)
    /\ files' = [files EXCEPT ![t].consumed = TRUE]
    /\ GetsToWork([work EXCEPT !.at = "check"])
    /\ UNCHANGED <<manifest, log>>

(* The exception handler around the replacements begins.                   *)
Undo(t) == Work(t, "undo")

(* The last look at one target.                                            *)
Check(t, s) ==
    /\ At("check") /\ work.txn = t
    /\ s \in work.left
    /\ GoesOn(IF manifest[s] = From(t, s)
              THEN [work EXCEPT !.at = "replace", !.scene = s]
              ELSE Undo(t))
    /\ UNCHANGED <<manifest, files, log>>

(* _replace_staged_file, which may raise, and a look at what was written.  *)
(* An edit that slips in between fails the command here or, with the same  *)
(* consequences, at the next check or at the preflight.                    *)
Replace(t) ==
    /\ At("replace") /\ work.txn = t
    /\ \/ LET left == work.left \ {work.scene}
          IN  /\ manifest' = [manifest EXCEPT ![work.scene] = To(t, work.scene)]
              /\ GoesOn([Idle EXCEPT !.txn = t, !.left = left,
                            !.at = IF left = {} THEN "preflight" ELSE "check"])
       \/ /\ UNCHANGED manifest
          /\ GoesOn(Undo(t))
    /\ UNCHANGED <<files, log>>

(* snapshot_builder and _verify_applied_snapshot or its siblings.          *)
Preflight(t) ==
    /\ At("preflight") /\ work.txn = t
    /\ \/ /\ manifest = plans[t].goal
          /\ GoesOn([work EXCEPT !.at = "record", !.outcome = "done"])
       \/ GoesOn(Undo(t))
    /\ UNCHANGED <<manifest, files, log>>

Passed(s)    == [work EXCEPT !.left = @ \ {s}]
NotPassed(s) == [work EXCEPT !.left = @ \ {s}, !.ok = FALSE]

(* A restoration that writes over whatever it finds.                       *)
UndoBlindly(t, s) ==
    /\ At("undo") /\ work.txn = t
    /\ s \in work.left
    /\ GoesOn(IF manifest[s] = From(t, s) THEN Passed(s)
              ELSE [work EXCEPT !.at = "unreplace", !.scene = s])
    /\ UNCHANGED <<manifest, files, log>>

(* _restore_operations, _restore_applied_state, _restore_starting_state.   *)
UndoCheck(t, s) ==
    /\ At("undo") /\ work.txn = t
    /\ s \in work.left
    /\ GoesOn(CASE manifest[s] = From(t, s) -> Passed(s)
                [] manifest[s] = To(t, s) /\ manifest[s] # From(t, s) ->
                     [work EXCEPT !.at = "unreplace", !.scene = s]
                [] OTHER -> NotPassed(s))
    /\ UNCHANGED <<manifest, files, log>>

(* _replace_content_atomically, which may raise.                           *)
Unreplace(t) ==
    /\ At("unreplace") /\ work.txn = t
    /\ \/ /\ manifest' = [manifest EXCEPT ![work.scene] = From(t, work.scene)]
          /\ GoesOn([Passed(work.scene) EXCEPT !.at = "undo", !.scene = None, !.raced = FALSE])
       \/ /\ UNCHANGED manifest
          /\ GoesOn([NotPassed(work.scene) EXCEPT !.at = "undo", !.scene = None, !.raced = FALSE])
    /\ UNCHANGED <<files, log>>

(* What is put back is what stood there before.                            *)
ConfirmNothing(t) ==
    /\ At("undo") /\ work.txn = t
    /\ work.left = {}
    /\ GoesOn([work EXCEPT !.at = "record", !.outcome = IF work.ok THEN "undone" ELSE "failed"])
    /\ UNCHANGED <<manifest, files, log>>

(* _verify_rolled_back_snapshot and _verify_snapshot_fingerprint, which    *)
(* may also raise; the second loop of _restore_starting_state, which does  *)
(* not.                                                                    *)
Confirm(t) ==
    /\ At("undo") /\ work.txn = t
    /\ work.left = {}
    /\ \/ /\ work.ok /\ PlanCurrent(t)
          /\ GoesOn([work EXCEPT !.at = "record", !.outcome = "undone"])
       \/ /\ t \notin Recoveries \/ ~work.ok \/ ~PlanCurrent(t)
          /\ GoesOn([work EXCEPT !.at = "record", !.outcome = "failed"])
    /\ UNCHANGED <<manifest, files, log>>

(* _persist_receipts, up to the internal receipt.                          *)
Record(t) ==
    /\ At("record") /\ work.txn = t
    /\ files' = [files EXCEPT ![t].receipt = work.outcome]
    /\ log' = Append(log, t)
    /\ work' = Idle
    /\ UNCHANGED <<manifest, plans, cleared, revoked, torn, edits, quiet>>

(* An interrupted transaction goes on where it was.                        *)
ResumeForwards(t) ==
    /\ LockFree
    /\ Interrupted(t)
    /\ GetsToWork(Work(t, "check"))
    /\ UNCHANGED <<manifest, files, log>>

(* _existing_transaction_result of the same command run again:             *)
(* _recover_interrupted_transaction, _recover_consumed_transaction.  With  *)
(* a receipt it only exports that again.                                   *)
Resume(t) ==
    /\ LockFree
    /\ Interrupted(t)
    /\ GetsToWork(Undo(t))
    /\ UNCHANGED <<manifest, files, log>>

(* The process dies, or an exception ends the command outside the handler: *)
(* a check that refuses, an intent that is there already, a receipt that   *)
(* cannot be written.                                                      *)
Abandon ==
    /\ ~LockFree
    /\ work' = Idle
    /\ torn' = IF files[work.txn].consumed THEN torn \union {work.txn} ELSE torn
    /\ UNCHANGED <<manifest, plans, files, log, cleared, revoked, edits, quiet>>

Command(t) ==
    \/ Begin(t) \/ Consume(t)
    \/ Replace(t) \/ Preflight(t) \/ Record(t)
    \/ Resume(t) \/ Unreplace(t) \/ Confirm(t)
    \/ \E s \in Scenes : Check(t, s) \/ UndoCheck(t, s)

-----------------------------------------------------------------------------
(* Around the commands.                                                    *)

(* A clearance of a recovery that was not verified.                        *)
ClearUnverified(t) ==
    /\ LockFree
    /\ Gate = "clearance_required"
    /\ t = Latest
    /\ cleared' = cleared \union {t}
    /\ UNCHANGED <<manifest, plans, files, log, work, revoked, torn, edits, quiet>>

(* issue_write_model_configuration_manual_recovery_clearance of another    *)
(* operator.  It is not asked whether the clearance was revoked: there is  *)
(* one already then.                                                       *)
Clear(t) ==
    /\ LockFree
    /\ Unfinished = {}
    /\ t = Latest
    /\ files[t].receipt = "done"
    /\ t \notin cleared
    /\ manifest = plans[t].goal
    /\ cleared' = cleared \union {t}
    /\ UNCHANGED <<manifest, plans, files, log, work, revoked, torn, edits, quiet>>

(* revoke_write_model_configuration_manual_recovery_clearance.             *)
Revoke(t) ==
    /\ LockFree
    /\ Gate = "cleared"
    /\ t = Latest
    /\ revoked' = revoked \union {t}
    /\ UNCHANGED <<manifest, plans, files, log, work, cleared, torn, edits, quiet>>

Edit(s, c) ==
    /\ edits < MaxEdits
    /\ c # manifest[s]
    /\ manifest' = [manifest EXCEPT ![s] = c]
    /\ work' = [work EXCEPT !.raced = @ \/ work.scene = s]
    /\ edits' = edits + 1
    /\ quiet' = FALSE
    /\ UNCHANGED <<plans, files, log, cleared, revoked, torn>>

Next ==
    \/ \E t \in Changes, goal \in Routings : PlanChange(t, goal)
    \/ \E t \in Rollbacks, change \in Changes : PlanRollback(t, change)
    \/ \E t \in Recoveries, rollback \in Rollbacks : PlanRecovery(t, rollback)
    \/ \E t \in Txns : Command(t)
    \/ \E t \in Recoveries : Clear(t) \/ Revoke(t)
    \/ Abandon
    \/ \E s \in Scenes, c \in Contents : Edit(s, c)

Spec == Init /\ [][Next]_vars

-----------------------------------------------------------------------------
(* Properties.                                                             *)

Places == {"idle", "consume", "check", "replace", "preflight",
           "undo", "unreplace", "record"}

(* Types; the lock is held by a transaction that has a plan; a receipt     *)
(* follows a consumption, which follows an intent.                         *)
TypeOK ==
    /\ manifest \in Routings
    /\ plans \in [Txns -> Plans \union {NoPlan}]
    /\ files \in [Txns -> [intent : BOOLEAN, consumed : BOOLEAN,
                           receipt : Outcomes \union {"none"}]]
    /\ \A t \in Txns : /\ files[t].receipt # "none" => files[t].consumed
                       /\ files[t].consumed => files[t].intent
                       /\ files[t].intent => Planned(t)
    /\ log \in Seq(Txns)
    /\ work \in [txn : Txns \union {None}, at : Places, left : SUBSET Scenes,
                 scene : Scenes \union {None}, ok : BOOLEAN, raced : BOOLEAN,
                 outcome : Outcomes \union {"none"}]
    /\ work.txn = None <=> work = Idle
    /\ work.txn # None => Planned(work.txn)
    /\ revoked \subseteq cleared /\ cleared \subseteq Recoveries
    /\ torn \subseteq Txns
    /\ edits \in 0..MaxEdits
    /\ quiet \in BOOLEAN

(* While nobody has edited a manifest since the last command got to work,  *)
(* and no transaction is under way or interrupted, the routing is the one  *)
(* that the last receipt vouches for, unless this says that it failed:     *)
(* however many transactions were interrupted, overtaken by others and     *)
(* restored later (README.md:870).                                         *)
Vouched(t) ==
    CASE files[t].receipt = "done"   -> manifest = plans[t].goal
      [] files[t].receipt = "undone" -> PlanCurrent(t)
      [] OTHER                       -> TRUE

LastReceiptIsTrue ==
    quiet /\ LockFree /\ log # <<>> /\ (\A t \in Txns : ~Interrupted(t))
        => Vouched(log[Len(log)])

(* A command writes over nothing but what its plan has named, the content  *)
(* it starts from or the one it leads to, except for what was edited after *)
(* it had looked: neither the replacement nor the restoration after a      *)
(* failure or a crash takes an edit away that it could have seen.          *)
Overwrites(t, s) == work.txn = t /\ work.scene = s /\ ~work.raced
                        /\ edits' = edits /\ manifest'[s] # manifest[s]

EditsSurvive ==
    [][\A t \in Txns, s \in Scenes :
          Overwrites(t, s) => manifest[s] \in {From(t, s), To(t, s)}]_vars

(* Once a transaction was interrupted after it had consumed its approval,  *)
(* it never leads forward again (README.md:870: rerunning the command      *)
(* restores, "never applies again"), and every receipt it gets says so.    *)
AppliedOnce ==
    [][\A t \in torn : /\ \A s \in Scenes : Overwrites(t, s) => manifest'[s] = From(t, s)
                       /\ files'[t].receipt = "done" => files[t].receipt = "done"]_vars

(* The gate is opened again only by a clearance, while the routing is what *)
(* the latest recovery was approved to lead to, and nothing but a recovery *)
(* that is newer than a revoked clearance opens it after that.             *)
GateIsEarned ==
    [][~GateOpen /\ GateOpen' =>
          /\ Latest # None /\ Unfinished = {}
          /\ manifest = plans[Latest].goal
          /\ Latest \notin revoked]_vars

=============================================================================
