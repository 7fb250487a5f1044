----------------------------- MODULE StorageBatch -----------------------------
(***************************************************************************)
(* The batches that write the directory of one ticker, and the recovery of *)
(* those whose process died (dayu/fins/storage/_fs_storage_infra.py).      *)
(*                                                                         *)
(* A batch works on a staging copy of the directory.  Its commit moves the *)
(* directory to a backup, the copy to its place, and deletes the backup.   *)
(* Who holds the ticker's file lock is alive: the lock of a dead process   *)
(* is free.  A process recovers once, when it opens the repository.        *)
(*                                                                         *)
(* The documents in a directory are reduced to the batches that wrote      *)
(* them.  A move is a rename and does all or nothing; a deletion of a tree *)
(* can stop half-way and leave a directory that is not whole.  The journal *)
(* makes no difference to what recovery does to a directory and is left    *)
(* out; that writing it can fail is not.                                   *)
(***************************************************************************)
CONSTANTS Processes,    \* processes with the repository open for writing
          Batches,      \* token ids
          MayRaise,     \* whether the file system may fail
          None

ASSUME NoneIsNothing == None \notin Processes \union Batches
ASSUME MayRaiseIsBoolean == MayRaise \in BOOLEAN

VARIABLES
    target,     \* the directory portfolio/<ticker>
    staging,    \* .dayu/repo_batches/<token>/<ticker>
    backup,     \* .dayu/repo_backups/<ticker>.bak.<token>
    tokens,     \* the batches that have a directory .dayu/repo_batches/<token>
    lock,       \* who holds the ticker's lock
    proc,       \* where each process is
    committed,  \* history: the batches whose commit_batch has returned
    unswept,    \* history: a batch was begun beside what a dead one had left
    mangled     \* history: the deletion of a tree stopped half-way

vars == <<target, staging, backup, tokens, lock, proc, committed, unswept, mangled>>

(* A directory: the batches it has documents of.                           *)
Dir(has) == [there |-> TRUE, has |-> has, whole |-> TRUE]
NoDir    == [there |-> FALSE, has |-> {}, whole |-> TRUE]
Dirs     == [there : BOOLEAN, has : SUBSET Batches, whole : BOOLEAN]

(* What a deletion leaves when it stops half-way.                          *)
Mangled(dir) == [dir EXCEPT !.whole = FALSE]

Places == {"out", "batches", "backups", "ready", "begun", "moved", "swapped",
           "deleting", "written", "handle", "removing", "restore", "failed"}

(* `left` is what recovery has still to look at of its listing.            *)
At(p, place) == proc[p].at = place
Out == [at |-> "out", batch |-> None, left |-> {}]

GoesTo(p, place) == proc' = [proc EXCEPT ![p].at = place]

Leftovers == tokens # {} \/ \E b \in Batches : backup[b].there

Used(b) == b \in committed \/ b \in tokens \/ backup[b].there \/ b \in target.has
              \/ \E p \in Processes : proc[p].batch = b

-----------------------------------------------------------------------------

Init ==
    /\ target    = NoDir
    /\ staging   = [b \in Batches |-> NoDir]
    /\ backup    = [b \in Batches |-> NoDir]
    /\ tokens    = {}
    /\ lock      = None
    /\ proc      = [p \in Processes |-> Out]
    /\ committed = {}
    /\ unswept   = FALSE
    /\ mangled   = FALSE

History == <<committed, unswept, mangled>>
Files   == <<target, staging, backup, tokens>>

-----------------------------------------------------------------------------
(* Recovery: recover_orphan_batches, under the recovery lock.              *)

Recovering(p) == proc[p].at \in {"batches", "backups"}

(* build_fs_repository_set, and the listing of the batch directories.      *)
Open(p) ==
    /\ At(p, "out")
    /\ \A q \in Processes : ~Recovering(q)
    /\ proc' = [proc EXCEPT ![p] = [Out EXCEPT !.at = "batches", !.left = tokens]]
    /\ UNCHANGED <<Files, lock, History>>

(* A backup goes back where nothing is, and goes away otherwise.           *)
BackupResolved(b) ==
    IF target.there
    THEN UNCHANGED target /\ backup' = [backup EXCEPT ![b] = NoDir]
    ELSE target' = backup[b] /\ backup' = [backup EXCEPT ![b] = NoDir]

(* A recovery that goes by the batch directories it finds.                 *)
SweepUnlocked(p, b) ==
    /\ At(p, "batches")
    /\ b \in proc[p].left
    /\ IF backup[b].there THEN BackupResolved(b) ELSE UNCHANGED <<target, backup>>
    /\ staging' = [staging EXCEPT ![b] = NoDir]
    /\ tokens' = tokens \ {b}
    /\ proc' = [proc EXCEPT ![p].left = @ \ {b}]
    /\ UNCHANGED <<lock, History>>

(* _recover_single_batch_dir: a batch that is alive is passed over, one    *)
(* that is gone is not there any more.                                     *)
SweepBatch(p, b) ==
    /\ At(p, "batches")
    /\ b \in proc[p].left
    /\ IF lock # None \/ b \notin tokens
       THEN UNCHANGED Files
       ELSE /\ IF backup[b].there THEN BackupResolved(b) ELSE UNCHANGED <<target, backup>>
            /\ staging' = [staging EXCEPT ![b] = NoDir]
            /\ tokens' = tokens \ {b}
    /\ proc' = [proc EXCEPT ![p].left = @ \ {b}]
    /\ UNCHANGED <<lock, History>>

(* The listing of the backups.                                             *)
ListBackups(p) ==
    /\ At(p, "batches")
    /\ proc[p].left = {}
    /\ proc' = [proc EXCEPT ![p].at = "backups",
                            ![p].left = {b \in Batches : backup[b].there}]
    /\ UNCHANGED <<Files, lock, History>>

(* _recover_orphan_backup_dirs: only those that no batch directory has.    *)
SweepBackup(p, b) ==
    /\ At(p, "backups")
    /\ b \in proc[p].left
    /\ IF b \in tokens \/ lock # None \/ ~backup[b].there
       THEN UNCHANGED <<target, backup>>
       ELSE BackupResolved(b)
    /\ proc' = [proc EXCEPT ![p].left = @ \ {b}]
    /\ UNCHANGED <<staging, tokens, lock, History>>

Opened(p) ==
    /\ At(p, "backups")
    /\ proc[p].left = {}
    /\ GoesTo(p, "ready")
    /\ UNCHANGED <<Files, lock, History>>

-----------------------------------------------------------------------------
(* A batch.                                                                *)

(* begin_batch and what is then written into the staging copy.  The file   *)
(* lock is not waited for.                                                 *)
Begin(p, b) ==
    /\ At(p, "ready")
    /\ lock = None
    /\ ~Used(b)
    /\ lock' = p
    /\ tokens' = tokens \union {b}
    /\ staging' = [staging EXCEPT ![b] = Dir(target.has \union {b})]
    /\ proc' = [proc EXCEPT ![p].at = "begun", ![p].batch = b]
    /\ unswept' = (unswept \/ Leftovers)
    /\ UNCHANGED <<target, backup, committed, mangled>>

(* The batch directory is deleted and the lock given back.                 *)
Ends(p) ==
    /\ staging' = [staging EXCEPT ![proc[p].batch] = NoDir]
    /\ tokens' = tokens \ {proc[p].batch}
    /\ lock' = None
    /\ proc' = [proc EXCEPT ![p].at = "ready", ![p].batch = None]

(* rollback_batch, whether its journal can be written or not.              *)
RollBack(p) ==
    /\ At(p, "begun")
    /\ Ends(p)
    /\ UNCHANGED <<target, backup, History>>

(* commit_batch.                                                           *)

MoveAway(p) ==
    /\ At(p, "begun")
    /\ backup' = [backup EXCEPT ![proc[p].batch] = target]
    /\ target' = NoDir
    /\ GoesTo(p, "moved")
    /\ UNCHANGED <<staging, tokens, lock, History>>

Swap(p) ==
    /\ At(p, "moved")
    /\ target' = staging[proc[p].batch]
    /\ staging' = [staging EXCEPT ![proc[p].batch] = NoDir]
    /\ GoesTo(p, "swapped")
    /\ UNCHANGED <<backup, tokens, lock, History>>

DeleteBackup(p) ==
    /\ At(p, "swapped")
    /\ IF backup[proc[p].batch].there
       THEN /\ backup' = [backup EXCEPT ![proc[p].batch] = Mangled(@)]
            /\ GoesTo(p, "deleting")
       ELSE GoesTo(p, "written") /\ UNCHANGED backup
    /\ UNCHANGED <<target, staging, tokens, lock, History>>

BackupDeleted(p) ==
    /\ At(p, "deleting")
    /\ backup' = [backup EXCEPT ![proc[p].batch] = NoDir]
    /\ GoesTo(p, "written")
    /\ UNCHANGED <<target, staging, tokens, lock, History>>

Committed(p) ==
    /\ At(p, "written")
    /\ Ends(p)
    /\ committed' = committed \union {proc[p].batch}
    /\ UNCHANGED <<target, backup, unswept, mangled>>

(* A move, a deletion or the writing of the journal raises.                *)
Raise(p) ==
    /\ MayRaise
    /\ proc[p].at \in {"begun", "moved", "swapped", "deleting", "written"}
    /\ GoesTo(p, "handle")
    /\ mangled' = (mangled \/ At(p, "deleting"))
    /\ UNCHANGED <<Files, lock, committed, unswept>>

(* A handler that deletes the directory though there is no backup.         *)
HandleAnyway(p) ==
    /\ At(p, "handle")
    /\ LET b == proc[p].batch
       IN  IF target.there /\ ~staging[b].there
           THEN target' = Mangled(target) /\ GoesTo(p, "removing")
           ELSE UNCHANGED target /\ GoesTo(p, "restore")
    /\ UNCHANGED <<staging, backup, tokens, lock, History>>

(* The handler.  Having replaced the directory, while there is a backup,   *)
(* it deletes it again.                                                    *)
Handle(p) ==
    /\ At(p, "handle")
    /\ LET b == proc[p].batch
       IN  IF backup[b].there /\ target.there /\ ~staging[b].there
           THEN target' = Mangled(target) /\ GoesTo(p, "removing")
           ELSE UNCHANGED target /\ GoesTo(p, "restore")
    /\ UNCHANGED <<staging, backup, tokens, lock, History>>

(* rmtree with ignore_errors.                                              *)
Removed(p) ==
    /\ At(p, "removing")
    /\ \/ target' = NoDir /\ UNCHANGED mangled
       \/ UNCHANGED target /\ mangled' = TRUE
    /\ GoesTo(p, "restore")
    /\ UNCHANGED <<staging, backup, tokens, lock, committed, unswept>>

(* Moving the backup back may raise, too.                                  *)
Restore(p) ==
    /\ At(p, "restore")
    /\ LET b == proc[p].batch
       IN  \/ /\ backup[b].there /\ ~target.there
              /\ target' = backup[b]
              /\ backup' = [backup EXCEPT ![b] = NoDir]
           \/ UNCHANGED <<target, backup>>
    /\ GoesTo(p, "failed")
    /\ UNCHANGED <<staging, tokens, lock, History>>

Failed(p) ==
    /\ At(p, "failed")
    /\ Ends(p)
    /\ UNCHANGED <<target, backup, History>>

(* The process dies: a deletion it was at stays half-done.                 *)
Crash(p) ==
    /\ ~At(p, "out")
    /\ proc' = [proc EXCEPT ![p] = Out]
    /\ lock' = IF lock = p THEN None ELSE lock
    /\ mangled' = (mangled \/ At(p, "removing"))
    /\ UNCHANGED <<Files, committed, unswept>>

Recover(p) == ListBackups(p) \/ Opened(p)
                 \/ \E b \in Batches : SweepBatch(p, b) \/ SweepBackup(p, b)

Commit(p) == MoveAway(p) \/ Swap(p) \/ DeleteBackup(p) \/ BackupDeleted(p) \/ Committed(p)

HandleFailure(p) == Handle(p) \/ Removed(p) \/ Restore(p) \/ Failed(p)

Next ==
    \E p \in Processes :
       \/ Open(p) \/ Recover(p) \/ Crash(p)
       \/ \E b \in Batches : Begin(p, b)
       \/ RollBack(p) \/ Commit(p) \/ Raise(p) \/ HandleFailure(p)

Spec == Init /\ [][Next]_vars

-----------------------------------------------------------------------------
(* Properties.                                                             *)

(* Types; the lock is held during a batch and by nobody else.              *)
InBatch(p) == proc[p].at \notin {"out", "batches", "backups", "ready"}

TypeOK ==
    /\ target \in Dirs
    /\ staging \in [Batches -> Dirs]
    /\ backup \in [Batches -> Dirs]
    /\ tokens \subseteq Batches
    /\ lock \in Processes \union {None}
    /\ proc \in [Processes -> [at : Places, batch : Batches \union {None}, left : SUBSET Batches]]
    /\ committed \subseteq Batches
    /\ unswept \in BOOLEAN /\ mangled \in BOOLEAN
    /\ \A p \in Processes : /\ InBatch(p) <=> lock = p
                            /\ InBatch(p) <=> proc[p].batch # None
                            /\ InBatch(p) => proc[p].batch \in tokens

(* What was committed is kept, in the directory or, while this is away, in *)
(* a backup that recovery will find, through every crash and every failure *)
(* of a commit.  The exceptions: a batch that was begun beside what a dead *)
(* one had left, and a deletion that stopped half-way.                     *)
Keeps(dir) == dir.there /\ dir.whole /\ committed \subseteq dir.has

CommittedIsKept == committed # {} => Keeps(target) \/ \E b \in Batches : Keeps(backup[b])

CommittedIsKeptIfSwept == unswept \/ mangled \/ CommittedIsKept

(* The same without the first exception: a process that is still open      *)
(* begins where another one died (docs/fins_storage_design.md:57).         *)
CommittedSurvivesCrashes == mangled \/ CommittedIsKept

(* What recovery or the handler will leave of the documents, if nothing    *)
(* more is done: the directory, or the backup that will stand in for it.   *)
Content == IF target.there /\ target.whole THEN target.has
           ELSE UNION {backup[b].has : b \in {c \in Batches : backup[c].whole}}

AtWork == {proc[p].batch : p \in Processes} \ {None}

Atomic == INSTANCE AtomicBatches WITH content <- Content, atWork <- AtWork

(* Moves, deletions, failures, crashes and recoveries between them make    *)
(* batches that happen as a whole or not at all and, once committed, stay  *)
(* (docs/fins_storage_design.md:57).  The exceptions: a batch that was     *)
(* begun beside what a dead one had left, and a deletion that stopped      *)
(* half-way.                                                               *)
ImplementsAtomicBatches ==
    /\ Atomic!Init
    /\ [][unswept' \/ mangled' \/ Atomic!Next \/ UNCHANGED Atomic!ticker]_vars

(* Nobody touches the directory, the copy or the backup of a batch whose   *)
(* process lives, but this process (docs/fins_storage_design.md:88).       *)
LiveIsUntouched ==
    [][\A p \in Processes : InBatch(p) /\ proc'[p] = proc[p] =>
          /\ target' = target
          /\ staging'[proc[p].batch] = staging[proc[p].batch]
          /\ backup'[proc[p].batch] = backup[proc[p].batch]]_vars

=============================================================================
