------------------------- MODULE StorageBatch_proofs -------------------------
(***************************************************************************)
(* Proofs about StorageBatch: its types, with who holds the lock, and that *)
(* no process touches what another one has under way; that what was        *)
(* committed is kept, and that it implements AtomicBatches.                *)
(*                                                                         *)
(* TypeOK is inductive: a process in a batch holds the lock, so that no    *)
(* other one is in a batch, and recovery, which only works on a directory  *)
(* whose lock is free, passes its batch over.                              *)
(***************************************************************************)
EXTENDS StorageBatch, TLAPS

(* What directories are made of.                                           *)
LEMMA DirTypes ==
    /\ NoDir \in Dirs
    /\ \A has \in SUBSET Batches : Dir(has) \in Dirs
    /\ \A dir \in Dirs : Mangled(dir) \in Dirs /\ dir.has \in SUBSET Batches
  BY DEF NoDir, Dir, Mangled, Dirs

(* A process that is in no batch.                                          *)
LEMMA OutType ==
    /\ Out \in [at : Places, batch : Batches \union {None}, left : SUBSET Batches]
    /\ Out.at = "out" /\ Out.batch = None
  BY DEF Out, Places

LEMMA InitType == Init => TypeOK
<1> SUFFICES ASSUME Init PROVE TypeOK
  OBVIOUS
<1>1. /\ staging \in [Batches -> Dirs] /\ backup \in [Batches -> Dirs]
      /\ target \in Dirs
  BY DirTypes DEF Init
<1>2. /\ proc \in [Processes -> [at : Places, batch : Batches \union {None}, left : SUBSET Batches]]
      /\ \A p \in Processes : proc[p] = Out
  BY OutType DEF Init
<1>3. \A p \in Processes : /\ InBatch(p) <=> lock = p
                           /\ InBatch(p) <=> proc[p].batch # None
                           /\ InBatch(p) => proc[p].batch \in tokens
  BY <1>2, OutType, NoneIsNothing DEF Init, InBatch
<1> QED
  BY <1>1, <1>2, <1>3 DEF Init, TypeOK

LEMMA OpenType ==
  ASSUME TypeOK, NEW p \in Processes, Open(p) PROVE TypeOK'
  BY NoneIsNothing, DirTypes, OutType
  DEF TypeOK, Open, Files, History, InBatch, At, Places

LEMMA SweepBatchType ==
  ASSUME TypeOK, NEW p \in Processes, NEW b \in Batches, SweepBatch(p, b) PROVE TypeOK'
  BY NoneIsNothing, DirTypes
  DEF TypeOK, SweepBatch, BackupResolved, Files, History, InBatch, At, Places

LEMMA ListBackupsType ==
  ASSUME TypeOK, NEW p \in Processes, ListBackups(p) PROVE TypeOK'
<1> DEFINE new == [proc[p] EXCEPT !.at = "backups", !.left = {b \in Batches : backup[b].there}]
<1>1. proc' = [proc EXCEPT ![p] = new]
  BY DEF ListBackups, TypeOK
<1>2. /\ new \in [at : Places, batch : Batches \union {None}, left : SUBSET Batches]
      /\ new.at = "backups" /\ new.batch = proc[p].batch
  BY DEF TypeOK, Places
<1>3. /\ UNCHANGED <<target, staging, backup, tokens, lock, committed, unswept, mangled>>
      /\ proc[p].at = "batches"
  BY DEF ListBackups, Files, History, At
<1> HIDE DEF new
<1>4. \A q \in Processes : (InBatch(q)' <=> InBatch(q)) /\ proc'[q].batch = proc[q].batch
  BY <1>1, <1>2, <1>3 DEF TypeOK, InBatch
<1> QED
  BY <1>1, <1>2, <1>3, <1>4 DEF TypeOK

LEMMA SweepBackupType ==
  ASSUME TypeOK, NEW p \in Processes, NEW b \in Batches, SweepBackup(p, b) PROVE TypeOK'
  BY NoneIsNothing, DirTypes
  DEF TypeOK, SweepBackup, BackupResolved, History, InBatch, At, Places

LEMMA OpenedType ==
  ASSUME TypeOK, NEW p \in Processes, Opened(p) PROVE TypeOK'
  BY NoneIsNothing, DirTypes
  DEF TypeOK, Opened, GoesTo, Files, History, InBatch, At, Places

LEMMA BeginType ==
  ASSUME TypeOK, NEW p \in Processes, NEW b \in Batches, Begin(p, b) PROVE TypeOK'
  BY NoneIsNothing, DirTypes
  DEF TypeOK, Begin, InBatch, At, Places

LEMMA RollBackType ==
  ASSUME TypeOK, NEW p \in Processes, RollBack(p) PROVE TypeOK'
  BY NoneIsNothing, DirTypes
  DEF TypeOK, RollBack, Ends, History, InBatch, At, Places

LEMMA MoveAwayType ==
  ASSUME TypeOK, NEW p \in Processes, MoveAway(p) PROVE TypeOK'
  BY NoneIsNothing, DirTypes
  DEF TypeOK, MoveAway, GoesTo, History, InBatch, At, Places

LEMMA SwapType ==
  ASSUME TypeOK, NEW p \in Processes, Swap(p) PROVE TypeOK'
  BY NoneIsNothing, DirTypes
  DEF TypeOK, Swap, GoesTo, History, InBatch, At, Places

LEMMA DeleteBackupType ==
  ASSUME TypeOK, NEW p \in Processes, DeleteBackup(p) PROVE TypeOK'
  BY NoneIsNothing, DirTypes
  DEF TypeOK, DeleteBackup, GoesTo, History, InBatch, At, Places

LEMMA BackupDeletedType ==
  ASSUME TypeOK, NEW p \in Processes, BackupDeleted(p) PROVE TypeOK'
  BY NoneIsNothing, DirTypes
  DEF TypeOK, BackupDeleted, GoesTo, History, InBatch, At, Places

LEMMA CommittedType ==
  ASSUME TypeOK, NEW p \in Processes, Committed(p) PROVE TypeOK'
  BY NoneIsNothing, DirTypes
  DEF TypeOK, Committed, Ends, InBatch, At, Places

LEMMA RaiseType ==
  ASSUME TypeOK, NEW p \in Processes, Raise(p) PROVE TypeOK'
  BY NoneIsNothing, DirTypes
  DEF TypeOK, Raise, GoesTo, Files, InBatch, At, Places

LEMMA HandleType ==
  ASSUME TypeOK, NEW p \in Processes, Handle(p) PROVE TypeOK'
  BY NoneIsNothing, DirTypes
  DEF TypeOK, Handle, GoesTo, History, InBatch, At, Places

LEMMA RemovedType ==
  ASSUME TypeOK, NEW p \in Processes, Removed(p) PROVE TypeOK'
<1>1. target' \in Dirs
  BY DirTypes DEF Removed, TypeOK
<1>2. mangled' \in BOOLEAN
  BY Zenon DEF Removed, TypeOK
<1> QED
  BY <1>1, <1>2, NoneIsNothing DEF TypeOK, Removed, GoesTo, InBatch, At, Places

LEMMA RestoreType ==
  ASSUME TypeOK, NEW p \in Processes, Restore(p) PROVE TypeOK'
  BY NoneIsNothing, DirTypes
  DEF TypeOK, Restore, GoesTo, History, InBatch, At, Places

LEMMA FailedType ==
  ASSUME TypeOK, NEW p \in Processes, Failed(p) PROVE TypeOK'
  BY NoneIsNothing, DirTypes
  DEF TypeOK, Failed, Ends, History, InBatch, At, Places

LEMMA CrashType ==
  ASSUME TypeOK, NEW p \in Processes, Crash(p) PROVE TypeOK'
  BY NoneIsNothing, DirTypes, OutType
  DEF TypeOK, Crash, Files, InBatch, At, Places

(* The invariant is kept by every step.                                    *)
LEMMA NextType == TypeOK /\ [Next]_vars => TypeOK'
<1> SUFFICES ASSUME TypeOK, [Next]_vars PROVE TypeOK'
  OBVIOUS
<1>1. CASE Next
  <2> PICK p \in Processes :
           \/ Open(p) \/ Recover(p) \/ Crash(p)
           \/ \E b \in Batches : Begin(p, b)
           \/ RollBack(p) \/ Commit(p) \/ Raise(p) \/ HandleFailure(p)
    BY <1>1 DEF Next
  <2>1. CASE Open(p) \/ Crash(p) \/ RollBack(p) \/ Raise(p)
    BY <2>1, OpenType, CrashType, RollBackType, RaiseType
  <2>2. CASE Recover(p)
    BY <2>2, ListBackupsType, OpenedType, SweepBatchType, SweepBackupType DEF Recover
  <2>3. CASE \E b \in Batches : Begin(p, b)
    BY <2>3, BeginType
  <2>4. CASE Commit(p)
    BY <2>4, MoveAwayType, SwapType, DeleteBackupType, BackupDeletedType, CommittedType DEF Commit
  <2>5. CASE HandleFailure(p)
    BY <2>5, HandleType, RemovedType, RestoreType, FailedType DEF HandleFailure
  <2> QED
    BY <2>1, <2>2, <2>3, <2>4, <2>5
<1>2. CASE UNCHANGED vars
  BY <1>2 DEF vars, TypeOK, InBatch
<1> QED
  BY <1>1, <1>2

(* The directories, the places and the lock are what they should be, for   *)
(* any number of processes and batches: one process at a time is in a      *)
(* batch, and its batch has a directory.                                   *)
THEOREM TypeCorrect == Spec => []TypeOK
  BY InitType, NextType, PTL DEF Spec

-----------------------------------------------------------------------------

(* A step of another process, while p is in a batch.                       *)
LEMMA OthersKeepOff ==
  ASSUME TypeOK, NEW p \in Processes, InBatch(p), NEW q \in Processes, q # p,
         \/ Open(q) \/ Recover(q) \/ Crash(q)
         \/ \E b \in Batches : Begin(q, b)
         \/ RollBack(q) \/ Commit(q) \/ Raise(q) \/ HandleFailure(q)
  PROVE UNCHANGED Files
<1>1. lock = p /\ lock # None
  BY NoneIsNothing DEF TypeOK
<1>2. ~InBatch(q)
  BY <1>1 DEF TypeOK
<1>3. \A b \in Batches : ~Begin(q, b)
  BY <1>1 DEF Begin
<1>4. ~RollBack(q) /\ ~Commit(q) /\ ~Raise(q) /\ ~HandleFailure(q)
  BY <1>2 DEF InBatch, At, RollBack, Raise, Commit, MoveAway, Swap, DeleteBackup, BackupDeleted,
              Committed, HandleFailure, Handle, Removed, Restore, Failed
<1>5. CASE Recover(q)
  BY <1>1, <1>5 DEF Recover, ListBackups, Opened, SweepBatch, SweepBackup, Files
<1>6. CASE Open(q) \/ Crash(q)
  BY <1>6 DEF Open, Crash, Files
<1> QED
  BY <1>3, <1>4, <1>5, <1>6

(* A step of the process itself moves it.                                  *)
LEMMA OwnStepMoves ==
  ASSUME TypeOK, NEW p \in Processes, InBatch(p), proc'[p] = proc[p],
         \/ Open(p) \/ Recover(p) \/ Crash(p)
         \/ \E b \in Batches : Begin(p, b)
         \/ RollBack(p) \/ Commit(p) \/ Raise(p) \/ HandleFailure(p)
  PROVE FALSE
<1>1. proc'[p].at = proc[p].at
  OBVIOUS
<1>2. ~Open(p) /\ ~Recover(p) /\ \A b \in Batches : ~Begin(p, b)
  BY DEF InBatch, At, Open, Recover, ListBackups, Opened, SweepBatch, SweepBackup, Begin
<1>3. ~Crash(p) /\ ~Raise(p)
  BY <1>1 DEF Crash, Raise, GoesTo, Out, At, InBatch, TypeOK
<1>4. ~RollBack(p) /\ ~Committed(p) /\ ~Failed(p)
  BY <1>1 DEF RollBack, Committed, Failed, Ends, At, TypeOK
<1>5. ~MoveAway(p) /\ ~Swap(p) /\ ~DeleteBackup(p) /\ ~BackupDeleted(p)
  BY <1>1 DEF MoveAway, Swap, DeleteBackup, BackupDeleted, GoesTo, At, TypeOK
<1>6. ~Handle(p) /\ ~Removed(p) /\ ~Restore(p)
  BY <1>1 DEF Handle, Removed, Restore, GoesTo, At, TypeOK
<1> QED
  BY <1>2, <1>3, <1>4, <1>5, <1>6 DEF Commit, HandleFailure

(* No process, opening or in a batch of its own, touches the directory,    *)
(* the copy or the backup of a batch whose process lives                   *)
(* (docs/fins_storage_design.md:88).                                       *)
THEOREM LiveIsUntouchedHolds == Spec => LiveIsUntouched
<1> DEFINE Untouched ==
      \A p \in Processes : InBatch(p) /\ proc'[p] = proc[p] =>
          /\ target' = target
          /\ staging'[proc[p].batch] = staging[proc[p].batch]
          /\ backup'[proc[p].batch] = backup[proc[p].batch]
<1>1. TypeOK /\ [Next]_vars => [Untouched]_vars
  <2> SUFFICES ASSUME TypeOK, Next, NEW p \in Processes, InBatch(p), proc'[p] = proc[p]
               PROVE UNCHANGED Files
    BY DEF Files
  <2> PICK q \in Processes :
           \/ Open(q) \/ Recover(q) \/ Crash(q)
           \/ \E b \in Batches : Begin(q, b)
           \/ RollBack(q) \/ Commit(q) \/ Raise(q) \/ HandleFailure(q)
    BY DEF Next
  <2>1. CASE q # p
    BY <2>1, OthersKeepOff
  <2>2. CASE q = p
    BY <2>2, OwnStepMoves
  <2> QED
    BY <2>1, <2>2
<1> QED
  BY <1>1, TypeCorrect, PTL DEF Spec, LiveIsUntouched

-----------------------------------------------------------------------------
(***************************************************************************)
(* What was committed is kept.  The invariant says where: while every      *)
(* batch was begun after the leftovers of the dead were swept, at most one *)
(* batch has left anything (Lone), the directory is in order whenever it   *)
(* is there, unless the handler is deleting it (TargetKeeps), and a backup *)
(* that is not in order stands beside a directory that is (BackupKeeps).   *)
(* UnderWay says what a batch has at each place of its commit.             *)
(***************************************************************************)

HasLeft(b) == b \in tokens \/ backup[b].there

Removing == \E p \in Processes : At(p, "removing")

Lone == \A a, b \in Batches : HasLeft(a) /\ HasLeft(b) => a = b

TargetKeeps == target.there => Keeps(target) \/ Removing

BackupKeeps == \A b \in Batches : backup[b].there => Keeps(backup[b]) \/ Keeps(target)

Saved(b) == backup[b].there => Keeps(backup[b])

UnderWay(p) ==
    LET b == proc[p].batch
    IN  /\ At(p, "begun") => \A c \in Batches : ~backup[c].there
        /\ proc[p].at \in {"begun", "moved"} => Keeps(staging[b]) /\ b \in staging[b].has
        /\ At(p, "moved") => ~target.there
        /\ proc[p].at \in {"swapped", "deleting", "written"} => target.there /\ b \in target.has
        /\ At(p, "written") => ~backup[b].there
        /\ proc[p].at \in {"moved", "swapped", "handle", "restore", "failed"} => Saved(b)
        /\ At(p, "removing") => Keeps(backup[b])

Kept ==
    ~unswept /\ ~mangled =>
        /\ Lone /\ TargetKeeps /\ BackupKeeps /\ CommittedIsKept
        /\ \A p \in Processes : UnderWay(p)

(* Nothing is claimed of a process that is in no batch.                    *)
LEMMA OutOfBatch == ASSUME NEW p \in Processes, ~InBatch(p) PROVE UnderWay(p)
  BY DEF InBatch, UnderWay, At

LEMMA OutOfBatchNext == ASSUME NEW p \in Processes, ~InBatch(p)' PROVE UnderWay(p)'
  BY DEF InBatch, UnderWay, At

(* A process in a batch is the only one, and so is its batch.              *)
LEMMA AloneInBatch ==
  ASSUME TypeOK, Kept, ~unswept, ~mangled, NEW p \in Processes, InBatch(p)
  PROVE /\ proc[p].batch \in Batches /\ proc[p].batch \in tokens
        /\ \A q \in Processes : q # p => ~InBatch(q) /\ ~At(q, "removing")
        /\ \A b \in Batches : HasLeft(b) => b = proc[p].batch
        /\ UnderWay(p) /\ TargetKeeps /\ BackupKeeps /\ CommittedIsKept
<1>1. lock = p /\ \A q \in Processes : q # p => ~InBatch(q)
  BY DEF TypeOK
<1>2. proc[p].batch \in Batches /\ proc[p].batch \in tokens
  BY DEF TypeOK
<1> QED
  BY <1>1, <1>2 DEF Kept, Lone, HasLeft, InBatch, At

LEMMA RollBackKept ==
  ASSUME TypeOK, TypeOK', Kept, NEW p \in Processes, RollBack(p), ~unswept', ~mangled' PROVE Kept'
<1> DEFINE b == proc[p].batch
<1>1. /\ ~unswept /\ ~mangled
      /\ InBatch(p)
      /\ \A q \in Processes : q # p => proc'[q] = proc[q]
  BY DEF TypeOK, RollBack, Ends, History, InBatch, At
<1>2. /\ b \in Batches /\ b \in tokens
      /\ \A q \in Processes : q # p => ~InBatch(q) /\ ~At(q, "removing")
      /\ \A c \in Batches : HasLeft(c) => c = b
      /\ UnderWay(p) /\ TargetKeeps /\ BackupKeeps /\ CommittedIsKept
  BY <1>1, AloneInBatch
<1>3. \A q \in Processes : q # p => UnderWay(q)'
  BY <1>1, <1>2, OutOfBatchNext DEF InBatch
<1>4. Lone'
  BY <1>2 DEF TypeOK, RollBack, Ends, History, Lone, HasLeft, At, Mangled
<1>5. TargetKeeps' /\ CommittedIsKept'
  BY <1>1, <1>2 DEF TypeOK, RollBack, Ends, History, TargetKeeps, BackupKeeps, CommittedIsKept, UnderWay, Saved, Keeps, HasLeft, Removing, At, Dirs, Mangled, NoDir
<1>6. BackupKeeps'
  BY <1>1, <1>2 DEF TypeOK, RollBack, Ends, History, TargetKeeps, BackupKeeps, CommittedIsKept, UnderWay, Saved, Keeps, HasLeft, Removing, At, Dirs, Mangled, NoDir
<1>7. UnderWay(p)'
  BY <1>1, <1>2 DEF TypeOK, RollBack, Ends, History, TargetKeeps, BackupKeeps, CommittedIsKept, UnderWay, Saved, Keeps, HasLeft, Removing, At, Dirs, Mangled, NoDir
<1> QED
  BY <1>3, <1>4, <1>5, <1>6, <1>7 DEF Kept

LEMMA MoveAwayKept ==
  ASSUME TypeOK, TypeOK', Kept, NEW p \in Processes, MoveAway(p), ~unswept', ~mangled' PROVE Kept'
<1> DEFINE b == proc[p].batch
<1>1. /\ ~unswept /\ ~mangled
      /\ InBatch(p)
      /\ \A q \in Processes : q # p => proc'[q] = proc[q]
  BY DEF TypeOK, MoveAway, GoesTo, History, InBatch, At
<1>2. /\ b \in Batches /\ b \in tokens
      /\ \A q \in Processes : q # p => ~InBatch(q) /\ ~At(q, "removing")
      /\ \A c \in Batches : HasLeft(c) => c = b
      /\ UnderWay(p) /\ TargetKeeps /\ BackupKeeps /\ CommittedIsKept
  BY <1>1, AloneInBatch
<1>3. \A q \in Processes : q # p => UnderWay(q)'
  BY <1>1, <1>2, OutOfBatchNext DEF InBatch
<1>4. Lone'
  BY <1>2 DEF TypeOK, MoveAway, GoesTo, History, Lone, HasLeft, At, Mangled
<1>5. TargetKeeps' /\ CommittedIsKept'
  BY <1>1, <1>2 DEF TypeOK, MoveAway, GoesTo, History, TargetKeeps, BackupKeeps, CommittedIsKept, UnderWay, Saved, Keeps, HasLeft, Removing, At, Dirs, Mangled, NoDir
<1>6. BackupKeeps'
  BY <1>1, <1>2 DEF TypeOK, MoveAway, GoesTo, History, TargetKeeps, BackupKeeps, CommittedIsKept, UnderWay, Saved, Keeps, HasLeft, Removing, At, Dirs, Mangled, NoDir
<1>7. UnderWay(p)'
  BY <1>1, <1>2 DEF TypeOK, MoveAway, GoesTo, History, TargetKeeps, BackupKeeps, CommittedIsKept, UnderWay, Saved, Keeps, HasLeft, Removing, At, Dirs, Mangled, NoDir
<1> QED
  BY <1>3, <1>4, <1>5, <1>6, <1>7 DEF Kept

LEMMA SwapKept ==
  ASSUME TypeOK, TypeOK', Kept, NEW p \in Processes, Swap(p), ~unswept', ~mangled' PROVE Kept'
<1> DEFINE b == proc[p].batch
<1>1. /\ ~unswept /\ ~mangled
      /\ InBatch(p)
      /\ \A q \in Processes : q # p => proc'[q] = proc[q]
  BY DEF TypeOK, Swap, GoesTo, History, InBatch, At
<1>2. /\ b \in Batches /\ b \in tokens
      /\ \A q \in Processes : q # p => ~InBatch(q) /\ ~At(q, "removing")
      /\ \A c \in Batches : HasLeft(c) => c = b
      /\ UnderWay(p) /\ TargetKeeps /\ BackupKeeps /\ CommittedIsKept
  BY <1>1, AloneInBatch
<1>3. \A q \in Processes : q # p => UnderWay(q)'
  BY <1>1, <1>2, OutOfBatchNext DEF InBatch
<1>4. Lone'
  BY <1>2 DEF TypeOK, Swap, GoesTo, History, Lone, HasLeft, At, Mangled
<1>5. TargetKeeps' /\ CommittedIsKept'
  BY <1>1, <1>2 DEF TypeOK, Swap, GoesTo, History, TargetKeeps, BackupKeeps, CommittedIsKept, UnderWay, Saved, Keeps, HasLeft, Removing, At, Dirs, Mangled, NoDir
<1>6. BackupKeeps'
  BY <1>1, <1>2 DEF TypeOK, Swap, GoesTo, History, TargetKeeps, BackupKeeps, CommittedIsKept, UnderWay, Saved, Keeps, HasLeft, Removing, At, Dirs, Mangled, NoDir
<1>7. UnderWay(p)'
  BY <1>1, <1>2 DEF TypeOK, Swap, GoesTo, History, TargetKeeps, BackupKeeps, CommittedIsKept, UnderWay, Saved, Keeps, HasLeft, Removing, At, Dirs, Mangled, NoDir
<1> QED
  BY <1>3, <1>4, <1>5, <1>6, <1>7 DEF Kept

LEMMA DeleteBackupKept ==
  ASSUME TypeOK, TypeOK', Kept, NEW p \in Processes, DeleteBackup(p), ~unswept', ~mangled' PROVE Kept'
<1> DEFINE b == proc[p].batch
<1>1. /\ ~unswept /\ ~mangled
      /\ InBatch(p)
      /\ \A q \in Processes : q # p => proc'[q] = proc[q]
  BY DEF TypeOK, DeleteBackup, GoesTo, History, InBatch, At
<1>2. /\ b \in Batches /\ b \in tokens
      /\ \A q \in Processes : q # p => ~InBatch(q) /\ ~At(q, "removing")
      /\ \A c \in Batches : HasLeft(c) => c = b
      /\ UnderWay(p) /\ TargetKeeps /\ BackupKeeps /\ CommittedIsKept
  BY <1>1, AloneInBatch
<1>3. \A q \in Processes : q # p => UnderWay(q)'
  BY <1>1, <1>2, OutOfBatchNext DEF InBatch
<1>4. Lone'
  BY <1>2 DEF TypeOK, DeleteBackup, GoesTo, History, Lone, HasLeft, At, Mangled
<1>5. TargetKeeps' /\ CommittedIsKept'
  BY <1>1, <1>2 DEF TypeOK, DeleteBackup, GoesTo, History, TargetKeeps, BackupKeeps, CommittedIsKept, UnderWay, Saved, Keeps, HasLeft, Removing, At, Dirs, Mangled, NoDir
<1>6. BackupKeeps'
  BY <1>1, <1>2 DEF TypeOK, DeleteBackup, GoesTo, History, TargetKeeps, BackupKeeps, CommittedIsKept, UnderWay, Saved, Keeps, HasLeft, Removing, At, Dirs, Mangled, NoDir
<1>7. UnderWay(p)'
  BY <1>1, <1>2 DEF TypeOK, DeleteBackup, GoesTo, History, TargetKeeps, BackupKeeps, CommittedIsKept, UnderWay, Saved, Keeps, HasLeft, Removing, At, Dirs, Mangled, NoDir
<1> QED
  BY <1>3, <1>4, <1>5, <1>6, <1>7 DEF Kept

LEMMA BackupDeletedKept ==
  ASSUME TypeOK, TypeOK', Kept, NEW p \in Processes, BackupDeleted(p), ~unswept', ~mangled' PROVE Kept'
<1> DEFINE b == proc[p].batch
<1>1. /\ ~unswept /\ ~mangled
      /\ InBatch(p)
      /\ \A q \in Processes : q # p => proc'[q] = proc[q]
  BY DEF TypeOK, BackupDeleted, GoesTo, History, InBatch, At
<1>2. /\ b \in Batches /\ b \in tokens
      /\ \A q \in Processes : q # p => ~InBatch(q) /\ ~At(q, "removing")
      /\ \A c \in Batches : HasLeft(c) => c = b
      /\ UnderWay(p) /\ TargetKeeps /\ BackupKeeps /\ CommittedIsKept
  BY <1>1, AloneInBatch
<1>3. \A q \in Processes : q # p => UnderWay(q)'
  BY <1>1, <1>2, OutOfBatchNext DEF InBatch
<1>4. Lone'
  BY <1>2 DEF TypeOK, BackupDeleted, GoesTo, History, Lone, HasLeft, At, Mangled
<1>5. TargetKeeps' /\ CommittedIsKept'
  BY <1>1, <1>2 DEF TypeOK, BackupDeleted, GoesTo, History, TargetKeeps, BackupKeeps, CommittedIsKept, UnderWay, Saved, Keeps, HasLeft, Removing, At, Dirs, Mangled, NoDir
<1>6. BackupKeeps'
  BY <1>1, <1>2 DEF TypeOK, BackupDeleted, GoesTo, History, TargetKeeps, BackupKeeps, CommittedIsKept, UnderWay, Saved, Keeps, HasLeft, Removing, At, Dirs, Mangled, NoDir
<1>7. UnderWay(p)'
  BY <1>1, <1>2 DEF TypeOK, BackupDeleted, GoesTo, History, TargetKeeps, BackupKeeps, CommittedIsKept, UnderWay, Saved, Keeps, HasLeft, Removing, At, Dirs, Mangled, NoDir
<1> QED
  BY <1>3, <1>4, <1>5, <1>6, <1>7 DEF Kept

LEMMA CommittedKept ==
  ASSUME TypeOK, TypeOK', Kept, NEW p \in Processes, Committed(p), ~unswept', ~mangled' PROVE Kept'
<1> DEFINE b == proc[p].batch
<1>1. /\ ~unswept /\ ~mangled
      /\ InBatch(p)
      /\ \A q \in Processes : q # p => proc'[q] = proc[q]
  BY DEF TypeOK, Committed, Ends, InBatch, At
<1>2. /\ b \in Batches /\ b \in tokens
      /\ \A q \in Processes : q # p => ~InBatch(q) /\ ~At(q, "removing")
      /\ \A c \in Batches : HasLeft(c) => c = b
      /\ UnderWay(p) /\ TargetKeeps /\ BackupKeeps /\ CommittedIsKept
  BY <1>1, AloneInBatch
<1>3. \A q \in Processes : q # p => UnderWay(q)'
  BY <1>1, <1>2, OutOfBatchNext DEF InBatch
<1>4. Lone'
  BY <1>2 DEF TypeOK, Committed, Ends, Lone, HasLeft, At, Mangled
<1>5. TargetKeeps' /\ CommittedIsKept'
  BY <1>1, <1>2 DEF TypeOK, Committed, Ends, TargetKeeps, BackupKeeps, CommittedIsKept, UnderWay, Saved, Keeps, HasLeft, Removing, At, Dirs, Mangled, NoDir
<1>6. BackupKeeps'
  BY <1>1, <1>2 DEF TypeOK, Committed, Ends, TargetKeeps, BackupKeeps, CommittedIsKept, UnderWay, Saved, Keeps, HasLeft, Removing, At, Dirs, Mangled, NoDir
<1>7. UnderWay(p)'
  BY <1>1, <1>2 DEF TypeOK, Committed, Ends, TargetKeeps, BackupKeeps, CommittedIsKept, UnderWay, Saved, Keeps, HasLeft, Removing, At, Dirs, Mangled, NoDir
<1> QED
  BY <1>3, <1>4, <1>5, <1>6, <1>7 DEF Kept

LEMMA RaiseKept ==
  ASSUME TypeOK, TypeOK', Kept, NEW p \in Processes, Raise(p), ~unswept', ~mangled' PROVE Kept'
<1> DEFINE b == proc[p].batch
<1>1. /\ ~unswept /\ ~mangled
      /\ InBatch(p)
      /\ \A q \in Processes : q # p => proc'[q] = proc[q]
  BY DEF TypeOK, Raise, GoesTo, Files, InBatch, At
<1>2. /\ b \in Batches /\ b \in tokens
      /\ \A q \in Processes : q # p => ~InBatch(q) /\ ~At(q, "removing")
      /\ \A c \in Batches : HasLeft(c) => c = b
      /\ UnderWay(p) /\ TargetKeeps /\ BackupKeeps /\ CommittedIsKept
  BY <1>1, AloneInBatch
<1>3. \A q \in Processes : q # p => UnderWay(q)'
  BY <1>1, <1>2, OutOfBatchNext DEF InBatch
<1>4. Lone'
  BY <1>2 DEF TypeOK, Raise, GoesTo, Files, Lone, HasLeft, At, Mangled
<1>5. TargetKeeps' /\ CommittedIsKept'
  BY <1>1, <1>2 DEF TypeOK, Raise, GoesTo, Files, TargetKeeps, BackupKeeps, CommittedIsKept, UnderWay, Saved, Keeps, HasLeft, Removing, At, Dirs, Mangled, NoDir
<1>6. BackupKeeps'
  BY <1>1, <1>2 DEF TypeOK, Raise, GoesTo, Files, TargetKeeps, BackupKeeps, CommittedIsKept, UnderWay, Saved, Keeps, HasLeft, Removing, At, Dirs, Mangled, NoDir
<1>7. UnderWay(p)'
  BY <1>1, <1>2 DEF TypeOK, Raise, GoesTo, Files, TargetKeeps, BackupKeeps, CommittedIsKept, UnderWay, Saved, Keeps, HasLeft, Removing, At, Dirs, Mangled, NoDir
<1> QED
  BY <1>3, <1>4, <1>5, <1>6, <1>7 DEF Kept

LEMMA HandleKept ==
  ASSUME TypeOK, TypeOK', Kept, NEW p \in Processes, Handle(p), ~unswept', ~mangled' PROVE Kept'
<1> DEFINE b == proc[p].batch
<1>1. /\ ~unswept /\ ~mangled
      /\ InBatch(p)
      /\ \A q \in Processes : q # p => proc'[q] = proc[q]
  BY DEF TypeOK, Handle, GoesTo, History, InBatch, At
<1>2. /\ b \in Batches /\ b \in tokens
      /\ \A q \in Processes : q # p => ~InBatch(q) /\ ~At(q, "removing")
      /\ \A c \in Batches : HasLeft(c) => c = b
      /\ UnderWay(p) /\ TargetKeeps /\ BackupKeeps /\ CommittedIsKept
  BY <1>1, AloneInBatch
<1>3. \A q \in Processes : q # p => UnderWay(q)'
  BY <1>1, <1>2, OutOfBatchNext DEF InBatch
<1>4. Lone'
  BY <1>2 DEF TypeOK, Handle, GoesTo, History, Lone, HasLeft, At, Mangled
<1>5. TargetKeeps' /\ CommittedIsKept'
  BY <1>1, <1>2 DEF TypeOK, Handle, GoesTo, History, TargetKeeps, BackupKeeps, CommittedIsKept, UnderWay, Saved, Keeps, HasLeft, Removing, At, Dirs, Mangled, NoDir
<1>6. BackupKeeps'
  BY <1>1, <1>2 DEF TypeOK, Handle, GoesTo, History, TargetKeeps, BackupKeeps, CommittedIsKept, UnderWay, Saved, Keeps, HasLeft, Removing, At, Dirs, Mangled, NoDir
<1>7. UnderWay(p)'
  BY <1>1, <1>2 DEF TypeOK, Handle, GoesTo, History, TargetKeeps, BackupKeeps, CommittedIsKept, UnderWay, Saved, Keeps, HasLeft, Removing, At, Dirs, Mangled, NoDir
<1> QED
  BY <1>3, <1>4, <1>5, <1>6, <1>7 DEF Kept

LEMMA RemovedKept ==
  ASSUME TypeOK, TypeOK', Kept, NEW p \in Processes, Removed(p), ~unswept', ~mangled' PROVE Kept'
<1> DEFINE b == proc[p].batch
<1>1. /\ ~unswept /\ ~mangled
      /\ InBatch(p)
      /\ \A q \in Processes : q # p => proc'[q] = proc[q]
  BY DEF TypeOK, Removed, GoesTo, InBatch, At
<1>2. /\ b \in Batches /\ b \in tokens
      /\ \A q \in Processes : q # p => ~InBatch(q) /\ ~At(q, "removing")
      /\ \A c \in Batches : HasLeft(c) => c = b
      /\ UnderWay(p) /\ TargetKeeps /\ BackupKeeps /\ CommittedIsKept
  BY <1>1, AloneInBatch
<1>3. \A q \in Processes : q # p => UnderWay(q)'
  BY <1>1, <1>2, OutOfBatchNext DEF InBatch
<1>4. Lone'
  BY <1>2 DEF TypeOK, Removed, GoesTo, Lone, HasLeft, At, Mangled
<1>5. TargetKeeps' /\ CommittedIsKept'
  BY <1>1, <1>2 DEF TypeOK, Removed, GoesTo, TargetKeeps, BackupKeeps, CommittedIsKept, UnderWay, Saved, Keeps, HasLeft, Removing, At, Dirs, Mangled, NoDir
<1>6. BackupKeeps'
  BY <1>1, <1>2 DEF TypeOK, Removed, GoesTo, TargetKeeps, BackupKeeps, CommittedIsKept, UnderWay, Saved, Keeps, HasLeft, Removing, At, Dirs, Mangled, NoDir
<1>7. UnderWay(p)'
  BY <1>1, <1>2 DEF TypeOK, Removed, GoesTo, TargetKeeps, BackupKeeps, CommittedIsKept, UnderWay, Saved, Keeps, HasLeft, Removing, At, Dirs, Mangled, NoDir
<1> QED
  BY <1>3, <1>4, <1>5, <1>6, <1>7 DEF Kept

LEMMA RestoreKept ==
  ASSUME TypeOK, TypeOK', Kept, NEW p \in Processes, Restore(p), ~unswept', ~mangled' PROVE Kept'
<1> DEFINE b == proc[p].batch
<1>1. /\ ~unswept /\ ~mangled
      /\ InBatch(p)
      /\ \A q \in Processes : q # p => proc'[q] = proc[q]
  BY DEF TypeOK, Restore, GoesTo, History, InBatch, At
<1>2. /\ b \in Batches /\ b \in tokens
      /\ \A q \in Processes : q # p => ~InBatch(q) /\ ~At(q, "removing")
      /\ \A c \in Batches : HasLeft(c) => c = b
      /\ UnderWay(p) /\ TargetKeeps /\ BackupKeeps /\ CommittedIsKept
  BY <1>1, AloneInBatch
<1>3. \A q \in Processes : q # p => UnderWay(q)'
  BY <1>1, <1>2, OutOfBatchNext DEF InBatch
<1>4. Lone'
  BY <1>2 DEF TypeOK, Restore, GoesTo, History, Lone, HasLeft, At, Mangled
<1>5. TargetKeeps' /\ CommittedIsKept'
  BY <1>1, <1>2 DEF TypeOK, Restore, GoesTo, History, TargetKeeps, BackupKeeps, CommittedIsKept, UnderWay, Saved, Keeps, HasLeft, Removing, At, Dirs, Mangled, NoDir
<1>6. BackupKeeps'
  BY <1>1, <1>2 DEF TypeOK, Restore, GoesTo, History, TargetKeeps, BackupKeeps, CommittedIsKept, UnderWay, Saved, Keeps, HasLeft, Removing, At, Dirs, Mangled, NoDir
<1>7. UnderWay(p)'
  BY <1>1, <1>2 DEF TypeOK, Restore, GoesTo, History, TargetKeeps, BackupKeeps, CommittedIsKept, UnderWay, Saved, Keeps, HasLeft, Removing, At, Dirs, Mangled, NoDir
<1> QED
  BY <1>3, <1>4, <1>5, <1>6, <1>7 DEF Kept

LEMMA FailedKept ==
  ASSUME TypeOK, TypeOK', Kept, NEW p \in Processes, Failed(p), ~unswept', ~mangled' PROVE Kept'
<1> DEFINE b == proc[p].batch
<1>1. /\ ~unswept /\ ~mangled
      /\ InBatch(p)
      /\ \A q \in Processes : q # p => proc'[q] = proc[q]
  BY DEF TypeOK, Failed, Ends, History, InBatch, At
<1>2. /\ b \in Batches /\ b \in tokens
      /\ \A q \in Processes : q # p => ~InBatch(q) /\ ~At(q, "removing")
      /\ \A c \in Batches : HasLeft(c) => c = b
      /\ UnderWay(p) /\ TargetKeeps /\ BackupKeeps /\ CommittedIsKept
  BY <1>1, AloneInBatch
<1>3. \A q \in Processes : q # p => UnderWay(q)'
  BY <1>1, <1>2, OutOfBatchNext DEF InBatch
<1>4. Lone'
  BY <1>2 DEF TypeOK, Failed, Ends, History, Lone, HasLeft, At, Mangled
<1>5. TargetKeeps' /\ CommittedIsKept'
  BY <1>1, <1>2 DEF TypeOK, Failed, Ends, History, TargetKeeps, BackupKeeps, CommittedIsKept, UnderWay, Saved, Keeps, HasLeft, Removing, At, Dirs, Mangled, NoDir
<1>6. BackupKeeps'
  BY <1>1, <1>2 DEF TypeOK, Failed, Ends, History, TargetKeeps, BackupKeeps, CommittedIsKept, UnderWay, Saved, Keeps, HasLeft, Removing, At, Dirs, Mangled, NoDir
<1>7. UnderWay(p)'
  BY <1>1, <1>2 DEF TypeOK, Failed, Ends, History, TargetKeeps, BackupKeeps, CommittedIsKept, UnderWay, Saved, Keeps, HasLeft, Removing, At, Dirs, Mangled, NoDir
<1> QED
  BY <1>3, <1>4, <1>5, <1>6, <1>7 DEF Kept

(* Recovery works where nobody is in a batch.                              *)
LEMMA NobodyInBatch ==
  ASSUME TypeOK, Kept, ~unswept, ~mangled, lock = None
  PROVE /\ \A q \in Processes : ~InBatch(q)
        /\ Lone /\ BackupKeeps /\ CommittedIsKept
        /\ target.there => Keeps(target)
<1>1. \A q \in Processes : ~InBatch(q)
  BY NoneIsNothing DEF TypeOK
<1>2. ~Removing
  BY <1>1 DEF Removing, InBatch, At
<1> QED
  BY <1>1, <1>2 DEF Kept, TargetKeeps

(* A backup goes back to where it belongs, or away beside a directory that *)
(* is in order.                                                            *)
LEMMA ResolvedKept ==
  ASSUME TypeOK, Lone, BackupKeeps, CommittedIsKept, target.there => Keeps(target),
         NEW b \in Batches, backup[b].there, BackupResolved(b), UNCHANGED committed
  PROVE /\ TargetKeeps' /\ CommittedIsKept' /\ BackupKeeps'
        /\ \A c \in Batches : backup'[c].there => backup[c].there
<1>1. CASE target.there
  BY <1>1 DEF BackupResolved, TypeOK, TargetKeeps, BackupKeeps, CommittedIsKept, Keeps, NoDir
<1>2. CASE ~target.there
  <2>1. Keeps(backup[b])
    BY <1>2 DEF BackupKeeps, Keeps
  <2>2. target' = backup[b] /\ backup' = [backup EXCEPT ![b] = NoDir]
    BY <1>2 DEF BackupResolved
  <2>3. Keeps(target)'
    BY <2>1, <2>2 DEF Keeps
  <2> QED
    BY <2>2, <2>3 DEF TypeOK, TargetKeeps, BackupKeeps, CommittedIsKept, NoDir
<1> QED
  BY <1>1, <1>2

LEMMA SweepBatchKept ==
  ASSUME TypeOK, Kept, NEW p \in Processes, NEW b \in Batches, SweepBatch(p, b), ~unswept', ~mangled'
  PROVE Kept'
<1>1. ~unswept /\ ~mangled /\ UNCHANGED <<committed, lock>>
  BY DEF SweepBatch, History
<1>2. \A q \in Processes : InBatch(q)' <=> InBatch(q)
  BY DEF SweepBatch, TypeOK, InBatch, At
<1>3. CASE lock # None \/ b \notin tokens
  <2>1. UNCHANGED Files
    BY <1>3 DEF SweepBatch
  <2>2. \A q \in Processes : UnderWay(q)'
    <3> TAKE q \in Processes
    <3>1. CASE ~InBatch(q)
      BY <3>1, <1>2, OutOfBatchNext
    <3>2. CASE InBatch(q)
      <4>1. proc'[q] = proc[q]
        BY <3>2 DEF SweepBatch, At, InBatch, TypeOK
      <4> QED
        BY <1>1, <2>1, <4>1 DEF Kept, UnderWay, Saved, Keeps, Files, At
    <3> QED
      BY <3>1, <3>2
  <2>3. Removing' <=> Removing
    BY DEF SweepBatch, TypeOK, Removing, At
  <2> QED
    BY <1>1, <2>1, <2>2, <2>3
    DEF Kept, Lone, TargetKeeps, BackupKeeps, CommittedIsKept, Keeps, HasLeft, Files
<1>4. CASE lock = None /\ b \in tokens
  <2>1. /\ \A q \in Processes : ~InBatch(q)
        /\ Lone /\ BackupKeeps /\ CommittedIsKept
        /\ target.there => Keeps(target)
    BY <1>1, <1>4, NobodyInBatch
  <2>2. /\ IF backup[b].there THEN BackupResolved(b) ELSE UNCHANGED <<target, backup>>
        /\ tokens' = tokens \ {b}
    BY <1>4 DEF SweepBatch
  <2>3. \A q \in Processes : UnderWay(q)'
    BY <1>2, <2>1, OutOfBatchNext
  <2>4. /\ TargetKeeps' /\ CommittedIsKept' /\ BackupKeeps'
        /\ \A c \in Batches : backup'[c].there => backup[c].there
    <3>1. CASE backup[b].there
      BY <3>1, <1>1, <2>1, <2>2, ResolvedKept
    <3>2. CASE ~backup[b].there
      BY <3>2, <1>1, <2>1, <2>2 DEF TargetKeeps, CommittedIsKept, BackupKeeps, Keeps
    <3> QED
      BY <3>1, <3>2
  <2>5. Lone'
    BY <2>1, <2>2, <2>4 DEF Lone, HasLeft
  <2> QED
    BY <2>3, <2>4, <2>5 DEF Kept
<1> QED
  BY <1>3, <1>4

LEMMA SweepBackupKept ==
  ASSUME TypeOK, Kept, NEW p \in Processes, NEW b \in Batches, SweepBackup(p, b), ~unswept', ~mangled'
  PROVE Kept'
<1>1. ~unswept /\ ~mangled /\ UNCHANGED <<committed, lock, tokens, staging>>
  BY DEF SweepBackup, History
<1>2. \A q \in Processes : InBatch(q)' <=> InBatch(q)
  BY DEF SweepBackup, TypeOK, InBatch, At
<1>3. CASE b \in tokens \/ lock # None \/ ~backup[b].there
  <2>1. UNCHANGED <<target, backup>>
    BY <1>3 DEF SweepBackup
  <2>2. \A q \in Processes : UnderWay(q)'
    <3> TAKE q \in Processes
    <3>1. CASE ~InBatch(q)
      BY <3>1, <1>2, OutOfBatchNext
    <3>2. CASE InBatch(q)
      <4>1. proc'[q] = proc[q]
        BY <3>2 DEF SweepBackup, At, InBatch, TypeOK
      <4> QED
        BY <1>1, <2>1, <4>1 DEF Kept, UnderWay, Saved, Keeps, At
    <3> QED
      BY <3>1, <3>2
  <2>3. Removing' <=> Removing
    BY DEF SweepBackup, TypeOK, Removing, At
  <2> QED
    BY <1>1, <2>1, <2>2, <2>3 DEF Kept, Lone, TargetKeeps, BackupKeeps, CommittedIsKept, Keeps, HasLeft
<1>4. CASE b \notin tokens /\ lock = None /\ backup[b].there
  <2>1. /\ \A q \in Processes : ~InBatch(q)
        /\ Lone /\ BackupKeeps /\ CommittedIsKept
        /\ target.there => Keeps(target)
    BY <1>1, <1>4, NobodyInBatch
  <2>2. BackupResolved(b)
    BY <1>4 DEF SweepBackup
  <2>3. \A q \in Processes : UnderWay(q)'
    BY <1>2, <2>1, OutOfBatchNext
  <2>4. /\ TargetKeeps' /\ CommittedIsKept' /\ BackupKeeps'
        /\ \A c \in Batches : backup'[c].there => backup[c].there
    BY <1>1, <1>4, <2>1, <2>2, ResolvedKept
  <2>5. Lone'
    BY <1>1, <2>1, <2>4 DEF Lone, HasLeft
  <2> QED
    BY <2>3, <2>4, <2>5 DEF Kept
<1> QED
  BY <1>3, <1>4

(* Steps of a process that is in no batch, and changes no file.            *)
LEMMA AsideKept ==
  ASSUME TypeOK, Kept, ~unswept, ~mangled, NEW p \in Processes, ~InBatch(p)', ~At(p, "removing"),
         UNCHANGED <<Files, committed>>,
         \A q \in Processes : q # p => proc'[q] = proc[q]
  PROVE Kept'
<1>1. \A q \in Processes : UnderWay(q)'
  <2> TAKE q \in Processes
  <2>1. CASE q = p
    BY <2>1, OutOfBatchNext
  <2>2. CASE q # p
    BY <2>2 DEF Kept, UnderWay, Saved, Keeps, Files, At
  <2> QED
    BY <2>1, <2>2
<1>2. Removing => Removing'
  BY DEF Removing, At
<1> QED
  BY <1>1, <1>2 DEF Kept, Lone, TargetKeeps, BackupKeeps, CommittedIsKept, Keeps, HasLeft, Files

LEMMA RecoveryKept ==
  ASSUME TypeOK, Kept, NEW p \in Processes, Open(p) \/ ListBackups(p) \/ Opened(p) \/ Crash(p),
         ~unswept', ~mangled'
  PROVE Kept'
<1>1. /\ ~unswept /\ ~mangled /\ ~At(p, "removing")
      /\ UNCHANGED <<Files, committed>>
  <2>1. CASE Open(p)
    BY <2>1 DEF Open, History, At
  <2>2. CASE ListBackups(p)
    BY <2>2 DEF ListBackups, History, At
  <2>3. CASE Opened(p)
    BY <2>3 DEF Opened, History, At
  <2>4. CASE Crash(p)
    <3>1. ~mangled /\ ~At(p, "removing")
      BY <2>4, Zenon DEF Crash
    <3>2. UNCHANGED <<Files, committed, unswept>>
      BY <2>4 DEF Crash
    <3> QED
      BY <3>1, <3>2
  <2> QED
    BY <2>1, <2>2, <2>3, <2>4
<1>2. proc'[p].at \in {"out", "batches", "backups", "ready"}
  <2>0. p \in DOMAIN proc /\ proc[p] \in [at : Places, batch : Batches \union {None}, left : SUBSET Batches]
    BY DEF TypeOK
  <2>1. CASE Open(p)
    BY <2>0, <2>1 DEF Open, Out
  <2>2. CASE ListBackups(p)
    BY <2>0, <2>2 DEF ListBackups
  <2>3. CASE Opened(p)
    BY <2>0, <2>3 DEF Opened, GoesTo
  <2>4. CASE Crash(p)
    BY <2>0, <2>4 DEF Crash, Out
  <2> QED
    BY <2>1, <2>2, <2>3, <2>4
<1>3. ~InBatch(p)'
  BY <1>2 DEF InBatch
<1>4. \A q \in Processes : q # p => proc'[q] = proc[q]
  BY DEF TypeOK, Open, ListBackups, Opened, Crash, GoesTo
<1> QED
  BY <1>1, <1>3, <1>4, AsideKept

LEMMA BeginKept ==
  ASSUME TypeOK, TypeOK', Kept, NEW p \in Processes, NEW b \in Batches, Begin(p, b), ~unswept', ~mangled'
  PROVE Kept'
<1>1. /\ ~unswept /\ ~mangled /\ lock = None
      /\ tokens = {} /\ \A c \in Batches : ~backup[c].there
      /\ UNCHANGED <<target, backup, committed>>
  BY DEF Begin, Leftovers
<1>2. /\ \A q \in Processes : ~InBatch(q)
      /\ Lone /\ BackupKeeps /\ CommittedIsKept
      /\ target.there => Keeps(target)
  BY <1>1, NobodyInBatch
<1>3. /\ tokens' = {b}
      /\ staging' = [staging EXCEPT ![b] = Dir(target.has \union {b})]
      /\ proc'[p].at = "begun" /\ proc'[p].batch = b
      /\ \A q \in Processes : q # p => proc'[q] = proc[q]
  BY <1>1 DEF Begin, TypeOK
<1>4. committed \subseteq target.has
  BY <1>1, <1>2 DEF CommittedIsKept, Keeps
<1>5. staging'[b] = Dir(target.has \union {b})
  BY <1>3 DEF TypeOK
<1>6. UnderWay(p)'
  BY <1>1, <1>3, <1>4, <1>5 DEF UnderWay, Keeps, Dir, At
<1>7. \A q \in Processes : UnderWay(q)'
  BY <1>2, <1>3, <1>6, OutOfBatchNext DEF InBatch
<1>8. Lone' /\ TargetKeeps' /\ BackupKeeps' /\ CommittedIsKept'
  BY <1>1, <1>2, <1>3 DEF Lone, HasLeft, TargetKeeps, BackupKeeps, CommittedIsKept, Keeps
<1> QED
  BY <1>7, <1>8 DEF Kept

LEMMA NextKept == TypeOK /\ TypeOK' /\ Kept /\ [Next]_vars => Kept'
<1> SUFFICES ASSUME TypeOK, TypeOK', Kept, [Next]_vars, ~unswept', ~mangled' PROVE Kept'
  BY DEF Kept
<1>1. CASE Next
  <2> PICK p \in Processes :
           \/ Open(p) \/ Recover(p) \/ Crash(p)
           \/ \E b \in Batches : Begin(p, b)
           \/ RollBack(p) \/ Commit(p) \/ Raise(p) \/ HandleFailure(p)
    BY <1>1 DEF Next
  <2>1. CASE Open(p) \/ Crash(p) \/ RollBack(p) \/ Raise(p)
    BY <2>1, RecoveryKept, RollBackKept, RaiseKept
  <2>2. CASE Recover(p)
    BY <2>2, RecoveryKept, SweepBatchKept, SweepBackupKept DEF Recover
  <2>3. CASE \E b \in Batches : Begin(p, b)
    BY <2>3, BeginKept
  <2>4. CASE Commit(p)
    BY <2>4, MoveAwayKept, SwapKept, DeleteBackupKept, BackupDeletedKept, CommittedKept DEF Commit
  <2>5. CASE HandleFailure(p)
    BY <2>5, HandleKept, RemovedKept, RestoreKept, FailedKept DEF HandleFailure
  <2> QED
    BY <2>1, <2>2, <2>3, <2>4, <2>5
<1>2. CASE UNCHANGED vars
  BY <1>2 DEF vars, Kept, Lone, TargetKeeps, BackupKeeps, CommittedIsKept, Keeps, HasLeft,
              Removing, UnderWay, Saved, At
<1> QED
  BY <1>1, <1>2

LEMMA InitKept == Init => Kept
<1> SUFFICES ASSUME Init PROVE Kept
  OBVIOUS
<1>1. \A p \in Processes : ~InBatch(p)
  BY DEF Init, InBatch, Out
<1>2. \A p \in Processes : UnderWay(p)
  BY <1>1, OutOfBatch
<1>3. ~target.there /\ tokens = {} /\ committed = {} /\ \A b \in Batches : ~backup[b].there
  BY DEF Init, NoDir
<1> QED
  BY <1>2, <1>3 DEF Kept, Lone, TargetKeeps, BackupKeeps, CommittedIsKept, HasLeft

LEMMA KeptHolds == Spec => []Kept
  BY InitKept, NextKept, TypeCorrect, PTL DEF Spec

(* What commit_batch has made of a directory is kept, in the directory or  *)
(* in a backup that recovery finds, through every crash and every failure  *)
(* of a commit, unless a batch was begun beside what a dead one had left   *)
(* or a deletion stopped half-way.                                         *)
THEOREM CommittedIsKeptHolds == Spec => []CommittedIsKeptIfSwept
<1>1. TypeOK /\ Kept => CommittedIsKeptIfSwept
  BY DEF Kept, CommittedIsKeptIfSwept
<1> QED
  BY <1>1, KeptHolds, TypeCorrect, PTL

-----------------------------------------------------------------------------
(***************************************************************************)
(* The batches happen as a whole or not at all.  Beyond Kept, this needs   *)
(* what exactly the directory and the backup have of the batch at work:    *)
(* the copy has what was there before and the batch (InStep), so that      *)
(* Swap brings the one batch and the handler takes the one batch away.     *)
(***************************************************************************)

NothingMissing ==
    /\ ~target.there => target = NoDir
    /\ \A b \in Batches : ~backup[b].there => backup[b] = NoDir

InStep(p) ==
    LET b == proc[p].batch
    IN  /\ At(p, "begun") => staging[b] = Dir(target.has \union {b}) /\ b \notin target.has
        /\ At(p, "moved") => staging[b] = Dir(backup[b].has \union {b}) /\ b \notin backup[b].has
        /\ proc[p].at \in {"swapped", "handle"} /\ backup[b].there /\ target.there =>
              target.has = backup[b].has \union {b} /\ b \notin backup[b].has
        /\ At(p, "removing") => ~target.whole

Exact == ~unswept /\ ~mangled => NothingMissing /\ \A p \in Processes : InStep(p)

(* Nothing is claimed of a process that is in no batch.                    *)
LEMMA InStepOutside == ASSUME NEW p \in Processes, ~InBatch(p) PROVE InStep(p)
  BY DEF InBatch, InStep, At

LEMMA InStepOutsideNext == ASSUME NEW p \in Processes, ~InBatch(p)' PROVE InStep(p)'
  BY DEF InBatch, InStep, At

(* What a directory that stands there, or one that is not, counts for.     *)
Counted(dir) == IF dir.whole THEN dir.has ELSE {}

(* With one backup at most, the content is the directory's or this one's.  *)
LEMMA ContentIs ==
  ASSUME TypeOK, NothingMissing, NEW b \in Batches, \A c \in Batches : backup[c].there => c = b
  PROVE  Content = IF target.there /\ target.whole THEN target.has ELSE Counted(backup[b])
<1>1. \A c \in Batches : c # b => backup[c].has = {}
  BY DEF NothingMissing, NoDir
<1>2. UNION {backup[c].has : c \in {d \in Batches : backup[d].whole}} = Counted(backup[b])
  BY <1>1 DEF Counted
<1> QED
  BY <1>2 DEF Content

LEMMA ContentIsNext ==
  ASSUME TypeOK', NothingMissing', NEW b \in Batches, \A c \in Batches : backup'[c].there => c = b
  PROVE  Content' = IF target'.there /\ target'.whole THEN target'.has ELSE Counted(backup'[b])
<1>1. \A c \in Batches : c # b => backup'[c].has = {}
  BY DEF NothingMissing, NoDir
<1>2. UNION {backup'[c].has : c \in {d \in Batches : backup'[d].whole}} = Counted(backup'[b])
  BY <1>1 DEF Counted
<1> QED
  BY <1>2 DEF Content

(* Who holds the lock has the batch at work.                               *)
LEMMA AtWorkIs ==
  ASSUME TypeOK
  PROVE  /\ lock = None => AtWork = {}
         /\ \A p \in Processes : lock = p => AtWork = {proc[p].batch}
<1>1. \A q \in Processes : proc[q].batch # None <=> lock = q
  BY DEF TypeOK
<1>2. lock = None => AtWork = {}
  BY <1>1, NoneIsNothing DEF AtWork
<1>3. ASSUME NEW p \in Processes, lock = p PROVE AtWork = {proc[p].batch}
  BY <1>1, <1>3 DEF AtWork
<1> QED
  BY <1>2, <1>3

LEMMA AtWorkIsNext ==
  ASSUME TypeOK'
  PROVE  /\ lock' = None => AtWork' = {}
         /\ \A p \in Processes : lock' = p => AtWork' = {proc'[p].batch}
<1>1. \A q \in Processes : proc'[q].batch # None <=> lock' = q
  BY DEF TypeOK
<1>2. lock' = None => AtWork' = {}
  BY <1>1, NoneIsNothing DEF AtWork
<1>3. ASSUME NEW p \in Processes, lock' = p PROVE AtWork' = {proc'[p].batch}
  BY <1>1, <1>3 DEF AtWork
<1> QED
  BY <1>2, <1>3

(* What is known of a process in a batch, before a step of its own that    *)
(* leaves the backups of others alone, and after it.                       *)
Whole(dir) == dir.there /\ dir.whole

LEMMA InsideBatch ==
  ASSUME TypeOK, Kept, Exact, ~unswept, ~mangled, NEW p \in Processes, InBatch(p)
  PROVE  /\ proc[p].batch \in Batches
         /\ \A c \in Batches : backup[c].there => c = proc[p].batch
         /\ NothingMissing /\ InStep(p) /\ UnderWay(p)
         /\ target.there => Whole(target) \/ At(p, "removing")
         /\ backup[proc[p].batch].there => Whole(backup[proc[p].batch]) \/ Whole(target)
         /\ AtWork = {proc[p].batch}
         /\ Content = IF Whole(target) THEN target.has ELSE Counted(backup[proc[p].batch])
<1>1. /\ proc[p].batch \in Batches
      /\ \A q \in Processes : q # p => ~At(q, "removing")
      /\ \A c \in Batches : backup[c].there => c = proc[p].batch
      /\ UnderWay(p) /\ TargetKeeps /\ BackupKeeps
  BY AloneInBatch DEF HasLeft
<1>2. NothingMissing /\ InStep(p)
  BY DEF Exact
<1>3. target.there => Whole(target) \/ At(p, "removing")
  BY <1>1 DEF TargetKeeps, Keeps, Removing, Whole
<1>4. backup[proc[p].batch].there => Whole(backup[proc[p].batch]) \/ Whole(target)
  BY <1>1 DEF BackupKeeps, Keeps, Whole
<1>5. lock = p
  BY DEF TypeOK
<1> QED
  BY <1>1, <1>2, <1>3, <1>4, <1>5, AtWorkIs, ContentIs DEF Whole

LEMMA AfterStep ==
  ASSUME TypeOK, TypeOK', NEW p \in Processes, InBatch(p), lock' \in {p, None},
         proc[p].batch \in Batches,
         \A c \in Batches : backup[c].there => c = proc[p].batch,
         \A c \in Batches : c # proc[p].batch => backup'[c] = backup[c],
         NothingMissing', InStep(p)'
  PROVE  /\ Exact'
         /\ lock' = p => AtWork' = {proc'[p].batch}
         /\ lock' = None => AtWork' = {}
         /\ Content' = IF Whole(target') THEN target'.has ELSE Counted(backup'[proc[p].batch])
<1>1. \A q \in Processes : q # p => ~InBatch(q)'
  BY NoneIsNothing DEF TypeOK
<1>2. \A q \in Processes : InStep(q)'
  BY <1>1, InStepOutsideNext
<1>3. \A c \in Batches : backup'[c].there => c = proc[p].batch
  OBVIOUS
<1> QED
  BY <1>2, <1>3, AtWorkIsNext, ContentIsNext DEF Exact, Whole

(* A step is one of AtomicBatches, or none.                                *)
Promised == Atomic!Next \/ UNCHANGED Atomic!ticker

LEMMA Ended == ASSUME AtWork' = {}, UNCHANGED <<Content, committed>> PROVE Promised
  BY DEF Promised, Atomic!Next, Atomic!End

(* The end of a batch that was given up.                                  *)
LEMMA RollBackIsAtomic ==
  ASSUME TypeOK, TypeOK', Kept, Exact, NEW p \in Processes, RollBack(p), ~unswept', ~mangled'
  PROVE  Exact' /\ Promised
<1> DEFINE b == proc[p].batch
<1>1. ~unswept /\ ~mangled /\ InBatch(p)
  BY DEF RollBack, Ends, History, InBatch, At
<1>2. /\ b \in Batches
      /\ \A c \in Batches : backup[c].there => c = b
      /\ NothingMissing /\ InStep(p) /\ UnderWay(p)
      /\ target.there => Whole(target) \/ At(p, "removing")
      /\ backup[b].there => Whole(backup[b]) \/ Whole(target)
      /\ AtWork = {b}
      /\ Content = IF Whole(target) THEN target.has ELSE Counted(backup[b])
  BY <1>1, InsideBatch
<1>3. /\ lock' = None
      /\ \A c \in Batches : c # b => backup'[c] = backup[c]
  BY <1>1 DEF RollBack, Ends, History, InBatch, TypeOK
<1>4. NothingMissing'
  BY <1>1, <1>2 DEF RollBack, Ends, History, NothingMissing, UnderWay, At, NoDir, Mangled, TypeOK, Dirs
<1>5. InStep(p)'
  BY <1>1, <1>2 DEF RollBack, Ends, History, InStep, UnderWay, NothingMissing, At, NoDir, Dir, Mangled, TypeOK, Dirs
<1>6. /\ Exact'
      /\ AtWork' = {}
      /\ Content' = IF Whole(target') THEN target'.has ELSE Counted(backup'[b])
  BY <1>1, <1>2, <1>3, <1>4, <1>5, AfterStep
<1>7. UNCHANGED <<Content, committed>>
  BY <1>1, <1>2, <1>6 DEF RollBack, Ends, History, UnderWay, InStep, NothingMissing, Saved, Keeps, Counted, Whole, At, NoDir, Dir, Mangled, TypeOK, Dirs
<1> QED
  BY <1>6, <1>7, Ended

(* The directory goes to the backup with all it has.                      *)
LEMMA MoveAwayIsAtomic ==
  ASSUME TypeOK, TypeOK', Kept, Exact, NEW p \in Processes, MoveAway(p), ~unswept', ~mangled'
  PROVE  Exact' /\ Promised
<1> DEFINE b == proc[p].batch
<1>1. ~unswept /\ ~mangled /\ InBatch(p)
  BY DEF MoveAway, GoesTo, History, InBatch, At
<1>2. /\ b \in Batches
      /\ \A c \in Batches : backup[c].there => c = b
      /\ NothingMissing /\ InStep(p) /\ UnderWay(p)
      /\ target.there => Whole(target) \/ At(p, "removing")
      /\ backup[b].there => Whole(backup[b]) \/ Whole(target)
      /\ AtWork = {b}
      /\ Content = IF Whole(target) THEN target.has ELSE Counted(backup[b])
  BY <1>1, InsideBatch
<1>3. /\ lock' = p
      /\ \A c \in Batches : c # b => backup'[c] = backup[c]
      /\ proc'[p].batch = b
  BY <1>1 DEF MoveAway, GoesTo, History, InBatch, TypeOK
<1>4. NothingMissing'
  BY <1>1, <1>2 DEF MoveAway, GoesTo, History, NothingMissing, UnderWay, At, NoDir, Mangled, TypeOK, Dirs
<1>5. InStep(p)'
  <2>1. proc'[p].at = "moved" /\ proc'[p].batch = b /\ backup'[b] = target /\ staging' = staging
    BY <1>2 DEF MoveAway, GoesTo, TypeOK
  <2>2. staging[b] = Dir(target.has \union {b}) /\ b \notin target.has
    BY <1>2 DEF MoveAway, InStep
  <2> QED
    BY <2>1, <2>2 DEF InStep, At
<1>6. /\ Exact'
      /\ AtWork' = {b}
      /\ Content' = IF Whole(target') THEN target'.has ELSE Counted(backup'[b])
  BY <1>1, <1>2, <1>3, <1>4, <1>5, AfterStep
<1>7. UNCHANGED <<Content, committed>>
  <2>1. target' = NoDir /\ backup'[b] = target /\ UNCHANGED committed
    BY <1>2 DEF MoveAway, History, TypeOK
  <2>2. backup[b] = NoDir /\ (target.there => Whole(target)) /\ (~target.there => target = NoDir)
    BY <1>2 DEF MoveAway, UnderWay, NothingMissing, At
  <2> QED
    BY <1>2, <1>6, <2>1, <2>2 DEF Counted, Whole, NoDir
<1> QED
  BY <1>2, <1>6, <1>7 DEF Promised, Atomic!ticker

(* The batch takes effect.                                                 *)
LEMMA SwapIsAtomic ==
  ASSUME TypeOK, TypeOK', Kept, Exact, NEW p \in Processes, Swap(p), ~unswept', ~mangled'
  PROVE  Exact' /\ Promised
<1> DEFINE b == proc[p].batch
<1>1. ~unswept /\ ~mangled /\ InBatch(p)
  BY DEF Swap, GoesTo, History, InBatch, At
<1>2. /\ b \in Batches
      /\ \A c \in Batches : backup[c].there => c = b
      /\ NothingMissing /\ InStep(p) /\ UnderWay(p)
      /\ target.there => Whole(target) \/ At(p, "removing")
      /\ backup[b].there => Whole(backup[b]) \/ Whole(target)
      /\ AtWork = {b}
      /\ Content = IF Whole(target) THEN target.has ELSE Counted(backup[b])
  BY <1>1, InsideBatch
<1>3. /\ lock' = p
      /\ \A c \in Batches : c # b => backup'[c] = backup[c]
      /\ proc'[p].batch = b
  BY <1>1 DEF Swap, GoesTo, History, InBatch, TypeOK
<1>4. NothingMissing'
  BY <1>1, <1>2 DEF Swap, GoesTo, History, NothingMissing, InStep, At, Dir, TypeOK
<1>5. InStep(p)'
  BY <1>1, <1>2 DEF Swap, GoesTo, History, InStep, UnderWay, NothingMissing, At, NoDir, Dir, Mangled, TypeOK, Dirs
<1>6. /\ Exact'
      /\ AtWork' = {b}
      /\ Content' = IF Whole(target') THEN target'.has ELSE Counted(backup'[b])
  BY <1>1, <1>2, <1>3, <1>4, <1>5, AfterStep
<1>7. Content' = Content \union {b} /\ UNCHANGED committed
  BY <1>1, <1>2, <1>6 DEF Swap, GoesTo, History, UnderWay, InStep, NothingMissing, Saved, Keeps, Counted, Whole, At, NoDir, Dir, Mangled, TypeOK, Dirs
<1> QED
  BY <1>2, <1>6, <1>7 DEF Promised, Atomic!Next, Atomic!TakeEffect

LEMMA DeleteBackupIsAtomic ==
  ASSUME TypeOK, TypeOK', Kept, Exact, NEW p \in Processes, DeleteBackup(p), ~unswept', ~mangled'
  PROVE  Exact' /\ Promised
<1> DEFINE b == proc[p].batch
<1>1. ~unswept /\ ~mangled /\ InBatch(p)
  BY DEF DeleteBackup, GoesTo, History, InBatch, At
<1>2. /\ b \in Batches
      /\ \A c \in Batches : backup[c].there => c = b
      /\ NothingMissing /\ InStep(p) /\ UnderWay(p)
      /\ target.there => Whole(target) \/ At(p, "removing")
      /\ backup[b].there => Whole(backup[b]) \/ Whole(target)
      /\ AtWork = {b}
      /\ Content = IF Whole(target) THEN target.has ELSE Counted(backup[b])
  BY <1>1, InsideBatch
<1>3. /\ lock' = p
      /\ \A c \in Batches : c # b => backup'[c] = backup[c]
      /\ proc'[p].batch = b
  BY <1>1 DEF DeleteBackup, GoesTo, History, InBatch, TypeOK
<1>4. NothingMissing'
  BY <1>1, <1>2 DEF DeleteBackup, GoesTo, History, NothingMissing, UnderWay, At, NoDir, Mangled, TypeOK, Dirs
<1>5. InStep(p)'
  BY <1>1, <1>2 DEF DeleteBackup, GoesTo, History, InStep, UnderWay, NothingMissing, At, NoDir, Dir, Mangled, TypeOK, Dirs
<1>6. /\ Exact'
      /\ AtWork' = {b}
      /\ Content' = IF Whole(target') THEN target'.has ELSE Counted(backup'[b])
  BY <1>1, <1>2, <1>3, <1>4, <1>5, AfterStep
<1>7. UNCHANGED <<Content, committed>>
  BY <1>1, <1>2, <1>6 DEF DeleteBackup, GoesTo, History, UnderWay, InStep, NothingMissing, Saved, Keeps, Counted, Whole, At, NoDir, Dir, Mangled, TypeOK, Dirs
<1> QED
  BY <1>2, <1>6, <1>7 DEF Promised, Atomic!ticker

LEMMA BackupDeletedIsAtomic ==
  ASSUME TypeOK, TypeOK', Kept, Exact, NEW p \in Processes, BackupDeleted(p), ~unswept', ~mangled'
  PROVE  Exact' /\ Promised
<1> DEFINE b == proc[p].batch
<1>1. ~unswept /\ ~mangled /\ InBatch(p)
  BY DEF BackupDeleted, GoesTo, History, InBatch, At
<1>2. /\ b \in Batches
      /\ \A c \in Batches : backup[c].there => c = b
      /\ NothingMissing /\ InStep(p) /\ UnderWay(p)
      /\ target.there => Whole(target) \/ At(p, "removing")
      /\ backup[b].there => Whole(backup[b]) \/ Whole(target)
      /\ AtWork = {b}
      /\ Content = IF Whole(target) THEN target.has ELSE Counted(backup[b])
  BY <1>1, InsideBatch
<1>3. /\ lock' = p
      /\ \A c \in Batches : c # b => backup'[c] = backup[c]
      /\ proc'[p].batch = b
  BY <1>1 DEF BackupDeleted, GoesTo, History, InBatch, TypeOK
<1>4. NothingMissing'
  BY <1>1, <1>2 DEF BackupDeleted, GoesTo, History, NothingMissing, UnderWay, At, NoDir, Mangled, TypeOK, Dirs
<1>5. InStep(p)'
  BY <1>1, <1>2 DEF BackupDeleted, GoesTo, History, InStep, UnderWay, NothingMissing, At, NoDir, Dir, Mangled, TypeOK, Dirs
<1>6. /\ Exact'
      /\ AtWork' = {b}
      /\ Content' = IF Whole(target') THEN target'.has ELSE Counted(backup'[b])
  BY <1>1, <1>2, <1>3, <1>4, <1>5, AfterStep
<1>7. UNCHANGED <<Content, committed>>
  BY <1>1, <1>2, <1>6 DEF BackupDeleted, GoesTo, History, UnderWay, InStep, NothingMissing, Saved, Keeps, Counted, Whole, At, NoDir, Dir, Mangled, TypeOK, Dirs
<1> QED
  BY <1>2, <1>6, <1>7 DEF Promised, Atomic!ticker

LEMMA CommittedIsAtomic ==
  ASSUME TypeOK, TypeOK', Kept, Exact, NEW p \in Processes, Committed(p), ~unswept', ~mangled'
  PROVE  Exact' /\ Promised
<1> DEFINE b == proc[p].batch
<1>1. ~unswept /\ ~mangled /\ InBatch(p)
  BY DEF Committed, Ends, InBatch, At
<1>2. /\ b \in Batches
      /\ \A c \in Batches : backup[c].there => c = b
      /\ NothingMissing /\ InStep(p) /\ UnderWay(p)
      /\ target.there => Whole(target) \/ At(p, "removing")
      /\ backup[b].there => Whole(backup[b]) \/ Whole(target)
      /\ AtWork = {b}
      /\ Content = IF Whole(target) THEN target.has ELSE Counted(backup[b])
  BY <1>1, InsideBatch
<1>3. /\ lock' = None
      /\ \A c \in Batches : c # b => backup'[c] = backup[c]
  BY <1>1 DEF Committed, Ends, InBatch, TypeOK
<1>4. NothingMissing'
  BY <1>1, <1>2 DEF Committed, Ends, NothingMissing, UnderWay, At, NoDir, Mangled, TypeOK, Dirs
<1>5. InStep(p)'
  BY <1>1, <1>2 DEF Committed, Ends, InStep, UnderWay, NothingMissing, At, NoDir, Dir, Mangled, TypeOK, Dirs
<1>6. /\ Exact'
      /\ AtWork' = {}
      /\ Content' = IF Whole(target') THEN target'.has ELSE Counted(backup'[b])
  BY <1>1, <1>2, <1>3, <1>4, <1>5, AfterStep
<1>7. b \in Content /\ UNCHANGED Content /\ committed' = committed \union {b}
  BY <1>1, <1>2, <1>6 DEF Committed, Ends, UnderWay, InStep, NothingMissing, Saved, Keeps, Counted, Whole, At, NoDir, Dir, Mangled, TypeOK, Dirs
<1> QED
  BY <1>2, <1>6, <1>7 DEF Promised, Atomic!Next, Atomic!Commit

LEMMA RaiseIsAtomic ==
  ASSUME TypeOK, TypeOK', Kept, Exact, NEW p \in Processes, Raise(p), ~unswept', ~mangled'
  PROVE  Exact' /\ Promised
<1> DEFINE b == proc[p].batch
<1>1. ~unswept /\ ~mangled /\ InBatch(p)
  BY DEF Raise, GoesTo, Files, InBatch, At
<1>2. /\ b \in Batches
      /\ \A c \in Batches : backup[c].there => c = b
      /\ NothingMissing /\ InStep(p) /\ UnderWay(p)
      /\ target.there => Whole(target) \/ At(p, "removing")
      /\ backup[b].there => Whole(backup[b]) \/ Whole(target)
      /\ AtWork = {b}
      /\ Content = IF Whole(target) THEN target.has ELSE Counted(backup[b])
  BY <1>1, InsideBatch
<1>3. /\ lock' = p
      /\ \A c \in Batches : c # b => backup'[c] = backup[c]
      /\ proc'[p].batch = b
  BY <1>1 DEF Raise, GoesTo, Files, InBatch, TypeOK
<1>4. NothingMissing'
  BY <1>1, <1>2 DEF Raise, GoesTo, Files, NothingMissing, UnderWay, At, NoDir, Mangled, TypeOK, Dirs
<1>5. InStep(p)'
  BY <1>1, <1>2 DEF Raise, GoesTo, Files, InStep, UnderWay, NothingMissing, At, NoDir, Dir, Mangled, TypeOK, Dirs
<1>6. /\ Exact'
      /\ AtWork' = {b}
      /\ Content' = IF Whole(target') THEN target'.has ELSE Counted(backup'[b])
  BY <1>1, <1>2, <1>3, <1>4, <1>5, AfterStep
<1>7. UNCHANGED <<Content, committed>>
  BY <1>1, <1>2, <1>6 DEF Raise, GoesTo, Files, UnderWay, InStep, NothingMissing, Saved, Keeps, Counted, Whole, At, NoDir, Dir, Mangled, TypeOK, Dirs
<1> QED
  BY <1>2, <1>6, <1>7 DEF Promised, Atomic!ticker

(* The handler takes the batch back, or lets it be.                        *)
LEMMA HandleIsAtomic ==
  ASSUME TypeOK, TypeOK', Kept, Exact, NEW p \in Processes, Handle(p), ~unswept', ~mangled'
  PROVE  Exact' /\ Promised
<1> DEFINE b == proc[p].batch
<1>1. ~unswept /\ ~mangled /\ InBatch(p)
  BY DEF Handle, GoesTo, History, InBatch, At
<1>2. /\ b \in Batches
      /\ \A c \in Batches : backup[c].there => c = b
      /\ NothingMissing /\ InStep(p) /\ UnderWay(p)
      /\ target.there => Whole(target) \/ At(p, "removing")
      /\ backup[b].there => Whole(backup[b]) \/ Whole(target)
      /\ AtWork = {b}
      /\ Content = IF Whole(target) THEN target.has ELSE Counted(backup[b])
  BY <1>1, InsideBatch
<1>3. /\ lock' = p
      /\ \A c \in Batches : c # b => backup'[c] = backup[c]
      /\ proc'[p].batch = b
  BY <1>1 DEF Handle, GoesTo, History, InBatch, TypeOK
<1>4. NothingMissing'
  BY <1>1, <1>2 DEF Handle, GoesTo, History, NothingMissing, UnderWay, At, NoDir, Mangled, TypeOK, Dirs
<1>5. InStep(p)'
  BY <1>1, <1>2 DEF Handle, GoesTo, History, InStep, UnderWay, NothingMissing, At, NoDir, Dir, Mangled, TypeOK, Dirs
<1>6. /\ Exact'
      /\ AtWork' = {b}
      /\ Content' = IF Whole(target') THEN target'.has ELSE Counted(backup'[b])
  BY <1>1, <1>2, <1>3, <1>4, <1>5, AfterStep
<1>7. (Content' = Content \/ Content' = Content \ {b}) /\ UNCHANGED committed
  BY <1>1, <1>2, <1>6 DEF Handle, GoesTo, History, UnderWay, InStep, NothingMissing, Saved, Keeps, Counted, Whole, At, NoDir, Dir, Mangled, TypeOK, Dirs
<1> QED
  BY <1>2, <1>6, <1>7 DEF Promised, Atomic!Next, Atomic!ticker, Atomic!TakeBack

LEMMA RemovedIsAtomic ==
  ASSUME TypeOK, TypeOK', Kept, Exact, NEW p \in Processes, Removed(p), ~unswept', ~mangled'
  PROVE  Exact' /\ Promised
<1> DEFINE b == proc[p].batch
<1>1. ~unswept /\ ~mangled /\ InBatch(p)
  BY DEF Removed, GoesTo, InBatch, At
<1>2. /\ b \in Batches
      /\ \A c \in Batches : backup[c].there => c = b
      /\ NothingMissing /\ InStep(p) /\ UnderWay(p)
      /\ target.there => Whole(target) \/ At(p, "removing")
      /\ backup[b].there => Whole(backup[b]) \/ Whole(target)
      /\ AtWork = {b}
      /\ Content = IF Whole(target) THEN target.has ELSE Counted(backup[b])
  BY <1>1, InsideBatch
<1>3. /\ lock' = p
      /\ \A c \in Batches : c # b => backup'[c] = backup[c]
      /\ proc'[p].batch = b
  BY <1>1 DEF Removed, GoesTo, InBatch, TypeOK
<1>4. NothingMissing'
  BY <1>1, <1>2 DEF Removed, GoesTo, NothingMissing, UnderWay, At, NoDir, Mangled, TypeOK, Dirs
<1>5. InStep(p)'
  BY <1>1, <1>2 DEF Removed, GoesTo, InStep, UnderWay, NothingMissing, At, NoDir, Dir, Mangled, TypeOK, Dirs
<1>6. /\ Exact'
      /\ AtWork' = {b}
      /\ Content' = IF Whole(target') THEN target'.has ELSE Counted(backup'[b])
  BY <1>1, <1>2, <1>3, <1>4, <1>5, AfterStep
<1>7. UNCHANGED <<Content, committed>>
  BY <1>1, <1>2, <1>6 DEF Removed, GoesTo, UnderWay, InStep, NothingMissing, Saved, Keeps, Counted, Whole, At, NoDir, Dir, Mangled, TypeOK, Dirs
<1> QED
  BY <1>2, <1>6, <1>7 DEF Promised, Atomic!ticker

LEMMA RestoreIsAtomic ==
  ASSUME TypeOK, TypeOK', Kept, Exact, NEW p \in Processes, Restore(p), ~unswept', ~mangled'
  PROVE  Exact' /\ Promised
<1> DEFINE b == proc[p].batch
<1>1. ~unswept /\ ~mangled /\ InBatch(p)
  BY DEF Restore, GoesTo, History, InBatch, At
<1>2. /\ b \in Batches
      /\ \A c \in Batches : backup[c].there => c = b
      /\ NothingMissing /\ InStep(p) /\ UnderWay(p)
      /\ target.there => Whole(target) \/ At(p, "removing")
      /\ backup[b].there => Whole(backup[b]) \/ Whole(target)
      /\ AtWork = {b}
      /\ Content = IF Whole(target) THEN target.has ELSE Counted(backup[b])
  BY <1>1, InsideBatch
<1>3. /\ lock' = p
      /\ \A c \in Batches : c # b => backup'[c] = backup[c]
      /\ proc'[p].batch = b
  BY <1>1 DEF Restore, GoesTo, History, InBatch, TypeOK
<1>4. NothingMissing'
  BY <1>1, <1>2 DEF Restore, GoesTo, History, NothingMissing, UnderWay, At, NoDir, Mangled, TypeOK, Dirs
<1>5. InStep(p)'
  BY <1>1, <1>2 DEF Restore, GoesTo, History, InStep, UnderWay, NothingMissing, At, NoDir, Dir, Mangled, TypeOK, Dirs
<1>6. /\ Exact'
      /\ AtWork' = {b}
      /\ Content' = IF Whole(target') THEN target'.has ELSE Counted(backup'[b])
  BY <1>1, <1>2, <1>3, <1>4, <1>5, AfterStep
<1>7. UNCHANGED <<Content, committed>>
  BY <1>1, <1>2, <1>6 DEF Restore, GoesTo, History, UnderWay, InStep, NothingMissing, Saved, Keeps, Counted, Whole, At, NoDir, Dir, Mangled, TypeOK, Dirs
<1> QED
  BY <1>2, <1>6, <1>7 DEF Promised, Atomic!ticker

LEMMA FailedIsAtomic ==
  ASSUME TypeOK, TypeOK', Kept, Exact, NEW p \in Processes, Failed(p), ~unswept', ~mangled'
  PROVE  Exact' /\ Promised
<1> DEFINE b == proc[p].batch
<1>1. ~unswept /\ ~mangled /\ InBatch(p)
  BY DEF Failed, Ends, History, InBatch, At
<1>2. /\ b \in Batches
      /\ \A c \in Batches : backup[c].there => c = b
      /\ NothingMissing /\ InStep(p) /\ UnderWay(p)
      /\ target.there => Whole(target) \/ At(p, "removing")
      /\ backup[b].there => Whole(backup[b]) \/ Whole(target)
      /\ AtWork = {b}
      /\ Content = IF Whole(target) THEN target.has ELSE Counted(backup[b])
  BY <1>1, InsideBatch
<1>3. /\ lock' = None
      /\ \A c \in Batches : c # b => backup'[c] = backup[c]
  BY <1>1 DEF Failed, Ends, History, InBatch, TypeOK
<1>4. NothingMissing'
  BY <1>1, <1>2 DEF Failed, Ends, History, NothingMissing, UnderWay, At, NoDir, Mangled, TypeOK, Dirs
<1>5. InStep(p)'
  BY <1>1, <1>2 DEF Failed, Ends, History, InStep, UnderWay, NothingMissing, At, NoDir, Dir, Mangled, TypeOK, Dirs
<1>6. /\ Exact'
      /\ AtWork' = {}
      /\ Content' = IF Whole(target') THEN target'.has ELSE Counted(backup'[b])
  BY <1>1, <1>2, <1>3, <1>4, <1>5, AfterStep
<1>7. UNCHANGED <<Content, committed>>
  BY <1>1, <1>2, <1>6 DEF Failed, Ends, History, UnderWay, InStep, NothingMissing, Saved, Keeps, Counted, Whole, At, NoDir, Dir, Mangled, TypeOK, Dirs
<1> QED
  BY <1>6, <1>7, Ended

(* A step of a process that is in no batch.                                *)
LEMMA BesideBatches ==
  ASSUME TypeOK, TypeOK', Exact, ~unswept, ~mangled,
         NEW p \in Processes, ~InBatch(p), ~InBatch(p)',
         \A q \in Processes : q # p => proc'[q] = proc[q],
         UNCHANGED <<lock, committed>>,
         \/ UNCHANGED Files
         \/ lock = None /\ NothingMissing' /\ UNCHANGED Content
  PROVE  Exact' /\ Promised
<1>1. NothingMissing'
  BY DEF Exact, NothingMissing, Files
<1>2. \A q \in Processes : InStep(q)'
  <2> TAKE q \in Processes
  <2>1. CASE ~InBatch(q)'
    BY <2>1, InStepOutsideNext
  <2>2. CASE InBatch(q)'
    <3>1. q # p /\ lock # None /\ proc'[q] = proc[q]
      BY <2>2, NoneIsNothing DEF TypeOK
    <3>2. UNCHANGED Files /\ InStep(q)
      BY <3>1 DEF Exact
    <3> QED
      BY <3>1, <3>2 DEF InStep, At, Files
  <2> QED
    BY <2>1, <2>2
<1>3. UNCHANGED Content
  BY DEF Content, Files
<1>4. UNCHANGED AtWork
  <2>1. CASE lock = None
    BY <2>1, AtWorkIs, AtWorkIsNext
  <2>2. CASE lock # None
    <3>1. lock \in Processes /\ lock # p
      BY <2>2 DEF TypeOK
    <3> QED
      BY <3>1, AtWorkIs, AtWorkIsNext
  <2> QED
    BY <2>1, <2>2
<1> QED
  BY <1>1, <1>2, <1>3, <1>4 DEF Exact, Promised, Atomic!ticker

(* Recovery leaves the documents as they are, wherever they were.          *)
LEMMA ResolvedIsTheSame ==
  ASSUME TypeOK, TypeOK', NothingMissing, Lone, BackupKeeps, target.there => Keeps(target),
         NEW b \in Batches, backup[b].there, BackupResolved(b)
  PROVE  NothingMissing' /\ UNCHANGED Content
<1>1. \A c \in Batches : backup[c].there => c = b
  BY DEF Lone, HasLeft
<1>2. backup' = [backup EXCEPT ![b] = NoDir]
  BY DEF BackupResolved
<1>3. /\ backup'[b] = NoDir
      /\ \A c \in Batches : c # b => backup'[c] = backup[c]
  BY <1>2 DEF TypeOK
<1>4. \A c \in Batches : backup'[c].there => c = b
  BY <1>1, <1>3
<1>5. IF target.there THEN target' = target ELSE target' = backup[b] /\ Keeps(backup[b])
  BY DEF BackupResolved, BackupKeeps, Keeps
<1>6. NothingMissing'
  BY <1>3, <1>5 DEF NothingMissing, NoDir
<1>7. /\ Content = IF target.there /\ target.whole THEN target.has ELSE Counted(backup[b])
      /\ Content' = IF target'.there /\ target'.whole THEN target'.has ELSE Counted(backup'[b])
  BY <1>1, <1>4, <1>6, ContentIs, ContentIsNext
<1> QED
  BY <1>5, <1>6, <1>7 DEF Keeps, Counted

LEMMA SweepBatchIsAtomic ==
  ASSUME TypeOK, TypeOK', Kept, Exact, NEW p \in Processes, NEW b \in Batches, SweepBatch(p, b),
         ~unswept', ~mangled'
  PROVE  Exact' /\ Promised
<1>1. /\ ~unswept /\ ~mangled /\ UNCHANGED <<lock, committed>>
      /\ ~InBatch(p) /\ ~InBatch(p)'
      /\ \A q \in Processes : q # p => proc'[q] = proc[q]
  BY DEF SweepBatch, History, InBatch, At, TypeOK
<1>2. \/ UNCHANGED Files
      \/ lock = None /\ NothingMissing' /\ UNCHANGED Content
  <2>1. CASE lock # None \/ b \notin tokens
    BY <2>1 DEF SweepBatch
  <2>2. CASE lock = None /\ b \in tokens
    <3>1. Lone /\ BackupKeeps /\ (target.there => Keeps(target)) /\ NothingMissing
      BY <1>1, <2>2, NobodyInBatch DEF Exact
    <3>2. CASE backup[b].there
      BY <2>2, <3>1, <3>2, ResolvedIsTheSame DEF SweepBatch
    <3>3. CASE ~backup[b].there
      <4>1. UNCHANGED <<target, backup>>
        BY <2>2, <3>3 DEF SweepBatch
      <4> QED
        BY <2>2, <3>1, <4>1 DEF NothingMissing, Content
    <3> QED
      BY <3>2, <3>3
  <2> QED
    BY <2>1, <2>2
<1> QED
  BY <1>1, <1>2, BesideBatches

LEMMA SweepBackupIsAtomic ==
  ASSUME TypeOK, TypeOK', Kept, Exact, NEW p \in Processes, NEW b \in Batches, SweepBackup(p, b),
         ~unswept', ~mangled'
  PROVE  Exact' /\ Promised
<1>1. /\ ~unswept /\ ~mangled /\ UNCHANGED <<lock, committed, staging, tokens>>
      /\ ~InBatch(p) /\ ~InBatch(p)'
      /\ \A q \in Processes : q # p => proc'[q] = proc[q]
  BY DEF SweepBackup, History, InBatch, At, TypeOK
<1>2. \/ UNCHANGED Files
      \/ lock = None /\ NothingMissing' /\ UNCHANGED Content
  <2>1. CASE b \in tokens \/ lock # None \/ ~backup[b].there
    BY <1>1, <2>1 DEF SweepBackup, Files
  <2>2. CASE lock = None /\ backup[b].there /\ BackupResolved(b)
    <3>1. Lone /\ BackupKeeps /\ (target.there => Keeps(target)) /\ NothingMissing
      BY <1>1, <2>2, NobodyInBatch DEF Exact
    <3> QED
      BY <2>2, <3>1, ResolvedIsTheSame
  <2> QED
    BY <2>1, <2>2 DEF SweepBackup
<1> QED
  BY <1>1, <1>2, BesideBatches

LEMMA OpeningIsAtomic ==
  ASSUME TypeOK, TypeOK', Exact, NEW p \in Processes, Open(p) \/ ListBackups(p) \/ Opened(p),
         ~unswept', ~mangled'
  PROVE  Exact' /\ Promised
<1>1. /\ ~unswept /\ ~mangled /\ UNCHANGED <<lock, committed, Files>>
      /\ ~InBatch(p)
      /\ \A q \in Processes : q # p => proc'[q] = proc[q]
  BY DEF Open, ListBackups, Opened, GoesTo, History, InBatch, At, TypeOK
<1>2. ~InBatch(p)'
  BY <1>1 DEF TypeOK
<1> QED
  BY <1>1, <1>2, BesideBatches

(* A batch whose process dies is there as a whole, or not at all.          *)
LEMMA CrashIsAtomic ==
  ASSUME TypeOK, TypeOK', Kept, Exact, NEW p \in Processes, Crash(p), ~unswept', ~mangled'
  PROVE  Exact' /\ Promised
<1>1. ~mangled
  BY Zenon DEF Crash
<1>2. /\ ~unswept /\ UNCHANGED <<Files, committed>>
      /\ ~InBatch(p)'
      /\ \A q \in Processes : q # p => proc'[q] = proc[q]
      /\ lock' = IF lock = p THEN None ELSE lock
  BY OutType DEF Crash, InBatch, TypeOK
<1>3. CASE lock = p
  <2>1. lock' = None /\ \A q \in Processes : ~InBatch(q)'
    BY <1>2, <1>3, NoneIsNothing DEF TypeOK
  <2>2. AtWork' = {}
    BY <2>1, AtWorkIsNext
  <2>3. UNCHANGED Content
    BY <1>2 DEF Content, Files
  <2>4. NothingMissing' /\ \A q \in Processes : InStep(q)'
    BY <1>1, <1>2, <2>1, InStepOutsideNext DEF Exact, NothingMissing, Files
  <2> QED
    BY <1>2, <2>2, <2>3, <2>4, Ended DEF Exact
<1>4. CASE lock # p
  <2>1. ~InBatch(p)
    BY <1>4 DEF TypeOK
  <2> QED
    BY <1>1, <1>2, <1>4, <2>1, BesideBatches
<1> QED
  BY <1>3, <1>4

LEMMA BeginIsAtomic ==
  ASSUME TypeOK, TypeOK', Exact, NEW p \in Processes, NEW b \in Batches, Begin(p, b),
         ~unswept', ~mangled'
  PROVE  Exact' /\ Promised
<1>1. ~unswept /\ ~Leftovers
  BY Zenon DEF Begin
<1>2. ~mangled /\ NothingMissing
  BY <1>1 DEF Begin, Exact
<1>3. /\ lock = None /\ lock' = p /\ UNCHANGED <<target, backup, committed>>
      /\ proc'[p].at = "begun" /\ proc'[p].batch = b
      /\ staging'[b] = Dir(target.has \union {b})
      /\ b \notin target.has /\ b \notin committed
      /\ \A c \in Batches : ~backup[c].there
  BY <1>1 DEF Begin, Used, Leftovers, TypeOK
<1>4. InStep(p)'
  BY <1>3 DEF InStep, At
<1>5. \A q \in Processes : q # p => ~InBatch(q)'
  BY <1>3 DEF TypeOK
<1>6. Exact'
  BY <1>2, <1>3, <1>4, <1>5, InStepOutsideNext DEF Exact, NothingMissing
<1>7. AtWork = {} /\ AtWork' = {b}
  BY <1>3, AtWorkIs, AtWorkIsNext
<1>8. UNCHANGED Content /\ b \notin Content
  BY <1>2, <1>3, ContentIs DEF Content, Counted, NothingMissing, NoDir
<1> QED
  BY <1>3, <1>6, <1>7, <1>8 DEF Promised, Atomic!Next, Atomic!Begin

LEMMA NextIsAtomic ==
  ASSUME TypeOK, TypeOK', Kept, Exact, [Next]_vars, ~unswept', ~mangled'
  PROVE  Exact' /\ Promised
<1>1. ASSUME Next PROVE Exact' /\ Promised
  <2> PICK p \in Processes :
           \/ Open(p) \/ Recover(p) \/ Crash(p)
           \/ \E b \in Batches : Begin(p, b)
           \/ RollBack(p) \/ Commit(p) \/ Raise(p) \/ HandleFailure(p)
    BY <1>1 DEF Next
  <2>1. CASE Open(p) \/ Recover(p)
    BY <2>1, OpeningIsAtomic, SweepBatchIsAtomic, SweepBackupIsAtomic DEF Recover
  <2>2. CASE Crash(p) \/ RollBack(p) \/ Raise(p) \/ \E b \in Batches : Begin(p, b)
    BY <2>2, CrashIsAtomic, RollBackIsAtomic, RaiseIsAtomic, BeginIsAtomic
  <2>3. CASE Commit(p)
    BY <2>3, MoveAwayIsAtomic, SwapIsAtomic, DeleteBackupIsAtomic, BackupDeletedIsAtomic,
       CommittedIsAtomic DEF Commit
  <2>4. CASE HandleFailure(p)
    BY <2>4, HandleIsAtomic, RemovedIsAtomic, RestoreIsAtomic, FailedIsAtomic DEF HandleFailure
  <2> QED
    BY <2>1, <2>2, <2>3, <2>4
<1>2. ASSUME UNCHANGED vars PROVE Exact' /\ Promised
  <2>1. Exact'
    BY <1>2 DEF vars, Exact, NothingMissing, InStep, At
  <2>2. UNCHANGED Content
    BY <1>2 DEF vars, Content
  <2>3. UNCHANGED AtWork
    BY <1>2 DEF vars, AtWork
  <2> QED
    BY <1>2, <2>1, <2>2, <2>3 DEF vars, Promised, Atomic!ticker
<1> QED
  BY <1>1, <1>2

LEMMA ExactHolds == Spec => []Exact
<1>1. Init => Exact
  <2> SUFFICES ASSUME Init PROVE NothingMissing /\ \A p \in Processes : InStep(p)
    BY DEF Exact
  <2>1. \A p \in Processes : InStep(p)
    BY OutType DEF Init, InStep, At
  <2> QED
    BY <2>1 DEF Init, NothingMissing
<1>2. TypeOK /\ TypeOK' /\ Kept /\ Exact /\ [Next]_vars => Exact'
  BY NextIsAtomic DEF Exact
<1>3. Spec => []Kept
  BY KeptHolds
<1> QED
  BY <1>1, <1>2, <1>3, TypeCorrect, PTL DEF Spec

(* The batches of a ticker happen as a whole or not at all, and those that *)
(* were committed stay, through every failure and every crash of commit,   *)
(* of its handler and of recovery (docs/fins_storage_design.md:57), unless *)
(* one began beside what a dead one had left, or a deletion stopped        *)
(* half-way.                                                               *)
THEOREM ImplementsAtomicBatchesHolds == Spec => ImplementsAtomicBatches
<1>1. Init => Atomic!Init
  <2> SUFFICES ASSUME Init PROVE Atomic!Init
    OBVIOUS
  <2>1. Content = {}
    BY DEF Init, Content, NoDir
  <2>2. AtWork = {}
    BY OutType DEF Init, AtWork
  <2> QED
    BY <2>1, <2>2 DEF Init, Atomic!Init
<1>2. TypeOK /\ TypeOK' /\ Kept /\ Exact /\ [Next]_vars
         => [unswept' \/ mangled' \/ Atomic!Next \/ UNCHANGED Atomic!ticker]_vars
  BY NextIsAtomic DEF Promised
<1>3. Spec => []Kept
  BY KeptHolds
<1> QED
  BY <1>1, <1>2, <1>3, ExactHolds, TypeCorrect, PTL DEF Spec, ImplementsAtomicBatches

=============================================================================
