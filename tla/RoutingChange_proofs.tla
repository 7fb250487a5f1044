-------------------------- MODULE RoutingChange_proofs --------------------------
(***************************************************************************)
(* Proofs about RoutingChange: its types, and its four properties, each    *)
(* from what a command knows at each of its places.                        *)
(***************************************************************************)
EXTENDS RoutingChange, TLAPS

FileType == [intent : BOOLEAN, consumed : BOOLEAN, receipt : Outcomes \union {"none"}]
WorkType == [txn : Txns \union {None}, at : Places, left : SUBSET Scenes,
             scene : Scenes \union {None}, ok : BOOLEAN, raced : BOOLEAN,
             outcome : Outcomes \union {"none"}]

Typed ==
    /\ manifest \in Routings
    /\ plans \in [Txns -> Plans \union {NoPlan}]
    /\ files \in [Txns -> FileType]
    /\ log \in Seq(Txns)
    /\ work \in WorkType
    /\ cleared \subseteq Recoveries /\ revoked \subseteq cleared
    /\ torn \subseteq Txns
    /\ edits \in 0..MaxEdits
    /\ quiet \in BOOLEAN

FilesInOrder ==
    \A t \in Txns : /\ files[t].receipt # "none" => files[t].consumed
                    /\ files[t].consumed => files[t].intent
                    /\ files[t].intent => Planned(t)

(* The places of a command after its consumption.                          *)
Consumed == {"check", "replace", "preflight", "undo", "unreplace", "record"}

(* Who is at work: a planned transaction, whose intent is there, whose     *)
(* consumption follows it, and whose receipt is still to come.             *)
WorkIsPlanned ==
    /\ work.txn = None <=> work = Idle
    /\ work.txn = None <=> work.at = "idle"
    /\ work.txn # None => /\ Planned(work.txn) /\ files[work.txn].intent
                          /\ files[work.txn].receipt = "none"
                          /\ work.at \in Consumed <=> files[work.txn].consumed
    /\ work.at \in {"replace", "unreplace"} <=> work.scene # None
    /\ work.at = "record" <=> work.outcome # "none"

Sound == Typed /\ FilesInOrder /\ WorkIsPlanned

LEMMA SoundTypeOK == Sound => TypeOK
  BY DEF Sound, Typed, FilesInOrder, WorkIsPlanned, TypeOK, FileType, WorkType

LEMMA NoneAside == None \notin Txns /\ None \notin Scenes
  BY ConstantsAssumption

LEMMA IdleTyped == Idle \in WorkType
  BY DEF Idle, WorkType, Places

LEMMA InitSound == Init => Sound
<1> SUFFICES ASSUME Init PROVE Sound
  OBVIOUS
<1>1. manifest \in Routings /\ plans \in [Txns -> Plans \union {NoPlan}]
  BY DEF Init, Routings, Contents
<1>2. files \in [Txns -> FileType]
  BY DEF Init, NoFiles, FileType
<1>3. log \in Seq(Txns) /\ edits \in 0..MaxEdits
  BY ConstantsAssumption DEF Init
<1>4. FilesInOrder
  BY DEF Init, NoFiles, FilesInOrder
<1>5. WorkIsPlanned
  BY DEF Init, Idle, WorkIsPlanned, Consumed
<1> QED
  BY <1>1, <1>2, <1>3, <1>4, <1>5, IdleTyped DEF Init, Sound, Typed

-----------------------------------------------------------------------------
(* Steps that give a transaction its plan.                                 *)

GetsPlan(t) ==
    /\ ~Planned(t)
    /\ \E plan \in Plans : plans' = [plans EXCEPT ![t] = plan] /\ plan # NoPlan
    /\ UNCHANGED <<manifest, files, log, work, cleared, revoked, torn, edits, quiet>>

LEMMA PlansAreNot == \A plan \in Plans : plan # NoPlan
<1> SUFFICES ASSUME NEW plan \in Plans, plan = NoPlan PROVE FALSE
  OBVIOUS
<1>1. plan.scenes # {}
  BY DEF Plans
<1>2. NoPlan.scenes = {}
  BY DEF NoPlan
<1> QED
  BY <1>1, <1>2

LEMMA PlannedTyped == Typed => \A t \in Txns : Planned(t) => plans[t] \in Plans
  BY DEF Typed, Planned

LEMMA PlanSteps ==
  ASSUME Sound, NEW t \in Txns,
         \/ \E goal \in Routings : PlanChange(t, goal)
         \/ \E change \in Changes : PlanRollback(t, change)
         \/ \E rollback \in Rollbacks : PlanRecovery(t, rollback)
  PROVE  GetsPlan(t)
<1>0. Typed /\ FilesInOrder
  BY DEF Sound
<1>1. ASSUME NEW goal \in Routings, PlanChange(t, goal) PROVE GetsPlan(t)
  <2> DEFINE scenes == {s \in Scenes : goal[s] # manifest[s]}
             plan   == [scenes |-> scenes, base |-> manifest, goal |-> goal, of |-> None]
  <2>1. goal # manifest /\ manifest \in Routings
    BY <1>0, <1>1 DEF PlanChange, Typed
  <2>2. scenes \in (SUBSET Scenes) \ {{}}
    BY <2>1 DEF Routings
  <2> HIDE DEF scenes
  <2>3. plan \in Plans
    BY <2>1, <2>2 DEF Plans
  <2>4. ~Planned(t) /\ Plan(t, plan)
    BY <1>1 DEF PlanChange, scenes
  <2> QED
    BY <2>3, <2>4, PlansAreNot DEF Plan, GetsPlan
<1>2. ASSUME NEW change \in Changes, PlanRollback(t, change) PROVE GetsPlan(t)
  <2> DEFINE plan == [scenes |-> plans[change].scenes,
                      base |-> manifest, goal |-> plans[change].base, of |-> change]
  <2>1. change \in Txns /\ files[change].receipt = "done"
    BY <1>2 DEF PlanRollback, Txns
  <2>2. plans[change] \in Plans
    BY <1>0, <2>1, PlannedTyped DEF FilesInOrder
  <2>3. plan \in Plans
    BY <1>0, <2>1, <2>2 DEF Plans, Typed
  <2>4. ~Planned(t) /\ Plan(t, plan)
    BY <1>2 DEF PlanRollback
  <2> QED
    BY <2>3, <2>4, PlansAreNot DEF Plan, GetsPlan
<1>3. ASSUME NEW rollback \in Rollbacks, PlanRecovery(t, rollback) PROVE GetsPlan(t)
  <2>1. PICK goal \in {plans[rollback].base, plans[rollback].goal} :
          Plan(t, [scenes |-> plans[rollback].scenes, base |-> manifest, goal |-> goal, of |-> rollback])
    BY <1>3 DEF PlanRecovery
  <2> DEFINE plan == [scenes |-> plans[rollback].scenes, base |-> manifest, goal |-> goal, of |-> rollback]
  <2>2. rollback \in Txns /\ files[rollback].receipt = "failed"
    BY <1>3 DEF PlanRecovery, Txns
  <2>3. plans[rollback] \in Plans
    BY <1>0, <2>2, PlannedTyped DEF FilesInOrder
  <2>4. plan \in Plans
    BY <1>0, <2>1, <2>2, <2>3 DEF Plans, Typed
  <2>5. ~Planned(t) /\ Plan(t, plan)
    BY <1>3, <2>1 DEF PlanRecovery
  <2> QED
    BY <2>4, <2>5, PlansAreNot DEF Plan, GetsPlan
<1> QED
  BY <1>1, <1>2, <1>3

LEMMA PlanSound ==
  ASSUME Sound, NEW t \in Txns, GetsPlan(t)
  PROVE  Sound'
<1>1. PICK plan \in Plans : plans' = [plans EXCEPT ![t] = plan] /\ plan # NoPlan
  BY DEF GetsPlan
<1>2. /\ plans' \in [Txns -> Plans \union {NoPlan}]
      /\ \A u \in Txns : Planned(u) => Planned(u)'
  BY <1>1 DEF Sound, Typed, Planned
<1>3. UNCHANGED <<manifest, files, log, work, cleared, revoked, torn, edits, quiet>>
  BY DEF GetsPlan
<1>4. WorkIsPlanned'
  <2>1. work.txn # None => work.txn \in Txns
    BY DEF Sound, Typed, WorkType
  <2> QED
    BY <1>2, <1>3, <2>1 DEF Sound, WorkIsPlanned
<1> QED
  BY <1>2, <1>3, <1>4 DEF Sound, Typed, FilesInOrder

-----------------------------------------------------------------------------
(* Steps of a command.                                                     *)

IdleFields(w) == /\ w.scene = None /\ w.ok /\ ~w.raced /\ w.outcome = "none"

LEMMA WorkFields ==
  ASSUME Sound, NEW t \in Txns, Planned(t), NEW at \in Places
  PROVE  /\ Work(t, at) \in WorkType
         /\ Work(t, at).txn = t /\ Work(t, at).at = at /\ Work(t, at).left = plans[t].scenes
         /\ IdleFields(Work(t, at))
<1>1. plans[t].scenes \in SUBSET Scenes
  BY PlannedTyped DEF Sound, Plans
<1> QED
  BY <1>1 DEF Work, Idle, WorkType, IdleFields, Places

(* Where a command that has consumed may go.                               *)
GoesWell(w, t) ==
    /\ w \in WorkType /\ w.txn = t
    /\ w.at \in Consumed
    /\ w.at \in {"replace", "unreplace"} <=> w.scene # None
    /\ w.at = "record" <=> w.outcome # "none"

LEMMA GoesWellSound ==
  ASSUME Sound, NEW t \in Txns, work.txn = t, work.at \in Consumed, GoesWell(work', t),
         manifest' \in Routings,
         UNCHANGED <<plans, files, log, cleared, revoked, torn, edits, quiet>>
  PROVE  Sound'
<1>1. WorkIsPlanned'
  <2>1. t # None /\ work'.at # "idle" /\ work' # Idle
    BY NoneAside DEF GoesWell, Consumed, Idle
  <2> QED
    BY <2>1, NoneAside DEF GoesWell, Sound, WorkIsPlanned, Planned
<1> QED
  BY <1>1 DEF Sound, Typed, FilesInOrder, GoesWell, Planned

LEMMA UndoWell ==
  ASSUME Sound, NEW t \in Txns, Planned(t)
  PROVE  GoesWell(Undo(t), t)
<1>1. "undo" \in Places
  BY DEF Places
<1> QED
  BY <1>1, WorkFields DEF Undo, GoesWell, Consumed, IdleFields

(* A command at work is of a planned transaction.                          *)
LEMMA AtWork ==
  ASSUME Sound, NEW t \in Txns, work.txn = t
  PROVE  /\ Planned(t) /\ files[t].intent /\ files[t].receipt = "none" /\ t # None
         /\ work.at \in Consumed <=> files[t].consumed
         /\ plans[t] \in Plans
  BY NoneAside, PlannedTyped DEF Sound, WorkIsPlanned

(* The steps between consumption and receipt.                              *)
Working(t) ==
    \/ Replace(t) \/ Preflight(t) \/ Unreplace(t) \/ Confirm(t)
    \/ \E s \in Scenes : Check(t, s) \/ UndoCheck(t, s)

LEMMA WorkingWell ==
  ASSUME Sound, NEW t \in Txns, Working(t)
  PROVE  /\ work.txn = t /\ work.at \in Consumed
         /\ GoesWell(work', t)
         /\ manifest' \in Routings
         /\ UNCHANGED <<plans, files, log, cleared, revoked, torn, edits, quiet>>
<1>0. Typed /\ WorkIsPlanned
  BY DEF Sound
<1>1. work.txn = t /\ work.at \in Consumed /\ UNCHANGED <<plans, files, log, cleared, revoked, torn, edits, quiet>>
  BY DEF Working, Replace, Preflight, Unreplace, Confirm, Check, UndoCheck, GoesOn, At, Consumed
<1>2. GoesWell(Undo(t), t) /\ plans[t] \in Plans
  BY <1>1, AtWork, UndoWell
<1>3. work \in WorkType /\ (work.at \in {"replace", "unreplace"} <=> work.scene # None)
      /\ (work.at = "record" <=> work.outcome # "none")
  BY <1>0 DEF Typed, WorkIsPlanned
<1>4. CASE Replace(t)
  <2>1. work.scene \in Scenes /\ work.at = "replace"
    BY <1>3, <1>4 DEF Replace, At, WorkType
  <2>2. CASE work' = Undo(t) /\ UNCHANGED manifest
    BY <1>0, <1>1, <1>2, <2>2 DEF Typed
  <2>3. CASE /\ manifest' = [manifest EXCEPT ![work.scene] = To(t, work.scene)]
             /\ work' = [Idle EXCEPT !.txn = t, !.left = work.left \ {work.scene},
                           !.at = IF work.left \ {work.scene} = {} THEN "preflight" ELSE "check"]
    <3>1. manifest' \in Routings
      BY <1>0, <1>2, <2>1, <2>3 DEF Typed, Routings, Plans, To
    <3>2. \E place \in {"preflight", "check"} :
             work' = [Idle EXCEPT !.txn = t, !.left = work.left \ {work.scene}, !.at = place]
      BY <2>3
    <3>3. PICK place \in {"preflight", "check"} :
             work' = [Idle EXCEPT !.txn = t, !.left = work.left \ {work.scene}, !.at = place]
      BY <3>2
    <3>4. work.left \ {work.scene} \in SUBSET Scenes
      BY <1>3 DEF WorkType
    <3>5. GoesWell(work', t)
      BY <3>3, <3>4 DEF GoesWell, Idle, WorkType, Places, Consumed
    <3> QED
      BY <1>1, <3>1, <3>5
  <2> QED
    BY <1>4, <2>2, <2>3 DEF Replace, GoesOn
<1>5. CASE Preflight(t)
  <2>1. work.at = "preflight" /\ UNCHANGED manifest
    BY <1>5 DEF Preflight, At
  <2>2. CASE work' = Undo(t)
    BY <1>0, <1>1, <1>2, <2>1, <2>2 DEF Typed
  <2>3. CASE work' = [work EXCEPT !.at = "record", !.outcome = "done"]
    <3>1. GoesWell(work', t)
      BY <1>1, <1>3, <2>1, <2>3 DEF GoesWell, WorkType, Places, Consumed, Outcomes
    <3> QED
      BY <1>0, <1>1, <2>1, <3>1 DEF Typed
  <2> QED
    BY <1>5, <2>2, <2>3 DEF Preflight, GoesOn
<1>6. CASE Unreplace(t)
  <2>1. work.scene \in Scenes /\ work.at = "unreplace"
    BY <1>3, <1>6 DEF Unreplace, At, WorkType
  <2>2. manifest' \in Routings
    BY <1>0, <1>2, <1>6, <2>1 DEF Unreplace, Typed, Routings, Plans, From
  <2>3. \E ok \in BOOLEAN : work' = [work EXCEPT !.left = work.left \ {work.scene}, !.ok = ok, !.at = "undo",
                                                !.scene = None, !.raced = FALSE]
    <3>1. CASE work' = [Passed(work.scene) EXCEPT !.at = "undo", !.scene = None, !.raced = FALSE]
      BY <1>3, <3>1 DEF Passed, WorkType
    <3>2. CASE work' = [NotPassed(work.scene) EXCEPT !.at = "undo", !.scene = None, !.raced = FALSE]
      BY <1>3, <3>2 DEF NotPassed, WorkType
    <3> QED
      BY <1>6, <3>1, <3>2 DEF Unreplace, GoesOn
  <2>4. /\ work' \in WorkType /\ work'.txn = t /\ work'.at = "undo" /\ work'.scene = None
        /\ work'.outcome = work.outcome
    <3>1. PICK ok \in BOOLEAN : work' = [work EXCEPT !.left = work.left \ {work.scene}, !.ok = ok,
                                        !.at = "undo", !.scene = None, !.raced = FALSE]
      BY <2>3
    <3>2. work.left \ {work.scene} \in SUBSET Scenes /\ "undo" \in Places
      BY <1>3 DEF WorkType, Places
    <3>3. work' \in WorkType
      BY <1>3, <3>1, <3>2 DEF WorkType
    <3>4. work'.txn = work.txn /\ work'.at = "undo" /\ work'.scene = None /\ work'.outcome = work.outcome
      BY <1>3, <3>1 DEF WorkType
    <3> QED
      BY <1>1, <3>3, <3>4
  <2>5. GoesWell(work', t)
    BY <1>3, <2>1, <2>4 DEF GoesWell, Consumed
  <2> QED
    BY <1>1, <2>2, <2>5
<1>7. CASE Confirm(t)
  <2>1. work.at = "undo" /\ UNCHANGED manifest
    BY <1>7 DEF Confirm, At
  <2>2. \E outcome \in {"undone", "failed"} : work' = [work EXCEPT !.at = "record", !.outcome = outcome]
    BY <1>7 DEF Confirm, GoesOn
  <2>3. GoesWell(work', t)
    BY <1>1, <1>3, <2>1, <2>2 DEF GoesWell, WorkType, Places, Consumed, Outcomes
  <2> QED
    BY <1>0, <1>1, <2>1, <2>3 DEF Typed
<1>8. ASSUME NEW s \in Scenes, Check(t, s) PROVE GoesWell(work', t) /\ manifest' \in Routings
  <2>1. work.at = "check" /\ UNCHANGED manifest
    BY <1>8 DEF Check, At
  <2>2. CASE work' = Undo(t)
    BY <1>0, <1>2, <2>1, <2>2 DEF Typed
  <2>3. CASE work' = [work EXCEPT !.at = "replace", !.scene = s]
    BY <1>0, <1>1, <1>3, <2>1, <2>3, NoneAside DEF GoesWell, WorkType, Places, Consumed, Typed
  <2> QED
    BY <1>8, <2>2, <2>3 DEF Check, GoesOn
<1>9. ASSUME NEW s \in Scenes, UndoCheck(t, s) PROVE GoesWell(work', t) /\ manifest' \in Routings
  <2>1. work.at = "undo" /\ UNCHANGED manifest
    BY <1>9 DEF UndoCheck, At
  <2>2. CASE work' = [work EXCEPT !.at = "unreplace", !.scene = s]
    BY <1>0, <1>1, <1>3, <2>1, <2>2, NoneAside DEF GoesWell, WorkType, Places, Consumed, Typed
  <2>3. CASE work' = Passed(s) \/ work' = NotPassed(s)
    BY <1>0, <1>1, <1>3, <2>1, <2>3 DEF Passed, NotPassed, GoesWell, WorkType, Places, Consumed, Typed
  <2> QED
    BY <1>9, <2>2, <2>3 DEF UndoCheck, GoesOn
<1> QED
  BY <1>1, <1>4, <1>5, <1>6, <1>7, <1>8, <1>9 DEF Working

LEMMA CommandSound ==
  ASSUME Sound, NEW t \in Txns, Command(t)
  PROVE  Sound'
<1>0. Typed /\ FilesInOrder /\ WorkIsPlanned
  BY DEF Sound
<1>1. CASE Working(t)
  BY <1>1, WorkingWell, GoesWellSound
<1>2. CASE Begin(t)
  <2>1. /\ work = Idle /\ Planned(t) /\ ~files[t].consumed
        /\ files' = [files EXCEPT ![t].intent = TRUE] /\ work' = Work(t, "consume")
        /\ UNCHANGED <<manifest, log, plans, cleared, revoked, torn, edits, quiet>>
    BY <1>2 DEF Begin, GoesOn, LockFree
  <2>2. /\ files' \in [Txns -> FileType]
        /\ files'[t].intent /\ ~files'[t].consumed /\ files'[t].receipt = "none"
        /\ \A u \in Txns : u # t => files'[u] = files[u]
    BY <1>0, <2>1 DEF Typed, FileType, FilesInOrder
  <2>3. /\ work' \in WorkType /\ work'.txn = t /\ work'.at = "consume" /\ IdleFields(work')
    BY <2>1, WorkFields DEF Places
  <2>4. FilesInOrder'
    BY <1>0, <2>1, <2>2 DEF FilesInOrder, Planned
  <2>5. WorkIsPlanned'
    <3>1. t # None /\ work' # Idle
      BY <2>3, NoneAside DEF Idle
    <3> QED
      BY <2>1, <2>2, <2>3, <3>1 DEF WorkIsPlanned, IdleFields, Consumed, Planned
  <2> QED
    BY <1>0, <2>1, <2>2, <2>3, <2>4, <2>5 DEF Sound, Typed
<1>3. CASE Consume(t)
  <2>1. /\ work.txn = t /\ work.at = "consume" /\ files' = [files EXCEPT ![t].consumed = TRUE]
        /\ work' = [work EXCEPT !.at = "check"] /\ quiet' = TRUE
        /\ UNCHANGED <<manifest, log, plans, cleared, revoked, torn, edits>>
    BY <1>3 DEF Consume, GetsToWork, At
  <2>2. Planned(t) /\ files[t].intent /\ files[t].receipt = "none" /\ t # None
    BY <2>1, AtWork
  <2>3. /\ files' \in [Txns -> FileType]
        /\ files'[t].intent /\ files'[t].consumed /\ files'[t].receipt = "none"
        /\ \A u \in Txns : u # t => files'[u] = files[u]
    BY <1>0, <2>1, <2>2 DEF Typed, FileType
  <2>4. /\ work' \in WorkType /\ work'.txn = t /\ work'.at = "check"
        /\ work'.scene = None /\ work'.outcome = "none"
    BY <1>0, <2>1 DEF Typed, WorkType, Places, WorkIsPlanned
  <2>5. FilesInOrder'
    BY <1>0, <2>1, <2>2, <2>3 DEF FilesInOrder, Planned
  <2>6. WorkIsPlanned'
    <3>1. work' # Idle
      BY <2>4 DEF Idle
    <3> QED
      BY <2>1, <2>2, <2>3, <2>4, <3>1 DEF WorkIsPlanned, Consumed, Planned
  <2> QED
    BY <1>0, <2>1, <2>3, <2>4, <2>5, <2>6 DEF Sound, Typed
<1>4. CASE Record(t)
  <2>1. /\ work.txn = t /\ work.at = "record" /\ files' = [files EXCEPT ![t].receipt = work.outcome]
        /\ log' = Append(log, t) /\ work' = Idle
        /\ UNCHANGED <<manifest, plans, cleared, revoked, torn, edits, quiet>>
    BY <1>4 DEF Record, At
  <2>2. files[t].consumed
    BY <2>1, AtWork DEF Consumed
  <2>3. /\ files' \in [Txns -> FileType]
        /\ \A u \in Txns : files'[u].consumed = files[u].consumed /\ files'[u].intent = files[u].intent
        /\ \A u \in Txns : u # t => files'[u] = files[u]
    BY <1>0, <2>1 DEF Typed, FileType, WorkType
  <2>4. log' \in Seq(Txns)
    BY <1>0, <2>1 DEF Typed
  <2>5. FilesInOrder'
    BY <1>0, <2>1, <2>2, <2>3 DEF FilesInOrder, Planned
  <2>6. WorkIsPlanned'
    BY <2>1 DEF WorkIsPlanned, Idle
  <2> QED
    BY <1>0, <2>1, <2>3, <2>4, <2>5, <2>6, IdleTyped DEF Sound, Typed
<1>5. CASE Resume(t)
  <2>1. /\ work = Idle /\ files[t].consumed /\ files[t].receipt = "none" /\ work' = Undo(t) /\ quiet' = TRUE
        /\ UNCHANGED <<manifest, files, log, plans, cleared, revoked, torn, edits>>
    BY <1>5 DEF Resume, GetsToWork, LockFree, Interrupted
  <2>2. files[t].intent /\ Planned(t)
    BY <1>0, <2>1 DEF FilesInOrder
  <2>3. GoesWell(work', t)
    BY <2>1, <2>2, UndoWell
  <2>4. WorkIsPlanned'
    <3>1. t # None /\ work'.at # "idle" /\ work' # Idle
      BY <2>3, NoneAside DEF GoesWell, Consumed, Idle
    <3> QED
      BY <2>1, <2>2, <2>3, <3>1 DEF GoesWell, WorkIsPlanned, Planned
  <2> QED
    BY <1>0, <2>1, <2>3, <2>4 DEF Sound, Typed, FilesInOrder, GoesWell, Planned
<1> QED
  BY <1>1, <1>2, <1>3, <1>4, <1>5 DEF Command, Working

-----------------------------------------------------------------------------
(* Steps beside the commands.                                              *)

LEMMA EditSound ==
  ASSUME Sound, NEW s \in Scenes, NEW c \in Contents, Edit(s, c)
  PROVE  /\ Sound'
         /\ work'.txn = work.txn /\ work'.at = work.at /\ work'.scene = work.scene
         /\ work'.outcome = work.outcome /\ work'.ok = work.ok
         /\ work'.raced = (work.raced \/ work.scene = s)
<1>0. Typed /\ WorkIsPlanned
  BY DEF Sound
<1>1. /\ work' \in WorkType
      /\ work'.txn = work.txn /\ work'.at = work.at /\ work'.scene = work.scene /\ work'.left = work.left
      /\ work'.outcome = work.outcome /\ work'.ok = work.ok
      /\ work'.raced = (work.raced \/ work.scene = s)
  BY <1>0 DEF Edit, Typed, WorkType
<1>2. work = Idle => work' = Idle
  <2> SUFFICES ASSUME work = Idle PROVE work' = work
    OBVIOUS
  <2>1. work.scene # s /\ work.raced = FALSE
    BY NoneAside DEF Idle
  <2>2. work'.raced = FALSE
    BY <1>1, <2>1
  <2> QED
    BY <1>0, <1>1, <2>1, <2>2 DEF Typed, WorkType
<1>3. work.txn # None => work' # Idle
  BY <1>1 DEF Idle
<1>4. WorkIsPlanned'
  BY <1>0, <1>1, <1>2, <1>3 DEF WorkIsPlanned, Edit, Planned
<1>5. manifest' \in Routings /\ edits' \in 0..MaxEdits /\ quiet' \in BOOLEAN
  <2>1. manifest' \in Routings
    BY <1>0 DEF Edit, Typed, Routings
  <2>2. edits' \in 0..MaxEdits /\ quiet' \in BOOLEAN
    <3>1. edits \in 0..MaxEdits /\ edits < MaxEdits /\ edits' = edits + 1
      BY <1>0 DEF Edit, Typed
    <3>2. quiet' = FALSE
      BY DEF Edit
    <3>3. edits' \in 0..MaxEdits
      BY <3>1, ConstantsAssumption
    <3> QED
      BY <3>2, <3>3
  <2> QED
    BY <2>1, <2>2
<1> QED
  BY <1>0, <1>1, <1>4, <1>5 DEF Edit, Sound, Typed, FilesInOrder, Planned

LEMMA AbandonSound ==
  ASSUME Sound, Abandon
  PROVE  Sound'
<1>1. work' = Idle /\ UNCHANGED <<manifest, plans, files, log, cleared, revoked, edits, quiet>>
  BY DEF Abandon
<1>2. torn' \subseteq Txns
  <2>1. work.txn \in Txns
    BY DEF Abandon, LockFree, Sound, WorkIsPlanned, Typed, WorkType
  <2> QED
    BY <2>1 DEF Abandon, Sound, Typed
<1>3. WorkIsPlanned'
  BY <1>1 DEF WorkIsPlanned, Idle
<1> QED
  BY <1>1, <1>2, <1>3, IdleTyped DEF Sound, Typed, FilesInOrder, Planned

LEMMA ClearanceSound ==
  ASSUME Sound, NEW t \in Recoveries, Clear(t) \/ Revoke(t)
  PROVE  Sound'
<1>1. UNCHANGED <<manifest, plans, files, log, work, torn, edits, quiet>>
  BY DEF Clear, Revoke
<1>2. cleared' \subseteq Recoveries /\ revoked' \subseteq cleared'
  <2>1. CASE Clear(t)
    BY <2>1 DEF Clear, Sound, Typed
  <2>2. CASE Revoke(t)
    <3>1. Latest \in cleared
      BY <2>2 DEF Revoke, Gate
    <3> QED
      BY <2>2, <3>1 DEF Revoke, Sound, Typed
  <2> QED
    BY <2>1, <2>2
<1> QED
  BY <1>1, <1>2 DEF Sound, Typed, FilesInOrder, WorkIsPlanned, Planned

LEMMA SoundNext == Sound /\ [Next]_vars => Sound'
<1> SUFFICES ASSUME Sound, [Next]_vars PROVE Sound'
  OBVIOUS
<1>1. CASE UNCHANGED vars
  BY <1>1 DEF vars, Sound, Typed, FilesInOrder, WorkIsPlanned, Planned
<1> QED
  BY <1>1, PlanSteps, PlanSound, CommandSound, EditSound, AbandonSound, ClearanceSound DEF Next, Txns

(* Types; the lock is held by a transaction that has a plan; a receipt     *)
(* follows a consumption, which follows an intent.                         *)
THEOREM TypeCorrect == Spec => []TypeOK
<1>1. Spec => []Sound
  BY InitSound, SoundNext, PTL DEF Spec
<1> QED
  BY <1>1, SoundTypeOK, PTL

-----------------------------------------------------------------------------
(* Edits survive.  Between the look at a manifest and the writing of it a  *)
(* command knows what stands there, unless it was edited since.            *)
KnowsTheScene ==
    ~work.raced => /\ work.at = "replace" => manifest[work.scene] = From(work.txn, work.scene)
                   /\ work.at = "unreplace" => manifest[work.scene] = To(work.txn, work.scene)

LEMMA KnowsNext == Sound /\ KnowsTheScene /\ [Next]_vars => KnowsTheScene'
<1> SUFFICES ASSUME Sound, KnowsTheScene, [Next]_vars PROVE KnowsTheScene'
  OBVIOUS
<1>0. Typed /\ WorkIsPlanned
  BY DEF Sound
<1>1. ASSUME NEW t \in Txns, GetsPlan(t) PROVE KnowsTheScene'
  <2>1. work.txn # None => work.txn \in Txns /\ work.txn # t
    BY <1>0, <1>1 DEF Typed, WorkType, WorkIsPlanned, GetsPlan
  <2>2. work.at \in {"replace", "unreplace"} => plans'[work.txn] = plans[work.txn]
    BY <1>0, <1>1, <2>1 DEF GetsPlan, WorkIsPlanned, Typed
  <2> QED
    BY <1>1, <2>2 DEF GetsPlan, KnowsTheScene, From, To
<1>2. ASSUME NEW t \in Txns, NEW s \in Scenes, Check(t, s) PROVE KnowsTheScene'
  <2>1. UNCHANGED <<plans, manifest>> /\ work.txn = t /\ work.at = "check"
    BY <1>2 DEF Check, GoesOn, At
  <2>2. CASE manifest[s] = From(t, s)
    <3>1. work'.at = "replace" /\ work'.scene = s /\ work'.txn = t
      BY <1>0, <1>2, <2>1, <2>2 DEF Check, GoesOn, Typed, WorkType
    <3> QED
      BY <2>1, <2>2, <3>1 DEF KnowsTheScene, From
  <2>3. CASE manifest[s] # From(t, s)
    <3>1. work'.at = "undo"
      BY <1>2, <2>1, <2>3, AtWork, WorkFields DEF Check, GoesOn, Undo, Places
    <3> QED
      BY <3>1 DEF KnowsTheScene
  <2> QED
    BY <2>2, <2>3
<1>3. ASSUME NEW t \in Txns, NEW s \in Scenes, UndoCheck(t, s) PROVE KnowsTheScene'
  <2>1. UNCHANGED <<plans, manifest>> /\ work.txn = t /\ work.at = "undo"
    BY <1>3 DEF UndoCheck, GoesOn, At
  <2>2. CASE /\ work' = [work EXCEPT !.at = "unreplace", !.scene = s]
             /\ manifest[s] = To(t, s)
    <3>1. work'.at = "unreplace" /\ work'.scene = s /\ work'.txn = t
      BY <1>0, <2>1, <2>2 DEF Typed, WorkType
    <3> QED
      BY <2>1, <2>2, <3>1 DEF KnowsTheScene, To
  <2>3. CASE work' = Passed(s) \/ work' = NotPassed(s)
    <3>1. work'.at = "undo"
      BY <1>0, <2>1, <2>3 DEF Passed, NotPassed, Typed, WorkType
    <3> QED
      BY <3>1 DEF KnowsTheScene
  <2> QED
    BY <1>3, <2>2, <2>3 DEF UndoCheck, GoesOn
<1>4. ASSUME NEW t \in Txns, Replace(t) \/ Preflight(t) \/ Unreplace(t) \/ Confirm(t) \/ Begin(t) \/ Consume(t)
                                 \/ Record(t) \/ Resume(t)
      PROVE  KnowsTheScene'
  <2>1. work'.at \notin {"replace", "unreplace"}
    <3>1. CASE Replace(t) \/ Preflight(t)
      <4>1. work.txn = t
        BY <3>1 DEF Replace, Preflight
      <4>2. Undo(t).at = "undo"
        BY <4>1, AtWork, WorkFields DEF Undo, Places
      <4> QED
        BY <1>0, <3>1, <4>2 DEF Replace, Preflight, GoesOn, Idle, Typed, WorkType
    <3>2. CASE Unreplace(t) \/ Confirm(t) \/ Consume(t)
      <4>1. CASE Unreplace(t)
        BY <1>0, <4>1 DEF Unreplace, GoesOn, Passed, NotPassed, Typed, WorkType
      <4>2. CASE Confirm(t)
        <5>1. \E outcome \in Outcomes : work' = [work EXCEPT !.at = "record", !.outcome = outcome]
          BY <4>2 DEF Confirm, GoesOn, Outcomes
        <5>2. work \in WorkType
          BY <1>0 DEF Typed
        <5> QED
          BY <5>1, <5>2 DEF WorkType
      <4>3. CASE Consume(t)
        BY <1>0, <4>3 DEF Consume, GetsToWork, Typed, WorkType
      <4> QED
        BY <3>2, <4>1, <4>2, <4>3
    <3>3. CASE Begin(t) \/ Resume(t)
      BY <3>3 DEF Begin, Resume, GoesOn, GetsToWork, Undo, Work, Idle
    <3>4. CASE Record(t)
      BY <3>4 DEF Record, Idle
    <3> QED
      BY <1>4, <3>1, <3>2, <3>3, <3>4
  <2> QED
    BY <2>1 DEF KnowsTheScene
<1>5. ASSUME NEW s \in Scenes, NEW c \in Contents, Edit(s, c) PROVE KnowsTheScene'
  <2>1. /\ work'.txn = work.txn /\ work'.at = work.at /\ work'.scene = work.scene
        /\ work'.raced = (work.raced \/ work.scene = s)
    BY <1>5, EditSound
  <2>2. UNCHANGED plans /\ \A r \in Scenes : r # s => manifest'[r] = manifest[r]
    BY <1>0, <1>5 DEF Edit, Typed, Routings
  <2>3. work.at \in {"replace", "unreplace"} => work.scene \in Scenes
    BY <1>0 DEF WorkIsPlanned, Typed, WorkType
  <2>4. ~work'.raced => ~work.raced /\ work.scene # s
    BY <2>1
  <2> QED
    BY <2>1, <2>2, <2>3, <2>4 DEF KnowsTheScene, From, To
<1>6. CASE Abandon
  BY <1>6 DEF Abandon, Idle, KnowsTheScene
<1>7. ASSUME NEW t \in Recoveries, Clear(t) \/ Revoke(t) PROVE KnowsTheScene'
  BY <1>7 DEF Clear, Revoke, KnowsTheScene, From, To
<1>8. CASE UNCHANGED vars
  BY <1>8 DEF vars, KnowsTheScene, From, To
<1> QED
  BY <1>1, <1>2, <1>3, <1>4, <1>5, <1>6, <1>7, <1>8, PlanSteps DEF Next, Txns, Command

(* Who writes manifests.                                                   *)
LEMMA Writers ==
  ASSUME Sound, [Next]_vars, manifest' # manifest
  PROVE  \/ edits' # edits
         \/ \E t \in Txns : /\ work.txn = t /\ work.scene \in Scenes
                           /\ \/ /\ work.at = "replace"
                                 /\ manifest' = [manifest EXCEPT ![work.scene] = To(t, work.scene)]
                              \/ /\ work.at = "unreplace"
                                 /\ manifest' = [manifest EXCEPT ![work.scene] = From(t, work.scene)]
<1>0. Typed /\ WorkIsPlanned
  BY DEF Sound
<1>1. ASSUME NEW s \in Scenes, NEW c \in Contents, Edit(s, c) PROVE edits' # edits
  BY <1>0, <1>1, ConstantsAssumption DEF Edit, Typed
<1>2. ASSUME NEW t \in Txns, Replace(t) \/ Unreplace(t)
      PROVE  /\ work.txn = t /\ work.scene \in Scenes
             /\ \/ /\ work.at = "replace"
                   /\ manifest' = [manifest EXCEPT ![work.scene] = To(t, work.scene)]
                \/ /\ work.at = "unreplace"
                   /\ manifest' = [manifest EXCEPT ![work.scene] = From(t, work.scene)]
  BY <1>0, <1>2 DEF Replace, Unreplace, At, Typed, WorkType, WorkIsPlanned
<1>3. ASSUME NEW t \in Txns, Begin(t) \/ Consume(t) \/ Preflight(t) \/ Record(t) \/ Resume(t) \/ Confirm(t)
                                 \/ \E s \in Scenes : Check(t, s) \/ UndoCheck(t, s)
      PROVE  FALSE
  BY <1>3 DEF Begin, Consume, Preflight, Record, Resume, Confirm, Check, UndoCheck
<1>4. ASSUME NEW t \in Txns, GetsPlan(t) PROVE FALSE
  BY <1>4 DEF GetsPlan
<1>5. ASSUME Abandon \/ UNCHANGED vars \/ \E t \in Recoveries : Clear(t) \/ Revoke(t) PROVE FALSE
  BY <1>5 DEF Abandon, vars, Clear, Revoke
<1> QED
  BY <1>1, <1>2, <1>3, <1>4, <1>5, PlanSteps DEF Next, Txns, Command

(* A command writes over nothing but what its plan has named, except for   *)
(* what was edited after it had looked.                                    *)
THEOREM EditsSurviveHolds == Spec => EditsSurvive
<1>1. Init => KnowsTheScene
  BY DEF Init, Idle, KnowsTheScene
<1>2. Sound /\ KnowsTheScene /\ [Next]_vars =>
        [\A t \in Txns, s \in Scenes : Overwrites(t, s) => manifest[s] \in {From(t, s), To(t, s)}]_vars
  <2> SUFFICES ASSUME Sound, KnowsTheScene, [Next]_vars, NEW t \in Txns, NEW s \in Scenes, Overwrites(t, s)
               PROVE  manifest[s] \in {From(t, s), To(t, s)}
    OBVIOUS
  <2>1. manifest' # manifest /\ edits' = edits /\ work.txn = t /\ work.scene = s /\ ~work.raced
    BY DEF Overwrites
  <2>2. work.at \in {"replace", "unreplace"}
    BY <2>1, Writers
  <2> QED
    BY <2>1, <2>2 DEF KnowsTheScene
<1> QED
  BY <1>1, <1>2, InitSound, SoundNext, KnowsNext, PTL DEF Spec, EditsSurvive

-----------------------------------------------------------------------------
(* An interrupted transaction only goes back.                              *)
TornGoesBack ==
    \A t \in torn : /\ files[t].consumed
                    /\ work.txn = t => work.at \in {"undo", "unreplace", "record"} /\ work.outcome # "done"

LEMMA TornNext == Sound /\ TornGoesBack /\ [Next]_vars => TornGoesBack'
<1> SUFFICES ASSUME Sound, TornGoesBack, [Next]_vars PROVE TornGoesBack'
  OBVIOUS
<1>0. Typed /\ WorkIsPlanned /\ torn \subseteq Txns
  BY DEF Sound, Typed
<1>1. ASSUME NEW t \in Txns, Replace(t) \/ Preflight(t) \/ \E s \in Scenes : Check(t, s) PROVE TornGoesBack'
  <2>1. work.txn = t /\ work.at \in {"replace", "preflight", "check"} /\ UNCHANGED <<files, torn>>
    BY <1>1 DEF Replace, Preflight, Check, GoesOn, At
  <2>2. work'.txn = t
    BY <1>1, WorkingWell DEF Working, GoesWell
  <2> QED
    BY <2>1, <2>2 DEF TornGoesBack
<1>2. ASSUME NEW t \in Txns, Unreplace(t) \/ Confirm(t) \/ \E s \in Scenes : UndoCheck(t, s) PROVE TornGoesBack'
  <2>1. work.txn = t /\ work.at \in {"undo", "unreplace"} /\ UNCHANGED <<files, torn>>
    BY <1>2 DEF Unreplace, Confirm, UndoCheck, GoesOn, At
  <2>2. work'.txn = t
    BY <1>2, WorkingWell DEF Working, GoesWell
  <2>3. work'.at \in {"undo", "unreplace", "record"} /\ work'.outcome # "done"
    <3>1. CASE Unreplace(t)
      <4>1. work'.at = "undo" /\ work'.outcome = work.outcome
        BY <1>0, <3>1 DEF Unreplace, GoesOn, Passed, NotPassed, Typed, WorkType
      <4> QED
        BY <1>0, <2>1, <4>1 DEF WorkIsPlanned
    <3>2. CASE Confirm(t)
      BY <1>0, <3>2 DEF Confirm, GoesOn, Typed, WorkType
    <3>3. ASSUME NEW s \in Scenes, UndoCheck(t, s)
          PROVE  work'.at \in {"undo", "unreplace"} /\ work'.outcome = work.outcome
      <4>1. work.at = "undo" /\ \/ work' = [work EXCEPT !.at = "unreplace", !.scene = s]
                                \/ work' = Passed(s)
                                \/ work' = NotPassed(s)
        BY <3>3 DEF UndoCheck, GoesOn, At
      <4> QED
        BY <1>0, <4>1 DEF Passed, NotPassed, Typed, WorkType
    <3> QED
      BY <1>0, <1>2, <2>1, <3>1, <3>2, <3>3 DEF WorkIsPlanned
  <2> QED
    BY <2>1, <2>2, <2>3 DEF TornGoesBack
<1>3. ASSUME NEW t \in Txns, Begin(t) PROVE TornGoesBack'
  <2>1. ~files[t].consumed /\ work'.txn = t /\ UNCHANGED torn
    BY <1>3 DEF Begin, GoesOn, Work, Idle
  <2>2. \A u \in Txns : files'[u].consumed = files[u].consumed
    BY <1>0, <1>3 DEF Begin, Typed, FileType
  <2> QED
    BY <1>0, <2>1, <2>2 DEF TornGoesBack
<1>4. ASSUME NEW t \in Txns, Consume(t) PROVE TornGoesBack'
  <2>1. work.txn = t /\ work'.txn = t /\ UNCHANGED torn /\ work.at = "consume"
    BY <1>0, <1>4 DEF Consume, GetsToWork, At, Typed, WorkType
  <2>2. \A u \in Txns : files[u].consumed => files'[u].consumed
    BY <1>0, <1>4 DEF Consume, Typed, FileType
  <2> QED
    BY <1>0, <2>1, <2>2 DEF TornGoesBack
<1>5. ASSUME NEW t \in Txns, Record(t) PROVE TornGoesBack'
  <2>1. work'.txn = None /\ UNCHANGED torn
    BY <1>5 DEF Record, Idle
  <2>2. \A u \in Txns : files'[u].consumed = files[u].consumed
    BY <1>0, <1>5 DEF Record, Typed, FileType
  <2> QED
    BY <1>0, <2>1, <2>2, NoneAside DEF TornGoesBack
<1>6. ASSUME NEW t \in Txns, Resume(t) PROVE TornGoesBack'
  <2>1. work'.at = "undo" /\ work'.outcome = "none" /\ UNCHANGED <<files, torn>>
    BY <1>6 DEF Resume, GetsToWork, Undo, Work, Idle
  <2> QED
    BY <2>1 DEF TornGoesBack
<1>7. CASE Abandon
  <2>1. work'.txn = None /\ UNCHANGED files /\ torn' \subseteq Txns
    BY <1>7, AbandonSound DEF Abandon, Idle, Sound, Typed
  <2>2. \A u \in torn' : files[u].consumed
    BY <1>7 DEF Abandon, TornGoesBack
  <2> QED
    BY <2>1, <2>2, NoneAside DEF TornGoesBack
<1>8. ASSUME NEW s \in Scenes, NEW c \in Contents, Edit(s, c) PROVE TornGoesBack'
  BY <1>8, EditSound DEF Edit, TornGoesBack
<1>9. ASSUME UNCHANGED <<files, work, torn>> PROVE TornGoesBack'
  BY <1>9 DEF TornGoesBack
<1>10. ASSUME \/ \E t \in Txns : GetsPlan(t)
              \/ \E t \in Recoveries : Clear(t) \/ Revoke(t)
              \/ UNCHANGED vars
       PROVE  UNCHANGED <<files, work, torn>>
  BY <1>10 DEF GetsPlan, Clear, Revoke, vars
<1> QED
  BY <1>1, <1>2, <1>3, <1>4, <1>5, <1>6, <1>7, <1>8, <1>9, <1>10, PlanSteps DEF Next, Txns, Command

(* Receipts are written at the end of a command.                           *)
LEMMA Receipts ==
  ASSUME Sound, [Next]_vars, NEW t \in Txns, files'[t].receipt # files[t].receipt
  PROVE  work.txn = t /\ Record(t) /\ files'[t].receipt = work.outcome
<1>0. files \in [Txns -> FileType]
  BY DEF Sound, Typed
<1>1. ASSUME NEW u \in Txns, Record(u) PROVE u = t /\ work.txn = t /\ files'[t].receipt = work.outcome
  BY <1>0, <1>1 DEF Record, FileType
<1>2. ASSUME NEW u \in Txns, Begin(u) \/ Consume(u) PROVE FALSE
  BY <1>0, <1>2 DEF Begin, Consume, FileType
<1>3. ASSUME NEW u \in Txns, Working(u) \/ Resume(u) PROVE FALSE
  BY <1>3, WorkingWell DEF Resume
<1>4. ASSUME NEW u \in Txns, GetsPlan(u) PROVE FALSE
  BY <1>4 DEF GetsPlan
<1>5. ASSUME \/ Abandon
             \/ \E u \in Recoveries : Clear(u) \/ Revoke(u)
             \/ \E s \in Scenes, c \in Contents : Edit(s, c)
             \/ UNCHANGED vars
      PROVE  FALSE
  BY <1>5 DEF Abandon, Clear, Revoke, Edit, vars
<1> QED
  BY <1>1, <1>2, <1>3, <1>4, <1>5, PlanSteps DEF Next, Txns, Command, Working

(* Once a transaction was interrupted after it had consumed its approval,  *)
(* it never leads forward again, and every receipt it gets says so.        *)
THEOREM AppliedOnceHolds == Spec => AppliedOnce
<1>1. Init => TornGoesBack
  BY DEF Init, TornGoesBack
<1>2. Sound /\ TornGoesBack /\ [Next]_vars =>
        [\A t \in torn : /\ \A s \in Scenes : Overwrites(t, s) => manifest'[s] = From(t, s)
                         /\ files'[t].receipt = "done" => files[t].receipt = "done"]_vars
  <2> SUFFICES ASSUME Sound, TornGoesBack, [Next]_vars, NEW t \in torn
               PROVE  /\ \A s \in Scenes : Overwrites(t, s) => manifest'[s] = From(t, s)
                      /\ files'[t].receipt = "done" => files[t].receipt = "done"
    OBVIOUS
  <2>0. t \in Txns /\ manifest \in Routings
    BY DEF Sound, Typed
  <2>1. ASSUME NEW s \in Scenes, Overwrites(t, s) PROVE manifest'[s] = From(t, s)
    <3>1. manifest' # manifest /\ edits' = edits /\ work.txn = t /\ work.scene = s
      BY <2>1 DEF Overwrites
    <3>2. work.at # "replace"
      BY <3>1 DEF TornGoesBack
    <3>3. manifest' = [manifest EXCEPT ![s] = From(t, s)]
      BY <3>1, <3>2, Writers
    <3> QED
      BY <2>0, <3>3 DEF Routings
  <2>2. ASSUME files'[t].receipt = "done" PROVE files[t].receipt = "done"
    BY <2>0, <2>2, Receipts DEF TornGoesBack
  <2> QED
    BY <2>1, <2>2
<1> QED
  BY <1>1, <1>2, InitSound, SoundNext, TornNext, PTL DEF Spec, AppliedOnce

-----------------------------------------------------------------------------
(* The last receipt is true.  When a command is about to leave a receipt,  *)
(* the manifests are what this says, and they stay so until the next       *)
(* command has consumed.                                                   *)
ReceiptWillBeTrue ==
    quiet /\ work.at = "record" =>
       /\ work.outcome = "done" => manifest = plans[work.txn].goal
       /\ work.outcome = "undone" => PlanCurrent(work.txn)

LogHasReceipts == \A i \in DOMAIN log : files[log[i]].receipt # "none"

ReceiptIsTrue ==
    quiet /\ work.at \in {"idle", "consume"} /\ log # <<>> /\ (\A t \in Txns : ~Interrupted(t))
       => Vouched(log[Len(log)])

Truth == ReceiptWillBeTrue /\ LogHasReceipts /\ ReceiptIsTrue

LEMMA LastLogged == Sound /\ log # <<>> => log[Len(log)] \in Txns /\ Len(log) \in DOMAIN log
  BY DEF Sound, Typed

LEMMA LoggedIsPlanned ==
  ASSUME Sound, LogHasReceipts, log # <<>>
  PROVE  log[Len(log)] \in Txns /\ Planned(log[Len(log)])
  BY LastLogged DEF Sound, FilesInOrder, LogHasReceipts

(* Steps that change none of what a receipt speaks of.                     *)
LEMMA VouchedStays ==
  ASSUME NEW t \in Txns, UNCHANGED manifest, plans'[t] = plans[t], files'[t].receipt = files[t].receipt, Vouched(t)
  PROVE  Vouched(t)'
  BY DEF Vouched, PlanCurrent, TargetsCurrent, From

LEMMA LogNext == Sound /\ LogHasReceipts /\ [Next]_vars => LogHasReceipts'
<1> SUFFICES ASSUME Sound, LogHasReceipts, [Next]_vars PROVE LogHasReceipts'
  OBVIOUS
<1>0. files \in [Txns -> FileType] /\ log \in Seq(Txns) /\ work \in WorkType
  BY DEF Sound, Typed
<1>1. ASSUME NEW t \in Txns, Record(t) PROVE LogHasReceipts'
  <2>1. log' = Append(log, t) /\ work.outcome # "none" /\ files' = [files EXCEPT ![t].receipt = work.outcome]
    BY <1>1 DEF Record, At, Sound, WorkIsPlanned
  <2>2. \A u \in Txns : files[u].receipt # "none" \/ u = t => files'[u].receipt # "none"
    BY <1>0, <2>1 DEF FileType
  <2>3. \A i \in DOMAIN log' : \/ i \in DOMAIN log /\ log'[i] = log[i]
                               \/ log'[i] = t
    BY <1>0, <2>1
  <2>4. \A i \in DOMAIN log : log[i] \in Txns
    BY <1>0
  <2> QED
    BY <2>2, <2>3, <2>4 DEF LogHasReceipts
<1>2. ASSUME ~(\E t \in Txns : Record(t)) PROVE LogHasReceipts'
  <2>1. UNCHANGED log
    BY <1>2, PlanSteps, WorkingWell
    DEF Next, Txns, Command, Working, GetsPlan, Begin, Consume, Resume, Abandon, Clear, Revoke, Edit, vars
  <2>2. \A t \in Txns : files'[t].receipt = files[t].receipt
    BY <1>2, Receipts
  <2>3. \A i \in DOMAIN log : log[i] \in Txns
    BY <1>0
  <2> QED
    BY <2>1, <2>2, <2>3 DEF LogHasReceipts
<1> QED
  BY <1>1, <1>2

LEMMA TruthNext == Sound /\ Truth /\ [Next]_vars => Truth'
<1> SUFFICES ASSUME Sound, Truth, [Next]_vars PROVE ReceiptWillBeTrue' /\ ReceiptIsTrue'
  BY LogNext DEF Truth
<1>0. /\ Typed /\ WorkIsPlanned /\ FilesInOrder
      /\ ReceiptWillBeTrue /\ ReceiptIsTrue /\ LogHasReceipts
  BY DEF Sound, Truth
<1>1. ASSUME NEW t \in Txns, GetsPlan(t) PROVE ReceiptWillBeTrue' /\ ReceiptIsTrue'
  <2>1. /\ UNCHANGED <<manifest, files, log, work, quiet>>
        /\ \A u \in Txns : Planned(u) => plans'[u] = plans[u]
    BY <1>0, <1>1 DEF GetsPlan, Typed
  <2>2. ReceiptIsTrue'
    <3> SUFFICES ASSUME quiet, work.at \in {"idle", "consume"}, log # <<>>, \A u \in Txns : ~Interrupted(u)
                 PROVE  Vouched(log[Len(log)])'
      BY <2>1 DEF ReceiptIsTrue, Interrupted
    <3>1. log[Len(log)] \in Txns /\ Planned(log[Len(log)]) /\ Vouched(log[Len(log)])
      BY <1>0, LoggedIsPlanned DEF ReceiptIsTrue
    <3> QED
      BY <2>1, <3>1, VouchedStays
  <2>3. ReceiptWillBeTrue'
    <3> SUFFICES ASSUME quiet, work.at = "record"
                 PROVE  /\ work.outcome = "done" => manifest = plans'[work.txn].goal
                        /\ work.outcome = "undone" => PlanCurrent(work.txn)'
      BY <2>1 DEF ReceiptWillBeTrue
    <3>1. work.txn \in Txns /\ Planned(work.txn)
      BY <1>0 DEF Typed, WorkType, WorkIsPlanned
    <3> QED
      BY <1>0, <2>1, <3>1 DEF ReceiptWillBeTrue, PlanCurrent, TargetsCurrent, From
  <2> QED
    BY <2>2, <2>3
<1>2. ASSUME NEW t \in Txns, Begin(t) PROVE ReceiptWillBeTrue' /\ ReceiptIsTrue'
  <2>1. /\ work'.at = "consume" /\ work'.txn = t /\ work.at = "idle" /\ work.txn = None
        /\ ~files[t].consumed /\ UNCHANGED <<manifest, plans, log, quiet>>
    BY <1>2 DEF Begin, GoesOn, LockFree, Work, Idle
  <2>2. \A u \in Txns : files'[u].receipt = files[u].receipt /\ files'[u].consumed = files[u].consumed
    BY <1>0, <1>2 DEF Begin, Typed, FileType
  <2>3. (\A u \in Txns : ~Interrupted(u)') => \A u \in Txns : ~Interrupted(u)
    BY <2>1, <2>2 DEF Interrupted
  <2>4. ReceiptIsTrue'
    <3> SUFFICES ASSUME quiet, log # <<>>, \A u \in Txns : ~Interrupted(u)
                 PROVE  Vouched(log[Len(log)])'
      BY <2>1, <2>3 DEF ReceiptIsTrue
    <3>1. log[Len(log)] \in Txns /\ Vouched(log[Len(log)])
      BY <1>0, <2>1, LastLogged DEF ReceiptIsTrue
    <3> QED
      BY <2>1, <2>2, <3>1, VouchedStays
  <2> QED
    BY <2>1, <2>4 DEF ReceiptWillBeTrue
<1>3. ASSUME NEW t \in Txns, Preflight(t) \/ Confirm(t) PROVE ReceiptWillBeTrue' /\ ReceiptIsTrue'
  <2>1. work.txn = t /\ UNCHANGED <<manifest, plans, quiet>> /\ work'.at \in Consumed /\ work'.txn = t
    BY <1>3, WorkingWell DEF Working, Preflight, Confirm, GoesWell
  <2>2. work'.at = "record" => \/ work'.outcome = "done" /\ manifest = plans[t].goal
                               \/ work'.outcome = "undone" /\ PlanCurrent(t)
                               \/ work'.outcome = "failed"
    <3>1. CASE Preflight(t)
      <4>1. Undo(t).at = "undo"
        BY <2>1, AtWork, WorkFields DEF Undo, Places
      <4> QED
        BY <1>0, <3>1, <4>1 DEF Preflight, GoesOn, Typed, WorkType
    <3>2. CASE Confirm(t)
      BY <1>0, <3>2 DEF Confirm, GoesOn, Typed, WorkType
    <3> QED
      BY <1>3, <3>1, <3>2
  <2>3. PlanCurrent(t) => PlanCurrent(t)'
    BY <2>1 DEF PlanCurrent, TargetsCurrent, From
  <2> QED
    BY <2>1, <2>2, <2>3 DEF ReceiptWillBeTrue, ReceiptIsTrue, Consumed
<1>4. ASSUME NEW t \in Txns, \/ Consume(t) \/ Resume(t) \/ Replace(t) \/ Unreplace(t)
                           \/ \E s \in Scenes : Check(t, s) \/ UndoCheck(t, s)
      PROVE  ReceiptWillBeTrue' /\ ReceiptIsTrue'
  <2>1. work'.at \in Consumed \ {"record"}
    <3>1. CASE Consume(t)
      BY <1>0, <3>1 DEF Consume, GetsToWork, Typed, WorkType, Consumed
    <3>2. CASE Resume(t)
      BY <3>2 DEF Resume, GetsToWork, Undo, Work, Idle, Consumed
    <3>3. CASE Replace(t) \/ \E s \in Scenes : Check(t, s)
      <4>1. work.txn = t
        BY <3>3 DEF Replace, Check
      <4>2. Undo(t).at = "undo"
        BY <4>1, AtWork, WorkFields DEF Undo, Places
      <4> QED
        BY <1>0, <3>3, <4>2 DEF Replace, Check, GoesOn, Idle, Typed, WorkType, Consumed
    <3>4. CASE Unreplace(t)
      BY <1>0, <3>4 DEF Unreplace, GoesOn, Passed, NotPassed, Typed, WorkType, Consumed
    <3>5. ASSUME NEW s \in Scenes, UndoCheck(t, s) PROVE work'.at \in {"undo", "unreplace"}
      <4>1. work.at = "undo" /\ \/ work' = [work EXCEPT !.at = "unreplace", !.scene = s]
                                \/ work' = Passed(s)
                                \/ work' = NotPassed(s)
        BY <3>5 DEF UndoCheck, GoesOn, At
      <4> QED
        BY <1>0, <4>1 DEF Passed, NotPassed, Typed, WorkType
    <3> QED
      BY <1>4, <3>1, <3>2, <3>3, <3>4, <3>5 DEF Consumed
  <2> QED
    BY <2>1 DEF ReceiptWillBeTrue, ReceiptIsTrue, Consumed
<1>5. ASSUME NEW t \in Txns, Record(t) PROVE ReceiptWillBeTrue' /\ ReceiptIsTrue'
  <2>1. /\ work.txn = t /\ work.at = "record" /\ log' = Append(log, t) /\ work' = Idle
        /\ UNCHANGED <<manifest, plans, quiet>>
    BY <1>5 DEF Record, At
  <2>2. files'[t].receipt = work.outcome
    BY <1>0, <1>5 DEF Record, Typed, FileType
  <2>3. log'[Len(log')] = t
    BY <1>0, <2>1 DEF Typed
  <2>4. quiet => Vouched(t)'
    <3> SUFFICES ASSUME quiet PROVE Vouched(t)'
      OBVIOUS
    <3>1. /\ work.outcome = "done" => manifest = plans[t].goal
          /\ work.outcome = "undone" => PlanCurrent(t)
      BY <1>0, <2>1 DEF ReceiptWillBeTrue
    <3>2. work.outcome = "undone" => PlanCurrent(t)'
      BY <2>1, <3>1 DEF PlanCurrent, TargetsCurrent, From
    <3> QED
      BY <2>1, <2>2, <3>1, <3>2 DEF Vouched
  <2> QED
    BY <2>1, <2>3, <2>4 DEF ReceiptIsTrue, ReceiptWillBeTrue, Idle
<1>6. CASE Abandon
  <2>1. work' = Idle /\ UNCHANGED <<manifest, plans, files, log, quiet>>
    BY <1>6 DEF Abandon
  <2>2. work.txn \in Txns /\ files[work.txn].receipt = "none"
    BY <1>0, <1>6 DEF Abandon, LockFree, WorkIsPlanned, Typed, WorkType
  <2>3. ReceiptIsTrue'
    <3> SUFFICES ASSUME quiet, log # <<>>, \A u \in Txns : ~Interrupted(u)'
                 PROVE  Vouched(log[Len(log)])
      BY <2>1 DEF ReceiptIsTrue, Vouched, PlanCurrent, TargetsCurrent, From
    <3>1. ~files[work.txn].consumed
      BY <2>1, <2>2, NoneAside DEF Interrupted, Idle
    <3>2. work.at = "consume"
      BY <1>0, <2>2, <3>1, NoneAside DEF WorkIsPlanned, Typed, WorkType, Places, Consumed
    <3>3. \A u \in Txns : ~Interrupted(u)
      BY <2>1, NoneAside DEF Interrupted, Idle
    <3> QED
      BY <1>0, <3>2, <3>3 DEF ReceiptIsTrue
  <2> QED
    BY <2>1, <2>3 DEF ReceiptWillBeTrue, Idle
<1>7. ASSUME NEW s \in Scenes, NEW c \in Contents, Edit(s, c) PROVE ReceiptWillBeTrue' /\ ReceiptIsTrue'
  BY <1>7 DEF Edit, ReceiptWillBeTrue, ReceiptIsTrue
<1>8. ASSUME UNCHANGED <<manifest, plans, files, log, work, quiet>> PROVE ReceiptWillBeTrue' /\ ReceiptIsTrue'
  BY <1>0, <1>8 DEF ReceiptWillBeTrue, ReceiptIsTrue, Vouched, PlanCurrent, TargetsCurrent, From, Interrupted
<1>9. ASSUME UNCHANGED vars \/ \E t \in Recoveries : Clear(t) \/ Revoke(t)
      PROVE  UNCHANGED <<manifest, plans, files, log, work, quiet>>
  BY <1>9 DEF Clear, Revoke, vars
<1> QED
  BY <1>1, <1>2, <1>3, <1>4, <1>5, <1>6, <1>7, <1>8, <1>9, PlanSteps DEF Next, Txns, Command

(* While nobody has edited a manifest since the last command got to work,  *)
(* and no transaction is under way or interrupted, the routing is the one  *)
(* that the last receipt vouches for.                                      *)
THEOREM LastReceiptIsTrueHolds == Spec => []LastReceiptIsTrue
<1>1. Init => Truth
  BY DEF Init, Truth, ReceiptWillBeTrue, LogHasReceipts, ReceiptIsTrue, Idle
<1>2. Truth => LastReceiptIsTrue
  BY DEF Truth, ReceiptIsTrue, LastReceiptIsTrue, LockFree, Idle
<1> QED
  BY <1>1, <1>2, InitSound, SoundNext, TruthNext, PTL DEF Spec

-----------------------------------------------------------------------------
(* The gate.  A clearance is for a recovery that has its receipt.          *)
ClearedIsDone == \A t \in cleared : files[t].receipt = "done"

LEMMA ClearedNext == Sound /\ ClearedIsDone /\ [Next]_vars => ClearedIsDone'
<1> SUFFICES ASSUME Sound, ClearedIsDone, [Next]_vars PROVE ClearedIsDone'
  OBVIOUS
<1>1. \A t \in Txns : files[t].receipt # "none" => files'[t].receipt = files[t].receipt
  BY Receipts, AtWork
<1>2. \A t \in cleared' : t \in cleared \/ (t \in Txns /\ files[t].receipt = "done")
  <2>1. ASSUME NEW t \in Recoveries, Clear(t) \/ Revoke(t)
        PROVE  \A u \in cleared' : u \in cleared \/ (u \in Txns /\ files[u].receipt = "done")
    BY <2>1 DEF Clear, Revoke, Txns
  <2>2. CASE ~\E t \in Recoveries : Clear(t) \/ Revoke(t)
    <3>1. cleared' = cleared
      BY <2>2, PlanSteps, WorkingWell
      DEF Next, Txns, Command, Working, GetsPlan, Begin, Consume, Record, Resume, GoesOn, GetsToWork, Abandon, Edit, vars
    <3> QED
      BY <3>1
  <2> QED
    BY <2>1, <2>2
<1>3. cleared \subseteq Txns
  BY DEF Sound, Typed, Txns
<1> QED
  BY <1>1, <1>2, <1>3 DEF ClearedIsDone

(* The latest recovery is the one logged last.                             *)
LatestFits == /\ Latest \in Recoveries \union {None}
              /\ \A i \in DOMAIN log : IsLatest(i) => Latest = log[i]

LEMMA LatestIs == log \in Seq(Txns) => LatestFits
<1> SUFFICES ASSUME log \in Seq(Txns) PROVE LatestFits
  OBVIOUS
<1>1. ASSUME NEW i \in DOMAIN log, IsLatest(i) PROVE Latest = log[i]
  <2> DEFINE k == CHOOSE j \in DOMAIN log : IsLatest(j)
  <2>1. k \in DOMAIN log /\ IsLatest(k)
    BY <1>1
  <2>2. k \in Nat /\ i \in Nat /\ k <= i /\ i <= k
    BY <1>1, <2>1 DEF IsLatest
  <2>3. k = i
    BY <2>2
  <2> QED
    BY <1>1, <2>3 DEF Latest
<1>2. CASE \E i \in DOMAIN log : IsLatest(i)
  BY <1>1, <1>2 DEF IsLatest, LatestFits
<1>3. CASE ~\E i \in DOMAIN log : IsLatest(i)
  BY <1>3 DEF Latest, LatestFits
<1> QED
  BY <1>1, <1>2, <1>3 DEF LatestFits

(* While receipts and clearances are left alone, the gate does not open.   *)
LEMMA GateStaysShut ==
  ASSUME Sound, UNCHANGED <<log, cleared, revoked>>,
         \A t \in Txns : files'[t].receipt = files[t].receipt,
         \A t \in Recoveries : files[t].intent => files'[t].intent,
         ~GateOpen
  PROVE  ~GateOpen'
<1>1. Latest' = Latest
  BY DEF Latest, IsLatest
<1>2. Unfinished # {} => Unfinished' # {}
  BY DEF Unfinished, Txns
<1>3. Latest # None => files'[Latest].receipt = files[Latest].receipt
  BY LatestIs DEF LatestFits, Sound, Typed, Txns
<1>4. Gate # "not_required" /\ Gate # "cleared"
  BY DEF GateOpen
<1>5. CASE Unfinished # {}
  BY <1>2, <1>5 DEF GateOpen, Gate
<1>6. CASE Unfinished = {}
  <2>1. Latest # None /\ (files[Latest].receipt # "done" \/ Latest \notin cleared \/ Latest \in revoked)
    BY <1>4, <1>6 DEF Gate
  <2> QED
    BY <1>1, <1>3, <2>1 DEF GateOpen, Gate
<1> QED
  BY <1>5, <1>6

(* A receipt does not open it either: a recovery's own has to be cleared.  *)
LEMMA RecordKeepsShut ==
  ASSUME Sound, Sound', ClearedIsDone, NEW t \in Txns, Record(t), ~GateOpen
  PROVE  ~GateOpen'
<1>0. Typed /\ Typed' /\ WorkIsPlanned
  BY DEF Sound
<1>1. /\ work.txn = t /\ log' = Append(log, t) /\ files' = [files EXCEPT ![t].receipt = work.outcome]
      /\ UNCHANGED <<cleared, revoked>> /\ work.outcome # "none"
  BY <1>0 DEF Record, At, WorkIsPlanned
<1>2. /\ \A u \in Txns : u # t => files'[u] = files[u]
      /\ files'[t].intent = files[t].intent /\ files[t].receipt = "none"
  BY <1>0, <1>1, AtWork DEF Typed, FileType
<1>7. PICK n \in Nat : n = Len(log) + 1
  BY <1>0 DEF Typed
<1>3. /\ \A i \in DOMAIN log : log'[i] = log[i] /\ i \in DOMAIN log' /\ i < n
      /\ n \in DOMAIN log' /\ log'[n] = t
      /\ \A i \in DOMAIN log' : i \in DOMAIN log \/ i = n
  BY <1>0, <1>1, <1>7 DEF Typed
<1>6. LatestFits'
  <2>1. (log \in Seq(Txns))'
    BY <1>0 DEF Typed
  <2> QED
    BY <2>1, LatestIs, PTL
<1>4. CASE t \in Recoveries
  <2>1. IsLatest(n)'
    <3>1. \A j \in DOMAIN log' : j <= n
      BY <1>0, <1>1, <1>7 DEF Typed
    <3> QED
      BY <1>3, <1>4, <3>1 DEF IsLatest
  <2>3. Latest' = t
    BY <1>3, <1>6, <2>1 DEF LatestFits
  <2>4. t \notin cleared' /\ t # None
    BY <1>1, <1>2, NoneAside DEF ClearedIsDone
  <2> QED
    BY <2>3, <2>4 DEF GateOpen, Gate
<1>5. CASE t \notin Recoveries
  <2>1. \A i \in DOMAIN log : IsLatest(i)' <=> IsLatest(i)
    BY <1>3, <1>5 DEF IsLatest
  <2>2. ~IsLatest(n)'
    BY <1>3, <1>5 DEF IsLatest
  <2>3. Latest' = Latest
    <3>1. CASE \E i \in DOMAIN log : IsLatest(i)
      <4>1. PICK i \in DOMAIN log : IsLatest(i)
        BY <3>1
      <4>2. IsLatest(i)' /\ i \in DOMAIN log'
        BY <1>3, <2>1, <4>1
      <4>3. Latest = log[i] /\ Latest' = log'[i]
        BY <1>0, <1>6, <4>1, <4>2, LatestIs DEF LatestFits, Typed
      <4> QED
        BY <1>3, <4>3
    <3>2. CASE ~\E i \in DOMAIN log : IsLatest(i)
      <4>1. ASSUME NEW i \in DOMAIN log', IsLatest(i)' PROVE FALSE
        BY <1>3, <2>1, <2>2, <3>2, <4>1
      <4> QED
        BY <3>2, <4>1 DEF Latest
    <3> QED
      BY <3>1, <3>2
  <2>4. Unfinished' = Unfinished
    BY <1>2, <1>5 DEF Unfinished, Txns
  <2>5. Latest # None => files'[Latest] = files[Latest]
    BY <1>0, <1>2, <1>5, LatestIs DEF LatestFits, Typed, Txns
  <2> QED
    BY <1>1, <2>3, <2>4, <2>5 DEF GateOpen, Gate
<1> QED
  BY <1>4, <1>5

(* The gate is opened again only by a clearance, while the routing is what *)
(* the latest recovery was approved to lead to, and nothing but a recovery *)
(* that is newer than a revoked clearance opens it after that.             *)
THEOREM GateIsEarnedHolds == Spec => GateIsEarned
<1>1. Init => ClearedIsDone
  BY DEF Init, ClearedIsDone
<1>2. Sound /\ Sound' /\ ClearedIsDone /\ [Next]_vars =>
        [~GateOpen /\ GateOpen' => /\ Latest # None /\ Unfinished = {}
                                  /\ manifest = plans[Latest].goal
                                  /\ Latest \notin revoked]_vars
  <2> SUFFICES ASSUME Sound, Sound', ClearedIsDone, [Next]_vars, ~GateOpen, GateOpen'
               PROVE  /\ Latest # None /\ Unfinished = {} /\ manifest = plans[Latest].goal
                      /\ Latest \notin revoked
    OBVIOUS
  <2>0. Typed
    BY DEF Sound
  <2>1. ASSUME NEW t \in Recoveries, Clear(t)
        PROVE  /\ Latest # None /\ Unfinished = {} /\ manifest = plans[Latest].goal
               /\ Latest \notin revoked
    BY <2>0, <2>1, NoneAside DEF Clear, Typed, Txns
  <2>2. ASSUME NEW t \in Recoveries, Revoke(t) PROVE FALSE
    BY <2>2 DEF Revoke, GateOpen
  <2>3. ASSUME NEW t \in Txns, Record(t) PROVE FALSE
    BY <2>3, RecordKeepsShut
  <2>4. CASE ~(\E t \in Txns : Record(t)) /\ ~(\E t \in Recoveries : Clear(t) \/ Revoke(t))
    <3>1. UNCHANGED <<log, cleared, revoked>>
      BY <2>4, PlanSteps, WorkingWell
      DEF Next, Txns, Command, Working, GetsPlan, Begin, Consume, Resume, GoesOn, GetsToWork, Abandon, Edit, vars
    <3>2. \A u \in Txns : files'[u].receipt = files[u].receipt
      BY <2>4, Receipts
    <3>3. \A u \in Txns : files[u].intent => files'[u].intent
      <4>1. ASSUME NEW t \in Txns, Begin(t) \/ Consume(t) PROVE \A u \in Txns : files[u].intent => files'[u].intent
        BY <2>0, <4>1 DEF Begin, Consume, Typed, FileType
      <4>2. CASE ~\E t \in Txns : Begin(t) \/ Consume(t)
        <5>1. UNCHANGED files
          BY <2>4, <4>2, PlanSteps, WorkingWell
          DEF Next, Txns, Command, Working, GetsPlan, Resume, Abandon, Edit, vars
        <5> QED
          BY <5>1
      <4> QED
        BY <4>1, <4>2
    <3> QED
      BY <3>1, <3>2, <3>3, GateStaysShut DEF Txns
  <2> QED
    BY <2>1, <2>2, <2>3, <2>4
<1> QED
  BY <1>1, <1>2, InitSound, SoundNext, ClearedNext, PTL DEF Spec, GateIsEarned

=============================================================================
