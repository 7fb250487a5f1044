------------------------- MODULE SessionHistory_proofs -------------------------
(***************************************************************************)
(* Proofs about SessionHistory: its types, and the five properties of the  *)
(* clearing and of the closing, each from an inductive invariant.          *)
(***************************************************************************)
EXTENDS SessionHistory, TLAPS

ArchiveType    == [rev : Nat, turns : SUBSET Turns, memory : SUBSET Turns]
PendingType    == [Turns -> {"none", "accepted", "prepared"}]
WorkType       == [Turns -> [at : Places, base : Nat, append : BOOLEAN, resumes : 0..MaxResumes]]
CompactionType == [busy : BOOLEAN, rev : Nat, turns : SUBSET Turns]

ClearPlaces == {"idle", "runs", "pending", "replies", "load", "empty", "delete_pending",
                "delete_replies", "judge", "lock", "release"}
Stores      == {"pending", "replies"}
ClearType   == [at : ClearPlaces, base : Nat, residual : SUBSET Stores,
                rounds : 0..MaxRetry, count : 0..MaxClears]
ClosingType == {"no", "runs", "replies", "pending", "done"}
HistoryType == [persisted : SUBSET Turns, erased : SUBSET Turns, late : SUBSET Turns,
                owed : SUBSET Stores, unlocked : BOOLEAN]

(* From its registration until it settles, a turn has an active run.       *)
InRun == {"ask_accept", "accept", "prepare", "ask_prepared", "prepared", "answer", "persist",
          "complete", "rebind"}

Typed ==
    /\ session \in States
    /\ archive \in ArchiveType
    /\ runs \subseteq Turns /\ cancelled \subseteq Turns /\ replies \subseteq Turns
    /\ pending \in PendingType
    /\ work \in WorkType
    /\ compaction \in CompactionType
    /\ clear \in ClearType
    /\ closing \in ClosingType
    /\ history \in HistoryType

ClearCounted  == clear.count = 0 => session \notin {"clearing", "clearing_failed"}
RunsAreActive == \A t \in Turns : work[t].at \in InRun => t \in runs

(* A clear works behind a barrier.                                         *)
BarrierIsUp == clear.at # "idle" => session # "active"

Sound == Typed /\ ClearCounted /\ RunsAreActive /\ BarrierIsUp

LEMMA SoundTypeOK == Sound => TypeOK
<1> SUFFICES ASSUME Sound PROVE TypeOK
  OBVIOUS
<1>1. /\ clear.count \in 0..MaxClears /\ clear.rounds \in 0..MaxRetry
  BY DEF Sound, Typed, ClearType
<1>2. \A t \in Turns : work[t].at \in {"answer", "persist", "complete"} => t \in runs
  BY DEF Sound, RunsAreActive, InRun
<1> QED
  BY <1>1, <1>2 DEF Sound, Typed, ClearCounted, TypeOK, ArchiveType, PendingType, WorkType, CompactionType

LEMMA InitSound == Init => Sound
<1> SUFFICES ASSUME Init PROVE Sound
  OBVIOUS
<1>1. archive \in ArchiveType /\ compaction \in CompactionType /\ pending \in PendingType
  BY DEF Init, ArchiveType, CompactionType, PendingType, NoCompaction
<1>2. work \in WorkType /\ \A t \in Turns : work[t].at = "idle"
  BY ConstantsAssumption DEF Init, WorkType, Idle, Places
<1>3. clear \in ClearType /\ closing \in ClosingType /\ history \in HistoryType
  BY ConstantsAssumption DEF Init, ClearType, ClearPlaces, ClosingType, HistoryType, NoHistory
<1>4. ClearCounted /\ BarrierIsUp
  BY DEF Init, ClearCounted, BarrierIsUp
<1>5. RunsAreActive
  BY <1>2 DEF RunsAreActive, InRun
<1> QED
  BY <1>1, <1>2, <1>3, <1>4, <1>5 DEF Init, Sound, Typed, States

-----------------------------------------------------------------------------
(* What the steps are made of.                                             *)

(* Where a turn goes, and that no other turn does.                         *)
Moves(t, place) ==
    /\ work' \in WorkType
    /\ work'[t].at = place
    /\ work'[t].append = work[t].append
    /\ \A u \in Turns : u # t => work'[u] = work[u]

LEMMA Gone ==
  ASSUME work \in WorkType, NEW t \in Turns, NEW place \in Places, GoesTo(t, place)
  PROVE  Moves(t, place) /\ work'[t].base = work[t].base
  BY DEF GoesTo, WorkType, Moves

LEMMA Asked ==
  ASSUME work \in WorkType, NEW t \in Turns, NEW from, NEW yes \in Places, NEW no \in Places,
         Asks(t, from, yes, no)
  PROVE  /\ work[t].at = from
         /\ \/ session = "active" /\ Moves(t, yes)
            \/ session # "active" /\ Moves(t, no)
         /\ UNCHANGED <<session, archive, runs, cancelled, pending, replies, compaction, clear,
                        closing, history>>
<1>1. work[t].at = from
  BY DEF Asks, At
<1>2. UNCHANGED <<session, archive, runs, cancelled, pending, replies, compaction, clear, closing, history>>
  BY DEF Asks, Rows, Others
<1>3. CASE session = "active"
  <2>1. GoesTo(t, yes)
    BY <1>3 DEF Asks, SessionActive
  <2> QED
    BY <1>1, <1>2, <1>3, <2>1, Gone
<1>4. CASE session # "active"
  <2>1. GoesTo(t, no)
    BY <1>4 DEF Asks, SessionActive
  <2> QED
    BY <1>1, <1>2, <1>4, <2>1, Gone
<1> QED
  BY <1>3, <1>4

LEMMA Settled ==
  ASSUME work \in WorkType, pending \in PendingType, NEW t \in Turns, Settles(t)
  PROVE  /\ Moves(t, "over")
         /\ runs' = runs \ {t}
         /\ pending' \in PendingType
         /\ \A u \in Turns : pending'[u] \in {pending[u], "none"}
<1>1. GoesTo(t, "over") /\ "over" \in Places
  BY DEF Settles, Places
<1> QED
  BY <1>1, Gone DEF Settles, PendingType

LEMMA CompactedTyped ==
  ASSUME archive \in ArchiveType, NEW turns \in SUBSET Turns
  PROVE  Compacted(turns) \in ArchiveType
  BY DEF Compacted, ArchiveType

LEMMA WithTurnTyped ==
  ASSUME archive \in ArchiveType, NEW t \in Turns
  PROVE  WithTurn(t) \in ArchiveType
  BY DEF WithTurn, ArchiveType

LEMMA CompactionTyped ==
  ASSUME NEW a \in ArchiveType
  PROVE  Compaction(a) \in CompactionType /\ NoCompaction \in CompactionType
  BY DEF Compaction, NoCompaction, ArchiveType, CompactionType

(* A turn in a run, that other turns leave alone.                          *)
LEMMA StaysInRun ==
  ASSUME RunsAreActive, NEW t \in Turns, NEW place, Moves(t, place),
         \A u \in Turns : u # t /\ u \in runs => u \in runs',
         place \in InRun => t \in runs'
  PROVE  RunsAreActive'
  BY DEF RunsAreActive, Moves

-----------------------------------------------------------------------------
(* The steps of a turn preserve the types.                                 *)

LEMMA TurnSound ==
  ASSUME Sound, NEW t \in Turns, Turn(t)
  PROVE  Sound' /\ UNCHANGED <<session, clear, closing>>
<1>0. Typed /\ ClearCounted /\ RunsAreActive /\ BarrierIsUp /\ work[t] \in [at : Places, base : Nat, append : BOOLEAN, resumes : 0..MaxResumes]
  BY DEF Sound, Typed, WorkType
<1>1. CASE Begin(t) \/ AskAccept(t) \/ AskPrepared(t) \/ AskReply(t) \/ AskRegister(t)
  <2>1. \E from, yes, no \in Places : Asks(t, from, yes, no) /\ (from \in InRun \/ {yes, no} \intersect InRun = {})
    BY <1>1 DEF Begin, AskAccept, AskPrepared, AskReply, AskRegister, Places, InRun
  <2>2. PICK from, yes, no \in Places : Asks(t, from, yes, no) /\ (from \in InRun \/ {yes, no} \intersect InRun = {})
    BY <2>1
  <2>3. /\ work[t].at = from
        /\ \/ session = "active" /\ Moves(t, yes)
           \/ session # "active" /\ Moves(t, no)
        /\ UNCHANGED <<session, archive, runs, cancelled, pending, replies, compaction, clear, closing, history>>
    BY <1>0, <2>2, Asked DEF Typed
  <2>4. RunsAreActive'
    BY <1>0, <2>2, <2>3 DEF RunsAreActive, Moves
  <2> QED
    BY <1>0, <2>3, <2>4 DEF Sound, Typed, ClearCounted, BarrierIsUp, Moves
<1>2. CASE Register(t)
  <2>1. \E place \in Places : Moves(t, place)
    BY <1>0, <1>2, Gone DEF Register, Typed, Places
  <2>2. /\ runs' = runs \union {t} /\ cancelled' \subseteq Turns
        /\ UNCHANGED <<session, archive, pending, replies, compaction, clear, closing, history>>
    BY <1>0, <1>2 DEF Register, Typed, Others
  <2>3. RunsAreActive'
    BY <1>0, <2>1, <2>2, StaysInRun
  <2> QED
    BY <1>0, <2>1, <2>2, <2>3 DEF Sound, Typed, ClearCounted, BarrierIsUp, Moves
<1>3. CASE Accept(t) \/ Prepared(t)
  <2>1. \E place \in Places : Moves(t, place)
    BY <1>0, <1>3, Gone DEF Accept, Prepared, Typed, Places
  <2>2. /\ pending' \in PendingType /\ work[t].at \in InRun
        /\ UNCHANGED <<session, archive, runs, cancelled, replies, compaction, clear, closing, history>>
    BY <1>0, <1>3 DEF Accept, Prepared, Typed, Others, PendingType, InRun, At
  <2>3. RunsAreActive'
    BY <1>0, <2>1, <2>2, StaysInRun DEF RunsAreActive
  <2> QED
    BY <1>0, <2>1, <2>2, <2>3 DEF Sound, Typed, ClearCounted, BarrierIsUp, Moves
<1>4. CASE Prepare(t)
  <2>1. archive' \in ArchiveType /\ archive.turns \in SUBSET Turns
    BY <1>0, <1>4, CompactedTyped DEF Prepare, Typed, ArchiveType
  <2>2. compaction' \in CompactionType
    BY <1>0, <1>4, CompactionTyped DEF Prepare, Typed
  <2>3. archive'.rev \in Nat /\ At(t, "prepare") /\ "ask_prepared" \in Places
    BY <1>4, <2>1 DEF ArchiveType, Prepare, Places
  <2>4. Moves(t, "ask_prepared")
    BY <1>0, <1>4, <2>3 DEF Prepare, Typed, WorkType, Moves
  <2>5. UNCHANGED <<session, runs, cancelled, pending, replies, clear, closing, history>>
    BY <1>4 DEF Prepare, Rows
  <2>6. RunsAreActive'
    BY <1>0, <2>3, <2>4, <2>5, StaysInRun DEF RunsAreActive, At, InRun
  <2> QED
    BY <1>0, <2>1, <2>2, <2>4, <2>5, <2>6 DEF Sound, Typed, ClearCounted, BarrierIsUp, Moves
<1>5. CASE Answer(t)
  <2>1. At(t, "answer") /\ t \in runs /\ UNCHANGED <<session, archive, cancelled, replies, compaction, clear, closing, history>>
    BY <1>0, <1>5 DEF Answer, Rows, Settles, Others, RunsAreActive, At, InRun
  <2>2. CASE GoesTo(t, "persist") /\ UNCHANGED Rows
    <3>1. Moves(t, "persist") /\ UNCHANGED <<runs, pending>>
      BY <1>0, <2>2, Gone DEF Typed, Places, Rows
    <3> QED
      BY <1>0, <2>1, <3>1, StaysInRun DEF Sound, Typed, ClearCounted, BarrierIsUp, Moves
  <2>3. CASE Settles(t)
    <3>1. Moves(t, "over") /\ runs' = runs \ {t} /\ pending' \in PendingType
      BY <1>0, <2>3, Settled DEF Typed
    <3>2. RunsAreActive'
      BY <1>0, <3>1, StaysInRun DEF InRun
    <3> QED
      BY <1>0, <2>1, <3>1, <3>2 DEF Sound, Typed, ClearCounted, BarrierIsUp, Moves
  <2> QED
    BY <1>5, <2>2, <2>3 DEF Answer
<1>6. CASE Persist(t)
  <2>1. CASE Persisted(t)
    <3>1. archive' \in ArchiveType
      BY <1>0, <2>1, WithTurnTyped DEF Typed, Persisted
    <3>2. compaction' \in CompactionType
      BY <1>0, <2>1, <3>1, CompactionTyped DEF Typed, Persisted
    <3>3. Moves(t, "complete") /\ work[t].at = "persist"
      BY <1>0, <1>6, <2>1, Gone DEF Persisted, Persist, At, Typed, Places
    <3>4. history' \in HistoryType
      BY <1>0, <2>1 DEF Persisted, HistoryType, Typed
    <3>5. UNCHANGED <<session, runs, pending, replies, cancelled, clear, closing>>
      BY <2>1 DEF Persisted, Rows
    <3>6. RunsAreActive'
      BY <1>0, <3>3, <3>5, StaysInRun DEF RunsAreActive, InRun
    <3> QED
      BY <1>0, <3>1, <3>2, <3>3, <3>4, <3>5, <3>6 DEF Sound, Typed, ClearCounted, BarrierIsUp, Moves
  <2>2. CASE Settles(t) /\ UNCHANGED <<archive, replies, cancelled, history>> /\ Others
    <3>1. Moves(t, "over") /\ runs' = runs \ {t} /\ pending' \in PendingType
      BY <1>0, <2>2, Settled DEF Typed
    <3>2. RunsAreActive'
      BY <1>0, <3>1, StaysInRun DEF InRun
    <3> QED
      BY <1>0, <2>2, <3>1, <3>2 DEF Sound, Typed, ClearCounted, BarrierIsUp, Moves, Others
  <2> QED
    BY <1>6, <2>1, <2>2 DEF Persist
<1>7. CASE Complete(t)
  <2>1. Moves(t, "ask_reply") /\ pending' \in PendingType
    BY <1>0, <1>7, Gone DEF Complete, Typed, Places, PendingType
  <2>2. runs' = runs \ {t} /\ UNCHANGED <<session, archive, replies, cancelled, compaction, clear, closing, history>>
    BY <1>7 DEF Complete, Others
  <2>3. RunsAreActive'
    BY <1>0, <2>1, <2>2, StaysInRun DEF InRun
  <2> QED
    BY <1>0, <2>1, <2>2, <2>3 DEF Sound, Typed, ClearCounted, BarrierIsUp, Moves
<1>8. CASE Reply(t) \/ Die(t)
  <2>1. Moves(t, "over") \/ Moves(t, "dead")
    BY <1>0, <1>8, Gone DEF Reply, Die, Typed, Places
  <2>2. /\ replies' \subseteq Turns
        /\ UNCHANGED <<session, archive, runs, pending, cancelled, compaction, clear, closing, history>>
    BY <1>0, <1>8 DEF Reply, Die, Others, Rows, Typed
  <2>3. RunsAreActive'
    BY <1>0, <2>1, <2>2, StaysInRun DEF InRun
  <2> QED
    BY <1>0, <2>1, <2>2, <2>3 DEF Sound, Typed, ClearCounted, BarrierIsUp, Moves
<1>9. CASE Cleanup(t)
  <2>1. work[t].at = "dead" /\ runs' = runs \ {t}
        /\ UNCHANGED <<session, archive, work, pending, replies, cancelled, compaction, clear, closing, history>>
    BY <1>9 DEF Cleanup, At, Others
  <2> QED
    BY <1>0, <2>1 DEF Sound, Typed, ClearCounted, BarrierIsUp, RunsAreActive, InRun
<1>10. CASE Resume(t)
  <2>2. /\ work' \in WorkType /\ work'[t].at = "ask_register"
        /\ \A u \in Turns : u # t => work'[u] = work[u]
    BY <1>0, <1>10, ConstantsAssumption DEF Resume, Typed, WorkType, Places
  <2>3. UNCHANGED <<session, archive, runs, pending, replies, cancelled, compaction, clear, closing, history>>
    BY <1>10 DEF Resume, Rows, Others
  <2> QED
    BY <1>0, <2>2, <2>3 DEF Sound, Typed, ClearCounted, BarrierIsUp, RunsAreActive, InRun
<1>11. CASE Rebind(t)
  <2>1. work[t].at = "rebind" /\ t \in runs /\ UNCHANGED <<session, archive, cancelled, replies, compaction, clear, closing, history>>
    BY <1>0, <1>11 DEF Rebind, Rows, Settles, Others, RunsAreActive, At, InRun
  <2>2. CASE GoesTo(t, IF work[t].append THEN "answer" ELSE "prepare") /\ UNCHANGED Rows
    <3>1. \E place \in Places : Moves(t, place)
      BY <1>0, <2>2, Gone DEF Typed, Places
    <3>2. UNCHANGED <<runs, pending>>
      BY <2>2 DEF Rows
    <3> QED
      BY <1>0, <2>1, <3>1, <3>2, StaysInRun DEF Sound, Typed, ClearCounted, BarrierIsUp, Moves
  <2>3. CASE Settles(t)
    <3>1. Moves(t, "over") /\ runs' = runs \ {t} /\ pending' \in PendingType
      BY <1>0, <2>3, Settled DEF Typed
    <3>2. RunsAreActive'
      BY <1>0, <3>1, StaysInRun DEF InRun
    <3> QED
      BY <1>0, <2>1, <3>1, <3>2 DEF Sound, Typed, ClearCounted, BarrierIsUp, Moves
  <2> QED
    BY <1>11, <2>2, <2>3 DEF Rebind
<1> QED
  BY <1>1, <1>2, <1>3, <1>4, <1>5, <1>6, <1>7, <1>8, <1>9, <1>10, <1>11 DEF Turn

-----------------------------------------------------------------------------
(* The steps of a clear, of cancel_session and of the compaction do, too.  *)

LEMMA ClearTyped ==
  ASSUME clear \in ClearType
  PROVE  /\ \A place \in ClearPlaces :
               [clear EXCEPT !.at = place] \in ClearType
         /\ \A place \in ClearPlaces, residual \in SUBSET Stores, rounds \in 0..MaxRetry :
               [clear EXCEPT !.at = place, !.residual = residual, !.rounds = rounds] \in ClearType
  BY DEF ClearType

LEMMA ClearSound ==
  ASSUME Sound, ClearHistory
  PROVE  Sound' /\ UNCHANGED <<runs, cancelled, work, compaction, closing>>
<1>0. Typed /\ ClearCounted /\ RunsAreActive /\ BarrierIsUp
  BY DEF Sound
<1>1. CASE BeginClearing
  <2> DEFINE n == clear.count + 1
  <2>1. n \in 0..MaxClears /\ n # 0
    BY <1>0, <1>1, ConstantsAssumption DEF BeginClearing, Typed, ClearType
  <2> HIDE DEF n
  <2>2. clear' = [clear EXCEPT !.at = "runs", !.count = n]
    BY <1>1 DEF BeginClearing, Clears, n
  <2>3. clear' \in ClearType /\ clear'.count = n /\ n # 0
    BY <1>0, <2>1, <2>2 DEF Typed, ClearType, ClearPlaces
  <2>4. history' \in HistoryType
    BY <1>0, <1>1 DEF BeginClearing, HistoryType, LetThrough, Typed
  <2>5. session' = "clearing" /\ UNCHANGED <<archive, pending, replies, runs, cancelled, work, compaction, closing>>
    BY <1>1 DEF BeginClearing, Clears
  <2> QED
    BY <1>0, <2>3, <2>4, <2>5 DEF Sound, Typed, ClearCounted, BarrierIsUp, RunsAreActive, States
<1>2. CASE LookForRuns \/ LookForPending \/ LookForReplies
  <2>1. \E place \in ClearPlaces : clear' = [clear EXCEPT !.at = place]
    BY <1>2 DEF LookForRuns, LookForPending, LookForReplies, Looks, ClearGoesTo, Clears, ClearPlaces
  <2>2. clear' \in ClearType /\ clear'.count = clear.count /\ clear.at # "idle"
    BY <1>0, <1>2, <2>1, ClearTyped DEF Typed, ClearType, LookForRuns, LookForPending, LookForReplies, Looks
  <2>3. UNCHANGED <<session, archive, pending, replies, runs, cancelled, work, compaction, closing, history>>
    BY <1>2 DEF LookForRuns, LookForPending, LookForReplies, Looks, ClearGoesTo, Clears
  <2> QED
    BY <1>0, <2>2, <2>3 DEF Sound, Typed, ClearCounted, BarrierIsUp, RunsAreActive
<1>3. CASE Load
  <2>1. clear' \in ClearType /\ clear'.count = clear.count /\ clear.at # "idle"
    BY <1>0, <1>3 DEF Load, Clears, Typed, ClearType, ArchiveType, ClearPlaces
  <2> QED
    BY <1>0, <1>3, <2>1 DEF Load, Clears, Sound, Typed, ClearCounted, BarrierIsUp, RunsAreActive
<1>4. CASE Empty
  <2>1. UNCHANGED <<session, pending, replies, runs, cancelled, work, compaction, closing>> /\ clear.at = "empty"
    BY <1>4 DEF Empty, Clears, ClearGoesTo
  <2>2. CASE archive.rev = clear.base
    <3>1. clear' = [clear EXCEPT !.at = "delete_pending", !.residual = {}, !.rounds = 1]
      BY <1>4, <2>2 DEF Empty, Clears
    <3>2. clear' \in ClearType
      <4>1. "delete_pending" \in ClearPlaces /\ {} \in SUBSET Stores /\ 1 \in 0..MaxRetry
        BY ConstantsAssumption DEF ClearPlaces
      <4> QED
        BY <1>0, <3>1, <4>1, ClearTyped DEF Typed
    <3>5. clear'.count = clear.count
      BY <1>0, <3>1 DEF Typed, ClearType
    <3>3. archive' \in ArchiveType
      BY <1>0, <1>4, <2>2 DEF Empty, Typed, ArchiveType
    <3>4. history' \in HistoryType
      <4>1. history.erased \union archive.turns \union HaveSeen \in SUBSET Turns
        BY <1>0 DEF Typed, ArchiveType, HistoryType, HaveSeen
      <4>2. {"pending", "replies"} \in SUBSET Stores
        BY DEF Stores
      <4>3. history' = [history EXCEPT !.erased = history.erased \union archive.turns \union HaveSeen,
                                       !.owed = {"pending", "replies"}, !.unlocked = FALSE]
        BY <1>4, <2>2 DEF Empty
      <4> QED
        BY <1>0, <4>1, <4>2, <4>3 DEF Typed, HistoryType
    <3> QED
      BY <1>0, <2>1, <3>2, <3>3, <3>4, <3>5 DEF Sound, Typed, ClearCounted, BarrierIsUp, RunsAreActive
  <2>3. CASE archive.rev # clear.base
    <3>1. clear' \in ClearType /\ clear'.count = clear.count /\ UNCHANGED <<archive, history>>
      BY <1>0, <1>4, <2>3 DEF Empty, ClearGoesTo, Clears, Typed, ClearType, ClearPlaces
    <3> QED
      BY <1>0, <2>1, <3>1 DEF Sound, Typed, ClearCounted, BarrierIsUp, RunsAreActive
  <2> QED
    BY <2>2, <2>3
<1>5. ASSUME NEW ok \in BOOLEAN, DeletePending(ok) \/ DeleteReplies(ok)
      PROVE  Sound' /\ UNCHANGED <<runs, cancelled, work, compaction, closing>>
  <2>1. \E store \in Stores, from \in ClearPlaces \ {"idle"}, to \in ClearPlaces : Deletes(store, from, to, ok)
    BY <1>5 DEF DeletePending, DeleteReplies, ClearPlaces, Stores
  <2>2. PICK store \in Stores, from \in ClearPlaces \ {"idle"}, to \in ClearPlaces : Deletes(store, from, to, ok)
    BY <2>1
  <2>3. clear' \in ClearType /\ clear'.count = clear.count /\ clear.at # "idle"
    BY <1>0, <2>2 DEF Deletes, Clears, Typed, ClearType
  <2>4. history' \in HistoryType
    BY <1>0, <2>2 DEF Deletes, Typed, HistoryType
  <2>5. UNCHANGED <<session, archive, runs, cancelled, work, compaction, closing>>
    BY <2>2 DEF Deletes, Clears
  <2>6. pending' \in PendingType /\ replies' \subseteq Turns
    BY <1>0, <1>5 DEF DeletePending, DeleteReplies, Typed, PendingType
  <2> QED
    BY <1>0, <2>3, <2>4, <2>5, <2>6 DEF Sound, Typed, ClearCounted, BarrierIsUp, RunsAreActive
<1>6. CASE Judge
  <2>1. ASSUME clear.residual # {}, clear.rounds < MaxRetry
        PROVE  clear' \in ClearType /\ clear'.count = clear.count
    <3>1. clear.rounds + 1 \in 0..MaxRetry
      BY <1>0, <2>1, ConstantsAssumption DEF Typed, ClearType
    <3> DEFINE n == clear.rounds + 1
    <3> HIDE DEF n
    <3>2. clear' = [clear EXCEPT !.at = "delete_pending", !.residual = {}, !.rounds = n]
      BY <1>6, <2>1 DEF Judge, Clears, n
    <3>3. n \in 0..MaxRetry /\ "delete_pending" \in ClearPlaces /\ {} \in SUBSET Stores
      BY <3>1 DEF n, ClearPlaces
    <3>4. clear' \in ClearType
      BY <1>0, <3>2, <3>3, ClearTyped DEF Typed
    <3> QED
      BY <1>0, <3>2, <3>4 DEF Typed, ClearType
  <2>2. ASSUME ClearGoesTo("release") \/ ClearGoesTo("lock")
        PROVE  clear' \in ClearType /\ clear'.count = clear.count
    BY <1>0, <2>2 DEF ClearGoesTo, Clears, Typed, ClearType, ClearPlaces
  <2>3. clear.at # "idle" /\ UNCHANGED <<session, archive, pending, replies, runs, cancelled, work, compaction, closing, history>>
    BY <1>6 DEF Judge, Clears, ClearGoesTo
  <2>4. clear' \in ClearType /\ clear'.count = clear.count
    BY <1>6, <2>1, <2>2 DEF Judge
  <2> QED
    BY <1>0, <2>3, <2>4 DEF Sound, Typed, ClearCounted, BarrierIsUp, RunsAreActive
<1>7. CASE Lock
  <2>1. clear' \in ClearType /\ clear'.count = clear.count /\ clear.at # "idle"
    BY <1>0, <1>7 DEF Lock, ClearGoesTo, Clears, Typed, ClearType, ClearPlaces
  <2>2. history' \in HistoryType
    BY <1>0, <1>7 DEF Lock, Typed, HistoryType
  <2>3. session' = session \/ (session' = "clearing_failed" /\ session = "clearing")
    <3>1. \/ session' = IF session = "clearing" THEN "clearing_failed" ELSE session
          \/ session' = session
      BY <1>7 DEF Lock
    <3> QED
      BY <3>1
  <2>4. UNCHANGED <<archive, pending, replies, runs, cancelled, work, compaction, closing>>
    BY <1>7 DEF Lock, ClearGoesTo, Clears
  <2> QED
    BY <1>0, <2>1, <2>2, <2>3, <2>4 DEF Sound, Typed, ClearCounted, BarrierIsUp, RunsAreActive, States
<1>8. CASE Release \/ DieClearing
  <2>1. clear' \in ClearType /\ clear'.count = clear.count /\ clear'.at = "idle"
    BY <1>0, <1>8 DEF Release, DieClearing, ClearGoesTo, Clears, Typed, ClearType, ClearPlaces
  <2>2. session' \in {session, "active"}
    BY <1>8 DEF Release, DieClearing
  <2>3. UNCHANGED <<archive, pending, replies, runs, cancelled, work, compaction, closing, history>>
    BY <1>8 DEF Release, DieClearing, ClearGoesTo, Clears
  <2> QED
    BY <1>0, <2>1, <2>2, <2>3 DEF Sound, Typed, ClearCounted, BarrierIsUp, RunsAreActive, States
<1> QED
  BY <1>1, <1>2, <1>3, <1>4, <1>5, <1>6, <1>7, <1>8 DEF ClearHistory

LEMMA CloseSound ==
  ASSUME Sound, CancelSession
  PROVE  Sound' /\ UNCHANGED <<archive, work, compaction, clear>>
<1>0. Typed /\ ClearCounted /\ RunsAreActive /\ BarrierIsUp
  BY DEF Sound
<1>1. closing' \in ClosingType /\ UNCHANGED <<archive, work, compaction, clear, runs>>
  BY DEF CancelSession, Close, CancelRuns, SweepReplies, SweepPending, Closes, Rows, ClosingType
<1>2. history' \in HistoryType
  BY <1>0 DEF CancelSession, Close, CancelRuns, SweepReplies, SweepPending, LetThrough, HistoryType, Typed
<1>3. session' \in {session, "closed"}
  BY DEF CancelSession, Close, CancelRuns, SweepReplies, SweepPending
<1>4. cancelled' \subseteq Turns /\ replies' \subseteq Turns /\ pending' \in PendingType
  BY <1>0 DEF CancelSession, Close, CancelRuns, SweepReplies, SweepPending, Typed, PendingType, Rows
<1> QED
  BY <1>0, <1>1, <1>2, <1>3, <1>4 DEF Sound, Typed, ClearCounted, BarrierIsUp, RunsAreActive, States

LEMMA CompactSound ==
  ASSUME Sound, Compact
  PROVE  Sound' /\ UNCHANGED <<session, runs, cancelled, pending, replies, work, clear, closing, history>>
<1>0. Typed /\ ClearCounted /\ RunsAreActive /\ BarrierIsUp
  BY DEF Sound
<1>1. compaction' \in CompactionType /\ compaction.turns \in SUBSET Turns
  BY <1>0, CompactionTyped DEF Compact, Typed, CompactionType, ArchiveType
<1>2. archive' \in ArchiveType
  BY <1>0, <1>1, CompactedTyped DEF Compact, Typed
<1>3. UNCHANGED <<session, runs, cancelled, pending, replies, work, clear, closing, history>>
  BY DEF Compact, Rows
<1> QED
  BY <1>0, <1>1, <1>2, <1>3 DEF Sound, Typed, ClearCounted, BarrierIsUp, RunsAreActive

LEMMA SoundNext == Sound /\ [Next]_vars => Sound'
<1> SUFFICES ASSUME Sound, [Next]_vars PROVE Sound'
  OBVIOUS
<1>1. CASE UNCHANGED vars
  BY <1>1 DEF vars, Sound, Typed, ClearCounted, BarrierIsUp, RunsAreActive
<1> QED
  BY <1>1, TurnSound, ClearSound, CloseSound, CompactSound DEF Next

(* Types; a session is in clearing or locked only after a clear began, and *)
(* a run that waits for an answer is registered.                           *)
THEOREM TypeCorrect == Spec => []TypeOK
<1>1. Spec => []Sound
  BY InitSound, SoundNext, PTL DEF Spec
<1> QED
  BY <1>1, SoundTypeOK, PTL

-----------------------------------------------------------------------------
(* What a step of a turn does to the things the properties are about.      *)

LetPlaces == {"register", "accept", "prepared", "reply", "reregister"}

(* Where a turn writes nothing but a reply while it has no pending turn.   *)
Harmless == {"ask_reply", "reply", "over", "dead", "ask_register", "reregister", "rebind"}

RowsEffect(t) ==
    /\ \A u \in runs' : u \in runs \/ (u = t /\ work[t].at \in LetPlaces)
    /\ \A u \in replies' : u \in replies \/ (u = t /\ work[t].at \in LetPlaces)
    /\ \A u \in cancelled : u \in cancelled' \/ (u = t /\ work[t].at \in LetPlaces)
    /\ \A u \in Turns : pending'[u] \in {pending[u], "none"} \/ (u = t /\ work[t].at \in LetPlaces)

WorkEffect(t) ==
    /\ \A u \in Turns : u # t => work'[u] = work[u]
    /\ work'[t].at # "idle"
    /\ session # "active" => work'[t].at \notin LetPlaces
    /\ pending[t] = "none" /\ work[t].at \in Harmless => pending'[t] = "none" /\ work'[t].at \in Harmless

ArchiveEffect(t) ==
    /\ \/ archive' = archive
       \/ archive'.rev > archive.rev /\ archive'.turns = archive.turns /\ archive'.memory = archive.turns
       \/ /\ archive'.rev > archive.rev /\ archive'.memory = archive.memory
          /\ archive'.turns = archive.turns \union {t} /\ work[t].at = "persist"
    /\ compaction' \in {compaction, NoCompaction, Compaction(archive')}
    /\ history'.erased = history.erased /\ history'.late = history.late
    /\ history'.owed = history.owed /\ history'.unlocked = history.unlocked
    /\ \A u \in history'.persisted : u \in history.persisted \/ (u = t /\ t \in archive'.turns)

(* A step that leaves archive and history alone.                           *)
LEMMA Aside ==
  ASSUME NEW t \in Turns, UNCHANGED <<archive, compaction, history>>
  PROVE  ArchiveEffect(t)
  BY DEF ArchiveEffect

LEMMA TurnEffect ==
  ASSUME Sound, NEW t \in Turns, Turn(t)
  PROVE  RowsEffect(t) /\ WorkEffect(t) /\ ArchiveEffect(t)
<1>0. Typed /\ RunsAreActive
  BY DEF Sound
<1>1. CASE Begin(t) \/ AskAccept(t) \/ AskPrepared(t) \/ AskReply(t) \/ AskRegister(t)
  <2>1. \E from, yes \in Places, no \in Places \ LetPlaces :
           /\ Asks(t, from, yes, no)
           /\ no = "idle" => session = "active"
           /\ yes # "idle"
           /\ from \in Harmless => yes \in Harmless /\ no \in Harmless
    BY <1>1 DEF Begin, AskAccept, AskPrepared, AskReply, AskRegister, Places, LetPlaces, Harmless, SessionActive
  <2>2. PICK from, yes \in Places, no \in Places \ LetPlaces :
           /\ Asks(t, from, yes, no)
           /\ no = "idle" => session = "active"
           /\ yes # "idle"
           /\ from \in Harmless => yes \in Harmless /\ no \in Harmless
    BY <2>1
  <2>3. /\ work[t].at = from
        /\ \/ session = "active" /\ Moves(t, yes)
           \/ session # "active" /\ Moves(t, no)
        /\ UNCHANGED <<session, archive, runs, cancelled, pending, replies, compaction, clear, closing, history>>
    BY <1>0, <2>2, Asked DEF Typed
  <2>4. RowsEffect(t)
    BY <2>3 DEF RowsEffect
  <2>5. WorkEffect(t)
    BY <2>2, <2>3 DEF WorkEffect, Moves
  <2> QED
    BY <2>3, <2>4, <2>5, Aside
<1>2. CASE Register(t)
  <2>1. work[t].at \in {"register", "reregister"} /\ Moves(t, IF At(t, "register") THEN "ask_accept" ELSE "rebind")
    BY <1>0, <1>2, Gone DEF Register, Typed, Places
  <2>2. /\ runs' = runs \union {t} /\ cancelled' = cancelled \ {t}
        /\ UNCHANGED <<session, archive, pending, replies, compaction, clear, closing, history>>
    BY <1>2 DEF Register, Others
  <2>3. RowsEffect(t)
    BY <2>1, <2>2 DEF RowsEffect, LetPlaces
  <2>4. WorkEffect(t)
    BY <2>1, <2>2 DEF WorkEffect, Moves, LetPlaces, Harmless, At
  <2> QED
    BY <2>2, <2>3, <2>4, Aside
<1>3. CASE Accept(t) \/ Prepared(t)
  <2>1. work[t].at \in {"accept", "prepared"} /\ (Moves(t, "prepare") \/ Moves(t, "answer"))
    BY <1>0, <1>3, Gone DEF Accept, Prepared, Typed, Places, At
  <2>2. /\ \A u \in Turns : u # t => pending'[u] = pending[u]
        /\ UNCHANGED <<session, archive, runs, cancelled, replies, compaction, clear, closing, history>>
    BY <1>0, <1>3 DEF Accept, Prepared, Typed, Others, PendingType
  <2>3. RowsEffect(t)
    BY <2>1, <2>2 DEF RowsEffect, LetPlaces
  <2>4. WorkEffect(t)
    BY <2>1, <2>2 DEF WorkEffect, Moves, LetPlaces, Harmless
  <2> QED
    BY <2>2, <2>3, <2>4, Aside
<1>4. CASE Prepare(t)
  <2>1. work[t].at = "prepare" /\ UNCHANGED <<session, runs, cancelled, pending, replies, clear, closing, history>>
    BY <1>4 DEF Prepare, Rows, At
  <2>2. archive' \in ArchiveType
    BY <1>0, <1>4, CompactedTyped DEF Prepare, Typed, ArchiveType
  <2>3. work'[t].at = "ask_prepared" /\ \A u \in Turns : u # t => work'[u] = work[u]
    BY <1>0, <1>4 DEF Prepare, Typed, WorkType
  <2>4. WorkEffect(t)
    BY <2>1, <2>3 DEF WorkEffect, LetPlaces, Harmless
  <2>5. RowsEffect(t)
    BY <2>1 DEF RowsEffect
  <2>6. ArchiveEffect(t)
    <3>1. CASE UNCHANGED archive
      BY <1>4, <2>1, <3>1 DEF ArchiveEffect, Prepare
    <3>2. CASE archive' = Compacted(archive.turns)
      <4>1. archive'.rev > archive.rev /\ archive'.turns = archive.turns /\ archive'.memory = archive.turns
        BY <1>0, <3>2 DEF Compacted, Typed, ArchiveType
      <4> QED
        BY <1>4, <2>1, <4>1 DEF ArchiveEffect, Prepare
    <3> QED
      BY <1>4, <3>1, <3>2 DEF Prepare
  <2> QED
    BY <2>4, <2>5, <2>6
<1>5. CASE Answer(t)
  <2>1. At(t, "answer") /\ UNCHANGED <<session, archive, cancelled, replies, compaction, clear, closing, history>>
    BY <1>5 DEF Answer, Rows, Settles, Others
  <2>2. CASE GoesTo(t, "persist") /\ UNCHANGED Rows
    <3>1. Moves(t, "persist") /\ UNCHANGED <<runs, pending>>
      BY <1>0, <2>2, Gone DEF Typed, Places, Rows
    <3> QED
      BY <2>1, <3>1, Aside DEF RowsEffect, WorkEffect, Moves, LetPlaces, Harmless, At
  <2>3. CASE Settles(t)
    <3>1. Moves(t, "over") /\ runs' = runs \ {t} /\ \A u \in Turns : pending'[u] \in {pending[u], "none"}
      BY <1>0, <2>3, Settled DEF Typed
    <3> QED
      BY <2>1, <3>1, Aside DEF RowsEffect, WorkEffect, Moves, LetPlaces, Harmless, At
  <2> QED
    BY <1>5, <2>2, <2>3 DEF Answer
<1>6. CASE Persist(t)
  <2>0. work[t].at = "persist"
    BY <1>6 DEF Persist, At
  <2>1. CASE Persisted(t)
    <3>1. /\ archive' = WithTurn(t)
          /\ archive'.rev > archive.rev /\ archive'.memory = archive.memory
          /\ archive'.turns = archive.turns \union {t}
      BY <1>0, <2>1 DEF Persisted, WithTurn, Typed, ArchiveType
    <3>2. compaction' \in {compaction, Compaction(archive')}
      BY <2>1 DEF Persisted
    <3>3. Moves(t, "complete")
      BY <1>0, <2>1, Gone DEF Persisted, Typed, Places
    <3>4. history' = [history EXCEPT !.persisted = history.persisted \union {t}]
      BY <2>1 DEF Persisted
    <3>5. /\ history'.erased = history.erased /\ history'.late = history.late
          /\ history'.owed = history.owed /\ history'.unlocked = history.unlocked
          /\ history'.persisted = history.persisted \union {t}
      BY <1>0, <3>4 DEF Typed, HistoryType
    <3>6. UNCHANGED <<session, runs, pending, replies, cancelled, clear, closing>>
      BY <2>1 DEF Persisted, Rows
    <3>7. ArchiveEffect(t)
      BY <2>0, <3>1, <3>2, <3>5 DEF ArchiveEffect
    <3> QED
      BY <2>0, <3>3, <3>6, <3>7 DEF RowsEffect, WorkEffect, Moves, LetPlaces, Harmless
  <2>2. CASE Settles(t) /\ UNCHANGED <<archive, replies, cancelled, history>> /\ Others
    <3>1. Moves(t, "over") /\ runs' = runs \ {t} /\ \A u \in Turns : pending'[u] \in {pending[u], "none"}
      BY <1>0, <2>2, Settled DEF Typed
    <3> QED
      BY <2>0, <2>2, <3>1, Aside DEF RowsEffect, WorkEffect, Moves, LetPlaces, Harmless, Others
  <2> QED
    BY <1>6, <2>1, <2>2 DEF Persist
<1>7. CASE Complete(t)
  <2>1. work[t].at = "complete" /\ Moves(t, "ask_reply") /\ \A u \in Turns : pending'[u] \in {pending[u], "none"}
    BY <1>0, <1>7, Gone DEF Complete, Typed, Places, PendingType, At
  <2>2. runs' = runs \ {t} /\ UNCHANGED <<session, archive, replies, cancelled, compaction, clear, closing, history>>
    BY <1>7 DEF Complete, Others
  <2> QED
    BY <2>1, <2>2, Aside DEF RowsEffect, WorkEffect, Moves, LetPlaces, Harmless
<1>8. CASE Reply(t)
  <2>1. work[t].at = "reply" /\ Moves(t, "over")
    BY <1>0, <1>8, Gone DEF Reply, Typed, Places, At
  <2>2. replies' = replies \union {t}
        /\ UNCHANGED <<session, archive, runs, pending, cancelled, compaction, clear, closing, history>>
    BY <1>8 DEF Reply, Others
  <2> QED
    BY <2>1, <2>2, Aside DEF RowsEffect, WorkEffect, Moves, LetPlaces, Harmless
<1>9. CASE Die(t) \/ Cleanup(t)
  <2>1. Moves(t, "dead") \/ (UNCHANGED work /\ work[t].at = "dead")
    BY <1>0, <1>9, Gone DEF Die, Cleanup, Typed, Places, At
  <2>2. runs' \subseteq runs
        /\ UNCHANGED <<session, archive, replies, pending, cancelled, compaction, clear, closing, history>>
    BY <1>9 DEF Die, Cleanup, Others, Rows
  <2> QED
    BY <2>1, <2>2, Aside DEF RowsEffect, WorkEffect, Moves, LetPlaces, Harmless
<1>10. CASE Resume(t)
  <2>1. /\ work'[t].at = "ask_register" /\ pending[t] # "none"
        /\ \A u \in Turns : u # t => work'[u] = work[u]
    BY <1>0, <1>10 DEF Resume, Typed, WorkType
  <2>2. UNCHANGED <<session, archive, runs, pending, replies, cancelled, compaction, clear, closing, history>>
    BY <1>10 DEF Resume, Rows, Others
  <2> QED
    BY <2>1, <2>2, Aside DEF RowsEffect, WorkEffect, LetPlaces, Harmless
<1>11. CASE Rebind(t)
  <2>1. work[t].at = "rebind" /\ UNCHANGED <<session, archive, cancelled, replies, compaction, clear, closing, history>>
    BY <1>11 DEF Rebind, Rows, Settles, Others, At
  <2>2. CASE pending[t] # "none" /\ SessionActive
    <3>1. GoesTo(t, IF work[t].append THEN "answer" ELSE "prepare") /\ UNCHANGED <<runs, pending>>
      BY <1>11, <2>2 DEF Rebind, Rows
    <3>2. Moves(t, "answer") \/ Moves(t, "prepare")
      BY <1>0, <3>1, Gone DEF Typed, Places
    <3> QED
      BY <2>1, <2>2, <3>1, <3>2, Aside DEF RowsEffect, WorkEffect, Moves, LetPlaces, Harmless
  <2>3. CASE ~(pending[t] # "none" /\ SessionActive)
    <3>1. Settles(t)
      BY <1>11, <2>3 DEF Rebind
    <3>2. Moves(t, "over") /\ runs' = runs \ {t} /\ \A u \in Turns : pending'[u] \in {pending[u], "none"}
      BY <1>0, <3>1, Settled DEF Typed
    <3> QED
      BY <2>1, <3>2, Aside DEF RowsEffect, WorkEffect, Moves, LetPlaces, Harmless
  <2> QED
    BY <2>2, <2>3
<1> QED
  BY <1>1, <1>2, <1>3, <1>4, <1>5, <1>6, <1>7, <1>8, <1>9, <1>10, <1>11 DEF Turn

-----------------------------------------------------------------------------
(* Nothing that is persisted is lost.                                      *)

LEMMA PersistedNext == Sound /\ PersistedStays /\ [Next]_vars => PersistedStays'
<1> SUFFICES ASSUME Sound, PersistedStays, [Next]_vars PROVE PersistedStays'
  OBVIOUS
<1>0. Typed
  BY DEF Sound
<1>1. ASSUME NEW t \in Turns, Turn(t) PROVE PersistedStays'
  <2>1. ArchiveEffect(t)
    BY <1>1, TurnEffect
  <2> QED
    BY <2>1 DEF ArchiveEffect, PersistedStays
<1>2. CASE Compact
  <2>1. archive'.turns = archive.turns /\ history' = history
    BY <1>2 DEF Compact, Compacted
  <2> QED
    BY <2>1 DEF PersistedStays
<1>3. CASE ClearHistory
  <2>1. CASE Empty /\ archive.rev = clear.base
    <3>1. history' = [history EXCEPT !.erased = history.erased \union archive.turns \union HaveSeen,
                                     !.owed = {"pending", "replies"}, !.unlocked = FALSE]
      BY <2>1 DEF Empty
    <3>2. history'.persisted = history.persisted /\ history.erased \union archive.turns \subseteq history'.erased
      BY <1>0, <3>1 DEF Typed, HistoryType
    <3> QED
      BY <3>2 DEF PersistedStays
  <2>2. CASE ~(Empty /\ archive.rev = clear.base)
    <3>1. archive' = archive
      BY <1>3, <2>2 DEF ClearHistory, BeginClearing, LookForRuns, LookForPending, LookForReplies, Looks,
         Load, Empty, DeletePending, DeleteReplies, Deletes, Judge, Lock, Release, DieClearing
    <3>2. history'.persisted = history.persisted /\ history'.erased = history.erased
      BY <1>0, <1>3, <2>2 DEF ClearHistory, BeginClearing, LookForRuns, LookForPending, LookForReplies, Looks,
         Load, Empty, DeletePending, DeleteReplies, Deletes, Judge, Lock, Release, DieClearing, Typed, HistoryType
    <3> QED
      BY <3>1, <3>2 DEF PersistedStays
  <2> QED
    BY <2>1, <2>2
<1>4. CASE CancelSession
  <2>1. archive' = archive /\ history'.persisted = history.persisted /\ history'.erased = history.erased
    BY <1>0, <1>4 DEF CancelSession, Close, CancelRuns, SweepReplies, SweepPending, Closes, Typed, HistoryType
  <2> QED
    BY <2>1 DEF PersistedStays
<1>5. CASE UNCHANGED vars
  BY <1>5 DEF vars, PersistedStays
<1> QED
  BY <1>1, <1>2, <1>3, <1>4, <1>5 DEF Next

(* A turn whose persist_turn has returned stays in the archive until this  *)
(* is cleared, whatever turns and compactions write beside it.             *)
THEOREM PersistedStaysHolds == Spec => []PersistedStays
<1>1. Init => PersistedStays
  BY DEF Init, NoHistory, PersistedStays
<1> QED
  BY <1>1, InitSound, SoundNext, PersistedNext, PTL DEF Spec

-----------------------------------------------------------------------------
(* A closed session stays closed: the last step of a clear, the one that   *)
(* puts a session back into use, asks for one that is in clearing.         *)
THEOREM ClosedStaysHolds == Spec => ClosedStays
<1>1. Sound /\ [Next]_vars => [session = "closed" => session' = "closed"]_vars
  <2> SUFFICES ASSUME Sound, [Next]_vars, session = "closed" PROVE session' = "closed"
    OBVIOUS
  <2>1. ASSUME NEW t \in Turns, Turn(t) PROVE session' = "closed"
    BY <2>1, TurnSound
  <2>2. CASE ClearHistory
    BY <2>2 DEF ClearHistory, BeginClearing, LookForRuns, LookForPending, LookForReplies, Looks, Load, Empty,
       DeletePending, DeleteReplies, Deletes, Judge, Lock, Release, DieClearing
  <2>3. CASE CancelSession
    BY <2>3 DEF CancelSession, Close, CancelRuns, SweepReplies, SweepPending
  <2>4. CASE Compact \/ UNCHANGED vars
    BY <2>4 DEF Compact, vars
  <2> QED
    BY <2>1, <2>2, <2>3, <2>4 DEF Next
<1> QED
  BY <1>1, InitSound, SoundNext, PTL DEF Spec, ClosedStays

-----------------------------------------------------------------------------
(* A session whose history was cleared by half is locked.  What a clear    *)
(* owes it has noted, until it gives up and locks; after that the session  *)
(* is out of its hands.                                                    *)
BeforeTheCut == {"runs", "pending", "replies", "load", "empty"}

OwedIsNoted ==
    /\ clear.at = "delete_pending" => clear.residual = {}
    /\ clear.at = "delete_replies" => history.owed \subseteq clear.residual \union {"replies"}
    /\ clear.at = "judge" => history.owed \subseteq clear.residual
    /\ clear.at \in BeforeTheCut \union {"release"} /\ history.owed # {} /\ ~history.unlocked
          => session \in {"clearing_failed", "closed"}

LEMMA OwedNext == Sound /\ OwedIsNoted /\ MixedIsLocked /\ [Next]_vars => OwedIsNoted' /\ MixedIsLocked'
<1> SUFFICES ASSUME Sound, OwedIsNoted, MixedIsLocked, [Next]_vars PROVE OwedIsNoted' /\ MixedIsLocked'
  OBVIOUS
<1>0. Typed /\ BarrierIsUp
  BY DEF Sound
<1>1. ASSUME NEW t \in Turns, Turn(t) PROVE OwedIsNoted' /\ MixedIsLocked'
  <2>1. UNCHANGED <<session, clear>> /\ history'.owed = history.owed /\ history'.unlocked = history.unlocked
    BY <1>1, TurnSound, TurnEffect DEF ArchiveEffect
  <2> QED
    BY <2>1 DEF OwedIsNoted, MixedIsLocked
<1>2. CASE Compact \/ UNCHANGED vars
  BY <1>2 DEF Compact, vars, OwedIsNoted, MixedIsLocked
<1>3. CASE CancelSession
  <2>1. UNCHANGED clear /\ history'.owed = history.owed /\ history'.unlocked = history.unlocked
    BY <1>0, <1>3 DEF CancelSession, Close, CancelRuns, SweepReplies, SweepPending, Closes, Typed, HistoryType
  <2>2. session' = session \/ session' = "closed"
    BY <1>3 DEF CancelSession, Close, CancelRuns, SweepReplies, SweepPending
  <2> QED
    BY <2>1, <2>2 DEF OwedIsNoted, MixedIsLocked
<1>4. CASE BeginClearing
  <2>1. clear.at = "idle" /\ session = "active" /\ clear'.at = "runs"
    BY <1>0, <1>4 DEF BeginClearing, Clears, Typed, ClearType
  <2>2. history'.owed = history.owed /\ history'.unlocked = history.unlocked
    BY <1>0, <1>4 DEF BeginClearing, Typed, HistoryType
  <2> QED
    BY <2>1, <2>2 DEF OwedIsNoted, MixedIsLocked
<1>5. CASE LookForRuns \/ LookForPending \/ LookForReplies \/ Load
  <2>1. clear.at \in BeforeTheCut /\ clear'.at \in BeforeTheCut \union {"release"}
    BY <1>0, <1>5 DEF LookForRuns, LookForPending, LookForReplies, Looks, Load, Clears, ClearGoesTo, Typed,
       ClearType, BeforeTheCut
  <2>2. UNCHANGED <<session, history>>
    BY <1>5 DEF LookForRuns, LookForPending, LookForReplies, Looks, Load
  <2> QED
    BY <1>0, <2>1, <2>2 DEF OwedIsNoted, MixedIsLocked, BeforeTheCut
<1>6. CASE Empty
  <2>1. UNCHANGED session /\ clear.at = "empty"
    BY <1>6 DEF Empty
  <2>2. CASE archive.rev = clear.base
    <3>1. clear'.at = "delete_pending" /\ clear'.residual = {}
      BY <1>0, <1>6, <2>2 DEF Empty, Clears, Typed, ClearType
    <3> QED
      BY <1>0, <2>1, <3>1 DEF OwedIsNoted, MixedIsLocked, BarrierIsUp, BeforeTheCut
  <2>3. CASE archive.rev # clear.base
    <3>1. clear'.at = "release" /\ UNCHANGED history
      BY <1>0, <1>6, <2>3 DEF Empty, Clears, ClearGoesTo, Typed, ClearType
    <3> QED
      BY <1>0, <2>1, <3>1 DEF OwedIsNoted, MixedIsLocked, BarrierIsUp, BeforeTheCut
  <2> QED
    BY <2>2, <2>3
<1>7. ASSUME NEW ok \in BOOLEAN, DeletePending(ok) PROVE OwedIsNoted' /\ MixedIsLocked'
  <2>1. /\ clear.at = "delete_pending" /\ clear'.at = "delete_replies" /\ UNCHANGED session
        /\ clear'.residual = IF ok THEN clear.residual ELSE clear.residual \union {"pending"}
    BY <1>0, <1>7 DEF DeletePending, Deletes, Clears, Typed, ClearType
  <2>2. /\ history'.owed = IF ok THEN history.owed \ {"pending"} ELSE history.owed
        /\ history'.owed \subseteq {"pending", "replies"}
    BY <1>0, <1>7 DEF DeletePending, Deletes, Typed, HistoryType, Stores
  <2> QED
    BY <1>0, <2>1, <2>2 DEF OwedIsNoted, MixedIsLocked, BarrierIsUp, BeforeTheCut
<1>8. ASSUME NEW ok \in BOOLEAN, DeleteReplies(ok) PROVE OwedIsNoted' /\ MixedIsLocked'
  <2>1. /\ clear.at = "delete_replies" /\ clear'.at = "judge" /\ UNCHANGED session
        /\ clear'.residual = IF ok THEN clear.residual ELSE clear.residual \union {"replies"}
    BY <1>0, <1>8 DEF DeleteReplies, Deletes, Clears, Typed, ClearType
  <2>2. history'.owed = IF ok THEN history.owed \ {"replies"} ELSE history.owed
    BY <1>0, <1>8 DEF DeleteReplies, Deletes, Typed, HistoryType
  <2> QED
    BY <1>0, <2>1, <2>2 DEF OwedIsNoted, MixedIsLocked, BarrierIsUp, BeforeTheCut
<1>9. CASE Judge
  <2>1. clear.at = "judge" /\ UNCHANGED <<session, history>>
    BY <1>9 DEF Judge
  <2>2. CASE clear.residual = {}
    <3>1. clear'.at = "release"
      BY <1>0, <1>9, <2>2 DEF Judge, ClearGoesTo, Clears, Typed, ClearType
    <3> QED
      BY <2>1, <2>2, <3>1 DEF OwedIsNoted, MixedIsLocked, BeforeTheCut
  <2>3. CASE clear.residual # {} /\ clear.rounds < MaxRetry
    <3>1. clear'.at = "delete_pending" /\ clear'.residual = {}
      BY <1>0, <1>9, <2>3 DEF Judge, Clears, Typed, ClearType
    <3> QED
      BY <2>1, <3>1 DEF OwedIsNoted, MixedIsLocked, BeforeTheCut
  <2>4. CASE clear.residual # {} /\ ~(clear.rounds < MaxRetry)
    <3>1. clear'.at = "lock"
      BY <1>0, <1>9, <2>4 DEF Judge, ClearGoesTo, Clears, Typed, ClearType
    <3> QED
      BY <2>1, <3>1 DEF OwedIsNoted, MixedIsLocked, BeforeTheCut
  <2> QED
    BY <2>2, <2>3, <2>4
<1>10. CASE Lock
  <2>1. clear.at = "lock" /\ clear'.at = "release"
    BY <1>0, <1>10 DEF Lock, ClearGoesTo, Clears, Typed, ClearType
  <2>2. CASE session' = IF session = "clearing" THEN "clearing_failed" ELSE session
    <3>1. session' \in {"clearing_failed", "closed"}
      BY <1>0, <2>1, <2>2 DEF BarrierIsUp, Typed, States
    <3> QED
      BY <2>1, <3>1 DEF OwedIsNoted, MixedIsLocked, BeforeTheCut
  <2>3. CASE history' = [history EXCEPT !.unlocked = TRUE]
    <3>1. history'.unlocked
      BY <1>0, <2>3 DEF Typed, HistoryType
    <3> QED
      BY <2>1, <3>1 DEF OwedIsNoted, MixedIsLocked, BeforeTheCut
  <2> QED
    BY <1>10, <2>2, <2>3 DEF Lock
<1>11. CASE Release \/ DieClearing
  <2>1. clear'.at = "idle" /\ UNCHANGED history /\ clear.at # "idle"
    BY <1>0, <1>11 DEF Release, DieClearing, ClearGoesTo, Clears, Typed, ClearType
  <2>2. session' = "active" => clear.at = "release" /\ session = "clearing"
    BY <1>0, <1>11 DEF Release, DieClearing, BarrierIsUp
  <2> QED
    BY <2>1, <2>2 DEF OwedIsNoted, MixedIsLocked, BeforeTheCut
<1> QED
  BY <1>1, <1>2, <1>3, <1>4, <1>5, <1>6, <1>7, <1>8, <1>9, <1>10, <1>11 DEF Next, ClearHistory

(* A clear that has emptied the archive leaves a session open for writing  *)
(* only when it has emptied the other stores, too, or its lock could not   *)
(* be written.                                                             *)
THEOREM MixedIsLockedHolds == Spec => []MixedIsLocked
<1>1. Init => OwedIsNoted /\ MixedIsLocked
  BY DEF Init, NoHistory, OwedIsNoted, MixedIsLocked, BeforeTheCut
<1> QED
  BY <1>1, InitSound, SoundNext, OwedNext, PTL DEF Spec

-----------------------------------------------------------------------------
(* The barrier.  While it is up, only those it had let through before can  *)
(* write; they are in history.late.                                        *)
OnlyLateWrite == session # "active" => LetThrough \subseteq history.late

LEMMA LateGrows ==
  ASSUME Sound, ClearHistory \/ CancelSession
  PROVE  /\ history.late \subseteq history'.late
         /\ UNCHANGED work
         /\ session' # "active" /\ session = "active" => LetThrough \subseteq history'.late
<1>0. Typed
  BY DEF Sound
<1>1. CASE BeginClearing \/ Close
  <2>1. history' = [history EXCEPT !.late = history.late \union LetThrough]
    BY <1>1 DEF BeginClearing, Close
  <2>2. history'.late = history.late \union LetThrough
    BY <1>0, <2>1 DEF Typed, HistoryType
  <2> QED
    BY <2>2, ClearSound, CloseSound
<1>2. CASE LookForRuns \/ LookForPending \/ LookForReplies \/ Load \/ Judge \/ Release \/ DieClearing
  <2>1. UNCHANGED history /\ (session' # "active" => session # "active")
    BY <1>0, <1>2 DEF LookForRuns, LookForPending, LookForReplies, Looks, Load, Judge, Release, DieClearing
  <2> QED
    BY <2>1, ClearSound, CloseSound
<1>3. CASE Empty \/ \E ok \in BOOLEAN : DeletePending(ok) \/ DeleteReplies(ok)
  <2>1. history'.late = history.late /\ UNCHANGED session
    BY <1>0, <1>3 DEF Empty, DeletePending, DeleteReplies, Deletes, Typed, HistoryType
  <2> QED
    BY <2>1, ClearSound, CloseSound
<1>4. CASE Lock
  <2>1. history'.late = history.late /\ clear.at # "idle"
    BY <1>0, <1>4 DEF Lock, Typed, HistoryType
  <2> QED
    BY <2>1, ClearSound, CloseSound DEF Sound, BarrierIsUp
<1>5. CASE CancelRuns \/ SweepReplies \/ SweepPending
  <2>1. UNCHANGED <<session, history>>
    BY <1>5 DEF CancelRuns, SweepReplies, SweepPending
  <2> QED
    BY <2>1, ClearSound, CloseSound
<1> QED
  BY <1>1, <1>2, <1>3, <1>4, <1>5 DEF ClearHistory, CancelSession

LEMMA OnlyLateNext == Sound /\ OnlyLateWrite /\ [Next]_vars => OnlyLateWrite'
<1> SUFFICES ASSUME Sound, OnlyLateWrite, [Next]_vars PROVE OnlyLateWrite'
  OBVIOUS
<1>1. ASSUME NEW t \in Turns, Turn(t) PROVE OnlyLateWrite'
  <2>1. session' = session /\ history'.late = history.late /\ WorkEffect(t)
    BY <1>1, TurnSound, TurnEffect DEF ArchiveEffect
  <2> QED
    BY <2>1 DEF OnlyLateWrite, LetThrough, LetPlaces, WorkEffect
<1>2. CASE ClearHistory \/ CancelSession
  <2>1. LetThrough' = LetThrough
    BY <1>2, LateGrows DEF LetThrough
  <2> QED
    BY <1>2, <2>1, LateGrows DEF OnlyLateWrite
<1>3. CASE Compact \/ UNCHANGED vars
  <2>1. UNCHANGED <<session, work, history>>
    BY <1>3 DEF Compact, vars
  <2> QED
    BY <2>1 DEF OnlyLateWrite, LetThrough
<1> QED
  BY <1>1, <1>2, <1>3 DEF Next

-----------------------------------------------------------------------------
(* When a session is closed: each sweep leaves only rows of late writers.  *)
SweptSoFar ==
    /\ closing # "no" => session = "closed"
    /\ closing \in {"replies", "pending", "done"} => runs \ cancelled \subseteq history.late
    /\ closing \in {"pending", "done"} => replies \subseteq history.late
    /\ closing = "done" => \A u \in Turns : pending[u] = "none" \/ u \in history.late

LEMMA SweptNext == Sound /\ OnlyLateWrite /\ SweptSoFar /\ [Next]_vars => SweptSoFar'
<1> SUFFICES ASSUME Sound, OnlyLateWrite, SweptSoFar, [Next]_vars PROVE SweptSoFar'
  OBVIOUS
<1>0. Typed
  BY DEF Sound
<1>1. ASSUME NEW t \in Turns, Turn(t) PROVE SweptSoFar'
  <2>1. UNCHANGED <<session, closing>> /\ history'.late = history.late /\ RowsEffect(t)
    BY <1>1, TurnSound, TurnEffect DEF ArchiveEffect
  <2>2. closing # "no" /\ work[t].at \in LetPlaces => t \in history.late
    BY DEF SweptSoFar, OnlyLateWrite, LetThrough, LetPlaces
  <2> QED
    BY <2>1, <2>2 DEF SweptSoFar, RowsEffect
<1>2. CASE ClearHistory
  <2>1. history.late \subseteq history'.late /\ UNCHANGED <<runs, cancelled, closing>>
    BY <1>2, LateGrows, ClearSound
  <2>2. session = "closed" => session' = "closed"
    BY <1>2 DEF ClearHistory, BeginClearing, LookForRuns, LookForPending, LookForReplies, Looks, Load, Empty,
       DeletePending, DeleteReplies, Deletes, Judge, Lock, Release, DieClearing
  <2>3. replies' \subseteq replies /\ \A u \in Turns : pending'[u] \in {pending[u], "none"}
    BY <1>2 DEF ClearHistory, BeginClearing, LookForRuns, LookForPending, LookForReplies, Looks, Load, Empty,
       DeletePending, DeleteReplies, Deletes, Judge, Lock, Release, DieClearing
  <2> QED
    BY <2>1, <2>2, <2>3 DEF SweptSoFar
<1>3. CASE CancelSession
  <2>1. CASE Close
    BY <2>1 DEF Close, Closes, SweptSoFar
  <2>2. CASE CancelRuns
    BY <1>0, <2>2 DEF CancelRuns, Closes, SweptSoFar, Rows, Typed
  <2>3. CASE SweepReplies
    BY <2>3 DEF SweepReplies, Closes, SweptSoFar
  <2>4. CASE SweepPending
    BY <2>4 DEF SweepPending, Closes, SweptSoFar
  <2> QED
    BY <1>3, <2>1, <2>2, <2>3, <2>4 DEF CancelSession
<1>4. CASE Compact \/ UNCHANGED vars
  BY <1>4 DEF Compact, Rows, vars, SweptSoFar
<1> QED
  BY <1>1, <1>2, <1>3, <1>4 DEF Next

(* When cancel_session is done, no run goes on and no row is left, except  *)
(* of those that had been let through the barrier when it rose.            *)
THEOREM ClosedIsSweptHolds == Spec => []ClosedIsSwept
<1>1. Init => OnlyLateWrite /\ SweptSoFar
  BY DEF Init, OnlyLateWrite, SweptSoFar
<1>2. Sound /\ SweptSoFar => ClosedIsSwept
  BY DEF SweptSoFar, ClosedIsSwept
<1> QED
  BY <1>1, <1>2, InitSound, SoundNext, OnlyLateNext, SweptNext, PTL DEF Spec

-----------------------------------------------------------------------------
(* What is cleared does not come back.  At the cut, past the looks for     *)
(* runs and pending turns, only late writers are in a run or have a turn   *)
(* that can be resumed; the others never get to write again.               *)
ClearHasLooked ==
    /\ clear.at \in {"pending", "replies", "load", "empty"} => runs \subseteq history.late
    /\ clear.at \in {"replies", "load", "empty"} =>
          \A u \in Turns : pending[u] = "none" \/ u \in history.late

CompactionFits ==
    compaction.busy => /\ compaction.rev <= archive.rev
                       /\ compaction.rev = archive.rev => compaction.turns = archive.turns

ArchivedHasBegun == \A u \in archive.turns : work[u].at # "idle"

ErasedIsOver ==
    \A u \in Turns : u \in history.erased /\ u \notin history.late =>
       /\ pending[u] = "none" /\ work[u].at \in Harmless
       /\ u \notin archive.turns /\ u \notin archive.memory

Erasure == OnlyLateWrite /\ ClearHasLooked /\ CompactionFits /\ ArchivedHasBegun /\ ErasedIsOver

LEMMA TurnErasure ==
  ASSUME Sound, Erasure, NEW t \in Turns, Turn(t)
  PROVE  ClearHasLooked' /\ CompactionFits' /\ ArchivedHasBegun' /\ ErasedIsOver'
<1>0. Typed /\ Typed' /\ BarrierIsUp
  BY TurnSound DEF Sound
<1>1. /\ UNCHANGED <<session, clear>> /\ RowsEffect(t) /\ WorkEffect(t) /\ ArchiveEffect(t)
      /\ history'.late = history.late /\ history'.erased = history.erased
  BY TurnSound, TurnEffect DEF ArchiveEffect
<1>2. clear.at # "idle" /\ work[t].at \in LetPlaces => t \in history.late
  BY <1>0 DEF Erasure, OnlyLateWrite, BarrierIsUp, LetThrough, LetPlaces
<1>3. ClearHasLooked'
  BY <1>1, <1>2 DEF Erasure, ClearHasLooked, RowsEffect
<1>4. CompactionFits'
  <2>1. CASE compaction' = compaction
    BY <1>0, <1>1, <2>1 DEF Erasure, CompactionFits, ArchiveEffect, Typed, ArchiveType, CompactionType
  <2>2. CASE compaction' = NoCompaction
    BY <2>2 DEF CompactionFits, NoCompaction
  <2>3. CASE compaction' = Compaction(archive')
    BY <1>0, <2>3 DEF CompactionFits, Compaction, Typed, ArchiveType
  <2> QED
    BY <1>1, <2>1, <2>2, <2>3 DEF ArchiveEffect
<1>5. ArchivedHasBegun'
  BY <1>0, <1>1 DEF Erasure, ArchivedHasBegun, ArchiveEffect, WorkEffect, Typed, ArchiveType
<1>6. ErasedIsOver'
  <2> SUFFICES ASSUME NEW u \in Turns, u \in history.erased, u \notin history.late
               PROVE  /\ pending'[u] = "none" /\ work'[u].at \in Harmless
                      /\ u \notin archive'.turns /\ u \notin archive'.memory
    BY <1>1 DEF ErasedIsOver
  <2>1. /\ pending[u] = "none" /\ work[u].at \in Harmless
        /\ u \notin archive.turns /\ u \notin archive.memory
    BY DEF Erasure, ErasedIsOver
  <2>2. u \notin archive'.turns /\ u \notin archive'.memory
    BY <1>1, <2>1 DEF ArchiveEffect, Harmless
  <2>3. pending'[u] = "none" /\ work'[u].at \in Harmless
    BY <1>1, <2>1 DEF WorkEffect, RowsEffect
  <2> QED
    BY <2>2, <2>3
<1> QED
  BY <1>3, <1>4, <1>5, <1>6

(* The steps that leave the archive as it is.                              *)
LEMMA QuietErasure ==
  ASSUME Erasure,
         UNCHANGED <<archive, compaction, work>>,
         history.late \subseteq history'.late, history'.erased = history.erased,
         \A u \in Turns : pending'[u] \in {pending[u], "none"}
  PROVE  CompactionFits' /\ ArchivedHasBegun' /\ ErasedIsOver'
  BY DEF Erasure, CompactionFits, ArchivedHasBegun, ErasedIsOver

LEMMA CutErasure ==
  ASSUME Sound, Erasure, Empty, archive.rev = clear.base
  PROVE  ClearHasLooked' /\ CompactionFits' /\ ArchivedHasBegun' /\ ErasedIsOver'
<1>0. Typed /\ RunsAreActive /\ BarrierIsUp
  BY DEF Sound
<1>1. /\ clear.at = "empty" /\ archive' = [rev |-> archive.rev + 1, turns |-> {}, memory |-> {}]
      /\ UNCHANGED <<session, pending, replies, runs, work, compaction>>
      /\ clear'.at = "delete_pending"
  BY <1>0 DEF Empty, Clears, Typed, ClearType
<1>2. history'.late = history.late /\ history'.erased = history.erased \union archive.turns \union HaveSeen
  <2>1. history' = [history EXCEPT !.erased = history.erased \union archive.turns \union HaveSeen,
                                   !.owed = {"pending", "replies"}, !.unlocked = FALSE]
    BY DEF Empty
  <2> QED
    BY <1>0, <2>1 DEF Typed, HistoryType
<1>3. ASSUME NEW u \in Turns, u \notin history.late, u \in archive.turns \union HaveSeen
      PROVE  pending[u] = "none" /\ work[u].at \in Harmless
  <2>1. pending[u] = "none" /\ u \notin runs /\ work[u].at \notin LetPlaces
    BY <1>0, <1>1, <1>3 DEF Erasure, ClearHasLooked, OnlyLateWrite, BarrierIsUp, LetThrough, LetPlaces
  <2>2. work[u].at \in Places \ (InRun \union LetPlaces)
    BY <1>0, <2>1 DEF RunsAreActive, Typed, WorkType
  <2>3. u \in archive.turns
    BY <1>3, <2>1, <2>2 DEF HaveSeen, InRun, LetPlaces
  <2>4. work[u].at # "idle"
    BY <2>3 DEF Erasure, ArchivedHasBegun
  <2> QED
    BY <2>1, <2>2, <2>4 DEF Places, InRun, LetPlaces, Harmless
<1>4. ErasedIsOver'
  BY <1>1, <1>2, <1>3 DEF Erasure, ErasedIsOver
<1>5. CompactionFits'
  BY <1>0, <1>1 DEF Erasure, CompactionFits, Typed, ArchiveType, CompactionType
<1> QED
  BY <1>1, <1>4, <1>5 DEF ClearHasLooked, ArchivedHasBegun

LEMMA ClearErasure ==
  ASSUME Sound, Erasure, ClearHistory
  PROVE  ClearHasLooked' /\ CompactionFits' /\ ArchivedHasBegun' /\ ErasedIsOver'
<1>0. Typed
  BY DEF Sound
<1>1. history.late \subseteq history'.late /\ UNCHANGED <<runs, work, compaction>>
  BY LateGrows, ClearSound
<1>2. \A u \in Turns : pending'[u] \in {pending[u], "none"}
  BY DEF ClearHistory, BeginClearing, LookForRuns, LookForPending, LookForReplies, Looks, Load, Empty,
     DeletePending, DeleteReplies, Deletes, Judge, Lock, Release, DieClearing
<1>3. CASE Empty /\ archive.rev = clear.base
  BY <1>3, CutErasure
<1>4. CASE ~(Empty /\ archive.rev = clear.base)
  <2>1. UNCHANGED archive /\ history'.erased = history.erased
    BY <1>0, <1>4 DEF ClearHistory, BeginClearing, LookForRuns, LookForPending, LookForReplies, Looks,
       Load, Empty, DeletePending, DeleteReplies, Deletes, Judge, Lock, Release, DieClearing, Typed, HistoryType
  <2>2. CompactionFits' /\ ArchivedHasBegun' /\ ErasedIsOver'
    BY <1>1, <1>2, <2>1, QuietErasure
  <2>3. ClearHasLooked'
    <3>1. CASE LookForRuns
      BY <1>0, <1>1, <3>1 DEF LookForRuns, Looks, ClearGoesTo, Clears, Typed, ClearType, ClearHasLooked
    <3>2. CASE LookForPending
      BY <1>0, <1>1, <3>2 DEF LookForPending, Looks, ClearGoesTo, Clears, Typed, ClearType, ClearHasLooked, Erasure
    <3>3. CASE LookForReplies \/ Load
      BY <1>0, <1>1, <3>3 DEF LookForReplies, Load, Looks, ClearGoesTo, Clears, Typed, ClearType, ClearHasLooked,
         Erasure
    <3>4. CASE ~(LookForRuns \/ LookForPending \/ LookForReplies \/ Load)
      <4>1. clear'.at \notin {"pending", "replies", "load", "empty"}
        BY <1>0, <1>4, <3>4 DEF ClearHistory, BeginClearing, Empty, DeletePending, DeleteReplies, Deletes, Judge,
           Lock, Release, DieClearing, ClearGoesTo, Clears, Typed, ClearType
      <4> QED
        BY <4>1 DEF ClearHasLooked
    <3> QED
      BY <3>1, <3>2, <3>3, <3>4
  <2> QED
    BY <2>2, <2>3
<1> QED
  BY <1>3, <1>4

LEMMA ErasureNext == Sound /\ Erasure /\ [Next]_vars => Erasure'
<1> SUFFICES ASSUME Sound, Erasure, [Next]_vars PROVE Erasure'
  OBVIOUS
<1>0. Typed /\ OnlyLateWrite'
  BY OnlyLateNext DEF Sound, Erasure
<1>1. ASSUME NEW t \in Turns, Turn(t) PROVE Erasure'
  BY <1>0, <1>1, TurnErasure DEF Erasure
<1>2. CASE ClearHistory
  BY <1>0, <1>2, ClearErasure DEF Erasure
<1>3. CASE CancelSession
  <2>1. /\ UNCHANGED <<archive, work, compaction, clear, runs>>
        /\ history'.erased = history.erased
        /\ \A u \in Turns : pending'[u] \in {pending[u], "none"}
    BY <1>0, <1>3 DEF CancelSession, Close, CancelRuns, SweepReplies, SweepPending, Closes, Rows, Typed, HistoryType
  <2>2. history.late \subseteq history'.late
    BY <1>3, LateGrows
  <2>3. ClearHasLooked'
    BY <2>1, <2>2 DEF Erasure, ClearHasLooked
  <2> QED
    BY <1>0, <2>1, <2>2, <2>3, QuietErasure DEF Erasure
<1>4. CASE Compact
  <2>1. /\ UNCHANGED <<runs, pending, work, clear, history>> /\ compaction' = NoCompaction
    BY <1>4, CompactSound DEF Compact
  <2>2. archive'.turns = archive.turns /\ archive'.memory \in {archive.memory, archive.turns}
    BY <1>4 DEF Compact, Compacted, Erasure, CompactionFits
  <2> QED
    BY <1>0, <2>1, <2>2 DEF Erasure, ClearHasLooked, CompactionFits, NoCompaction, ArchivedHasBegun, ErasedIsOver
<1>5. CASE UNCHANGED vars
  BY <1>0, <1>5 DEF vars, Erasure, ClearHasLooked, CompactionFits, ArchivedHasBegun, ErasedIsOver
<1> QED
  BY <1>1, <1>2, <1>3, <1>4, <1>5 DEF Next

(* A history that was cleared does not come back: no turn that was in the  *)
(* archive or had seen it when it was emptied is in it afterwards, unless  *)
(* its writer had been let through the barrier before this rose.           *)
THEOREM ClearedStaysClearedHolds == Spec => []ClearedStaysCleared
<1>1. Init => Erasure
  BY DEF Init, NoHistory, NoCompaction, Erasure, OnlyLateWrite, ClearHasLooked, CompactionFits, ArchivedHasBegun,
     ErasedIsOver
<1>2. Sound /\ Erasure => ClearedStaysCleared
  BY DEF Sound, Typed, HistoryType, Erasure, ErasedIsOver, ClearedStaysCleared
<1> QED
  BY <1>1, <1>2, InitSound, SoundNext, ErasureNext, PTL DEF Spec

=============================================================================
