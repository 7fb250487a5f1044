------------------------ MODULE PendingTurn_proofs ------------------------
(***************************************************************************)
(* Theorems about PendingTurn, for any executions, texts and limit.        *)
(***************************************************************************)
EXTENDS PendingTurn, FiniteSetTheorems, TLAPS

-----------------------------------------------------------------------------
(* The inductive invariant.                                                *)

(* A row: its type, and the snapshot that its state calls for.             *)
RowIsSound(row) ==
    /\ row \in Rows \union {NoTurn}
    /\ row.state = "resuming" => row.pre # "none" /\ row.lease # None
    /\ row.state \in {"accepted", "prepared"} => row.snapshot = row.state
    /\ row.state = "resuming" /\ row.pre # "sent" => row.snapshot = row.pre

Frame == [at : Places, text : Texts \union {None}, id : Ids \union {None},
          gate : Execs \union {None}, lease : BOOLEAN, kept : BOOLEAN,
          asked : SUBSET Ids, late : BOOLEAN]

(* What an execution knows where it is: the text it will write, and that   *)
(* it has not acquired before it comes to that.                            *)
FrameIsSound(f) ==
    /\ f \in Frame
    /\ f.at \in {"accept", "prepare"} => f.text \in Texts
    /\ f.at \in {"idle", "validate", "acquire"} => f.lease = FALSE

CleanerType == [at : {"idle", "look", "delete"}, row : Rows \union {NoTurn},
                id : Ids \union {None}]

(* The cleaner lists a RESUMING row only when it is old: the crux of the   *)
(* fencing, together with its comparison of rows.                          *)
CleanerIsSound(c) ==
    /\ c \in CleanerType
    /\ c.at = "look" <=> c.row # NoTurn
    /\ c.at = "delete" <=> c.id # None
    /\ c.at = "look" /\ c.row.state = "resuming" => c.row.old

(* The id an ask will insert is known to nobody before.                    *)
Unused(id) == turn.id # id /\ \A x \in Execs : exec[x].id # id

Fresh ==
    \A e \in Askers :
        /\ exec[e].at \in {"idle", "accept"} => Unused(<<e, "accepted">>)
        /\ exec[e].at \in {"idle", "accept", "prepare"} => Unused(<<e, "prepared">>)

(* The attempts of a row are those who acquired it, and few.               *)
Counted == turn.state # "none" => turn.attempts = Cardinality(AcquiredBy(turn.id))

Few == \A id \in Ids : /\ IsFiniteSet(AcquiredBy(id))
                       /\ Cardinality(AcquiredBy(id)) <= MaxAttempts

IInv ==
    /\ RowIsSound(turn)
    /\ runs \in [Execs -> RunStates]
    /\ exec \in [Execs -> Frame]
    /\ \A x \in Execs : FrameIsSound(exec[x])
    /\ CleanerIsSound(clean)
    /\ Fresh
    /\ Counted
    /\ Few

-----------------------------------------------------------------------------
(* The statements on a row.                                                *)

(* A slot with a row is told from one without.                             *)
LEMMA RowFacts ==
    ASSUME NEW row \in Rows
    PROVE  /\ row.state \in TurnStates /\ row.state # "none"
           /\ row.id \in Ids /\ row.id # None
           /\ row.source \in Execs
           /\ row.attempts \in Nat
           /\ row # NoTurn
<1>1. row.state \in TurnStates /\ row.id \in Ids /\ row.source \in Execs /\ row.attempts \in Nat
  BY ConstantsAssumption DEF Rows
<1>2. row.state # "none"
  BY <1>1 DEF TurnStates
<1>3. None \notin Ids
  BY ConstantsAssumption DEF Ids
<1>4. row # NoTurn
  BY <1>2 DEF NoTurn
<1>5. QED
  BY <1>1, <1>2, <1>3, <1>4

(* A slot without a row is sound.                                          *)
LEMMA NoTurnFacts ==
    /\ NoTurn.state = "none" /\ NoTurn.id = None
    /\ RowIsSound(NoTurn)
  BY DEF NoTurn, RowIsSound

(* Every write refreshes the row's age and keeps it sound.                 *)
LEMMA WriteFacts ==
    ASSUME NEW row \in Rows, RowIsSound(row), Write(row)
    PROVE  RowIsSound(turn') /\ turn' \in Rows
           /\ turn'.id = row.id /\ turn'.attempts = row.attempts
           /\ turn'.state = row.state /\ turn'.lease = row.lease
<1>1. turn' = [row EXCEPT !.old = FALSE]
  BY DEF Write
<1>2. turn' \in Rows
  BY <1>1 DEF Rows
<1>3. /\ turn'.id = row.id /\ turn'.attempts = row.attempts /\ turn'.state = row.state
      /\ turn'.lease = row.lease /\ turn'.pre = row.pre /\ turn'.snapshot = row.snapshot
  BY <1>1 DEF Rows
<1>4. QED
  BY <1>2, <1>3 DEF RowIsSound

(* record_resume_attempt.                                                  *)
LEMMA AcquiredFacts ==
    ASSUME NEW e \in Resumers, turn \in Rows, RowIsSound(turn),
           turn.state \in Acquirable, turn.attempts < MaxAttempts
    PROVE  /\ Acquired(e) \in Rows /\ RowIsSound(Acquired(e))
           /\ Acquired(e).id = turn.id
           /\ Acquired(e).attempts = turn.attempts + 1
           /\ Acquired(e).state = "resuming"
<1>1. e \in Execs /\ e # None
  BY ConstantsAssumption DEF Execs
<1>2. turn.attempts + 1 \in 0..MaxAttempts
  BY ConstantsAssumption DEF Rows
<1>3. Acquired(e) \in Rows
  BY <1>1, <1>2 DEF Acquired, Rows, Acquirable, TurnStates
<1>4. /\ Acquired(e).id = turn.id /\ Acquired(e).attempts = turn.attempts + 1
      /\ Acquired(e).state = "resuming" /\ Acquired(e).pre = turn.state
      /\ Acquired(e).lease = e /\ Acquired(e).snapshot = turn.snapshot
  BY DEF Acquired, Rows
<1>5. RowIsSound(Acquired(e))
  BY <1>1, <1>3, <1>4 DEF RowIsSound, Acquirable, TurnStates
<1>6. QED
  BY <1>3, <1>4, <1>5

(* release_resume_lease, record_resume_failure and the roll-back.          *)
LEMMA RestoredFacts ==
    ASSUME turn \in Rows, RowIsSound(turn), turn.state = "resuming"
    PROVE  /\ Restored(turn) \in Rows /\ RowIsSound(Restored(turn))
           /\ Restored(turn).id = turn.id
           /\ Restored(turn).attempts = turn.attempts
<1>1. turn.pre \in Acquirable /\ turn.pre # "none"
  BY DEF RowIsSound, Rows
<1>2. Restored(turn) \in Rows
  BY <1>1 DEF Restored, Rows, Acquirable
<1>3. /\ Restored(turn).id = turn.id /\ Restored(turn).attempts = turn.attempts
      /\ Restored(turn).state = turn.pre /\ Restored(turn).snapshot = turn.snapshot
  BY DEF Restored, Rows
<1>4. RowIsSound(Restored(turn))
  BY <1>1, <1>2, <1>3 DEF RowIsSound, Acquirable
<1>5. QED
  BY <1>2, <1>3, <1>4

(* upsert_pending_turn: a new row, or the one of the slot.                 *)
LEMMA UpsertedFacts ==
    ASSUME NEW e \in Execs, NEW state \in {"accepted", "prepared"},
           RowIsSound(turn), exec[e].text \in Texts
    PROVE  /\ Upserted(e, state) \in Rows /\ RowIsSound(Upserted(e, state))
           /\ Upserted(e, state).state = state
           /\ turn.state = "none" =>
                /\ Upserted(e, state).id = <<e, state>>
                /\ Upserted(e, state).attempts = 0
           /\ turn.state # "none" =>
                /\ Upserted(e, state).id = turn.id
                /\ Upserted(e, state).attempts = turn.attempts
                /\ Upserted(e, state).lease = turn.lease
<1> DEFINE base == IF turn.state = "none"
                   THEN [NoTurn EXCEPT !.id = <<e, state>>, !.text = exec[e].text] ELSE turn
<1>1. CASE turn.state = "none"
  <2>1. Upserted(e, state) = [NoTurn EXCEPT !.id = <<e, state>>, !.text = exec[e].text,
                                 !.source = e, !.state = state, !.snapshot = state]
    BY <1>1, Zenon DEF Upserted
  <2>2. Upserted(e, state) =
            [id |-> <<e, state>>, text |-> exec[e].text, source |-> e, state |-> state,
             pre |-> "none", lease |-> None, attempts |-> 0, snapshot |-> state, old |-> FALSE]
    BY <2>1 DEF NoTurn
  <2>3. <<e, state>> \in Ids /\ 0 \in 0..MaxAttempts
    BY ConstantsAssumption DEF Ids
  <2>4. Upserted(e, state) \in Rows
    BY <2>2, <2>3 DEF Rows, TurnStates
  <2>5. QED
    BY <1>1, <2>2, <2>4 DEF RowIsSound
<1>2. CASE turn.state # "none"
  <2>1. turn \in Rows
    BY <1>2, NoTurnFacts DEF RowIsSound
  <2>2. Upserted(e, state) = [turn EXCEPT !.source = e, !.state = state, !.snapshot = state]
    BY <1>2, Zenon DEF Upserted
  <2>3. Upserted(e, state) \in Rows
    BY <2>1, <2>2 DEF Rows, TurnStates
  <2>4. /\ Upserted(e, state).state = state /\ Upserted(e, state).snapshot = state
        /\ Upserted(e, state).id = turn.id /\ Upserted(e, state).attempts = turn.attempts
        /\ Upserted(e, state).lease = turn.lease
    BY <2>1, <2>2 DEF Rows
  <2>5. QED
    BY <1>2, <2>3, <2>4 DEF RowIsSound
<1>3. QED
  BY <1>1, <1>2

-----------------------------------------------------------------------------
(* How a step preserves the invariant.                                     *)

(* The slot keeps its row, up to what an attempt is counted by, or loses   *)
(* it.                                                                     *)
TurnIsKept ==
    \/ turn' = turn
    \/ turn' = NoTurn
    \/ /\ turn \in Rows /\ turn' \in Rows
       /\ turn'.id = turn.id /\ turn'.attempts = turn.attempts

(* Who has acquired what stays the same, and so do the attempts.           *)
LEMMA CountsAreKept ==
    ASSUME IInv, TurnIsKept,
           \A x \in Resumers : /\ exec'[x].lease = exec[x].lease
                               /\ exec[x].lease => exec'[x].id = exec[x].id
    PROVE  Counted' /\ Few'
<1>1. \A id : AcquiredBy(id)' = AcquiredBy(id)
  BY Zenon DEF AcquiredBy
<1>2. Few'
  BY <1>1 DEF IInv, Few
<1>3. CASE turn' = turn
  BY <1>1, <1>2, <1>3 DEF IInv, Counted
<1>4. CASE turn' = NoTurn
  BY <1>2, <1>4, NoTurnFacts DEF Counted
<1>5. CASE turn \in Rows /\ turn' \in Rows /\ turn'.id = turn.id /\ turn'.attempts = turn.attempts
  <2>1. turn.attempts = Cardinality(AcquiredBy(turn.id))
    BY <1>5, RowFacts DEF IInv, Counted
  <2>2. QED
    BY <1>1, <1>2, <1>5, <2>1 DEF Counted
<1>6. QED
  BY <1>2, <1>3, <1>4, <1>5 DEF TurnIsKept

(* Ids are only passed on: nobody learns one that was not there.           *)
LEMMA FreshIsKept ==
    ASSUME IInv, turn'.id \in {turn.id, None},
           \A x \in Execs : exec'[x].id \in {exec[x].id, None, turn.id},
           \A a \in Askers :
               /\ exec'[a].at \in {"idle", "accept"} => exec[a].at \in {"idle", "accept"}
               /\ exec'[a].at = "prepare" => exec[a].at = "prepare"
    PROVE  Fresh'
<1>1. ASSUME NEW id \in Ids, Unused(id) PROVE Unused(id)'
  <2>1. id # None
    BY ConstantsAssumption DEF Ids
  <2>2. QED
    BY <1>1, <2>1 DEF Unused
<1>2. \A a \in Askers : <<a, "accepted">> \in Ids /\ <<a, "prepared">> \in Ids
  BY DEF Ids, Execs
<1>3. QED
  BY <1>1, <1>2 DEF IInv, Fresh

(* A step of one execution that acquires nothing and inserts nothing.      *)
LEMMA StepPreserves ==
    ASSUME IInv, NEW e \in Execs, NEW f,
           exec' = [exec EXCEPT ![e] = f], FrameIsSound(f),
           f.at \in {"idle", "accept"} => exec[e].at \in {"idle", "accept"},
           f.at = "prepare" => exec[e].at = "prepare",
           f.id \in {exec[e].id, None, turn.id},
           f.lease = exec[e].lease, exec[e].lease => f.id = exec[e].id,
           RowIsSound(turn'), TurnIsKept,
           runs' \in [Execs -> RunStates], UNCHANGED clean
    PROVE  IInv'
<1>1. exec \in [Execs -> Frame] /\ f \in Frame
  BY DEF IInv, FrameIsSound
<1>2. exec' \in [Execs -> Frame] /\ exec'[e] = f
  BY <1>1
<1>3. \A x \in Execs : x # e => exec'[x] = exec[x]
  BY <1>1
<1>4. \A x \in Execs : FrameIsSound(exec'[x])
  BY <1>2, <1>3 DEF IInv
<1>5. turn'.id \in {turn.id, None}
  BY NoTurnFacts DEF TurnIsKept
<1>6. \A x \in Execs : exec'[x].id \in {exec[x].id, None, turn.id}
  BY <1>2, <1>3
<1>7. \A a \in Askers :
        /\ exec'[a].at \in {"idle", "accept"} => exec[a].at \in {"idle", "accept"}
        /\ exec'[a].at = "prepare" => exec[a].at = "prepare"
  BY <1>2, <1>3 DEF Execs
<1>8. Fresh'
  BY <1>5, <1>6, <1>7, FreshIsKept
<1>9. \A x \in Resumers : /\ exec'[x].lease = exec[x].lease
                          /\ exec[x].lease => exec'[x].id = exec[x].id
  BY <1>2, <1>3, Zenon DEF Execs
<1>10. Counted' /\ Few'
  BY <1>9, CountsAreKept
<1>11. CleanerIsSound(clean)'
  BY DEF IInv
<1>12. QED
  BY <1>2, <1>4, <1>8, <1>10, <1>11 DEF IInv

(* The same for a step that only goes on.                                  *)
LEMMA MovePreserves ==
    ASSUME IInv, NEW e \in Execs, NEW place \in Places, GoesTo(e, place),
           place \notin {"idle", "validate", "acquire", "accept", "prepare"},
           RowIsSound(turn'), TurnIsKept,
           runs' \in [Execs -> RunStates], UNCHANGED clean
    PROVE  IInv'
<1> DEFINE f == [exec[e] EXCEPT !.at = place]
<1>1. exec[e] \in Frame /\ exec \in [Execs -> Frame]
  BY DEF IInv
<1>2. exec' = [exec EXCEPT ![e] = f]
  BY <1>1 DEF GoesTo
<1>3. /\ f \in Frame /\ f.at = place /\ f.id = exec[e].id /\ f.lease = exec[e].lease
  BY <1>1 DEF Frame
<1>4. FrameIsSound(f)
  BY <1>3 DEF FrameIsSound
<1>5. /\ f.at \in {"idle", "accept"} => exec[e].at \in {"idle", "accept"}
      /\ f.at = "prepare" => exec[e].at = "prepare"
  BY <1>3
<1> HIDE DEF f
<1>6. QED
  BY <1>2, <1>3, <1>4, <1>5, StepPreserves

(* A step of nobody: time, and the cleaner.                                *)
LEMMA IdlePreserves ==
    ASSUME IInv, RowIsSound(turn'), TurnIsKept, CleanerIsSound(clean'),
           runs' \in [Execs -> RunStates], UNCHANGED exec
    PROVE  IInv'
<1>1. turn'.id \in {turn.id, None}
  BY NoTurnFacts DEF TurnIsKept
<1>2. Fresh'
  BY <1>1, FreshIsKept
<1>3. Counted' /\ Few'
  BY CountsAreKept
<1>4. QED
  BY <1>2, <1>3 DEF IInv

-----------------------------------------------------------------------------
(* The actions of a resume.                                                *)

(* A slot has a row or none.                                               *)
LEMMA SlotFacts == ASSUME IInv PROVE turn = NoTurn \/ turn \in Rows
  BY DEF IInv, RowIsSound

(* What a delete does to the slot.                                         *)
LEMMA DeleteKeeps ==
    ASSUME IInv, NEW id, DeleteTurn(id) PROVE RowIsSound(turn') /\ TurnIsKept
  BY NoTurnFacts DEF DeleteTurn, TurnIsKept, IInv

(* The same for a delete that may fail.                                    *)
LEMMA TryDeleteKeeps ==
    ASSUME IInv, NEW id, TryDeleteTurn(id) PROVE RowIsSound(turn') /\ TurnIsKept
<1>1. CASE DeleteTurn(id)
  BY <1>1, DeleteKeeps
<1>2. CASE UNCHANGED turn
  BY <1>2 DEF TurnIsKept, IInv
<1>3. QED
  BY <1>1, <1>2 DEF TryDeleteTurn

(* What the giving back of a lease does to it.                             *)
LEMMA RestoreKeeps ==
    ASSUME IInv, turn.state = "resuming", Write(Restored(turn))
    PROVE  RowIsSound(turn') /\ TurnIsKept
<1>1. turn \in Rows /\ RowIsSound(turn)
  BY SlotFacts, NoTurnFacts DEF IInv
<1>2. /\ Restored(turn) \in Rows /\ RowIsSound(Restored(turn))
      /\ Restored(turn).id = turn.id /\ Restored(turn).attempts = turn.attempts
  BY <1>1, RestoredFacts
<1> HIDE DEF Restored
<1>3. /\ RowIsSound(turn') /\ turn' \in Rows
      /\ turn'.id = turn.id /\ turn'.attempts = turn.attempts
  BY <1>2, WriteFacts
<1>4. QED
  BY <1>1, <1>3 DEF TurnIsKept

(* A terminal write of a run.                                              *)
LEMMA EndsAsFacts ==
    ASSUME IInv, NEW e \in Execs, NEW ends \in RunStates, EndsAs(e, ends)
    PROVE  runs' \in [Execs -> RunStates]
  BY DEF EndsAs, IInv

(* An execution with nothing in its hands.                                 *)
LEMMA ExecFacts ==
    ASSUME NEW place \in Places
    PROVE  /\ Exec(place) \in Frame
           /\ Exec(place).at = place /\ Exec(place).id = None
           /\ Exec(place).lease = FALSE /\ Exec(place).text = None
  BY DEF Exec, Frame

(* The read of the row: its id is learnt, nothing else.                    *)
LEMMA ReadTurnPreserves == ASSUME IInv, NEW e \in Resumers, ReadTurn(e) PROVE IInv'
<1>1. e \in Execs /\ turn \in Rows
  BY SlotFacts, NoTurnFacts DEF ReadTurn, Execs
<1>2. PICK f : /\ exec' = [exec EXCEPT ![e] = f]
               /\ f = [Exec("validate") EXCEPT !.id = turn.id, !.gate = turn.source]
  BY DEF ReadTurn
<1>3. /\ f \in Frame
      /\ f.at = "validate" /\ f.id = turn.id /\ f.lease = FALSE
  <2>1. Exec("validate") \in Frame /\ "validate" \in Places
    BY ExecFacts DEF Places
  <2>2. turn.id \in Ids /\ turn.source \in Execs
    BY <1>1, RowFacts
  <2>3. QED
    BY <1>2, <2>1, <2>2, ExecFacts DEF Frame
<1>4. FrameIsSound(f)
  BY <1>3 DEF FrameIsSound
<1>5. exec[e].lease = FALSE
  BY <1>1 DEF ReadTurn, At, IInv, FrameIsSound
<1>6. /\ RowIsSound(turn') /\ TurnIsKept /\ runs' \in [Execs -> RunStates]
      /\ UNCHANGED clean
  BY DEF ReadTurn, IInv, TurnIsKept
<1>7. QED
  BY <1>1, <1>2, <1>3, <1>4, <1>5, <1>6, StepPreserves

(* The gate, passed or not.                                                *)
LEMMA ValidatePreserves == ASSUME IInv, NEW e \in Resumers, Validate(e) PROVE IInv'
<1>1. e \in Execs
  BY DEF Execs
<1>2. exec[e] \in Frame /\ exec[e].at = "validate" /\ exec[e].lease = FALSE
  BY <1>1 DEF Validate, At, IInv, FrameIsSound
<1>3. PICK f : /\ exec' = [exec EXCEPT ![e] = f]
               /\ \/ f = Exec("done")
                  \/ f = [Exec("purge") EXCEPT !.id = exec[e].id]
                  \/ f = [exec[e] EXCEPT !.at = "acquire"]
  BY DEF Validate
<1>4. /\ f \in Frame /\ f.lease = FALSE
      /\ f.at \in {"done", "purge", "acquire"} /\ f.id \in {None, exec[e].id}
  <2>1. CASE f = Exec("done")
    BY <2>1, ExecFacts DEF Places
  <2>2. CASE f = [Exec("purge") EXCEPT !.id = exec[e].id]
    <3>1. f = [at |-> "purge", text |-> None, id |-> exec[e].id, gate |-> None,
               lease |-> FALSE, kept |-> FALSE, asked |-> {}, late |-> FALSE]
      BY <2>2 DEF Exec
    <3>2. exec[e].id \in Ids \union {None}
      BY <1>2 DEF Frame
    <3>3. QED
      BY <3>1, <3>2 DEF Frame, Places
  <2>3. CASE f = [exec[e] EXCEPT !.at = "acquire"]
    BY <1>2, <2>3 DEF Frame, Places
  <2>4. QED
    BY <1>3, <2>1, <2>2, <2>3
<1>5. FrameIsSound(f)
  BY <1>4 DEF FrameIsSound
<1>6. /\ RowIsSound(turn') /\ TurnIsKept /\ runs' \in [Execs -> RunStates]
      /\ UNCHANGED clean
  BY DEF Validate, IInv, TurnIsKept
<1>7. QED
  BY <1>1, <1>2, <1>3, <1>4, <1>5, <1>6, StepPreserves

(* A refusal: at most, the row is gone.                                    *)
LEMMA AcquireRefusedPreserves ==
    ASSUME IInv, NEW e \in Resumers, AcquireRefused(e) PROVE IInv'
<1>1. e \in Execs
  BY DEF Execs
<1>2. exec[e].lease = FALSE
  BY <1>1 DEF AcquireRefused, At, IInv, FrameIsSound
<1>3. /\ Exec("done").at = "done" /\ Exec("done").id = None /\ Exec("done").lease = FALSE
      /\ FrameIsSound(Exec("done"))
  BY ExecFacts DEF Places, FrameIsSound
<1>4. RowIsSound(turn') /\ TurnIsKept
  BY NoTurnFacts DEF AcquireRefused, TurnIsKept, IInv
<1>5. /\ exec' = [exec EXCEPT ![e] = Exec("done")] /\ UNCHANGED clean
      /\ runs' \in [Execs -> RunStates]
  BY DEF AcquireRefused, IInv
<1>6. QED
  BY <1>1, <1>2, <1>3, <1>4, <1>5, StepPreserves

(* The steps of a resume after its acquisition only go on.                 *)
LEMMA ResumeMovesPreserve ==
    ASSUME IInv, NEW e \in Resumers,
           \/ Purge(e) \/ Start(e) \/ StartFails(e) \/ ReleaseLease(e) \/ Bind(e)
           \/ Handle(e) \/ RecordFailure(e)
    PROVE  IInv'
<1>1. e \in Execs
  BY DEF Execs
<1>2. RowIsSound(turn) /\ runs \in [Execs -> RunStates]
  BY DEF IInv
<1>3. TurnIsKept \/ turn' # turn
  BY DEF TurnIsKept
<1>4. CASE Purge(e)
  <2>1. RowIsSound(turn') /\ TurnIsKept
    BY <1>4, TryDeleteKeeps DEF Purge
  <2>2. QED
    BY <1>1, <1>2, <1>4, <2>1, MovePreserves DEF Purge, Places
<1>5. CASE Start(e)
  BY <1>1, <1>2, <1>3, <1>5, MovePreserves DEF Start, Places, RunStates
<1>6. CASE StartFails(e)
  <2>1. PICK ends \in RunStates, place \in {"release", "handle"} :
            runs' = [runs EXCEPT ![e] = ends] /\ GoesTo(e, place)
    BY <1>6 DEF StartFails, Cancels, RunStates
  <2>2. UNCHANGED <<turn, clean>>
    BY <1>6 DEF StartFails
  <2>3. QED
    BY <1>1, <1>2, <1>3, <2>1, <2>2, MovePreserves DEF Places
<1>7. CASE ReleaseLease(e)
  <2>1. RowIsSound(turn') /\ TurnIsKept
    BY <1>2, <1>3, <1>7, RestoreKeeps DEF ReleaseLease, Holds
  <2>2. QED
    BY <1>1, <1>2, <1>7, <2>1, MovePreserves DEF ReleaseLease, Places
<1>8. CASE Bind(e)
  <2> DEFINE row == [turn EXCEPT !.source = e]
  <2>1. turn \in Rows
    BY <1>8, SlotFacts, NoTurnFacts DEF Bind, Holds, Has
  <2>2. /\ row \in Rows /\ row.id = turn.id /\ row.attempts = turn.attempts
        /\ row.state = turn.state /\ row.pre = turn.pre
        /\ row.lease = turn.lease /\ row.snapshot = turn.snapshot
    BY <1>1, <2>1 DEF Rows
  <2>3. RowIsSound(row) /\ Write(row)
    BY <1>2, <1>8, <2>2 DEF RowIsSound, Bind
  <2> HIDE DEF row
  <2>4. RowIsSound(turn') /\ TurnIsKept
    BY <2>1, <2>2, <2>3, WriteFacts DEF TurnIsKept
  <2>5. QED
    BY <1>1, <1>2, <1>8, <2>4, MovePreserves DEF Bind, Places
<1>9. CASE Handle(e)
  <2>1. PICK place \in {"done", "purge", "restore"} : GoesTo(e, place)
    BY <1>9 DEF Handle
  <2>2. UNCHANGED <<turn, runs, clean>>
    BY <1>9 DEF Handle
  <2>3. QED
    BY <1>1, <1>2, <1>3, <2>1, <2>2, MovePreserves DEF Places
<1>10. CASE RecordFailure(e)
  <2>1. RowIsSound(turn') /\ TurnIsKept
    BY <1>2, <1>3, <1>10, RestoreKeeps DEF RecordFailure, Holds
  <2>2. QED
    BY <1>1, <1>2, <1>10, <2>1, MovePreserves DEF RecordFailure, Places
<1>11. QED
  BY <1>4, <1>5, <1>6, <1>7, <1>8, <1>9, <1>10

(* The acquisition: the row counts one more, and so do those who acquired. *)
LEMMA AcquirePreserves == ASSUME IInv, NEW e \in Resumers, Acquire(e) PROVE IInv'
<1>1. /\ e \in Execs /\ turn \in Rows /\ RowIsSound(turn)
      /\ exec \in [Execs -> Frame] /\ exec[e] \in Frame
  BY SlotFacts, NoTurnFacts DEF Acquire, Has, Execs, IInv
<1>2. exec[e].lease = FALSE /\ exec[e].id = turn.id
  BY <1>1 DEF Acquire, At, Has, IInv, FrameIsSound
<1>3. PICK f : /\ exec' = [exec EXCEPT ![e] = f]
               /\ f \in Frame /\ f.lease = TRUE /\ f.id = turn.id
               /\ f.at \in {"start", "purge"}
  <2>1. PICK late \in BOOLEAN, at \in {"start", "purge"} :
            exec' = [exec EXCEPT ![e].lease = TRUE, ![e].late = late,
                                 ![e].gate = None, ![e].at = at]
    BY DEF Acquire
  <2> DEFINE f == [exec[e] EXCEPT !.lease = TRUE, !.late = late, !.gate = None, !.at = at]
  <2>2. exec' = [exec EXCEPT ![e] = f]
    BY <1>1, <2>1
  <2>3. f \in Frame /\ f.lease = TRUE /\ f.id = turn.id /\ f.at = at
    BY <1>1, <1>2 DEF Frame, Places
  <2>4. QED
    BY <2>2, <2>3
<1>4. FrameIsSound(f)
  BY <1>3 DEF FrameIsSound
<1>5. exec' \in [Execs -> Frame] /\ exec'[e] = f /\ \A x \in Execs : x # e => exec'[x] = exec[x]
  BY <1>1, <1>3
<1>6. /\ RowIsSound(turn') /\ turn' \in Rows /\ turn'.id = turn.id
      /\ turn'.attempts = turn.attempts + 1 /\ turn'.state = "resuming"
  <2>1. /\ Acquired(e) \in Rows /\ RowIsSound(Acquired(e)) /\ Acquired(e).id = turn.id
        /\ Acquired(e).attempts = turn.attempts + 1 /\ Acquired(e).state = "resuming"
    BY <1>1, AcquiredFacts DEF Acquire
  <2>2. Write(Acquired(e))
    BY DEF Acquire
  <2> HIDE DEF Acquired
  <2>3. QED
    BY <2>1, <2>2, WriteFacts
<1>7. UNCHANGED <<runs, clean>>
  BY DEF Acquire
<1>8. Fresh'
  BY <1>3, <1>5, <1>6, <1>2, FreshIsKept DEF Execs
<1> DEFINE A == AcquiredBy(turn.id)
<1>9. /\ IsFiniteSet(A) /\ Cardinality(A) = turn.attempts
      /\ turn.attempts \in Nat /\ turn.attempts < MaxAttempts
  BY <1>1, RowFacts DEF IInv, Few, Counted, Acquire
<1>10. AcquiredBy(turn.id)' = A \union {e} /\ e \notin A
  BY <1>2, <1>3, <1>5, <1>6 DEF AcquiredBy, Execs
<1>11. \A id : id # turn.id => AcquiredBy(id)' = AcquiredBy(id)
  BY <1>2, <1>3, <1>5 DEF AcquiredBy, Execs
<1> HIDE DEF A
<1>12. /\ IsFiniteSet(A \union {e})
       /\ Cardinality(A \union {e}) = turn.attempts + 1
  BY <1>9, <1>10, FS_AddElement
<1>13. Counted'
  BY <1>6, <1>10, <1>12 DEF Counted
<1>14. Few'
  <2> SUFFICES ASSUME NEW id \in Ids
               PROVE  /\ IsFiniteSet(AcquiredBy(id)')
                      /\ Cardinality(AcquiredBy(id)') <= MaxAttempts
    BY DEF Few
  <2>1. CASE id = turn.id
    <3>1. AcquiredBy(id)' = A \union {e}
      BY <1>6, <1>10, <2>1 DEF AcquiredBy
    <3>2. turn.attempts + 1 <= MaxAttempts
      BY <1>9, ConstantsAssumption
    <3>3. QED
      BY <1>12, <3>1, <3>2
  <2>2. CASE id # turn.id
    BY <1>11, <2>2 DEF IInv, Few
  <2>3. QED
    BY <2>1, <2>2
<1>15. \A x \in Execs : FrameIsSound(exec'[x])
  BY <1>4, <1>5 DEF IInv
<1>16. QED
  BY <1>5, <1>6, <1>7, <1>8, <1>13, <1>14, <1>15 DEF IInv

-----------------------------------------------------------------------------
(* The actions of an ask.                                                  *)

(* An ask begins with nothing but its text.                                *)
LEMMA AskPreserves ==
    ASSUME IInv, NEW e \in Askers, NEW text \in Texts, Ask(e, text) PROVE IInv'
<1>1. e \in Execs
  BY DEF Execs
<1>2. PICK f : /\ exec' = [exec EXCEPT ![e] = f]
               /\ f = [Exec("accept") EXCEPT !.text = text]
  BY DEF Ask
<1>3. /\ f \in Frame /\ f.at = "accept" /\ f.text = text
      /\ f.id = None /\ f.lease = FALSE
  <2>1. f = [at |-> "accept", text |-> text, id |-> None, gate |-> None,
             lease |-> FALSE, kept |-> FALSE, asked |-> {}, late |-> FALSE]
    BY <1>2 DEF Exec
  <2>2. QED
    BY <2>1 DEF Frame, Places
<1>4. FrameIsSound(f)
  BY <1>3 DEF FrameIsSound
<1>5. exec[e].lease = FALSE /\ exec[e].at = "idle"
  BY <1>1 DEF Ask, At, IInv, FrameIsSound
<1>6. /\ RowIsSound(turn') /\ TurnIsKept /\ runs' \in [Execs -> RunStates]
      /\ UNCHANGED clean
  BY <1>1 DEF Ask, IInv, TurnIsKept, RunStates
<1>7. QED
  BY <1>1, <1>2, <1>3, <1>4, <1>5, <1>6, StepPreserves

(* An upsert: an inserted row has an id that nobody knew, so that nobody   *)
(* has acquired it.                                                        *)
LEMMA UpsertPreserves ==
    ASSUME IInv, NEW e \in Askers, NEW state \in {"accepted", "prepared"},
           NEW at \in {"accept", "prepare"}, NEW next \in {"prepare", "stream"},
           (at = "accept" /\ state = "accepted" /\ next = "prepare")
               \/ (at = "prepare" /\ state = "prepared" /\ next = "stream"),
           Upsert(e, at, state, next)
    PROVE  IInv'
<1> DEFINE row == Upserted(e, state)
<1>1. /\ e \in Execs /\ e \notin Resumers
      /\ exec \in [Execs -> Frame] /\ exec[e] \in Frame /\ exec[e].at = at
  BY ConstantsAssumption DEF Upsert, At, Execs, IInv
<1>2. exec[e].text \in Texts
  BY <1>1 DEF IInv, FrameIsSound
<1>3. Unused(<<e, state>>) /\ <<e, state>> \in Ids
  BY <1>1 DEF IInv, Fresh, Ids
<1>4. /\ row \in Rows /\ RowIsSound(row) /\ row.state = state
      /\ turn.state = "none" => row.id = <<e, state>> /\ row.attempts = 0
      /\ turn.state # "none" => row.id = turn.id /\ row.attempts = turn.attempts
  BY <1>1, <1>2, UpsertedFacts DEF IInv
<1>5. PICK late \in BOOLEAN :
         /\ Write(row) /\ UNCHANGED <<runs, clean>>
         /\ exec' = [exec EXCEPT ![e].id = row.id, ![e].asked = @ \union {row.id},
                                 ![e].late = late, ![e].at = next]
  BY DEF Upsert
<1> HIDE DEF row
<1>6. /\ RowIsSound(turn') /\ turn' \in Rows /\ turn'.id = row.id
      /\ turn'.attempts = row.attempts
  BY <1>4, <1>5, WriteFacts
<1>7. PICK f : /\ exec' = [exec EXCEPT ![e] = f]
               /\ f \in Frame /\ f.id = row.id /\ f.at = next
               /\ f.text = exec[e].text
  <2> DEFINE f == [exec[e] EXCEPT !.id = row.id, !.asked = @ \union {row.id},
                                  !.late = late, !.at = next]
  <2>1. exec' = [exec EXCEPT ![e] = f]
    BY <1>1, <1>5
  <2>2. row.id \in Ids
    BY <1>4, RowFacts
  <2>3. f \in Frame /\ f.id = row.id /\ f.at = next /\ f.text = exec[e].text
    BY <1>1, <2>2 DEF Frame, Places
  <2>4. QED
    BY <2>1, <2>3
<1>8. exec' \in [Execs -> Frame] /\ exec'[e] = f /\ \A x \in Execs : x # e => exec'[x] = exec[x]
  BY <1>1, <1>7
<1>9. \A x \in Execs : FrameIsSound(exec'[x])
  <2>1. FrameIsSound(f)
    BY <1>2, <1>7 DEF FrameIsSound
  <2>2. QED
    BY <1>8, <2>1 DEF IInv
<1>10. Fresh'
  <2> SUFFICES ASSUME NEW a \in Askers
               PROVE  /\ exec'[a].at \in {"idle", "accept"} => Unused(<<a, "accepted">>)'
                      /\ exec'[a].at \in {"idle", "accept", "prepare"}
                             => Unused(<<a, "prepared">>)'
    BY DEF Fresh
  <2>1. row.id \in {turn.id, <<e, state>>}
    BY <1>4
  <2>2. \A x \in Execs : exec'[x].id \in {exec[x].id, row.id}
    BY <1>7, <1>8
  <2>3. \A id \in Ids : Unused(id) /\ id # <<e, state>> => Unused(id)'
    BY <1>6, <2>1, <2>2 DEF Unused
  <2>4. <<a, "accepted">> \in Ids /\ <<a, "prepared">> \in Ids /\ a \in Execs
    BY DEF Ids, Execs
  <2>5. CASE a = e
    BY <1>1, <1>7, <1>8, <2>3, <2>4, <2>5 DEF IInv, Fresh
  <2>6. CASE a # e
    BY <1>8, <2>3, <2>4, <2>6 DEF IInv, Fresh
  <2>7. QED
    BY <2>5, <2>6
<1>11. \A id : AcquiredBy(id)' = AcquiredBy(id)
  BY <1>1, <1>8 DEF AcquiredBy, Execs
<1>12. Few'
  BY <1>11 DEF IInv, Few
<1>13. Counted'
  <2>1. CASE turn.state = "none"
    <3>1. AcquiredBy(<<e, state>>) = {}
      BY <1>3 DEF Unused, AcquiredBy, Execs
    <3>2. QED
      BY <1>4, <1>6, <1>11, <2>1, <3>1, FS_EmptySet DEF Counted
  <2>2. CASE turn.state # "none"
    BY <1>4, <1>6, <1>11, <2>2 DEF IInv, Counted
  <2>3. QED
    BY <2>1, <2>2
<1>14. CleanerIsSound(clean)' /\ runs' \in [Execs -> RunStates]
  BY <1>5 DEF IInv
<1>15. QED
  BY <1>6, <1>8, <1>9, <1>10, <1>12, <1>13, <1>14 DEF IInv

-----------------------------------------------------------------------------
(* The ends of an execution, and what goes on around it.                   *)

(* Whatever ends an execution or its run only goes on, or deletes the row. *)
LEMMA AnyStepPreserves == ASSUME IInv, NEW e \in Execs, AnyStep(e) PROVE IInv'
<1>1. RowIsSound(turn) /\ runs \in [Execs -> RunStates]
  BY DEF IInv
<1>2. TurnIsKept \/ turn' # turn
  BY DEF TurnIsKept
<1>3. CASE Break(e)
  <2>1. PICK ends \in RunStates, place \in {"reconcile", "handle", "done"} :
            EndsAs(e, ends) /\ GoesTo(e, place)
    BY <1>3 DEF Break, After, Cancels, RunStates
  <2>2. UNCHANGED <<turn, clean>>
    BY <1>3 DEF Break
  <2>3. QED
    BY <1>1, <1>2, <2>1, <2>2, EndsAsFacts, MovePreserves DEF Places
<1>4. CASE Reconcile(e)
  <2>1. RowIsSound(turn') /\ TurnIsKept
    BY <1>4, DeleteKeeps DEF Reconcile
  <2>2. QED
    BY <1>1, <1>4, <2>1, MovePreserves DEF Reconcile, Places
<1>5. CASE Complete(e)
  <2>1. runs' \in [Execs -> RunStates]
    BY <1>5, EndsAsFacts DEF Complete, RunStates
  <2>2. QED
    BY <1>1, <1>2, <1>5, <2>1, MovePreserves DEF Complete, Places
<1>6. CASE MarkSent(e)
  <2>1. RowIsSound(turn') /\ TurnIsKept
    <3>1. CASE UNCHANGED turn
      BY <1>1, <1>2, <3>1
    <3>2. CASE Has(e) /\ Write([turn EXCEPT !.state = "sent"])
      <4> DEFINE row == [turn EXCEPT !.state = "sent"]
      <4>1. turn \in Rows
        BY <3>2, SlotFacts, NoTurnFacts DEF Has
      <4>2. /\ row \in Rows /\ row.id = turn.id /\ row.attempts = turn.attempts
            /\ row.state = "sent"
        BY <4>1 DEF Rows, TurnStates
      <4>3. RowIsSound(row) /\ Write(row)
        BY <3>2, <4>2 DEF RowIsSound
      <4> HIDE DEF row
      <4>4. QED
        BY <4>1, <4>2, <4>3, WriteFacts DEF TurnIsKept
    <3>3. QED
      BY <1>6, <3>1, <3>2 DEF MarkSent
  <2>2. QED
    BY <1>1, <1>6, <2>1, MovePreserves DEF MarkSent, Places
<1>7. CASE Settled(e)
  <2>1. PICK place \in {"done", "reconcile", "handle"} : GoesTo(e, place)
    BY <1>7 DEF Settled, After
  <2>2. RowIsSound(turn') /\ TurnIsKept
    BY <1>1, <1>2, <1>7, TryDeleteKeeps DEF Settled
  <2>3. UNCHANGED <<runs, clean>>
    BY <1>7 DEF Settled
  <2>4. QED
    BY <1>1, <2>1, <2>2, <2>3, MovePreserves DEF Places
<1>8. CASE SettleRun(e)
  <2>1. runs' \in [Execs -> RunStates]
    BY <1>8, EndsAsFacts DEF SettleRun, Cancels, RunStates
  <2>2. QED
    BY <1>1, <1>2, <1>8, <2>1, IdlePreserves DEF SettleRun, IInv
<1>9. CASE Crash(e)
  <2>1. PICK place \in {"gone", "done"} : GoesTo(e, place)
    BY <1>9 DEF Crash
  <2>2. UNCHANGED <<turn, runs, clean>>
    BY <1>9 DEF Crash
  <2>3. QED
    BY <1>1, <1>2, <2>1, <2>2, MovePreserves DEF Places
<1>10. CASE Reap(e)
  <2>1. runs' \in [Execs -> RunStates]
    BY <1>10, EndsAsFacts DEF Reap, RunStates
  <2>2. QED
    BY <1>1, <1>2, <1>10, <2>1, MovePreserves DEF Reap, Places
<1>11. CASE Persist(e)
  <2> DEFINE f == [exec[e] EXCEPT !.kept = TRUE, !.at = "complete"]
  <2>1. exec[e] \in Frame /\ exec' = [exec EXCEPT ![e] = f]
    BY <1>11 DEF IInv, Persist
  <2>2. /\ f \in Frame /\ f.at = "complete" /\ f.id = exec[e].id
        /\ f.lease = exec[e].lease
    BY <2>1 DEF Frame, Places
  <2> HIDE DEF f
  <2>3. FrameIsSound(f)
    BY <2>2 DEF FrameIsSound
  <2> QED
    BY <1>1, <1>2, <1>11, <2>1, <2>2, <2>3, StepPreserves DEF Persist
<1>12. QED
  BY <1>3, <1>4, <1>5, <1>6, <1>7, <1>8, <1>9, <1>10, <1>11 DEF AnyStep

(* Time makes a row old, and changes nothing else.                         *)
LEMMA AgePreserves == ASSUME IInv, Age PROVE IInv'
<1>1. turn \in Rows
  BY SlotFacts, NoTurnFacts DEF Age
<1>2. turn' = [turn EXCEPT !.old = TRUE]
  BY DEF Age
<1>3. turn' \in Rows /\ turn'.id = turn.id /\ turn'.attempts = turn.attempts
      /\ turn'.state = turn.state /\ turn'.pre = turn.pre
      /\ turn'.lease = turn.lease /\ turn'.snapshot = turn.snapshot
  BY <1>1, <1>2 DEF Rows
<1>4. RowIsSound(turn')
  BY <1>3 DEF RowIsSound, IInv
<1>5. QED
  BY <1>1, <1>3, <1>4, IdlePreserves DEF Age, IInv, TurnIsKept

(* The cleaner with nothing in its hands, with a row, with an id.          *)
LEMMA CleanerFacts ==
    /\ CleanerIsSound(Cleaner("idle"))
    /\ \A row \in Rows : (row.state = "resuming" => row.old)
                            => CleanerIsSound([Cleaner("look") EXCEPT !.row = row])
    /\ \A id \in Ids : CleanerIsSound([Cleaner("delete") EXCEPT !.id = id])
<1>1. Cleaner("idle") = [at |-> "idle", row |-> NoTurn, id |-> None]
  BY DEF Cleaner
<1>2. CleanerIsSound(Cleaner("idle"))
  BY <1>1 DEF CleanerIsSound, CleanerType
<1>3. ASSUME NEW row \in Rows, row.state = "resuming" => row.old
      PROVE  CleanerIsSound([Cleaner("look") EXCEPT !.row = row])
  <2>1. PICK c : c = [Cleaner("look") EXCEPT !.row = row]
    OBVIOUS
  <2>2. c = [at |-> "look", row |-> row, id |-> None]
    BY <2>1 DEF Cleaner
  <2>3. row # NoTurn
    BY RowFacts
  <2>4. CleanerIsSound(c)
    BY <1>3, <2>2, <2>3 DEF CleanerIsSound, CleanerType
  <2>5. QED
    BY <2>1, <2>4
<1>4. ASSUME NEW id \in Ids
      PROVE  CleanerIsSound([Cleaner("delete") EXCEPT !.id = id])
  <2>1. PICK c : c = [Cleaner("delete") EXCEPT !.id = id]
    OBVIOUS
  <2>2. c = [at |-> "delete", row |-> NoTurn, id |-> id]
    BY <2>1 DEF Cleaner
  <2>3. id # None
    BY ConstantsAssumption DEF Ids
  <2>4. CleanerIsSound(c)
    BY <2>2, <2>3 DEF CleanerIsSound, CleanerType
  <2>5. QED
    BY <2>1, <2>4
<1>5. QED
  BY <1>2, <1>3, <1>4

(* The cleaner lists, judges, rolls back and deletes.                      *)
LEMMA CleanPreserves == ASSUME IInv, Clean PROVE IInv'
<1>1. RowIsSound(turn) /\ runs \in [Execs -> RunStates] /\ CleanerIsSound(clean)
  BY DEF IInv
<1>2. TurnIsKept \/ turn' # turn
  BY DEF TurnIsKept
<1>3. CASE ListTurns
  <2>1. turn \in Rows
    BY <1>3, SlotFacts, NoTurnFacts DEF ListTurns
  <2>2. CleanerIsSound(clean')
    BY <1>3, <2>1, CleanerFacts DEF ListTurns
  <2>3. QED
    BY <1>1, <1>2, <1>3, <2>2, IdlePreserves DEF ListTurns
<1>4. CASE RollBack
  <2>1. CleanerIsSound(clean')
    BY <1>4, CleanerFacts DEF RollBack, Cleaned
  <2>2. RowIsSound(turn') /\ TurnIsKept
    BY <1>1, <1>2, <1>4, RestoreKeeps DEF RollBack
  <2>3. QED
    BY <1>1, <1>4, <2>1, <2>2, IdlePreserves DEF RollBack
<1>5. CASE Judge
  <2>1. clean.row \in Rows
    BY <1>1, <1>5 DEF Judge, CleanerIsSound, CleanerType
  <2>2. CleanerIsSound(clean')
    BY <1>5, <2>1, RowFacts, CleanerFacts DEF Judge, Cleaned
  <2>3. QED
    BY <1>1, <1>2, <1>5, <2>2, IdlePreserves DEF Judge
<1>6. CASE Delete
  <2>1. CleanerIsSound(clean')
    BY <1>6, CleanerFacts DEF Delete, Cleaned
  <2>2. RowIsSound(turn') /\ TurnIsKept
    BY <1>6, DeleteKeeps DEF Delete
  <2>3. QED
    BY <1>1, <1>6, <2>1, <2>2, IdlePreserves DEF Delete
<1>7. QED
  BY <1>3, <1>4, <1>5, <1>6 DEF Clean

-----------------------------------------------------------------------------
(* The invariant.                                                          *)

(* An empty slot, idle executions and an idle cleaner.                     *)
LEMMA InitEstablishes == ASSUME Init PROVE IInv
<1>1. \A x \in Execs : /\ exec[x] = Exec("idle")
                         /\ exec[x].at = "idle" /\ exec[x].id = None
                         /\ exec[x].lease = FALSE /\ exec[x] \in Frame
  BY ExecFacts DEF Init, Places
<1>2. exec \in [Execs -> Frame] /\ runs \in [Execs -> RunStates]
  BY ExecFacts DEF Init, Places, RunStates
<1>3. \A x \in Execs : FrameIsSound(exec[x])
  BY <1>1 DEF FrameIsSound
<1>4. turn.id = None /\ turn.state = "none" /\ RowIsSound(turn)
  BY NoTurnFacts DEF Init
<1>5. CleanerIsSound(clean)
  BY CleanerFacts DEF Init
<1>6. Fresh
  <2>1. \A id \in Ids : id # None
    BY ConstantsAssumption DEF Ids
  <2>2. \A id \in Ids : Unused(id)
    BY <1>1, <1>4, <2>1 DEF Unused
  <2>3. QED
    BY <2>2 DEF Fresh, Ids, Execs
<1>7. Counted
  BY <1>4 DEF Counted
<1>8. Few
  <2>1. \A id : AcquiredBy(id) = {}
    BY <1>1 DEF AcquiredBy, Execs
  <2>2. QED
    BY <2>1, FS_EmptySet, ConstantsAssumption DEF Few
<1>9. QED
  BY <1>2, <1>3, <1>4, <1>5, <1>6, <1>7, <1>8 DEF IInv

(* Every step, and every stutter.                                          *)
LEMMA NextPreserves == ASSUME IInv, [Next]_vars PROVE IInv'
<1>1. ASSUME NEW e \in Resumers, ResumeStep(e) PROVE IInv'
  BY <1>1, ReadTurnPreserves, ValidatePreserves, AcquirePreserves,
     AcquireRefusedPreserves, ResumeMovesPreserve DEF ResumeStep
<1>2. ASSUME NEW e \in Askers, AskStep(e) PROVE IInv'
  <2>1. CASE \E text \in Texts : Ask(e, text)
    BY <2>1, AskPreserves
  <2>2. CASE Accept(e)
    BY <2>2, UpsertPreserves DEF Accept
  <2>3. CASE Prepare(e)
    BY <2>3, UpsertPreserves DEF Prepare
  <2>4. QED
    BY <1>2, <2>1, <2>2, <2>3 DEF AskStep
<1>3. CASE UNCHANGED vars
  <2>1. UNCHANGED <<turn, runs, exec, clean>>
    BY <1>3 DEF vars
  <2>2. QED
    BY <2>1, IdlePreserves DEF IInv, TurnIsKept
<1>4. QED
  BY <1>1, <1>2, <1>3, AnyStepPreserves, AgePreserves, CleanPreserves DEF Next

(* The invariant holds in every state that the slot can reach.             *)
THEOREM Invariance == Spec => []IInv
<1>1. Init => IInv
  BY InitEstablishes
<1>2. IInv /\ [Next]_vars => IInv'
  BY NextPreserves
<1>3. QED
  BY <1>1, <1>2, PTL DEF Spec

(* The types of the slot's row, of its executions and of the cleaner.      *)
THEOREM TypeCorrect == Spec => []TypeOK
<1>1. IInv => TypeOK
  BY DEF IInv, TypeOK, RowIsSound, CleanerIsSound, CleanerType, Frame
<1>2. QED
  BY <1>1, Invariance, PTL

(* A turn's snapshot is of the kind its state calls for, whoever asks,     *)
(* resumes, gives back, rolls back or crashes in between.                  *)
THEOREM SnapshotMatchesHolds == Spec => []SnapshotMatches
<1>1. IInv => SnapshotMatches
  BY DEF IInv, SnapshotMatches, RowIsSound
<1>2. QED
  BY <1>1, Invariance, PTL

(* However many executions resume it, a turn is acquired at most           *)
(* MaxAttempts times, each of which its row has counted.                   *)
THEOREM ResumesAreBoundedHolds == Spec => []ResumesAreBounded
<1>1. IInv => ResumesAreBounded
  BY DEF IInv, ResumesAreBounded, Counted, Few
<1>2. QED
  BY <1>1, Invariance, PTL

-----------------------------------------------------------------------------
(* The fencing of a lease.                                                 *)

(* The row after a write has the lease that was written.                   *)
LEMMA WrittenLease ==
    ASSUME NEW row \in Rows, Write(row) PROVE turn'.lease = row.lease
  BY DEF Write, Rows

(* Action by action: what ends a young lease is a step of its holder.      *)
LEMMA StepIsFenced ==
    ASSUME IInv, [Next]_vars, LeaseEnds, ~turn.old
    PROVE  exec'[turn.lease] # exec[turn.lease]
<1>1. /\ turn \in Rows /\ turn.state = "resuming"
      /\ turn'.id = turn.id /\ turn'.lease # turn.lease
      /\ exec \in [Execs -> Frame]
  BY SlotFacts, NoTurnFacts DEF LeaseEnds, IInv
<1>2. turn' # turn /\ turn' # NoTurn
  BY <1>1, NoTurnFacts, RowFacts
<1>3. ASSUME NEW id PROVE ~DeleteTurn(id) /\ ~TryDeleteTurn(id)
  BY <1>2 DEF DeleteTurn, TryDeleteTurn
<1>4. ASSUME NEW e \in Execs, NEW place, exec[e].at # place, GoesTo(e, place)
      PROVE  exec'[e] # exec[e]
  BY <1>1, <1>4 DEF GoesTo, Frame
<1>5. ASSUME NEW e \in Resumers, ResumeStep(e) PROVE exec'[turn.lease] # exec[turn.lease]
  <2>1. e \in Execs
    BY DEF Execs
  <2>2. CASE ReleaseLease(e)
    BY <1>2, <1>4, <2>1, <2>2 DEF ReleaseLease, Holds, At
  <2>3. CASE RecordFailure(e)
    BY <1>2, <1>4, <2>1, <2>3 DEF RecordFailure, Holds, At
  <2>4. CASE Bind(e)
    <3>1. [turn EXCEPT !.source = e] \in Rows /\ [turn EXCEPT !.source = e].lease = turn.lease
      BY <1>1, <2>1 DEF Rows
    <3>2. turn'.lease = turn.lease
      BY <2>4, <3>1, WrittenLease DEF Bind
    <3>3. QED
      BY <1>1, <3>2
  <2>5. ~Acquire(e)
    BY <1>1 DEF Acquire, Acquirable
  <2>6. ~AcquireRefused(e)
    BY <1>2 DEF AcquireRefused
  <2>7. ~Purge(e)
    BY <1>3 DEF Purge
  <2>8. QED
    BY <1>2, <1>5, <2>2, <2>3, <2>4, <2>5, <2>6, <2>7
       DEF ResumeStep, ReadTurn, Validate, Start, StartFails, Handle
<1>6. ASSUME NEW e \in Askers PROVE ~AskStep(e)
  <2>1. e \in Execs
    BY DEF Execs
  <2>2. ASSUME NEW state \in {"accepted", "prepared"}, exec[e].at \in {"accept", "prepare"},
               Write(Upserted(e, state))
        PROVE  FALSE
    <3>1. exec[e].text \in Texts
      BY <2>1, <2>2 DEF IInv, FrameIsSound
    <3>2. /\ Upserted(e, state) \in Rows
          /\ Upserted(e, state).lease = turn.lease
      BY <1>1, <2>1, <3>1, UpsertedFacts DEF IInv
    <3> HIDE DEF Upserted
    <3>3. QED
      BY <1>1, <2>2, <3>2, WrittenLease
  <2>3. ~Accept(e) /\ ~Prepare(e)
    BY <2>2 DEF Accept, Prepare, Upsert, At
  <2>4. QED
    BY <1>2, <2>3 DEF AskStep, Ask
<1>7. ASSUME NEW e \in Execs PROVE ~AnyStep(e)
  <2>1. ~MarkSent(e)
    <3>1. [turn EXCEPT !.state = "sent"] \in Rows /\ [turn EXCEPT !.state = "sent"].lease = turn.lease
      BY <1>1 DEF Rows, TurnStates
    <3>2. QED
      BY <1>1, <1>2, <3>1, WrittenLease DEF MarkSent
  <2>2. ~Reconcile(e) /\ ~Settled(e)
    BY <1>2, <1>3 DEF Reconcile, Settled
  <2>3. QED
    BY <1>2, <2>1, <2>2 DEF AnyStep, Break, Persist, Complete, SettleRun, Crash, Reap
<1>8. ~Age
  BY <1>1 DEF Age, Rows
<1>9. ~Clean
  <2>1. ~RollBack
    BY <1>2 DEF RollBack, IInv, CleanerIsSound
  <2>2. ~Delete
    BY <1>3 DEF Delete
  <2>3. QED
    BY <1>2, <2>1, <2>2 DEF Clean, ListTurns, Judge
<1>10. QED
  BY <1>2, <1>5, <1>6, <1>7, <1>8, <1>9 DEF Next, vars

(* No lease ends under its holder while it is young: neither a resume that *)
(* gives back a lease it once had nor a cleaner that listed the row under  *)
(* an earlier lease can end it.                                            *)
THEOREM LeaseIsFencedHolds == Spec => LeaseIsFenced
<1>1. IInv /\ [Next]_vars =>
        [LeaseEnds => turn.old \/ exec'[turn.lease] # exec[turn.lease]]_vars
  BY StepIsFenced
<1>2. QED
  BY <1>1, Invariance, PTL DEF Spec, LeaseIsFenced
-----------------------------------------------------------------------------
(* One answer for every ask.                                               *)

(* A run that has come to nothing: only such a turn is resumed.            *)
Dead == {"failed", "timeout"}

(* Who has answered, or may still answer, for the turn that it has: an     *)
(* execution that was asked for, until its run is dead, and a resume while *)
(* it streams, or if its run has not come to nothing since.                *)
MayAnswerAs(e, f, run) == \/ f.kept /\ run \notin Dead
                          \/ e \in Askers /\ run \in {"active", "cancelled"}
                          \/ e \in Resumers /\ run = "active" /\ f.at = "stream"

MayAnswer(e) == MayAnswerAs(e, exec[e], runs[e])

Candidates(id) == {e \in Execs : exec[e].id = id /\ MayAnswer(e)}

(* The turn waits for nobody's answer: one more may be tried.              *)
Spare(id) == turn.id = id /\ turn.source \notin Candidates(id)

Enough(id) == /\ IsFiniteSet(AskedFor(id)) /\ IsFiniteSet(Candidates(id))
              /\ Cardinality(Candidates(id)) <= Cardinality(AskedFor(id))
              /\ Spare(id) => Cardinality(Candidates(id)) < Cardinality(AskedFor(id))

(* What an execution and its run are where it is.                          *)
Fits(e, f, run) ==
    /\ f.at \in {"idle", "validate", "acquire", "start"} => run = "none"
    /\ f.at \in {"accept", "prepare"} => run \in {"active", "cancelled", "timeout"}
    /\ f.at = "bind" => run # "none"
    /\ f.at \in {"idle", "validate", "acquire", "start", "bind"} => ~f.kept
    /\ f.at \in {"idle", "accept"} => f.id = None /\ f.asked = {}
    /\ f.at = "prepare" => f.asked = {f.id}
    /\ f.at \in {"validate", "acquire"} => f.gate \in Execs
    /\ f.at \in {"idle", "validate", "acquire", "accept", "prepare"} => ~f.late
    /\ e \in Resumers /\ f.late => f.lease

(* The gate lets a resume go on from a dead run only, and what has run at  *)
(* all stays so.                                                           *)
Passes(f) == /\ f.at = "validate" => runs[f.gate] # "none"
             /\ f.at = "acquire" => runs[f.gate] \in Dead

(* Who holds the lease, and has not streamed yet, takes over from a dead   *)
(* run, unless the source was another one at the gate.                     *)
TakenOver ==
    \A e \in Resumers :
        exec[e].at \in {"start", "bind"} /\ Holds(e) /\ ~exec[e].late => runs[turn.source] \in Dead

AInv ==
    /\ \A e \in Execs : Fits(e, exec[e], runs[e]) /\ Passes(exec[e])
    /\ turn.state # "none" => runs[turn.source] # "none"
    /\ TakenOver
    /\ \A id \in Ids : ~Late(id) => Enough(id)

(* The slot keeps its turn and the source of it, or loses it.              *)
SourceIsKept ==
    \/ turn' = NoTurn
    \/ turn.state # "none" /\ turn'.id = turn.id /\ turn'.source = turn.source

(* The lease that was is the lease that is.                                *)
LeaseIsKept == turn'.state = "resuming" => turn.state = "resuming" /\ turn'.lease = turn.lease

(* Runs that have started stay so, dead ones too.                          *)
Later == \A e \in Execs : /\ runs[e] # "none" => runs'[e] # "none"
                          /\ runs[e] \in Dead => runs'[e] \in Dead

(* Nobody is asked, and nobody new may answer.                             *)
LEMMA QuietIsEnough ==
    ASSUME NEW id \in Ids, Enough(id),
           turn'.id = id => turn'.id = turn.id /\ turn'.source = turn.source,
           AskedFor(id)' = AskedFor(id), Candidates(id)' \subseteq Candidates(id)
    PROVE  Enough(id)'
<1> DEFINE C == Candidates(id)
           D == Candidates(id)'
           A == AskedFor(id)
<1>1. IsFiniteSet(A) /\ IsFiniteSet(C) /\ Cardinality(C) <= Cardinality(A) /\ D \in SUBSET C
  BY DEF Enough
<1>2. IsFiniteSet(D) /\ Cardinality(D) <= Cardinality(C) /\ (Cardinality(C) = Cardinality(D) => C = D)
  BY <1>1, FS_Subset
<1>3. Cardinality(A) \in Nat /\ Cardinality(C) \in Nat /\ Cardinality(D) \in Nat
  BY <1>1, <1>2, FS_CardinalityType
<1>4. ASSUME turn'.id = id, turn'.source \notin D PROVE Cardinality(D) < Cardinality(A)
  <2>1. CASE Spare(id)
    BY <1>2, <1>3, <2>1 DEF Enough
  <2>2. CASE ~Spare(id)
    BY <1>1, <1>2, <1>3, <1>4, <2>2 DEF Spare
  <2> QED
    BY <2>1, <2>2
<1> QED
  BY <1>1, <1>2, <1>3, <1>4 DEF Enough, Spare

(* A step that gives nobody a turn to answer for.                          *)
LEMMA AnswersAreKept ==
    ASSUME IInv, AInv, SourceIsKept, Later, TakenOver',
           \A x \in Execs :
               /\ Fits(x, exec'[x], runs'[x]) /\ Passes(exec'[x])
               /\ x \in Askers => exec'[x].asked = exec[x].asked
               /\ exec[x].late => exec'[x].late /\ exec'[x].id = exec[x].id
               /\ exec'[x].id # None /\ MayAnswer(x)' => exec'[x].id = exec[x].id /\ MayAnswer(x)
    PROVE  AInv'
<1>1. \A x \in Execs : Passes(exec[x])'
  BY DEF Passes, Later, Fits
<1>2. turn'.state # "none" => runs'[turn'.source] # "none"
  BY SlotFacts, NoTurnFacts, RowFacts DEF SourceIsKept, Later, AInv
<1>3. ASSUME NEW id \in Ids, ~Late(id)' PROVE Enough(id)'
  <2>1. id # None /\ NoTurn.id = None
    BY ConstantsAssumption DEF Ids, NoTurn
  <2>2. ~Late(id)
    BY <1>3 DEF Late
  <2>3. AskedFor(id)' = AskedFor(id)
    BY Zenon DEF AskedFor, Execs
  <2>4. Candidates(id)' \subseteq Candidates(id)
    BY <2>1 DEF Candidates
  <2>5. turn'.id = id => turn'.id = turn.id /\ turn'.source = turn.source
    BY <2>1 DEF SourceIsKept
  <2> QED
    BY <2>2, <2>3, <2>4, <2>5, QuietIsEnough DEF AInv
<1> QED
  BY <1>1, <1>2, <1>3 DEF AInv

(* A step of one execution that takes no lease and writes no source.       *)
LEMMA StepAnswers ==
    ASSUME IInv, IInv', AInv, NEW e \in Execs, NEW f, NEW run,
           exec' = [exec EXCEPT ![e] = f], runs' = [runs EXCEPT ![e] = run],
           SourceIsKept, LeaseIsKept,
           runs[e] # "none" => run # "none",
           runs[e] \in Dead => run \in Dead,
           Fits(e, f, run), Passes(f),
           e \in Askers => f.asked = exec[e].asked,
           f.late = exec[e].late, f.late => f.id = exec[e].id,
           f.at \in {"start", "bind"} => exec[e].at \in {"start", "bind"} /\ f.id = exec[e].id,
           f.id # None /\ MayAnswerAs(e, f, run) => f.id = exec[e].id /\ MayAnswer(e)
    PROVE  AInv'
<1>1. /\ exec'[e] = f /\ runs'[e] = run
      /\ \A x \in Execs : x # e => exec'[x] = exec[x] /\ runs'[x] = runs[x]
  BY DEF IInv
<1>2. Later
  BY <1>1 DEF Later
<1>3. TakenOver'
  <2> SUFFICES ASSUME NEW x \in Resumers, exec'[x].at \in {"start", "bind"},
                      Holds(x)', ~exec'[x].late
               PROVE  runs'[turn'.source] \in Dead
    BY DEF TakenOver
  <2>1. x \in Execs /\ turn'.state = "resuming" /\ turn'.lease = x /\ turn'.id = exec'[x].id
    BY DEF Holds, Has, Execs
  <2>2. turn.state = "resuming" /\ turn.lease = x /\ turn'.id = turn.id /\ turn'.source = turn.source
    BY <2>1, NoTurnFacts DEF LeaseIsKept, SourceIsKept
  <2>3. exec[x].at \in {"start", "bind"} /\ exec'[x].id = exec[x].id /\ ~exec[x].late
    BY <1>1, <2>1
  <2>4. runs[turn.source] \in Dead
    BY <2>1, <2>2, <2>3 DEF AInv, TakenOver, Holds, Has
  <2>5. turn.source \in Execs
    BY <2>2, SlotFacts, RowFacts, NoTurnFacts
  <2> QED
    BY <1>2, <2>2, <2>4, <2>5 DEF Later
<1>4. \A x \in Execs : MayAnswer(x)' <=> MayAnswerAs(x, exec'[x], runs'[x])
  BY DEF MayAnswer, MayAnswerAs
<1>5. \A x \in Execs : x # e => (MayAnswer(x)' <=> MayAnswer(x))
  BY <1>1, <1>4 DEF MayAnswer
<1>6. \A x \in Execs :
          /\ Fits(x, exec'[x], runs'[x]) /\ Passes(exec'[x])
          /\ x \in Askers => exec'[x].asked = exec[x].asked
          /\ exec[x].late => exec'[x].late /\ exec'[x].id = exec[x].id
          /\ exec'[x].id # None /\ MayAnswer(x)' => exec'[x].id = exec[x].id /\ MayAnswer(x)
  BY <1>1, <1>4, <1>5 DEF AInv
<1> QED
  BY <1>2, <1>3, <1>6, AnswersAreKept

(* The same for one that only goes on, but not to its stream.              *)
LEMMA MoveAnswers ==
    ASSUME IInv, IInv', AInv, NEW e \in Execs, NEW place \in Places, NEW run, GoesTo(e, place),
           place \notin {"idle", "validate", "acquire", "start", "accept", "prepare", "stream"},
           place = "bind" => exec[e].at = "start" /\ run = "active",
           runs' = [runs EXCEPT ![e] = run], SourceIsKept, LeaseIsKept,
           \/ run = runs[e]
           \/ /\ runs[e] = "none" /\ e \in Resumers /\ run \in {"active", "failed", "cancelled", "timeout"}
           \/ /\ runs[e] = "active" /\ run \in {"failed", "cancelled", "timeout"}
           \/ runs[e] = "active" /\ run = "succeeded"
    PROVE  AInv'
<1> DEFINE f == [exec[e] EXCEPT !.at = place]
<1>1. exec[e] \in Frame /\ e \in Askers \union Resumers
  BY DEF IInv, Execs
<1>2. exec' = [exec EXCEPT ![e] = f]
  BY DEF GoesTo
<1>3. /\ f.at = place /\ f.id = exec[e].id /\ f.lease = exec[e].lease /\ f.late = exec[e].late
      /\ f.gate = exec[e].gate /\ f.kept = exec[e].kept /\ f.asked = exec[e].asked
  BY <1>1 DEF Frame
<1>4. Fits(e, f, run) /\ Passes(f)
  <2>1. Fits(e, exec[e], runs[e])
    BY DEF AInv
  <2> QED
    BY <1>3, <2>1 DEF Fits, Passes
<1>5. MayAnswerAs(e, f, run) => MayAnswer(e)
  <2>1. Askers \intersect Resumers = {}
    BY ConstantsAssumption
  <2> QED
    BY <1>1, <1>3, <2>1 DEF MayAnswerAs, MayAnswer, Dead
<1>6. /\ runs[e] # "none" => run # "none"
      /\ runs[e] \in Dead => run \in Dead
  BY DEF Dead
<1> HIDE DEF f
<1> QED
  BY <1>2, <1>3, <1>4, <1>5, <1>6, StepAnswers

(* What the actions do to the slot.                                        *)
LEMMA UntouchedSlot == ASSUME IInv, UNCHANGED turn PROVE SourceIsKept /\ LeaseIsKept
  BY SlotFacts, RowFacts DEF SourceIsKept, LeaseIsKept

LEMMA DeletedSlot == ASSUME IInv, NEW id, TryDeleteTurn(id) PROVE SourceIsKept /\ LeaseIsKept
  BY UntouchedSlot, NoTurnFacts DEF TryDeleteTurn, DeleteTurn, SourceIsKept, LeaseIsKept

LEMMA WrittenSlot ==
    ASSUME IInv, turn.state # "none", NEW row \in Rows, Write(row),
           row.id = turn.id, row.source = turn.source,
           row.state = "resuming" => turn.state = "resuming" /\ row.lease = turn.lease
    PROVE  SourceIsKept /\ LeaseIsKept
<1>1. /\ turn'.id = row.id /\ turn'.source = row.source
      /\ turn'.state = row.state /\ turn'.lease = row.lease
  BY DEF Write, Rows
<1> QED
  BY <1>1 DEF SourceIsKept, LeaseIsKept

LEMMA RestoredSlot ==
    ASSUME IInv, turn.state = "resuming", Write(Restored(turn)) PROVE SourceIsKept /\ LeaseIsKept
<1>1. turn \in Rows /\ RowIsSound(turn)
  BY SlotFacts, NoTurnFacts DEF IInv
<1>2. /\ Restored(turn) \in Rows /\ Restored(turn).id = turn.id
      /\ Restored(turn).state = turn.pre /\ Restored(turn).source = turn.source
  BY <1>1, RestoredFacts DEF Restored, Rows
<1>3. turn.pre # "resuming"
  BY <1>1 DEF Rows, Acquirable
<1> HIDE DEF Restored
<1> QED
  BY <1>2, <1>3, WrittenSlot

(* The read of the row, and the gate.                                      *)
LEMMA ReadTurnAnswers == ASSUME IInv, IInv', AInv, NEW e \in Resumers, ReadTurn(e) PROVE AInv'
<1> DEFINE f == [Exec("validate") EXCEPT !.id = turn.id, !.gate = turn.source]
<1>1. e \in Execs /\ e \notin Askers /\ turn \in Rows /\ turn.source \in Execs
  BY SlotFacts, NoTurnFacts, RowFacts, ConstantsAssumption DEF ReadTurn, Execs
<1>2. /\ exec[e].at = "idle" /\ exec[e].lease = FALSE
      /\ Fits(e, exec[e], runs[e]) /\ runs[turn.source] # "none"
  BY <1>1 DEF ReadTurn, At, IInv, FrameIsSound, AInv
<1>3. /\ f.at = "validate" /\ f.id = turn.id /\ f.gate = turn.source
      /\ f.lease = FALSE /\ f.late = FALSE /\ f.kept = FALSE
  BY DEF Exec
<1>4. runs[e] = "none" /\ exec[e].late = FALSE
  BY <1>1, <1>2 DEF Fits, IInv, Frame
<1>5. exec' = [exec EXCEPT ![e] = f] /\ runs' = [runs EXCEPT ![e] = runs[e]]
  BY <1>1 DEF ReadTurn, IInv
<1> HIDE DEF f
<1>6. Fits(e, f, runs[e]) /\ Passes(f) /\ ~MayAnswerAs(e, f, runs[e])
  BY <1>1, <1>2, <1>3, <1>4 DEF Fits, Passes, MayAnswerAs
<1>7. SourceIsKept /\ LeaseIsKept
  BY UntouchedSlot DEF ReadTurn
<1> QED
  BY <1>1, <1>3, <1>4, <1>5, <1>6, <1>7, StepAnswers

LEMMA ValidateAnswers == ASSUME IInv, IInv', AInv, NEW e \in Resumers, Validate(e) PROVE AInv'
<1>1. e \in Execs /\ e \notin Askers
  BY ConstantsAssumption DEF Execs
<1>2. /\ exec[e].at = "validate" /\ exec[e].lease = FALSE /\ exec[e] \in Frame
      /\ Fits(e, exec[e], runs[e]) /\ Passes(exec[e])
  BY <1>1 DEF Validate, At, IInv, FrameIsSound, AInv
<1>3. /\ runs[e] = "none" /\ exec[e].late = FALSE /\ ~exec[e].kept /\ exec[e].gate \in Execs
      /\ runs[exec[e].gate] # "none"
  BY <1>2 DEF Fits, Passes, Frame
<1>4. PICK f : /\ exec' = [exec EXCEPT ![e] = f]
               /\ f = CASE runs[exec[e].gate] = "active" -> Exec("done")
                        [] runs[exec[e].gate] \in {"succeeded", "cancelled"} ->
                             [Exec("purge") EXCEPT !.id = exec[e].id]
                        [] OTHER -> [exec[e] EXCEPT !.at = "acquire"]
  BY DEF Validate
<1>5. \/ f.at \in {"done", "purge"} /\ f.late = FALSE /\ ~f.kept
      \/ /\ f.at = "acquire" /\ f.late = FALSE /\ ~f.kept /\ f.gate = exec[e].gate
         /\ runs[exec[e].gate] \in Dead
  <2>1. runs[exec[e].gate] \in RunStates
    BY <1>3 DEF IInv
  <2>2. CASE runs[exec[e].gate] = "active"
    BY <1>4, <2>2 DEF Exec
  <2>3. CASE runs[exec[e].gate] \in {"succeeded", "cancelled"}
    BY <1>4, <2>3 DEF Exec
  <2>4. CASE runs[exec[e].gate] \in Dead
    BY <1>2, <1>3, <1>4, <2>4 DEF Dead, Frame
  <2> QED
    BY <1>3, <2>1, <2>2, <2>3, <2>4 DEF RunStates, Dead
<1>6. Fits(e, f, runs[e]) /\ Passes(f) /\ ~MayAnswerAs(e, f, runs[e])
  BY <1>1, <1>3, <1>5 DEF Fits, Passes, MayAnswerAs
<1>7. runs' = [runs EXCEPT ![e] = runs[e]] /\ SourceIsKept /\ LeaseIsKept
  BY <1>1, UntouchedSlot DEF Validate, IInv
<1> QED
  BY <1>1, <1>3, <1>4, <1>5, <1>6, <1>7, StepAnswers

LEMMA AcquireRefusedAnswers ==
    ASSUME IInv, IInv', AInv, NEW e \in Resumers, AcquireRefused(e) PROVE AInv'
<1>1. e \in Execs /\ e \notin Askers
  BY ConstantsAssumption DEF Execs
<1>2. /\ exec[e].at = "acquire" /\ exec[e].lease = FALSE /\ exec[e] \in Frame
      /\ Fits(e, exec[e], runs[e])
  BY <1>1 DEF AcquireRefused, At, IInv, FrameIsSound, AInv
<1>3. runs[e] = "none" /\ exec[e].late = FALSE
  BY <1>2 DEF Fits, Frame
<1>4. PICK f : exec' = [exec EXCEPT ![e] = f] /\ f = Exec("done")
  BY DEF AcquireRefused
<1>5. f.at = "done" /\ f.late = FALSE /\ f.id = None /\ f.kept = FALSE
  BY <1>4 DEF Exec
<1>6. Fits(e, f, runs[e]) /\ Passes(f) /\ ~MayAnswerAs(e, f, runs[e])
  BY <1>1, <1>3, <1>5 DEF Fits, Passes, MayAnswerAs
<1>7. SourceIsKept /\ LeaseIsKept
  BY UntouchedSlot, NoTurnFacts DEF AcquireRefused, SourceIsKept, LeaseIsKept
<1>8. runs' = [runs EXCEPT ![e] = runs[e]]
  BY <1>1 DEF AcquireRefused, IInv
<1> QED
  BY <1>1, <1>3, <1>4, <1>5, <1>6, <1>7, <1>8, StepAnswers

(* The acquisition: a lease on a turn whose source is the dead run of the  *)
(* gate, or a late one.                                                    *)
LEMMA AcquireAnswers == ASSUME IInv, IInv', AInv, NEW e \in Resumers, Acquire(e) PROVE AInv'
<1>1. e \in Execs /\ e \notin Askers /\ turn \in Rows /\ RowIsSound(turn)
  BY SlotFacts, NoTurnFacts, ConstantsAssumption DEF Acquire, Acquirable, TurnStates, Execs, IInv
<1>2. /\ exec[e].at = "acquire" /\ exec[e].lease = FALSE /\ exec[e] \in Frame
      /\ Fits(e, exec[e], runs[e]) /\ Passes(exec[e]) /\ exec \in [Execs -> Frame]
  BY <1>1 DEF Acquire, At, IInv, FrameIsSound, AInv
<1>3. /\ runs[e] = "none" /\ exec[e].late = FALSE /\ ~exec[e].kept
      /\ runs[exec[e].gate] \in Dead /\ turn.id = exec[e].id
  BY <1>2 DEF Fits, Passes, Frame, Acquire, Has
<1>4. /\ turn'.id = turn.id /\ turn'.source = turn.source /\ turn.state # "none"
      /\ turn'.lease = e
  <2>1. Acquired(e) \in Rows
    BY <1>1, AcquiredFacts DEF Acquire
  <2>2. /\ Acquired(e).id = turn.id /\ Acquired(e).source = turn.source /\ Acquired(e).lease = e
    BY <1>1 DEF Acquired, Rows
  <2> HIDE DEF Acquired
  <2> QED
    BY <1>1, <2>1, <2>2, RowFacts DEF Acquire, Write, Rows
<1>5. \A x \in Execs : x # e => exec'[x] = exec[x]
  BY <1>2 DEF Acquire
<1>6. /\ exec'[e].id = exec[e].id /\ exec'[e].at \in {"start", "purge"} /\ exec'[e].lease = TRUE
      /\ exec'[e].late = (turn.source # exec[e].gate) /\ exec'[e].kept = exec[e].kept
  BY <1>1, <1>2 DEF Acquire, Frame
<1>7. runs' = runs /\ SourceIsKept /\ Later
  BY <1>4 DEF Acquire, SourceIsKept, Later
<1>8. TakenOver'
  <2> SUFFICES ASSUME NEW x \in Resumers, Holds(x)', ~exec'[x].late PROVE runs'[turn'.source] \in Dead
    BY DEF TakenOver
  <2>1. x = e
    BY <1>4 DEF Holds
  <2> QED
    BY <1>3, <1>4, <1>6, <1>7, <2>1
<1>9. \A x \in Execs :
          /\ Fits(x, exec'[x], runs'[x]) /\ Passes(exec'[x])
          /\ x \in Askers => exec'[x].asked = exec[x].asked
          /\ exec[x].late => exec'[x].late /\ exec'[x].id = exec[x].id
          /\ exec'[x].id # None /\ MayAnswer(x)' => exec'[x].id = exec[x].id /\ MayAnswer(x)
  <2>1. Fits(e, exec'[e], runs'[e]) /\ Passes(exec'[e]) /\ ~MayAnswer(e)'
    BY <1>1, <1>3, <1>6, <1>7 DEF Fits, Passes, MayAnswer, MayAnswerAs
  <2>2. \A x \in Execs : x # e => (MayAnswer(x)' <=> MayAnswer(x))
    BY <1>5, <1>7 DEF MayAnswer, MayAnswerAs
  <2> QED
    BY <1>1, <1>3, <1>5, <1>7, <2>1, <2>2 DEF AInv
<1> QED
  BY <1>7, <1>8, <1>9, AnswersAreKept

(* The steps of a resume that only go on.                                  *)
LEMMA ResumeMovesAnswer ==
    ASSUME IInv, IInv', AInv, NEW e \in Resumers,
           Purge(e) \/ Start(e) \/ StartFails(e) \/ ReleaseLease(e) \/ Handle(e) \/ RecordFailure(e)
    PROVE  AInv'
<1>1. e \in Execs
  BY DEF Execs
<1>2. runs = [runs EXCEPT ![e] = runs[e]]
  BY <1>1 DEF IInv
<1>3. CASE Purge(e)
  BY <1>1, <1>2, <1>3, DeletedSlot, MoveAnswers DEF Purge, Places
<1>4. exec[e].at = "start" => runs[e] = "none"
  BY <1>1 DEF AInv, Fits
<1>5. CASE Start(e)
  BY <1>1, <1>4, <1>5, UntouchedSlot, MoveAnswers DEF Start, At, Places
<1>6. CASE StartFails(e)
  <2>1. PICK ends \in {"failed", "cancelled", "timeout"} : runs' = [runs EXCEPT ![e] = ends]
    BY <1>6 DEF StartFails, Cancels
  <2>2. PICK place \in {"release", "handle"} : GoesTo(e, place)
    BY <1>6 DEF StartFails
  <2>3. SourceIsKept /\ LeaseIsKept
    BY <1>6, UntouchedSlot DEF StartFails
  <2> QED
    BY <1>1, <1>4, <1>6, <2>1, <2>2, <2>3, MoveAnswers DEF StartFails, At, Places
<1>7. CASE ReleaseLease(e)
  <2>1. SourceIsKept /\ LeaseIsKept
    BY <1>7, UntouchedSlot, RestoredSlot DEF ReleaseLease, Holds
  <2> QED
    BY <1>1, <1>2, <1>7, <2>1, MoveAnswers DEF ReleaseLease, Places
<1>8. CASE Handle(e)
  <2>1. PICK place \in {"done", "purge", "restore"} : GoesTo(e, place)
    BY <1>8 DEF Handle
  <2>2. SourceIsKept /\ LeaseIsKept
    BY <1>8, UntouchedSlot DEF Handle
  <2> QED
    BY <1>1, <1>2, <1>8, <2>1, <2>2, MoveAnswers DEF Handle, Places
<1>9. CASE RecordFailure(e)
  <2>1. SourceIsKept /\ LeaseIsKept
    BY <1>9, UntouchedSlot, RestoredSlot DEF RecordFailure, Holds
  <2> QED
    BY <1>1, <1>2, <1>9, <2>1, MoveAnswers DEF RecordFailure, Places
<1> QED
  BY <1>3, <1>5, <1>6, <1>7, <1>8, <1>9

(* One more on one side or on both.                                        *)
LEMMA OneMore ==
    ASSUME NEW S, NEW T, NEW x, IsFiniteSet(S), IsFiniteSet(T), Cardinality(S) <= Cardinality(T)
    PROVE  /\ IsFiniteSet(S \union {x}) /\ IsFiniteSet(T \union {x})
           /\ Cardinality(S) < Cardinality(T) => Cardinality(S \union {x}) <= Cardinality(T)
           /\ (x \in S <=> x \in T) => Cardinality(S \union {x}) <= Cardinality(T \union {x})
<1>1. Cardinality(S) \in Nat /\ Cardinality(T) \in Nat
  BY FS_CardinalityType
<1>2. /\ IsFiniteSet(S \union {x})
      /\ Cardinality(S \union {x}) = IF x \in S THEN Cardinality(S) ELSE Cardinality(S) + 1
  BY FS_AddElement
<1>3. /\ IsFiniteSet(T \union {x})
      /\ Cardinality(T \union {x}) = IF x \in T THEN Cardinality(T) ELSE Cardinality(T) + 1
  BY FS_AddElement
<1> QED
  BY <1>1, <1>2, <1>3

(* The binding: a dead source is replaced by the run of the resume, which  *)
(* uses the answer that the turn had to spare.                             *)
LEMMA BindAnswers == ASSUME IInv, IInv', AInv, NEW e \in Resumers, Bind(e) PROVE AInv'
<1>1. e \in Execs /\ e \notin Askers
  BY ConstantsAssumption DEF Execs
<1>2. /\ exec[e].at = "bind" /\ turn.id = exec[e].id /\ turn.state = "resuming" /\ turn.lease = e
      /\ exec[e] \in Frame /\ Fits(e, exec[e], runs[e]) /\ exec \in [Execs -> Frame]
  BY <1>1 DEF Bind, At, Holds, Has, IInv, AInv
<1>3. turn \in Rows /\ turn.id \in Ids /\ turn.source \in Execs
  BY <1>2, SlotFacts, NoTurnFacts, RowFacts
<1>4. /\ turn'.id = turn.id /\ turn'.source = e /\ turn'.state = "resuming" /\ turn'.lease = e
  BY <1>1, <1>2, <1>3 DEF Bind, Write, Rows
<1>5. /\ runs' = runs
      /\ \A x \in Execs : /\ x # e => exec'[x] = exec[x]
                          /\ exec'[x].id = exec[x].id /\ exec'[x].late = exec[x].late
                          /\ exec'[x].asked = exec[x].asked
      /\ exec'[e].at = "stream" /\ exec'[e].lease = exec[e].lease
      /\ exec'[e].kept = exec[e].kept
  BY <1>1, <1>2 DEF Bind, GoesTo, Frame
<1>6. \A x \in Execs : x # e => (MayAnswer(x)' <=> MayAnswer(x))
  BY <1>5 DEF MayAnswer, MayAnswerAs
<1>7. runs[turn.source] # "none"
  BY <1>2 DEF AInv
<1>8. runs[e] # "none" /\ (runs[e] = "active" => ~MayAnswer(e) /\ MayAnswer(e)')
      /\ (runs[e] # "active" => (MayAnswer(e)' <=> MayAnswer(e)))
  BY <1>1, <1>2, <1>5 DEF Fits, MayAnswer, MayAnswerAs
<1>9. TakenOver'
  <2>1. \A x \in Resumers : Holds(x)' => x = e
    BY <1>4 DEF Holds
  <2> QED
    BY <1>5, <2>1 DEF TakenOver
<1>10. \A x \in Execs : Fits(x, exec'[x], runs'[x]) /\ Passes(exec[x])'
  <2>1. Fits(e, exec'[e], runs'[e]) /\ Passes(exec[e])'
    BY <1>1, <1>2, <1>5 DEF Fits, Passes
  <2> QED
    BY <1>5, <2>1 DEF AInv, Passes
<1>11. ASSUME NEW id \in Ids, ~Late(id)' PROVE Enough(id)'
  <2>1. Enough(id)
    BY <1>5, <1>11 DEF Late, AInv
  <2>2. AskedFor(id)' = AskedFor(id)
    BY <1>5, Zenon DEF AskedFor, Execs
  <2>3. CASE turn.id # id
    <3>1. Candidates(id)' \subseteq Candidates(id)
      BY <1>2, <1>5, <1>6, <2>3 DEF Candidates
    <3> QED
      BY <1>4, <2>1, <2>2, <2>3, <3>1, QuietIsEnough
  <2>4. CASE turn.id = id
    <3>1. ~exec[e].late
      BY <1>1, <1>2, <1>5, <1>11, <2>4 DEF Late
    <3>2. runs[turn.source] \in Dead
      BY <1>2, <3>1 DEF AInv, TakenOver, Holds, Has
    <3>3. Spare(id)
      BY <2>4, <3>2 DEF Spare, Candidates, MayAnswer, MayAnswerAs, Dead
    <3>4. CASE runs[e] = "active"
      <4>1. Candidates(id)' = Candidates(id) \union {e} /\ e \notin Candidates(id)
        BY <1>1, <1>2, <1>5, <1>6, <1>8, <2>4, <3>4 DEF Candidates
      <4>2. ~Spare(id)'
        BY <1>4, <4>1 DEF Spare
      <4>3. /\ IsFiniteSet(AskedFor(id)) /\ IsFiniteSet(Candidates(id))
            /\ Cardinality(Candidates(id)) <= Cardinality(AskedFor(id))
            /\ Cardinality(Candidates(id)) < Cardinality(AskedFor(id))
        BY <2>1, <3>3 DEF Enough
      <4>4. /\ IsFiniteSet(Candidates(id) \union {e})
            /\ Cardinality(Candidates(id) \union {e}) <= Cardinality(AskedFor(id))
        BY <4>3, OneMore
      <4> QED
        BY <2>2, <4>1, <4>2, <4>3, <4>4 DEF Enough
    <3>5. CASE runs[e] # "active"
      <4>1. Candidates(id)' = Candidates(id)
        BY <1>5, <1>6, <1>8, <3>5 DEF Candidates
      <4> QED
        BY <2>1, <2>2, <3>3, <4>1 DEF Enough
    <3> QED
      BY <3>4, <3>5
  <2> QED
    BY <2>3, <2>4
<1> QED
  BY <1>4, <1>5, <1>8, <1>9, <1>10, <1>11 DEF AInv

(* A new ask has no turn yet.                                              *)
LEMMA AskAnswers ==
    ASSUME IInv, IInv', AInv, NEW e \in Askers, NEW text \in Texts, Ask(e, text) PROVE AInv'
<1>1. e \in Execs /\ e \notin Resumers
  BY ConstantsAssumption DEF Execs
<1>2. exec[e].at = "idle" /\ Fits(e, exec[e], runs[e])
  BY <1>1 DEF Ask, At, AInv
<1>3. /\ runs[e] = "none" /\ exec[e].id = None /\ ~exec[e].late /\ exec[e] \in Frame
      /\ exec[e].asked = {}
  BY <1>1, <1>2 DEF Fits, IInv
<1>4. PICK f : exec' = [exec EXCEPT ![e] = f] /\ f = [Exec("accept") EXCEPT !.text = text]
  BY DEF Ask
<1>5. f.at = "accept" /\ f.id = None /\ f.late = FALSE /\ f.kept = FALSE /\ f.asked = {}
  BY <1>4 DEF Exec
<1>6. Fits(e, f, "active") /\ Passes(f)
  BY <1>5 DEF Fits, Passes
<1>7. SourceIsKept /\ LeaseIsKept /\ runs' = [runs EXCEPT ![e] = "active"]
  BY UntouchedSlot DEF Ask
<1>8. exec[e].late = FALSE
  BY <1>3 DEF Frame
<1> QED
  BY <1>1, <1>3, <1>4, <1>5, <1>6, <1>7, <1>8, StepAnswers DEF Dead

(* An upsert: whoever is asked may answer, for the turn that it has now    *)
(* and no longer for another one.                                          *)
LEMMA UpsertAnswers ==
    ASSUME IInv, IInv', AInv, NEW e \in Askers, NEW state \in {"accepted", "prepared"},
           NEW at \in {"accept", "prepare"}, NEW next \in {"prepare", "stream"},
           next = "prepare" <=> at = "accept", Upsert(e, at, state, next)
    PROVE  AInv'
<1>1. e \in Execs /\ e \notin Resumers
  BY ConstantsAssumption DEF Execs
<1>2. /\ exec[e].at = at /\ exec[e] \in Frame /\ exec \in [Execs -> Frame]
      /\ Fits(e, exec[e], runs[e]) /\ exec[e].text \in Texts /\ RowIsSound(turn)
  BY <1>1 DEF Upsert, At, IInv, FrameIsSound, AInv
<1>3. /\ runs[e] \in {"active", "cancelled", "timeout"} /\ ~exec[e].late
      /\ at = "accept" => exec[e].asked = {} /\ exec[e].id = None
      /\ at = "prepare" => exec[e].asked = {exec[e].id}
  BY <1>1, <1>2 DEF Fits
<1> DEFINE row == Upserted(e, state)
<1>4. row \in Rows /\ row.state = state /\ row.id \in Ids
  BY <1>1, <1>2, UpsertedFacts, RowFacts
<1>5. row.source = e
  <2>1. CASE turn.state = "none"
    BY <2>1 DEF Upserted, NoTurn
  <2>2. CASE turn.state # "none"
    <3>1. turn \in Rows
      BY <2>2, SlotFacts, NoTurnFacts
    <3>2. row = [turn EXCEPT !.source = e, !.state = state, !.snapshot = state]
      BY <2>2, Zenon DEF Upserted
    <3> QED
      BY <3>1, <3>2 DEF Rows
  <2> QED
    BY <2>1, <2>2
<1>6. PICK new \in Ids : new = row.id
  BY <1>4
<1>7. /\ Write(row) /\ runs' = runs
      /\ exec' = [exec EXCEPT ![e].id = row.id, ![e].asked = @ \union {row.id},
                              ![e].late = runs[e] = "timeout" /\ row.id \in exec[e].asked,
                              ![e].at = next]
  BY DEF Upsert
<1> HIDE DEF row
<1>8. turn'.id = new /\ turn'.source = e /\ turn'.state = state
  BY <1>4, <1>5, <1>6, <1>7 DEF Write, Rows
<1>9. /\ \A x \in Execs : x # e => exec'[x] = exec[x]
      /\ exec'[e].id = new /\ exec'[e].at = next /\ exec'[e].asked = exec[e].asked \union {new}
      /\ exec'[e].late <=> runs[e] = "timeout" /\ new \in exec[e].asked
      /\ exec'[e].kept = exec[e].kept /\ exec'[e].lease = exec[e].lease
  BY <1>1, <1>2, <1>6, <1>7 DEF Frame
<1>10. /\ \A x \in Execs : MayAnswer(x)' <=> MayAnswer(x)
       /\ MayAnswer(e) <=> runs[e] # "timeout"
  BY <1>1, <1>3, <1>7, <1>9 DEF MayAnswer, MayAnswerAs, Dead
<1>11. TakenOver'
  BY <1>8 DEF TakenOver, Holds
<1>12. \A x \in Execs : Fits(x, exec'[x], runs'[x]) /\ Passes(exec[x])'
  <2>1. Fits(e, exec'[e], runs'[e]) /\ Passes(exec[e])'
    BY <1>1, <1>2, <1>3, <1>7, <1>9 DEF Fits, Passes
  <2>2. ASSUME NEW x \in Execs, x # e PROVE Fits(x, exec'[x], runs'[x]) /\ Passes(exec[x])'
    <3>1. exec'[x] = exec[x] /\ runs'[x] = runs[x] /\ Fits(x, exec[x], runs[x]) /\ Passes(exec[x])
      BY <1>7, <1>9, <2>2 DEF AInv
    <3> QED
      BY <1>7, <3>1 DEF Passes
  <2> QED
    BY <2>1, <2>2
<1>13. ASSUME NEW id \in Ids, ~Late(id)' PROVE Enough(id)'
  <2>1. Enough(id)
    BY <1>3, <1>9, <1>13 DEF Late, AInv
  <2>2. CASE new = id /\ runs[e] # "timeout"
    <3>1. /\ Candidates(id)' = Candidates(id) \union {e}
          /\ AskedFor(id)' = AskedFor(id) \union {e}
      BY <1>1, <1>9, <1>10, <2>2 DEF Candidates, AskedFor, Execs
    <3>2. e \in Candidates(id) <=> e \in AskedFor(id)
      <4>1. id # None
        BY ConstantsAssumption DEF Ids
      <4>2. exec[e].id = id <=> id \in exec[e].asked
        BY <1>3, <4>1
      <4> QED
        BY <1>1, <1>10, <2>2, <4>2 DEF Candidates, AskedFor
    <3>3. ~Spare(id)'
      BY <1>8, <3>1 DEF Spare
    <3>4. /\ IsFiniteSet(AskedFor(id)) /\ IsFiniteSet(Candidates(id))
          /\ Cardinality(Candidates(id)) <= Cardinality(AskedFor(id))
      BY <2>1 DEF Enough
    <3>5. /\ IsFiniteSet(AskedFor(id) \union {e}) /\ IsFiniteSet(Candidates(id) \union {e})
          /\ Cardinality(Candidates(id) \union {e}) <= Cardinality(AskedFor(id) \union {e})
      BY <3>2, <3>4, OneMore
    <3> QED
      BY <3>1, <3>3, <3>5 DEF Enough
  <2>3. CASE new = id /\ runs[e] = "timeout"
    <3>1. /\ Candidates(id)' \in SUBSET Candidates(id)
          /\ AskedFor(id)' = AskedFor(id) \union {e}
      BY <1>1, <1>9, <1>10, <2>3 DEF Candidates, AskedFor, Execs
    <3>2. e \notin AskedFor(id)
      BY <1>1, <1>9, <1>13, <2>3 DEF AskedFor, Late
    <3>3. /\ IsFiniteSet(Candidates(id)')
          /\ Cardinality(Candidates(id)') <= Cardinality(Candidates(id))
          /\ Cardinality(Candidates(id)') \in Nat /\ Cardinality(Candidates(id)) \in Nat
      BY <2>1, <3>1, FS_Subset, FS_CardinalityType DEF Enough
    <3>4. /\ IsFiniteSet(AskedFor(id)')
          /\ Cardinality(AskedFor(id)') = Cardinality(AskedFor(id)) + 1
          /\ Cardinality(AskedFor(id)) \in Nat
      BY <2>1, <3>1, <3>2, FS_AddElement, FS_CardinalityType DEF Enough
    <3> QED
      BY <2>1, <3>3, <3>4 DEF Enough
  <2>4. CASE new # id
    <3>1. /\ Candidates(id)' \subseteq Candidates(id)
          /\ AskedFor(id)' = AskedFor(id)
      BY <1>1, <1>9, <1>10, <2>4 DEF Candidates, AskedFor, Execs
    <3> QED
      BY <1>8, <2>1, <2>4, <3>1, QuietIsEnough
  <2> QED
    BY <2>2, <2>3, <2>4
<1> QED
  BY <1>3, <1>7, <1>8, <1>11, <1>12, <1>13 DEF AInv

(* The steps of any execution.                                             *)
LEMMA AnyStepAnswers == ASSUME IInv, IInv', AInv, NEW e \in Execs, AnyStep(e) PROVE AInv'
<1>1. /\ runs = [runs EXCEPT ![e] = runs[e]] /\ exec[e] \in Frame
      /\ exec = [exec EXCEPT ![e] = exec[e]] /\ runs \in [Execs -> RunStates]
  BY DEF IInv
<1>2. \A ends : EndsAs(e, ends) =>
          \/ runs[e] = "active" /\ runs' = [runs EXCEPT ![e] = ends]
          \/ runs' = [runs EXCEPT ![e] = runs[e]]
  BY DEF EndsAs
<1>3. CASE Break(e)
  <2>1. PICK ends \in {"failed", "cancelled", "timeout"} : EndsAs(e, ends)
    BY <1>3 DEF Break, Cancels
  <2>2. PICK place \in {"reconcile", "handle", "done"} : GoesTo(e, place)
    BY <1>3 DEF Break, After
  <2>3. SourceIsKept /\ LeaseIsKept
    BY <1>3, UntouchedSlot DEF Break
  <2> QED
    BY <1>2, <2>1, <2>2, <2>3, MoveAnswers DEF Places
<1>4. CASE Reconcile(e)
  BY <1>1, <1>4, DeletedSlot, MoveAnswers DEF Reconcile, Places, TryDeleteTurn
<1>5. CASE Complete(e)
  <2>1. SourceIsKept /\ LeaseIsKept
    BY <1>5, UntouchedSlot DEF Complete
  <2> QED
    BY <1>2, <1>5, <2>1, MoveAnswers DEF Complete, At, Places
<1>6. CASE MarkSent(e)
  <2>1. SourceIsKept /\ LeaseIsKept
    <3>1. CASE UNCHANGED turn
      BY <3>1, UntouchedSlot
    <3>2. CASE Has(e) /\ Write([turn EXCEPT !.state = "sent"])
      <4>1. turn \in Rows /\ turn.state # "none"
        BY <3>2, SlotFacts, NoTurnFacts DEF Has
      <4>2. /\ [turn EXCEPT !.state = "sent"] \in Rows
            /\ [turn EXCEPT !.state = "sent"].id = turn.id
            /\ [turn EXCEPT !.state = "sent"].source = turn.source
            /\ [turn EXCEPT !.state = "sent"].state = "sent"
        BY <4>1 DEF Rows, TurnStates
      <4> QED
        BY <3>2, <4>1, <4>2, WrittenSlot
    <3> QED
      BY <1>6, <3>1, <3>2 DEF MarkSent
  <2> QED
    BY <1>1, <1>6, <2>1, MoveAnswers DEF MarkSent, Places
<1>7. CASE Settled(e)
  <2>1. PICK place \in {"done", "reconcile", "handle"} : GoesTo(e, place)
    BY <1>7 DEF Settled, After
  <2>2. SourceIsKept /\ LeaseIsKept
    BY <1>7, UntouchedSlot, DeletedSlot DEF Settled
  <2> QED
    BY <1>1, <1>7, <2>1, <2>2, MoveAnswers DEF Settled, Places
<1>8. CASE SettleRun(e)
  <2>1. SourceIsKept /\ LeaseIsKept /\ runs[e] = "active" /\ exec' = exec
    BY <1>8, UntouchedSlot DEF SettleRun
  <2>2. PICK ends \in {"cancelled", "timeout"} : runs' = [runs EXCEPT ![e] = ends]
    BY <1>8 DEF SettleRun, EndsAs, Cancels
  <2>3. Fits(e, exec[e], runs[e]) /\ Passes(exec[e])
    BY DEF AInv
  <2>4. Fits(e, exec[e], ends)
    BY <2>1, <2>3 DEF Fits
  <2>5. MayAnswerAs(e, exec[e], ends) => MayAnswer(e)
    BY <2>1, ConstantsAssumption DEF MayAnswerAs, MayAnswer, Dead
  <2> QED
    BY <1>1, <2>1, <2>2, <2>3, <2>4, <2>5, StepAnswers DEF Dead
<1>9. CASE Crash(e)
  <2>1. PICK place \in {"done", "gone"} : GoesTo(e, place)
    BY <1>9 DEF Crash
  <2>2. SourceIsKept /\ LeaseIsKept
    BY <1>9, UntouchedSlot DEF Crash
  <2> QED
    BY <1>1, <1>9, <2>1, <2>2, MoveAnswers DEF Crash, Places
<1>10. CASE Reap(e)
  <2>1. SourceIsKept /\ LeaseIsKept
    BY <1>10, UntouchedSlot DEF Reap
  <2> QED
    BY <1>2, <1>10, <2>1, MoveAnswers DEF Reap, Places
<1>11. CASE Persist(e)
  <2> DEFINE f == [exec[e] EXCEPT !.kept = TRUE, !.at = "complete"]
  <2>1. exec' = [exec EXCEPT ![e] = f] /\ exec[e].at = "stream" /\ runs[e] = "active"
    BY <1>1, <1>11 DEF Persist, At
  <2>2. /\ f.at = "complete" /\ f.id = exec[e].id /\ f.asked = exec[e].asked
        /\ f.late = exec[e].late /\ f.lease = exec[e].lease
    BY <1>1 DEF Frame
  <2>3. Fits(e, f, runs[e]) /\ Passes(f)
    <3>1. Fits(e, exec[e], runs[e])
      BY DEF AInv
    <3> QED
      BY <2>1, <2>2, <3>1 DEF Fits, Passes
  <2>4. MayAnswer(e)
    BY <2>1 DEF MayAnswer, MayAnswerAs, Execs
  <2>5. SourceIsKept /\ LeaseIsKept
    BY <1>11, UntouchedSlot DEF Persist
  <2>6. runs' = [runs EXCEPT ![e] = runs[e]]
    BY <1>1, <1>11 DEF Persist
  <2> HIDE DEF f
  <2> QED
    BY <2>1, <2>2, <2>3, <2>4, <2>5, <2>6, StepAnswers
<1> QED
  BY <1>3, <1>4, <1>5, <1>6, <1>7, <1>8, <1>9, <1>10, <1>11 DEF AnyStep

(* Time, the cleaner, and nothing at all.                                  *)
LEMMA NobodyAnswers ==
    ASSUME IInv, AInv, UNCHANGED <<runs, exec>>, SourceIsKept, LeaseIsKept PROVE AInv'
<1>1. \A x \in Execs : MayAnswer(x)' <=> MayAnswer(x)
  BY DEF MayAnswer, MayAnswerAs
<1>2. Later
  BY DEF Later
<1>3. TakenOver'
  <2> SUFFICES ASSUME NEW x \in Resumers, exec[x].at \in {"start", "bind"},
                      Holds(x)', ~exec[x].late
               PROVE  runs[turn'.source] \in Dead
    BY DEF TakenOver
  <2>1. turn'.state = "resuming" /\ turn'.lease = x /\ turn'.id = exec[x].id
    BY DEF Holds, Has
  <2>2. /\ turn.state = "resuming" /\ turn.lease = x
        /\ turn'.id = turn.id /\ turn'.source = turn.source
    BY <2>1, NoTurnFacts DEF LeaseIsKept, SourceIsKept
  <2> QED
    BY <2>1, <2>2 DEF AInv, TakenOver, Holds, Has
<1> QED
  BY <1>1, <1>2, <1>3, AnswersAreKept DEF AInv

LEMMA NextAnswers == ASSUME IInv, IInv', AInv, [Next]_vars PROVE AInv'
<1>1. ASSUME NEW e \in Resumers, ResumeStep(e) PROVE AInv'
  BY <1>1, ReadTurnAnswers, ValidateAnswers, AcquireAnswers, AcquireRefusedAnswers,
     ResumeMovesAnswer, BindAnswers DEF ResumeStep
<1>2. ASSUME NEW e \in Askers, AskStep(e) PROVE AInv'
  BY <1>2, AskAnswers, UpsertAnswers DEF AskStep, Accept, Prepare
<1>3. CASE Age
  <2>1. turn.state # "none" /\ turn \in Rows /\ turn' = [turn EXCEPT !.old = TRUE]
    BY <1>3, SlotFacts, NoTurnFacts DEF Age
  <2>2. SourceIsKept /\ LeaseIsKept
    BY <2>1 DEF SourceIsKept, LeaseIsKept, Rows
  <2> QED
    BY <1>3, <2>2, NobodyAnswers DEF Age
<1>4. CASE Clean
  <2>1. SourceIsKept /\ LeaseIsKept
    <3>1. CASE RollBack
      <4>1. CASE UNCHANGED turn
        BY <4>1, UntouchedSlot
      <4>2. CASE turn = clean.row /\ Write(Restored(turn))
        BY <3>1, <4>2, RestoredSlot DEF RollBack
      <4> QED
        BY <3>1, <4>1, <4>2 DEF RollBack
    <3>2. CASE Delete
      BY <3>2, DeletedSlot DEF Delete, TryDeleteTurn
    <3>3. CASE ListTurns \/ Judge
      BY <3>3, UntouchedSlot DEF ListTurns, Judge
    <3> QED
      BY <1>4, <3>1, <3>2, <3>3 DEF Clean
  <2> QED
    BY <1>4, <2>1, NobodyAnswers DEF Clean, ListTurns, RollBack, Judge, Delete
<1>5. CASE UNCHANGED vars
  BY <1>5, UntouchedSlot, NobodyAnswers DEF vars
<1> QED
  BY <1>1, <1>2, <1>3, <1>4, <1>5, AnyStepAnswers DEF Next

LEMMA InitAnswers == ASSUME Init PROVE AInv
<1>1. /\ turn = NoTurn /\ \A e \in Execs : runs[e] = "none" /\ exec[e] = Exec("idle")
      /\ NoTurn.id = None /\ NoTurn.state = "none"
  BY NoTurnFacts DEF Init
<1>2. \A e \in Execs : /\ exec[e].at = "idle" /\ exec[e].id = None /\ exec[e].late = FALSE
                       /\ exec[e].kept = FALSE /\ exec[e].asked = {}
  BY <1>1 DEF Exec
<1>3. \A e \in Execs : Fits(e, exec[e], runs[e]) /\ Passes(exec[e])
  BY <1>1, <1>2 DEF Fits, Passes
<1>4. TakenOver
  BY <1>1 DEF TakenOver, Holds
<1>5. ASSUME NEW id \in Ids PROVE Enough(id)
  <2>1. id # None
    BY ConstantsAssumption DEF Ids
  <2>2. AskedFor(id) = {} /\ Candidates(id) = {} /\ ~Spare(id)
    BY <1>1, <1>2, <2>1 DEF AskedFor, Candidates, Spare, Execs
  <2> QED
    BY <2>2, FS_EmptySet DEF Enough
<1> QED
  BY <1>1, <1>3, <1>4, <1>5 DEF AInv

(* However many executions are asked for and resumed, time out, crash and  *)
(* are cleaned up, the transcript has no more answers of runs that were    *)
(* completed or cancelled to a turn than it was asked for, unless somebody *)
(* acquired it with another source than it had validated, or registered it *)
(* once more for a run that had timed out.                                 *)
THEOREM AnsweredOnceHolds == Spec => []AnsweredOnce
<1>1. Init => IInv /\ AInv
  BY InitEstablishes, InitAnswers
<1>2. IInv /\ AInv /\ [Next]_vars => IInv' /\ AInv'
  BY NextPreserves, NextAnswers
<1>3. ASSUME AInv PROVE AnsweredOnce
  <2> SUFFICES ASSUME NEW id \in Ids, ~Late(id) PROVE OneAnswer(id)
    BY DEF AnsweredOnce
  <2>1. Enough(id)
    BY <1>3 DEF AInv
  <2> DEFINE stands == AnswersOf(id) \ TornOf(id)
  <2>2. stands \in SUBSET Candidates(id)
    BY DEF AnswersOf, TornOf, Candidates, MayAnswer, MayAnswerAs, Dead
  <2>3. IsFiniteSet(stands) /\ Cardinality(stands) <= Cardinality(Candidates(id))
    BY <2>1, <2>2, FS_Subset DEF Enough
  <2> HIDE DEF stands
  <2>4. Cardinality(stands) <= Cardinality(AskedFor(id))
    BY <2>1, <2>3, FS_CardinalityType DEF Enough
  <2> QED
    BY <2>4 DEF OneAnswer, stands
<1> QED
  BY <1>1, <1>2, <1>3, PTL DEF Spec

=============================================================================
