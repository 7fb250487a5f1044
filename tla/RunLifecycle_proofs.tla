------------------------ MODULE RunLifecycle_proofs ------------------------
(***************************************************************************)
(* Proofs about RunLifecycle, for every number of runs, processes and      *)
(* settles: types, that outcomes stay, what success and CANCELLED mean,    *)
(* which cancellation decides, what an ended executor leaves behind, and   *)
(* which pending turns survive.                                            *)
(***************************************************************************)
EXTENDS RunLifecycle, TLAPS

(* A task in the sense of TypeOK.                                          *)
TaskRecord == [at   : Places,
               for  : Callers \union {"cancelled", "failed", None},
               why  : CancelReasons \union {None},
               keep : BOOLEAN]

(* A cancellation is recorded, or there is nothing to cancel any more.     *)
Asked(row) == IsRequested(row) \/ IsTerminal(row)

(* Below, `row`, `tk`, `tok` and so on are what the variables have for one *)
(* run.  The row of a run, and what has been said about its cancellation:  *)
(* `w` is its watcher, `s` its settle, `n` the number of its settles.      *)
RowFits(row, tk, tok, w, s, n) ==
    /\ row = NoRow <=> tk.at = "idle"
    /\ row.state # "queued"
    /\ row.state = "cancelled" => row.reason \in CancelReasons
    /\ row.state = "cancelled" /\ n = 0 => row.reason = row.requested
    /\ s # "idle" => n # 0 /\ row # NoRow
    /\ tok => row # NoRow /\ Asked(row)
    /\ w = "requested" => Asked(row)
    /\ w # "off" => row # NoRow

(* The places at which a run is not decided by its own executor, and those *)
(* it reaches only after start_run.                                        *)
Undecided == {"begin", "start", "acquire", "expired", "hold", "accept", "prepare",
              "stream", "check", "persist", "complete", "read", "cancel", "failing"}
Started   == {"acquire", "expired", "hold", "accept", "prepare", "stream", "check",
              "persist", "complete", "failing"}

(* The row and the place of the executor.                                  *)
PlaceFits(row, tk, tok) ==
    /\ tk.at \in Undecided => row.state \notin {"succeeded", "failed"}
    /\ tk.at \in Started => row.state # "created"
    /\ tk.at \in {"begin", "start"} => row.state # "running"
    /\ tk.at = "unwind" => /\ IsTerminal(row)
                           /\ tk.for \in {"startup", "timeout"}
                           /\ tk.for = "startup" => row.state \notin {"succeeded", "failed"}
    /\ tk.at \in {"read", "cancel"} => tk.for \in Callers
    /\ tk.at = "read" => Asked(row)
    /\ tk.at = "cancel" => IsRequested(row) /\ tk.why = row.requested
    /\ tk.at = "report" => row.state \in {"cancelled", "unsettled"}
    /\ tk.at = "drop" => /\ IsTerminal(row)
                         /\ tk.for = "cancelled" => row.state \in {"cancelled", "unsettled"}
                         /\ ~tk.keep => row.state = "cancelled" /\ row.reason = "user"
    /\ tk.at = "mark" => row.state \in {"succeeded", "cancelled"}
    /\ tk.at = "settle" => /\ row.state # "failed"
                           /\ row.state \in {"succeeded", "cancelled"} \/ tok \/ IsRequested(row)
    /\ tk.at \in {"finish", "release", "done"} => Abandons \/ IsTerminal(row)

(* The turn of an agent run (`turn`), whether it is in the transcript     *)
(* (`tr`), and the events that were published (`pub`).                     *)
TurnFits(row, tk, turn, tr, pub) ==
    /\ tk.at \in {"complete", "mark"} /\ turn => tr
    /\ row.state = "succeeded" /\ turn => tr
    /\ "cancelled" \in pub => /\ row.state \in {"cancelled", "unsettled"}
                              /\ tk.at \in {"finish", "release", "done", "gone"}

(* Nothing is held: no permit, registry entry, bridge or armed timer; and  *)
(* what is left when a permit was not released although it was tried.      *)
Clean(p, reg, b, w) == p = "none" /\ ~reg /\ ~b /\ w # "armed"
Over(p, reg, b, w)  == p # "held" /\ ~reg /\ ~b /\ w # "armed"

Finalizes(tk, callers) == tk.at \in {"read", "cancel"} /\ tk.for \in callers

(* What is held, by the place of the executor: all that was taken can be   *)
(* released through the registry from Hold on, or is with the settle that  *)
(* has popped it; the executor releases it itself before.                  *)
HoldingsFit(tk, p, reg, b, w, s) ==
    /\ tk.at \in {"idle", "begin", "start", "report"}
         \/ Finalizes(tk, {"begin", "unbound"}) => Clean(p, reg, b, w) /\ s # "popped"
    /\ tk.at \in {"acquire", "expired", "unwind"}
         \/ Finalizes(tk, {"startup", "timeout"}) => p = "none" /\ ~reg /\ s # "popped"
    /\ tk.at = "hold" => ~reg /\ s # "popped"
    /\ tk.at \in {"accept", "prepare", "stream", "check", "persist", "complete",
                  "mark", "settle", "failing", "drop", "finish"}
         \/ Finalizes(tk, {"inside", "handler"}) => \/ reg \/ s = "popped"
                                                   \/ Over(p, reg, b, w)
    /\ tk.at \in {"release", "done"} \/ s = "popped" => ~reg
    /\ tk.at = "done" => s = "popped" \/ Over(p, reg, b, w)

RunIsSound(r) ==
    /\ RowFits(runs[r], task[r], token[r], watcher[r], settle[r], settles[r])
    /\ PlaceFits(runs[r], task[r], token[r])
    /\ TurnFits(runs[r], task[r], HasTurn(r), transcript[r], published[r])
    /\ HoldingsFit(task[r], permit[r], registered[r], bridge[r], watcher[r], settle[r])

(* The inductive invariant.                                                *)
IInv == TypeOK /\ \A r \in Runs : RunIsSound(r)

-----------------------------------------------------------------------------
(* Rows                                                                    *)

(* What the statements make of a row.                                      *)
LEMMA RowFacts ==
    ASSUME NEW row \in RunRow, NEW why \in CancelReasons
    PROVE  /\ row.state \in RunStates /\ row # NoRow
           /\ \A target \in RunStates :
                 /\ Moved(row, target) \in RunRow /\ Moved(row, target).state = target
                 /\ Moved(row, target).reason = row.reason
                 /\ Moved(row, target).requested = row.requested
                 /\ Moved(row, target).owner = row.owner
           /\ Cancelled(row, why) \in RunRow /\ Cancelled(row, why).state = "cancelled"
           /\ Cancelled(row, why).reason = why
           /\ Cancelled(row, why).requested = row.requested
           /\ Cancelled(row, why).owner = row.owner
<1>1. row.state \in RunStates /\ row # NoRow
  BY DEF RunRow, NoRow, RunStates, ActiveStates, TerminalStates
<1>2. ASSUME NEW target \in RunStates
      PROVE  /\ Moved(row, target) \in RunRow /\ Moved(row, target).state = target
             /\ Moved(row, target).reason = row.reason
             /\ Moved(row, target).requested = row.requested
             /\ Moved(row, target).owner = row.owner
  <2>1. (row.aged /\ target # "running") \in BOOLEAN
    OBVIOUS
  <2>2. Moved(row, target) = [row EXCEPT !.state = target,
                                         !.aged = (row.aged /\ target # "running")]
    BY DEF Moved, RunRow
  <2>3. QED
    BY <2>1, <2>2 DEF RunRow
<1>3. /\ Cancelled(row, why) \in RunRow /\ Cancelled(row, why).state = "cancelled"
      /\ Cancelled(row, why).reason = why /\ Cancelled(row, why).requested = row.requested
      /\ Cancelled(row, why).owner = row.owner
  BY DEF Cancelled, RunRow, RunStates, TerminalStates
<1>4. QED
  BY <1>1, <1>2, <1>3

(* What reaches a row from outside: a request, age, an orphan cleanup.     *)
LEMMA OutsideFacts ==
    ASSUME NEW row \in RunRow, NEW why \in CancelReasons
    PROVE  /\ CancelRequested(row, why) \in RunRow
           /\ CancelRequested(row, why).state = row.state
           /\ CancelRequested(row, why).reason = row.reason
           /\ IsRequested(row) => CancelRequested(row, why) = row
           /\ ~IsActive(row) => CancelRequested(row, why) = row
           /\ IsRequested(CancelRequested(row, why)) \/ IsTerminal(row)
           /\ [row EXCEPT !.aged = TRUE] \in RunRow
           /\ [row EXCEPT !.aged = TRUE].state = row.state
           /\ [row EXCEPT !.aged = TRUE].reason = row.reason
           /\ [row EXCEPT !.aged = TRUE].requested = row.requested
           /\ Orphaned(row) \in RunRow
           /\ Orphaned(row).reason = row.reason
           /\ Orphaned(row).requested = row.requested
           /\ Orphaned(row).state = IF IsActive(row) THEN "unsettled" ELSE row.state
<1>1. None \notin CancelReasons
  BY ConstantsAssumption
<1>2. row.state \in RunStates
  BY DEF RunRow
<1>3. [row EXCEPT !.requested = why] \in RunRow
  BY DEF RunRow
<1>4. /\ [row EXCEPT !.requested = why].state = row.state
      /\ [row EXCEPT !.requested = why].reason = row.reason
      /\ [row EXCEPT !.requested = why].requested = why
  BY DEF RunRow
<1>5. [row EXCEPT !.aged = TRUE] \in RunRow
  BY DEF RunRow
<1>6. [row EXCEPT !.state = "unsettled"] \in RunRow
  BY DEF RunRow, RunStates, TerminalStates
<1>7. QED
  BY <1>1, <1>2, <1>3, <1>4, <1>5, <1>6
     DEF CancelRequested, Orphaned, IsRequested, IsActive, IsTerminal, RunStates, RunRow

(* The transition table.                                                   *)
LEMMA MoveFacts ==
    ASSUME NEW row \in RunRow \union {NoRow}, NEW p
    PROVE  /\ CanMove(row, "running", p) => row.state \in {"created", "queued"}
           /\ CanMove(row, "cancelled", p) <=> IsActive(row)
           /\ CanMove(row, "failed", p) <=> row.state = "running"
           /\ row.state = "running" => CanMove(row, "succeeded", p)
           /\ row.state = "unsettled" /\ p = row.owner => CanMove(row, "succeeded", p)
           /\ CanMove(row, "succeeded", p) => row.state \in {"running", "unsettled"}
           /\ row.state \in {"created", "queued"} => CanMove(row, "running", p)
           /\ IsActive(row) => ~IsTerminal(row)
           /\ row # NoRow => row \in RunRow /\ (IsActive(row) \/ IsTerminal(row))
           /\ ~IsActive(NoRow) /\ ~IsTerminal(NoRow)
  BY DEF CanMove, ValidTargets, IsActive, IsTerminal, RunRow, NoRow,
         RunStates, ActiveStates, TerminalStates

(* The records that are made of places.                                    *)
LEMMA TaskFacts ==
    /\ \A at \in Places :
          /\ Task(at) \in TaskRecord /\ Task(at).at = at /\ Task(at).for = None
          /\ Task(at).keep = FALSE
    /\ \A caller \in Callers :
          /\ Finalizing(caller) \in TaskRecord /\ Finalizing(caller).at = "read"
          /\ Finalizing(caller).for = caller
          /\ [Task("unwind") EXCEPT !.for = caller] \in TaskRecord
          /\ [Task("unwind") EXCEPT !.for = caller].at = "unwind"
          /\ [Task("unwind") EXCEPT !.for = caller].for = caller
    /\ \A for \in {"cancelled", "failed"}, keep \in BOOLEAN :
          LET tk == [Task("drop") EXCEPT !.for = for, !.keep = keep]
          IN  tk \in TaskRecord /\ tk.at = "drop" /\ tk.for = for /\ tk.keep = keep
<1>1. ASSUME NEW at \in Places
      PROVE  /\ Task(at) \in TaskRecord /\ Task(at).at = at /\ Task(at).for = None
             /\ Task(at).keep = FALSE
  BY DEF Task, TaskRecord
<1>2. ASSUME NEW caller \in Callers
      PROVE  /\ Finalizing(caller) \in TaskRecord /\ Finalizing(caller).at = "read"
             /\ Finalizing(caller).for = caller
             /\ [Task("unwind") EXCEPT !.for = caller] \in TaskRecord
             /\ [Task("unwind") EXCEPT !.for = caller].at = "unwind"
             /\ [Task("unwind") EXCEPT !.for = caller].for = caller
  BY DEF Task, Finalizing, TaskRecord, Places
<1>3. ASSUME NEW for \in {"cancelled", "failed"}, NEW keep \in BOOLEAN
      PROVE  LET tk == [Task("drop") EXCEPT !.for = for, !.keep = keep]
             IN  tk \in TaskRecord /\ tk.at = "drop" /\ tk.for = for /\ tk.keep = keep
  <2>1. Task("drop") \in TaskRecord /\ Task("drop").at = "drop"
    BY <1>1 DEF Places
  <2>2. QED
    BY <2>1 DEF TaskRecord
<1>4. QED
  BY <1>1, <1>2, <1>3

-----------------------------------------------------------------------------
(* One run at a time                                                       *)

(* Nothing that the invariant says of the run has changed.                 *)
SameAt(r) ==
    /\ runs'[r] = runs[r] /\ kind'[r] = kind[r] /\ thread'[r] = thread[r]
    /\ task'[r] = task[r] /\ token'[r] = token[r]
    /\ bridge'[r] = bridge[r] /\ watcher'[r] = watcher[r]
    /\ permit'[r] = permit[r] /\ registered'[r] = registered[r]
    /\ transcript'[r] = transcript[r] /\ published'[r] = published[r]
    /\ settle'[r] = settle[r] /\ settles'[r] = settles[r]

LEMMA SameStays ==
    ASSUME NEW r \in Runs, RunIsSound(r), SameAt(r)
    PROVE  RunIsSound(r)'
  BY DEF RunIsSound, SameAt, HasTurn

(* A step of one run leaves the others alone.                              *)
LEMMA OneRun ==
    ASSUME IInv, TypeOK', NEW r \in Runs, RunIsSound(r)',
           \A s \in Runs : s # r => SameAt(s)
    PROVE  IInv'
  BY SameStays DEF IInv

(* The executor writes the row, or does not, and goes to another place;    *)
(* otherwise only the pending turn may change.                             *)
MovesTo(r, row, tk) ==
    /\ runs' = [runs EXCEPT ![r] = row]
    /\ GoesTo(r, tk)
    /\ pending' \in [Runs -> {"none", "accepted", "prepared", "sent"}]
    /\ UNCHANGED <<shape, token, resources, transcript, published, host, alive>>

LEMMA Moves ==
    ASSUME IInv, NEW r \in Runs, NEW row \in RunRow, NEW tk \in TaskRecord,
           MovesTo(r, row, tk),
           RowFits(row, tk, token[r], watcher[r], settle[r], settles[r]),
           PlaceFits(row, tk, token[r]),
           TurnFits(row, tk, HasTurn(r), transcript[r], published[r]),
           HoldingsFit(tk, permit[r], registered[r], bridge[r], watcher[r], settle[r])
    PROVE  IInv'
<1>1. TypeOK
  BY DEF IInv
<1>2. runs'[r] = row /\ task'[r] = tk
  BY <1>1 DEF TypeOK, MovesTo, GoesTo
<1>3. TypeOK'
  BY <1>1 DEF TypeOK, MovesTo, GoesTo, TaskRecord, shape, resources, host
<1>4. \A s \in Runs : s # r => SameAt(s)
  BY <1>1 DEF TypeOK, MovesTo, GoesTo, SameAt, shape, resources, host
<1>5. RunIsSound(r)'
  BY <1>2 DEF RunIsSound, MovesTo, HasTurn, shape, resources, host
<1>6. QED
  BY <1>3, <1>4, <1>5, OneRun

(* The same when the row stands.                                           *)
LEMMA Goes ==
    ASSUME IInv, NEW r \in Runs, NEW tk \in TaskRecord,
           task[r].at # "idle", tk.at # "idle",
           runs' = runs, GoesTo(r, tk),
           pending' \in [Runs -> {"none", "accepted", "prepared", "sent"}],
           UNCHANGED <<shape, token, resources, transcript, published, host, alive>>,
           PlaceFits(runs[r], tk, token[r]),
           TurnFits(runs[r], tk, HasTurn(r), transcript[r], published[r]),
           HoldingsFit(tk, permit[r], registered[r], bridge[r], watcher[r], settle[r])
    PROVE  IInv'
<1>1. TypeOK /\ RunIsSound(r)
  BY DEF IInv
<1>2. runs[r] \in RunRow
      /\ RowFits(runs[r], tk, token[r], watcher[r], settle[r], settles[r])
  BY <1>1 DEF TypeOK, RunIsSound, RowFits
<1>3. MovesTo(r, runs[r], tk)
  BY <1>1 DEF MovesTo, TypeOK
<1>4. QED
  BY <1>2, <1>3, Moves

-----------------------------------------------------------------------------
(* The steps of the executor that leave the row as it is                   *)

(* What a step of the executor may use of the run it is in.                *)
LEMMA Known ==
    ASSUME IInv, NEW r \in Runs, task[r].at # "idle"
    PROVE  /\ TypeOK /\ RunIsSound(r)
           /\ runs[r] \in RunRow /\ runs[r] # NoRow
           /\ task[r] \in TaskRecord
           /\ runs[r].state \in RunStates /\ runs[r].state # "queued"
           /\ pending \in [Runs -> {"none", "accepted", "prepared", "sent"}]
           /\ IsActive(runs[r]) \/ IsTerminal(runs[r])
           /\ IsActive(runs[r]) <=> runs[r].state \in {"created", "running"}
           /\ IsTerminal(runs[r]) <=> runs[r].state \in TerminalStates
<1>1. TypeOK /\ RunIsSound(r)
  BY DEF IInv
<1>2. runs[r] \in RunRow /\ runs[r] # NoRow /\ task[r] \in TaskRecord
      /\ runs[r].state # "queued"
  BY <1>1 DEF TypeOK, RunIsSound, RowFits, TaskRecord
<1>3. runs[r].state \in RunStates
  BY <1>2 DEF RunRow
<1>4. QED
  BY <1>1, <1>2, <1>3
     DEF TypeOK, IsActive, IsTerminal, RunStates, ActiveStates, TerminalStates

LEMMA StartRefusedKeeps ==
    ASSUME IInv, NEW r \in Runs, StartRefused(r)
    PROVE  IInv'
<1>1. Task("done") \in TaskRecord /\ Task("done").at = "done"
  BY TaskFacts DEF Places
<1>2. task[r].at = "start" /\ GoesTo(r, Task("done"))
  BY DEF StartRefused, At
<1>3. TypeOK /\ RunIsSound(r) /\ runs[r] \in RunRow
  BY <1>2, Known
<1>4. IsTerminal(runs[r])
  BY <1>2, <1>3, Known, MoveFacts DEF StartRefused, RunIsSound, PlaceFits
<1>5. PlaceFits(runs[r], Task("done"), token[r])
  BY <1>1, <1>4 DEF PlaceFits, Undecided, Started
<1>6. TurnFits(runs[r], Task("done"), HasTurn(r), transcript[r], published[r])
  BY <1>1, <1>2, <1>3 DEF RunIsSound, TurnFits
<1>7. HoldingsFit(Task("done"), permit[r], registered[r], bridge[r], watcher[r], settle[r])
  BY <1>1, <1>2, <1>3 DEF RunIsSound, HoldingsFit, Finalizes, Clean, Over
<1>8. QED
  BY <1>1, <1>2, <1>3, <1>5, <1>6, <1>7, Goes, Known DEF StartRefused, turns

LEMMA AcquireCancelledKeeps ==
    ASSUME IInv, NEW r \in Runs, AcquireCancelled(r)
    PROVE  IInv'
<1> DEFINE tk == Finalizing("startup")
<1>1. tk \in TaskRecord /\ tk.at = "read" /\ tk.for = "startup"
  BY TaskFacts DEF Callers
<1>2. task[r].at = "acquire" /\ token[r] /\ GoesTo(r, tk)
  BY DEF AcquireCancelled, At
<1>3. TypeOK /\ RunIsSound(r) /\ runs[r] \in RunRow
  BY <1>2, Known
<1> HIDE DEF tk
<1>5. PlaceFits(runs[r], tk, token[r])
  BY <1>1, <1>2, <1>3 DEF RunIsSound, RowFits, PlaceFits, Undecided, Started, Callers
<1>6. TurnFits(runs[r], tk, HasTurn(r), transcript[r], published[r])
  BY <1>1, <1>2, <1>3 DEF RunIsSound, TurnFits
<1>7. HoldingsFit(tk, permit[r], registered[r], bridge[r], watcher[r], settle[r])
  BY <1>1, <1>2, <1>3 DEF RunIsSound, HoldingsFit, Finalizes
<1>8. QED
  BY <1>1, <1>2, <1>3, <1>5, <1>6, <1>7, Goes, Known DEF AcquireCancelled, turns

LEMMA AcquireTimedOutKeeps ==
    ASSUME IInv, NEW r \in Runs, AcquireTimedOut(r)
    PROVE  IInv'
<1> DEFINE tk == IF IsCancelled(r) THEN Finalizing("timeout") ELSE Task("expired")
<1>a. GoesTo(r, tk)
  BY DEF AcquireTimedOut
<1>b. (tk = Finalizing("timeout") /\ IsCancelled(r)) \/ tk = Task("expired")
  BY DEF IsCancelled, IsRequested, IsAgent
<1> HIDE DEF tk
<1>c. /\ Finalizing("timeout") \in TaskRecord /\ Finalizing("timeout").at = "read"
      /\ Finalizing("timeout").for = "timeout"
      /\ Task("expired") \in TaskRecord /\ Task("expired").at = "expired"
  BY TaskFacts DEF Places, Callers
<1>1. /\ tk \in TaskRecord /\ GoesTo(r, tk)
      /\ \/ tk.at = "expired"
         \/ tk.at = "read" /\ tk.for = "timeout" /\ IsCancelled(r)
  BY <1>a, <1>b, <1>c DEF IsCancelled, IsRequested, IsAgent
<1>2. task[r].at = "acquire"
  BY DEF AcquireTimedOut, At
<1>3. TypeOK /\ RunIsSound(r) /\ runs[r] \in RunRow
  BY <1>2, Known
<1>4. PlaceFits(runs[r], tk, token[r])
  BY <1>1, <1>2, <1>3
     DEF RunIsSound, RowFits, PlaceFits, Undecided, Started, Callers, IsCancelled,
         Asked
<1>5. TurnFits(runs[r], tk, HasTurn(r), transcript[r], published[r])
  BY <1>1, <1>2, <1>3 DEF RunIsSound, TurnFits
<1>6. HoldingsFit(tk, permit[r], registered[r], bridge[r], watcher[r], settle[r])
  BY <1>1, <1>2, <1>3 DEF RunIsSound, HoldingsFit, Finalizes
<1>7. QED
  BY <1>1, <1>2, <1>3, <1>4, <1>5, <1>6, Goes, Known DEF AcquireTimedOut, turns, TypeOK

LEMMA AcceptKeeps ==
    ASSUME IInv, NEW r \in Runs, Accept(r)
    PROVE  IInv'
<1>1. PICK tk \in TaskRecord : GoesTo(r, tk) /\ (tk.at = "prepare")
  BY TaskFacts DEF Accept, Places
<1>2. task[r].at = "accept"
  BY DEF Accept, At
<1>3. TypeOK /\ RunIsSound(r) /\ runs[r] \in RunRow
  BY <1>2, Known
<1>4. PlaceFits(runs[r], tk, token[r])
  BY <1>1, <1>2, <1>3 DEF RunIsSound, RowFits, PlaceFits, Undecided, Started, Callers
<1>5. TurnFits(runs[r], tk, HasTurn(r), transcript[r], published[r])
  BY <1>1, <1>2, <1>3 DEF RunIsSound, TurnFits
<1>6. HoldingsFit(tk, permit[r], registered[r], bridge[r], watcher[r], settle[r])
  BY <1>1, <1>2, <1>3 DEF RunIsSound, HoldingsFit, Finalizes
<1>7. QED
  BY <1>1, <1>2, <1>3, <1>4, <1>5, <1>6, Goes, Known DEF Accept, turns, TypeOK

LEMMA PrepareKeeps ==
    ASSUME IInv, NEW r \in Runs, Prepare(r)
    PROVE  IInv'
<1>1. PICK tk \in TaskRecord : GoesTo(r, tk) /\ (tk.at = "stream")
  BY TaskFacts DEF Prepare, Places
<1>2. task[r].at = "prepare"
  BY DEF Prepare, At
<1>3. TypeOK /\ RunIsSound(r) /\ runs[r] \in RunRow
  BY <1>2, Known
<1>4. PlaceFits(runs[r], tk, token[r])
  BY <1>1, <1>2, <1>3 DEF RunIsSound, RowFits, PlaceFits, Undecided, Started, Callers
<1>5. TurnFits(runs[r], tk, HasTurn(r), transcript[r], published[r])
  BY <1>1, <1>2, <1>3 DEF RunIsSound, TurnFits
<1>6. HoldingsFit(tk, permit[r], registered[r], bridge[r], watcher[r], settle[r])
  BY <1>1, <1>2, <1>3 DEF RunIsSound, HoldingsFit, Finalizes
<1>7. QED
  BY <1>1, <1>2, <1>3, <1>4, <1>5, <1>6, Goes, Known DEF Prepare, turns, TypeOK

LEMMA EndStreamKeeps ==
    ASSUME IInv, NEW r \in Runs, EndStream(r)
    PROVE  IInv'
<1>1. PICK tk \in TaskRecord : GoesTo(r, tk) /\ (tk.at = "check")
  BY TaskFacts DEF EndStream, Places
<1>2. task[r].at = "stream"
  BY DEF EndStream, At
<1>3. TypeOK /\ RunIsSound(r) /\ runs[r] \in RunRow
  BY <1>2, Known
<1>4. PlaceFits(runs[r], tk, token[r])
  BY <1>1, <1>2, <1>3 DEF RunIsSound, RowFits, PlaceFits, Undecided, Started, Callers
<1>5. TurnFits(runs[r], tk, HasTurn(r), transcript[r], published[r])
  BY <1>1, <1>2, <1>3 DEF RunIsSound, TurnFits
<1>6. HoldingsFit(tk, permit[r], registered[r], bridge[r], watcher[r], settle[r])
  BY <1>1, <1>2, <1>3 DEF RunIsSound, HoldingsFit, Finalizes
<1>7. QED
  BY <1>1, <1>2, <1>3, <1>4, <1>5, <1>6, Goes, Known DEF EndStream, turns, TypeOK

LEMMA StreamCancelledKeeps ==
    ASSUME IInv, NEW r \in Runs, StreamCancelled(r)
    PROVE  IInv'
<1>1. PICK tk \in TaskRecord : GoesTo(r, tk) /\ (tk.at = "read" /\ tk.for = "handler")
  BY TaskFacts DEF StreamCancelled, Callers
<1>2. task[r].at = "stream" /\ token[r]
  BY DEF StreamCancelled, At
<1>3. TypeOK /\ RunIsSound(r) /\ runs[r] \in RunRow
  BY <1>2, Known
<1>4. PlaceFits(runs[r], tk, token[r])
  BY <1>1, <1>2, <1>3 DEF RunIsSound, RowFits, PlaceFits, Undecided, Started, Callers
<1>5. TurnFits(runs[r], tk, HasTurn(r), transcript[r], published[r])
  BY <1>1, <1>2, <1>3 DEF RunIsSound, TurnFits
<1>6. HoldingsFit(tk, permit[r], registered[r], bridge[r], watcher[r], settle[r])
  BY <1>1, <1>2, <1>3 DEF RunIsSound, HoldingsFit, Finalizes
<1>7. QED
  BY <1>1, <1>2, <1>3, <1>4, <1>5, <1>6, Goes, Known DEF StreamCancelled, turns, TypeOK

LEMMA BodyRaisesKeeps ==
    ASSUME IInv, NEW r \in Runs, BodyRaises(r)
    PROVE  IInv'
<1> DEFINE tk == IF IsCancelled(r) THEN Finalizing("handler") ELSE Task("failing")
<1>a. GoesTo(r, tk)
  BY DEF BodyRaises
<1>b. (tk = Finalizing("handler") /\ IsCancelled(r)) \/ tk = Task("failing")
  BY DEF IsCancelled, IsRequested, IsAgent
<1> HIDE DEF tk
<1>c. /\ Finalizing("handler") \in TaskRecord /\ Finalizing("handler").at = "read"
      /\ Finalizing("handler").for = "handler"
      /\ Task("failing") \in TaskRecord /\ Task("failing").at = "failing"
  BY TaskFacts DEF Places, Callers
<1>1. /\ tk \in TaskRecord /\ GoesTo(r, tk)
      /\ \/ tk.at = "failing"
         \/ tk.at = "read" /\ tk.for = "handler" /\ IsCancelled(r)
  BY <1>a, <1>b, <1>c DEF IsCancelled, IsRequested, IsAgent
<1>2. task[r].at \in {"accept", "prepare", "stream", "persist"}
  BY DEF BodyRaises, At
<1>3. TypeOK /\ RunIsSound(r) /\ runs[r] \in RunRow
  BY <1>2, Known
<1>4. PlaceFits(runs[r], tk, token[r])
  BY <1>1, <1>2, <1>3
     DEF RunIsSound, RowFits, PlaceFits, Undecided, Started, Callers, IsCancelled,
         Asked
<1>5. TurnFits(runs[r], tk, HasTurn(r), transcript[r], published[r])
  BY <1>1, <1>2, <1>3 DEF RunIsSound, TurnFits
<1>6. HoldingsFit(tk, permit[r], registered[r], bridge[r], watcher[r], settle[r])
  BY <1>1, <1>2, <1>3 DEF RunIsSound, HoldingsFit, Finalizes
<1>7. QED
  BY <1>1, <1>2, <1>3, <1>4, <1>5, <1>6, Goes, Known DEF BodyRaises, turns, TypeOK

LEMMA CheckKeeps ==
    ASSUME IInv, NEW r \in Runs, Check(r)
    PROVE  IInv'
<1> DEFINE tk == CASE IsCancelled(r) /\ IsStream(r)  -> Task("settle")
                  [] IsCancelled(r) /\ ~IsStream(r) -> Finalizing("inside")
                  [] OTHER -> Task(IF HasTurn(r) THEN "persist" ELSE "complete")
<1>1. /\ tk \in TaskRecord /\ GoesTo(r, tk)
      /\ \/ tk.at = "settle" /\ IsCancelled(r)
         \/ tk.at = "read" /\ tk.for = "inside" /\ IsCancelled(r)
         \/ tk.at = "persist"
         \/ tk.at = "complete" /\ ~HasTurn(r)
  <2>1. CASE IsCancelled(r) /\ IsStream(r)
    BY <2>1, TaskFacts DEF Check, Places, Callers
  <2>2. CASE IsCancelled(r) /\ ~IsStream(r)
    BY <2>2, TaskFacts DEF Check, Places, Callers
  <2>3. CASE ~IsCancelled(r) /\ HasTurn(r)
    BY <2>3, TaskFacts DEF Check, Places, Callers
  <2>4. CASE ~IsCancelled(r) /\ ~HasTurn(r)
    BY <2>4, TaskFacts DEF Check, Places, Callers
  <2>5. QED
    BY <2>1, <2>2, <2>3, <2>4
<1> HIDE DEF tk
<1>2. task[r].at = "check"
  BY DEF Check, At
<1>3. TypeOK /\ RunIsSound(r) /\ runs[r] \in RunRow
  BY <1>2, Known
<1>4. PlaceFits(runs[r], tk, token[r])
  BY <1>1, <1>2, <1>3
     DEF RunIsSound, RowFits, PlaceFits, Undecided, Started, Callers, IsCancelled,
         Asked
<1>5. TurnFits(runs[r], tk, HasTurn(r), transcript[r], published[r])
  BY <1>1, <1>2, <1>3 DEF RunIsSound, TurnFits
<1>6. HoldingsFit(tk, permit[r], registered[r], bridge[r], watcher[r], settle[r])
  BY <1>1, <1>2, <1>3 DEF RunIsSound, HoldingsFit, Finalizes
<1>7. QED
  BY <1>1, <1>2, <1>3, <1>4, <1>5, <1>6, Goes, Known DEF Check, turns, TypeOK

LEMMA MarkSentKeeps ==
    ASSUME IInv, NEW r \in Runs, MarkSent(r)
    PROVE  IInv'
<1>1. PICK tk \in TaskRecord : GoesTo(r, tk) /\ (tk.at = "settle")
  BY TaskFacts DEF MarkSent, Places
<1>2. task[r].at = "mark"
  BY DEF MarkSent, At
<1>3. TypeOK /\ RunIsSound(r) /\ runs[r] \in RunRow
  BY <1>2, Known
<1>4. PlaceFits(runs[r], tk, token[r])
  BY <1>1, <1>2, <1>3 DEF RunIsSound, RowFits, PlaceFits, Undecided, Started, Callers
<1>5. TurnFits(runs[r], tk, HasTurn(r), transcript[r], published[r])
  BY <1>1, <1>2, <1>3 DEF RunIsSound, TurnFits
<1>6. HoldingsFit(tk, permit[r], registered[r], bridge[r], watcher[r], settle[r])
  BY <1>1, <1>2, <1>3 DEF RunIsSound, HoldingsFit, Finalizes
<1>7. pending' \in [Runs -> {"none", "accepted", "prepared", "sent"}]
  BY <1>2, Known DEF MarkSent
<1>8. QED
  BY <1>1, <1>2, <1>3, <1>4, <1>5, <1>6, <1>7, Goes DEF MarkSent, turns

LEMMA AbandonKeeps ==
    ASSUME IInv, NEW r \in Runs, Abandon(r)
    PROVE  IInv'
<1>1. PICK tk \in TaskRecord : GoesTo(r, tk) /\ (tk.at = "finish")
  BY TaskFacts DEF Abandon, Places
<1>2. task[r].at \in {"prepare", "stream"} /\ Abandons
  BY DEF Abandon, At
<1>3. TypeOK /\ RunIsSound(r) /\ runs[r] \in RunRow
  BY <1>2, Known
<1>4. PlaceFits(runs[r], tk, token[r])
  BY <1>1, <1>2, <1>3 DEF RunIsSound, RowFits, PlaceFits, Undecided, Started, Callers
<1>5. TurnFits(runs[r], tk, HasTurn(r), transcript[r], published[r])
  BY <1>1, <1>2, <1>3 DEF RunIsSound, TurnFits
<1>6. HoldingsFit(tk, permit[r], registered[r], bridge[r], watcher[r], settle[r])
  BY <1>1, <1>2, <1>3 DEF RunIsSound, HoldingsFit, Finalizes
<1>7. QED
  BY <1>1, <1>2, <1>3, <1>4, <1>5, <1>6, Goes, Known DEF Abandon, turns, TypeOK

LEMMA BuildRaisesKeeps ==
    ASSUME IInv, NEW r \in Runs, BuildRaises(r)
    PROVE  IInv'
<1>1. PICK tk \in TaskRecord : GoesTo(r, tk) /\ (tk.at = "gone")
  BY TaskFacts DEF BuildRaises, Places
<1>2. task[r].at = "prepare"
  BY DEF BuildRaises, At
<1>3. TypeOK /\ RunIsSound(r) /\ runs[r] \in RunRow
  BY <1>2, Known
<1>4. PlaceFits(runs[r], tk, token[r])
  BY <1>1, <1>2, <1>3 DEF PlaceFits, Undecided, Started
<1>5. TurnFits(runs[r], tk, HasTurn(r), transcript[r], published[r])
  BY <1>1, <1>2, <1>3 DEF RunIsSound, TurnFits
<1>6. HoldingsFit(tk, permit[r], registered[r], bridge[r], watcher[r], settle[r])
  BY <1>1, <1>2, <1>3 DEF RunIsSound, HoldingsFit, Finalizes
<1>7. QED
  BY <1>1, <1>2, <1>3, <1>4, <1>5, <1>6, Goes, Known DEF BuildRaises, turns, TypeOK

-----------------------------------------------------------------------------
(* _finalize_cancelled, and the other steps that write the row             *)

(* Where _finalize_cancelled goes with the record it returns.              *)
VerdictFits(tk, for, row) ==
    \/ for = "begin" /\ tk.at = "read" /\ tk.for = "unbound"
    \/ for = "begin" /\ tk.at = "done"
    \/ for = "startup" /\ tk.at = "unwind" /\ tk.for = "startup"
    \/ for = "timeout" /\ tk.at = "unwind" /\ tk.for = "timeout"
    \/ for = "unbound" /\ tk.at = "report"
    \/ /\ for \in {"inside", "handler"} /\ tk.at = "drop" /\ tk.for = "cancelled"
       /\ ~tk.keep => ShouldDeleteTurn(row)

LEMMA Verdict ==
    ASSUME NEW r \in Runs, NEW row \in RunRow, task[r].for \in Callers
    PROVE  /\ AfterFinalizing(r, row) \in TaskRecord
           /\ VerdictFits(AfterFinalizing(r, row), task[r].for, row)
<1> DEFINE verdict == [Task("drop") EXCEPT !.for = "cancelled", !.keep = ~ShouldDeleteTurn(row)]
<1>1. ShouldDeleteTurn(row) \in BOOLEAN
  BY DEF ShouldDeleteTurn
<1>2. verdict \in TaskRecord /\ verdict.at = "drop" /\ verdict.for = "cancelled"
      /\ verdict.keep = ~ShouldDeleteTurn(row)
  BY <1>1, TaskFacts
<1>3. CASE task[r].for = "begin"
  <2>1. \/ AfterFinalizing(r, row) = Finalizing("unbound")
        \/ AfterFinalizing(r, row) = Task("done")
    BY <1>3 DEF AfterFinalizing
  <2>2. /\ Finalizing("unbound") \in TaskRecord /\ Finalizing("unbound").at = "read"
        /\ Finalizing("unbound").for = "unbound"
        /\ Task("done") \in TaskRecord /\ Task("done").at = "done"
    BY TaskFacts DEF Callers, Places
  <2>3. QED
    BY <1>3, <2>1, <2>2 DEF VerdictFits
<1>4. CASE task[r].for \in {"startup", "timeout"}
  <2> DEFINE tk == [Task("unwind") EXCEPT !.for = task[r].for]
  <2>1. AfterFinalizing(r, row) = tk
    BY <1>4 DEF AfterFinalizing
  <2>2. tk \in TaskRecord /\ tk.at = "unwind" /\ tk.for = task[r].for
    BY TaskFacts
  <2> HIDE DEF tk
  <2>3. QED
    BY <1>4, <2>1, <2>2 DEF VerdictFits
<1>5. CASE task[r].for = "unbound"
  <2>1. AfterFinalizing(r, row) = Task("report")
    BY <1>5 DEF AfterFinalizing
  <2>2. Task("report") \in TaskRecord /\ Task("report").at = "report"
    BY TaskFacts DEF Places
  <2>3. QED
    BY <1>5, <2>1, <2>2 DEF VerdictFits
<1>6. CASE task[r].for \in {"inside", "handler"}
  <2>1. AfterFinalizing(r, row) = verdict
    BY <1>6 DEF AfterFinalizing
  <2>2. QED
    BY <1>1, <1>2, <1>6, <2>1 DEF VerdictFits
<1>7. QED
  BY <1>3, <1>4, <1>5, <1>6 DEF Callers

(* The row _finalize_cancelled returns is terminal and no outcome of the   *)
(* executor itself, whichever way it became so.                            *)
LEMMA VerdictKeeps ==
    ASSUME IInv, NEW r \in Runs, NEW row \in RunRow, task[r].at \in {"read", "cancel"},
           IsTerminal(row), row.state \in {"cancelled", "unsettled"},
           row.state = "cancelled" => row.reason \in CancelReasons
    PROVE  LET tk == AfterFinalizing(r, row)
           IN  /\ tk \in TaskRecord /\ tk.at # "idle"
               /\ PlaceFits(row, tk, token[r])
               /\ TurnFits(row, tk, HasTurn(r), transcript[r], published[r])
               /\ HoldingsFit(tk, permit[r], registered[r], bridge[r], watcher[r], settle[r])
<1> DEFINE tk == AfterFinalizing(r, row)
<1>1. TypeOK /\ RunIsSound(r)
  BY DEF IInv
<1>2. task[r].for \in Callers
  BY <1>1 DEF RunIsSound, PlaceFits
<1>3. tk \in TaskRecord /\ VerdictFits(tk, task[r].for, row)
  BY <1>2, Verdict
<1> HIDE DEF tk
<1>4. ShouldDeleteTurn(row) => row.state = "cancelled" /\ row.reason = "user"
  BY DEF ShouldDeleteTurn, CancelReasons
<1>5. PlaceFits(row, tk, token[r])
  BY <1>3, <1>4 DEF PlaceFits, VerdictFits, Undecided, Started, Callers, Asked
<1>6. TurnFits(row, tk, HasTurn(r), transcript[r], published[r])
  BY <1>1, <1>3 DEF RunIsSound, TurnFits, VerdictFits
<1>7. HoldingsFit(tk, permit[r], registered[r], bridge[r], watcher[r], settle[r])
  BY <1>1, <1>3 DEF RunIsSound, HoldingsFit, Finalizes, Clean, Over, VerdictFits
<1>8. QED
  BY <1>3, <1>5, <1>6, <1>7 DEF tk, VerdictFits

LEMMA FinalizeReadKeeps ==
    ASSUME IInv, NEW r \in Runs, FinalizeRead(r)
    PROVE  IInv'
<1>1. task[r].at = "read"
  BY DEF FinalizeRead, At
<1>2. TypeOK /\ RunIsSound(r) /\ runs[r] \in RunRow /\ task[r] \in TaskRecord
  BY <1>1, Known
<1>3. CASE IsTerminal(runs[r])
  <2>1. runs[r].state \in {"cancelled", "unsettled"}
    BY <1>1, <1>2, <1>3, Known DEF RunIsSound, PlaceFits, Undecided, TerminalStates
  <2>2. runs[r].state = "cancelled" => runs[r].reason \in CancelReasons
    BY <1>2 DEF RunIsSound, RowFits
  <2>3. GoesTo(r, AfterFinalizing(r, runs[r]))
    BY <1>3 DEF FinalizeRead
  <2>4. QED
    BY <1>1, <1>2, <1>3, <2>1, <2>2, <2>3, VerdictKeeps, Known, Goes
       DEF FinalizeRead, turns
<1>4. CASE ~IsTerminal(runs[r])
  <2> DEFINE why == IF IsRequested(runs[r]) THEN runs[r].requested ELSE "user"
             tk == [task[r] EXCEPT !.at = "cancel", !.why = why]
  <2>1. GoesTo(r, tk)
    BY <1>4 DEF FinalizeRead
  <2>2. IsRequested(runs[r])
    BY <1>1, <1>2, <1>4 DEF RunIsSound, PlaceFits, Asked
  <2>3. why = runs[r].requested /\ why \in CancelReasons
    BY <1>2, <2>2 DEF RunRow, IsRequested
  <2>4. /\ tk \in TaskRecord /\ tk.at = "cancel" /\ tk.for = task[r].for
        /\ tk.why = runs[r].requested
    BY <1>2, <2>3 DEF TaskRecord, Places
  <2> HIDE DEF tk
  <2>5. PlaceFits(runs[r], tk, token[r])
    BY <1>1, <1>2, <2>2, <2>4 DEF RunIsSound, PlaceFits, Undecided, Started
  <2>6. TurnFits(runs[r], tk, HasTurn(r), transcript[r], published[r])
    BY <1>1, <1>2, <2>4 DEF RunIsSound, TurnFits
  <2>7. HoldingsFit(tk, permit[r], registered[r], bridge[r], watcher[r], settle[r])
    BY <1>1, <1>2, <2>4 DEF RunIsSound, HoldingsFit, Finalizes
  <2>8. QED
    BY <1>1, <1>2, <2>1, <2>4, <2>5, <2>6, <2>7, Known, Goes DEF FinalizeRead, turns
<1>5. QED
  BY <1>3, <1>4

LEMMA FinalizeWriteKeeps ==
    ASSUME IInv, NEW r \in Runs, FinalizeWrite(r)
    PROVE  IInv'
<1> DEFINE row == Cancelled(runs[r], task[r].why)
           tk  == AfterFinalizing(r, row)
<1>1. task[r].at = "cancel" /\ CanMove(runs[r], "cancelled", Owner(r))
      /\ SetRow(r, row) /\ GoesTo(r, tk)
  BY DEF FinalizeWrite, At
<1>2. TypeOK /\ RunIsSound(r) /\ runs[r] \in RunRow
  BY <1>1, Known
<1>3. IsRequested(runs[r]) /\ task[r].why = runs[r].requested
      /\ task[r].why \in CancelReasons
  BY <1>1, <1>2 DEF RunIsSound, PlaceFits, RunRow, IsRequested
<1>4. /\ row \in RunRow /\ row # NoRow /\ row.state = "cancelled"
      /\ row.reason = task[r].why
      /\ row.requested = runs[r].requested
  BY <1>2, <1>3, RowFacts
<1> HIDE DEF row
<1>5. IsTerminal(row)
  BY <1>4 DEF IsTerminal, TerminalStates
<1>6. RowFits(row, tk, token[r], watcher[r], settle[r], settles[r])
  <2>1. tk.at # "idle"
    BY <1>1, <1>3, <1>4, <1>5, VerdictKeeps
  <2>2. QED
    BY <1>2, <1>3, <1>4, <1>5, <2>1 DEF RunIsSound, RowFits, Asked
<1>7. QED
  BY <1>1, <1>2, <1>3, <1>4, <1>5, <1>6, VerdictKeeps, Known, Moves
     DEF FinalizeWrite, MovesTo, SetRow, turns

LEMMA FinalizeRefusedKeeps ==
    ASSUME IInv, NEW r \in Runs, FinalizeRefused(r)
    PROVE  IInv'
<1>1. task[r].at = "cancel" /\ ~CanMove(runs[r], "cancelled", Owner(r))
  BY DEF FinalizeRefused, At
<1>2. TypeOK /\ RunIsSound(r) /\ runs[r] \in RunRow
  BY <1>1, Known
<1>3. IsRequested(runs[r]) /\ IsTerminal(runs[r]) /\ task[r].for \in Callers
      /\ runs[r].state \in {"cancelled", "unsettled"}
  BY <1>1, <1>2, Known, MoveFacts DEF RunIsSound, PlaceFits, Undecided, TerminalStates
<1>4. PICK tk \in TaskRecord :
        /\ GoesTo(r, tk)
        /\ \/ tk.at = "done" /\ task[r].for \in {"begin", "unbound"}
           \/ /\ tk.at = "unwind" /\ tk.for = task[r].for
              /\ task[r].for \in {"startup", "timeout"}
           \/ /\ tk.at = "read" /\ tk.for = "handler"
              /\ task[r].for = "inside"
           \/ tk.at = "finish" /\ task[r].for = "handler"
  <2>1. CASE task[r].for \in {"begin", "unbound"}
    BY <2>1, TaskFacts DEF FinalizeRefused, Places
  <2>2. CASE task[r].for \in {"startup", "timeout"}
    <3> DEFINE tk == [Task("unwind") EXCEPT !.for = task[r].for]
    <3>1. GoesTo(r, tk)
      BY <2>2 DEF FinalizeRefused
    <3>2. tk \in TaskRecord /\ tk.at = "unwind" /\ tk.for = task[r].for
      BY <1>3, TaskFacts
    <3> HIDE DEF tk
    <3>3. QED
      BY <2>2, <3>1, <3>2
  <2>3. CASE task[r].for = "inside"
    <3>1. GoesTo(r, Finalizing("handler"))
      BY <1>3, <2>3 DEF FinalizeRefused, IsCancelled
    <3>2. QED
      BY <2>3, <3>1, TaskFacts DEF Callers
  <2>4. CASE task[r].for = "handler"
    BY <2>4, TaskFacts DEF FinalizeRefused, Places
  <2>5. QED
    BY <1>3, <2>1, <2>2, <2>3, <2>4 DEF Callers
<1>5. PlaceFits(runs[r], tk, token[r])
  BY <1>1, <1>2, <1>3, <1>4 DEF PlaceFits, Undecided, Started, Callers, Asked
<1>6. TurnFits(runs[r], tk, HasTurn(r), transcript[r], published[r])
  BY <1>1, <1>2, <1>4 DEF RunIsSound, TurnFits
<1>7. HoldingsFit(tk, permit[r], registered[r], bridge[r], watcher[r], settle[r])
  BY <1>1, <1>2, <1>4 DEF RunIsSound, HoldingsFit, Finalizes, Clean, Over
<1>8. QED
  BY <1>1, <1>2, <1>4, <1>5, <1>6, <1>7, Known, Goes DEF FinalizeRefused, turns

(* What FailStart and Fail make of the row.                                *)
LEMMA FailedRow ==
    ASSUME IInv, NEW r \in Runs, task[r].at \in {"expired", "failing"}
    PROVE  LET row == IF CanMove(runs[r], "failed", Owner(r))
                      THEN Moved(runs[r], "failed") ELSE runs[r]
           IN  /\ row \in RunRow /\ row # NoRow /\ row.state \in TerminalStates \ {"succeeded"}
               /\ IsTerminal(row)
               /\ row.reason = runs[r].reason /\ row.requested = runs[r].requested
               /\ row.state # "failed" => row = runs[r]
<1>1. TypeOK /\ RunIsSound(r) /\ runs[r] \in RunRow
  BY Known
<1>2. runs[r].state \notin {"succeeded", "failed", "created", "queued"}
  BY <1>1 DEF RunIsSound, RowFits, PlaceFits, Undecided, Started
<1>3. CASE CanMove(runs[r], "failed", Owner(r))
  <2>1. "failed" \in RunStates /\ "user" \in CancelReasons
    BY DEF RunStates, TerminalStates, CancelReasons
  <2>2. /\ Moved(runs[r], "failed") \in RunRow /\ Moved(runs[r], "failed").state = "failed"
        /\ Moved(runs[r], "failed").reason = runs[r].reason
        /\ Moved(runs[r], "failed").requested = runs[r].requested
        /\ Moved(runs[r], "failed") # NoRow
    BY <1>1, <2>1, RowFacts
  <2>3. QED
    BY <1>3, <2>2 DEF IsTerminal, TerminalStates
<1>4. CASE ~CanMove(runs[r], "failed", Owner(r))
  BY <1>1, <1>2, <1>4, Known, MoveFacts
     DEF IsTerminal, TerminalStates, RunStates, ActiveStates
<1>5. QED
  BY <1>3, <1>4

LEMMA FailStartKeeps ==
    ASSUME IInv, NEW r \in Runs, FailStart(r)
    PROVE  IInv'
<1> DEFINE row == IF CanMove(runs[r], "failed", Owner(r))
                  THEN Moved(runs[r], "failed") ELSE runs[r]
           tk  == [Task("unwind") EXCEPT !.for = "timeout"]
<1>1. task[r].at = "expired" /\ SetRow(r, row) /\ GoesTo(r, tk)
  BY DEF FailStart, At
<1>2. TypeOK /\ RunIsSound(r) /\ runs[r] \in RunRow
  BY <1>1, Known
<1>3. /\ row \in RunRow /\ row # NoRow /\ row.state \in TerminalStates \ {"succeeded"}
      /\ IsTerminal(row)
      /\ row.reason = runs[r].reason /\ row.requested = runs[r].requested
      /\ row.state # "failed" => row = runs[r]
  BY <1>1, FailedRow
<1>4. tk \in TaskRecord /\ tk.at = "unwind" /\ tk.for = "timeout"
  BY TaskFacts DEF Callers
<1> HIDE DEF row, tk
<1>5. RowFits(row, tk, token[r], watcher[r], settle[r], settles[r])
  BY <1>1, <1>2, <1>3, <1>4 DEF RunIsSound, RowFits, Asked, IsRequested, TerminalStates
<1>6. PlaceFits(row, tk, token[r])
  BY <1>3, <1>4 DEF PlaceFits, Undecided, Started
<1>7. TurnFits(row, tk, HasTurn(r), transcript[r], published[r])
  BY <1>1, <1>2, <1>3, <1>4 DEF RunIsSound, TurnFits
<1>8. HoldingsFit(tk, permit[r], registered[r], bridge[r], watcher[r], settle[r])
  BY <1>1, <1>2, <1>4 DEF RunIsSound, HoldingsFit, Finalizes
<1>9. QED
  BY <1>1, <1>2, <1>3, <1>4, <1>5, <1>6, <1>7, <1>8, Known, Moves
     DEF FailStart, MovesTo, SetRow, turns

LEMMA FailKeeps ==
    ASSUME IInv, NEW r \in Runs, Fail(r)
    PROVE  IInv'
<1> DEFINE row == IF CanMove(runs[r], "failed", Owner(r))
                  THEN Moved(runs[r], "failed") ELSE runs[r]
           tk  == [Task("drop") EXCEPT !.for = "failed", !.keep = ~ShouldDeleteTurn(row)]
<1>1. task[r].at = "failing" /\ SetRow(r, row) /\ GoesTo(r, tk)
  BY DEF Fail, At
<1>2. TypeOK /\ RunIsSound(r) /\ runs[r] \in RunRow
  BY <1>1, Known
<1>3. /\ row \in RunRow /\ row # NoRow /\ row.state \in TerminalStates \ {"succeeded"}
      /\ IsTerminal(row)
      /\ row.reason = runs[r].reason /\ row.requested = runs[r].requested
      /\ row.state # "failed" => row = runs[r]
  BY <1>1, FailedRow
<1> HIDE DEF row
<1>4. ShouldDeleteTurn(row) \in BOOLEAN
  BY DEF ShouldDeleteTurn
<1>5. tk \in TaskRecord /\ tk.at = "drop" /\ tk.for = "failed"
      /\ tk.keep = ~ShouldDeleteTurn(row)
  BY <1>4, TaskFacts
<1> HIDE DEF tk
<1>6. RowFits(row, tk, token[r], watcher[r], settle[r], settles[r])
  BY <1>1, <1>2, <1>3, <1>5 DEF RunIsSound, RowFits, Asked, IsRequested, TerminalStates
<1>7. ShouldDeleteTurn(row) => row.state = "cancelled" /\ row.reason = "user"
  BY <1>3, <1>6 DEF ShouldDeleteTurn, RowFits, CancelReasons, TerminalStates
<1>8. PlaceFits(row, tk, token[r])
  BY <1>3, <1>4, <1>5, <1>7 DEF PlaceFits, Undecided, Started
<1>9. TurnFits(row, tk, HasTurn(r), transcript[r], published[r])
  BY <1>1, <1>2, <1>3, <1>5 DEF RunIsSound, TurnFits
<1>10. HoldingsFit(tk, permit[r], registered[r], bridge[r], watcher[r], settle[r])
  BY <1>1, <1>2, <1>5 DEF RunIsSound, HoldingsFit, Finalizes
<1>11. QED
  BY <1>1, <1>2, <1>3, <1>5, <1>6, <1>8, <1>9, <1>10, Known, Moves
     DEF Fail, MovesTo, SetRow, turns

(* What Complete and SettleStream make of the row.                         *)
LEMMA SucceededRow ==
    ASSUME IInv, NEW r \in Runs, task[r].at \in {"complete", "settle"}
    PROVE  /\ Succeeded(r) \in RunRow /\ Succeeded(r) # NoRow
           /\ Succeeded(r).reason = runs[r].reason
           /\ Succeeded(r).requested = runs[r].requested
           /\ Succeeded(r).state # "succeeded" => Succeeded(r) = runs[r]
           /\ runs[r].state = "succeeded" => Succeeded(r) = runs[r]
           /\ task[r].at = "complete" => Succeeded(r).state \in {"succeeded", "cancelled"}
<1>1. TypeOK /\ RunIsSound(r) /\ runs[r] \in RunRow /\ runs[r].state # "queued"
      /\ runs[r] # NoRow
  BY Known
<1>2. "succeeded" \in RunStates /\ "user" \in CancelReasons
  BY DEF RunStates, TerminalStates, CancelReasons
<1>3. /\ Moved(runs[r], "succeeded") \in RunRow
      /\ Moved(runs[r], "succeeded").state = "succeeded"
      /\ Moved(runs[r], "succeeded").reason = runs[r].reason
      /\ Moved(runs[r], "succeeded").requested = runs[r].requested
      /\ Moved(runs[r], "succeeded") # NoRow
  BY <1>1, <1>2, RowFacts
<1>4. CanMove(runs[r], "succeeded", Owner(r)) => runs[r].state \in {"running", "unsettled"}
  BY <1>1, MoveFacts
<1>5. ASSUME task[r].at = "complete"
      PROVE  runs[r].state = "cancelled" \/ CanMove(runs[r], "succeeded", Owner(r))
  <2>1. runs[r].state \notin {"succeeded", "failed", "created"}
    BY <1>1, <1>5 DEF RunIsSound, PlaceFits, Undecided, Started
  <2>2. runs[r].state \in {"running", "cancelled", "unsettled"}
    BY <1>1, <1>5, <2>1, Known DEF RunStates, ActiveStates, TerminalStates
  <2>3. QED
    BY <1>1, <2>2, MoveFacts DEF Owner
<1>6. QED
  BY <1>1, <1>3, <1>4, <1>5 DEF Succeeded

LEMMA CompleteKeeps ==
    ASSUME IInv, NEW r \in Runs, Complete(r)
    PROVE  IInv'
<1> DEFINE row == Succeeded(r)
           tk  == Task(IF IsStream(r) THEN "mark" ELSE "finish")
<1>1. task[r].at = "complete" /\ SetRow(r, row) /\ GoesTo(r, tk)
  BY DEF Complete, At
<1>2. TypeOK /\ RunIsSound(r) /\ runs[r] \in RunRow
  BY <1>1, Known
<1>3. /\ row \in RunRow /\ row # NoRow /\ row.state \in {"succeeded", "cancelled"}
      /\ row.reason = runs[r].reason /\ row.requested = runs[r].requested
      /\ row.state # "succeeded" => row = runs[r]
  BY <1>1, SucceededRow
<1>4. tk \in TaskRecord /\ tk.at \in {"mark", "finish"}
  BY TaskFacts DEF Places
<1> HIDE DEF row, tk
<1>5. RowFits(row, tk, token[r], watcher[r], settle[r], settles[r])
  BY <1>1, <1>2, <1>3, <1>4
     DEF RunIsSound, RowFits, Asked, IsRequested, IsTerminal, TerminalStates
<1>6. PlaceFits(row, tk, token[r])
  BY <1>3, <1>4 DEF PlaceFits, Undecided, Started, IsTerminal, TerminalStates
<1>7. TurnFits(row, tk, HasTurn(r), transcript[r], published[r])
  BY <1>1, <1>2, <1>3, <1>4 DEF RunIsSound, TurnFits
<1>8. HoldingsFit(tk, permit[r], registered[r], bridge[r], watcher[r], settle[r])
  BY <1>1, <1>2, <1>4 DEF RunIsSound, HoldingsFit, Finalizes
<1>9. QED
  BY <1>1, <1>2, <1>3, <1>4, <1>5, <1>6, <1>7, <1>8, Known, Moves
     DEF Complete, MovesTo, SetRow, turns

(* A run at the end of its stream is succeeded, cancelled, or asked to be, *)
(* so that there is nothing open for SettleStream to complete.             *)
LEMMA NothingOpen ==
    ASSUME IInv, NEW r \in Runs, task[r].at = "settle"
    PROVE  StreamOutcome(r) = "open" => runs[r].state = "cancelled"
<1>1. TypeOK /\ RunIsSound(r)
  BY Known
<1>2. runs[r].state \in {"succeeded", "cancelled"} \/ IsCancelled(r)
  BY <1>1 DEF RunIsSound, PlaceFits, IsCancelled
<1>3. runs[r].state = "succeeded" => StreamOutcome(r) = "succeeded"
  BY DEF StreamOutcome
<1>4. runs[r].state # "succeeded" /\ IsCancelled(r) => StreamOutcome(r) = "cancelled"
  BY DEF StreamOutcome
<1>5. QED
  BY <1>2, <1>3, <1>4

(* The second complete_run of a stream therefore never changes anything.   *)
LEMMA SettleStreamLeaves ==
    ASSUME IInv, NEW r \in Runs, SettleStream(r, StreamOutcome(r))
    PROVE  runs' = runs
<1> DEFINE outcome == StreamOutcome(r)
<1>1. /\ task[r].at = "settle"
      /\ SetRow(r, IF outcome = "open" THEN Succeeded(r) ELSE runs[r])
  BY DEF SettleStream, At
<1>2. TypeOK /\ runs[r] \in RunRow
  BY <1>1, Known
<1>3. outcome = "open" => Succeeded(r) = runs[r]
  <2>1. runs[r].state = "cancelled" => ~CanMove(runs[r], "succeeded", Owner(r))
    BY <1>2, MoveFacts
  <2>2. QED
    BY <1>1, <2>1, NothingOpen DEF Succeeded
<1>4. QED
  BY <1>1, <1>2, <1>3 DEF SetRow, TypeOK

LEMMA SettleStreamKeeps ==
    ASSUME IInv, NEW r \in Runs, SettleStream(r, StreamOutcome(r))
    PROVE  IInv'
<1> DEFINE outcome == StreamOutcome(r)
           tk == IF outcome = "cancelled" THEN Finalizing("inside") ELSE Task("finish")
<1>1. task[r].at = "settle" /\ GoesTo(r, tk)
  BY DEF SettleStream, At
<1>2. TypeOK /\ RunIsSound(r) /\ runs[r] \in RunRow
  BY <1>1, Known
<1>3. /\ outcome = "cancelled" => IsCancelled(r) /\ runs[r].state # "succeeded"
      /\ outcome # "cancelled" => runs[r].state \in {"succeeded", "cancelled"}
  <2>1. runs[r].state \in {"succeeded", "cancelled"} \/ IsCancelled(r)
    BY <1>1, <1>2 DEF RunIsSound, PlaceFits, IsCancelled
  <2>2. runs[r].state = "succeeded" => outcome = "succeeded"
    BY DEF StreamOutcome
  <2>3. runs[r].state # "succeeded" /\ IsCancelled(r) => outcome = "cancelled"
    BY DEF StreamOutcome
  <2>4. runs[r].state # "succeeded" /\ ~IsCancelled(r) => outcome = "open"
    BY DEF StreamOutcome
  <2>5. QED
    BY <2>1, <2>2, <2>3, <2>4 DEF IsCancelled, IsRequested
<1>4. runs' = runs
  BY SettleStreamLeaves
<1>5. /\ tk \in TaskRecord
      /\ \/ tk.at = "read" /\ tk.for = "inside" /\ outcome = "cancelled"
         \/ tk.at = "finish" /\ outcome # "cancelled"
  <2>1. CASE outcome = "cancelled"
    BY <2>1, TaskFacts DEF Callers
  <2>2. CASE outcome # "cancelled"
    BY <2>2, TaskFacts DEF Places
  <2>3. QED
    BY <2>1, <2>2
<1>6. pending' \in [Runs -> {"none", "accepted", "prepared", "sent"}]
  BY <1>2 DEF SettleStream, DropTurn, TypeOK
<1>7. UNCHANGED <<shape, token, resources, transcript, published, host, alive>>
  BY DEF SettleStream
<1> HIDE DEF tk, outcome
<1>8. PlaceFits(runs[r], tk, token[r])
  BY <1>1, <1>2, <1>3, <1>5
     DEF RunIsSound, RowFits, PlaceFits, Undecided, Started, Callers, Asked, IsCancelled,
         IsTerminal, TerminalStates
<1>9. TurnFits(runs[r], tk, HasTurn(r), transcript[r], published[r])
  BY <1>1, <1>2, <1>5 DEF RunIsSound, TurnFits
<1>10. HoldingsFit(tk, permit[r], registered[r], bridge[r], watcher[r], settle[r])
  BY <1>1, <1>2, <1>5 DEF RunIsSound, HoldingsFit, Finalizes
<1>11. QED
  BY <1>1, <1>2, <1>4, <1>5, <1>6, <1>7, <1>8, <1>9, <1>10, Goes

-----------------------------------------------------------------------------
(* The steps of the executor that take and release                         *)

LEMMA RegisterKeeps ==
    ASSUME IInv, NEW r \in Runs, NEW p \in Processes, NEW k \in Kinds, NEW t \in Threads,
           Register(r, p, k, t)
    PROVE  IInv'
<1> DEFINE row == NewRow(p)
           tk  == Task("begin")
<1>1. TypeOK /\ RunIsSound(r) /\ task[r].at = "idle"
  BY DEF IInv, Register, At
<1>2. row \in RunRow /\ row # NoRow /\ row.state = "created"
  BY DEF NewRow, RunRow, NoRow, RunStates, ActiveStates
<1>3. tk \in TaskRecord /\ tk.at = "begin"
  BY TaskFacts DEF Places
<1>4. t \in {"worker", "main"}
  BY ConstantsAssumption
<1> HIDE DEF row, tk
<1>5. /\ runs' = [runs EXCEPT ![r] = row] /\ task' = [task EXCEPT ![r] = tk]
      /\ kind' = [kind EXCEPT ![r] = k] /\ thread' = [thread EXCEPT ![r] = t]
      /\ UNCHANGED <<token, resources, turns, host, alive>>
  BY DEF Register, SetRow, GoesTo, row, tk
<1>6. TypeOK'
  BY <1>1, <1>2, <1>3, <1>4, <1>5 DEF TypeOK, TaskRecord, resources, turns, host
<1>7. \A s \in Runs : s # r => SameAt(s)
  BY <1>1, <1>5 DEF TypeOK, SameAt, resources, turns, host
<1>8. /\ runs'[r] = row /\ task'[r] = tk /\ token'[r] = token[r]
      /\ watcher'[r] = watcher[r] /\ settle'[r] = settle[r] /\ settles'[r] = settles[r]
      /\ transcript'[r] = transcript[r] /\ published'[r] = published[r]
      /\ permit'[r] = permit[r] /\ registered'[r] = registered[r] /\ bridge'[r] = bridge[r]
  BY <1>1, <1>5 DEF TypeOK, resources, turns, host
<1>9. runs[r] = NoRow
  BY <1>1 DEF RunIsSound, RowFits
<1>10. RowFits(row, tk, token[r], watcher[r], settle[r], settles[r])
  BY <1>1, <1>2, <1>3, <1>9 DEF RunIsSound, RowFits
<1>11. PlaceFits(row, tk, token[r])
  BY <1>2, <1>3 DEF PlaceFits, Undecided, Started
<1>12. TurnFits(row, tk, HasTurn(r)', transcript[r], published[r])
  BY <1>1, <1>2, <1>3 DEF RunIsSound, TurnFits
<1>13. HoldingsFit(tk, permit[r], registered[r], bridge[r], watcher[r], settle[r])
  BY <1>1, <1>3 DEF RunIsSound, HoldingsFit, Finalizes
<1>14. RunIsSound(r)'
  BY <1>8, <1>10, <1>11, <1>12, <1>13 DEF RunIsSound
<1>15. QED
  BY <1>6, <1>7, <1>14, OneRun

(* A step of one run, with what it leaves in each variable.                *)
Takes(r, row, tk, tok, b, w, p, reg, tr, pub, s, n) ==
    /\ runs' = [runs EXCEPT ![r] = row]
    /\ GoesTo(r, tk)
    /\ token' = [token EXCEPT ![r] = tok]
    /\ bridge' = [bridge EXCEPT ![r] = b]
    /\ watcher' = [watcher EXCEPT ![r] = w]
    /\ permit' = [permit EXCEPT ![r] = p]
    /\ registered' = [registered EXCEPT ![r] = reg]
    /\ transcript' = [transcript EXCEPT ![r] = tr]
    /\ published' = [published EXCEPT ![r] = pub]
    /\ pending' \in [Runs -> {"none", "accepted", "prepared", "sent"}]
    /\ settle' = [settle EXCEPT ![r] = s]
    /\ settles' = [settles EXCEPT ![r] = n]
    /\ UNCHANGED <<shape, orphans, alive>>

TypesFit(tok, b, w, p, reg, tr, pub, s, n) ==
    /\ {tok, b, reg, tr} \subseteq BOOLEAN
    /\ p \in {"none", "held", "stuck"}
    /\ w \in {"off", "armed", "fired", "requested"}
    /\ pub \in SUBSET {"done", "cancelled"}
    /\ s \in {"idle", "listed", "asked", "mark", "sweep", "release", "popped", "settled", "refused"}
    /\ n \in 0..MaxSettles

LEMMA Took ==
    ASSUME IInv, NEW r \in Runs, NEW row, NEW tk, NEW tok, NEW b, NEW w, NEW p, NEW reg,
           NEW tr, NEW pub, NEW s, NEW n,
           row \in RunRow, tk \in TaskRecord, TypesFit(tok, b, w, p, reg, tr, pub, s, n),
           Takes(r, row, tk, tok, b, w, p, reg, tr, pub, s, n),
           RowFits(row, tk, tok, w, s, n),
           PlaceFits(row, tk, tok),
           TurnFits(row, tk, HasTurn(r), tr, pub),
           HoldingsFit(tk, p, reg, b, w, s)
    PROVE  IInv'
<1>1. TypeOK
  BY DEF IInv
<1>2. TypeOK'
  BY <1>1 DEF TypeOK, Takes, TypesFit, GoesTo, TaskRecord, shape
<1>3. \A q \in Runs : q # r => SameAt(q)
  BY <1>1 DEF TypeOK, SameAt, Takes, GoesTo, shape
<1>4. /\ runs'[r] = row /\ task'[r] = tk /\ token'[r] = tok /\ watcher'[r] = w
      /\ settle'[r] = s /\ settles'[r] = n /\ transcript'[r] = tr
      /\ published'[r] = pub /\ permit'[r] = p /\ registered'[r] = reg /\ bridge'[r] = b
      /\ kind'[r] = kind[r]
  BY <1>1 DEF TypeOK, Takes, GoesTo, shape
<1>5. RunIsSound(r)'
  BY <1>4 DEF RunIsSound, HasTurn
<1>6. QED
  BY <1>2, <1>3, <1>5, OneRun

(* What a step leaves alone, in the form of Took.                          *)
LEMMA Unmoved ==
    ASSUME TypeOK, NEW r \in Runs
    PROVE  /\ runs = [runs EXCEPT ![r] = runs[r]]
           /\ task = [task EXCEPT ![r] = task[r]]
           /\ token = [token EXCEPT ![r] = token[r]]
           /\ bridge = [bridge EXCEPT ![r] = bridge[r]]
           /\ watcher = [watcher EXCEPT ![r] = watcher[r]]
           /\ permit = [permit EXCEPT ![r] = permit[r]]
           /\ registered = [registered EXCEPT ![r] = registered[r]]
           /\ transcript = [transcript EXCEPT ![r] = transcript[r]]
           /\ published = [published EXCEPT ![r] = published[r]]
           /\ settle = [settle EXCEPT ![r] = settle[r]]
           /\ settles = [settles EXCEPT ![r] = settles[r]]
           /\ pending \in [Runs -> {"none", "accepted", "prepared", "sent"}]
  BY DEF TypeOK

LEMMA Values ==
    ASSUME TypeOK, NEW r \in Runs
    PROVE  TypesFit(token[r], bridge[r], watcher[r], permit[r], registered[r],
                    transcript[r], published[r], settle[r], settles[r])
  BY DEF TypeOK, TypesFit

LEMMA AcquireKeeps ==
    ASSUME IInv, NEW r \in Runs, Acquire(r)
    PROVE  IInv'
<1>1. PICK tk \in TaskRecord : GoesTo(r, tk) /\ tk.at = "hold"
  BY TaskFacts DEF Acquire, Places
<1>2. TypeOK /\ RunIsSound(r) /\ task[r].at = "acquire" /\ runs[r] \in RunRow
  BY Known DEF Acquire, At
<1>3. Takes(r, runs[r], tk, token[r], bridge[r], watcher[r], "held", registered[r],
            transcript[r], published[r], settle[r], settles[r])
  BY <1>1, <1>2, Unmoved DEF Acquire, Takes, turns, host
<1>4. TypesFit(token[r], bridge[r], watcher[r], "held", registered[r], transcript[r],
               published[r], settle[r], settles[r])
  BY <1>2, Values DEF TypesFit
<1>5. RowFits(runs[r], tk, token[r], watcher[r], settle[r], settles[r])
  BY <1>1, <1>2 DEF RunIsSound, RowFits
<1>6. PlaceFits(runs[r], tk, token[r])
  BY <1>1, <1>2 DEF RunIsSound, PlaceFits, Undecided, Started
<1>7. TurnFits(runs[r], tk, HasTurn(r), transcript[r], published[r])
  BY <1>1, <1>2 DEF RunIsSound, TurnFits
<1>8. HoldingsFit(tk, "held", registered[r], bridge[r], watcher[r], settle[r])
  BY <1>1, <1>2 DEF RunIsSound, HoldingsFit, Finalizes
<1>9. QED
  BY <1>2, <1>3, <1>5, <1>6, <1>7, <1>4, <1>8, Took

LEMMA BeginKeeps ==
    ASSUME IInv, NEW r \in Runs, Begin(r)
    PROVE  IInv'
<1> DEFINE tok == token[r] \/ IsRequested(runs[r])
           tk  == IF IsRequested(runs[r]) THEN Finalizing("begin") ELSE Task("start")
<1>1. TypeOK /\ RunIsSound(r) /\ runs[r] \in RunRow /\ runs[r] # NoRow
      /\ task[r].at = "begin"
  BY Known DEF Begin, At
<1>2. /\ tk \in TaskRecord
      /\ \/ tk.at = "read" /\ tk.for = "begin" /\ IsRequested(runs[r])
         \/ tk.at = "start"
  <2>1. CASE IsRequested(runs[r])
    BY <2>1, TaskFacts DEF Callers
  <2>2. CASE ~IsRequested(runs[r])
    BY <2>2, TaskFacts DEF Places
  <2>3. QED
    BY <2>1, <2>2 DEF IsRequested
<1>3. tok \in BOOLEAN /\ (tok <=> token[r] \/ IsRequested(runs[r]))
  BY <1>1, Values DEF TypesFit, IsRequested
<1>4. Takes(r, runs[r], tk, tok, bridge[r], watcher[r], permit[r], registered[r],
            transcript[r], published[r], settle[r], settles[r])
  BY <1>1, <1>2, <1>3, Unmoved DEF Begin, Takes, GoesTo, resources, turns, host
<1>5. TypesFit(tok, bridge[r], watcher[r], permit[r], registered[r], transcript[r],
               published[r], settle[r], settles[r])
  BY <1>1, <1>2, <1>3, Values DEF TypesFit
<1> HIDE DEF tk, tok
<1>6. RowFits(runs[r], tk, tok, watcher[r], settle[r], settles[r])
  BY <1>1, <1>2, <1>3 DEF RunIsSound, RowFits, Asked
<1>7. PlaceFits(runs[r], tk, tok)
  BY <1>1, <1>2, <1>3 DEF RunIsSound, PlaceFits, Undecided, Started, Callers, Asked
<1>8. TurnFits(runs[r], tk, HasTurn(r), transcript[r], published[r])
  BY <1>1, <1>2, <1>3 DEF RunIsSound, TurnFits
<1>9. HoldingsFit(tk, permit[r], registered[r], bridge[r], watcher[r], settle[r])
  BY <1>1, <1>2, <1>3 DEF RunIsSound, HoldingsFit, Finalizes
<1>10. QED
  BY <1>1, <1>2, <1>3, <1>4, <1>5, <1>6, <1>7, <1>8, <1>9, Known, Took

LEMMA StartRunKeeps ==
    ASSUME IInv, NEW r \in Runs, NEW timed \in BOOLEAN, StartRun(r, timed)
    PROVE  IInv'
<1> DEFINE row == Moved(runs[r], "running")
           tk  == Task("acquire")
           w   == IF timed THEN "armed" ELSE "off"
<1>1. TypeOK /\ RunIsSound(r) /\ runs[r] \in RunRow /\ runs[r] # NoRow
      /\ task[r].at = "start"
      /\ CanMove(runs[r], "running", Owner(r))
  BY Known DEF StartRun, At
<1>2. "running" \in RunStates /\ "user" \in CancelReasons
  BY DEF RunStates, ActiveStates, CancelReasons
<1>3. /\ row \in RunRow /\ row # NoRow /\ row.state = "running"
      /\ row.reason = runs[r].reason /\ row.requested = runs[r].requested
  BY <1>1, <1>2, RowFacts
<1>4. runs[r].state = "created"
  BY <1>1, Known, MoveFacts
<1>5. tk \in TaskRecord /\ tk.at = "acquire"
  BY TaskFacts DEF Places
<1>6. w \in {"armed", "off"}
  OBVIOUS
<1>7. Takes(r, row, tk, token[r], TRUE, w, permit[r], registered[r], transcript[r],
            published[r], settle[r], settles[r])
  BY <1>1, <1>2, <1>3, <1>4, <1>5, <1>6, Unmoved
     DEF StartRun, Takes, GoesTo, SetRow, turns, host
<1>8. TypesFit(token[r], TRUE, w, permit[r], registered[r], transcript[r],
               published[r], settle[r], settles[r])
  BY <1>1, <1>2, <1>3, <1>4, <1>5, <1>6, Values DEF TypesFit
<1> HIDE DEF row, tk, w
<1>9. RowFits(row, tk, token[r], w, settle[r], settles[r])
  BY <1>1, <1>2, <1>3, <1>4, <1>5, <1>6
     DEF RunIsSound, RowFits, Asked, IsRequested, IsTerminal, TerminalStates
<1>10. PlaceFits(row, tk, token[r])
  BY <1>1, <1>2, <1>3, <1>4, <1>5, <1>6 DEF RunIsSound, PlaceFits, Undecided, Started
<1>11. TurnFits(row, tk, HasTurn(r), transcript[r], published[r])
  BY <1>1, <1>2, <1>3, <1>4, <1>5, <1>6 DEF RunIsSound, TurnFits
<1>12. HoldingsFit(tk, permit[r], registered[r], TRUE, w, settle[r])
  BY <1>1, <1>2, <1>3, <1>4, <1>5, <1>6 DEF RunIsSound, HoldingsFit, Finalizes, Clean, Over
<1>13. QED
  BY <1>1, <1>2, <1>3, <1>4, <1>5, <1>6, <1>7, <1>8, <1>9, <1>10, <1>11, <1>12, Known,
     Took

LEMMA UnwindKeeps ==
    ASSUME IInv, NEW r \in Runs, Unwind(r)
    PROVE  IInv'
<1> DEFINE w == IF watcher[r] = "armed" THEN "off" ELSE watcher[r]
           tk == IF task[r].for = "startup" /\ kind[r] # "replay"
                 THEN Finalizing("unbound") ELSE Task("done")
<1>1. TypeOK /\ RunIsSound(r) /\ runs[r] \in RunRow /\ runs[r] # NoRow
      /\ task[r].at = "unwind"
  BY Known DEF Unwind, At
<1>2. w \in {"off", "fired", "requested"}
      /\ (w = "requested" => watcher[r] = "requested")
      /\ (w # "off" => watcher[r] # "off")
  BY <1>1, Values DEF TypesFit
<1>3. /\ tk \in TaskRecord
      /\ \/ tk.at = "read" /\ tk.for = "unbound" /\ task[r].for = "startup"
         \/ tk.at = "done"
  <2>1. CASE task[r].for = "startup" /\ kind[r] # "replay"
    BY <2>1, TaskFacts DEF Callers
  <2>2. CASE ~(task[r].for = "startup" /\ kind[r] # "replay")
    BY <2>2, TaskFacts DEF Places
  <2>3. QED
    BY <2>1, <2>2
<1>4. Takes(r, runs[r], tk, token[r], FALSE, w, permit[r], registered[r],
            transcript[r], published[r], settle[r], settles[r])
  BY <1>1, <1>2, <1>3, Unmoved DEF Unwind, Takes, GoesTo, StopWatching, turns, host
<1>5. TypesFit(token[r], FALSE, w, permit[r], registered[r], transcript[r],
               published[r], settle[r], settles[r])
  BY <1>1, <1>2, <1>3, Values DEF TypesFit
<1> HIDE DEF tk, w
<1>6. RowFits(runs[r], tk, token[r], w, settle[r], settles[r])
  BY <1>1, <1>2, <1>3 DEF RunIsSound, RowFits, Asked
<1>7. PlaceFits(runs[r], tk, token[r])
  BY <1>1, <1>2, <1>3 DEF RunIsSound, PlaceFits, Undecided, Started, Callers, Asked
<1>8. TurnFits(runs[r], tk, HasTurn(r), transcript[r], published[r])
  BY <1>1, <1>2, <1>3 DEF RunIsSound, TurnFits
<1>9. HoldingsFit(tk, permit[r], registered[r], FALSE, w, settle[r])
  BY <1>1, <1>2, <1>3 DEF RunIsSound, HoldingsFit, Finalizes, Clean, Over
<1>10. QED
  BY <1>1, <1>2, <1>3, <1>4, <1>5, <1>6, <1>7, <1>8, <1>9, Known, Took

LEMMA HoldKeeps ==
    ASSUME IInv, NEW r \in Runs, Hold(r)
    PROVE  IInv'
<1> DEFINE tk == Task(CASE IsStream(r)       -> "accept"
                        [] kind[r] = "replay" -> "prepare"
                        [] OTHER              -> "stream")
<1>1. TypeOK /\ RunIsSound(r) /\ runs[r] \in RunRow /\ runs[r] # NoRow
      /\ task[r].at = "hold"
  BY Known DEF Hold, At
<1>2. tk \in TaskRecord /\ tk.at \in {"accept", "prepare", "stream"}
  BY TaskFacts DEF Places
<1>3. Takes(r, runs[r], tk, token[r], bridge[r], watcher[r], permit[r], TRUE,
            transcript[r], published[r], settle[r], settles[r])
  BY <1>1, <1>2, Unmoved DEF Hold, Takes, GoesTo, turns, host
<1>4. TypesFit(token[r], bridge[r], watcher[r], permit[r], TRUE, transcript[r],
               published[r], settle[r], settles[r])
  BY <1>1, <1>2, Values DEF TypesFit
<1> HIDE DEF tk
<1>5. RowFits(runs[r], tk, token[r], watcher[r], settle[r], settles[r])
  BY <1>1, <1>2 DEF RunIsSound, RowFits
<1>6. PlaceFits(runs[r], tk, token[r])
  BY <1>1, <1>2 DEF RunIsSound, PlaceFits, Undecided, Started
<1>7. TurnFits(runs[r], tk, HasTurn(r), transcript[r], published[r])
  BY <1>1, <1>2 DEF RunIsSound, TurnFits
<1>8. HoldingsFit(tk, permit[r], TRUE, bridge[r], watcher[r], settle[r])
  BY <1>1, <1>2 DEF RunIsSound, HoldingsFit, Finalizes
<1>9. QED
  BY <1>1, <1>2, <1>3, <1>4, <1>5, <1>6, <1>7, <1>8, Known, Took

LEMMA PublishDoneKeeps ==
    ASSUME IInv, NEW r \in Runs, PublishDone(r)
    PROVE  IInv'
<1> DEFINE pub == published[r] \union {"done"}
<1>1. TypeOK /\ RunIsSound(r) /\ runs[r] \in RunRow /\ runs[r] # NoRow
      /\ task[r].at = "stream"
  BY Known DEF PublishDone, At
<1>2. task[r] \in TaskRecord /\ pub \in SUBSET {"done", "cancelled"}
      /\ ("cancelled" \in pub => "cancelled" \in published[r])
  BY <1>1, Known, Values DEF TypesFit
<1>3. Takes(r, runs[r], task[r], token[r], bridge[r], watcher[r], permit[r],
            registered[r], transcript[r], pub, settle[r], settles[r])
  BY <1>1, <1>2, Unmoved DEF PublishDone, Takes, GoesTo, resources, host
<1>4. TypesFit(token[r], bridge[r], watcher[r], permit[r], registered[r],
               transcript[r], pub, settle[r], settles[r])
  BY <1>1, <1>2, Values DEF TypesFit
<1> HIDE DEF pub
<1>5. RowFits(runs[r], task[r], token[r], watcher[r], settle[r], settles[r])
  BY <1>1, <1>2 DEF RunIsSound, RowFits
<1>6. PlaceFits(runs[r], task[r], token[r])
  BY <1>1, <1>2 DEF RunIsSound, PlaceFits, Undecided, Started
<1>7. TurnFits(runs[r], task[r], HasTurn(r), transcript[r], pub)
  BY <1>1, <1>2 DEF RunIsSound, TurnFits
<1>8. HoldingsFit(task[r], permit[r], registered[r], bridge[r], watcher[r], settle[r])
  BY <1>1, <1>2 DEF RunIsSound, HoldingsFit, Finalizes
<1>9. QED
  BY <1>1, <1>2, <1>3, <1>4, <1>5, <1>6, <1>7, <1>8, Known, Took

LEMMA PersistKeeps ==
    ASSUME IInv, NEW r \in Runs, Persist(r)
    PROVE  IInv'
<1> DEFINE tk == Task("complete")
<1>1. TypeOK /\ RunIsSound(r) /\ runs[r] \in RunRow /\ runs[r] # NoRow
      /\ task[r].at = "persist"
  BY Known DEF Persist, At
<1>2. tk \in TaskRecord /\ tk.at = "complete"
  BY TaskFacts DEF Places
<1>3. Takes(r, runs[r], tk, token[r], bridge[r], watcher[r], permit[r], registered[r],
            TRUE, published[r], settle[r], settles[r])
  BY <1>1, <1>2, Unmoved DEF Persist, Takes, GoesTo, resources, host
<1>4. TypesFit(token[r], bridge[r], watcher[r], permit[r], registered[r], TRUE,
               published[r], settle[r], settles[r])
  BY <1>1, <1>2, Values DEF TypesFit
<1> HIDE DEF tk
<1>5. RowFits(runs[r], tk, token[r], watcher[r], settle[r], settles[r])
  BY <1>1, <1>2 DEF RunIsSound, RowFits
<1>6. PlaceFits(runs[r], tk, token[r])
  BY <1>1, <1>2 DEF RunIsSound, PlaceFits, Undecided, Started
<1>7. TurnFits(runs[r], tk, HasTurn(r), TRUE, published[r])
  BY <1>1, <1>2 DEF RunIsSound, TurnFits
<1>8. HoldingsFit(tk, permit[r], registered[r], bridge[r], watcher[r], settle[r])
  BY <1>1, <1>2 DEF RunIsSound, HoldingsFit, Finalizes
<1>9. QED
  BY <1>1, <1>2, <1>3, <1>4, <1>5, <1>6, <1>7, <1>8, Known, Took

LEMMA ReconcileKeeps ==
    ASSUME IInv, NEW r \in Runs, Reconcile(r)
    PROVE  IInv'
<1> DEFINE tk == Task("finish")
           pub == IF IsAgent(r) /\ task[r].for = "cancelled"
                  THEN published[r] \union {"cancelled"} ELSE published[r]
<1>1. TypeOK /\ RunIsSound(r) /\ runs[r] \in RunRow /\ runs[r] # NoRow
      /\ task[r].at = "drop"
  BY Known DEF Reconcile, At
<1>2. tk \in TaskRecord /\ tk.at = "finish"
  BY TaskFacts DEF Places
<1>3. pub \in SUBSET {"done", "cancelled"}
      /\ ("cancelled" \in pub => "cancelled" \in published[r] \/ task[r].for = "cancelled")
  BY <1>1, Values DEF TypesFit, IsAgent
<1>4. pending' \in [Runs -> {"none", "accepted", "prepared", "sent"}]
  BY <1>1 DEF Reconcile, TypeOK
<1>5. Takes(r, runs[r], tk, token[r], bridge[r], watcher[r], permit[r], registered[r],
            transcript[r], pub, settle[r], settles[r])
  BY <1>1, <1>2, <1>3, <1>4, Unmoved DEF Reconcile, Takes, GoesTo, resources, host
<1>6. TypesFit(token[r], bridge[r], watcher[r], permit[r], registered[r],
               transcript[r], pub, settle[r], settles[r])
  BY <1>1, <1>2, <1>3, <1>4, Values DEF TypesFit
<1> HIDE DEF tk, pub
<1>7. RowFits(runs[r], tk, token[r], watcher[r], settle[r], settles[r])
  BY <1>1, <1>2, <1>3, <1>4 DEF RunIsSound, RowFits
<1>8. PlaceFits(runs[r], tk, token[r])
  BY <1>1, <1>2, <1>3, <1>4 DEF RunIsSound, PlaceFits, Undecided, Started
<1>9. TurnFits(runs[r], tk, HasTurn(r), transcript[r], pub)
  BY <1>1, <1>2, <1>3, <1>4 DEF RunIsSound, TurnFits, PlaceFits
<1>10. HoldingsFit(tk, permit[r], registered[r], bridge[r], watcher[r], settle[r])
  BY <1>1, <1>2, <1>3, <1>4 DEF RunIsSound, HoldingsFit, Finalizes
<1>11. QED
  BY <1>1, <1>2, <1>3, <1>4, <1>5, <1>6, <1>7, <1>8, <1>9, <1>10, Known, Took

LEMMA ReportUnboundKeeps ==
    ASSUME IInv, NEW r \in Runs, ReportUnbound(r)
    PROVE  IInv'
<1> DEFINE tk == Task("done")
           pub == IF IsAgent(r) THEN published[r] \union {"cancelled"} ELSE published[r]
<1>1. TypeOK /\ RunIsSound(r) /\ runs[r] \in RunRow /\ runs[r] # NoRow
      /\ task[r].at = "report"
  BY Known DEF ReportUnbound, At
<1>2. tk \in TaskRecord /\ tk.at = "done"
  BY TaskFacts DEF Places
<1>3. pub \in SUBSET {"done", "cancelled"}
  BY <1>1, Values DEF TypesFit
<1>4. Takes(r, runs[r], tk, token[r], bridge[r], watcher[r], permit[r], registered[r],
            transcript[r], pub, settle[r], settles[r])
  BY <1>1, <1>2, <1>3, Unmoved DEF ReportUnbound, Takes, GoesTo, resources, host
<1>5. TypesFit(token[r], bridge[r], watcher[r], permit[r], registered[r],
               transcript[r], pub, settle[r], settles[r])
  BY <1>1, <1>2, <1>3, Values DEF TypesFit
<1> HIDE DEF tk, pub
<1>6. RowFits(runs[r], tk, token[r], watcher[r], settle[r], settles[r])
  BY <1>1, <1>2, <1>3 DEF RunIsSound, RowFits
<1>7. PlaceFits(runs[r], tk, token[r])
  BY <1>1, <1>2, <1>3
     DEF RunIsSound, PlaceFits, Undecided, Started, IsTerminal, TerminalStates
<1>8. TurnFits(runs[r], tk, HasTurn(r), transcript[r], pub)
  BY <1>1, <1>2, <1>3 DEF RunIsSound, TurnFits, PlaceFits
<1>9. HoldingsFit(tk, permit[r], registered[r], bridge[r], watcher[r], settle[r])
  BY <1>1, <1>2, <1>3 DEF RunIsSound, HoldingsFit, Finalizes, Clean, Over
<1>10. QED
  BY <1>1, <1>2, <1>3, <1>4, <1>5, <1>6, <1>7, <1>8, <1>9, Known, Took

-----------------------------------------------------------------------------
(* The release of what a run holds, the interrupt and what runs beside     *)

LEMMA FinishKeeps ==
    ASSUME IInv, NEW r \in Runs, Finish(r)
    PROVE  IInv'
<1> DEFINE tk == Task(IF registered[r] THEN "release" ELSE "done")
<1>1. TypeOK /\ RunIsSound(r) /\ runs[r] \in RunRow /\ runs[r] # NoRow
      /\ task[r].at = "finish"
  BY Known DEF Finish
<1>2. /\ tk \in TaskRecord /\ tk.at \in {"release", "done"}
      /\ tk.at = "done" => ~registered[r]
  <2>1. CASE registered[r]
    BY <2>1, TaskFacts DEF Places
  <2>2. CASE ~registered[r]
    BY <2>2, TaskFacts DEF Places
  <2>3. QED
    BY <2>1, <2>2
<1>3. Takes(r, runs[r], tk, token[r], bridge[r], watcher[r], permit[r], FALSE,
            transcript[r], published[r], settle[r], settles[r])
  BY <1>1, <1>2, Unmoved DEF Finish, Takes, GoesTo, turns, host
<1>4. TypesFit(token[r], bridge[r], watcher[r], permit[r], FALSE, transcript[r],
               published[r], settle[r], settles[r])
  BY <1>1, <1>2, Values DEF TypesFit
<1> HIDE DEF tk
<1>5. RowFits(runs[r], tk, token[r], watcher[r], settle[r], settles[r])
  BY <1>1, <1>2 DEF RunIsSound, RowFits
<1>6. PlaceFits(runs[r], tk, token[r])
  BY <1>1, <1>2 DEF RunIsSound, PlaceFits, Undecided, Started
<1>7. TurnFits(runs[r], tk, HasTurn(r), transcript[r], published[r])
  BY <1>1, <1>2 DEF RunIsSound, TurnFits
<1>8. HoldingsFit(tk, permit[r], FALSE, bridge[r], watcher[r], settle[r])
  BY <1>1, <1>2 DEF RunIsSound, HoldingsFit, Finalizes, Clean, Over
<1>9. QED
  BY <1>1, <1>2, <1>3, <1>4, <1>5, <1>6, <1>7, <1>8, Known, Took

(* What a release leaves.                                                  *)
LEMMA Released ==
    ASSUME TypeOK, NEW r \in Runs, Release(r)
    PROVE  \E p \in {"none", "stuck"}, w \in {"off", "fired", "requested"} :
              /\ permit' = [permit EXCEPT ![r] = p]
              /\ watcher' = [watcher EXCEPT ![r] = w]
              /\ bridge' = [bridge EXCEPT ![r] = FALSE]
              /\ w # "off" => w = watcher[r]
<1> DEFINE w == IF watcher[r] = "armed" THEN "off" ELSE watcher[r]
<1>1. w \in {"off", "fired", "requested"} /\ (w # "off" => w = watcher[r])
  BY DEF TypeOK
<1>2. watcher' = [watcher EXCEPT ![r] = w]
  BY DEF TypeOK, Release
<1> HIDE DEF w
<1>3. QED
  BY <1>1, <1>2 DEF Release

LEMMA FinishReleasesKeeps ==
    ASSUME IInv, NEW r \in Runs, FinishReleases(r)
    PROVE  IInv'
<1> DEFINE tk == Task("done")
<1>1. TypeOK /\ RunIsSound(r) /\ runs[r] \in RunRow /\ runs[r] # NoRow
      /\ task[r].at = "release" /\ ~registered[r]
  BY Known DEF FinishReleases, RunIsSound, HoldingsFit
<1>2. tk \in TaskRecord /\ tk.at = "done"
  BY TaskFacts DEF Places
<1>3. PICK p \in {"none", "stuck"}, w \in {"off", "fired", "requested"} :
              /\ permit' = [permit EXCEPT ![r] = p]
              /\ watcher' = [watcher EXCEPT ![r] = w]
              /\ bridge' = [bridge EXCEPT ![r] = FALSE]
              /\ w # "off" => w = watcher[r]
  BY <1>1, Released DEF FinishReleases
<1>4. Takes(r, runs[r], tk, token[r], FALSE, w, p, registered[r], transcript[r],
            published[r], settle[r], settles[r])
  BY <1>1, <1>2, <1>3, Unmoved DEF FinishReleases, Takes, GoesTo, turns, host
<1>5. TypesFit(token[r], FALSE, w, p, registered[r], transcript[r], published[r],
               settle[r], settles[r])
  BY <1>1, <1>2, <1>3, Values DEF TypesFit
<1> HIDE DEF tk
<1>6. RowFits(runs[r], tk, token[r], w, settle[r], settles[r])
  BY <1>1, <1>2, <1>3 DEF RunIsSound, RowFits
<1>7. PlaceFits(runs[r], tk, token[r])
  BY <1>1, <1>2, <1>3 DEF RunIsSound, PlaceFits, Undecided, Started
<1>8. TurnFits(runs[r], tk, HasTurn(r), transcript[r], published[r])
  BY <1>1, <1>2, <1>3 DEF RunIsSound, TurnFits
<1>9. HoldingsFit(tk, p, registered[r], FALSE, w, settle[r])
  BY <1>1, <1>2, <1>3 DEF RunIsSound, HoldingsFit, Finalizes, Clean, Over
<1>10. QED
  BY <1>1, <1>2, <1>3, <1>4, <1>5, <1>6, <1>7, <1>8, <1>9, Known, Took

LEMMA InterruptKeeps ==
    ASSUME IInv, NEW r \in Runs, Interrupt(r)
    PROVE  IInv'
<1> DEFINE tk  == Task("gone")
           b   == bridge[r] /\ task[r].at # "acquire"
           w   == IF watcher[r] = "armed" /\ task[r].at = "acquire" THEN "off" ELSE watcher[r]
<1>1. TypeOK /\ RunIsSound(r) /\ runs[r] \in RunRow /\ runs[r] # NoRow
      /\ task[r].at # "idle"
  BY Known DEF Interrupt, At
<1>2. tk \in TaskRecord /\ tk.at = "gone"
  BY TaskFacts DEF Places
<1>3. /\ b \in BOOLEAN /\ w \in {"off", "armed", "fired", "requested"}
      /\ w = "requested" => watcher[r] = "requested"
      /\ w # "off" => watcher[r] # "off"
  BY <1>1, Values DEF TypesFit
<1>4. /\ watcher' = [watcher EXCEPT ![r] = w]
      /\ bridge' = [bridge EXCEPT ![r] = b]
  <2>1. CASE task[r].at = "acquire"
    BY <1>1, <2>1 DEF Interrupt, StopWatching, TypeOK
  <2>2. CASE task[r].at # "acquire"
    BY <1>1, <2>2 DEF Interrupt, TypeOK
  <2>3. QED
    BY <2>1, <2>2
<1>5. Takes(r, runs[r], tk, token[r], b, w, permit[r], registered[r], transcript[r],
            published[r], settle[r], settles[r])
  BY <1>1, <1>2, <1>3, <1>4, Unmoved DEF Interrupt, Takes, GoesTo, turns, host
<1>6. TypesFit(token[r], b, w, permit[r], registered[r], transcript[r], published[r],
               settle[r], settles[r])
  BY <1>1, <1>2, <1>3, <1>4, Values DEF TypesFit
<1> HIDE DEF tk, w, b
<1>7. RowFits(runs[r], tk, token[r], w, settle[r], settles[r])
  BY <1>1, <1>2, <1>3, <1>4 DEF RunIsSound, RowFits
<1>8. PlaceFits(runs[r], tk, token[r])
  BY <1>1, <1>2, <1>3, <1>4 DEF RunIsSound, PlaceFits, Undecided, Started
<1>9. TurnFits(runs[r], tk, HasTurn(r), transcript[r], published[r])
  BY <1>1, <1>2, <1>3, <1>4 DEF RunIsSound, TurnFits
<1>10. HoldingsFit(tk, permit[r], registered[r], b, w, settle[r])
  BY <1>1, <1>2, <1>3, <1>4 DEF RunIsSound, HoldingsFit, Finalizes, Clean, Over
<1>11. QED
  BY <1>1, <1>2, <1>3, <1>4, <1>5, <1>6, <1>7, <1>8, <1>9, <1>10, Known, Took

LEMMA BridgePollKeeps ==
    ASSUME IInv, NEW r \in Runs, BridgePoll(r)
    PROVE  IInv'
<1> DEFINE tok == token[r] \/ IsRequested(runs[r])
<1>1. TypeOK /\ RunIsSound(r) /\ runs[r] \in RunRow /\ runs[r] # NoRow
      /\ task[r] \in TaskRecord /\ bridge[r]
  <2>1. TypeOK /\ RunIsSound(r) /\ bridge[r]
    BY DEF IInv, BridgePoll
  <2>2. task[r].at # "idle"
    BY <2>1 DEF RunIsSound, HoldingsFit, Clean
  <2>3. QED
    BY <2>1, <2>2, Known DEF RunIsSound, RowFits
<1>2. tok \in BOOLEAN /\ (tok <=> token[r] \/ IsRequested(runs[r]))
  BY <1>1, Values DEF TypesFit, IsRequested
<1>3. Takes(r, runs[r], task[r], tok, FALSE, watcher[r], permit[r], registered[r],
            transcript[r], published[r], settle[r], settles[r])
  BY <1>1, <1>2, Unmoved DEF BridgePoll, Takes, GoesTo, turns, host
<1>4. TypesFit(tok, FALSE, watcher[r], permit[r], registered[r], transcript[r],
               published[r], settle[r], settles[r])
  BY <1>1, <1>2, Values DEF TypesFit
<1> HIDE DEF tok
<1>5. RowFits(runs[r], task[r], tok, watcher[r], settle[r], settles[r])
  BY <1>1, <1>2 DEF RunIsSound, RowFits, Asked
<1>6. PlaceFits(runs[r], task[r], tok)
  BY <1>1, <1>2 DEF RunIsSound, PlaceFits
<1>7. TurnFits(runs[r], task[r], HasTurn(r), transcript[r], published[r])
  BY <1>1, <1>2 DEF RunIsSound, TurnFits
<1>8. HoldingsFit(task[r], permit[r], registered[r], FALSE, watcher[r], settle[r])
  BY <1>1, <1>2 DEF RunIsSound, HoldingsFit, Finalizes, Clean, Over
<1>9. QED
  BY <1>1, <1>2, <1>3, <1>4, <1>5, <1>6, <1>7, <1>8, Known, Took

LEMMA BridgeGivesUpKeeps ==
    ASSUME IInv, NEW r \in Runs, BridgeGivesUp(r)
    PROVE  IInv'
<1>1. TypeOK /\ RunIsSound(r) /\ runs[r] \in RunRow /\ runs[r] # NoRow
      /\ task[r] \in TaskRecord /\ bridge[r]
  <2>1. TypeOK /\ RunIsSound(r) /\ bridge[r]
    BY DEF IInv, BridgeGivesUp
  <2>2. task[r].at # "idle"
    BY <2>1 DEF RunIsSound, HoldingsFit, Clean
  <2>3. QED
    BY <2>1, <2>2, Known DEF RunIsSound, RowFits
<1>2. Takes(r, runs[r], task[r], token[r], FALSE, watcher[r], permit[r], registered[r],
            transcript[r], published[r], settle[r], settles[r])
  BY <1>1, Unmoved DEF BridgeGivesUp, Takes, GoesTo, turns, host
<1>3. TypesFit(token[r], FALSE, watcher[r], permit[r], registered[r], transcript[r],
               published[r], settle[r], settles[r])
  BY <1>1, Values DEF TypesFit
<1>4. RowFits(runs[r], task[r], token[r], watcher[r], settle[r], settles[r])
  BY <1>1 DEF RunIsSound, RowFits
<1>5. PlaceFits(runs[r], task[r], token[r])
  BY <1>1 DEF RunIsSound, PlaceFits
<1>6. TurnFits(runs[r], task[r], HasTurn(r), transcript[r], published[r])
  BY <1>1 DEF RunIsSound, TurnFits
<1>7. HoldingsFit(task[r], permit[r], registered[r], FALSE, watcher[r], settle[r])
  BY <1>1 DEF RunIsSound, HoldingsFit, Finalizes, Clean, Over
<1>8. QED
  BY <1>1, <1>2, <1>3, <1>4, <1>5, <1>6, <1>7, Known, Took

LEMMA DeadlineFiresKeeps ==
    ASSUME IInv, NEW r \in Runs, DeadlineFires(r)
    PROVE  IInv'
<1>1. TypeOK /\ RunIsSound(r) /\ runs[r] \in RunRow /\ runs[r] # NoRow
      /\ task[r] \in TaskRecord /\ watcher[r] = "armed"
  <2>1. TypeOK /\ RunIsSound(r) /\ watcher[r] = "armed"
    BY DEF IInv, DeadlineFires
  <2>2. task[r].at # "idle"
    BY <2>1 DEF RunIsSound, RowFits
  <2>3. QED
    BY <2>1, <2>2, Known DEF RunIsSound, RowFits
<1>2. Takes(r, runs[r], task[r], token[r], bridge[r], "fired", permit[r],
            registered[r], transcript[r], published[r], settle[r], settles[r])
  BY <1>1, Unmoved DEF DeadlineFires, Takes, GoesTo, turns, host
<1>3. TypesFit(token[r], bridge[r], "fired", permit[r], registered[r], transcript[r],
               published[r], settle[r], settles[r])
  BY <1>1, Values DEF TypesFit
<1>4. RowFits(runs[r], task[r], token[r], "fired", settle[r], settles[r])
  BY <1>1 DEF RunIsSound, RowFits
<1>5. PlaceFits(runs[r], task[r], token[r])
  BY <1>1 DEF RunIsSound, PlaceFits
<1>6. TurnFits(runs[r], task[r], HasTurn(r), transcript[r], published[r])
  BY <1>1 DEF RunIsSound, TurnFits
<1>7. HoldingsFit(task[r], permit[r], registered[r], bridge[r], "fired", settle[r])
  BY <1>1 DEF RunIsSound, HoldingsFit, Finalizes, Clean, Over
<1>8. QED
  BY <1>1, <1>2, <1>3, <1>4, <1>5, <1>6, <1>7, Known, Took

LEMMA DeadlineRequestsKeeps ==
    ASSUME IInv, NEW r \in Runs, DeadlineRequests(r)
    PROVE  IInv'
<1> DEFINE row == CancelRequested(runs[r], "timeout")
<1>1. TypeOK /\ RunIsSound(r) /\ runs[r] \in RunRow /\ runs[r] # NoRow
      /\ task[r] \in TaskRecord /\ watcher[r] = "fired"
  <2>1. TypeOK /\ RunIsSound(r) /\ watcher[r] = "fired"
    BY DEF IInv, DeadlineRequests
  <2>2. task[r].at # "idle"
    BY <2>1 DEF RunIsSound, RowFits
  <2>3. QED
    BY <2>1, <2>2, Known DEF RunIsSound, RowFits
<1>2. "timeout" \in CancelReasons
  BY DEF CancelReasons
<1>3. /\ row \in RunRow /\ row # NoRow /\ row.state = runs[r].state
      /\ row.reason = runs[r].reason
      /\ IsRequested(runs[r]) => row = runs[r]
      /\ ~IsActive(runs[r]) => row = runs[r]
      /\ Asked(row) /\ (IsTerminal(row) <=> IsTerminal(runs[r]))
  <2>1. /\ row \in RunRow /\ row.state = runs[r].state /\ row.reason = runs[r].reason
        /\ IsRequested(runs[r]) => row = runs[r]
        /\ ~IsActive(runs[r]) => row = runs[r]
        /\ IsRequested(row) \/ IsTerminal(runs[r])
    BY <1>1, <1>2, OutsideFacts
  <2>2. row # NoRow /\ (IsTerminal(row) <=> IsTerminal(runs[r]))
    BY <1>2, <2>1, RowFacts DEF IsTerminal
  <2>3. QED
    BY <2>1, <2>2 DEF Asked
<1>4. Takes(r, row, task[r], token[r], bridge[r], "requested", permit[r],
            registered[r], transcript[r], published[r], settle[r], settles[r])
  BY <1>1, <1>2, <1>3, Unmoved DEF DeadlineRequests, Takes, GoesTo, SetRow, turns, host
<1>5. TypesFit(token[r], bridge[r], "requested", permit[r], registered[r],
               transcript[r], published[r], settle[r], settles[r])
  BY <1>1, <1>2, <1>3, Values DEF TypesFit
<1> HIDE DEF row
<1>6. RowFits(row, task[r], token[r], "requested", settle[r], settles[r])
  BY <1>1, <1>2, <1>3
     DEF RunIsSound, RowFits, Asked, IsActive, ActiveStates, IsTerminal,
         TerminalStates
<1>7. PlaceFits(row, task[r], token[r])
  BY <1>1, <1>2, <1>3 DEF RunIsSound, PlaceFits, Asked
<1>8. TurnFits(row, task[r], HasTurn(r), transcript[r], published[r])
  BY <1>1, <1>2, <1>3 DEF RunIsSound, TurnFits
<1>9. HoldingsFit(task[r], permit[r], registered[r], bridge[r], "requested", settle[r])
  BY <1>1, <1>2, <1>3 DEF RunIsSound, HoldingsFit, Finalizes, Clean, Over
<1>10. QED
  BY <1>1, <1>2, <1>3, <1>4, <1>5, <1>6, <1>7, <1>8, <1>9, Known, Took

LEMMA DeadlineCancelsKeeps ==
    ASSUME IInv, NEW r \in Runs, DeadlineCancels(r)
    PROVE  IInv'
<1>1. TypeOK /\ RunIsSound(r) /\ runs[r] \in RunRow /\ runs[r] # NoRow
      /\ task[r] \in TaskRecord /\ watcher[r] = "requested"
  <2>1. TypeOK /\ RunIsSound(r) /\ watcher[r] = "requested"
    BY DEF IInv, DeadlineCancels
  <2>2. task[r].at # "idle"
    BY <2>1 DEF RunIsSound, RowFits
  <2>3. QED
    BY <2>1, <2>2, Known DEF RunIsSound, RowFits
<1>2. Takes(r, runs[r], task[r], TRUE, bridge[r], "off", permit[r], registered[r],
            transcript[r], published[r], settle[r], settles[r])
  BY <1>1, Unmoved DEF DeadlineCancels, Takes, GoesTo, turns, host
<1>3. TypesFit(TRUE, bridge[r], "off", permit[r], registered[r], transcript[r],
               published[r], settle[r], settles[r])
  BY <1>1, Values DEF TypesFit
<1>4. RowFits(runs[r], task[r], TRUE, "off", settle[r], settles[r])
  BY <1>1 DEF RunIsSound, RowFits
<1>5. PlaceFits(runs[r], task[r], TRUE)
  BY <1>1 DEF RunIsSound, PlaceFits
<1>6. TurnFits(runs[r], task[r], HasTurn(r), transcript[r], published[r])
  BY <1>1 DEF RunIsSound, TurnFits
<1>7. HoldingsFit(task[r], permit[r], registered[r], bridge[r], "off", settle[r])
  BY <1>1 DEF RunIsSound, HoldingsFit, Finalizes, Clean, Over
<1>8. QED
  BY <1>1, <1>2, <1>3, <1>4, <1>5, <1>6, <1>7, Known, Took

LEMMA CancelRunKeeps ==
    ASSUME IInv, NEW r \in Runs, CancelRun(r)
    PROVE  IInv'
<1> DEFINE row == CancelRequested(runs[r], "user")
<1>1. TypeOK /\ RunIsSound(r) /\ runs[r] \in RunRow /\ runs[r] # NoRow
      /\ task[r] \in TaskRecord /\ runs[r] # NoRow
  <2>1. TypeOK /\ RunIsSound(r) /\ runs[r] # NoRow
    BY DEF IInv, CancelRun
  <2>2. task[r].at # "idle"
    BY <2>1 DEF RunIsSound, RowFits
  <2>3. QED
    BY <2>1, <2>2, Known DEF RunIsSound, RowFits
<1>2. "user" \in CancelReasons
  BY DEF CancelReasons
<1>3. /\ row \in RunRow /\ row # NoRow /\ row.state = runs[r].state
      /\ row.reason = runs[r].reason
      /\ IsRequested(runs[r]) => row = runs[r]
      /\ ~IsActive(runs[r]) => row = runs[r]
      /\ Asked(row) /\ (IsTerminal(row) <=> IsTerminal(runs[r]))
  <2>1. /\ row \in RunRow /\ row.state = runs[r].state /\ row.reason = runs[r].reason
        /\ IsRequested(runs[r]) => row = runs[r]
        /\ ~IsActive(runs[r]) => row = runs[r]
        /\ IsRequested(row) \/ IsTerminal(runs[r])
    BY <1>1, <1>2, OutsideFacts
  <2>2. row # NoRow /\ (IsTerminal(row) <=> IsTerminal(runs[r]))
    BY <1>2, <2>1, RowFacts DEF IsTerminal
  <2>3. QED
    BY <2>1, <2>2 DEF Asked
<1>4. Takes(r, row, task[r], token[r], bridge[r], watcher[r], permit[r], registered[r],
            transcript[r], published[r], settle[r], settles[r])
  BY <1>1, <1>2, <1>3, Unmoved
     DEF CancelRun, Takes, GoesTo, SetRow, resources, turns, host
<1>5. TypesFit(token[r], bridge[r], watcher[r], permit[r], registered[r],
               transcript[r], published[r], settle[r], settles[r])
  BY <1>1, <1>2, <1>3, Values DEF TypesFit
<1> HIDE DEF row
<1>6. RowFits(row, task[r], token[r], watcher[r], settle[r], settles[r])
  BY <1>1, <1>2, <1>3
     DEF RunIsSound, RowFits, Asked, IsActive, ActiveStates, IsTerminal,
         TerminalStates
<1>7. PlaceFits(row, task[r], token[r])
  BY <1>1, <1>2, <1>3 DEF RunIsSound, PlaceFits, Asked
<1>8. TurnFits(row, task[r], HasTurn(r), transcript[r], published[r])
  BY <1>1, <1>2, <1>3 DEF RunIsSound, TurnFits
<1>9. HoldingsFit(task[r], permit[r], registered[r], bridge[r], watcher[r], settle[r])
  BY <1>1, <1>2, <1>3 DEF RunIsSound, HoldingsFit, Finalizes
<1>10. QED
  BY <1>1, <1>2, <1>3, <1>4, <1>5, <1>6, <1>7, <1>8, <1>9, Known, Took

LEMMA AgeKeeps ==
    ASSUME IInv, NEW r \in Runs, Age(r)
    PROVE  IInv'
<1> DEFINE row == [runs[r] EXCEPT !.aged = TRUE]
<1>1. TypeOK /\ RunIsSound(r) /\ runs[r] \in RunRow /\ runs[r] # NoRow
      /\ task[r] \in TaskRecord /\ runs[r] # NoRow
  <2>1. TypeOK /\ RunIsSound(r) /\ runs[r] # NoRow
    BY DEF IInv, Age
  <2>2. task[r].at # "idle"
    BY <2>1 DEF RunIsSound, RowFits
  <2>3. QED
    BY <2>1, <2>2, Known DEF RunIsSound, RowFits
<1>2. "user" \in CancelReasons
  BY DEF CancelReasons
<1>3. /\ row \in RunRow /\ row # NoRow /\ row.state = runs[r].state
      /\ row.reason = runs[r].reason
      /\ row.requested = runs[r].requested
  BY <1>1, <1>2, OutsideFacts, RowFacts
<1>4. Takes(r, row, task[r], token[r], bridge[r], watcher[r], permit[r], registered[r],
            transcript[r], published[r], settle[r], settles[r])
  BY <1>1, <1>2, <1>3, Unmoved DEF Age, Takes, GoesTo, SetRow, resources, turns, host
<1>5. TypesFit(token[r], bridge[r], watcher[r], permit[r], registered[r],
               transcript[r], published[r], settle[r], settles[r])
  BY <1>1, <1>2, <1>3, Values DEF TypesFit
<1> HIDE DEF row
<1>6. RowFits(row, task[r], token[r], watcher[r], settle[r], settles[r])
  BY <1>1, <1>2, <1>3 DEF RunIsSound, RowFits, Asked, IsRequested, IsTerminal
<1>7. PlaceFits(row, task[r], token[r])
  BY <1>1, <1>2, <1>3 DEF RunIsSound, PlaceFits, Asked, IsRequested, IsTerminal
<1>8. TurnFits(row, task[r], HasTurn(r), transcript[r], published[r])
  BY <1>1, <1>2, <1>3 DEF RunIsSound, TurnFits
<1>9. HoldingsFit(task[r], permit[r], registered[r], bridge[r], watcher[r], settle[r])
  BY <1>1, <1>2, <1>3 DEF RunIsSound, HoldingsFit, Finalizes
<1>10. QED
  BY <1>1, <1>2, <1>3, <1>4, <1>5, <1>6, <1>7, <1>8, <1>9, Known, Took

-----------------------------------------------------------------------------
(* cancel_run_and_settle                                                   *)

LEMMA ListForSettlingKeeps ==
    ASSUME IInv, NEW r \in Runs, ListForSettling(r)
    PROVE  IInv'
<1> DEFINE n == settles[r] + 1
<1>1. TypeOK /\ RunIsSound(r) /\ runs[r] \in RunRow /\ runs[r] # NoRow
      /\ task[r] \in TaskRecord /\ runs[r] # NoRow /\ settles[r] < MaxSettles
      /\ settle[r] # "popped"
  <2>1. TypeOK /\ RunIsSound(r) /\ runs[r] # NoRow /\ settles[r] < MaxSettles
      /\ settle[r] # "popped"
    BY DEF IInv, ListForSettling
  <2>2. task[r].at # "idle"
    BY <2>1 DEF RunIsSound, RowFits
  <2>3. QED
    BY <2>1, <2>2, Known DEF RunIsSound, RowFits
<1>2. n \in 0..MaxSettles /\ n # 0
  BY <1>1, ConstantsAssumption, Values DEF TypesFit
<1>3. Takes(r, runs[r], task[r], token[r], bridge[r], watcher[r], permit[r],
            registered[r], transcript[r], published[r], "listed", n)
  BY <1>1, <1>2, Unmoved
     DEF ListForSettling, Takes, GoesTo, SettleGoesTo, resources, turns, host
<1>4. TypesFit(token[r], bridge[r], watcher[r], permit[r], registered[r],
               transcript[r], published[r], "listed", n)
  BY <1>1, <1>2, Values DEF TypesFit
<1> HIDE DEF n
<1>5. RowFits(runs[r], task[r], token[r], watcher[r], "listed", n)
  BY <1>1, <1>2 DEF RunIsSound, RowFits
<1>6. PlaceFits(runs[r], task[r], token[r])
  BY <1>1, <1>2 DEF RunIsSound, PlaceFits
<1>7. TurnFits(runs[r], task[r], HasTurn(r), transcript[r], published[r])
  BY <1>1, <1>2 DEF RunIsSound, TurnFits
<1>8. HoldingsFit(task[r], permit[r], registered[r], bridge[r], watcher[r], "listed")
  BY <1>1, <1>2 DEF RunIsSound, HoldingsFit, Finalizes
<1>9. QED
  BY <1>1, <1>2, <1>3, <1>4, <1>5, <1>6, <1>7, <1>8, Known, Took

LEMMA SettleRequestKeeps ==
    ASSUME IInv, NEW r \in Runs, SettleRequest(r)
    PROVE  IInv'
<1> DEFINE row == CancelRequested(runs[r], "user")
<1>1. TypeOK /\ RunIsSound(r) /\ runs[r] \in RunRow /\ runs[r] # NoRow
      /\ task[r] \in TaskRecord /\ settle[r] = "listed"
  <2>1. TypeOK /\ RunIsSound(r) /\ settle[r] = "listed"
    BY DEF IInv, SettleRequest
  <2>2. task[r].at # "idle"
    BY <2>1 DEF RunIsSound, RowFits
  <2>3. QED
    BY <2>1, <2>2, Known DEF RunIsSound, RowFits
<1>2. "user" \in CancelReasons
  BY DEF CancelReasons
<1>3. /\ row \in RunRow /\ row # NoRow /\ row.state = runs[r].state
      /\ row.reason = runs[r].reason
      /\ IsRequested(runs[r]) => row = runs[r]
      /\ ~IsActive(runs[r]) => row = runs[r]
      /\ Asked(row) /\ (IsTerminal(row) <=> IsTerminal(runs[r]))
  <2>1. /\ row \in RunRow /\ row.state = runs[r].state /\ row.reason = runs[r].reason
        /\ IsRequested(runs[r]) => row = runs[r]
        /\ ~IsActive(runs[r]) => row = runs[r]
        /\ IsRequested(row) \/ IsTerminal(runs[r])
    BY <1>1, <1>2, OutsideFacts
  <2>2. row # NoRow /\ (IsTerminal(row) <=> IsTerminal(runs[r]))
    BY <1>2, <2>1, RowFacts DEF IsTerminal
  <2>3. QED
    BY <2>1, <2>2 DEF Asked
<1>4. Takes(r, row, task[r], token[r], bridge[r], watcher[r], permit[r], registered[r],
            transcript[r], published[r], "asked", settles[r])
  BY <1>1, <1>2, <1>3, Unmoved
     DEF SettleRequest, Takes, GoesTo, SettleGoesTo, resources, turns, host, SetRow
<1>5. TypesFit(token[r], bridge[r], watcher[r], permit[r], registered[r],
               transcript[r], published[r], "asked", settles[r])
  BY <1>1, <1>2, <1>3, Values DEF TypesFit
<1> HIDE DEF row
<1>6. RowFits(row, task[r], token[r], watcher[r], "asked", settles[r])
  BY <1>1, <1>2, <1>3
     DEF RunIsSound, RowFits, Asked, IsActive, ActiveStates, IsTerminal,
         TerminalStates
<1>7. PlaceFits(row, task[r], token[r])
  BY <1>1, <1>2, <1>3 DEF RunIsSound, PlaceFits, Asked
<1>8. TurnFits(row, task[r], HasTurn(r), transcript[r], published[r])
  BY <1>1, <1>2, <1>3 DEF RunIsSound, TurnFits
<1>9. HoldingsFit(task[r], permit[r], registered[r], bridge[r], watcher[r], "asked")
  BY <1>1, <1>2, <1>3 DEF RunIsSound, HoldingsFit, Finalizes
<1>10. QED
  BY <1>1, <1>2, <1>3, <1>4, <1>5, <1>6, <1>7, <1>8, <1>9, Known, Took

LEMMA SettleReadKeeps ==
    ASSUME IInv, NEW r \in Runs, SettleRead(r)
    PROVE  IInv'
<1> DEFINE s == IF runs[r].state = "cancelled" THEN "sweep" ELSE "mark"
<1>1. TypeOK /\ RunIsSound(r) /\ runs[r] \in RunRow /\ runs[r] # NoRow
      /\ task[r] \in TaskRecord /\ settle[r] = "asked"
  <2>1. TypeOK /\ RunIsSound(r) /\ settle[r] = "asked"
    BY DEF IInv, SettleRead
  <2>2. task[r].at # "idle"
    BY <2>1 DEF RunIsSound, RowFits
  <2>3. QED
    BY <2>1, <2>2, Known DEF RunIsSound, RowFits
<1>2. s \in {"sweep", "mark"}
  OBVIOUS
<1>3. Takes(r, runs[r], task[r], token[r], bridge[r], watcher[r], permit[r],
            registered[r], transcript[r], published[r], s, settles[r])
  BY <1>1, <1>2, Unmoved
     DEF SettleRead, Takes, GoesTo, SettleGoesTo, resources, turns, host
<1>4. TypesFit(token[r], bridge[r], watcher[r], permit[r], registered[r],
               transcript[r], published[r], s, settles[r])
  BY <1>1, <1>2, Values DEF TypesFit
<1> HIDE DEF s
<1>5. RowFits(runs[r], task[r], token[r], watcher[r], s, settles[r])
  BY <1>1, <1>2 DEF RunIsSound, RowFits
<1>6. PlaceFits(runs[r], task[r], token[r])
  BY <1>1, <1>2 DEF RunIsSound, PlaceFits
<1>7. TurnFits(runs[r], task[r], HasTurn(r), transcript[r], published[r])
  BY <1>1, <1>2 DEF RunIsSound, TurnFits
<1>8. HoldingsFit(task[r], permit[r], registered[r], bridge[r], watcher[r], s)
  BY <1>1, <1>2 DEF RunIsSound, HoldingsFit, Finalizes
<1>9. QED
  BY <1>1, <1>2, <1>3, <1>4, <1>5, <1>6, <1>7, <1>8, Known, Took

LEMMA SettleMarkKeeps ==
    ASSUME IInv, NEW r \in Runs, SettleMark(r)
    PROVE  IInv'
<1> DEFINE row == Cancelled(runs[r], "user")
<1>1. TypeOK /\ RunIsSound(r) /\ runs[r] \in RunRow /\ runs[r] # NoRow
      /\ task[r] \in TaskRecord /\ settle[r] = "mark" /\ CanMove(runs[r], "cancelled", Owner(r))
  <2>1. TypeOK /\ RunIsSound(r) /\ settle[r] = "mark" /\ CanMove(runs[r], "cancelled", Owner(r))
    BY DEF IInv, SettleMark
  <2>2. task[r].at # "idle"
    BY <2>1 DEF RunIsSound, RowFits
  <2>3. QED
    BY <2>1, <2>2, Known DEF RunIsSound, RowFits
<1>2. "user" \in CancelReasons
  BY DEF CancelReasons
<1>3. /\ row \in RunRow /\ row # NoRow /\ row.state = "cancelled" /\ row.reason = "user"
      /\ row.requested = runs[r].requested
  BY <1>1, <1>2, RowFacts
<1>4. runs[r].state \in {"created", "running"} /\ ~IsTerminal(runs[r])
  <2>1. IsActive(runs[r])
    BY <1>1, MoveFacts
  <2>2. runs[r].state # "queued"
    BY <1>1 DEF RunIsSound, RowFits
  <2>3. QED
    BY <2>1, <2>2 DEF IsActive, IsTerminal, ActiveStates, TerminalStates
<1>5. IsTerminal(row)
  BY <1>3 DEF IsTerminal, TerminalStates
<1>6. Takes(r, row, task[r], token[r], bridge[r], watcher[r], permit[r], registered[r],
            transcript[r], published[r], "sweep", settles[r])
  BY <1>1, <1>2, <1>3, <1>4, <1>5, Unmoved
     DEF SettleMark, Takes, GoesTo, SettleGoesTo, resources, turns, host, SetRow
<1>7. TypesFit(token[r], bridge[r], watcher[r], permit[r], registered[r],
               transcript[r], published[r], "sweep", settles[r])
  BY <1>1, <1>2, <1>3, <1>4, <1>5, Values DEF TypesFit
<1> HIDE DEF row
<1>8. RowFits(row, task[r], token[r], watcher[r], "sweep", settles[r])
  BY <1>1, <1>2, <1>3, <1>4, <1>5 DEF RunIsSound, RowFits, Asked, IsRequested
<1>9. PlaceFits(row, task[r], token[r])
  BY <1>1, <1>2, <1>3, <1>4, <1>5
     DEF RunIsSound, PlaceFits, Asked, IsRequested, Undecided, Started
<1>10. TurnFits(row, task[r], HasTurn(r), transcript[r], published[r])
  BY <1>1, <1>2, <1>3, <1>4, <1>5 DEF RunIsSound, TurnFits
<1>11. HoldingsFit(task[r], permit[r], registered[r], bridge[r], watcher[r], "sweep")
  BY <1>1, <1>2, <1>3, <1>4, <1>5 DEF RunIsSound, HoldingsFit, Finalizes
<1>12. QED
  BY <1>1, <1>2, <1>3, <1>4, <1>5, <1>6, <1>7, <1>8, <1>9, <1>10, <1>11, Known, Took

LEMMA SettleRefusedKeeps ==
    ASSUME IInv, NEW r \in Runs, SettleRefused(r)
    PROVE  IInv'
<1>1. TypeOK /\ RunIsSound(r) /\ runs[r] \in RunRow /\ runs[r] # NoRow
      /\ task[r] \in TaskRecord /\ settle[r] = "mark"
  <2>1. TypeOK /\ RunIsSound(r) /\ settle[r] = "mark"
    BY DEF IInv, SettleRefused
  <2>2. task[r].at # "idle"
    BY <2>1 DEF RunIsSound, RowFits
  <2>3. QED
    BY <2>1, <2>2, Known DEF RunIsSound, RowFits
<1>2. Takes(r, runs[r], task[r], token[r], bridge[r], watcher[r], permit[r],
            registered[r], transcript[r], published[r], "refused", settles[r])
  BY <1>1, Unmoved
     DEF SettleRefused, Takes, GoesTo, SettleGoesTo, resources, turns, host
<1>3. TypesFit(token[r], bridge[r], watcher[r], permit[r], registered[r],
               transcript[r], published[r], "refused", settles[r])
  BY <1>1, Values DEF TypesFit
<1>4. RowFits(runs[r], task[r], token[r], watcher[r], "refused", settles[r])
  BY <1>1 DEF RunIsSound, RowFits
<1>5. PlaceFits(runs[r], task[r], token[r])
  BY <1>1 DEF RunIsSound, PlaceFits
<1>6. TurnFits(runs[r], task[r], HasTurn(r), transcript[r], published[r])
  BY <1>1 DEF RunIsSound, TurnFits
<1>7. HoldingsFit(task[r], permit[r], registered[r], bridge[r], watcher[r], "refused")
  BY <1>1 DEF RunIsSound, HoldingsFit, Finalizes
<1>8. QED
  BY <1>1, <1>2, <1>3, <1>4, <1>5, <1>6, <1>7, Known, Took

LEMMA SettleSweepKeeps ==
    ASSUME IInv, NEW r \in Runs, SettleSweep(r)
    PROVE  IInv'
<1>1. TypeOK /\ RunIsSound(r) /\ runs[r] \in RunRow /\ runs[r] # NoRow
      /\ task[r] \in TaskRecord /\ settle[r] = "sweep"
  <2>1. TypeOK /\ RunIsSound(r) /\ settle[r] = "sweep"
    BY DEF IInv, SettleSweep
  <2>2. task[r].at # "idle"
    BY <2>1 DEF RunIsSound, RowFits
  <2>3. QED
    BY <2>1, <2>2, Known DEF RunIsSound, RowFits
<1>2. pending' \in [Runs -> {"none", "accepted", "prepared", "sent"}]
  BY <1>1 DEF SettleSweep, SweptTurn, TypeOK
<1>3. Takes(r, runs[r], task[r], token[r], bridge[r], watcher[r], permit[r],
            registered[r], transcript[r], published[r], "release", settles[r])
  BY <1>1, <1>2, Unmoved
     DEF SettleSweep, Takes, GoesTo, SettleGoesTo, resources, turns, host
<1>4. TypesFit(token[r], bridge[r], watcher[r], permit[r], registered[r],
               transcript[r], published[r], "release", settles[r])
  BY <1>1, <1>2, Values DEF TypesFit
<1>5. RowFits(runs[r], task[r], token[r], watcher[r], "release", settles[r])
  BY <1>1, <1>2 DEF RunIsSound, RowFits
<1>6. PlaceFits(runs[r], task[r], token[r])
  BY <1>1, <1>2 DEF RunIsSound, PlaceFits
<1>7. TurnFits(runs[r], task[r], HasTurn(r), transcript[r], published[r])
  BY <1>1, <1>2 DEF RunIsSound, TurnFits
<1>8. HoldingsFit(task[r], permit[r], registered[r], bridge[r], watcher[r], "release")
  BY <1>1, <1>2 DEF RunIsSound, HoldingsFit, Finalizes
<1>9. QED
  BY <1>1, <1>2, <1>3, <1>4, <1>5, <1>6, <1>7, <1>8, Known, Took

LEMMA SettlePopKeeps ==
    ASSUME IInv, NEW r \in Runs, SettlePop(r)
    PROVE  IInv'
<1> DEFINE s == IF registered[r] THEN "popped" ELSE "settled"
<1>1. TypeOK /\ RunIsSound(r) /\ runs[r] \in RunRow /\ runs[r] # NoRow
      /\ task[r] \in TaskRecord /\ settle[r] = "release"
  <2>1. TypeOK /\ RunIsSound(r) /\ settle[r] = "release"
    BY DEF IInv, SettlePop
  <2>2. task[r].at # "idle"
    BY <2>1 DEF RunIsSound, RowFits
  <2>3. QED
    BY <2>1, <2>2, Known DEF RunIsSound, RowFits
<1>2. s \in {"popped", "settled"} /\ (s = "popped" <=> registered[r])
  BY <1>1, Values DEF TypesFit
<1>3. Takes(r, runs[r], task[r], token[r], bridge[r], watcher[r], permit[r], FALSE,
            transcript[r], published[r], s, settles[r])
  BY <1>1, <1>2, Unmoved DEF SettlePop, Takes, GoesTo, SettleGoesTo, turns, host
<1>4. TypesFit(token[r], bridge[r], watcher[r], permit[r], FALSE, transcript[r],
               published[r], s, settles[r])
  BY <1>1, <1>2, Values DEF TypesFit
<1> HIDE DEF s
<1>5. RowFits(runs[r], task[r], token[r], watcher[r], s, settles[r])
  BY <1>1, <1>2 DEF RunIsSound, RowFits
<1>6. PlaceFits(runs[r], task[r], token[r])
  BY <1>1, <1>2 DEF RunIsSound, PlaceFits
<1>7. TurnFits(runs[r], task[r], HasTurn(r), transcript[r], published[r])
  BY <1>1, <1>2 DEF RunIsSound, TurnFits
<1>8. HoldingsFit(task[r], permit[r], FALSE, bridge[r], watcher[r], s)
  BY <1>1, <1>2 DEF RunIsSound, HoldingsFit, Finalizes, Clean, Over
<1>9. QED
  BY <1>1, <1>2, <1>3, <1>4, <1>5, <1>6, <1>7, <1>8, Known, Took

LEMMA SettleReleasesKeeps ==
    ASSUME IInv, NEW r \in Runs, SettleReleases(r)
    PROVE  IInv'
<1>1. TypeOK /\ RunIsSound(r) /\ runs[r] \in RunRow /\ runs[r] # NoRow
      /\ task[r] \in TaskRecord /\ settle[r] = "popped"
  <2>1. TypeOK /\ RunIsSound(r) /\ settle[r] = "popped"
    BY DEF IInv, SettleReleases
  <2>2. task[r].at # "idle"
    BY <2>1 DEF RunIsSound, RowFits
  <2>3. QED
    BY <2>1, <2>2, Known DEF RunIsSound, RowFits
<1>2. PICK p \in {"none", "stuck"}, w \in {"off", "fired", "requested"} :
              /\ permit' = [permit EXCEPT ![r] = p]
              /\ watcher' = [watcher EXCEPT ![r] = w]
              /\ bridge' = [bridge EXCEPT ![r] = FALSE]
              /\ w # "off" => w = watcher[r]
  BY <1>1, Released DEF SettleReleases
<1>3. Takes(r, runs[r], task[r], token[r], FALSE, w, p, registered[r], transcript[r],
            published[r], "settled", settles[r])
  BY <1>1, <1>2, Unmoved
     DEF SettleReleases, Takes, GoesTo, SettleGoesTo, turns, host
<1>4. TypesFit(token[r], FALSE, w, p, registered[r], transcript[r], published[r],
               "settled", settles[r])
  BY <1>1, <1>2, Values DEF TypesFit
<1>5. RowFits(runs[r], task[r], token[r], w, "settled", settles[r])
  BY <1>1, <1>2 DEF RunIsSound, RowFits
<1>6. PlaceFits(runs[r], task[r], token[r])
  BY <1>1, <1>2 DEF RunIsSound, PlaceFits
<1>7. TurnFits(runs[r], task[r], HasTurn(r), transcript[r], published[r])
  BY <1>1, <1>2 DEF RunIsSound, TurnFits
<1>8. HoldingsFit(task[r], p, registered[r], FALSE, w, "settled")
  BY <1>1, <1>2 DEF RunIsSound, HoldingsFit, Finalizes, Clean, Over
<1>9. QED
  BY <1>1, <1>2, <1>3, <1>4, <1>5, <1>6, <1>7, <1>8, Known, Took

-----------------------------------------------------------------------------
(* Steps of a process                                                      *)

(* A choice of orphans is not part of what is said of a run.               *)
LEMMA ChooseOrphansKeeps ==
    ASSUME IInv, NEW p \in Processes, ChooseOrphans(p)
    PROVE  IInv'
<1>1. TypeOK'
  BY DEF IInv, TypeOK, ChooseOrphans, shape, resources, turns
<1>2. \A r \in Runs : SameAt(r)
  BY DEF IInv, TypeOK, ChooseOrphans, SameAt, shape, resources, turns
<1>3. QED
  BY <1>1, <1>2, SameStays DEF IInv

(* An orphan that is still active becomes unsettled: as good as cancelled  *)
(* for whoever still works on the run.                                     *)
LEMMA WriteOrphansKeeps ==
    ASSUME IInv, NEW p \in Processes, WriteOrphans(p)
    PROVE  IInv'
<1>1. "user" \in CancelReasons
  BY DEF CancelReasons
<1>2. TypeOK /\ \A r \in Runs : RunIsSound(r) /\ runs[r] \in RunRow \union {NoRow}
  BY DEF IInv, TypeOK
<1>3. ASSUME NEW r \in Runs
      PROVE  \/ runs'[r] = runs[r]
             \/ runs[r] \in RunRow /\ IsActive(runs[r]) /\ runs'[r] = Orphaned(runs[r])
  <2>1. runs[r] \notin RunRow => ~IsActive(runs[r])
    BY <1>2 DEF IsActive, NoRow, ActiveStates
  <2>2. runs'[r] = runs[r] \/ runs'[r] = Orphaned(runs[r])
    BY DEF WriteOrphans
  <2>3. ~IsActive(runs[r]) => Orphaned(runs[r]) = runs[r]
    BY DEF Orphaned
  <2>4. CASE ~IsActive(runs[r])
    BY <2>2, <2>3, <2>4
  <2>5. CASE IsActive(runs[r])
    <3>1. runs[r] \in RunRow
      BY <2>1, <2>5
    <3>2. QED
      BY <2>2, <2>5, <3>1
  <2>6. QED
    BY <2>4, <2>5
<1>4. ASSUME NEW r \in Runs
      PROVE  /\ task'[r] = task[r] /\ token'[r] = token[r] /\ kind'[r] = kind[r]
             /\ watcher'[r] = watcher[r] /\ settle'[r] = settle[r] /\ settles'[r] = settles[r]
             /\ transcript'[r] = transcript[r] /\ published'[r] = published[r]
             /\ permit'[r] = permit[r] /\ registered'[r] = registered[r]
             /\ bridge'[r] = bridge[r] /\ thread'[r] = thread[r]
  BY DEF WriteOrphans, shape, resources, turns
<1>5. TypeOK'
  <2>1. runs' \in [Runs -> RunRow \union {NoRow}]
    <3>1. \A r \in Runs : runs'[r] \in RunRow \union {NoRow}
      BY <1>1, <1>2, <1>3, OutsideFacts
    <3>2. QED
      BY <3>1 DEF WriteOrphans
  <2>2. orphans' \in [Processes -> SUBSET Runs]
    BY <1>2 DEF WriteOrphans, TypeOK
  <2>3. QED
    BY <1>2, <2>1, <2>2 DEF TypeOK, WriteOrphans, shape, resources, turns
<1>6. ASSUME NEW r \in Runs
      PROVE  RunIsSound(r)'
  <2>1. CASE runs'[r] = runs[r]
    BY <1>2, <1>4, <2>1, SameStays DEF SameAt
  <2>2. CASE runs[r] \in RunRow /\ IsActive(runs[r]) /\ runs'[r] = Orphaned(runs[r])
    <3> DEFINE row == Orphaned(runs[r])
    <3>1. /\ row \in RunRow /\ row.state = "unsettled" /\ row.requested = runs[r].requested
      BY <1>1, <2>2, OutsideFacts
    <3>2. row # NoRow /\ runs[r] # NoRow /\ IsTerminal(row) /\ ~IsTerminal(runs[r])
      BY <2>2, <3>1, MoveFacts, RowFacts, <1>1
         DEF IsTerminal, TerminalStates, IsActive, ActiveStates, NoRow
    <3> HIDE DEF row
    <3>3. RowFits(row, task[r], token[r], watcher[r], settle[r], settles[r])
      BY <1>2, <3>1, <3>2 DEF RunIsSound, RowFits, Asked, IsRequested
    <3>4. PlaceFits(row, task[r], token[r])
      BY <1>2, <2>2, <3>1, <3>2
         DEF RunIsSound, PlaceFits, Asked, IsRequested, Undecided, Started, IsActive, ActiveStates
    <3>5. TurnFits(row, task[r], HasTurn(r), transcript[r], published[r])
      BY <1>2, <3>1 DEF RunIsSound, TurnFits
    <3>6. HoldingsFit(task[r], permit[r], registered[r], bridge[r], watcher[r], settle[r])
      BY <1>2 DEF RunIsSound
    <3>7. runs'[r] = row
      BY <2>2 DEF row
    <3>8. QED
      BY <1>4, <3>3, <3>4, <3>5, <3>6, <3>7 DEF RunIsSound, HasTurn
  <2>3. QED
    BY <1>3, <2>1, <2>2
<1>7. QED
  BY <1>5, <1>6 DEF IInv

(* A process takes its executors, timers, bridges and settles with it.     *)
LEMMA CrashKeeps ==
    ASSUME IInv, NEW p \in Processes, Crash(p)
    PROVE  IInv'
<1>1. TypeOK /\ \A r \in Runs : RunIsSound(r)
  BY DEF IInv
<1> DEFINE Lost(r) == runs[r] # NoRow /\ runs[r].owner = p
<1>2. Task("gone") \in TaskRecord /\ Task("gone").at = "gone"
  BY TaskFacts DEF Places
<1>3. ASSUME NEW r \in Runs
      PROVE  /\ task'[r] = IF Lost(r) THEN Task("gone") ELSE task[r]
             /\ token'[r] = IF Lost(r) THEN FALSE ELSE token[r]
             /\ bridge'[r] = IF Lost(r) THEN FALSE ELSE bridge[r]
             /\ watcher'[r] = IF Lost(r) THEN "off" ELSE watcher[r]
             /\ registered'[r] = IF Lost(r) THEN FALSE ELSE registered[r]
             /\ settle'[r] = IF Lost(r) THEN "idle" ELSE settle[r]
             /\ runs'[r] = runs[r] /\ kind'[r] = kind[r] /\ thread'[r] = thread[r]
             /\ permit'[r] = permit[r] /\ settles'[r] = settles[r]
             /\ transcript'[r] = transcript[r] /\ published'[r] = published[r]
  BY DEF Crash, shape, turns
<1>4. TypeOK'
  <2>1. /\ task' \in [Runs -> TaskRecord] /\ token' \in [Runs -> BOOLEAN]
        /\ bridge' \in [Runs -> BOOLEAN] /\ registered' \in [Runs -> BOOLEAN]
        /\ watcher' \in [Runs -> {"off", "armed", "fired", "requested"}]
        /\ settle' \in [Runs -> {"idle", "listed", "asked", "mark", "sweep",
                                 "release", "popped", "settled", "refused"}]
    BY <1>1, <1>2 DEF Crash, TypeOK, TaskRecord
  <2>2. orphans' \in [Processes -> SUBSET Runs] /\ alive' \in [Processes -> BOOLEAN]
    BY <1>1 DEF Crash, TypeOK
  <2>3. QED
    BY <1>1, <2>1, <2>2 DEF TypeOK, Crash, TaskRecord, shape, turns
<1>5. ASSUME NEW r \in Runs
      PROVE  RunIsSound(r)'
  <2>1. CASE ~Lost(r)
    BY <1>1, <1>3, <2>1, SameStays DEF SameAt
  <2>2. CASE Lost(r)
    <3> DEFINE tk == Task("gone")
    <3>1. /\ runs'[r] = runs[r] /\ task'[r] = tk /\ token'[r] = FALSE /\ bridge'[r] = FALSE
          /\ watcher'[r] = "off" /\ registered'[r] = FALSE /\ settle'[r] = "idle"
          /\ kind'[r] = kind[r] /\ permit'[r] = permit[r] /\ settles'[r] = settles[r]
          /\ transcript'[r] = transcript[r] /\ published'[r] = published[r]
      BY <1>3, <2>2
    <3>2. tk.at = "gone"
      BY <1>2
    <3> HIDE DEF tk
    <3>3. RowFits(runs[r], tk, FALSE, "off", "idle", settles[r])
      BY <1>1, <2>2, <3>2 DEF RunIsSound, RowFits
    <3>4. PlaceFits(runs[r], tk, FALSE)
      BY <3>2 DEF PlaceFits, Undecided, Started
    <3>5. TurnFits(runs[r], tk, HasTurn(r), transcript[r], published[r])
      BY <1>1, <3>2 DEF RunIsSound, TurnFits
    <3>6. HoldingsFit(tk, permit[r], FALSE, FALSE, "off", "idle")
      BY <3>2 DEF HoldingsFit, Finalizes
    <3>7. QED
      BY <3>1, <3>3, <3>4, <3>5, <3>6 DEF RunIsSound, HasTurn
  <2>3. QED
    BY <2>1, <2>2
<1>6. QED
  BY <1>4, <1>5 DEF IInv

-----------------------------------------------------------------------------
(* The invariant                                                           *)

LEMMA Initially == Init => IInv
<1> SUFFICES ASSUME Init PROVE IInv
  OBVIOUS
<1>1. Task("idle") \in TaskRecord /\ Task("idle").at = "idle"
  BY TaskFacts DEF Places
<1>2. TypeOK
  BY <1>1, ConstantsAssumption DEF Init, TypeOK, TaskRecord, Kinds
<1>3. ASSUME NEW r \in Runs
      PROVE  RunIsSound(r)
  <2>1. RowFits(runs[r], task[r], token[r], watcher[r], settle[r], settles[r])
    BY <1>1 DEF Init, RowFits, NoRow
  <2>2. PlaceFits(runs[r], task[r], token[r])
    BY <1>1 DEF Init, PlaceFits, Undecided, Started
  <2>3. TurnFits(runs[r], task[r], HasTurn(r), transcript[r], published[r])
    BY <1>1 DEF Init, TurnFits, NoRow
  <2>4. HoldingsFit(task[r], permit[r], registered[r], bridge[r], watcher[r], settle[r])
    BY <1>1 DEF Init, HoldingsFit, Finalizes, Clean, Over
  <2>5. QED
    BY <2>1, <2>2, <2>3, <2>4 DEF RunIsSound
<1>4. QED
  BY <1>2, <1>3 DEF IInv

LEMMA ExecutorKeeps ==
    ASSUME IInv, NEW r \in Runs, ExecutorStep(r)
    PROVE  IInv'
  BY BeginKeeps, StartRefusedKeeps, AcquireKeeps, AcquireCancelledKeeps,
     AcquireTimedOutKeeps, FailStartKeeps, UnwindKeeps, HoldKeeps, AcceptKeeps,
     PrepareKeeps, PublishDoneKeeps, EndStreamKeeps, StreamCancelledKeeps,
     BodyRaisesKeeps, CheckKeeps, PersistKeeps, CompleteKeeps, MarkSentKeeps,
     SettleStreamKeeps, FinalizeReadKeeps, FinalizeWriteKeeps, FinalizeRefusedKeeps,
     FailKeeps, ReconcileKeeps, ReportUnboundKeeps, FinishKeeps,
     FinishReleasesKeeps, BuildRaisesKeeps,
     StartRunKeeps DEF ExecutorStep

LEMMA SettleKeeps ==
    ASSUME IInv, NEW r \in Runs, SettleStep(r)
    PROVE  IInv'
  BY SettleRequestKeeps, SettleReadKeeps, SettleMarkKeeps, SettleRefusedKeeps,
     SettleSweepKeeps, SettlePopKeeps, SettleReleasesKeeps DEF SettleStep

LEMMA StutterKeeps ==
    ASSUME IInv, UNCHANGED vars
    PROVE  IInv'
<1>1. TypeOK'
  BY DEF IInv, TypeOK, vars, shape, resources, turns, host
<1>2. \A r \in Runs : SameAt(r)
  BY DEF SameAt, vars, shape, resources, turns, host
<1>3. QED
  BY <1>1, <1>2, SameStays DEF IInv

LEMMA NextKeeps == IInv /\ [Next]_vars => IInv'
<1> SUFFICES ASSUME IInv, [Next]_vars PROVE IInv'
  OBVIOUS
<1>1. ASSUME NEW r \in Runs, NEW p \in Processes, NEW k \in Kinds, NEW t \in Threads,
             Register(r, p, k, t)
      PROVE  IInv'
  BY <1>1, RegisterKeeps
<1>2. ASSUME NEW r \in Runs, ExecutorStep(r) \/ SettleStep(r)
      PROVE  IInv'
  BY <1>2, ExecutorKeeps, SettleKeeps
<1>3. ASSUME NEW r \in Runs,
             \/ Abandon(r) \/ Interrupt(r)
             \/ BridgePoll(r) \/ BridgeGivesUp(r)
             \/ DeadlineFires(r) \/ DeadlineRequests(r) \/ DeadlineCancels(r)
             \/ CancelRun(r) \/ Age(r) \/ ListForSettling(r)
      PROVE  IInv'
  BY <1>3, AbandonKeeps, InterruptKeeps, BridgePollKeeps, BridgeGivesUpKeeps,
     DeadlineFiresKeeps, DeadlineRequestsKeeps, DeadlineCancelsKeeps, CancelRunKeeps,
     AgeKeeps, ListForSettlingKeeps
<1>4. ASSUME NEW p \in Processes, Crash(p) \/ ChooseOrphans(p) \/ WriteOrphans(p)
      PROVE  IInv'
  BY <1>4, CrashKeeps, ChooseOrphansKeeps, WriteOrphansKeeps
<1>5. CASE UNCHANGED vars
  BY <1>5, StutterKeeps
<1>6. QED
  BY <1>1, <1>2, <1>3, <1>4, <1>5 DEF Next

LEMMA Inductive == Spec => []IInv
  BY Initially, NextKeeps, PTL DEF Spec

-----------------------------------------------------------------------------
(* What holds of every state                                               *)

(* Every variable keeps to the values executor.py, run_registry.py and     *)
(* their observers write, for any number of runs, processes and settles.   *)
THEOREM TypeCorrect == Spec => []TypeOK
<1>1. IInv => TypeOK
  BY DEF IInv
<1>2. QED
  BY <1>1, Inductive, PTL

(* No run of a conversation turn is recorded as succeeded whose turn is    *)
(* not in the transcript: for it every way to complete_run leads through   *)
(* persist_turn.                                                           *)
THEOREM SuccessIsPersistedHolds == Spec => []SuccessIsPersisted
<1>1. IInv => SuccessIsPersisted
  BY DEF IInv, RunIsSound, TurnFits, SuccessIsPersisted
<1>2. QED
  BY <1>1, Inductive, PTL

(* A CANCELLED event that was published is never contradicted by the row.  *)
THEOREM CancelledIsTrueHolds == Spec => []CancelledIsTrue
<1>1. IInv => CancelledIsTrue
  BY DEF IInv, RunIsSound, TurnFits, CancelledIsTrue
<1>2. QED
  BY <1>1, Inductive, PTL

(* The reason a run was cancelled with is that of the first request, as    *)
(* long as nobody settled the run.                                         *)
THEOREM FirstRequestDecidesHolds == Spec => []FirstRequestDecides
<1>1. IInv => FirstRequestDecides
  BY DEF IInv, RunIsSound, RowFits, FirstRequestDecides
<1>2. QED
  BY <1>1, Inductive, PTL

(* An executor that is done holds nothing, on whatever path it ended, but  *)
(* what a settle has popped and is about to release, and a permit whose    *)
(* release was tried and failed.                                           *)
THEOREM NothingOutlivesTheRunHolds == Spec => []NothingOutlivesTheRun
<1>1. IInv => NothingOutlivesTheRun
  BY DEF IInv, RunIsSound, HoldingsFit, Over, NothingOutlivesTheRun
<1>2. QED
  BY <1>1, Inductive, PTL

(* An executor whose consumer stays until the end, and whose replay gets   *)
(* its agent, leaves a terminal row.                                       *)
THEOREM EndedIsTerminalHolds == ASSUME ~Abandons PROVE Spec => []EndedIsTerminal
<1>1. ASSUME IInv PROVE EndedIsTerminal
  BY <1>1 DEF IInv, RunIsSound, PlaceFits, EndedIsTerminal
<1>2. QED
  BY <1>1, Inductive, PTL

-----------------------------------------------------------------------------
(* What holds of every step: outcomes                                      *)

Stays(r, row) ==
    IsTerminal(runs[r]) =>
        \/ row.state = runs[r].state /\ row.reason = runs[r].reason
        \/ /\ runs[r].state = "unsettled" /\ row.state = "succeeded"
           /\ task[r].at = "complete" /\ runs[r].owner = row.owner

(* A step that writes the row of one run.                                  *)
LEMMA OneWrite ==
    ASSUME IInv, NEW s \in Runs, NEW row, SetRow(s, row), Stays(s, row)
    PROVE  \A r \in Runs : Stays(r, runs'[r])
<1>1. \A r \in Runs : runs'[r] = IF r = s THEN row ELSE runs[r]
  BY DEF IInv, TypeOK, SetRow
<1>2. QED
  BY <1>1 DEF Stays

LEMMA NoWrite ==
    ASSUME runs' = runs
    PROVE  \A r \in Runs : Stays(r, runs'[r])
  BY DEF Stays

(* Neither a move from an active state nor a request changes an outcome.   *)
LEMMA ActiveStays ==
    ASSUME IInv, NEW r \in Runs, NEW row, IsActive(runs[r]) \/ row = runs[r]
    PROVE  Stays(r, row)
<1>1. runs[r] \in RunRow \union {NoRow}
  BY DEF IInv, TypeOK
<1>2. IsActive(runs[r]) => ~IsTerminal(runs[r])
  BY <1>1, MoveFacts
<1>3. QED
  BY <1>2 DEF Stays

LEMMA SucceededStays ==
    ASSUME IInv, NEW r \in Runs, task[r].at = "complete"
    PROVE  Stays(r, Succeeded(r))
<1>1. runs[r] \in RunRow
  BY Known
<1>2. "succeeded" \in RunStates /\ "user" \in CancelReasons
  BY DEF RunStates, TerminalStates, CancelReasons
<1>3. /\ Moved(runs[r], "succeeded").state = "succeeded"
      /\ Moved(runs[r], "succeeded").owner = runs[r].owner
  BY <1>1, <1>2, RowFacts
<1>4. CanMove(runs[r], "succeeded", Owner(r)) => runs[r].state \in {"running", "unsettled"}
  BY <1>1, MoveFacts
<1>5. runs[r].state = "running" => ~IsTerminal(runs[r])
  BY DEF IsTerminal, TerminalStates
<1>6. QED
  BY <1>3, <1>4, <1>5 DEF Succeeded, Stays

LEMMA RequestStays ==
    ASSUME IInv, NEW r \in Runs, NEW why
    PROVE  Stays(r, CancelRequested(runs[r], why))
<1>1. ~IsActive(runs[r]) => CancelRequested(runs[r], why) = runs[r]
  BY DEF CancelRequested
<1>2. QED
  BY <1>1, ActiveStays

LEMMA ExecutorStays ==
    ASSUME IInv, NEW s \in Runs, ExecutorStep(s)
    PROVE  \A r \in Runs : Stays(r, runs'[r])
<1>1. ASSUME NEW timed \in BOOLEAN, StartRun(s, timed)
      PROVE  \A r \in Runs : Stays(r, runs'[r])
  <2>1. runs[s] \in RunRow \union {NoRow} /\ CanMove(runs[s], "running", Owner(s))
    BY <1>1 DEF IInv, TypeOK, StartRun
  <2>2. IsActive(runs[s])
    BY <2>1, MoveFacts DEF IsActive, ActiveStates
  <2>3. QED
    BY <1>1, <2>2, ActiveStays, OneWrite DEF StartRun
<1>2. ASSUME FailStart(s) \/ Fail(s)
      PROVE  \A r \in Runs : Stays(r, runs'[r])
  <2> DEFINE row == IF CanMove(runs[s], "failed", Owner(s))
                    THEN Moved(runs[s], "failed") ELSE runs[s]
  <2>1. runs[s] \in RunRow \union {NoRow} /\ SetRow(s, row)
    BY <1>2 DEF IInv, TypeOK, FailStart, Fail
  <2>2. CanMove(runs[s], "failed", Owner(s)) => IsActive(runs[s])
    BY <2>1, MoveFacts DEF IsActive, ActiveStates
  <2>3. IsActive(runs[s]) \/ row = runs[s]
    BY <2>2
  <2> HIDE DEF row
  <2>4. QED
    BY <2>1, <2>3, ActiveStays, OneWrite
<1>3. ASSUME Complete(s)
      PROVE  \A r \in Runs : Stays(r, runs'[r])
  BY <1>3, SucceededStays, OneWrite DEF Complete, At
<1>4. ASSUME SettleStream(s, StreamOutcome(s))
      PROVE  \A r \in Runs : Stays(r, runs'[r])
  BY <1>4, SettleStreamLeaves, NoWrite
<1>5. ASSUME FinalizeWrite(s)
      PROVE  \A r \in Runs : Stays(r, runs'[r])
  <2>1. runs[s] \in RunRow \union {NoRow} /\ CanMove(runs[s], "cancelled", Owner(s))
    BY <1>5 DEF IInv, TypeOK, FinalizeWrite
  <2>2. IsActive(runs[s])
    BY <2>1, MoveFacts
  <2>3. QED
    BY <1>5, <2>2, ActiveStays, OneWrite DEF FinalizeWrite
<1>6. ASSUME \/ Begin(s) \/ StartRefused(s) \/ Acquire(s) \/ AcquireCancelled(s)
             \/ AcquireTimedOut(s) \/ Unwind(s) \/ Hold(s) \/ Accept(s) \/ Prepare(s)
             \/ PublishDone(s) \/ EndStream(s) \/ StreamCancelled(s) \/ BodyRaises(s)
             \/ Check(s) \/ Persist(s) \/ MarkSent(s) \/ FinalizeRead(s)
             \/ FinalizeRefused(s) \/ Reconcile(s) \/ ReportUnbound(s) \/ Finish(s)
             \/ FinishReleases(s) \/ BuildRaises(s)
      PROVE  \A r \in Runs : Stays(r, runs'[r])
  <2>1. runs' = runs
    BY <1>6 DEF Begin, StartRefused, Acquire, AcquireCancelled, AcquireTimedOut, Unwind,
                Hold, Accept, Prepare, PublishDone, EndStream, StreamCancelled, BodyRaises,
                Check, Persist, MarkSent, FinalizeRead, FinalizeRefused, Reconcile,
                ReportUnbound, Finish, FinishReleases, BuildRaises
  <2>2. QED
    BY <2>1, NoWrite
<1>7. QED
  BY <1>1, <1>2, <1>3, <1>4, <1>5, <1>6 DEF ExecutorStep

LEMMA OthersStay ==
    ASSUME IInv, NEW s \in Runs,
           \/ Abandon(s) \/ Interrupt(s)
           \/ BridgePoll(s) \/ BridgeGivesUp(s)
           \/ DeadlineFires(s) \/ DeadlineRequests(s) \/ DeadlineCancels(s)
           \/ CancelRun(s) \/ Age(s) \/ ListForSettling(s) \/ SettleStep(s)
    PROVE  \A r \in Runs : Stays(r, runs'[r])
<1>1. ASSUME DeadlineRequests(s) \/ CancelRun(s) \/ SettleRequest(s)
      PROVE  \A r \in Runs : Stays(r, runs'[r])
  BY <1>1, RequestStays, OneWrite DEF DeadlineRequests, CancelRun, SettleRequest
<1>2. ASSUME Age(s)
      PROVE  \A r \in Runs : Stays(r, runs'[r])
  <2>1. runs[s] \in RunRow /\ "user" \in CancelReasons
    BY <1>2 DEF IInv, TypeOK, Age, CancelReasons
  <2>2. Stays(s, [runs[s] EXCEPT !.aged = TRUE])
    BY <2>1, OutsideFacts DEF Stays
  <2>3. QED
    BY <1>2, <2>2, OneWrite DEF Age
<1>3. ASSUME SettleMark(s)
      PROVE  \A r \in Runs : Stays(r, runs'[r])
  <2>1. runs[s] \in RunRow \union {NoRow} /\ CanMove(runs[s], "cancelled", Owner(s))
    BY <1>3 DEF IInv, TypeOK, SettleMark
  <2>2. IsActive(runs[s])
    BY <2>1, MoveFacts
  <2>3. QED
    BY <1>3, <2>2, ActiveStays, OneWrite DEF SettleMark
<1>4. ASSUME \/ Abandon(s) \/ Interrupt(s)
             \/ BridgePoll(s) \/ BridgeGivesUp(s) \/ DeadlineFires(s) \/ DeadlineCancels(s)
             \/ ListForSettling(s) \/ SettleRead(s) \/ SettleRefused(s) \/ SettleSweep(s)
             \/ SettlePop(s) \/ SettleReleases(s)
      PROVE  \A r \in Runs : Stays(r, runs'[r])
  <2>1. runs' = runs
    BY <1>4 DEF Abandon, Interrupt, BridgePoll, BridgeGivesUp, DeadlineFires,
                DeadlineCancels, ListForSettling, SettleRead, SettleRefused, SettleSweep,
                SettlePop, SettleReleases
  <2>2. QED
    BY <2>1, NoWrite
<1>5. QED
  BY <1>1, <1>2, <1>3, <1>4 DEF SettleStep

LEMMA OutcomesStay ==
    ASSUME IInv, [Next]_vars
    PROVE  \A r \in Runs : Stays(r, runs'[r])
<1>1. ASSUME NEW s \in Runs, NEW p \in Processes, NEW k \in Kinds, NEW t \in Threads,
             Register(s, p, k, t)
      PROVE  \A r \in Runs : Stays(r, runs'[r])
  <2>1. runs[s] = NoRow
    BY <1>1 DEF IInv, RunIsSound, RowFits, Register, At
  <2>2. Stays(s, NewRow(p))
    BY <2>1 DEF Stays, IsTerminal, NoRow, TerminalStates
  <2>3. QED
    BY <1>1, <2>2, OneWrite DEF Register
<1>2. ASSUME NEW p \in Processes, WriteOrphans(p)
      PROVE  \A r \in Runs : Stays(r, runs'[r])
  <2>1. ASSUME NEW r \in Runs PROVE IsActive(runs[r]) \/ runs'[r] = runs[r]
    BY <1>2 DEF WriteOrphans, Orphaned, IsActive
  <2>2. QED
    BY <2>1, ActiveStays
<1>3. ASSUME NEW p \in Processes, Crash(p) \/ ChooseOrphans(p)
      PROVE  \A r \in Runs : Stays(r, runs'[r])
  <2>1. runs' = runs
    BY <1>3 DEF Crash, ChooseOrphans
  <2>2. QED
    BY <2>1, NoWrite
<1>4. CASE UNCHANGED vars
  BY <1>4, NoWrite DEF vars
<1>5. QED
  BY <1>1, <1>2, <1>3, <1>4, ExecutorStays, OthersStay DEF Next

(* run_registry.py's _transition: an outcome stays whoever writes to the   *)
(* row, except that the executor completes its own run after an orphan     *)
(* cleanup took it for lost.                                               *)
THEOREM OutcomeStaysHolds == Spec => OutcomeStays
<1>1. ASSUME IInv, [Next]_vars
      PROVE  [\A r \in Runs :
                IsTerminal(runs[r]) =>
                    \/ Outcome(r)' = Outcome(r)
                    \/ /\ runs[r].state = "unsettled"
                       /\ runs'[r].state = "succeeded"
                       /\ task[r].at = "complete"
                       /\ runs[r].owner = runs'[r].owner]_vars
  <2>1. ASSUME NEW r \in Runs, IsTerminal(runs[r]),
               runs'[r].state = runs[r].state, runs'[r].reason = runs[r].reason
        PROVE  Outcome(r)' = Outcome(r)
    BY <2>1 DEF Outcome, IsTerminal
  <2>2. QED
    BY <1>1, <2>1, OutcomesStay DEF Stays
<1>2. QED
  BY <1>1, Inductive, PTL DEF Spec, OutcomeStays

-----------------------------------------------------------------------------
(* What holds of every step: pending turns                                 *)

TurnStays(r) ==
    pending[r] # "none" /\ pending'[r] = "none" =>
        \/ runs'[r].state = "succeeded"
        \/ runs'[r].state = "cancelled" /\ runs'[r].reason = "user"

LEMMA TurnsUntouched ==
    ASSUME pending' = pending
    PROVE  \A r \in Runs : TurnStays(r)
  BY DEF TurnStays

(* A turn that is written, or left.                                        *)
LEMMA TurnWritten ==
    ASSUME TypeOK, NEW s \in Runs, NEW turn \in {"accepted", "prepared", "sent"},
           \/ pending' = [pending EXCEPT ![s] = turn]
           \/ pending' = [pending EXCEPT ![s] = pending[s]]
    PROVE  \A r \in Runs : TurnStays(r)
  BY DEF TurnStays, TypeOK

LEMMA ExecutorLeavesTurns ==
    ASSUME IInv, NEW s \in Runs, ExecutorStep(s)
    PROVE  \A r \in Runs : TurnStays(r)
<1>1. TypeOK /\ RunIsSound(s)
  BY DEF IInv
<1>2. ASSUME Accept(s)
      PROVE  \A r \in Runs : TurnStays(r)
  <2>1. \/ pending' = [pending EXCEPT ![s] = "accepted"]
        \/ pending' = [pending EXCEPT ![s] = pending[s]]
    BY <1>2 DEF Accept
  <2>2. QED
    BY <1>1, <2>1, TurnWritten
<1>3. ASSUME Prepare(s)
      PROVE  \A r \in Runs : TurnStays(r)
  <2>1. \/ pending' = [pending EXCEPT ![s] = "prepared"]
        \/ pending' = [pending EXCEPT ![s] = pending[s]]
    BY <1>3 DEF Prepare
  <2>2. QED
    BY <1>1, <2>1, TurnWritten
<1>4. ASSUME MarkSent(s)
      PROVE  \A r \in Runs : TurnStays(r)
  <2>1. CASE pending' = [pending EXCEPT ![s] = "sent"]
    BY <1>1, <2>1, TurnWritten
  <2>2. CASE pending' = pending
    BY <2>2, TurnsUntouched
  <2>3. QED
    BY <1>4, <2>1, <2>2 DEF MarkSent
<1>5. ASSUME SettleStream(s, StreamOutcome(s))
      PROVE  \A r \in Runs : TurnStays(r)
  <2> DEFINE outcome == StreamOutcome(s)
             row == IF outcome = "open" THEN Succeeded(s) ELSE runs[s]
  <2>1. CASE pending' = pending
    BY <2>1, TurnsUntouched
  <2>2. CASE pending' # pending
    <3>1. /\ row.state = "succeeded" /\ SetRow(s, row)
          /\ pending' = [pending EXCEPT ![s] = "none"]
      BY <1>5, <2>2 DEF SettleStream, DropTurn
    <3>2. runs'[s].state = "succeeded"
      BY <1>1, <3>1 DEF SetRow, TypeOK
    <3>3. \A r \in Runs : r # s => pending'[r] = pending[r]
      BY <1>1, <3>1 DEF TypeOK
    <3>4. QED
      BY <3>2, <3>3 DEF TurnStays
  <2>3. QED
    BY <2>1, <2>2
<1>6. ASSUME Reconcile(s)
      PROVE  \A r \in Runs : TurnStays(r)
  <2>1. runs' = runs /\ task[s].at = "drop"
        /\ pending' = [pending EXCEPT ![s] = IF task[s].keep THEN @ ELSE "none"]
    BY <1>6 DEF Reconcile, At
  <2>2. \A r \in Runs : r # s => pending'[r] = pending[r]
    BY <1>1, <2>1 DEF TypeOK
  <2>3. task[s].keep => pending'[s] = pending[s]
    BY <1>1, <2>1 DEF TypeOK
  <2>4. ~task[s].keep => runs[s].state = "cancelled" /\ runs[s].reason = "user"
    BY <1>1, <2>1 DEF RunIsSound, PlaceFits
  <2>5. QED
    BY <2>1, <2>2, <2>3, <2>4 DEF TurnStays
<1>7. ASSUME \/ Begin(s) \/ StartRefused(s) \/ Acquire(s) \/ AcquireCancelled(s)
             \/ \E timed \in BOOLEAN : StartRun(s, timed)
             \/ AcquireTimedOut(s) \/ FailStart(s) \/ Unwind(s) \/ Hold(s)
             \/ PublishDone(s) \/ EndStream(s) \/ StreamCancelled(s) \/ BodyRaises(s)
             \/ Check(s) \/ Persist(s) \/ Complete(s) \/ FinalizeRead(s) \/ FinalizeWrite(s)
             \/ FinalizeRefused(s) \/ Fail(s) \/ ReportUnbound(s) \/ Finish(s)
             \/ FinishReleases(s) \/ BuildRaises(s)
      PROVE  \A r \in Runs : TurnStays(r)
  <2>1. pending' = pending
    BY <1>7
       DEF Begin, StartRefused, Acquire, AcquireCancelled, StartRun, AcquireTimedOut,
                FailStart, Unwind, Hold, PublishDone, EndStream, StreamCancelled, BodyRaises,
                Check, Persist, Complete, FinalizeRead, FinalizeWrite, FinalizeRefused, Fail,
                ReportUnbound, Finish, FinishReleases, BuildRaises, turns
  <2>2. QED
    BY <2>1, TurnsUntouched
<1>8. QED
  BY <1>2, <1>3, <1>4, <1>5, <1>6, <1>7 DEF ExecutorStep

(* The cleanup after a settle goes by the row of each run.                 *)
LEMMA SweepLeavesTurns ==
    ASSUME IInv, NEW s \in Runs, SettleSweep(s)
    PROVE  \A r \in Runs : TurnStays(r)
<1>1. SUFFICES ASSUME NEW r \in Runs, pending[r] # "none", pending'[r] = "none"
               PROVE  \/ runs'[r].state = "succeeded"
                      \/ runs'[r].state = "cancelled" /\ runs'[r].reason = "user"
  BY DEF TurnStays
<1>2. pending'[r] = SweptTurn(r) /\ runs' = runs
  BY DEF SettleSweep
<1>3. IsTerminal(runs[r]) /\ ShouldDeleteTurn(runs[r])
  BY <1>1, <1>2 DEF SweptTurn
<1>4. runs[r].state = "cancelled" => runs[r].reason \in CancelReasons
  BY DEF IInv, RunIsSound, RowFits
<1>5. QED
  BY <1>2, <1>3, <1>4 DEF IsTerminal, TerminalStates, ShouldDeleteTurn, CancelReasons

LEMMA TurnsStay ==
    ASSUME IInv, [Next]_vars
    PROVE  \A r \in Runs : TurnStays(r)
<1>1. ASSUME NEW s \in Runs, NEW p \in Processes, NEW k \in Kinds, NEW t \in Threads,
             Register(s, p, k, t)
      PROVE  pending' = pending
  BY <1>1 DEF Register, turns
<1>2. ASSUME NEW s \in Runs,
             \/ Abandon(s) \/ Interrupt(s)
             \/ BridgePoll(s) \/ BridgeGivesUp(s)
             \/ DeadlineFires(s) \/ DeadlineRequests(s) \/ DeadlineCancels(s)
             \/ CancelRun(s) \/ Age(s) \/ ListForSettling(s)
             \/ SettleRequest(s) \/ SettleRead(s) \/ SettleMark(s) \/ SettleRefused(s)
             \/ SettlePop(s) \/ SettleReleases(s)
      PROVE  pending' = pending
  BY <1>2
     DEF Abandon, Interrupt, BridgePoll, BridgeGivesUp, DeadlineFires,
         DeadlineRequests,
              DeadlineCancels, CancelRun, Age, ListForSettling, SettleRequest, SettleRead,
              SettleMark, SettleRefused, SettlePop, SettleReleases, turns
<1>3. ASSUME NEW p \in Processes, Crash(p) \/ ChooseOrphans(p) \/ WriteOrphans(p)
      PROVE  pending' = pending
  BY <1>3 DEF Crash, ChooseOrphans, WriteOrphans, turns
<1>4. CASE UNCHANGED vars
  BY <1>4, TurnsUntouched DEF vars, turns
<1>5. QED
  BY <1>1, <1>2, <1>3, <1>4, TurnsUntouched, ExecutorLeavesTurns, SweepLeavesTurns
     DEF Next, SettleStep

(* pending_turn_store.py and the cleanups: a turn goes only with a run that*)
(* has succeeded or that the user has cancelled, whoever deletes it.       *)
THEOREM ResumableTurnStaysHolds == Spec => ResumableTurnStays
<1>1. ASSUME IInv, [Next]_vars
      PROVE  [\A r \in Runs :
                pending[r] # "none" /\ pending'[r] = "none" =>
                    \/ runs'[r].state = "succeeded"
                    \/ runs'[r].state = "cancelled" /\ runs'[r].reason = "user"]_vars
  BY <1>1, TurnsStay DEF TurnStays
<1>2. QED
  BY <1>1, Inductive, PTL DEF Spec, ResumableTurnStays
-----------------------------------------------------------------------------
(* What is promised of a run: every step is one of RunPromise, or none.    *)

Kept(r) == Promise(r)!Next \/ UNCHANGED Promise(r)!promise

(* Nothing that is promised is about anything but the row.                 *)
Quiet(r) ==
    /\ kind'[r] = kind[r] /\ transcript'[r] = transcript[r]
    /\ published'[r] = published[r] /\ settles'[r] = settles[r]
    /\ pending'[r] = pending[r]

(* What a row tells of the fate of its run.                                *)
LEMMA FateFacts ==
    ASSUME NEW row \in RunRow, row.state = "cancelled" => row.reason \in CancelReasons
    PROVE  /\ Fate(row) = "open" <=> IsActive(row)
           /\ \A end \in {"succeeded", "failed", "unsettled"} :
                 Fate(row) = end <=> row.state = end
           /\ Fate(row) \in CancelReasons <=> row.state = "cancelled"
           /\ row.state = "cancelled" => Fate(row) = row.reason
           /\ Fate(row) = "user" <=> row.state = "cancelled" /\ row.reason = "user"
           /\ Fate(row) # "none"
           /\ FirstWish(row) = row.requested
<1>1. row.state \in RunStates /\ row # NoRow
  BY DEF RunRow, NoRow, RunStates, ActiveStates, TerminalStates
<1>2. QED
  BY <1>1 DEF Fate, FirstWish, IsActive, RunStates, ActiveStates, TerminalStates, CancelReasons

(* The rows of the invariant are such rows.                                *)
LEMMA FateOf ==
    ASSUME IInv, NEW r \in Runs, runs[r] # NoRow
    PROVE  /\ runs[r] \in RunRow
           /\ runs[r].state = "cancelled" => runs[r].reason \in CancelReasons
  BY DEF IInv, TypeOK, RunIsSound, RowFits

(* A run of which nothing changes that is promised.                        *)
LEMMA Unseen ==
    ASSUME NEW r \in Runs, Quiet(r),
           Fate(runs'[r]) = Fate(runs[r]), FirstWish(runs'[r]) = FirstWish(runs[r])
    PROVE  Kept(r)
  BY DEF Kept, Quiet, Promise!promise, HasTurn

(* What the promise lets become of the row of a run, nothing else changing.*)
MayBecome(r, row) ==
    \/ /\ row.requested = runs[r].requested
       /\ \/ IsActive(runs[r]) /\ IsActive(row)
          \/ row.state = runs[r].state /\ row.reason = runs[r].reason
          \/ /\ IsActive(runs[r])
             /\ row.state \in {"failed", "unsettled"}
          \/ /\ IsActive(runs[r])
             /\ row.state = "cancelled"
             /\ row.reason \in CancelReasons
             /\ row.reason = runs[r].requested \/ settles[r] # 0
          \/ /\ IsActive(runs[r]) \/ runs[r].state = "unsettled"
             /\ row.state = "succeeded"
             /\ HasTurn(r) => transcript[r]
             /\ "cancelled" \notin published[r]
    \/ /\ runs[r].requested = None
       /\ row.requested \in CancelReasons
       /\ IsActive(runs[r]) /\ IsActive(row)

(* The six ways of MayBecome are steps of the promise, or none.            *)
LEMMA RowIsKept ==
    ASSUME IInv, NEW r \in Runs, runs[r] # NoRow,
           NEW row \in RunRow, runs'[r] = row, Quiet(r), MayBecome(r, row)
    PROVE  Kept(r)
<1>1. runs[r] \in RunRow /\ (runs[r].state = "cancelled" => runs[r].reason \in CancelReasons)
  BY FateOf
<1>2. row.state = "cancelled" => row.reason \in CancelReasons
  BY <1>1 DEF MayBecome, IsActive, ActiveStates
<1> USE DEF Kept
<1>3. CASE /\ row.requested = runs[r].requested
           /\ IsActive(runs[r]) /\ IsActive(row)
  BY <1>1, <1>2, <1>3, FateFacts, Unseen
<1>4. CASE /\ row.requested = runs[r].requested
           /\ row.state = runs[r].state /\ row.reason = runs[r].reason
  <2>1. Fate(row) = Fate(runs[r])
    BY <1>4 DEF Fate, IsActive
  <2>2. QED
    BY <1>1, <1>2, <1>4, <2>1, FateFacts, Unseen
<1>5. CASE /\ row.requested = runs[r].requested
           /\ IsActive(runs[r])
           /\ row.state \in {"failed", "unsettled"}
  <2>1. /\ Fate(runs[r]) = "open" /\ Fate(runs'[r]) = row.state
        /\ FirstWish(runs'[r]) = FirstWish(runs[r])
    BY <1>1, <1>2, <1>5, FateFacts
  <2>2. Promise(r)!Fail \/ Promise(r)!GiveUp
    BY <1>5, <2>1 DEF Quiet, Promise!Fail, Promise!GiveUp, Promise!Becomes, HasTurn
  <2>3. QED
    BY <2>2 DEF Promise!Next
<1>6. CASE /\ row.requested = runs[r].requested
           /\ IsActive(runs[r])
           /\ row.state = "cancelled"
           /\ row.reason \in CancelReasons
           /\ row.reason = runs[r].requested \/ settles[r] # 0
  <2>1. /\ Fate(runs[r]) = "open" /\ Fate(runs'[r]) = row.reason
        /\ FirstWish(runs'[r]) = FirstWish(runs[r])
        /\ FirstWish(runs[r]) = runs[r].requested
    BY <1>1, <1>2, <1>6, FateFacts
  <2>2. Promise(r)!Cancel(row.reason)
    BY <1>6, <2>1 DEF Quiet, Promise!Cancel, Promise!Becomes, HasTurn
  <2>3. QED
    BY <1>6, <2>2 DEF Promise!Next
<1>7. CASE /\ row.requested = runs[r].requested
           /\ IsActive(runs[r]) \/ runs[r].state = "unsettled"
           /\ row.state = "succeeded"
           /\ HasTurn(r) => transcript[r]
           /\ "cancelled" \notin published[r]
  <2>1. /\ Fate(runs[r]) \in {"open", "unsettled"} /\ Fate(runs'[r]) = "succeeded"
        /\ FirstWish(runs'[r]) = FirstWish(runs[r])
    BY <1>1, <1>2, <1>7, FateFacts
  <2>2. Promise(r)!Succeed
    BY <1>7, <2>1 DEF Quiet, Promise!Succeed, Promise!Becomes, HasTurn
  <2>3. QED
    BY <2>2 DEF Promise!Next
<1>8. CASE /\ runs[r].requested = None
           /\ row.requested \in CancelReasons
           /\ IsActive(runs[r]) /\ IsActive(row)
  <2>1. /\ Fate(runs[r]) = "open" /\ Fate(runs'[r]) = "open"
        /\ FirstWish(runs[r]) = None /\ FirstWish(runs'[r]) = row.requested
    BY <1>1, <1>2, <1>8, FateFacts
  <2>2. Promise(r)!Wish(row.requested)
    BY <2>1 DEF Quiet, Promise!Wish, HasTurn
  <2>3. QED
    BY <1>8, <2>2 DEF Promise!Next
<1>9. QED
  BY <1>3, <1>4, <1>5, <1>6, <1>7, <1>8 DEF MayBecome

(* A step that writes the row of one run and nothing else of the promise.  *)
LEMMA OneRowIsKept ==
    ASSUME IInv, NEW s \in Runs, runs[s] # NoRow,
           NEW row \in RunRow, SetRow(s, row), MayBecome(s, row),
           UNCHANGED <<kind, transcript, published, settles, pending>>
    PROVE  \A r \in Runs : Kept(r)
<1>1. \A r \in Runs : runs'[r] = IF r = s THEN row ELSE runs[r]
  BY DEF IInv, TypeOK, SetRow
<1>2. \A r \in Runs : Quiet(r)
  BY DEF Quiet
<1>3. \A r \in Runs : r # s => Kept(r)
  BY <1>1, <1>2, Unseen
<1>4. Kept(s)
  BY <1>1, <1>2, RowIsKept
<1>5. QED
  BY <1>3, <1>4

(* A step that writes nothing that is promised.                            *)
LEMMA NoneIsSeen ==
    ASSUME UNCHANGED <<runs, kind, transcript, published, settles, pending>>
    PROVE  \A r \in Runs : Kept(r)
<1>1. \A r \in Runs : Quiet(r) /\ runs'[r] = runs[r]
  BY DEF Quiet
<1>2. QED
  BY <1>1, Unseen

(* A step that changes, beside the row, something of one run only.         *)
LEMMA OneRunIsKept ==
    ASSUME NEW s \in Runs, Kept(s),
           \A r \in Runs : r # s => Quiet(r) /\ runs'[r] = runs[r]
    PROVE  \A r \in Runs : Kept(r)
  BY Unseen

(* An executor on its way to persist_turn has neither decided its run nor  *)
(* reported it.                                                            *)
LEMMA Working ==
    ASSUME IInv, NEW r \in Runs, task[r].at \in {"accept", "prepare", "persist"}
    PROVE  Promise(r)!AtWork
<1>1. /\ runs[r] \in RunRow /\ runs[r].state \notin {"succeeded", "failed"}
      /\ runs[r].state = "cancelled" => runs[r].reason \in CancelReasons
      /\ "cancelled" \notin published[r]
  BY Known DEF RunIsSound, RowFits, PlaceFits, TurnFits, Undecided
<1>2. Fate(runs[r]) \notin {"none", "succeeded", "failed"}
  BY <1>1, FateFacts
<1>3. QED
  BY <1>1, <1>2 DEF Promise!AtWork

(* What the end of a run may do to its turn and its events.                *)
LEMMA ClosingIsKept ==
    ASSUME IInv, NEW r \in Runs, runs[r] # NoRow,
           runs'[r] = runs[r], kind'[r] = kind[r],
           transcript'[r] = transcript[r], settles'[r] = settles[r],
           \/ pending'[r] = pending[r]
           \/ /\ pending'[r] = "none"
              /\ \/ runs[r].state = "succeeded"
                 \/ runs[r].state = "cancelled" /\ runs[r].reason = "user",
           \/ published'[r] = published[r]
           \/ published'[r] = published[r] \union {"done"}
           \/ /\ published'[r] = published[r] \union {"cancelled"}
              /\ runs[r].state \in {"cancelled", "unsettled"}
    PROVE  Kept(r)
<1> DEFINE asked    == pending[r] # "none"
           stillAsked == pending'[r] # "none"
           told     == "cancelled" \in published[r]
           nowTold  == "cancelled" \in published'[r]
<1>1. runs[r] \in RunRow /\ (runs[r].state = "cancelled" => runs[r].reason \in CancelReasons)
  BY FateOf
<1>2. /\ Fate(runs'[r]) = Fate(runs[r]) /\ FirstWish(runs'[r]) = FirstWish(runs[r])
      /\ (HasTurn(r) /\ ~transcript[r])' = (HasTurn(r) /\ ~transcript[r])
      /\ (settles[r] # 0)' = (settles[r] # 0)
  BY DEF HasTurn
<1>3. \/ Fate(runs[r]) \in {"succeeded", "user"} /\ ~stillAsked
      \/ stillAsked = asked
  BY <1>1, FateFacts
<1>4. \/ Fate(runs[r]) \in CancelReasons \union {"unsettled"} /\ nowTold
      \/ nowTold = told
  <2>1. runs[r].state \in {"cancelled", "unsettled"} =>
            Fate(runs[r]) \in CancelReasons \union {"unsettled"}
    BY <1>1, FateFacts
  <2>2. QED
    BY <2>1
<1>5. Promise(r)!Close
  BY <1>2, <1>3, <1>4 DEF Promise!Close, Promise!Forget, Promise!Tell
<1>6. QED
  BY <1>5 DEF Kept, Promise!Next

-----------------------------------------------------------------------------
(* The steps that write a row                                              *)

(* register_run: the run is open, and an agent's owes its turn.            *)
LEMMA RegisterIsKept ==
    ASSUME IInv, NEW s \in Runs, NEW p \in Processes, NEW k \in Kinds, NEW t \in Threads,
           Register(s, p, k, t)
    PROVE  \A r \in Runs : Kept(r)
<1>1. TypeOK /\ RunIsSound(s)
  BY DEF IInv
<1>2. /\ task[s].at = "idle" /\ runs' = [runs EXCEPT ![s] = NewRow(p)]
      /\ kind' = [kind EXCEPT ![s] = k]
      /\ UNCHANGED <<transcript, published, settles, pending>>
  BY DEF Register, At, SetRow, turns, host
<1>3. \A r \in Runs : r # s => Quiet(r) /\ runs'[r] = runs[r]
  BY <1>1, <1>2 DEF TypeOK, Quiet
<1>4. runs[s] = NoRow /\ runs'[s] = NewRow(p)
  BY <1>1, <1>2 DEF TypeOK, RunIsSound, RowFits
<1>5. Fate(runs[s]) = "none" /\ FirstWish(runs[s]) = None
  BY <1>4 DEF Fate, FirstWish, NoRow, IsActive, ActiveStates
<1>6. Fate(runs'[s]) = "open" /\ FirstWish(runs'[s]) = None
  <2>1. NewRow(p) # NoRow
    BY DEF NewRow, NoRow
  <2>2. QED
    BY <1>4, <2>1 DEF Fate, FirstWish, NewRow, IsActive, ActiveStates
<1>7. Promise(s)!Start((HasTurn(s) /\ ~transcript[s])')
  BY <1>2, <1>5, <1>6 DEF Promise!Start
<1>8. (HasTurn(s) /\ ~transcript[s])' \in BOOLEAN
  OBVIOUS
<1>9. Kept(s)
  BY <1>7, <1>8 DEF Kept, Promise!Next
<1>10. QED
  BY <1>3, <1>9, OneRunIsKept

(* A request on an active row is recorded once, on another not at all.     *)
LEMMA RequestIsKept ==
    ASSUME IInv, NEW s \in Runs, NEW why \in CancelReasons, runs[s] # NoRow,
           SetRow(s, CancelRequested(runs[s], why)),
           UNCHANGED <<kind, transcript, published, settles, pending>>
    PROVE  \A r \in Runs : Kept(r)
<1> DEFINE row == CancelRequested(runs[s], why)
<1>1. runs[s] \in RunRow
  BY FateOf
<1>2. row \in RunRow /\ row.state = runs[s].state /\ row.reason = runs[s].reason
  BY <1>1, OutsideFacts
<1>3. \/ row.requested = runs[s].requested
      \/ /\ runs[s].requested = None /\ row.requested = why
         /\ IsActive(runs[s]) /\ IsActive(row)
  BY <1>1, <1>2 DEF CancelRequested, RunRow, IsActive
<1>4. MayBecome(s, row)
  BY <1>2, <1>3 DEF MayBecome
<1>5. QED
  BY <1>2, <1>4, OneRowIsKept

(* The executor's own writes: start_run, fail_run, complete_run and        *)
(* mark_cancelled for the reason it has read.                              *)
LEMMA StartRunIsKept ==
    ASSUME IInv, NEW s \in Runs, NEW timed \in BOOLEAN, StartRun(s, timed)
    PROVE  \A r \in Runs : Kept(r)
<1> DEFINE row == Moved(runs[s], "running")
<1>1. /\ task[s].at = "start" /\ CanMove(runs[s], "running", Owner(s)) /\ SetRow(s, row)
      /\ UNCHANGED <<kind, transcript, published, settles, pending>>
  BY DEF StartRun, At, shape, turns, host
<1>2. runs[s] \in RunRow /\ runs[s] # NoRow
  BY <1>1, Known
<1>3. row \in RunRow /\ row.state = "running" /\ row.requested = runs[s].requested
  BY <1>2, RowFacts DEF RunStates, ActiveStates, CancelReasons
<1>4. IsActive(runs[s]) /\ IsActive(row)
  BY <1>1, <1>2, <1>3, MoveFacts DEF IsActive, ActiveStates
<1> HIDE DEF row
<1>5. MayBecome(s, row)
  BY <1>3, <1>4 DEF MayBecome
<1>6. QED
  BY <1>1, <1>2, <1>3, <1>5, OneRowIsKept

(* fail_run of a run that is running; another is left as it is.          *)
LEMMA FailureIsKept ==
    ASSUME IInv, NEW s \in Runs, FailStart(s) \/ Fail(s)
    PROVE  \A r \in Runs : Kept(r)
<1> DEFINE row == IF CanMove(runs[s], "failed", Owner(s))
                  THEN Moved(runs[s], "failed") ELSE runs[s]
<1>1. /\ task[s].at \in {"expired", "failing"} /\ SetRow(s, row)
      /\ UNCHANGED <<kind, transcript, published, settles, pending>>
  BY DEF FailStart, Fail, At, shape, turns, host
<1>2. runs[s] \in RunRow /\ runs[s] # NoRow
  BY <1>1, Known
<1>3. row \in RunRow /\ row.requested = runs[s].requested
  BY <1>1, FailedRow
<1>4. row = runs[s] \/ (IsActive(runs[s]) /\ row.state = "failed")
  <2>1. CASE CanMove(runs[s], "failed", Owner(s))
    <3>1. IsActive(runs[s])
      BY <1>2, <2>1, MoveFacts DEF IsActive, ActiveStates
    <3>2. "failed" \in RunStates /\ "user" \in CancelReasons
      BY DEF RunStates, TerminalStates, CancelReasons
    <3>3. Moved(runs[s], "failed").state = "failed"
      BY <1>2, <3>2, RowFacts
    <3>4. QED
      BY <2>1, <3>1, <3>3
  <2>2. QED
    BY <2>1
<1> HIDE DEF row
<1>5. MayBecome(s, row)
  BY <1>3, <1>4 DEF MayBecome
<1>6. QED
  BY <1>1, <1>2, <1>3, <1>5, OneRowIsKept

(* complete_run: of a run in its stream, or taken for an orphan.         *)
LEMMA CompleteIsKept ==
    ASSUME IInv, NEW s \in Runs, Complete(s)
    PROVE  \A r \in Runs : Kept(r)
<1> DEFINE row == Succeeded(s)
<1>1. /\ task[s].at = "complete" /\ SetRow(s, row)
      /\ UNCHANGED <<kind, transcript, published, settles, pending>>
  BY DEF Complete, At, shape, turns, host
<1>2. RunIsSound(s) /\ runs[s] \in RunRow /\ runs[s] # NoRow
  BY <1>1, Known
<1>3. row \in RunRow /\ row.requested = runs[s].requested
  BY <1>1, SucceededRow
<1>4. \/ row = runs[s]
      \/ /\ runs[s].state \in {"running", "unsettled"}
         /\ row.state = "succeeded"
  <2>1. CanMove(runs[s], "succeeded", Owner(s)) => runs[s].state \in {"running", "unsettled"}
    BY <1>2, MoveFacts
  <2>2. row.state = "succeeded" \/ row = runs[s]
    BY <1>1, SucceededRow
  <2>3. QED
    BY <2>1, <2>2 DEF Succeeded
<1>5. (HasTurn(s) => transcript[s]) /\ "cancelled" \notin published[s]
  BY <1>1, <1>2 DEF RunIsSound, TurnFits
<1> HIDE DEF row
<1>6. MayBecome(s, row)
  BY <1>3, <1>4, <1>5 DEF MayBecome, IsActive, ActiveStates
<1>7. QED
  BY <1>1, <1>2, <1>3, <1>6, OneRowIsKept

(* mark_cancelled with the reason that was read before.                  *)
LEMMA FinalizeWriteIsKept ==
    ASSUME IInv, NEW s \in Runs, FinalizeWrite(s)
    PROVE  \A r \in Runs : Kept(r)
<1> DEFINE row == Cancelled(runs[s], task[s].why)
<1>1. /\ task[s].at = "cancel" /\ CanMove(runs[s], "cancelled", Owner(s)) /\ SetRow(s, row)
      /\ UNCHANGED <<kind, transcript, published, settles, pending>>
  BY DEF FinalizeWrite, At, shape, turns, host
<1>2. RunIsSound(s) /\ runs[s] \in RunRow /\ runs[s] # NoRow
  BY <1>1, Known
<1>3. task[s].why = runs[s].requested /\ task[s].why \in CancelReasons
  BY <1>1, <1>2 DEF RunIsSound, PlaceFits, RunRow, IsRequested
<1>4. /\ row \in RunRow /\ row.state = "cancelled" /\ row.reason = task[s].why
      /\ row.requested = runs[s].requested
  BY <1>2, <1>3, RowFacts
<1>5. IsActive(runs[s])
  BY <1>1, <1>2, MoveFacts
<1> HIDE DEF row
<1>6. MayBecome(s, row)
  BY <1>3, <1>4, <1>5 DEF MayBecome
<1>7. QED
  BY <1>1, <1>2, <1>4, <1>6, OneRowIsKept

(* mark_cancelled of a settle, which was begun before it.                  *)
LEMMA SettleMarkIsKept ==
    ASSUME IInv, NEW s \in Runs, SettleMark(s)
    PROVE  \A r \in Runs : Kept(r)
<1> DEFINE row == Cancelled(runs[s], "user")
<1>1. /\ settle[s] = "mark" /\ CanMove(runs[s], "cancelled", Owner(s)) /\ SetRow(s, row)
      /\ UNCHANGED <<kind, transcript, published, settles, pending>>
  BY DEF SettleMark, shape, turns
<1>2. runs[s] # NoRow /\ settles[s] # 0
  BY <1>1 DEF IInv, RunIsSound, RowFits
<1>3. runs[s] \in RunRow /\ "user" \in CancelReasons
  BY <1>2, FateOf DEF CancelReasons
<1>4. /\ row \in RunRow /\ row.state = "cancelled" /\ row.reason = "user"
      /\ row.requested = runs[s].requested
  BY <1>3, RowFacts
<1>5. IsActive(runs[s])
  BY <1>1, <1>3, MoveFacts
<1> HIDE DEF row
<1>6. MayBecome(s, row)
  BY <1>2, <1>3, <1>4, <1>5 DEF MayBecome
<1>7. QED
  BY <1>1, <1>2, <1>4, <1>6, OneRowIsKept

(* The age of a run is nobody's concern but the cleanup's.               *)
LEMMA AgeIsKept ==
    ASSUME IInv, NEW s \in Runs, Age(s)
    PROVE  \A r \in Runs : Kept(r)
<1> DEFINE row == [runs[s] EXCEPT !.aged = TRUE]
<1>1. /\ runs[s] # NoRow /\ SetRow(s, row)
      /\ UNCHANGED <<kind, transcript, published, settles, pending>>
  BY DEF Age, shape, turns, host
<1>2. runs[s] \in RunRow /\ "user" \in CancelReasons
  BY <1>1, FateOf DEF CancelReasons
<1>3. /\ row \in RunRow /\ row.state = runs[s].state /\ row.reason = runs[s].reason
      /\ row.requested = runs[s].requested
  BY <1>2, OutsideFacts
<1> HIDE DEF row
<1>4. MayBecome(s, row)
  BY <1>3 DEF MayBecome
<1>5. QED
  BY <1>1, <1>3, <1>4, OneRowIsKept

(* cleanup_orphan_runs gives up what it finds active.                      *)
LEMMA WriteOrphansIsKept ==
    ASSUME IInv, NEW p \in Processes, WriteOrphans(p)
    PROVE  \A r \in Runs : Kept(r)
<1>1. SUFFICES ASSUME NEW r \in Runs PROVE Kept(r)
  OBVIOUS
<1>2. Quiet(r)
  BY DEF Quiet, WriteOrphans, shape, turns
<1>3. runs'[r] = runs[r] \/ (IsActive(runs[r]) /\ runs'[r] = Orphaned(runs[r]))
  BY DEF WriteOrphans, Orphaned
<1>4. CASE runs'[r] = runs[r]
  BY <1>2, <1>4, Unseen
<1>5. CASE IsActive(runs[r]) /\ runs'[r] = Orphaned(runs[r])
  <2>1. runs[r] # NoRow /\ "user" \in CancelReasons
    BY <1>5 DEF IsActive, NoRow, ActiveStates, CancelReasons
  <2>2. /\ Orphaned(runs[r]) \in RunRow /\ Orphaned(runs[r]).state = "unsettled"
        /\ Orphaned(runs[r]).requested = runs[r].requested
    BY <1>5, <2>1, FateOf, OutsideFacts
  <2>3. MayBecome(r, Orphaned(runs[r]))
    BY <1>5, <2>2 DEF MayBecome
  <2>4. QED
    BY <1>2, <1>5, <2>1, <2>2, <2>3, RowIsKept
<1>6. QED
  BY <1>3, <1>4, <1>5

-----------------------------------------------------------------------------
(* The steps that write a turn or tell of the run                          *)

(* A turn is written while its executor is at work.                      *)
LEMMA AskIsKept ==
    ASSUME IInv, NEW s \in Runs, Accept(s) \/ Prepare(s)
    PROVE  \A r \in Runs : Kept(r)
<1>1. TypeOK /\ task[s].at \in {"accept", "prepare"}
  BY DEF IInv, Accept, Prepare, At
<1>2. UNCHANGED <<runs, kind, transcript, published, settles>>
  BY DEF Accept, Prepare, shape, host
<1>3. /\ pending'[s] # "none" \/ pending'[s] = pending[s]
      /\ \A r \in Runs : r # s => pending'[r] = pending[r]
  BY <1>1 DEF Accept, Prepare, TypeOK
<1>4. \A r \in Runs : r # s => Quiet(r) /\ runs'[r] = runs[r]
  BY <1>2, <1>3 DEF Quiet
<1>5. CASE pending'[s] # "none"
  <2>1. Promise(s)!AtWork
    BY <1>1, Working
  <2>2. Promise(s)!Ask
    BY <1>2, <1>5, <2>1 DEF Promise!Ask, HasTurn
  <2>3. Kept(s)
    BY <2>2 DEF Kept, Promise!Next
  <2>4. QED
    BY <1>4, <2>3, OneRunIsKept
<1>6. CASE pending'[s] = pending[s]
  <2>1. Quiet(s)
    BY <1>2, <1>6 DEF Quiet
  <2>2. QED
    BY <1>2, <1>4, <2>1, Unseen
<1>7. QED
  BY <1>3, <1>5, <1>6

(* So is the transcript.                                                 *)
LEMMA PersistIsKept ==
    ASSUME IInv, NEW s \in Runs, Persist(s)
    PROVE  \A r \in Runs : Kept(r)
<1>1. TypeOK /\ task[s].at = "persist"
  BY DEF IInv, Persist, At
<1>2. UNCHANGED <<runs, kind, pending, published, settles>>
  BY DEF Persist, shape, host
<1>3. transcript'[s] /\ \A r \in Runs : r # s => transcript'[r] = transcript[r]
  BY <1>1 DEF Persist, TypeOK
<1>4. \A r \in Runs : r # s => Quiet(r) /\ runs'[r] = runs[r]
  BY <1>2, <1>3 DEF Quiet
<1>5. Promise(s)!AtWork
  BY <1>1, Working
<1>6. Promise(s)!Keep
  BY <1>2, <1>3, <1>5 DEF Promise!Keep
<1>7. Kept(s)
  BY <1>6 DEF Kept, Promise!Next
<1>8. QED
  BY <1>4, <1>7, OneRunIsKept

(* A turn that is marked as sent can be resumed from as before.            *)
LEMMA MarkSentIsKept ==
    ASSUME IInv, NEW s \in Runs, MarkSent(s)
    PROVE  \A r \in Runs : Kept(r)
<1>1. UNCHANGED <<runs, kind, transcript, published, settles>>
  BY DEF MarkSent, shape, host
<1>2. \A r \in Runs : (pending'[r] # "none") = (pending[r] # "none")
  BY DEF MarkSent, IInv, TypeOK
<1>3. \A r \in Runs : UNCHANGED Promise(r)!promise
  BY <1>1, <1>2 DEF Promise!promise, HasTurn
<1>4. QED
  BY <1>3 DEF Kept

(* The end of a stream drops the turn of a run that has succeeded.       *)
LEMMA SettleStreamIsKept ==
    ASSUME IInv, NEW s \in Runs, SettleStream(s, StreamOutcome(s))
    PROVE  \A r \in Runs : Kept(r)
<1>1. TypeOK /\ task[s].at = "settle" /\ runs[s] # NoRow
  BY Known DEF SettleStream, At, IInv
<1>2. runs' = runs /\ UNCHANGED <<kind, transcript, published, settles>>
  BY SettleStreamLeaves DEF SettleStream, shape, host
<1>3. CASE pending' = pending
  BY <1>2, <1>3, NoneIsSeen
<1>4. CASE pending' # pending
  <2> DEFINE row == IF StreamOutcome(s) = "open" THEN Succeeded(s) ELSE runs[s]
  <2>1. /\ row.state = "succeeded" /\ SetRow(s, row)
        /\ pending' = [pending EXCEPT ![s] = "none"]
    BY <1>4 DEF SettleStream, DropTurn
  <2>2. runs[s].state = "succeeded"
    BY <1>1, <1>2, <2>1 DEF SetRow, TypeOK
  <2>3. /\ pending'[s] = "none"
        /\ \A r \in Runs : r # s => Quiet(r) /\ runs'[r] = runs[r]
    BY <1>1, <1>2, <2>1 DEF TypeOK, Quiet
  <2>4. Kept(s)
    BY <1>1, <1>2, <2>2, <2>3, ClosingIsKept
  <2>5. QED
    BY <2>3, <2>4, OneRunIsKept
<1>5. QED
  BY <1>3, <1>4

(* The end of a run reported by its executor, and DONE on the way there.   *)
LEMMA ReportIsKept ==
    ASSUME IInv, NEW s \in Runs, PublishDone(s) \/ Reconcile(s) \/ ReportUnbound(s)
    PROVE  \A r \in Runs : Kept(r)
<1>1. TypeOK /\ task[s].at \in {"stream", "drop", "report"}
  BY DEF IInv, PublishDone, Reconcile, ReportUnbound, At
<1>2. RunIsSound(s) /\ runs[s] # NoRow
  BY <1>1, Known
<1>3. UNCHANGED <<runs, kind, transcript, settles>>
  BY DEF PublishDone, Reconcile, ReportUnbound, shape, host, turns
<1>4. \A r \in Runs : r # s => pending'[r] = pending[r] /\ published'[r] = published[r]
  BY <1>1 DEF PublishDone, Reconcile, ReportUnbound, TypeOK
<1>5. \/ pending'[s] = pending[s]
      \/ pending'[s] = "none" /\ task[s].at = "drop" /\ ~task[s].keep
  BY <1>1 DEF PublishDone, Reconcile, ReportUnbound, TypeOK, At
<1>6. \/ published'[s] = published[s]
      \/ published'[s] = published[s] \union {"done"}
      \/ /\ published'[s] = published[s] \union {"cancelled"}
         /\ task[s].at = "report" \/ (task[s].at = "drop" /\ task[s].for = "cancelled")
  BY <1>1 DEF PublishDone, Reconcile, ReportUnbound, TypeOK, At
<1>7. \A r \in Runs : r # s => Quiet(r) /\ runs'[r] = runs[r]
  BY <1>3, <1>4 DEF Quiet
<1>8. Kept(s)
  <2>1. /\ task[s].at = "report" => runs[s].state \in {"cancelled", "unsettled"}
        /\ task[s].at = "drop" /\ task[s].for = "cancelled" =>
              runs[s].state \in {"cancelled", "unsettled"}
        /\ task[s].at = "drop" /\ ~task[s].keep =>
              runs[s].state = "cancelled" /\ runs[s].reason = "user"
    BY <1>2 DEF RunIsSound, PlaceFits
  <2>2. QED
    BY <1>2, <1>3, <1>5, <1>6, <2>1, ClosingIsKept
<1>9. QED
  BY <1>7, <1>8, OneRunIsKept

(* cleanup_stale_pending_turns looks at every run of the session.          *)
LEMMA SettleSweepIsKept ==
    ASSUME IInv, NEW s \in Runs, SettleSweep(s)
    PROVE  \A r \in Runs : Kept(r)
<1>1. SUFFICES ASSUME NEW r \in Runs PROVE Kept(r)
  OBVIOUS
<1>2. /\ UNCHANGED <<runs, kind, transcript, published, settles>>
      /\ pending'[r] = SweptTurn(r)
  BY DEF SettleSweep, shape
<1>3. CASE pending'[r] = pending[r]
  BY <1>2, <1>3, Unseen DEF Quiet
<1>4. CASE pending'[r] # pending[r]
  <2>1. /\ runs[r] # NoRow /\ IsTerminal(runs[r]) /\ ShouldDeleteTurn(runs[r])
        /\ pending'[r] = "none"
    BY <1>2, <1>4 DEF SweptTurn
  <2>2. runs[r].state = "cancelled" => runs[r].reason \in CancelReasons
    BY <2>1, FateOf
  <2>3. \/ runs[r].state = "succeeded"
        \/ runs[r].state = "cancelled" /\ runs[r].reason = "user"
    BY <2>1, <2>2 DEF IsTerminal, TerminalStates, ShouldDeleteTurn, CancelReasons
  <2>4. QED
    BY <1>2, <2>1, <2>3, ClosingIsKept
<1>5. QED
  BY <1>3, <1>4

(* A settle that begins.                                                 *)
LEMMA ListForSettlingIsKept ==
    ASSUME IInv, NEW s \in Runs, ListForSettling(s)
    PROVE  \A r \in Runs : Kept(r)
<1>1. TypeOK
  BY DEF IInv
<1>2. /\ runs[s] # NoRow /\ UNCHANGED <<runs, kind, transcript, published, pending>>
      /\ settles' = [settles EXCEPT ![s] = @ + 1]
  BY DEF ListForSettling, shape, turns
<1>3. \A r \in Runs : r # s => Quiet(r) /\ runs'[r] = runs[r]
  BY <1>1, <1>2 DEF TypeOK, Quiet
<1>4. settles'[s] # 0
  BY <1>1, <1>2, ConstantsAssumption DEF TypeOK
<1>5. Fate(runs[s]) # "none"
  BY <1>2, FateOf, FateFacts
<1>6. Promise(s)!Press
  BY <1>2, <1>4, <1>5 DEF Promise!Press, HasTurn
<1>7. Kept(s)
  BY <1>6 DEF Kept, Promise!Next
<1>8. QED
  BY <1>3, <1>7, OneRunIsKept

-----------------------------------------------------------------------------
(* Every step, and the theorem                                             *)

LEMMA ExecutorIsKept ==
    ASSUME IInv, NEW s \in Runs, ExecutorStep(s)
    PROVE  \A r \in Runs : Kept(r)
<1>1. ASSUME NEW timed \in BOOLEAN, StartRun(s, timed)
      PROVE  \A r \in Runs : Kept(r)
  BY <1>1, StartRunIsKept
<1>2. ASSUME \/ Begin(s) \/ StartRefused(s) \/ Acquire(s) \/ AcquireCancelled(s)
             \/ AcquireTimedOut(s) \/ Unwind(s) \/ Hold(s) \/ EndStream(s)
             \/ StreamCancelled(s) \/ BodyRaises(s) \/ Check(s) \/ FinalizeRead(s)
             \/ FinalizeRefused(s) \/ Finish(s)
             \/ FinishReleases(s) \/ BuildRaises(s)
      PROVE  \A r \in Runs : Kept(r)
  <2>1. UNCHANGED <<runs, kind, transcript, published, settles, pending>>
    BY <1>2 DEF Begin, StartRefused, Acquire, AcquireCancelled, AcquireTimedOut, Unwind,
                Hold, EndStream, StreamCancelled, BodyRaises, Check, FinalizeRead,
                FinalizeRefused, Finish, FinishReleases, BuildRaises, shape, turns, host
  <2>2. QED
    BY <2>1, NoneIsSeen
<1>3. QED
  BY <1>1, <1>2, FailureIsKept, CompleteIsKept, FinalizeWriteIsKept, AskIsKept,
     PersistIsKept, MarkSentIsKept, SettleStreamIsKept, ReportIsKept DEF ExecutorStep

LEMMA OthersAreKept ==
    ASSUME IInv, NEW s \in Runs,
           \/ Abandon(s) \/ Interrupt(s)
           \/ BridgePoll(s) \/ BridgeGivesUp(s)
           \/ DeadlineFires(s) \/ DeadlineRequests(s) \/ DeadlineCancels(s)
           \/ CancelRun(s) \/ Age(s) \/ ListForSettling(s) \/ SettleStep(s)
    PROVE  \A r \in Runs : Kept(r)
<1>1. ASSUME DeadlineRequests(s) \/ CancelRun(s) \/ SettleRequest(s)
      PROVE  \A r \in Runs : Kept(r)
  <2>1. UNCHANGED <<kind, transcript, published, settles, pending>>
    BY <1>1 DEF DeadlineRequests, CancelRun, SettleRequest, shape, turns, host
  <2>2. runs[s] # NoRow
    BY <1>1 DEF DeadlineRequests, CancelRun, SettleRequest, IInv, RunIsSound, RowFits
  <2>3. \E why \in CancelReasons : SetRow(s, CancelRequested(runs[s], why))
    BY <1>1 DEF DeadlineRequests, CancelRun, SettleRequest, CancelReasons
  <2>4. QED
    BY <2>1, <2>2, <2>3, RequestIsKept
<1>2. ASSUME \/ Abandon(s) \/ Interrupt(s)
             \/ BridgePoll(s) \/ BridgeGivesUp(s) \/ DeadlineFires(s) \/ DeadlineCancels(s)
             \/ SettleRead(s) \/ SettleRefused(s) \/ SettlePop(s) \/ SettleReleases(s)
      PROVE  \A r \in Runs : Kept(r)
  <2>1. UNCHANGED <<runs, kind, transcript, published, settles, pending>>
    BY <1>2 DEF Abandon, Interrupt, BridgePoll, BridgeGivesUp, DeadlineFires,
                DeadlineCancels, SettleRead, SettleRefused, SettlePop, SettleReleases,
                shape, turns, host
  <2>2. QED
    BY <2>1, NoneIsSeen
<1>3. QED
  BY <1>1, <1>2, AgeIsKept, ListForSettlingIsKept, SettleMarkIsKept, SettleSweepIsKept
     DEF SettleStep

LEMMA EveryStepIsKept ==
    ASSUME IInv, [Next]_vars
    PROVE  \A r \in Runs : Kept(r)
<1>1. ASSUME NEW p \in Processes, Crash(p) \/ ChooseOrphans(p)
      PROVE  \A r \in Runs : Kept(r)
  <2>1. UNCHANGED <<runs, kind, transcript, published, settles, pending>>
    BY <1>1 DEF Crash, ChooseOrphans, shape, turns
  <2>2. QED
    BY <2>1, NoneIsSeen
<1>2. CASE UNCHANGED vars
  BY <1>2, NoneIsSeen DEF vars, shape, turns, host
<1>3. QED
  BY <1>1, <1>2, RegisterIsKept, ExecutorIsKept, OthersAreKept, WriteOrphansIsKept DEF Next

(* executor.py, host.py and run_registry.py together: what a caller, a     *)
(* subscriber and a later resume see of a run is what RunPromise says,     *)
(* whoever reaches for it and whenever.                                    *)
THEOREM ImplementsPromiseHolds == Spec => ImplementsPromise
<1>1. ASSUME Init, NEW r \in Runs
      PROVE  Promise(r)!Init
  <2>1. Fate(NoRow) = "none" /\ FirstWish(NoRow) = None
    BY DEF Fate, FirstWish, NoRow, IsActive, ActiveStates
  <2>2. QED
    BY <1>1, <2>1 DEF Init, Promise!Init, HasTurn
<1>2. ASSUME IInv, [Next]_vars
      PROVE  [\A r \in Runs : Promise(r)!Next \/ UNCHANGED Promise(r)!promise]_vars
  BY <1>2, EveryStepIsKept DEF Kept
<1>3. Init => \A r \in Runs : Promise(r)!Init
  BY <1>1
<1>4. QED
  BY <1>2, <1>3, Inductive, PTL DEF Spec, ImplementsPromise
=============================================================================
