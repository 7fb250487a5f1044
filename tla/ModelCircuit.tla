---------------------------- MODULE ModelCircuit ----------------------------
(***************************************************************************)
(* The circuit breaker of one model (dayu/engine/model_circuit_breaker.py) *)
(* and the calls that go through it (AsyncOpenAIRunner.call).  All workers *)
(* of a workspace share the row; each method is one locked entry: a BEGIN  *)
(* IMMEDIATE transaction, or a mutex for the store in memory.              *)
(*                                                                         *)
(* opened_at, cooldown_seconds and the clock are abstracted to `elapsed`:  *)
(* _retry_after_locked is 0.  half_open_probe_in_flight is written and     *)
(* never read, and the type of the last error is only shown.               *)
(*                                                                         *)
(* Its names are not those of ConcurrencyGovernor, the other gate a call   *)
(* passes: one module can extend both.                                     *)
(***************************************************************************)
EXTENDS Naturals, FiniteSets

CONSTANTS Requests,    \* calls of the runner, by any worker
          Threshold    \* policy.failure_threshold of each call's worker

ASSUME ThresholdAssumption == Threshold \in [Requests -> Nat \ {0}]

VARIABLES entry,    \* the row of the model
          stage,    \* where each call is
          permit,   \* the permit it was given
          current   \* history: the calls let through since the circuit last
                    \* changed its state or its prober

circuit == <<entry, stage, permit, current>>

States == {"closed", "open", "half_open"}

Permit(generation, probe) == [generation |-> generation, probe |-> probe]
NoPermit == Permit(0, FALSE)

InFlight(c) == stage[c] \in {"calling", "abandoning"}

CircuitInit ==
    /\ entry   = [state |-> "closed", failures |-> 0, generation |-> 0, elapsed |-> FALSE]
    /\ stage   = [c \in Requests |-> "idle"]
    /\ permit  = [c \in Requests |-> NoPermit]
    /\ current = {}

-----------------------------------------------------------------------------
(* before_call.  A refused call changes nothing; its caller may come again.*)

LetThrough(c, generation, probe) ==
    /\ stage[c] = "idle"
    /\ stage'  = [stage EXCEPT ![c] = "calling"]
    /\ permit' = [permit EXCEPT ![c] = Permit(generation, probe)]

AdmitClosed(c) ==
    /\ entry.state = "closed"
    /\ LetThrough(c, entry.generation, FALSE)
    /\ current' = current \union {c}
    /\ UNCHANGED entry

(* The first call after the cooldown becomes the probe.                    *)
AdmitProbe(c) ==
    /\ entry.state = "open"
    /\ entry.elapsed
    /\ entry' = [entry EXCEPT !.state = "half_open", !.elapsed = FALSE]
    /\ LetThrough(c, entry.generation, TRUE)
    /\ current' = {c}

(* The generation of a probe that replaces another; one that is not told   *)
(* from its predecessor.                                                   *)
SameGeneration(generation) == generation
NextGeneration(generation) == generation + 1

(* A probe without a lease, and one with: the cooldown starts once more.   *)
Unlimited   == FALSE
LeaseIsOver == entry.elapsed

(* half_open_probe_recovered.                                              *)
TakeOver(c) ==
    LET generation == NextGeneration(entry.generation)
    IN  /\ entry.state = "half_open"
        /\ LeaseIsOver
        /\ entry' = [entry EXCEPT !.generation = generation, !.elapsed = FALSE]
        /\ LetThrough(c, generation, TRUE)
        /\ current' = {c}

(* _retry_after_locked reaches 0.                                          *)
Elapse ==
    /\ entry.state # "closed"
    /\ ~entry.elapsed
    /\ entry' = [entry EXCEPT !.elapsed = TRUE]
    /\ UNCHANGED <<stage, permit, current>>

-----------------------------------------------------------------------------
(* What the record methods write for a call.                               *)

(* Answers that are taken whenever they come.                              *)
AnyLife(c) == TRUE

(* permit.generation = entry.generation, and the kind of call is the one   *)
(* that the state waits for.                                               *)
SameLife(c)      == permit[c].generation = entry.generation
SettlesClosed(c) == SameLife(c) /\ entry.state = "closed" /\ ~permit[c].probe
SettlesProbe(c)  == SameLife(c) /\ entry.state = "half_open" /\ permit[c].probe

(* _open_locked.                                                           *)
Opened(e) == [e EXCEPT !.state = "open", !.generation = @ + 1, !.elapsed = FALSE]

(* A probe that closes the circuit and leaves the count where it was.      *)
ClosedAsItWas(e) == [e EXCEPT !.state = "closed", !.elapsed = FALSE]

(* record_success of a probe.                                              *)
Closed(e) == [e EXCEPT !.state = "closed", !.failures = 0, !.elapsed = FALSE]

(* record_success.                                                         *)
Succeeded(c) ==
    CASE SettlesClosed(c) -> [entry EXCEPT !.failures = 0]
      [] SettlesProbe(c)  -> Closed(entry)
      [] OTHER            -> entry

(* record_failure.                                                         *)
Failed(c) ==
    LET failures == entry.failures + 1
        counted  == [entry EXCEPT !.failures = failures]
        AtLeast(n, m) == IF n < m THEN m ELSE n
    IN  CASE SettlesClosed(c) -> IF failures >= Threshold[c] THEN Opened(counted) ELSE counted
          [] SettlesProbe(c)  -> Opened([entry EXCEPT !.failures = AtLeast(@, Threshold[c])])
          [] OTHER            -> entry

(* record_abandoned.                                                       *)
Abandoned(c) == IF SettlesProbe(c) THEN Opened(entry) ELSE entry

Write(e) ==
    /\ entry'   = e
    /\ current' = IF e.state = entry.state THEN current ELSE {}
    /\ UNCHANGED permit

-----------------------------------------------------------------------------
(* The call.                                                               *)

(* The first DONE, an error that is not the provider's, or one that is:    *)
(* it is recorded before the event is passed on.                           *)
Outcomes(c) == {Succeeded(c), Failed(c)}

Settle(c) ==
    /\ stage[c] = "calling"
    /\ \E e \in Outcomes(c) : Write(e)
    /\ stage' = [stage EXCEPT ![c] = "done"]

(* The record raises, before its commit or after it: `settled` is not set, *)
(* and the finally block records once more.                                *)
SettleRaises(c) ==
    /\ stage[c] = "calling"
    /\ \E e \in Outcomes(c) \union {entry} : Write(e)
    /\ stage' = [stage EXCEPT ![c] = "abandoning"]

(* The finally block of a call that was cancelled, closed by its consumer  *)
(* or left by an exception before anything was settled, or of one whose    *)
(* record raised.  It may raise as well.                                   *)
Abandon(c) ==
    /\ InFlight(c)
    /\ \E e \in {Abandoned(c), entry} : Write(e)
    /\ stage' = [stage EXCEPT ![c] = "done"]

(* Its worker dies.                                                        *)
Die(c) ==
    /\ InFlight(c)
    /\ stage' = [stage EXCEPT ![c] = "gone"]
    /\ UNCHANGED <<entry, permit, current>>

Admit(c) == AdmitClosed(c) \/ AdmitProbe(c) \/ TakeOver(c)

CircuitNext ==
    \/ \E c \in Requests : Admit(c) \/ Settle(c) \/ SettleRaises(c) \/ Abandon(c) \/ Die(c)
    \/ Elapse

CircuitSpec == CircuitInit /\ [][CircuitNext]_circuit

(* Callers that were refused come again, and the clock goes on.  Nothing   *)
(* is asked of a call that is in flight: it may never end.                 *)
CircuitFairness == WF_circuit(Elapse) /\ \A c \in Requests : WF_circuit(Admit(c))

FairCircuitSpec == CircuitSpec /\ CircuitFairness

-----------------------------------------------------------------------------
(* Every variable keeps to the values the code writes.                     *)
CircuitTypeOK ==
    /\ entry   \in [state : States, failures : Nat, generation : Nat, elapsed : BOOLEAN]
    /\ stage   \in [Requests -> {"idle", "calling", "abandoning", "done", "gone"}]
    /\ permit  \in [Requests -> [generation : Nat, probe : BOOLEAN]]
    /\ current \in SUBSET Requests

(* However probes are displaced, abandoned or lost with their worker, the  *)
(* answer of at most one call decides over a half-open circuit.            *)
OneProber == Cardinality({c \in Requests : InFlight(c) /\ SettlesProbe(c)}) <= 1

(* An answer that comes late changes nothing: whoever was let through      *)
(* before the circuit last opened, half-opened, closed or took another     *)
(* probe neither closes, opens nor counts, whatever happened in between    *)
(* and even when his record was tried twice.                               *)
LateAnswersChangeNothing ==
    [][\A c \in Requests :
         /\ InFlight(c)
         /\ stage'[c] # stage[c]
         /\ entry' # entry
         => c \in current]_circuit

(* A closed circuit has not yet seen as many failures in a row as the most *)
(* patient of its workers bears: a probe that closes it gives the provider *)
(* a fresh count, and a failure at the limit does not pass it by.          *)
ClosedIsBelowThreshold ==
    entry.state = "closed" => \E c \in Requests : entry.failures < Threshold[c]

(* Nobody who keeps asking is shut out for ever, although probes hang, are *)
(* given up or die with their worker.                                      *)
NobodyIsShutOut == \A c \in Requests : stage[c] = "idle" ~> stage[c] # "idle"

=============================================================================
