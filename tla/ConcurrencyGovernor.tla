------------------------ MODULE ConcurrencyGovernor ------------------------
(***************************************************************************)
(* SQLiteConcurrencyGovernor (dayu/host/concurrency.py): the permits table *)
(* that all processes of a workspace share, the polling loop of            *)
(* acquire_many, the release of a run's permits and the reaping of permits *)
(* whose owner is dead.  acquire and try_acquire are the same loop and the *)
(* same transaction for a single lane.                                     *)
(*                                                                         *)
(* A permit is named by the call that got it and its lane: permit ids are  *)
(* fresh UUIDs and a call acquires once.  All processes read the same lane *)
(* configuration.  A step is one transaction or one turn of the loop's own *)
(* decisions.                                                              *)
(***************************************************************************)
EXTENDS FiniteSets, Naturals

CONSTANTS Calls,          \* calls of acquire_many, one per run
          Lanes,          \* the configured lanes
          Processes,      \* owner identities
          Cap,            \* _lane_config
          ReleaseFails    \* the DELETE of a release may fail

ASSUME ConfigAssumption ==
    /\ IsFiniteSet(Calls)
    /\ Cap \in [Lanes -> Nat]
    /\ Calls \intersect Processes = {}
    /\ ReleaseFails \in BOOLEAN

VARIABLES
    permits,   \* the table: pairs <<call, lane>>
    at,        \* where each call is
    wants,     \* the lanes it asked for
    owner,     \* the process that makes it
    token,     \* its cancellation token is set
    stale,     \* permits a reaper has listed and not yet deleted
    alive      \* processes still running

vars == <<permits, at, wants, owner, token, stale, alive>>

(* A reap runs inside a waiting call, or as cleanup_stale_permits of a     *)
(* starting host.                                                          *)
Reapers == Calls \union Processes

Waiting == {"look", "try", "denied", "reap"}
Ended   == {"done", "cancelled", "expired", "dead"}
Places  == {"idle", "holding", "releasing"} \union Waiting \union Ended

Holders(lane) == {c \in Calls : <<c, lane>> \in permits}

(* The count of one lane's rows against its limit.                         *)
HasRoom(lane) == Cardinality(Holders(lane)) < Cap[lane]

GoesTo(c, place) == at' = [at EXCEPT ![c] = place]

Init ==
    /\ permits = {}
    /\ at      = [c \in Calls |-> "idle"]
    /\ wants   = [c \in Calls |-> {}]
    /\ owner   \in [Calls -> Processes]
    /\ token   = [c \in Calls |-> FALSE]
    /\ stale   = [x \in Reapers |-> {}]
    /\ alive   = [p \in Processes |-> TRUE]

-----------------------------------------------------------------------------
(* acquire_many.                                                           *)

(* A run asks for its lanes, the Host's own and the business one.          *)
Ask(c, lanes) ==
    /\ at[c] = "idle"
    /\ alive[owner[c]]
    /\ lanes # {}
    /\ wants' = [wants EXCEPT ![c] = lanes]
    /\ GoesTo(c, "look")
    /\ UNCHANGED <<permits, owner, token, stale, alive>>

(* A waiter that never looks at its token.                                 *)
Deaf(c) == FALSE

(* _raise_if_cancelled, and before it, from the second turn on, the wait   *)
(* on the token in _wait_for_retry.                                        *)
Cancelled(c) == token[c]

Look(c) ==
    /\ at[c] = "look"
    /\ GoesTo(c, IF Cancelled(c) THEN "cancelled" ELSE "try")
    /\ UNCHANGED <<permits, wants, owner, token, stale, alive>>

(* The lanes _try_acquire_many inserts: all of them or none.               *)
Granted(c) == IF \A l \in wants[c] : HasRoom(l) THEN wants[c] ELSE {}

(* _try_acquire_many, one BEGIN IMMEDIATE transaction.                     *)
Try(c) ==
    /\ at[c] = "try"
    /\ permits' = permits \union ({c} \X Granted(c))
    /\ GoesTo(c, IF Granted(c) = wants[c] THEN "holding" ELSE "denied")
    /\ UNCHANGED <<wants, owner, token, stale, alive>>

(* _is_deadline_reached: time is not modelled, and any denial may be the   *)
(* last one.                                                               *)
GiveUp(c) ==
    /\ at[c] = "denied"
    /\ GoesTo(c, "expired")
    /\ UNCHANGED <<permits, wants, owner, token, stale, alive>>

(* A reaper that knows no dead owner, and one that asks about nobody.      *)
NoPermits    == {}
AllPermits   == permits

(* cleanup_stale_permits' SELECT, each owner asked whether it lives.       *)
DeadPermits == {pm \in permits : ~alive[owner[pm[1]]]}

(* _maybe_reap_stale_permits, which runs every five seconds of waiting.    *)
ListStale(c, dead) ==
    /\ at[c] = "denied"
    /\ stale' = [stale EXCEPT ![c] = dead]
    /\ GoesTo(c, "reap")
    /\ UNCHANGED <<permits, wants, owner, token, alive>>

SkipReap(c) ==
    /\ at[c] = "denied"
    /\ GoesTo(c, "look")
    /\ UNCHANGED <<permits, wants, owner, token, stale, alive>>

DeleteStale(c) ==
    /\ at[c] = "reap"
    /\ permits' = permits \ stale[c]
    /\ stale' = [stale EXCEPT ![c] = {}]
    /\ GoesTo(c, "look")
    /\ UNCHANGED <<wants, owner, token, alive>>

-----------------------------------------------------------------------------
(* release, once for each permit of the run, and cleanup_stale_permits.    *)

(* The run is over and its executor begins to release.                     *)
StopWork(c) ==
    /\ at[c] = "holding"
    /\ GoesTo(c, "releasing")
    /\ UNCHANGED <<permits, wants, owner, token, stale, alive>>

ReleaseOne(c) ==
    /\ at[c] = "releasing"
    /\ \E l \in wants[c] :
         /\ <<c, l>> \in permits
         /\ permits' = permits \ {<<c, l>>}
    /\ UNCHANGED <<at, wants, owner, token, stale, alive>>

(* A release that fails is logged, and its permit outlives the run.        *)
Released(c) ==
    /\ at[c] = "releasing"
    /\ ReleaseFails \/ \A l \in wants[c] : <<c, l>> \notin permits
    /\ GoesTo(c, "done")
    /\ UNCHANGED <<permits, wants, owner, token, stale, alive>>

HostLists(p, dead) ==
    /\ alive[p]
    /\ stale[p] = {}
    /\ dead # {}
    /\ stale' = [stale EXCEPT ![p] = dead]
    /\ UNCHANGED <<permits, at, wants, owner, token, alive>>

HostDeletes(p) ==
    /\ stale[p] # {}
    /\ permits' = permits \ stale[p]
    /\ stale' = [stale EXCEPT ![p] = {}]
    /\ UNCHANGED <<at, wants, owner, token, alive>>

-----------------------------------------------------------------------------
(* The world around the governor.                                          *)

Cancel(c) ==
    /\ at[c] \in Waiting
    /\ ~token[c]
    /\ token' = [token EXCEPT ![c] = TRUE]
    /\ UNCHANGED <<permits, at, wants, owner, stale, alive>>

Crash(p) ==
    /\ alive[p]
    /\ alive' = [alive EXCEPT ![p] = FALSE]
    /\ at' = [c \in Calls |-> IF owner[c] = p THEN "dead" ELSE at[c]]
    /\ stale' = [x \in Reapers |->
                   IF x = p \/ (x \in Calls /\ owner[x] = p) THEN {} ELSE stale[x]]
    /\ UNCHANGED <<permits, wants, owner, token>>

-----------------------------------------------------------------------------

Turn(c) ==
    \/ Look(c) \/ Try(c) \/ GiveUp(c) \/ ListStale(c, DeadPermits)
    \/ DeleteStale(c)

Work(c) == StopWork(c) \/ ReleaseOne(c) \/ Released(c)

Next ==
    \/ \E c \in Calls :
         \/ \E lanes \in SUBSET Lanes : Ask(c, lanes)
         \/ Turn(c) \/ SkipReap(c) \/ Work(c)
         \/ Cancel(c)
    \/ \E p \in Processes : HostLists(p, DeadPermits) \/ HostDeletes(p) \/ Crash(p)

Spec == Init /\ [][Next]_vars

(* The loop of a living caller turns, and does not skip its reap for ever: *)
(* the throttle lets one through every five seconds.                       *)
Fairness == \A c \in Calls : WF_vars(Turn(c)) /\ SF_vars(ListStale(c, DeadPermits))

FairSpec == Spec /\ Fairness

-----------------------------------------------------------------------------
(* Every variable keeps to the values the code writes.                     *)
TypeOK ==
    /\ permits \in SUBSET (Calls \X Lanes)
    /\ at      \in [Calls -> Places]
    /\ wants   \in [Calls -> SUBSET Lanes]
    /\ owner   \in [Calls -> Processes]
    /\ token   \in [Calls -> BOOLEAN]
    /\ stale   \in [Reapers -> SUBSET (Calls \X Lanes)]
    /\ alive   \in [Processes -> BOOLEAN]

(* No lane is given out beyond its configured limit, whoever counts and    *)
(* inserts at the same time, in however many processes.                    *)
LaneIsBounded == \A l \in Lanes : Cardinality(Holders(l)) <= Cap[l]

(* A call that returned has a permit for every lane it asked for and keeps *)
(* them while it works, although reapers delete by ids they listed in an   *)
(* earlier transaction; a call that waits, was cancelled or ran out of     *)
(* time holds nothing another one could be waiting for.                    *)
AllOrNothing ==
    \A c \in Calls :
        /\ at[c] = "holding" => \A l \in wants[c] : <<c, l>> \in permits
        /\ at[c] \in Waiting \union {"idle", "cancelled", "expired"} =>
             \A l \in Lanes : <<c, l>> \notin permits

(* The slots of the lanes as the table shows them.                         *)
Promise == INSTANCE LaneSlots WITH
    taken <- permits, working <- {c \in Calls : at[c] = "holding"}

(* The table, its polling callers and its reapers give out slots as the    *)
(* abstract lanes do.                                                      *)
ImplementsSlots == Promise!Spec

(* Every run ends, its stream being bounded by the engine's own limits, and *)
(* none of its releases fails.                                             *)
RunsEnd == /\ \A c \in Calls : WF_vars(Work(c))
           /\ \A c \in Calls, l \in Lanes : [](at[c] = "done" => <<c, l>> \notin permits)

(* Where every run ends, a call does not wait for ever: not for lanes two  *)
(* callers hold half of each, nor for a permit of the dead.                *)
EveryWaitEnds == RunsEnd => \A c \in Calls : (at[c] \in Waiting ~> at[c] \notin Waiting)

(* A cancelled call stops waiting although no lane ever comes free.        *)
CancelledWaitEnds == \A c \in Calls : at[c] \in Waiting /\ token[c] ~> at[c] \notin Waiting
=============================================================================
