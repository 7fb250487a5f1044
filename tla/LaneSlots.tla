----------------------------- MODULE LaneSlots -----------------------------
(***************************************************************************)
(* What the concurrency governor promises the callers of acquire_many,     *)
(* without its table, its polling and its reaper: a lane never has more    *)
(* slots taken than it was configured with, a caller gets the slots of all *)
(* its lanes at once or none of them, and a slot comes free only after its *)
(* caller has stopped working, be it by returning or by dying.             *)
(***************************************************************************)
EXTENDS FiniteSets, Naturals

CONSTANTS Calls,    \* calls of acquire_many, one per run
          Lanes,
          Cap       \* slots of each lane

VARIABLES taken,    \* the slots given out: pairs <<call, lane>>
          working   \* the callers that were given slots and still work

slots == <<taken, working>>

TakenIn(lane) == {c \in Calls : <<c, lane>> \in taken}

Init ==
    /\ taken = {}
    /\ working = {}

Give(c, lanes) ==
    /\ lanes # {}
    /\ c \notin working
    /\ \A l \in Lanes : <<c, l>> \notin taken
    /\ \A l \in lanes : Cardinality(TakenIn(l)) < Cap[l]
    /\ taken' = taken \union ({c} \X lanes)
    /\ working' = working \union {c}

Stop(callers) ==
    /\ callers \subseteq working
    /\ working' = working \ callers
    /\ UNCHANGED taken

Free(freed) ==
    /\ freed \subseteq taken
    /\ \A slot \in freed : slot[1] \notin working
    /\ taken' = taken \ freed
    /\ UNCHANGED working

Next ==
    \/ \E c \in Calls, lanes \in SUBSET Lanes : Give(c, lanes)
    \/ \E callers \in SUBSET Calls : Stop(callers)
    \/ \E freed \in SUBSET (Calls \X Lanes) : Free(freed)

Spec == Init /\ [][Next]_slots
=============================================================================
