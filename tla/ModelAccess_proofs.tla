-------------------------- MODULE ModelAccess_proofs --------------------------
(***************************************************************************)
(* Proofs about the two gates a call to a model passes.                    *)
(*                                                                         *)
(* ConcurrencyGovernor, for every finite number of calls, every lane       *)
(* configuration and any number of processes: the type invariant, the      *)
(* limit of each lane, all-or-nothing, and the refinement of LaneSlots.    *)
(*                                                                         *)
(* ModelCircuit, for any set of calls and any thresholds: the type         *)
(* invariant, one prober at a time, no effect of late answers, and a       *)
(* closed circuit below the limit.  The two share no state.                *)
(***************************************************************************)
EXTENDS ConcurrencyGovernor, ModelCircuit, FiniteSetTheorems, TLAPS

(* The crux of the reaper: what was listed stays the property of the dead  *)
(* until it is deleted, because nobody is reborn under an old identity.    *)
StaleIsDead ==
    \A x \in Reapers : \A pm \in stale[x] : ~alive[owner[pm[1]]]

(* A dead process makes no calls.                                          *)
DeadAreStill == \A c \in Calls : ~alive[owner[c]] => at[c] = "dead"

(* A call that has asked has asked for something.                          *)
AskedForSome == \A c \in Calls : at[c] \in Waiting => wants[c] # {}

(* The inductive invariant.                                                *)
IInv ==
    /\ TypeOK
    /\ StaleIsDead
    /\ DeadAreStill
    /\ AskedForSome
    /\ AllOrNothing
    /\ LaneIsBounded

-----------------------------------------------------------------------------
(* Lanes and their holders.                                                *)

(* A lane has finitely many holders, whatever the table holds.             *)
LEMMA HoldersAreFinite ==
    ASSUME NEW l
    PROVE  IsFiniteSet(Holders(l)) /\ Cardinality(Holders(l)) \in Nat
<1>1. Holders(l) \in SUBSET Calls
  BY DEF Holders
<1>2. IsFiniteSet(Holders(l))
  BY <1>1, ConfigAssumption, FS_Subset
<1>3. QED
  BY <1>2, FS_CardinalityType

(* Taking permits away keeps every lane within its limit.                  *)
LEMMA FewerIsBounded ==
    ASSUME LaneIsBounded, permits' \subseteq permits
    PROVE  LaneIsBounded'
<1> SUFFICES ASSUME NEW l \in Lanes
             PROVE  Cardinality(Holders(l)') <= Cap[l]
  BY DEF LaneIsBounded
<1>1. Holders(l)' \in SUBSET Holders(l)
  BY DEF Holders
<1>2. /\ Cardinality(Holders(l)') <= Cardinality(Holders(l))
      /\ Cardinality(Holders(l)') \in Nat
  <2>1. IsFiniteSet(Holders(l))
    BY HoldersAreFinite
  <2>2. IsFiniteSet(Holders(l)') /\ Cardinality(Holders(l)') <= Cardinality(Holders(l))
    BY <1>1, <2>1, FS_Subset
  <2>3. QED
    BY <2>2, FS_CardinalityType
<1>3. Cardinality(Holders(l)) <= Cap[l] /\ Cap[l] \in Nat
  BY ConfigAssumption DEF LaneIsBounded
<1>4. Cardinality(Holders(l)) \in Nat
  BY HoldersAreFinite
<1>5. QED
  BY <1>2, <1>3, <1>4

(* The transaction of _try_acquire_many adds at most one holder to a lane, *)
(* and none to a lane that was full when it counted.                       *)
LEMMA GrantIsBounded ==
    ASSUME TypeOK, LaneIsBounded, NEW c \in Calls,
           permits' = permits \union ({c} \X Granted(c))
    PROVE  LaneIsBounded'
<1> SUFFICES ASSUME NEW l \in Lanes
             PROVE  Cardinality(Holders(l)') <= Cap[l]
  BY DEF LaneIsBounded
<1>1. IsFiniteSet(Holders(l)) /\ Cardinality(Holders(l)) \in Nat
  BY HoldersAreFinite
<1>2. CASE l \in Granted(c)
  <2>1. Cardinality(Holders(l)) < Cap[l]
    BY <1>2 DEF Granted, HasRoom
  <2>2. Holders(l)' = Holders(l) \union {c}
    BY <1>2 DEF Holders
  <2>3. Cardinality(Holders(l) \union {c}) =
            IF c \in Holders(l) THEN Cardinality(Holders(l))
                                ELSE Cardinality(Holders(l)) + 1
    BY <1>1, FS_AddElement, Zenon
  <2>4. Cardinality(Holders(l) \union {c}) <= Cardinality(Holders(l)) + 1
    BY <1>1, <2>3
  <2>5. Cap[l] \in Nat
    BY ConfigAssumption
  <2>6. QED
    BY <1>1, <2>1, <2>2, <2>3, <2>4, <2>5
<1>3. CASE l \notin Granted(c)
  <2>1. Holders(l)' = Holders(l)
    BY <1>3 DEF Holders
  <2>2. QED
    BY <2>1 DEF LaneIsBounded
<1>4. QED
  BY <1>2, <1>3

-----------------------------------------------------------------------------
(* The inductive invariant.                                                *)

(* An empty table and calls that have not begun.                           *)
LEMMA InitIInv == ASSUME Init PROVE IInv
<1> USE DEF Init
<1>1. TypeOK
  BY DEF TypeOK, Places
<1>2. StaleIsDead /\ DeadAreStill
  BY DEF StaleIsDead, DeadAreStill
<1>3. AskedForSome /\ AllOrNothing
  BY DEF AskedForSome, AllOrNothing, Waiting
<1>4. LaneIsBounded
  <2> SUFFICES ASSUME NEW l \in Lanes PROVE Cardinality(Holders(l)) <= Cap[l]
    BY DEF LaneIsBounded
  <2>1. Holders(l) = {}
    BY DEF Holders
  <2>2. Cap[l] \in Nat
    BY ConfigAssumption
  <2>3. QED
    BY <2>1, <2>2, FS_EmptySet
<1>5. QED
  BY <1>1, <1>2, <1>3, <1>4 DEF IInv

(* The parts of the invariant that the table does not enter, for a step    *)
(* that only moves one call of a living process to another place.          *)
LEMMA MovePreserves ==
    ASSUME IInv, NEW c \in Calls, NEW place \in Places,
           at[c] # "dead", place # "dead",
           GoesTo(c, place),
           UNCHANGED <<owner, alive>>
    PROVE  /\ at' \in [Calls -> Places]
           /\ DeadAreStill'
           /\ \A d \in Calls : d # c => at'[d] = at[d]
           /\ at'[c] = place
<1>1. at' = [at EXCEPT ![c] = place]
  BY DEF GoesTo
<1>2. at \in [Calls -> Places]
  BY DEF IInv, TypeOK
<1>3. at' \in [Calls -> Places] /\ at'[c] = place
  BY <1>1, <1>2
<1>4. \A d \in Calls : d # c => at'[d] = at[d]
  BY <1>1, <1>2
<1>5. DeadAreStill'
  BY <1>4 DEF DeadAreStill, IInv
<1>6. QED
  BY <1>3, <1>4, <1>5

(* The same with the table and the reapers untouched as well: what is left *)
(* to show is what the new place asks of the permits.                      *)
LEMMA QuietMovePreserves ==
    ASSUME IInv, NEW c \in Calls, NEW place \in Places,
           at[c] # "dead", place # "dead",
           GoesTo(c, place),
           place = "holding" => \A l \in wants[c] : <<c, l>> \in permits,
           place \in Waiting \union {"idle", "cancelled", "expired"} =>
               at[c] \in Waiting \union {"idle", "cancelled", "expired"},
           place \in Waiting => at[c] \in Waiting,
           UNCHANGED <<permits, wants, owner, token, stale, alive>>
    PROVE  IInv'
<1>1. /\ at' \in [Calls -> Places]
      /\ DeadAreStill'
      /\ \A d \in Calls : d # c => at'[d] = at[d]
      /\ at'[c] = place
  BY MovePreserves
<1>2. TypeOK'
  BY <1>1 DEF IInv, TypeOK
<1>3. StaleIsDead'
  BY DEF IInv, StaleIsDead
<1>4. AskedForSome'
  BY <1>1 DEF IInv, AskedForSome
<1>5. AllOrNothing'
  BY <1>1 DEF IInv, AllOrNothing
<1>6. LaneIsBounded'
  BY FewerIsBounded DEF IInv
<1>7. QED
  BY <1>1, <1>2, <1>3, <1>4, <1>5, <1>6 DEF IInv

(* _try_acquire_many, granted or denied.                                   *)
LEMMA TryPreserves ==
    ASSUME IInv, NEW c \in Calls, Try(c)
    PROVE  IInv'
<1> DEFINE place == IF Granted(c) = wants[c] THEN "holding" ELSE "denied"
<1>1. /\ at[c] = "try"
      /\ GoesTo(c, place)
      /\ permits' = permits \union ({c} \X Granted(c))
      /\ UNCHANGED <<wants, owner, token, stale, alive>>
  BY DEF Try
<1>2. /\ wants[c] \in SUBSET Lanes
      /\ wants[c] # {}
      /\ \A l \in Lanes : <<c, l>> \notin permits
  BY <1>1 DEF IInv, TypeOK, AskedForSome, AllOrNothing, Waiting
<1>3. /\ at' \in [Calls -> Places]
      /\ DeadAreStill'
      /\ \A d \in Calls : d # c => at'[d] = at[d]
      /\ at'[c] = place
  <2>1. place \in Places /\ place # "dead" /\ at[c] # "dead"
    BY <1>1 DEF Places, Waiting
  <2>2. QED
    BY <1>1, <2>1, MovePreserves
<1>4. TypeOK'
  <2>1. Granted(c) \in SUBSET Lanes
    BY <1>2 DEF Granted
  <2>2. permits' \in SUBSET (Calls \X Lanes)
    BY <1>1, <2>1 DEF IInv, TypeOK
  <2>3. QED
    BY <1>1, <1>3, <2>2 DEF IInv, TypeOK
<1>5. StaleIsDead'
  BY <1>1 DEF IInv, StaleIsDead
<1>6. AskedForSome'
  BY <1>1, <1>2, <1>3 DEF IInv, AskedForSome
<1>7. AllOrNothing'
  <2> SUFFICES ASSUME NEW d \in Calls
               PROVE  /\ at'[d] = "holding" => \A l \in wants'[d] : <<d, l>> \in permits'
                      /\ at'[d] \in Waiting \union {"idle", "cancelled", "expired"} =>
                           \A l \in Lanes : <<d, l>> \notin permits'
    BY DEF AllOrNothing
  <2>1. CASE d # c
    <3>1. at'[d] = at[d] /\ wants'[d] = wants[d]
      BY <1>1, <1>3, <2>1
    <3>2. \A l : <<d, l>> \in permits' <=> <<d, l>> \in permits
      BY <1>1, <2>1
    <3>3. QED
      BY <3>1, <3>2 DEF IInv, AllOrNothing
  <2>2. CASE d = c /\ Granted(c) = wants[c]
    BY <1>1, <1>3, <2>2 DEF Waiting
  <2>3. CASE d = c /\ Granted(c) # wants[c]
    <3>1. Granted(c) = {}
      BY <2>3 DEF Granted
    <3>2. permits' = permits
      BY <1>1, <3>1
    <3>3. QED
      BY <1>2, <1>3, <2>3, <3>2
  <2>4. QED
    BY <2>1, <2>2, <2>3
<1>8. LaneIsBounded'
  BY <1>1, GrantIsBounded DEF IInv
<1>9. QED
  BY <1>4, <1>3, <1>5, <1>6, <1>7, <1>8 DEF IInv

(* The DELETE of any reaper, in a step that otherwise only may bring a     *)
(* waiting call back to its loop.                                          *)
LEMMA ReapPreserves ==
    ASSUME IInv, NEW x \in Reapers,
           permits' = permits \ stale[x],
           stale' = [stale EXCEPT ![x] = {}],
           at' \in [Calls -> Places],
           \A c \in Calls : at'[c] = at[c] \/ (at[c] \in Waiting /\ at'[c] \in Waiting),
           UNCHANGED <<wants, owner, token, alive>>
    PROVE  IInv'
<1>1. TypeOK'
  BY DEF IInv, TypeOK
<1>2. StaleIsDead'
  BY DEF IInv, StaleIsDead, TypeOK
<1>3. DeadAreStill'
  BY DEF IInv, DeadAreStill, Waiting
<1>4. AskedForSome'
  BY DEF IInv, AskedForSome
<1>5. AllOrNothing'
  <2> SUFFICES ASSUME NEW d \in Calls
               PROVE  /\ at'[d] = "holding" => \A l \in wants'[d] : <<d, l>> \in permits'
                      /\ at'[d] \in Waiting \union {"idle", "cancelled", "expired"} =>
                           \A l \in Lanes : <<d, l>> \notin permits'
    BY DEF AllOrNothing
  <2>1. ASSUME at'[d] = "holding", NEW l \in wants'[d]
        PROVE  <<d, l>> \in permits'
    <3>1. at[d] = "holding"
      BY <2>1 DEF Waiting
    <3>2. <<d, l>> \in permits
      BY <3>1, <2>1 DEF IInv, AllOrNothing
    <3>3. alive[owner[d]]
      BY <3>1 DEF IInv, DeadAreStill
    <3>4. <<d, l>> \notin stale[x]
      BY <3>3 DEF IInv, StaleIsDead
    <3>5. QED
      BY <3>2, <3>4
  <2>2. ASSUME at'[d] \in Waiting \union {"idle", "cancelled", "expired"}, NEW l \in Lanes
        PROVE  <<d, l>> \notin permits'
    <3>1. at[d] \in Waiting \union {"idle", "cancelled", "expired"}
      BY <2>2
    <3>2. QED
      BY <3>1 DEF IInv, AllOrNothing
  <2>3. QED
    BY <2>1, <2>2
<1>6. LaneIsBounded'
  <2>1. permits' \subseteq permits
    OBVIOUS
  <2>2. QED
    BY <2>1, FewerIsBounded DEF IInv
<1>7. QED
  BY <1>1, <1>2, <1>3, <1>4, <1>5, <1>6 DEF IInv

(* The SELECT of any reaper: the dead stay dead.                           *)
LEMMA ListingPreserves ==
    ASSUME IInv, NEW x \in Reapers,
           stale' = [stale EXCEPT ![x] = DeadPermits],
           at' \in [Calls -> Places],
           \A c \in Calls : at'[c] = at[c] \/ (at[c] \in Waiting /\ at'[c] \in Waiting),
           UNCHANGED <<permits, wants, owner, token, alive>>
    PROVE  IInv'
<1>1. TypeOK'
  <2>1. DeadPermits \in SUBSET (Calls \X Lanes)
    BY DEF DeadPermits, IInv, TypeOK
  <2>2. QED
    BY <2>1 DEF IInv, TypeOK
<1>2. StaleIsDead'
  BY DEF IInv, StaleIsDead, TypeOK, DeadPermits
<1>3. DeadAreStill'
  BY DEF IInv, DeadAreStill, Waiting
<1>4. AskedForSome'
  BY DEF IInv, AskedForSome
<1>5. AllOrNothing'
  BY DEF IInv, AllOrNothing, Waiting
<1>6. LaneIsBounded'
  BY FewerIsBounded DEF IInv
<1>7. QED
  BY <1>1, <1>2, <1>3, <1>4, <1>5, <1>6 DEF IInv

(* The death of a process: its calls stop where they are and its permits   *)
(* stay behind.                                                            *)
LEMMA CrashPreserves ==
    ASSUME IInv, NEW p \in Processes, Crash(p)
    PROVE  IInv'
<1>1. /\ alive' = [alive EXCEPT ![p] = FALSE]
      /\ at' = [c \in Calls |-> IF owner[c] = p THEN "dead" ELSE at[c]]
      /\ stale' = [x \in Reapers |->
                     IF x = p \/ (x \in Calls /\ owner[x] = p) THEN {} ELSE stale[x]]
      /\ UNCHANGED <<permits, wants, owner, token>>
  BY DEF Crash
<1>2. TypeOK'
  <2>1. at' \in [Calls -> Places]
    BY <1>1 DEF IInv, TypeOK, Places, Ended
  <2>2. stale' \in [Reapers -> SUBSET (Calls \X Lanes)]
    BY <1>1 DEF IInv, TypeOK
  <2>3. alive' \in [Processes -> BOOLEAN]
    BY <1>1 DEF IInv, TypeOK
  <2>4. QED
    BY <1>1, <2>1, <2>2, <2>3 DEF IInv, TypeOK
<1>3. \A q \in Processes : ~alive[q] => ~alive'[q]
  BY <1>1 DEF IInv, TypeOK
<1>4. StaleIsDead'
  <2> SUFFICES ASSUME NEW x \in Reapers, NEW pm \in stale'[x]
               PROVE  ~alive'[owner[pm[1]]]
    BY <1>1 DEF StaleIsDead
  <2>1. pm \in stale[x]
    BY <1>1
  <2>2. ~alive[owner[pm[1]]]
    BY <2>1 DEF IInv, StaleIsDead
  <2>3. owner[pm[1]] \in Processes
    BY <2>1 DEF IInv, TypeOK
  <2>4. QED
    BY <1>3, <2>2, <2>3
<1>5. DeadAreStill'
  <2> SUFFICES ASSUME NEW c \in Calls, ~alive'[owner[c]]
               PROVE  at'[c] = "dead"
    BY <1>1 DEF DeadAreStill
  <2>1. CASE owner[c] = p
    BY <1>1, <2>1
  <2>2. CASE owner[c] # p
    <3>1. owner[c] \in Processes
      BY DEF IInv, TypeOK
    <3>2. ~alive[owner[c]]
      BY <1>1, <2>2, <3>1 DEF IInv, TypeOK
    <3>3. QED
      BY <1>1, <2>2, <3>2 DEF IInv, DeadAreStill
  <2>3. QED
    BY <2>1, <2>2
<1>6. AskedForSome'
  BY <1>1 DEF IInv, AskedForSome, Waiting
<1>7. AllOrNothing'
  BY <1>1 DEF IInv, AllOrNothing, Waiting
<1>8. LaneIsBounded'
  BY <1>1, FewerIsBounded DEF IInv
<1>9. QED
  BY <1>2, <1>4, <1>5, <1>6, <1>7, <1>8 DEF IInv

(* A call enters its loop, and holds nothing yet.                          *)
LEMMA AskPreserves ==
    ASSUME IInv, NEW c \in Calls, NEW lanes \in SUBSET Lanes, Ask(c, lanes)
    PROVE  IInv'
<1>1. /\ at[c] = "idle"
      /\ lanes # {}
      /\ wants' = [wants EXCEPT ![c] = lanes]
      /\ GoesTo(c, "look")
      /\ UNCHANGED <<permits, owner, token, stale, alive>>
  BY DEF Ask
<1>2. /\ at' \in [Calls -> Places]
      /\ DeadAreStill'
      /\ \A d \in Calls : d # c => at'[d] = at[d]
      /\ at'[c] = "look"
  <2>1. "look" \in Places
    BY DEF Places, Waiting
  <2>2. QED
    BY <1>1, <2>1, MovePreserves
<1>3. /\ wants' \in [Calls -> SUBSET Lanes]
      /\ wants'[c] = lanes
      /\ \A d \in Calls : d # c => wants'[d] = wants[d]
  BY <1>1 DEF IInv, TypeOK
<1>4. TypeOK'
  BY <1>1, <1>2, <1>3 DEF IInv, TypeOK
<1>5. StaleIsDead'
  BY <1>1 DEF IInv, StaleIsDead
<1>6. AskedForSome'
  BY <1>1, <1>2, <1>3 DEF IInv, AskedForSome
<1>7. AllOrNothing'
  BY <1>1, <1>2, <1>3 DEF IInv, AllOrNothing
<1>8. LaneIsBounded'
  BY <1>1, FewerIsBounded DEF IInv
<1>9. QED
  BY <1>2, <1>4, <1>5, <1>6, <1>7, <1>8 DEF IInv

(* A release: the run is over, so nobody counts on the permit.             *)
LEMMA ReleasePreserves ==
    ASSUME IInv, NEW c \in Calls, ReleaseOne(c)
    PROVE  IInv'
<1>1. PICK l \in wants[c] : permits' = permits \ {<<c, l>>}
  BY DEF ReleaseOne
<1>2. /\ at[c] = "releasing"
      /\ UNCHANGED <<at, wants, owner, token, stale, alive>>
  BY DEF ReleaseOne
<1>3. TypeOK'
  BY <1>1, <1>2 DEF IInv, TypeOK
<1>4. StaleIsDead' /\ DeadAreStill' /\ AskedForSome'
  BY <1>2 DEF IInv, StaleIsDead, DeadAreStill, AskedForSome
<1>5. AllOrNothing'
  BY <1>1, <1>2 DEF IInv, AllOrNothing
<1>6. LaneIsBounded'
  BY <1>1, FewerIsBounded DEF IInv
<1>7. QED
  BY <1>3, <1>4, <1>5, <1>6 DEF IInv

(* A token enters no other part of the state.                              *)
LEMMA CancelPreserves ==
    ASSUME IInv, NEW c \in Calls, Cancel(c)
    PROVE  IInv'
<1>1. /\ token' = [token EXCEPT ![c] = TRUE]
      /\ UNCHANGED <<permits, at, wants, owner, stale, alive>>
  BY DEF Cancel
<1>2. TypeOK'
  BY <1>1 DEF IInv, TypeOK
<1>3. StaleIsDead' /\ DeadAreStill' /\ AskedForSome' /\ AllOrNothing'
  BY <1>1 DEF IInv, StaleIsDead, DeadAreStill, AskedForSome, AllOrNothing
<1>4. LaneIsBounded'
  BY <1>1, FewerIsBounded DEF IInv
<1>5. QED
  BY <1>2, <1>3, <1>4 DEF IInv

(* The moves of the loop and of a finished run that write nothing but      *)
(* their own place.                                                        *)
LEMMA QuietActionsPreserve ==
    ASSUME IInv, NEW c \in Calls,
           Look(c) \/ GiveUp(c) \/ SkipReap(c) \/ StopWork(c) \/ Released(c)
    PROVE  IInv'
<1> USE DEF Places, Waiting, Ended
<1>1. CASE Look(c)
  <2> DEFINE place == IF Cancelled(c) THEN "cancelled" ELSE "try"
  <2>1. /\ at[c] = "look"
        /\ GoesTo(c, place)
        /\ UNCHANGED <<permits, wants, owner, token, stale, alive>>
    BY <1>1 DEF Look
  <2>2. place \in Places /\ place \notin {"dead", "holding"}
    OBVIOUS
  <2> HIDE DEF place
  <2>3. QED
    BY <2>1, <2>2, QuietMovePreserves
<1>2. CASE GiveUp(c)
  BY <1>2, QuietMovePreserves DEF GiveUp
<1>3. CASE SkipReap(c)
  BY <1>3, QuietMovePreserves DEF SkipReap
<1>4. CASE StopWork(c)
  BY <1>4, QuietMovePreserves DEF StopWork
<1>5. CASE Released(c)
  BY <1>5, QuietMovePreserves DEF Released
<1>6. QED
  BY <1>1, <1>2, <1>3, <1>4, <1>5

(* The four steps of the two reapers.                                      *)
LEMMA ReapersPreserve ==
    ASSUME IInv,
           \/ \E c \in Calls : ListStale(c, DeadPermits) \/ DeleteStale(c)
           \/ \E p \in Processes : HostLists(p, DeadPermits) \/ HostDeletes(p)
    PROVE  IInv'
<1> USE DEF Places, Waiting, Reapers
<1>1. at \in [Calls -> Places]
  BY DEF IInv, TypeOK
<1>2. ASSUME NEW c \in Calls, ListStale(c, DeadPermits) PROVE IInv'
  <2>1. /\ at' \in [Calls -> Places]
        /\ \A d \in Calls : at'[d] = at[d] \/ (at[d] \in Waiting /\ at'[d] \in Waiting)
    BY <1>1, <1>2 DEF ListStale, GoesTo
  <2>2. QED
    BY <1>2, <2>1, ListingPreserves DEF ListStale
<1>3. ASSUME NEW c \in Calls, DeleteStale(c) PROVE IInv'
  <2>1. /\ at' \in [Calls -> Places]
        /\ \A d \in Calls : at'[d] = at[d] \/ (at[d] \in Waiting /\ at'[d] \in Waiting)
    BY <1>1, <1>3 DEF DeleteStale, GoesTo
  <2>2. QED
    BY <1>3, <2>1, ReapPreserves DEF DeleteStale
<1>4. ASSUME NEW p \in Processes, HostLists(p, DeadPermits) PROVE IInv'
  BY <1>1, <1>4, ListingPreserves DEF HostLists
<1>5. ASSUME NEW p \in Processes, HostDeletes(p) PROVE IInv'
  BY <1>1, <1>5, ReapPreserves DEF HostDeletes
<1>6. QED
  BY <1>2, <1>3, <1>4, <1>5

(* A step that changes nothing.                                            *)
LEMMA StutterPreserves == ASSUME IInv, UNCHANGED vars PROVE IInv'
<1>1. UNCHANGED <<permits, at, wants, owner, token, stale, alive>>
  BY DEF vars
<1>2. TypeOK' /\ StaleIsDead' /\ DeadAreStill' /\ AskedForSome' /\ AllOrNothing'
  BY <1>1 DEF IInv, TypeOK, StaleIsDead, DeadAreStill, AskedForSome, AllOrNothing
<1>3. LaneIsBounded'
  BY <1>1, FewerIsBounded DEF IInv
<1>4. QED
  BY <1>2, <1>3 DEF IInv

(* The invariant is inductive.                                             *)
LEMMA NextPreserves == ASSUME IInv, [Next]_vars PROVE IInv'
<1>1. ASSUME NEW c \in Calls, NEW lanes \in SUBSET Lanes, Ask(c, lanes) PROVE IInv'
  BY <1>1, AskPreserves
<1>2. ASSUME NEW c \in Calls, Turn(c) PROVE IInv'
  BY <1>2, QuietActionsPreserve, TryPreserves, ReapersPreserve DEF Turn
<1>3. ASSUME NEW c \in Calls, SkipReap(c) \/ Work(c) PROVE IInv'
  BY <1>3, QuietActionsPreserve, ReleasePreserves DEF Work
<1>4. ASSUME NEW c \in Calls, Cancel(c) PROVE IInv'
  BY <1>4, CancelPreserves
<1>5. ASSUME NEW p \in Processes, HostLists(p, DeadPermits) \/ HostDeletes(p) \/ Crash(p)
      PROVE  IInv'
  BY <1>5, ReapersPreserve, CrashPreserves
<1>6. QED
  BY <1>1, <1>2, <1>3, <1>4, <1>5, StutterPreserves DEF Next

(* The inductive invariant holds in every reachable state.                 *)
LEMMA Invariance == Spec => []IInv
<1>1. Init => IInv
  BY InitIInv
<1>2. IInv /\ [Next]_vars => IInv'
  BY NextPreserves
<1>3. QED
  BY <1>1, <1>2, PTL DEF Spec

(* The variables keep to the values the code writes, for any configuration.*)
THEOREM TypeCorrect == Spec => []TypeOK
<1>1. IInv => TypeOK
  BY DEF IInv
<1>2. QED
  BY <1>1, Invariance, PTL

(* No lane exceeds its limit, for any number of callers that count and     *)
(* insert at the same time and any limits: the transaction counts and      *)
(* inserts at once, and every other step only takes permits away.          *)
THEOREM LaneIsBoundedHolds == Spec => []LaneIsBounded
<1>1. IInv => LaneIsBounded
  BY DEF IInv
<1>2. QED
  BY <1>1, Invariance, PTL

(* A working call keeps all its permits against any number of reapers with *)
(* old lists, and one that waits or gave up has none.                      *)
THEOREM AllOrNothingHolds == Spec => []AllOrNothing
<1>1. IInv => AllOrNothing
  BY DEF IInv
<1>2. QED
  BY <1>1, Invariance, PTL

-----------------------------------------------------------------------------
(* The refinement of LaneSlots.                                            *)

Working == {c \in Calls : at[c] = "holding"}

(* The table starts with no slot taken.                                    *)
LEMMA InitIsEmpty == ASSUME Init PROVE Promise!Init
BY DEF Init, Promise!Init

(* A call that moves neither to nor from its work leaves the working ones. *)
LEMMA SameWorkers ==
    ASSUME \A c \in Calls : at'[c] = "holding" <=> at[c] = "holding"
    PROVE  Working' = Working
BY DEF Working

(* Both modules count with the same operator.                              *)
LEMMA SameCardinality == \A S : Promise!Cardinality(S) = Cardinality(S)
BY DEF Promise!Cardinality, Cardinality

(* A granted transaction gives all the slots, a denied one none.           *)
LEMMA TryGives ==
    ASSUME IInv, NEW c \in Calls, Try(c)
    PROVE  [Promise!Next]_(Promise!slots)
<1>1. /\ at[c] = "try"
      /\ at' = [at EXCEPT ![c] = IF Granted(c) = wants[c] THEN "holding" ELSE "denied"]
      /\ permits' = permits \union ({c} \X Granted(c))
  BY DEF Try, GoesTo
<1>2. /\ wants[c] \in SUBSET Lanes
      /\ wants[c] # {}
      /\ \A l \in Lanes : <<c, l>> \notin permits
      /\ at \in [Calls -> Places]
  BY <1>1 DEF IInv, TypeOK, AskedForSome, AllOrNothing, Waiting
<1>3. CASE Granted(c) = wants[c]
  <2>1. \A l \in wants[c] : HasRoom(l)
    BY <1>2, <1>3 DEF Granted
  <2>2. \A l \in wants[c] : Promise!Cardinality(Promise!TakenIn(l)) < Cap[l]
    BY <2>1, SameCardinality DEF HasRoom, Holders, Promise!TakenIn
  <2>3. Working' = Working \union {c}
    BY <1>1, <1>2, <1>3 DEF Working
  <2>4. c \notin Working
    BY <1>1 DEF Working
  <2>5. PICK lanes \in SUBSET Lanes : lanes = wants[c]
    BY <1>2
  <2>6. Promise!Give(c, lanes)
    BY <1>1, <1>2, <1>3, <2>2, <2>3, <2>4, <2>5 DEF Promise!Give, Working
  <2>7. QED
    BY <2>6 DEF Promise!Next
<1>4. CASE Granted(c) # wants[c]
  <2>1. permits' = permits
    BY <1>1, <1>4 DEF Granted
  <2>2. Working' = Working
    BY <1>1, <1>2, <1>4, SameWorkers
  <2>3. QED
    BY <2>1, <2>2 DEF Promise!slots, Working
<1>5. QED
  BY <1>3, <1>4

(* Calls that finish or die stop working.                                  *)
LEMMA StoppingStops ==
    ASSUME IInv,
           \/ \E c \in Calls : StopWork(c)
           \/ \E p \in Processes : Crash(p)
    PROVE  [Promise!Next]_(Promise!slots)
<1>1. permits' = permits
  BY DEF StopWork, Crash
<1>2. Working' \subseteq Working
  <2>1. at \in [Calls -> Places]
    BY DEF IInv, TypeOK
  <2>2. QED
    BY <2>1 DEF StopWork, Crash, GoesTo, Working
<1>3. PICK callers : callers = Working \ Working'
  OBVIOUS
<1>4. callers \in SUBSET Calls /\ callers \subseteq Working /\ Working' = Working \ callers
  BY <1>2, <1>3 DEF Working
<1>5. Promise!Stop(callers)
  BY <1>1, <1>4 DEF Promise!Stop, Working
<1>6. QED
  BY <1>4, <1>5 DEF Promise!Next

(* Whatever takes permits away that no working call has frees slots.       *)
LEMMA TakingFrees ==
    ASSUME IInv, permits' \subseteq permits, Working' = Working,
           \A pm \in permits \ permits' : pm[1] \notin Working
    PROVE  [Promise!Next]_(Promise!slots)
<1>1. PICK freed : freed = permits \ permits'
  OBVIOUS
<1>2. freed \in SUBSET (Calls \X Lanes) /\ freed \subseteq permits /\ permits' = permits \ freed
  BY <1>1 DEF IInv, TypeOK
<1>3. Promise!Free(freed)
  BY <1>1, <1>2 DEF Promise!Free, Working
<1>4. QED
  BY <1>2, <1>3 DEF Promise!Next

(* A reaper deletes permits of the dead, and the dead do not work.         *)
LEMMA ReapingFrees ==
    ASSUME IInv, NEW x \in Reapers,
           permits' = permits \ stale[x],
           Working' = Working
    PROVE  [Promise!Next]_(Promise!slots)
<1>1. \A pm \in permits \ permits' : pm[1] \notin Working
  <2> SUFFICES ASSUME NEW pm \in stale[x] PROVE pm[1] \notin Working
    OBVIOUS
  <2>1. ~alive[owner[pm[1]]]
    BY DEF IInv, StaleIsDead
  <2>2. QED
    BY <2>1 DEF IInv, DeadAreStill, Working
<1>2. QED
  BY <1>1, TakingFrees

(* Every step of the governor is a step of the abstract lanes or none.     *)
LEMMA StepIsPromised ==
    ASSUME IInv, [Next]_vars
    PROVE  [Promise!Next]_(Promise!slots)
<1> USE DEF Waiting
<1>1. at \in [Calls -> Places]
  BY DEF IInv, TypeOK
<1>2. ASSUME permits' = permits, Working' = Working
      PROVE  [Promise!Next]_(Promise!slots)
  BY <1>2 DEF Promise!slots, Working
<1>3. ASSUME NEW c \in Calls,
             \/ \E lanes \in SUBSET Lanes : Ask(c, lanes)
             \/ Look(c) \/ GiveUp(c) \/ ListStale(c, DeadPermits) \/ SkipReap(c)
             \/ Released(c) \/ Cancel(c)
      PROVE  [Promise!Next]_(Promise!slots)
  <2>1. permits' = permits
    BY <1>3 DEF Ask, Look, GiveUp, ListStale, SkipReap, Released, Cancel
  <2>2. \A d \in Calls : at'[d] = "holding" <=> at[d] = "holding"
    BY <1>1, <1>3
       DEF Ask, Look, GiveUp, ListStale, SkipReap, Released, Cancel, GoesTo
  <2>3. QED
    BY <1>2, <2>1, <2>2, SameWorkers
<1>4. ASSUME NEW c \in Calls, DeleteStale(c)
      PROVE  [Promise!Next]_(Promise!slots)
  <2>1. permits' = permits \ stale[c]
    BY <1>4 DEF DeleteStale
  <2>2. \A d \in Calls : at'[d] = "holding" <=> at[d] = "holding"
    BY <1>1, <1>4 DEF DeleteStale, GoesTo
  <2>3. QED
    BY <2>1, <2>2, SameWorkers, ReapingFrees DEF Reapers
<1>5. ASSUME NEW c \in Calls, ReleaseOne(c)
      PROVE  [Promise!Next]_(Promise!slots)
  <2>1. PICK l \in wants[c] : permits' = permits \ {<<c, l>>}
    BY <1>5 DEF ReleaseOne
  <2>2. at[c] = "releasing" /\ at' = at
    BY <1>5 DEF ReleaseOne
  <2>3. Working' = Working /\ c \notin Working
    BY <2>2 DEF Working
  <2>4. QED
    BY <2>1, <2>3, TakingFrees
<1>6. ASSUME NEW p \in Processes, HostLists(p, DeadPermits)
      PROVE  [Promise!Next]_(Promise!slots)
  BY <1>2, <1>6, SameWorkers DEF HostLists
<1>7. ASSUME NEW p \in Processes, HostDeletes(p)
      PROVE  [Promise!Next]_(Promise!slots)
  BY <1>7, SameWorkers, ReapingFrees DEF HostDeletes, Reapers
<1>8. CASE UNCHANGED vars
  BY <1>2, <1>8, SameWorkers DEF vars
<1>9. QED
  BY <1>3, <1>4, <1>5, <1>6, <1>7, <1>8, TryGives, StoppingStops
     DEF Next, Turn, Work

(* The table, the polling callers and the reapers implement the abstract   *)
(* lanes: slots are given all at once, within the limit, and come free     *)
(* only after their caller stopped working.                                *)
THEOREM ImplementsSlotsHolds == Spec => ImplementsSlots
<1>1. Init => Promise!Init
  BY InitIsEmpty
<1>2. IInv /\ [Next]_vars => [Promise!Next]_(Promise!slots)
  BY StepIsPromised
<1>3. QED
  BY <1>1, <1>2, Invariance, PTL DEF Spec, ImplementsSlots, Promise!Spec

-----------------------------------------------------------------------------
(* The circuit breaker.                                                    *)

(* The permits that can still matter: of calls that have not ended, and of *)
(* the generation of the row.                                              *)
Counts(c) == InFlight(c) /\ permit[c].generation = entry.generation

(* Generations only grow, and permits are made out from the row.           *)
NoneAhead ==
    \A c \in Requests :
        InFlight(c) => permit[c].generation <= entry.generation

(* Opening the circuit starts a generation nobody has a permit of, and an  *)
(* open circuit gives none.                                                *)
OpenIsFresh == entry.state = "open" => \A c \in Requests : ~Counts(c)

(* In a half-open circuit the last probe let through has the only permit   *)
(* that matters.                                                           *)
ProbeIsOne ==
    entry.state = "half_open" =>
        /\ \E c \in Requests : current = {c}
        /\ \A c \in Requests : Counts(c) => c \in current /\ permit[c].probe

(* A closed circuit keeps the generation of the probe that closed it, whose*)
(* permit may still be in flight if the record of its success raised.      *)
ClosedIsCurrent ==
    entry.state = "closed" =>
        \A c \in Requests : Counts(c) /\ ~permit[c].probe => c \in current

(* The inductive invariant of the circuit.                                 *)
CircuitInv ==
    /\ CircuitTypeOK
    /\ NoneAhead
    /\ OpenIsFresh
    /\ ProbeIsOne
    /\ ClosedIsCurrent

(* What the record methods may leave in the row for a call.                *)
Rows == [state : States, failures : Nat, generation : Nat, elapsed : BOOLEAN]

Records(c) == Outcomes(c) \union {Abandoned(c), entry}

(* A failure counted below the limit, or a success: the circuit stays      *)
(* closed.                                                                 *)
StaysClosed(c, e) ==
    /\ SettlesClosed(c)
    /\ e.state = "closed"
    /\ e.generation = entry.generation
    /\ e.failures = 0 \/ e.failures < Threshold[c]

Opens(c, e) ==
    /\ SettlesClosed(c) \/ SettlesProbe(c)
    /\ e.state = "open"
    /\ e.generation = entry.generation + 1

Closes(c, e) ==
    /\ SettlesProbe(c)
    /\ e.state = "closed"
    /\ e.generation = entry.generation
    /\ e.failures = 0

(* _open_locked starts the next generation.                                *)
LEMMA OpenedIsRow ==
    ASSUME NEW row \in Rows
    PROVE  /\ Opened(row) \in Rows
           /\ Opened(row).state = "open"
           /\ Opened(row).generation = row.generation + 1
<1>1. Opened(row) = [row EXCEPT !.state = "open",
                                        !.generation = row.generation + 1,
                                        !.elapsed = FALSE]
  BY DEF Opened
<1>2. "open" \in States
  BY DEF States
<1>3. row.generation + 1 \in Nat
  BY DEF Rows
<1>4. Opened(row) = [state |-> "open", failures |-> row.failures,
                             generation |-> row.generation + 1, elapsed |-> FALSE]
  BY <1>1 DEF Rows
<1>5. QED
  BY <1>2, <1>3, <1>4 DEF Rows

(* Whatever is recorded is a row, and it is the old one unless the call is *)
(* of the kind the row waits for.                                          *)
LEMMA WhatIsRecorded ==
    ASSUME CircuitTypeOK,
           NEW c \in Requests, NEW e \in Records(c)
    PROVE  /\ e \in Rows
           /\ \/ e = entry
              \/ StaysClosed(c, e)
              \/ Opens(c, e)
              \/ Closes(c, e)
<1>1. entry \in Rows /\ Threshold[c] \in Nat \ {0}
  BY ThresholdAssumption DEF CircuitTypeOK, Rows
<1>2. "closed" \in States /\ "open" \in States
  BY DEF States
<1>a. ~(SettlesClosed(c) /\ SettlesProbe(c))
  BY DEF SettlesClosed, SettlesProbe
<1>3. CASE e = entry
  BY <1>1, <1>3
<1>4. CASE e = Succeeded(c)
  <2>1. CASE SettlesClosed(c)
    <3>1. e = [entry EXCEPT !.failures = 0]
      BY <1>a, <1>4, <2>1 DEF Succeeded
    <3>2. e \in Rows /\ StaysClosed(c, e)
      BY <1>1, <2>1, <3>1 DEF Rows, StaysClosed, SettlesClosed
    <3>3. QED
      BY <3>2
  <2>2. CASE SettlesProbe(c)
    <3>1. ~SettlesClosed(c)
      BY <1>a, <2>2
    <3>2. e = [entry EXCEPT !.state = "closed", !.failures = 0, !.elapsed = FALSE]
      BY <1>4, <2>2, <3>1 DEF Succeeded, Closed
    <3>3. e \in Rows /\ Closes(c, e)
      BY <1>1, <1>2, <2>2, <3>2 DEF Rows, Closes
    <3>4. QED
      BY <3>3
  <2>3. CASE ~SettlesClosed(c) /\ ~SettlesProbe(c)
    <3>1. e = entry
      BY <1>4, <2>3 DEF Succeeded
    <3>2. QED
      BY <1>1, <3>1
  <2>4. QED
    BY <2>1, <2>2, <2>3
<1>5. CASE e = Failed(c)
  <2>1. CASE SettlesClosed(c)
    <3>1. e = IF entry.failures + 1 >= Threshold[c]
              THEN Opened([entry EXCEPT !.failures = entry.failures + 1])
              ELSE [entry EXCEPT !.failures = entry.failures + 1]
      BY <1>a, <1>5, <2>1 DEF Failed
    <3>2. CASE entry.failures + 1 >= Threshold[c]
      <4> DEFINE counted == [entry EXCEPT !.failures = entry.failures + 1]
      <4>1. counted \in Rows /\ counted.generation = entry.generation
        BY <1>1 DEF Rows
      <4>2. e = Opened(counted)
        BY <3>1, <3>2
      <4> HIDE DEF counted
      <4>3. e \in Rows /\ e.state = "open" /\ e.generation = entry.generation + 1
        BY <4>1, <4>2, OpenedIsRow
      <4>4. QED
        BY <2>1, <4>3 DEF Opens
    <3>3. CASE ~(entry.failures + 1 >= Threshold[c])
      <4>1. e = [entry EXCEPT !.failures = entry.failures + 1]
        BY <3>1, <3>3
      <4>2. e \in Rows /\ StaysClosed(c, e)
        BY <1>1, <2>1, <3>3, <4>1 DEF Rows, StaysClosed, SettlesClosed
      <4>3. QED
        BY <4>2
    <3>4. QED
      BY <3>2, <3>3
  <2>2. CASE SettlesProbe(c)
    <3>1. ~SettlesClosed(c)
      BY <1>a, <2>2
    <3> DEFINE raised == [entry EXCEPT !.failures =
                IF entry.failures < Threshold[c] THEN Threshold[c] ELSE entry.failures]
    <3>2. raised \in Rows /\ raised.generation = entry.generation
      BY <1>1 DEF Rows
    <3>3. e = Opened(raised)
      BY <1>5, <2>2, <3>1 DEF Failed
    <3> HIDE DEF raised
    <3>4. e \in Rows /\ e.state = "open" /\ e.generation = entry.generation + 1
      BY <3>2, <3>3, OpenedIsRow
    <3>5. QED
      BY <2>2, <3>4 DEF Opens
  <2>3. CASE ~SettlesClosed(c) /\ ~SettlesProbe(c)
    <3>1. e = entry
      BY <1>5, <2>3 DEF Failed
    <3>2. QED
      BY <1>1, <3>1
  <2>4. QED
    BY <2>1, <2>2, <2>3
<1>6. CASE e = Abandoned(c)
  <2>1. CASE SettlesProbe(c)
    <3>1. e = Opened(entry)
      BY <1>6, <2>1 DEF Abandoned
    <3>2. e \in Rows /\ Opens(c, e)
      BY <1>1, <2>1, <3>1, OpenedIsRow DEF Opens
    <3>3. QED
      BY <3>2
  <2>2. CASE ~SettlesProbe(c)
    <3>1. e = entry
      BY <1>6, <2>2 DEF Abandoned
    <3>2. QED
      BY <1>1, <3>1
  <2>3. QED
    BY <2>1, <2>2
<1>7. QED
  BY <1>3, <1>4, <1>5, <1>6 DEF Records, Outcomes

(* Only a call that was let through since the circuit last changed is of   *)
(* the kind the row waits for.                                             *)
LEMMA OnlyCurrentSettles ==
    ASSUME CircuitInv,
           NEW c \in Requests, InFlight(c),
           NEW e \in Records(c), e # entry
    PROVE  c \in current
<1>1. SettlesClosed(c) \/ SettlesProbe(c)
  BY WhatIsRecorded DEF CircuitInv, StaysClosed, Opens, Closes
<1>2. Counts(c)
  BY <1>1 DEF Counts, SettlesClosed, SettlesProbe, SameLife
<1>3. CASE SettlesClosed(c)
  BY <1>2, <1>3 DEF CircuitInv, ClosedIsCurrent, SettlesClosed
<1>4. CASE SettlesProbe(c)
  BY <1>2, <1>4 DEF CircuitInv, ProbeIsOne, SettlesProbe
<1>5. QED
  BY <1>1, <1>3, <1>4

(* A call that is let through leaves the others where they are.            *)
LEMMA OthersStay ==
    ASSUME CircuitTypeOK, NEW c \in Requests, NEW generation \in Nat, NEW probe \in BOOLEAN,
           LetThrough(c, generation, probe)
    PROVE  /\ stage' \in [Requests -> {"idle", "calling", "abandoning", "done", "gone"}]
           /\ permit' \in [Requests -> [generation : Nat, probe : BOOLEAN]]
           /\ permit'[c].generation = generation /\ permit'[c].probe = probe
           /\ \A d \in Requests \ {c} :
                 /\ permit'[d] = permit[d]
                 /\ InFlight(d)' = InFlight(d)
<1> USE DEF LetThrough, CircuitTypeOK
<1>1. Permit(generation, probe) = [generation |-> generation, probe |-> probe]
  BY DEF Permit
<1>2. stage' \in [Requests -> {"idle", "calling", "abandoning", "done", "gone"}]
  OBVIOUS
<1>3. /\ permit' \in [Requests -> [generation : Nat, probe : BOOLEAN]]
      /\ permit'[c] = [generation |-> generation, probe |-> probe]
  BY <1>1
<1>4. ASSUME NEW d \in Requests \ {c}
      PROVE  permit'[d] = permit[d] /\ InFlight(d)' = InFlight(d)
  BY DEF InFlight
<1>5. QED
  BY <1>2, <1>3, <1>4

(* An admission into a closed circuit.                                     *)
LEMMA AdmitClosedKeeps ==
    ASSUME CircuitInv, NEW c \in Requests, AdmitClosed(c)
    PROVE  CircuitInv'
<1> USE DEF CircuitInv
<1>1. entry \in Rows /\ entry' = entry /\ entry.state = "closed"
      /\ current' = current \union {c}
  BY DEF AdmitClosed, CircuitTypeOK, Rows
<1>2. LetThrough(c, entry.generation, FALSE) /\ entry.generation \in Nat
  BY <1>1 DEF AdmitClosed, Rows
<1>3. CircuitTypeOK'
  BY <1>1, <1>2, OthersStay DEF CircuitTypeOK, Rows
<1>4. NoneAhead'
  <2> SUFFICES ASSUME NEW d \in Requests, InFlight(d)'
               PROVE  permit'[d].generation <= entry'.generation
    BY DEF NoneAhead
  <2>1. CASE d = c
    <3>1. permit'[c].generation = entry.generation
      BY <1>1, <1>2, OthersStay
    <3>2. QED
      BY <1>1, <1>2, <2>1, <3>1
  <2>2. CASE d # c
    BY <1>1, <1>2, <2>2, OthersStay DEF NoneAhead
  <2>3. QED
    BY <2>1, <2>2
<1>5. OpenIsFresh' /\ ProbeIsOne'
  BY <1>1 DEF OpenIsFresh, ProbeIsOne
<1>6. ClosedIsCurrent'
  <2> SUFFICES ASSUME NEW d \in Requests, Counts(d)', ~permit'[d].probe
               PROVE  d \in current'
    BY DEF ClosedIsCurrent
  <2>1. CASE d = c
    BY <1>1, <2>1
  <2>2. CASE d # c
    BY <1>1, <1>2, <2>2, OthersStay DEF ClosedIsCurrent, Counts
  <2>3. QED
    BY <2>1, <2>2
<1>7. QED
  BY <1>3, <1>4, <1>5, <1>6

(* A probe, the first of an open circuit or one that replaces another:     *)
(* nobody else has a permit of its generation.                             *)
LEMMA ProbeKeeps ==
    ASSUME CircuitInv, NEW c \in Requests,
           AdmitProbe(c) \/ TakeOver(c)
    PROVE  CircuitInv'
<1> USE DEF CircuitInv
<1>1. /\ entry' \in Rows
      /\ entry'.state = "half_open"
      /\ entry'.generation \in Nat
      /\ LetThrough(c, entry'.generation, TRUE)
      /\ current' = {c}
      /\ \A d \in Requests :
            InFlight(d) => permit[d].generation < entry'.generation
  <2>1. entry \in Rows /\ "half_open" \in States
    BY DEF CircuitTypeOK, Rows, States
  <2>2. permit \in [Requests -> [generation : Nat, probe : BOOLEAN]]
    BY DEF CircuitTypeOK
  <2>3. CASE AdmitProbe(c)
    <3>1. entry' = [entry EXCEPT !.state = "half_open", !.elapsed = FALSE]
      BY <2>3 DEF AdmitProbe
    <3>2. entry' \in Rows /\ entry'.state = "half_open" /\ entry'.generation = entry.generation
          /\ entry'.generation \in Nat
      BY <2>1, <3>1 DEF Rows
    <3>3. entry.state = "open"
      BY <2>3 DEF AdmitProbe
    <3>4. ASSUME NEW d \in Requests, InFlight(d)
          PROVE  permit[d].generation < entry'.generation
      <4>1. permit[d].generation # entry.generation /\ permit[d].generation <= entry.generation
        BY <3>3, <3>4 DEF OpenIsFresh, Counts, NoneAhead
      <4>2. permit[d].generation \in Nat
        BY <2>2
      <4>3. QED
        BY <3>2, <4>1, <4>2
    <3>5. QED
      BY <2>3, <3>2, <3>4 DEF AdmitProbe
  <2>4. CASE TakeOver(c)
    <3>1. entry' = [entry EXCEPT !.generation = entry.generation + 1, !.elapsed = FALSE]
      BY <2>4 DEF TakeOver, NextGeneration
    <3>2. entry.state = "half_open"
      BY <2>4 DEF TakeOver
    <3>3. entry' \in Rows /\ entry'.state = "half_open" /\ entry'.generation = entry.generation + 1
          /\ entry'.generation \in Nat /\ entry.generation \in Nat
      <4>1. entry.generation \in Nat /\ entry.generation + 1 \in Nat
        BY <2>1 DEF Rows
      <4>2. entry' = [state |-> "half_open", failures |-> entry.failures,
                      generation |-> entry.generation + 1, elapsed |-> FALSE]
        BY <2>1, <3>1, <3>2 DEF Rows
      <4>3. QED
        BY <2>1, <4>1, <4>2 DEF Rows
    <3>4. ASSUME NEW d \in Requests, InFlight(d)
          PROVE  permit[d].generation < entry'.generation
      BY <2>2, <3>3, <3>4 DEF NoneAhead
    <3>5. QED
      BY <2>4, <3>3, <3>4 DEF TakeOver, NextGeneration
  <2>5. QED
    BY <2>3, <2>4
<1>2. CircuitTypeOK'
  BY <1>1, OthersStay DEF CircuitTypeOK, Rows
<1>3. \A d \in Requests \ {c} : InFlight(d)' => permit'[d].generation < entry'.generation
  BY <1>1, OthersStay
<1>4. permit' \in [Requests -> [generation : Nat, probe : BOOLEAN]]
      /\ permit'[c].generation = entry'.generation /\ permit'[c].probe = TRUE
  BY <1>1, OthersStay
<1>5. NoneAhead'
  BY <1>1, <1>3, <1>4 DEF NoneAhead
<1>6. OpenIsFresh' /\ ClosedIsCurrent'
  BY <1>1 DEF OpenIsFresh, ClosedIsCurrent
<1>7. ProbeIsOne'
  <2>1. ASSUME NEW d \in Requests, Counts(d)' PROVE d = c
    BY <1>1, <1>3, <1>4, <2>1 DEF Counts
  <2>2. QED
    BY <1>1, <1>4, <2>1 DEF ProbeIsOne
<1>8. QED
  BY <1>2, <1>5, <1>6, <1>7

(* An answer, or the end of the call that was waited for.                  *)
LEMMA AnswerKeeps ==
    ASSUME CircuitInv,
           NEW c \in Requests, InFlight(c),
           NEW e \in Records(c), Write(e),
           NEW next \in {"abandoning", "done"},
           stage' = [stage EXCEPT ![c] = next]
    PROVE  CircuitInv'
<1> USE DEF CircuitInv
<1>1. /\ entry' = e /\ entry \in Rows /\ e \in Rows
      /\ \/ e = entry
         \/ StaysClosed(c, e)
         \/ Opens(c, e)
         \/ Closes(c, e)
  BY WhatIsRecorded DEF Write, CircuitTypeOK, Rows
<1>2. /\ permit' = permit
      /\ current' = IF e.state = entry.state THEN current ELSE {}
  BY DEF Write
<1>3. entry.generation \in Nat
  BY <1>1 DEF Rows
<1>4. permit \in [Requests -> [generation : Nat, probe : BOOLEAN]]
  BY DEF CircuitTypeOK
<1>5. ASSUME NEW d \in Requests, InFlight(d)'
      PROVE  InFlight(d)
  BY <1>5 DEF InFlight, CircuitTypeOK
<1>6. CircuitTypeOK'
  BY <1>1, <1>2 DEF CircuitTypeOK, Rows
<1>7. CASE e = entry
  <2>1. \A d \in Requests : Counts(d)' => Counts(d)
    BY <1>1, <1>2, <1>5, <1>7 DEF Counts
  <2>2. NoneAhead'
    BY <1>1, <1>2, <1>5, <1>7 DEF NoneAhead
  <2>3. OpenIsFresh' /\ ProbeIsOne' /\ ClosedIsCurrent'
    BY <1>1, <1>2, <1>7, <2>1 DEF OpenIsFresh, ProbeIsOne, ClosedIsCurrent
  <2>4. QED
    BY <1>6, <2>2, <2>3
<1>8. CASE StaysClosed(c, e)
  <2>1. /\ entry.state = "closed" /\ e.state = "closed"
        /\ e.generation = entry.generation
    BY <1>8 DEF StaysClosed, SettlesClosed
  <2>2. \A d \in Requests : Counts(d)' => Counts(d)
    BY <1>1, <1>2, <1>5, <2>1 DEF Counts
  <2>3. NoneAhead'
    BY <1>1, <1>2, <1>5, <2>1 DEF NoneAhead
  <2>4. OpenIsFresh' /\ ProbeIsOne'
    BY <1>1, <2>1 DEF OpenIsFresh, ProbeIsOne
  <2>5. ClosedIsCurrent'
    BY <1>1, <1>2, <2>1, <2>2 DEF ClosedIsCurrent
  <2>6. QED
    BY <1>6, <2>3, <2>4, <2>5
<1>9. CASE Opens(c, e)
  <2>1. entry'.state = "open" /\ entry'.generation = entry.generation + 1
    BY <1>1, <1>9 DEF Opens
  <2>2. ASSUME NEW d \in Requests, InFlight(d)'
        PROVE  permit'[d].generation < entry'.generation
    <3>1. permit[d].generation <= entry.generation /\ permit[d].generation \in Nat
      BY <1>4, <1>5, <2>2 DEF NoneAhead
    <3>2. QED
      BY <1>2, <1>3, <2>1, <3>1
  <2>3. NoneAhead' /\ OpenIsFresh'
    <3>1. \A d \in Requests : permit'[d].generation \in Nat
      BY <1>2, <1>4
    <3>2. entry'.generation \in Nat
      BY <1>3, <2>1
    <3>3. QED
      BY <2>2, <3>1, <3>2 DEF NoneAhead, OpenIsFresh, Counts
  <2>4. ProbeIsOne' /\ ClosedIsCurrent'
    BY <2>1 DEF ProbeIsOne, ClosedIsCurrent
  <2>5. QED
    BY <1>6, <2>3, <2>4
<1>10. CASE Closes(c, e)
  <2>1. /\ entry.state = "half_open" /\ entry'.state = "closed"
        /\ entry'.generation = entry.generation
    BY <1>1, <1>10 DEF Closes, SettlesProbe
  <2>2. \A d \in Requests : Counts(d)' => Counts(d)
    BY <1>2, <1>5, <2>1 DEF Counts
  <2>3. NoneAhead'
    BY <1>2, <1>5, <2>1 DEF NoneAhead
  <2>4. OpenIsFresh' /\ ProbeIsOne'
    BY <2>1 DEF OpenIsFresh, ProbeIsOne
  <2>5. ClosedIsCurrent'
    BY <1>2, <2>1, <2>2 DEF ClosedIsCurrent, ProbeIsOne
  <2>6. QED
    BY <1>6, <2>3, <2>4, <2>5
<1>11. QED
  BY <1>1, <1>7, <1>8, <1>9, <1>10

(* Each of the three ways a call in flight is answered or given up writes  *)
(* what one of the record methods leaves.                                  *)
LEMMA AnswersRecord ==
    ASSUME NEW c \in Requests,
           Settle(c) \/ SettleRaises(c) \/ Abandon(c)
    PROVE  /\ InFlight(c)
           /\ \E e \in Records(c) : Write(e)
           /\ \E next \in {"abandoning", "done"} : stage' = [stage EXCEPT ![c] = next]
<1>1. CASE Settle(c)
  BY <1>1 DEF Settle, InFlight, Records
<1>2. CASE SettleRaises(c)
  BY <1>2 DEF SettleRaises, InFlight, Records
<1>3. CASE Abandon(c)
  BY <1>3 DEF Abandon, Records
<1>4. QED
  BY <1>1, <1>2, <1>3

(* A worker that dies takes its calls along and leaves the row as it is;   *)
(* the clock changes nobody's stage.                                       *)
LEMMA RestKeeps ==
    ASSUME CircuitInv,
           \/ \E c \in Requests : Die(c)
           \/ Elapse
           \/ UNCHANGED circuit
    PROVE  CircuitInv'
<1> USE DEF CircuitInv
<1>1. CASE \E c \in Requests : Die(c)
  <2>1. PICK c \in Requests : Die(c)
    BY <1>1
  <2>2. UNCHANGED <<entry, permit, current>> /\ stage' = [stage EXCEPT ![c] = "gone"]
    BY <2>1 DEF Die
  <2>3. ASSUME NEW d \in Requests, InFlight(d)'
        PROVE  InFlight(d)
    BY <2>2, <2>3 DEF InFlight, CircuitTypeOK
  <2>4. \A d \in Requests : Counts(d)' => Counts(d)
    BY <2>2, <2>3 DEF Counts
  <2>5. CircuitTypeOK'
    BY <2>2 DEF CircuitTypeOK
  <2>6. NoneAhead'
    BY <2>2, <2>3 DEF NoneAhead
  <2>7. OpenIsFresh' /\ ProbeIsOne' /\ ClosedIsCurrent'
    BY <2>2, <2>4 DEF OpenIsFresh, ProbeIsOne, ClosedIsCurrent
  <2>8. QED
    BY <2>5, <2>6, <2>7
<1>2. CASE Elapse
  <2>1. /\ entry' = [entry EXCEPT !.elapsed = TRUE]
        /\ UNCHANGED <<stage, permit, current>>
    BY <1>2 DEF Elapse
  <2>2. /\ entry'.state = entry.state
        /\ entry'.generation = entry.generation
        /\ entry' \in [state : States, failures : Nat,
                       generation : Nat, elapsed : BOOLEAN]
    BY <2>1 DEF CircuitTypeOK
  <2>3. \A d \in Requests : /\ InFlight(d)' = InFlight(d)
                            /\ Counts(d)' = Counts(d)
    BY <2>1, <2>2 DEF Counts, InFlight
  <2>4. CircuitTypeOK'
    BY <2>1, <2>2 DEF CircuitTypeOK
  <2>5. NoneAhead'
    BY <2>1, <2>2, <2>3 DEF NoneAhead
  <2>6. OpenIsFresh' /\ ProbeIsOne' /\ ClosedIsCurrent'
    BY <2>1, <2>2, <2>3 DEF OpenIsFresh, ProbeIsOne, ClosedIsCurrent
  <2>7. QED
    BY <2>4, <2>5, <2>6
<1>3. CASE UNCHANGED circuit
  <2>1. UNCHANGED <<entry, stage, permit, current>>
    BY <1>3 DEF circuit
  <2>2. \A d \in Requests : /\ InFlight(d)' = InFlight(d)
                            /\ Counts(d)' = Counts(d)
    BY <2>1 DEF Counts, InFlight
  <2>3. QED
    BY <2>1, <2>2 DEF CircuitTypeOK, NoneAhead, OpenIsFresh, ProbeIsOne, ClosedIsCurrent
<1>4. QED
  BY <1>1, <1>2, <1>3

(* The invariant holds of every behaviour.                                 *)
LEMMA CircuitInvHolds == CircuitSpec => []CircuitInv
<1>1. CircuitInit => CircuitInv
  <2> SUFFICES ASSUME CircuitInit PROVE CircuitInv
    OBVIOUS
  <2>1. \A c \in Requests : ~InFlight(c)
    BY DEF CircuitInit, InFlight
  <2>2. CircuitTypeOK
    BY DEF CircuitInit, CircuitTypeOK, States, NoPermit, Permit
  <2>3. NoneAhead /\ OpenIsFresh /\ ClosedIsCurrent
    BY <2>1 DEF NoneAhead, OpenIsFresh, ClosedIsCurrent, Counts
  <2>4. ProbeIsOne
    BY DEF ProbeIsOne, CircuitInit
  <2>5. QED
    BY <2>2, <2>3, <2>4 DEF CircuitInv
<1>2. CircuitInv /\ [CircuitNext]_circuit => CircuitInv'
  <2> SUFFICES ASSUME CircuitInv, [CircuitNext]_circuit
               PROVE  CircuitInv'
    OBVIOUS
  <2>1. ASSUME NEW c \in Requests, Admit(c)
        PROVE  CircuitInv'
    BY <2>1, AdmitClosedKeeps, ProbeKeeps DEF Admit
  <2>2. ASSUME NEW c \in Requests,
               Settle(c) \/ SettleRaises(c) \/ Abandon(c)
        PROVE  CircuitInv'
    BY <2>2, AnswersRecord, AnswerKeeps
  <2>3. CASE (\E c \in Requests : Die(c)) \/ Elapse \/ UNCHANGED circuit
    BY <2>3, RestKeeps
  <2>4. QED
    BY <2>1, <2>2, <2>3 DEF CircuitNext
<1>3. QED
  BY <1>1, <1>2, PTL DEF CircuitSpec

(* Every variable of the circuit keeps to the values the code writes.      *)
THEOREM CircuitTypeCorrect == CircuitSpec => []CircuitTypeOK
<1>1. CircuitInv => CircuitTypeOK
  BY DEF CircuitInv
<1>2. QED
  BY <1>1, CircuitInvHolds, PTL

(* The answer of at most one call decides over a half-open circuit.        *)
THEOREM OneProberHolds == CircuitSpec => []OneProber
<1>1. CircuitInv => OneProber
  <2> SUFFICES ASSUME CircuitInv PROVE OneProber
    OBVIOUS
  <2> DEFINE probers == {c \in Requests : InFlight(c) /\ SettlesProbe(c)}
  <2>1. ASSUME probers = {}
        PROVE  Cardinality(probers) = 0
    BY <2>1, FS_EmptySet
  <2>2. ASSUME probers # {}
        PROVE  Cardinality(probers) = 1
    <3>1. PICK c \in Requests : InFlight(c) /\ SettlesProbe(c)
      BY <2>2
    <3>2. entry.state = "half_open"
      BY <3>1 DEF SettlesProbe
    <3>3. PICK d \in Requests : current = {d}
      BY <3>2 DEF CircuitInv, ProbeIsOne
    <3>4. \A b \in probers : b = d
      BY <3>2, <3>3 DEF CircuitInv, ProbeIsOne, Counts, SettlesProbe, SameLife
    <3>5. probers = {d}
      BY <2>2, <3>4
    <3>6. QED
      BY <3>5, FS_Singleton
  <2>3. Cardinality(probers) <= 1
    BY <2>1, <2>2
  <2>4. QED
    BY <2>3 DEF OneProber
<1>2. QED
  BY <1>1, CircuitInvHolds, PTL

(* An answer that comes late changes nothing.                              *)
THEOREM LateAnswersChangeNothingHolds == CircuitSpec => LateAnswersChangeNothing
<1>1. ASSUME CircuitInv, [CircuitNext]_circuit
      PROVE  [\A c \in Requests :
                /\ InFlight(c)
                /\ stage'[c] # stage[c]
                /\ entry' # entry
                => c \in current]_circuit
  <2> SUFFICES ASSUME CircuitNext,
                      NEW c \in Requests,
                      InFlight(c), stage'[c] # stage[c], entry' # entry
               PROVE  c \in current
    BY <1>1
  <2> CircuitInv
    BY <1>1
  <2>1. stage \in [Requests -> {"idle", "calling", "abandoning", "done", "gone"}]
    BY DEF CircuitInv, CircuitTypeOK
  <2>2. PICK d \in Requests :
           \/ Admit(d) \/ Die(d)
           \/ Settle(d) \/ SettleRaises(d) \/ Abandon(d)
    BY DEF CircuitNext, Elapse
  <2>3. CASE Admit(d)
    <3>1. stage[d] = "idle" /\ stage' = [stage EXCEPT ![d] = "calling"]
      BY <2>3 DEF Admit, AdmitClosed, AdmitProbe,
                  TakeOver, LetThrough
    <3>2. QED
      BY <2>1, <3>1 DEF InFlight
  <2>4. CASE Die(d)
    BY <2>4 DEF Die
  <2>5. CASE Settle(d) \/ SettleRaises(d) \/ Abandon(d)
    <3>1. PICK e \in Records(d) : Write(e)
      BY <2>5, AnswersRecord
    <3>2. PICK next \in {"abandoning", "done"} : stage' = [stage EXCEPT ![d] = next]
      BY <2>5, AnswersRecord
    <3>3. c = d
      BY <2>1, <3>2
    <3>4. e # entry
      BY <3>1 DEF Write
    <3>5. QED
      BY <3>3, <3>4, OnlyCurrentSettles
  <2>6. QED
    BY <2>2, <2>3, <2>4, <2>5
<1>2. QED
  BY <1>1, CircuitInvHolds, PTL DEF CircuitSpec, LateAnswersChangeNothing

(* A closed circuit has not yet seen as many failures in a row as the most *)
(* patient worker bears, once there is anybody who calls.                  *)
THEOREM ClosedIsBelowThresholdHolds ==
    ASSUME Requests # {}
    PROVE  CircuitSpec => []ClosedIsBelowThreshold
<1>1. CircuitInit => ClosedIsBelowThreshold
  BY ThresholdAssumption DEF CircuitInit, ClosedIsBelowThreshold
<1>2. CircuitInv /\ ClosedIsBelowThreshold /\ [CircuitNext]_circuit
         => ClosedIsBelowThreshold'
  <2> SUFFICES ASSUME CircuitInv, ClosedIsBelowThreshold,
                      [CircuitNext]_circuit, entry'.state = "closed"
               PROVE  \E c \in Requests : entry'.failures < Threshold[c]
    BY DEF ClosedIsBelowThreshold
  <2>1. CASE entry' = entry
    BY <2>1 DEF ClosedIsBelowThreshold
  <2>2. CASE Elapse
    BY <2>2 DEF Elapse, CircuitInv, CircuitTypeOK
  <2>3. ASSUME NEW c \in Requests, AdmitProbe(c) \/ TakeOver(c)
        PROVE  entry'.state = "half_open"
    BY <2>3 DEF AdmitProbe, TakeOver, CircuitInv, CircuitTypeOK
  <2>4. ASSUME NEW c \in Requests,
               Settle(c) \/ SettleRaises(c) \/ Abandon(c)
        PROVE  \E d \in Requests : entry'.failures < Threshold[d]
    <3>1. PICK e \in Records(c) : Write(e)
      BY <2>4, AnswersRecord
    <3>2. entry' = e
      BY <3>1 DEF Write
    <3>3. \/ e = entry
          \/ StaysClosed(c, e)
          \/ Opens(c, e)
          \/ Closes(c, e)
      BY WhatIsRecorded DEF CircuitInv
    <3>4. Threshold[c] \in Nat \ {0}
      BY ThresholdAssumption
    <3>5. CASE e = entry
      BY <2>1, <3>2, <3>5
    <3>6. CASE StaysClosed(c, e)
      BY <3>2, <3>4, <3>6 DEF StaysClosed
    <3>7. CASE Opens(c, e)
      BY <3>2, <3>7 DEF Opens
    <3>8. CASE Closes(c, e)
      BY <3>2, <3>4, <3>8 DEF Closes
    <3>9. QED
      BY <3>3, <3>5, <3>6, <3>7, <3>8
  <2>5. QED
    BY <2>1, <2>2, <2>3, <2>4
       DEF CircuitNext, Admit, AdmitClosed, Die, circuit
<1>3. QED
  BY <1>1, <1>2, CircuitInvHolds, PTL DEF CircuitSpec

=============================================================================
