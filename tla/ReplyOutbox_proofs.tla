------------------------- MODULE ReplyOutbox_proofs -------------------------
(***************************************************************************)
(* Proofs about ReplyOutbox, for every number of callers, replies, keys    *)
(* and leases: the type invariant, the lease contract, the durability of   *)
(* acknowledgements, fencing, and the refinement of DeliveryLedger.        *)
(***************************************************************************)
EXTENDS ReplyOutbox, TLAPS

(* A row and a lease for which mark_delivered may have returned. *)
DeliveredWith(d, l) ==
    \/ rows[d].state = "absent"
    \/ rows[d].state = "delivered" /\ rows[d].lease = l

RowIsSound(d) ==
    /\ (rows[d].lease # NoLease) <=> (rows[d].state \in LeaseHeldIn)
    /\ rows[d].lease # NoLease => rows[d].lease \in usedLeases
    /\ Present(rows[d]) => d \in usedIds
    /\ ~Present(rows[d]) => rows[d] = AbsentRow

(* What a store method's locals promise to its next step.  The last conjunct
   is the crux: between the UPDATE of mark_delivered that hit and the read
   back that answers the caller, nobody revives the row. *)
CallIsSound(f) ==
    /\ f.step \in {"submit_read", "claim_read", "ack_update", "ack_read",
                   "nack_update", "nack_read"} => f.id \in usedIds
    /\ f.step \in {"ack_update", "ack_read", "nack_update", "nack_read"}
         => f.lease \in usedLeases
    /\ f.step \in {"submit_insert", "submit_lookup"} => f.key \in Keys /\ f.payload \in Payloads
    /\ f.step = "ack_read" /\ f.hit => DeliveredWith(f.id, f.lease)

(* The inductive invariant. *)
IInv ==
    /\ TypeOK
    /\ \A d \in Ids : RowIsSound(d)
    /\ \A c \in Callers : CallIsSound(call[c])
    /\ \A a \in acked : a[1] \in usedIds /\ DeliveredWith(a[1], a[2])

-----------------------------------------------------------------------------
(* The SQL statements on one row *)

(* claim_reply's SET clause yields a row in progress under the new lease and
   leaves the reply itself alone. *)
LEMMA ClaimedRowFacts ==
    ASSUME NEW r \in Row, NEW l \in Leases
    PROVE  /\ ClaimedRow(r, l) \in Row
           /\ ClaimedRow(r, l).state = "delivery_in_progress"
           /\ ClaimedRow(r, l).lease = l
           /\ ClaimedRow(r, l).key = r.key /\ ClaimedRow(r, l).payload = r.payload
<1>1. r.attempts + 1 \in Nat
  BY DEF Row
<1>2. ClaimedRow(r, l) = [r EXCEPT !.state = "delivery_in_progress",
                                   !.attempts = r.attempts + 1, !.error = "none",
                                   !.old = FALSE, !.lease = l]
  BY DEF ClaimedRow, Row
<1>3. ClaimedRow(r, l) \in Row
  BY <1>1, <1>2 DEF Row, OutboxState, OutboxError
<1>4. QED
  BY <1>2, <1>3 DEF Row

(* mark_delivered's SET clause changes the state and keeps the lease. *)
LEMMA DeliveredRowFacts ==
    ASSUME NEW r \in Row
    PROVE  /\ DeliveredRow(r) \in Row
           /\ DeliveredRow(r).state = "delivered"
           /\ DeliveredRow(r).lease = r.lease
           /\ DeliveredRow(r).key = r.key /\ DeliveredRow(r).payload = r.payload
  BY DEF DeliveredRow, Row, OutboxState, OutboxError

(* mark_failed's SET clause clears the lease exactly when the row may be
   claimed again. *)
LEMMA FailedRowFacts ==
    ASSUME NEW r \in Row, NEW b \in BOOLEAN
    PROVE  /\ FailedRow(r, b) \in Row
           /\ FailedRow(r, b).state = IF b THEN "failed_retryable" ELSE "failed_terminal"
           /\ FailedRow(r, b).lease = IF b THEN NoLease ELSE r.lease
           /\ FailedRow(r, b).key = r.key /\ FailedRow(r, b).payload = r.payload
  BY DEF FailedRow, Row, OutboxState, OutboxError

(* The stale cleanup's SET clause revokes the lease. *)
LEMMA SweptRowFacts ==
    ASSUME NEW r \in Row
    PROVE  /\ SweptRow(r) \in Row
           /\ SweptRow(r).state = "failed_retryable"
           /\ SweptRow(r).lease = NoLease
           /\ SweptRow(r).key = r.key /\ SweptRow(r).payload = r.payload
  BY DEF SweptRow, Row, OutboxState, OutboxError

(* A row just inserted: pending, without a lease. *)
LEMMA NewRowFacts ==
    ASSUME NEW k \in Keys, NEW p \in Payloads
    PROVE  /\ NewRow(k, p) \in Row /\ AbsentRow \in Row
           /\ NewRow(k, p).state = "pending_delivery" /\ NewRow(k, p).lease = NoLease
           /\ NewRow(k, p).key = k /\ NewRow(k, p).payload = p
  BY DEF NewRow, AbsentRow, Row, OutboxState, OutboxError

(* The absence of a row. *)
LEMMA AbsentRowFacts ==
    /\ AbsentRow \in Row /\ AbsentRow.state = "absent" /\ AbsentRow.lease = NoLease
    /\ AbsentRow.key = None /\ AbsentRow.payload = None
  BY DEF AbsentRow, Row, OutboxState, OutboxError

(* A caller between two calls promises nothing. *)
LEMMA IdleFacts == Idle \in Call /\ Idle.step = "idle" /\ CallIsSound(Idle)
  BY DEF Idle, Call, Steps, CallIsSound

-----------------------------------------------------------------------------
(* How a step preserves the invariant *)

(* A step may rewrite rows soundly as long as no acknowledged or deleted row
   comes back: then rows, earlier acknowledgements and the calls in flight
   keep their promises. *)
LEMMA RowsStep ==
    ASSUME IInv,
           rows' \in [Ids -> Row], usedIds \subseteq usedIds', usedLeases \subseteq usedLeases',
           \A d \in Ids : \/ rows'[d] = rows[d]
                          \/ /\ RowIsSound(d)'
                             /\ d \in usedIds /\ rows[d].state \in {"absent", "delivered"}
                                  => rows'[d].state = "absent"
    PROVE  /\ \A d \in Ids : RowIsSound(d)'
           /\ \A d \in usedIds, l \in Leases : DeliveredWith(d, l) => DeliveredWith(d, l)'
           /\ \A f \in Call : CallIsSound(f) => CallIsSound(f)'
<1>1. ASSUME NEW d \in Ids PROVE RowIsSound(d)'
  <2>1. CASE rows'[d] = rows[d]
    BY <2>1 DEF IInv, RowIsSound
  <2>2. CASE rows'[d] # rows[d]
    BY <2>2
  <2>3. QED
    BY <2>1, <2>2
<1>2. ASSUME NEW d \in usedIds, NEW l \in Leases, DeliveredWith(d, l)
      PROVE  DeliveredWith(d, l)'
  <2>1. d \in Ids
    BY DEF IInv, TypeOK
  <2>2. QED
    BY <1>2, <2>1 DEF DeliveredWith
<1>3. ASSUME NEW f \in Call, CallIsSound(f) PROVE CallIsSound(f)'
  <2>1. f.step = "ack_read" => f.lease \in Leases
    BY <1>3 DEF CallIsSound, IInv, TypeOK
  <2>2. QED
    BY <1>2, <1>3, <2>1 DEF CallIsSound
<1>4. QED
  BY <1>1, <1>2, <1>3

(* A step of one caller may move it to any frame that is sound afterwards. *)
LEMMA CallStep ==
    ASSUME IInv, NEW c \in Callers, NEW f \in Call,
           call' = [call EXCEPT ![c] = f], CallIsSound(f)',
           \A g \in Call : CallIsSound(g) => CallIsSound(g)'
    PROVE  /\ call' \in [Callers -> Call]
           /\ \A e \in Callers : CallIsSound(call[e])'
<1>1. call' \in [Callers -> Call]
  BY DEF IInv, TypeOK
<1>2. ASSUME NEW e \in Callers PROVE CallIsSound(call[e])'
  <2>1. CASE e = c
    <3>1. call'[e] = f
      BY <2>1 DEF IInv, TypeOK
    <3>2. QED
      BY <3>1 DEF CallIsSound, DeliveredWith
  <2>2. CASE e # c
    <3>1. call'[e] = call[e] /\ call[e] \in Call
      BY <2>2 DEF IInv, TypeOK
    <3>2. CallIsSound(call[e])
      BY DEF IInv
    <3>3. PICK g \in Call : g = call[e]
      BY <3>1
    <3>4. CallIsSound(g)'
      BY <3>2, <3>3
    <3>5. QED
      BY <3>1, <3>3, <3>4 DEF CallIsSound, DeliveredWith
  <2>3. QED
    BY <2>1, <2>2
<1>3. QED
  BY <1>1, <1>2

(* The two together, for a step that acknowledges nothing. *)
LEMMA StepPreserves ==
    ASSUME IInv, NEW c \in Callers, NEW f \in Call,
           rows' \in [Ids -> Row],
           usedIds \subseteq usedIds', usedIds' \subseteq Ids,
           usedLeases \subseteq usedLeases', usedLeases' \subseteq Leases,
           accepting' \in BOOLEAN, acked' = acked,
           outcome' \in [Callers -> Outcomes],
           \A d \in Ids : \/ rows'[d] = rows[d]
                          \/ /\ RowIsSound(d)'
                             /\ d \in usedIds /\ rows[d].state \in {"absent", "delivered"}
                                  => rows'[d].state = "absent",
           \/ call' = [call EXCEPT ![c] = f] /\ CallIsSound(f)'
           \/ call' = call
    PROVE  IInv'
<1>1. /\ \A d \in Ids : RowIsSound(d)'
      /\ \A d \in usedIds, l \in Leases : DeliveredWith(d, l) => DeliveredWith(d, l)'
      /\ \A g \in Call : CallIsSound(g) => CallIsSound(g)'
  BY RowsStep
<1>2. call' \in [Callers -> Call] /\ \A e \in Callers : CallIsSound(call[e])'
  <2>1. CASE call' = call
    <3>1. ASSUME NEW e \in Callers PROVE CallIsSound(call[e])'
      <4>1. PICK g \in Call : g = call[e]
        BY DEF IInv, TypeOK
      <4>2. CallIsSound(g)'
        BY <1>1, <4>1 DEF IInv
      <4>3. QED
        BY <2>1, <4>1, <4>2 DEF CallIsSound, DeliveredWith
    <3>2. QED
      BY <2>1, <3>1 DEF IInv, TypeOK
  <2>2. CASE call' = [call EXCEPT ![c] = f] /\ CallIsSound(f)'
    BY <1>1, <2>2, CallStep
  <2>3. QED
    BY <2>1, <2>2
<1>3. \A a \in acked' : a[1] \in usedIds' /\ DeliveredWith(a[1], a[2])'
  <2>1. ASSUME NEW a \in acked PROVE a[1] \in usedIds /\ DeliveredWith(a[1], a[2])'
    <3>1. a[1] \in usedIds /\ a[2] \in Leases /\ DeliveredWith(a[1], a[2])
      BY DEF IInv, TypeOK
    <3>2. QED
      BY <1>1, <3>1
  <2>2. QED
    BY <2>1
<1>4. TypeOK'
  BY <1>2 DEF IInv, TypeOK
<1>5. (\A a \in acked : a[1] \in usedIds /\ DeliveredWith(a[1], a[2]))'
  BY <1>3 DEF DeliveredWith
<1>6. QED
  BY <1>1, <1>2, <1>4, <1>5 DEF IInv

-----------------------------------------------------------------------------
(* The operations *)

(* Steps that only read the table leave every promise in place, whichever
   sound frame they move their caller to. *)
LEMMA ReadStep ==
    ASSUME IInv, NEW c \in Callers, NEW f \in Call, CallIsSound(f),
           UNCHANGED <<rows, usedIds, usedLeases, accepting, acked>>,
           call' = [call EXCEPT ![c] = f], outcome' \in [Callers -> Outcomes]
    PROVE  IInv'
<1>1. CallIsSound(f)'
  BY DEF CallIsSound, DeliveredWith
<1>2. /\ rows' \in [Ids -> Row] /\ usedIds' \subseteq Ids /\ usedLeases' \subseteq Leases
      /\ accepting' \in BOOLEAN
  BY DEF IInv, TypeOK
<1>3. QED
  BY <1>1, <1>2, StepPreserves

(* submit_reply *)
LEMMA SubmitPreserves ==
    ASSUME IInv, NEW c \in Callers,
           \/ \E k \in Keys, p \in Payloads : SubmitCheck(c, k, p)
           \/ SubmitInsert(c) \/ SubmitRead(c) \/ SubmitLookup(c)
    PROVE  IInv'
<1>0. /\ call[c] \in Call /\ outcome \in [Callers -> Outcomes] /\ call \in [Callers -> Call]
      /\ CallIsSound(call[c]) /\ rows \in [Ids -> Row]
  BY DEF IInv, TypeOK
<1>1. ASSUME NEW k \in Keys, NEW p \in Payloads, SubmitCheck(c, k, p) PROVE IInv'
  <2> DEFINE f == [Idle EXCEPT !.step = "submit_insert", !.key = k, !.payload = p]
  <2>1. f \in Call /\ CallIsSound(f)
    BY DEF Idle, Call, Steps, CallIsSound
  <2>2. \/ call' = [call EXCEPT ![c] = f]
        \/ call' = [call EXCEPT ![c] = Idle]
    BY <1>1 DEF SubmitCheck, Enter, Return
  <2>3. outcome' \in [Callers -> Outcomes]
    BY <1>0, <1>1 DEF SubmitCheck, Enter, Return, Outcomes
  <2>4. UNCHANGED <<rows, usedIds, usedLeases, accepting, acked>>
    BY <1>1 DEF SubmitCheck
  <2> HIDE DEF f
  <2>5. QED
    BY <2>1, <2>2, <2>3, <2>4, ReadStep, IdleFacts
<1>2. CASE SubmitInsert(c)
  <2>0. call[c].step = "submit_insert" /\ call[c].key \in Keys /\ call[c].payload \in Payloads
    BY <1>0, <1>2 DEF SubmitInsert, CallIsSound
  <2>1. ASSUME NEW d \in Ids \ usedIds,
               usedIds' = usedIds \cup {d},
               rows' = [rows EXCEPT ![d] = NewRow(call[c].key, call[c].payload)],
               Continue(c, [call[c] EXCEPT !.step = "submit_read", !.id = d])
        PROVE  IInv'
    <3> DEFINE n == NewRow(call[c].key, call[c].payload)
    <3>0. PICK f \in Call : f = [call[c] EXCEPT !.step = "submit_read", !.id = d]
      BY <1>0 DEF Call, Steps
    <3>1. CallIsSound(f)'
      <4>1. f.step = "submit_read" /\ f.id = d
        BY <1>0, <3>0 DEF Call
      <4>2. QED
        BY <2>1, <4>1 DEF CallIsSound
    <3>2. n \in Row /\ n.state = "pending_delivery" /\ n.lease = NoLease
      BY <2>0, NewRowFacts
    <3>3. rows' \in [Ids -> Row] /\ \A e \in Ids : rows'[e] = IF e = d THEN n ELSE rows[e]
      BY <1>0, <2>1, <3>2
    <3>4. \A e \in Ids : \/ rows'[e] = rows[e]
                         \/ /\ RowIsSound(e)'
                            /\ e \in usedIds /\ rows[e].state \in {"absent", "delivered"}
                                 => rows'[e].state = "absent"
      BY <2>1, <3>2, <3>3 DEF RowIsSound, Present, LeaseHeldIn
    <3>5. /\ usedIds \subseteq usedIds' /\ usedIds' \subseteq Ids
          /\ usedLeases \subseteq usedLeases' /\ usedLeases' \subseteq Leases
          /\ accepting' \in BOOLEAN /\ acked' = acked
          /\ outcome' \in [Callers -> Outcomes]
          /\ \/ call' = [call EXCEPT ![c] = f] /\ CallIsSound(f)'
             \/ call' = call
      BY <1>2, <2>1, <3>0, <3>1 DEF SubmitInsert, Continue, IInv, TypeOK
    <3> HIDE DEF n
    <3>6. QED
      BY <3>3, <3>4, <3>5, StepPreserves
  <2>2. ASSUME UNCHANGED <<rows, usedIds>>,
               Continue(c, [call[c] EXCEPT !.step = "submit_lookup"])
        PROVE  IInv'
    <3> DEFINE f == [call[c] EXCEPT !.step = "submit_lookup"]
    <3>0. /\ f \in Call /\ f.step = "submit_lookup"
          /\ f.key = call[c].key /\ f.payload = call[c].payload
      BY <1>0 DEF Call, Steps
    <3>1. CallIsSound(f)
      BY <2>0, <3>0 DEF CallIsSound
    <3>2. /\ UNCHANGED <<rows, usedIds, usedLeases, accepting, acked>>
          /\ outcome' = outcome /\ call' = [call EXCEPT ![c] = f]
      BY <1>2, <2>2 DEF SubmitInsert, Continue
    <3> HIDE DEF f
    <3>3. QED
      BY <1>0, <3>0, <3>1, <3>2, ReadStep
  <2>3. QED
    BY <1>2, <2>1, <2>2 DEF SubmitInsert
<1>3. CASE SubmitRead(c) \/ SubmitLookup(c)
  <2>1. UNCHANGED <<rows, usedIds, usedLeases, accepting, acked>>
    BY <1>3 DEF SubmitRead, SubmitLookup
  <2>2. call' = [call EXCEPT ![c] = Idle] /\ outcome' \in [Callers -> Outcomes]
    BY <1>0, <1>3 DEF SubmitRead, SubmitLookup, Return, Outcomes
  <2>3. QED
    BY <2>1, <2>2, ReadStep, IdleFacts
<1>4. QED
  BY <1>1, <1>2, <1>3

(* A step that rewrites one row and moves its caller. *)
LEMMA WriteStep ==
    ASSUME IInv, NEW c \in Callers, NEW f \in Call, NEW d \in usedIds, NEW r \in Row,
           rows' = [rows EXCEPT ![d] = r], Present(r),
           rows[d].state \notin {"absent", "delivered"},
           (r.lease # NoLease) <=> (r.state \in LeaseHeldIn),
           r.lease # NoLease => r.lease \in usedLeases',
           usedIds' = usedIds, accepting' = accepting, acked' = acked,
           usedLeases \subseteq usedLeases', usedLeases' \subseteq Leases,
           outcome' \in [Callers -> Outcomes],
           call' = [call EXCEPT ![c] = f], CallIsSound(f)'
    PROVE  IInv'
<1>1. /\ d \in Ids /\ rows' \in [Ids -> Row]
      /\ \A e \in Ids : rows'[e] = IF e = d THEN r ELSE rows[e]
  BY DEF IInv, TypeOK
<1>2. RowIsSound(d)'
  BY <1>1 DEF RowIsSound
<1>3. \A e \in Ids : \/ rows'[e] = rows[e]
                     \/ /\ RowIsSound(e)'
                        /\ e \in usedIds /\ rows[e].state \in {"absent", "delivered"}
                             => rows'[e].state = "absent"
  BY <1>1, <1>2
<1>4. usedIds \subseteq usedIds' /\ usedIds' \subseteq Ids /\ accepting' \in BOOLEAN
  BY DEF IInv, TypeOK
<1>5. QED
  BY <1>1, <1>3, <1>4, StepPreserves

(* claim_reply *)
LEMMA ClaimPreserves ==
    ASSUME IInv, NEW c \in Callers,
           (\E d \in usedIds : ClaimUpdate(c, d)) \/ ClaimRead(c)
    PROVE  IInv'
<1>0. /\ call \in [Callers -> Call] /\ outcome \in [Callers -> Outcomes]
      /\ rows \in [Ids -> Row] /\ usedIds \subseteq Ids /\ usedLeases \subseteq Leases
  BY DEF IInv, TypeOK
<1>1. ASSUME NEW d \in usedIds, CanClaim(rows[d]), NEW l \in FreshLeases,
             usedLeases' = usedLeases \cup {l},
             rows' = [rows EXCEPT ![d] = ClaimedRow(rows[d], l)],
             Enter(c, [Idle EXCEPT !.step = "claim_read", !.id = d, !.lease = l, !.hit = TRUE]),
             UNCHANGED <<usedIds, accepting, acked>>
      PROVE  IInv'
  <2>1. PICK f \in Call : f = [Idle EXCEPT !.step = "claim_read", !.id = d,
                                           !.lease = l, !.hit = TRUE]
    BY <1>0 DEF Idle, Call, Steps, FreshLeases
  <2>2. CallIsSound(f)'
    <3>1. f.step = "claim_read" /\ f.id = d
      BY <2>1 DEF Idle
    <3>2. QED
      BY <1>1, <3>1 DEF CallIsSound
  <2>3. PICK r \in Row : r = ClaimedRow(rows[d], l)
    BY <1>0, ClaimedRowFacts DEF FreshLeases
  <2>4. r.state = "delivery_in_progress" /\ r.lease = l
    BY <1>0, <2>3, ClaimedRowFacts DEF FreshLeases
  <2>5. rows[d].state \notin {"absent", "delivered"}
    BY <1>1 DEF CanClaim, Claimable
  <2>6. /\ Present(r) /\ r.state \in LeaseHeldIn /\ r.lease # NoLease /\ r.lease \in usedLeases'
    BY <1>1, <2>4, NoLeaseIsNoLease DEF Present, LeaseHeldIn, FreshLeases
  <2>7. /\ usedLeases \subseteq usedLeases' /\ usedLeases' \subseteq Leases
        /\ outcome' \in [Callers -> Outcomes] /\ call' = [call EXCEPT ![c] = f]
        /\ usedIds' = usedIds /\ accepting' = accepting /\ acked' = acked
        /\ rows' = [rows EXCEPT ![d] = r]
    BY <1>0, <1>1, <2>1, <2>3 DEF Enter, FreshLeases, Outcomes
  <2>8. QED
    BY <2>2, <2>5, <2>6, <2>7, WriteStep
<1>2. ASSUME NEW d \in usedIds, UNCHANGED <<rows, usedLeases>>,
             Enter(c, [Idle EXCEPT !.step = "claim_read", !.id = d]),
             UNCHANGED <<usedIds, accepting, acked>>
      PROVE  IInv'
  <2>1. PICK f \in Call : f = [Idle EXCEPT !.step = "claim_read", !.id = d]
    BY <1>0 DEF Idle, Call, Steps
  <2>2. CallIsSound(f)
    <3>1. f.step = "claim_read" /\ f.id = d
      BY <2>1 DEF Idle
    <3>2. QED
      BY <3>1 DEF CallIsSound
  <2>3. outcome' \in [Callers -> Outcomes] /\ call' = [call EXCEPT ![c] = f]
    BY <1>0, <1>2, <2>1 DEF Enter, Outcomes
  <2>4. QED
    BY <1>2, <2>2, <2>3, ReadStep
<1>3. CASE ClaimRead(c)
  <2>1. UNCHANGED <<rows, usedIds, usedLeases, accepting, acked>>
    BY <1>3 DEF ClaimRead
  <2>2. call' = [call EXCEPT ![c] = Idle] /\ outcome' \in [Callers -> Outcomes]
    BY <1>0, <1>3 DEF ClaimRead, Return, Outcomes
  <2>3. QED
    BY <2>1, <2>2, ReadStep, IdleFacts
<1>4. QED
  BY <1>1, <1>2, <1>3 DEF ClaimUpdate

(* Answering "delivered" for a delivery that is, and for good. *)
LEMMA AnswerStep ==
    ASSUME IInv, NEW c \in Callers, NEW d \in usedIds, NEW l \in usedLeases, NEW result,
           UNCHANGED <<rows, usedIds, usedLeases, accepting>>,
           Return(c, result), result \in Outcomes, RecordAck(d, l, result),
           result = "ok" => DeliveredWith(d, l)
    PROVE  IInv'
<1>1. /\ call' = [call EXCEPT ![c] = Idle] /\ outcome' \in [Callers -> Outcomes]
      /\ call' \in [Callers -> Call]
  BY IdleFacts DEF Return, IInv, TypeOK
<1>2. /\ acked' \in SUBSET (Ids \X Leases)
      /\ \A a \in acked' : a[1] \in usedIds /\ DeliveredWith(a[1], a[2])
  BY DEF RecordAck, IInv, TypeOK
<1>3. \A e \in Callers : CallIsSound(call'[e])
  BY <1>1, IdleFacts DEF IInv, TypeOK
<1>4. TypeOK'
  BY <1>1, <1>2 DEF IInv, TypeOK
<1>5. \A e \in Ids : RowIsSound(e)'
  BY DEF IInv, RowIsSound
<1>6. (\A e \in Callers : CallIsSound(call[e]))'
  BY <1>3 DEF CallIsSound, DeliveredWith
<1>7. (\A a \in acked : a[1] \in usedIds /\ DeliveredWith(a[1], a[2]))'
  BY <1>2 DEF DeliveredWith
<1>8. QED
  BY <1>4, <1>5, <1>6, <1>7 DEF IInv

(* mark_delivered *)
LEMMA AckPreserves ==
    ASSUME IInv, NEW c \in Callers,
           \/ \E d \in usedIds, l \in usedLeases : AckCheck(c, d, l)
           \/ AckUpdate(c) \/ AckRead(c)
    PROVE  IInv'
<1>0. /\ call \in [Callers -> Call] /\ outcome \in [Callers -> Outcomes]
      /\ rows \in [Ids -> Row] /\ usedIds \subseteq Ids /\ usedLeases \subseteq Leases
      /\ call[c] \in Call /\ CallIsSound(call[c]) /\ \A d \in Ids : RowIsSound(d)
  BY DEF IInv, TypeOK
<1>1. ASSUME NEW d \in usedIds, NEW l \in usedLeases, AckCheck(c, d, l) PROVE IInv'
  <2>1. CASE ~Present(rows[d])
    <3>1. Return(c, "KeyError") /\ acked' = acked
      BY <1>1, <2>1 DEF AckCheck, Present
    <3>2. RecordAck(d, l, "KeyError") /\ "KeyError" \in Outcomes
      BY <3>1 DEF RecordAck, Outcomes
    <3>3. QED
      BY <1>1, <3>1, <3>2, AnswerStep DEF AckCheck
  <2>2. CASE rows[d].state = "delivered"
    <3>1. Return(c, LeaseAnswer(d, l)) /\ RecordAck(d, l, LeaseAnswer(d, l))
      BY <1>1, <2>2 DEF AckCheck, Present
    <3>2. PICK a \in Outcomes : a = LeaseAnswer(d, l)
      BY DEF LeaseAnswer, Outcomes
    <3>3. a = "ok" => DeliveredWith(d, l)
      BY <2>2, <3>2 DEF LeaseAnswer, DeliveredWith
    <3>4. Return(c, a) /\ RecordAck(d, l, a)
      BY <3>1, <3>2
    <3>5. QED
      BY <1>1, <3>3, <3>4, AnswerStep DEF AckCheck
  <2>3. CASE Present(rows[d]) /\ rows[d].state # "delivered"
    <3>0. d \in Ids /\ l \in Leases
      BY <1>0
    <3>1. PICK f \in Call : f = [Idle EXCEPT !.step = "ack_update", !.id = d, !.lease = l]
      BY <3>0 DEF Idle, Call, Steps
    <3>2. CallIsSound(f)
      <4>1. f.step = "ack_update" /\ f.id = d /\ f.lease = l
        BY <3>1 DEF Idle
      <4>2. QED
        BY <4>1 DEF CallIsSound
    <3>3. /\ outcome' \in [Callers -> Outcomes] /\ call' = [call EXCEPT ![c] = f]
          /\ UNCHANGED <<rows, usedIds, usedLeases, accepting, acked>>
      BY <1>0, <1>1, <2>3, <3>1 DEF AckCheck, Enter, Outcomes
    <3>4. QED
      BY <3>2, <3>3, ReadStep
  <2>4. QED
    BY <2>1, <2>2, <2>3
<1>2. CASE AckUpdate(c)
  <2> DEFINE hit == CanDeliver(rows[call[c].id], call[c].lease)
  <2>1. PICK d \in usedIds, l \in usedLeases : d = call[c].id /\ l = call[c].lease
    BY <1>0, <1>2 DEF AckUpdate, CallIsSound
  <2>2. PICK f \in Call : f = [call[c] EXCEPT !.step = "ack_read", !.hit = hit]
    BY <1>0 DEF Call, Steps, CanDeliver
  <2>3. f.step = "ack_read" /\ f.id = d /\ f.lease = l /\ f.hit = hit
    BY <1>0, <2>1, <2>2 DEF Call
  <2>4. /\ outcome' \in [Callers -> Outcomes] /\ call' = [call EXCEPT ![c] = f]
        /\ UNCHANGED <<usedIds, usedLeases, accepting, acked>>
    BY <1>0, <1>2, <2>2 DEF AckUpdate, Continue
  <2>5. CASE hit
    <3>1. PICK r \in Row : r = DeliveredRow(rows[d])
      BY <1>0, DeliveredRowFacts
    <3>2. r.state = "delivered" /\ r.lease = l
      BY <1>0, <2>1, <2>5, <3>1, DeliveredRowFacts DEF CanDeliver
    <3>3. rows' = [rows EXCEPT ![d] = r]
      BY <1>2, <2>1, <2>5, <3>1 DEF AckUpdate
    <3>4. CallIsSound(f)'
      <4>1. rows'[d] = r
        BY <1>0, <3>3
      <4>2. DeliveredWith(d, l)'
        BY <3>2, <4>1 DEF DeliveredWith
      <4>3. QED
        BY <2>3, <2>4, <4>2 DEF CallIsSound
    <3>5. /\ Present(r) /\ r.state \in LeaseHeldIn /\ r.lease # NoLease
          /\ rows[d].state \notin {"absent", "delivered"}
      BY <1>0, <2>1, <2>5, <3>2, NoLeaseIsNoLease DEF Present, LeaseHeldIn, CanDeliver
    <3>6. QED
      BY <1>0, <2>4, <3>2, <3>3, <3>4, <3>5, WriteStep
  <2>6. CASE ~hit
    <3>1. CallIsSound(f)
      BY <2>3, <2>6 DEF CallIsSound
    <3>2. rows' = rows
      BY <1>2, <2>6 DEF AckUpdate
    <3>3. QED
      BY <2>4, <3>1, <3>2, ReadStep
  <2>7. QED
    BY <2>5, <2>6
<1>3. CASE AckRead(c)
  <2>1. PICK d \in usedIds, l \in usedLeases : d = call[c].id /\ l = call[c].lease
    BY <1>0, <1>3 DEF AckRead, CallIsSound
  <2>2. PICK a \in Outcomes : a = AckOutcome(rows[d], l, call[c].hit)
    BY DEF AckOutcome, Outcomes
  <2>3. /\ Return(c, a) /\ RecordAck(d, l, a)
        /\ UNCHANGED <<rows, usedIds, usedLeases, accepting>>
    BY <1>3, <2>1, <2>2 DEF AckRead
  <2>4. a = "ok" => DeliveredWith(d, l)
    <3>1. CASE call[c].hit
      BY <1>0, <1>3, <2>1, <3>1 DEF AckRead, CallIsSound
    <3>2. CASE ~call[c].hit
      BY <2>2, <3>2 DEF AckOutcome, DeliveredWith, Present
    <3>3. QED
      BY <3>1, <3>2
  <2>5. QED
    BY <2>3, <2>4, AnswerStep
<1>4. QED
  BY <1>1, <1>2, <1>3

(* mark_failed *)
LEMMA NackPreserves ==
    ASSUME IInv, NEW c \in Callers,
           \/ \E d \in usedIds, l \in usedLeases, b \in BOOLEAN : NackCheck(c, d, l, b)
           \/ NackUpdate(c) \/ NackRead(c)
    PROVE  IInv'
<1>0. /\ call \in [Callers -> Call] /\ outcome \in [Callers -> Outcomes]
      /\ rows \in [Ids -> Row] /\ usedIds \subseteq Ids /\ usedLeases \subseteq Leases
      /\ call[c] \in Call /\ CallIsSound(call[c]) /\ \A d \in Ids : RowIsSound(d)
  BY DEF IInv, TypeOK
<1>1. ASSUME NEW d \in usedIds, NEW l \in usedLeases, NEW b \in BOOLEAN, NackCheck(c, d, l, b)
      PROVE  IInv'
  <2>1. PICK f \in Call : f = [Idle EXCEPT !.step = "nack_update", !.id = d, !.lease = l,
                                           !.retryable = b]
    <3>1. d \in Ids /\ l \in Leases
      BY <1>0
    <3>2. QED
      BY <3>1 DEF Idle, Call, Steps
  <2>2. CallIsSound(f)
    <3>1. f.step = "nack_update" /\ f.id = d /\ f.lease = l
      BY <2>1 DEF Idle
    <3>2. QED
      BY <3>1 DEF CallIsSound
  <2>3. call' = [call EXCEPT ![c] = f] \/ call' = [call EXCEPT ![c] = Idle]
    BY <1>1, <2>1 DEF NackCheck, Enter, Return
  <2>4. outcome' \in [Callers -> Outcomes]
    BY <1>0, <1>1 DEF NackCheck, Enter, Return, Outcomes, LeaseAnswer
  <2>5. UNCHANGED <<rows, usedIds, usedLeases, accepting, acked>>
    BY <1>1 DEF NackCheck
  <2>6. QED
    BY <2>2, <2>3, <2>4, <2>5, ReadStep, IdleFacts
<1>2. CASE NackUpdate(c)
  <2> DEFINE hit == CanFail(rows[call[c].id], call[c].lease)
             b == call[c].retryable
  <2>1. PICK d \in usedIds, l \in usedLeases : d = call[c].id /\ l = call[c].lease
    BY <1>0, <1>2 DEF NackUpdate, CallIsSound
  <2>2. PICK f \in Call : f = [call[c] EXCEPT !.step = "nack_read", !.hit = hit]
    BY <1>0 DEF Call, Steps, CanFail, Present
  <2>3. f.step = "nack_read" /\ f.id = d /\ f.lease = l
    BY <1>0, <2>1, <2>2 DEF Call
  <2>4. /\ outcome' \in [Callers -> Outcomes] /\ call' = [call EXCEPT ![c] = f]
        /\ UNCHANGED <<usedIds, usedLeases, accepting, acked>>
    BY <1>0, <1>2, <2>2 DEF NackUpdate, Continue
  <2>5. CASE hit
    <3>0. b \in BOOLEAN /\ rows[d] \in Row
      BY <1>0 DEF Call
    <3>1. PICK r \in Row : r = FailedRow(rows[d], b)
      BY <3>0, FailedRowFacts
    <3>2. /\ r.state = IF b THEN "failed_retryable" ELSE "failed_terminal"
          /\ r.lease = IF b THEN NoLease ELSE l
      BY <2>1, <2>5, <3>0, <3>1, FailedRowFacts DEF CanFail
    <3>3. rows' = [rows EXCEPT ![d] = r]
      BY <1>2, <2>1, <2>5, <3>1 DEF NackUpdate
    <3>4. CallIsSound(f)'
      BY <2>3, <2>4 DEF CallIsSound
    <3>5. l # NoLease
      BY <1>0, NoLeaseIsNoLease
    <3>6. /\ Present(r)
          /\ (r.lease # NoLease) <=> (r.state \in LeaseHeldIn)
          /\ r.lease # NoLease => r.lease \in usedLeases'
          /\ rows[d].state \notin {"absent", "delivered"}
      BY <2>1, <2>4, <2>5, <3>0, <3>2, <3>5 DEF Present, LeaseHeldIn, CanFail
    <3>7. QED
      BY <1>0, <2>4, <3>3, <3>4, <3>6, WriteStep
  <2>6. CASE ~hit
    <3>1. CallIsSound(f)
      BY <2>3 DEF CallIsSound
    <3>2. rows' = rows
      BY <1>2, <2>6 DEF NackUpdate
    <3>3. QED
      BY <2>4, <3>1, <3>2, ReadStep
  <2>7. QED
    BY <2>5, <2>6
<1>3. CASE NackRead(c)
  <2>1. UNCHANGED <<rows, usedIds, usedLeases, accepting, acked>>
    BY <1>3 DEF NackRead
  <2>2. call' = [call EXCEPT ![c] = Idle] /\ outcome' \in [Callers -> Outcomes]
    BY <1>0, <1>3 DEF NackRead, Return, Outcomes, NackOutcome
  <2>3. QED
    BY <2>1, <2>2, ReadStep, IdleFacts
<1>4. QED
  BY <1>1, <1>2, <1>3

(* cleanup_stale_in_progress_deliveries *)
LEMMA SweepPreserves ==
    ASSUME IInv, NEW c \in Callers, SweepSelect(c) \/ SweepUpdate(c)
    PROVE  IInv'
<1>0. /\ call \in [Callers -> Call] /\ outcome \in [Callers -> Outcomes]
      /\ rows \in [Ids -> Row] /\ usedIds \subseteq Ids /\ usedLeases \subseteq Leases
      /\ accepting \in BOOLEAN /\ \A d \in Ids : RowIsSound(d)
  BY DEF IInv, TypeOK
<1>1. CASE SweepSelect(c)
  <2> DEFINE stale == {d \in Ids : IsStaleCandidate(rows[d])}
  <2>1. PICK f \in Call : f = [Idle EXCEPT !.step = "sweep_update", !.candidates = stale]
    BY DEF Idle, Call, Steps
  <2>2. CallIsSound(f)
    <3>1. f.step = "sweep_update"
      BY <2>1 DEF Idle
    <3>2. QED
      BY <3>1 DEF CallIsSound
  <2>3. call' = [call EXCEPT ![c] = f] \/ call' = [call EXCEPT ![c] = Idle]
    BY <1>1, <2>1 DEF SweepSelect, Enter, Return
  <2>4. outcome' \in [Callers -> Outcomes]
    BY <1>0, <1>1 DEF SweepSelect, Enter, Return, Outcomes
  <2>5. UNCHANGED <<rows, usedIds, usedLeases, accepting, acked>>
    BY <1>1 DEF SweepSelect
  <2>6. QED
    BY <2>2, <2>3, <2>4, <2>5, ReadStep, IdleFacts
<1>2. CASE SweepUpdate(c)
  <2>1. rows' \in [Ids -> Row]
    BY <1>0, <1>2, SweptRowFacts DEF SweepUpdate
  <2>2. ASSUME NEW d \in Ids, rows'[d] # rows[d]
        PROVE  /\ RowIsSound(d)'
               /\ d \in usedIds /\ rows[d].state \in {"absent", "delivered"}
                    => rows'[d].state = "absent"
    <3>1. rows'[d] = SweptRow(rows[d]) /\ rows[d].state = "delivery_in_progress"
      BY <1>2, <2>2 DEF SweepUpdate, CanSweep
    <3>2. rows'[d].state = "failed_retryable" /\ rows'[d].lease = NoLease
      BY <1>0, <3>1, SweptRowFacts
    <3>3. d \in usedIds'
      BY <1>0, <1>2, <3>1 DEF SweepUpdate, RowIsSound, Present
    <3>4. QED
      BY <3>1, <3>2, <3>3 DEF RowIsSound, Present, LeaseHeldIn
  <2>3. /\ call' = [call EXCEPT ![c] = Idle] /\ outcome' \in [Callers -> Outcomes]
        /\ UNCHANGED <<usedIds, usedLeases, accepting, acked>>
    BY <1>0, <1>2 DEF SweepUpdate, Return, Outcomes
  <2>4. PICK f \in Call : f = Idle /\ f.step = "idle"
    BY IdleFacts
  <2>5. CallIsSound(f)'
    BY <2>4 DEF CallIsSound
  <2>6. QED
    BY <1>0, <2>1, <2>2, <2>3, <2>4, <2>5, StepPreserves
<1>3. QED
  BY <1>1, <1>2

(* The steps of the environment: the session's state changes, its rows are
   deleted, a row grows old.  None of them touches a call. *)
LEMMA EnvironmentPreserves ==
    ASSUME IInv, SessionToggles \/ DeleteBySessionId \/ \E d \in Ids : Grows(d)
    PROVE  IInv'
<1>0. /\ rows \in [Ids -> Row] /\ usedIds \subseteq Ids /\ usedLeases \subseteq Leases
      /\ accepting \in BOOLEAN /\ \A d \in Ids : RowIsSound(d)
      /\ call \in [Callers -> Call] /\ outcome \in [Callers -> Outcomes]
  BY DEF IInv, TypeOK
<1>1. /\ call' = call /\ outcome' = outcome /\ acked' = acked
      /\ usedIds' = usedIds /\ usedLeases' = usedLeases /\ accepting' \in BOOLEAN
  BY <1>0 DEF SessionToggles, DeleteBySessionId, Grows
<1>2. rows' \in [Ids -> Row]
  <2>1. CASE SessionToggles
    BY <1>0, <2>1 DEF SessionToggles
  <2>2. CASE DeleteBySessionId
    BY <2>2, AbsentRowFacts DEF DeleteBySessionId
  <2>3. ASSUME NEW d \in Ids, Grows(d) PROVE rows' \in [Ids -> Row]
    <3>1. [rows[d] EXCEPT !.old = TRUE] \in Row
      BY <1>0 DEF Row
    <3>2. rows' = [rows EXCEPT ![d] = [rows[d] EXCEPT !.old = TRUE]]
      BY <2>3 DEF Grows
    <3>3. QED
      BY <1>0, <3>1, <3>2
  <2>4. QED
    BY <2>1, <2>2, <2>3
<1>3. \A d \in Ids : \/ rows'[d] = rows[d]
                     \/ /\ RowIsSound(d)'
                        /\ d \in usedIds /\ rows[d].state \in {"absent", "delivered"}
                             => rows'[d].state = "absent"
  <2>1. CASE SessionToggles
    BY <2>1 DEF SessionToggles
  <2>2. CASE DeleteBySessionId
    <3>1. \A d \in Ids : rows'[d] = AbsentRow
      BY <2>2 DEF DeleteBySessionId
    <3>2. AbsentRow' = AbsentRow
      BY DEF AbsentRow
    <3>3. QED
      BY <3>1, <3>2, AbsentRowFacts DEF RowIsSound, Present, LeaseHeldIn
  <2>3. ASSUME NEW d \in Ids, Grows(d), NEW e \in Ids, rows'[e] # rows[e]
        PROVE  /\ RowIsSound(e)'
               /\ rows[e].state \notin {"absent", "delivered"}
    <3>1. e = d
      BY <1>0, <2>3 DEF Grows
    <3>2. rows'[e] = [rows[e] EXCEPT !.old = TRUE] /\ rows[e].state = "delivery_in_progress"
      BY <1>0, <2>3, <3>1 DEF Grows
    <3>3. rows'[e].state = rows[e].state /\ rows'[e].lease = rows[e].lease
      BY <1>0, <3>2 DEF Row
    <3>4. QED
      BY <1>0, <1>1, <3>2, <3>3 DEF RowIsSound, Present
  <2>4. QED
    BY <2>1, <2>2, <2>3
<1>4. /\ \A d \in Ids : RowIsSound(d)'
      /\ \A d \in usedIds, l \in Leases : DeliveredWith(d, l) => DeliveredWith(d, l)'
      /\ \A g \in Call : CallIsSound(g) => CallIsSound(g)'
  BY <1>1, <1>2, <1>3, RowsStep
<1>5. ASSUME NEW c \in Callers PROVE CallIsSound(call[c])'
  <2>1. PICK g \in Call : g = call[c]
    BY <1>0
  <2>2. CallIsSound(g)'
    BY <1>4, <2>1 DEF IInv
  <2>3. QED
    BY <1>1, <2>1, <2>2 DEF CallIsSound, DeliveredWith
<1>6. ASSUME NEW a \in acked PROVE a[1] \in usedIds' /\ DeliveredWith(a[1], a[2])'
  <2>1. a[1] \in usedIds /\ a[2] \in Leases /\ DeliveredWith(a[1], a[2])
    BY DEF IInv, TypeOK
  <2>2. QED
    BY <1>1, <1>4, <2>1
<1>7. (\A a \in acked : a[1] \in usedIds /\ DeliveredWith(a[1], a[2]))'
  BY <1>1, <1>6 DEF DeliveredWith
<1>8. TypeOK'
  BY <1>1, <1>2 DEF IInv, TypeOK
<1>9. QED
  BY <1>4, <1>5, <1>7, <1>8 DEF IInv

(* The invariant is inductive. *)
LEMMA InitIInv == Init => IInv
  BY IdleFacts, AbsentRowFacts
  DEF Init, IInv, TypeOK, RowIsSound, Present, LeaseHeldIn, Outcomes, CallIsSound, Idle

(* Every step of every caller and of the environment preserves it. *)
LEMMA NextPreserves == ASSUME IInv, [Next]_vars PROVE IInv'
<1>1. ASSUME NEW c \in Callers, CallerStep(c) PROVE IInv'
  <2>1. CASE Crash(c)
    <3>1. /\ call' = [call EXCEPT ![c] = Idle] /\ outcome' \in [Callers -> Outcomes]
          /\ UNCHANGED <<rows, usedIds, usedLeases, accepting, acked>>
      BY <2>1 DEF Crash, Return, Outcomes, IInv, TypeOK
    <3>2. QED
      BY <3>1, ReadStep, IdleFacts
  <2>2. QED
    BY <1>1, <2>1, SubmitPreserves, ClaimPreserves, AckPreserves, NackPreserves, SweepPreserves
    DEF CallerStep
<1>2. CASE UNCHANGED vars
  <2>1. UNCHANGED <<rows, usedIds, usedLeases, accepting, call, outcome, acked>>
    BY <1>2 DEF vars
  <2>2. TypeOK' /\ \A d \in Ids : RowIsSound(d)'
    BY <2>1 DEF IInv, TypeOK, RowIsSound
  <2>3. (\A c \in Callers : CallIsSound(call[c]))'
    BY <2>1 DEF IInv, CallIsSound, DeliveredWith
  <2>4. (\A a \in acked : a[1] \in usedIds /\ DeliveredWith(a[1], a[2]))'
    BY <2>1 DEF IInv, DeliveredWith
  <2>5. QED
    BY <2>2, <2>3, <2>4 DEF IInv
<1>3. QED
  BY <1>1, <1>2, EnvironmentPreserves DEF Next

(* Hence it holds in every reachable state. *)
LEMMA Inductive == Spec => []IInv
<1>1. IInv /\ [Next]_vars => IInv'
  BY NextPreserves
<1>2. QED
  BY InitIInv, <1>1, PTL DEF Spec

-----------------------------------------------------------------------------
(* The theorems *)

(* Every variable keeps its type. *)
THEOREM TypeCorrect == Spec => []TypeOK
<1>1. IInv => TypeOK
  BY DEF IInv
<1>2. QED
  BY Inductive, <1>1, PTL

(* A row has a lease exactly while it is being delivered or after it ended,
   whatever calls race on it. *)
THEOREM LeaseContractHolds == Spec => []LeaseContract
<1>1. IInv => LeaseContract
  BY DEF IInv, LeaseContract, RowIsSound
<1>2. QED
  BY Inductive, <1>1, PTL

(* A caller told "delivered" was told so for good. *)
THEOREM AckedIsDurableHolds == Spec => []AckedIsDurable
<1>1. IInv => AckedIsDurable
  BY DEF IInv, AckedIsDurable, DeliveredWith
<1>2. QED
  BY Inductive, <1>1, PTL

-----------------------------------------------------------------------------
(* Fencing *)

(* Only a claim gives a row a lease, and its lease is new. *)
LEMMA NoLeaseComesBack ==
    ASSUME IInv, [Next]_vars, NEW d \in Ids, NEW l \in usedLeases, rows[d].lease # l
    PROVE  rows'[d].lease # l
<1>0. /\ rows \in [Ids -> Row] /\ usedIds \subseteq Ids /\ usedLeases \subseteq Leases
      /\ l # NoLease /\ \A c \in Callers : call[c] \in Call /\ CallIsSound(call[c])
  BY NoLeaseIsNoLease DEF IInv, TypeOK
<1>1. SUFFICES ASSUME rows'[d] # rows[d] PROVE rows'[d].lease # l
  OBVIOUS
<1>2. ASSUME NEW c \in Callers, CallerStep(c) PROVE rows'[d].lease # l
  <2>1. CASE SubmitInsert(c)
    <3>1. rows'[d] = NewRow(call[c].key, call[c].payload)
      BY <1>0, <1>1, <2>1 DEF SubmitInsert
    <3>2. call[c].key \in Keys /\ call[c].payload \in Payloads
      BY <1>0, <2>1 DEF SubmitInsert, CallIsSound
    <3>3. QED
      BY <1>0, <3>1, <3>2, NewRowFacts
  <2>2. ASSUME NEW e \in usedIds, ClaimUpdate(c, e) PROVE rows'[d].lease # l
    <3>1. PICK k \in Leases \ usedLeases : rows'[d] = ClaimedRow(rows[d], k)
      BY <1>0, <1>1, <2>2 DEF ClaimUpdate, FreshLeases
    <3>2. QED
      BY <1>0, <3>1, ClaimedRowFacts
  <2>3. CASE AckUpdate(c)
    <3>1. rows'[d] = DeliveredRow(rows[d])
      BY <1>0, <1>1, <2>3 DEF AckUpdate
    <3>2. QED
      BY <1>0, <3>1, DeliveredRowFacts
  <2>4. CASE NackUpdate(c)
    <3>1. call[c].retryable \in BOOLEAN
      BY <1>0 DEF Call
    <3>2. rows'[d] = FailedRow(rows[d], call[c].retryable)
      BY <1>0, <1>1, <2>4 DEF NackUpdate
    <3>3. QED
      BY <1>0, <3>1, <3>2, FailedRowFacts
  <2>5. CASE SweepUpdate(c)
    <3>1. rows'[d] = SweptRow(rows[d])
      BY <1>1, <2>5 DEF SweepUpdate
    <3>2. QED
      BY <1>0, <3>1, SweptRowFacts
  <2>6. CASE \/ \E k \in Keys, p \in Payloads : SubmitCheck(c, k, p)
             \/ SubmitRead(c) \/ SubmitLookup(c) \/ ClaimRead(c)
             \/ \E e \in usedIds, k \in usedLeases : AckCheck(c, e, k)
             \/ AckRead(c)
             \/ \E e \in usedIds, k \in usedLeases, b \in BOOLEAN : NackCheck(c, e, k, b)
             \/ NackRead(c) \/ SweepSelect(c) \/ Crash(c)
    <3>1. rows' = rows
      BY <2>6 DEF SubmitCheck, SubmitRead, SubmitLookup, ClaimRead, AckCheck, AckRead,
                  NackCheck, NackRead, SweepSelect, Crash
    <3>2. QED
      BY <1>1, <3>1
  <2>7. QED
    BY <1>2, <2>1, <2>2, <2>3, <2>4, <2>5, <2>6 DEF CallerStep
<1>3. CASE DeleteBySessionId
  <2>1. rows'[d] = AbsentRow
    BY <1>3 DEF DeleteBySessionId
  <2>2. QED
    BY <1>0, <2>1, AbsentRowFacts
<1>4. ASSUME NEW e \in Ids, Grows(e) PROVE rows'[d].lease # l
  <2>1. rows'[d] = [rows[d] EXCEPT !.old = TRUE]
    BY <1>0, <1>1, <1>4 DEF Grows
  <2>2. QED
    BY <1>0, <2>1 DEF Row
<1>5. CASE SessionToggles \/ UNCHANGED vars
  BY <1>1, <1>5 DEF SessionToggles, vars
<1>6. QED
  BY <1>2, <1>3, <1>4, <1>5 DEF Next

(* A holder that lost its lease stays locked out of the row. *)
THEOREM LostLeaseStaysLostHolds == Spec => LostLeaseStaysLost
<1>1. IInv /\ [Next]_vars
        => [\A d \in Ids, l \in usedLeases : rows[d].lease # l => rows'[d].lease # l]_vars
  BY NoLeaseComesBack
<1>2. QED
  BY Inductive, <1>1, PTL DEF Spec, LostLeaseStaysLost

-----------------------------------------------------------------------------
(* The store implements the ledger *)

LedgerEntry(d) == [status |-> LedgerStatus(d), key |-> rows[d].key, payload |-> rows[d].payload]
LedgerEntries == [d \in Ids |-> LedgerEntry(d)]

(* Nothing happens in the ledger when every row keeps its key, its payload,
   and whether it is absent, delivered or open. *)
LEMMA LedgerStutters ==
    ASSUME usedIds' = usedIds, accepting' = accepting,
           \A d \in Ids : /\ rows'[d].key = rows[d].key /\ rows'[d].payload = rows[d].payload
                          /\ (rows'[d].state = "absent") <=> (rows[d].state = "absent")
                          /\ (rows'[d].state = "delivered") <=> (rows[d].state = "delivered")
    PROVE  UNCHANGED Ledger!vars
<1>1. ASSUME NEW d \in Ids PROVE LedgerEntry(d)' = LedgerEntry(d)
  BY DEF LedgerEntry, LedgerStatus
<1>2. LedgerEntries' = LedgerEntries
  BY <1>1 DEF LedgerEntries
<1>3. QED
  BY <1>2 DEF Ledger!vars, LedgerEntries, LedgerEntry

(* An INSERT that is not ignored accepts the reply. *)
LEMMA InsertAccepts ==
    ASSUME IInv, NEW c \in Callers, SubmitInsert(c)
    PROVE  [Ledger!Next]_(Ledger!vars)
<1>0. /\ rows \in [Ids -> Row] /\ \A d \in Ids : RowIsSound(d)
      /\ call[c].key \in Keys /\ call[c].payload \in Payloads
  BY DEF IInv, TypeOK, SubmitInsert, CallIsSound
<1>1. ASSUME NEW d \in Ids \ usedIds, RowOfKey(call[c].key) = {},
             usedIds' = usedIds \cup {d},
             rows' = [rows EXCEPT ![d] = NewRow(call[c].key, call[c].payload)],
             accepting' = accepting
      PROVE  Ledger!Next
  <2>1. PICK k \in Keys, p \in Payloads : k = call[c].key /\ p = call[c].payload
    BY <1>0
  <2>2. \A e \in Ids : rows'[e] = IF e = d THEN NewRow(k, p) ELSE rows[e]
    BY <1>0, <1>1, <2>1
  <2>3. LedgerEntries[d].status = "unused"
    BY <1>0, <1>1 DEF LedgerEntries, LedgerEntry, LedgerStatus, RowIsSound, Present
  <2>4. \A e \in Ids : LedgerEntries[e].status \in {"open", "delivered"} => LedgerEntries[e].key # k
    <3>1. \A e \in Ids : Present(rows[e]) => rows[e].key # k
      BY <1>1, <2>1 DEF RowOfKey
    <3>2. \A e \in Ids : LedgerEntries[e].status \in {"open", "delivered"} => Present(rows[e])
      BY DEF LedgerEntries, LedgerEntry, LedgerStatus, Present
    <3>3. QED
      BY <3>1, <3>2 DEF LedgerEntries, LedgerEntry
  <2>5. \A e \in Ids : LedgerEntry(e)' = IF e = d THEN [status |-> "open", key |-> k, payload |-> p]
                                         ELSE LedgerEntry(e)
    <3>1. ASSUME NEW e \in Ids, e # d PROVE LedgerEntry(e)' = LedgerEntry(e)
      BY <1>1, <2>2, <3>1 DEF LedgerEntry, LedgerStatus
    <3>2. LedgerEntry(d)' = [status |-> "open", key |-> k, payload |-> p]
      BY <2>2, NewRowFacts DEF LedgerEntry, LedgerStatus
    <3>3. QED
      BY <3>1, <3>2
  <2>6. LedgerEntries' = [LedgerEntries EXCEPT ![d] = [status |-> "open", key |-> k, payload |-> p]]
    BY <2>5 DEF LedgerEntries
  <2>7. Ledger!Accept(d, k, p)
    BY <1>1, <2>3, <2>4, <2>6
    DEF Ledger!Accept, Ledger!Live, LedgerEntries, LedgerEntry
  <2>8. QED
    BY <2>7 DEF Ledger!Next
<1>2. ASSUME UNCHANGED <<rows, usedIds, accepting>> PROVE UNCHANGED Ledger!vars
  BY <1>2, LedgerStutters
<1>3. QED
  BY <1>1, <1>2 DEF SubmitInsert, InsertsRow

(* mark_delivered delivers, or changes nothing. *)
LEMMA AckDelivers ==
    ASSUME IInv, NEW c \in Callers, AckUpdate(c)
    PROVE  [Ledger!Next]_(Ledger!vars)
<1>0. rows \in [Ids -> Row] /\ call[c].id \in Ids
  BY DEF IInv, TypeOK, AckUpdate, CallIsSound
<1>1. CASE ~CanDeliver(rows[call[c].id], call[c].lease)
  BY <1>1, LedgerStutters DEF AckUpdate
<1>2. CASE CanDeliver(rows[call[c].id], call[c].lease)
  <2>1. PICK d \in Ids : d = call[c].id
    BY <1>0
  <2>2. rows' = [rows EXCEPT ![d] = DeliveredRow(rows[d])] /\ UNCHANGED <<usedIds, accepting>>
    BY <1>2, <2>1 DEF AckUpdate
  <2>3. \A e \in Ids : rows'[e] = IF e = d THEN DeliveredRow(rows[d]) ELSE rows[e]
    BY <1>0, <2>2
  <2>4. LedgerEntries[d].status = "open"
    BY <1>2, <2>1 DEF LedgerEntries, LedgerEntry, LedgerStatus, CanDeliver
  <2>5. \A e \in Ids : LedgerEntry(e)' = IF e = d THEN [LedgerEntry(d) EXCEPT !.status = "delivered"]
                                         ELSE LedgerEntry(e)
    <3>1. ASSUME NEW e \in Ids, e # d PROVE LedgerEntry(e)' = LedgerEntry(e)
      BY <2>2, <2>3, <3>1 DEF LedgerEntry, LedgerStatus
    <3>2. LedgerEntry(d)' = [LedgerEntry(d) EXCEPT !.status = "delivered"]
      BY <1>0, <2>3, DeliveredRowFacts DEF LedgerEntry, LedgerStatus
    <3>3. QED
      BY <3>1, <3>2
  <2>6. LedgerEntries' = [LedgerEntries EXCEPT ![d].status = "delivered"]
    BY <2>5 DEF LedgerEntries
  <2>7. Ledger!Deliver(d)
    BY <2>2, <2>4, <2>6 DEF Ledger!Deliver, LedgerEntries, LedgerEntry
  <2>8. QED
    BY <2>7 DEF Ledger!Next
<1>3. QED
  BY <1>1, <1>2

(* delete_by_session_id drops every entry, none of which comes back. *)
LEMMA DeleteDrops ==
    ASSUME IInv, DeleteBySessionId
    PROVE  [Ledger!Next]_(Ledger!vars)
<1>0. \A d \in Ids : RowIsSound(d)
  BY DEF IInv
<1>1. ASSUME NEW d \in Ids
      PROVE  LedgerEntry(d)' = IF LedgerEntry(d).status \in {"open", "delivered"}
                               THEN [status |-> "gone", key |-> None, payload |-> None]
                               ELSE LedgerEntry(d)
  <2>1. rows'[d] = AbsentRow /\ usedIds' = usedIds
    BY DEF DeleteBySessionId
  <2>2. CASE Present(rows[d])
    <3>1. d \in usedIds
      BY <1>0, <2>2 DEF RowIsSound
    <3>2. LedgerEntry(d).status \in {"open", "delivered"}
      BY <2>2 DEF LedgerEntry, LedgerStatus, Present
    <3>3. LedgerEntry(d)' = [status |-> "gone", key |-> None, payload |-> None]
      BY <2>1, <3>1, AbsentRowFacts DEF LedgerEntry, LedgerStatus
    <3>4. QED
      BY <3>2, <3>3
  <2>3. CASE ~Present(rows[d])
    <3>1. rows'[d] = rows[d]
      BY <1>0, <2>1, <2>3 DEF RowIsSound
    <3>2. LedgerEntry(d)' = LedgerEntry(d)
      BY <2>1, <3>1 DEF LedgerEntry, LedgerStatus
    <3>3. LedgerEntry(d).status \notin {"open", "delivered"}
      BY <2>3 DEF LedgerEntry, LedgerStatus, Present
    <3>4. QED
      BY <3>2, <3>3
  <2>4. QED
    BY <2>2, <2>3
<1>2. LedgerEntries' = [d \in Ids |-> IF LedgerEntries[d].status \in {"open", "delivered"}
                                      THEN [status |-> "gone", key |-> None, payload |-> None]
                                      ELSE LedgerEntries[d]]
  BY <1>1 DEF LedgerEntries
<1>3. Ledger!DropAll
  BY <1>2 DEF DeleteBySessionId, Ledger!DropAll, Ledger!Live, Ledger!NoEntry,
              LedgerEntries, LedgerEntry
<1>4. QED
  BY <1>3 DEF Ledger!Next

(* Claims, nacks, cleanups and aging are invisible in the ledger. *)
LEMMA OpenRowsStayOpen ==
    ASSUME IInv, UNCHANGED <<usedIds, accepting>>,
           \A d \in Ids : \/ rows'[d] = rows[d]
                          \/ /\ rows[d].state \notin {"absent", "delivered"}
                             /\ rows'[d].state \notin {"absent", "delivered"}
                             /\ rows'[d].key = rows[d].key /\ rows'[d].payload = rows[d].payload
    PROVE  UNCHANGED Ledger!vars
  BY LedgerStutters

(* The steps that move an open row between its open states. *)
LEMMA HiddenSteps ==
    ASSUME IInv, NEW c \in Callers,
           \/ \E d \in usedIds : ClaimUpdate(c, d)
           \/ NackUpdate(c) \/ SweepUpdate(c)
    PROVE  UNCHANGED Ledger!vars
<1>0. /\ rows \in [Ids -> Row] /\ usedIds \subseteq Ids /\ call[c] \in Call
      /\ UNCHANGED <<usedIds, accepting>>
  BY DEF IInv, TypeOK, ClaimUpdate, NackUpdate, SweepUpdate
<1>1. ASSUME NEW d \in Ids, rows'[d] # rows[d]
      PROVE  /\ rows[d].state \notin {"absent", "delivered"}
             /\ rows'[d].state \notin {"absent", "delivered"}
             /\ rows'[d].key = rows[d].key /\ rows'[d].payload = rows[d].payload
  <2>1. ASSUME NEW e \in usedIds, ClaimUpdate(c, e)
        PROVE  \E l \in Leases : rows'[d] = ClaimedRow(rows[d], l) /\ CanClaim(rows[d])
    BY <1>0, <1>1, <2>1 DEF ClaimUpdate, FreshLeases
  <2>2. ASSUME NackUpdate(c)
        PROVE  \E b \in BOOLEAN : /\ rows'[d] = FailedRow(rows[d], b)
                                  /\ CanFail(rows[d], call[c].lease)
    <3>1. call[c].retryable \in BOOLEAN
      BY <1>0 DEF Call
    <3>2. /\ rows'[d] = FailedRow(rows[d], call[c].retryable)
          /\ CanFail(rows[d], call[c].lease)
      BY <1>0, <1>1, <2>2 DEF NackUpdate
    <3>3. QED
      BY <3>1, <3>2
  <2>3. ASSUME SweepUpdate(c) PROVE rows'[d] = SweptRow(rows[d]) /\ CanSweep(rows[d])
    BY <1>1, <2>3 DEF SweepUpdate
  <2>4. ASSUME NEW l \in Leases, rows'[d] = ClaimedRow(rows[d], l), CanClaim(rows[d])
        PROVE  /\ rows[d].state \notin {"absent", "delivered"}
               /\ rows'[d].state \notin {"absent", "delivered"}
               /\ rows'[d].key = rows[d].key /\ rows'[d].payload = rows[d].payload
    BY <1>0, <2>4, ClaimedRowFacts DEF CanClaim, Claimable
  <2>5. ASSUME NEW b \in BOOLEAN, rows'[d] = FailedRow(rows[d], b),
               CanFail(rows[d], call[c].lease)
        PROVE  /\ rows[d].state \notin {"absent", "delivered"}
               /\ rows'[d].state \notin {"absent", "delivered"}
               /\ rows'[d].key = rows[d].key /\ rows'[d].payload = rows[d].payload
    BY <1>0, <2>5, FailedRowFacts DEF CanFail, Present
  <2>6. ASSUME rows'[d] = SweptRow(rows[d]), CanSweep(rows[d])
        PROVE  /\ rows[d].state \notin {"absent", "delivered"}
               /\ rows'[d].state \notin {"absent", "delivered"}
               /\ rows'[d].key = rows[d].key /\ rows'[d].payload = rows[d].payload
    BY <1>0, <2>6, SweptRowFacts DEF CanSweep
  <2>7. QED
    BY <2>1, <2>2, <2>3, <2>4, <2>5, <2>6
<1>2. QED
  BY <1>0, <1>1, OpenRowsStayOpen

(* The empty table is the empty ledger. *)
LEMMA LedgerInit == Init => Ledger!Init
<1> SUFFICES ASSUME Init PROVE Ledger!Init
  OBVIOUS
<1>2. \A d \in Ids : LedgerEntry(d) = [status |-> "unused", key |-> None, payload |-> None]
  BY AbsentRowFacts DEF Init, LedgerEntry, LedgerStatus
<1>3. LedgerEntries = [d \in Ids |-> [status |-> "unused", key |-> None, payload |-> None]]
  BY <1>2 DEF LedgerEntries
<1>4. QED
  BY <1>3 DEF Init, Ledger!Init, Ledger!NoEntry, LedgerEntries, LedgerEntry

(* Every step of the store is a step of the ledger, or invisible to it. *)
LEMMA LedgerStep ==
    ASSUME IInv, [Next]_vars
    PROVE  [Ledger!Next]_(Ledger!vars)
<1>1. ASSUME NEW c \in Callers, CallerStep(c) PROVE [Ledger!Next]_(Ledger!vars)
  <2>1. CASE SubmitInsert(c)
    BY <2>1, InsertAccepts
  <2>2. CASE AckUpdate(c)
    BY <2>2, AckDelivers
  <2>3. CASE (\E d \in usedIds : ClaimUpdate(c, d)) \/ NackUpdate(c) \/ SweepUpdate(c)
    BY <2>3, HiddenSteps
  <2>4. CASE \/ \E k \in Keys, p \in Payloads : SubmitCheck(c, k, p)
             \/ SubmitRead(c) \/ SubmitLookup(c) \/ ClaimRead(c)
             \/ \E e \in usedIds, k \in usedLeases : AckCheck(c, e, k)
             \/ AckRead(c)
             \/ \E e \in usedIds, k \in usedLeases, b \in BOOLEAN : NackCheck(c, e, k, b)
             \/ NackRead(c) \/ SweepSelect(c) \/ Crash(c)
    <3>1. UNCHANGED <<rows, usedIds, accepting>>
      BY <2>4 DEF SubmitCheck, SubmitRead, SubmitLookup, ClaimRead, AckCheck, AckRead,
                  NackCheck, NackRead, SweepSelect, Crash
    <3>2. QED
      BY <3>1, LedgerStutters
  <2>5. QED
    BY <1>1, <2>1, <2>2, <2>3, <2>4 DEF CallerStep
<1>2. CASE SessionToggles
  BY <1>2 DEF SessionToggles, Ledger!Next, Ledger!Toggle, LedgerStatus
<1>3. CASE DeleteBySessionId
  BY <1>3, DeleteDrops
<1>4. CASE \E d \in Ids : Grows(d)
  <2>1. /\ UNCHANGED <<usedIds, accepting>>
        /\ \A d \in Ids : \/ rows'[d] = rows[d]
                          \/ /\ rows[d].state = "delivery_in_progress"
                             /\ rows'[d] = [rows[d] EXCEPT !.old = TRUE]
    BY <1>4 DEF Grows, IInv, TypeOK
  <2>2. \A d \in Ids : rows[d] \in Row
    BY DEF IInv, TypeOK
  <2>3. ASSUME NEW d \in Ids, rows'[d] # rows[d]
        PROVE  /\ rows[d].state \notin {"absent", "delivered"}
               /\ rows'[d].state \notin {"absent", "delivered"}
               /\ rows'[d].key = rows[d].key /\ rows'[d].payload = rows[d].payload
    <3>1. rows[d].state = "delivery_in_progress" /\ rows'[d] = [rows[d] EXCEPT !.old = TRUE]
      BY <2>1, <2>3
    <3>2. QED
      BY <2>2, <3>1 DEF Row
  <2>4. QED
    BY <2>1, <2>3, OpenRowsStayOpen
<1>5. CASE UNCHANGED vars
  BY <1>5, LedgerStutters DEF vars
<1>6. QED
  BY <1>1, <1>2, <1>3, <1>4, <1>5 DEF Next

(* The store, with all its races, implements the ledger: submit_reply is
   idempotent per key, delivered is final, and only the deletion of the
   session's replies removes an entry. *)
THEOREM ImplementsLedgerHolds == Spec => ImplementsLedger
<1>1. IInv /\ [Next]_vars => [Ledger!Next]_(Ledger!vars)
  BY LedgerStep
<1>2. QED
  BY Inductive, LedgerInit, <1>1, PTL DEF Spec, ImplementsLedger, Ledger!Spec
=============================================================================
