--------------------------- MODULE DeliveryLedger ---------------------------
(***************************************************************************)
(* What the reply outbox promises to those who submit and deliver replies, *)
(* without leases, retries, cleanup or the steps of a store call:          *)
(*   - at any moment at most one entry per delivery key, whose content     *)
(*     never changes;                                                      *)
(*   - a delivered entry stays delivered;                                  *)
(*   - entries only disappear with their session, and never come back.     *)
(***************************************************************************)
CONSTANTS Ids, Keys, Payloads, None

VARIABLES entries,    \* by delivery id: status, key, payload
          accepting   \* the session is active

vars == <<entries, accepting>>

NoEntry(status) == [status |-> status, key |-> None, payload |-> None]

Live == {"open", "delivered"}

Init == /\ entries = [d \in Ids |-> NoEntry("unused")]
        /\ accepting = TRUE

(* A reply is accepted under a key no live entry has. *)
Accept(d, k, p) ==
    /\ entries[d].status = "unused"
    /\ \A e \in Ids : entries[e].status \in Live => entries[e].key # k
    /\ entries' = [entries EXCEPT ![d] = [status |-> "open", key |-> k, payload |-> p]]
    /\ UNCHANGED accepting

Deliver(d) ==
    /\ entries[d].status = "open"
    /\ entries' = [entries EXCEPT ![d].status = "delivered"]
    /\ UNCHANGED accepting

Toggle == accepting' = ~accepting /\ UNCHANGED entries

(* The session's entries are deleted, all at once. *)
DropAll ==
    /\ ~accepting
    /\ entries' = [d \in Ids |-> IF entries[d].status \in Live
                                 THEN NoEntry("gone") ELSE entries[d]]
    /\ UNCHANGED accepting

Next == \/ \E d \in Ids, k \in Keys, p \in Payloads : Accept(d, k, p)
        \/ \E d \in Ids : Deliver(d)
        \/ Toggle \/ DropAll

Spec == Init /\ [][Next]_vars
=============================================================================
