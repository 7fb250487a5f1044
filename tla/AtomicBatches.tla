---------------------------- MODULE AtomicBatches ----------------------------
(***************************************************************************)
(* What the batches of a ticker promise of the documents the repository    *)
(* holds, without staging copies, backups, moves, deletions and recovery   *)
(* (docs/fins_storage_design.md:57).  What is held is what recovery, or    *)
(* the handler of a failure, would leave: whoever looks for the directory  *)
(* itself between two moves finds none.                                    *)
(*   - one batch is at work at a time, and only it changes the documents;  *)
(*   - it adds what it wrote, all of it at one moment, and takes nothing   *)
(*     away but that;                                                      *)
(*   - a batch that failed, was rolled back or whose process died is there *)
(*     as a whole or not at all, and stays the one or the other;           *)
(*   - a batch that was committed is there, for good.                      *)
(***************************************************************************)
CONSTANT Batches

VARIABLES content,    \* the batches whose documents are in the directory
          atWork,     \* the batch at work, if there is one
          committed   \* the batches whose commit was reported

ticker == <<content, atWork, committed>>

Init == content = {} /\ atWork = {} /\ committed = {}

Begin(b) ==
    /\ atWork = {}
    /\ b \notin content \union committed
    /\ atWork' = {b}
    /\ UNCHANGED <<content, committed>>

TakeEffect(b) ==
    /\ b \in atWork
    /\ content' = content \union {b}
    /\ UNCHANGED <<atWork, committed>>

TakeBack(b) ==
    /\ b \in atWork
    /\ content' = content \ {b}
    /\ UNCHANGED <<atWork, committed>>

Commit(b) ==
    /\ b \in atWork \intersect content
    /\ committed' = committed \union {b}
    /\ atWork' = {}
    /\ UNCHANGED content

(* Rolled back, failed, or dead.                                           *)
End ==
    /\ atWork' = {}
    /\ UNCHANGED <<content, committed>>

Next ==
    \/ \E b \in Batches : Begin(b) \/ TakeEffect(b) \/ TakeBack(b) \/ Commit(b)
    \/ End

Spec == Init /\ [][Next]_ticker
=============================================================================
