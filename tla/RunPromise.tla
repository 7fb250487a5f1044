----------------------------- MODULE RunPromise -----------------------------
(***************************************************************************)
(* What the Host promises about one run to those who started it, watch it, *)
(* want it cancelled or will resume it, without the executor, its bridge   *)
(* and timer, the settle and the orphan cleanup:                           *)
(*   - the run is decided once; only a run that was given up as unsettled  *)
(*     may still turn out to have succeeded, and only as long as nobody    *)
(*     was told CANCELLED;                                                 *)
(*   - it succeeds when what it owes to the transcript is there;           *)
(*   - it is cancelled for the reason that was recorded first, or because  *)
(*     it was settled from outside;                                        *)
(*   - CANCELLED is told of a run that is, and is the end of it: nothing   *)
(*     is asked or added to the transcript after it;                       *)
(*   - its question is dropped after success or the user's cancellation    *)
(*     and kept after anything else.                                       *)
(***************************************************************************)
CONSTANTS Reasons,   \* of a cancellation: "user" is one
          None

VARIABLES fate,      \* "none", "open", how it ended, or why it was cancelled
          wish,      \* the first reason to cancel it that was recorded
          pressed,   \* somebody has begun to settle it
          owed,      \* its turn belongs into the transcript and is not there
          asks,      \* its question can be resumed from
          told       \* CANCELLED was published

promise == <<fate, wish, pressed, owed, asks, told>>

Init ==
    /\ fate = "none"
    /\ wish = None
    /\ ~pressed /\ ~owed /\ ~asks /\ ~told

Start(owes) ==
    /\ fate = "none"
    /\ fate' = "open"
    /\ owed' = owes
    /\ UNCHANGED <<wish, pressed, asks, told>>

Wish(why) ==
    /\ fate = "open"
    /\ wish = None
    /\ wish' = why
    /\ UNCHANGED <<fate, pressed, owed, asks, told>>

Press ==
    /\ fate # "none"
    /\ pressed' = TRUE
    /\ UNCHANGED <<fate, wish, owed, asks, told>>

(* Its executor is still at work, whatever others have made of the run.    *)
AtWork == fate \notin {"none", "succeeded", "failed"} /\ ~told

Ask ==
    /\ AtWork
    /\ asks' = TRUE
    /\ UNCHANGED <<fate, wish, pressed, owed, told>>

Keep ==
    /\ AtWork
    /\ owed' = FALSE
    /\ UNCHANGED <<fate, wish, pressed, asks, told>>

Becomes(end) ==
    /\ fate' = end
    /\ UNCHANGED <<wish, pressed, owed, asks, told>>

Succeed   == fate \in {"open", "unsettled"} /\ ~owed /\ ~told /\ Becomes("succeeded")
Fail      == fate = "open" /\ Becomes("failed")
GiveUp    == fate = "open" /\ Becomes("unsettled")
Cancel(w) == fate = "open" /\ (w = wish \/ pressed) /\ Becomes(w)

(* The two go together when the executor reports the end of a run.         *)
Forget == fate \in {"succeeded", "user"} /\ ~asks'
Tell   == fate \in Reasons \union {"unsettled"} /\ told'

Close ==
    /\ Forget \/ asks' = asks
    /\ Tell \/ told' = told
    /\ UNCHANGED <<fate, wish, pressed, owed>>

Next ==
    \/ \E owes \in BOOLEAN : Start(owes)
    \/ \E why \in Reasons : Wish(why) \/ Cancel(why)
    \/ Press \/ Ask \/ Keep
    \/ Succeed \/ Fail \/ GiveUp
    \/ Close

Spec == Init /\ [][Next]_promise
=============================================================================
