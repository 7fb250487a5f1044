----------------------- MODULE MCConcurrencyGovernor -----------------------
(* Small instances of ConcurrencyGovernor for TLC. *)
EXTENDS ConcurrencyGovernor, TLC

CONSTANTS llm, write    \* the lanes of a run of the write pipeline

(* One permit of each, so that any two calls meet. *)
OneEach == llm :> 1 @@ write :> 1
=============================================================================
