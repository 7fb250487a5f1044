-------------------------- MODULE MCWechatDelivery --------------------------
(* Small instances of WechatDelivery for TLC. *)
EXTENDS WechatDelivery, TLC

CONSTANTS d1, d2, la, lb

(* One process that dies and starts again, or two of a label each. *)
OneDaemon == d1 :> la
OwnLabel  == d1 :> la @@ d2 :> lb
=============================================================================
