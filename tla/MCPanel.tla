------------------------------ MODULE MCPanel ------------------------------
(***************************************************************************)
(* Instances of Panel: two keys, one of them slow or both together with a  *)
(* code of their own; a queue of two slots; a hold of two scans; timeouts  *)
(* and delays in the code's order.                                         *)
(***************************************************************************)
EXTENDS Panel, TLC

CONSTANTS KEY1, KEY2, KEY5

MCTasks  == {10, 20}
MCScreen == 10 :> 2 @@ 20 :> 4
MCRetry  == 10 :> 1 @@ 20 :> 2
MCPairs  == {{KEY1, KEY2}}
=============================================================================
