--------------------------- MODULE MCNetworkLink ---------------------------
(***************************************************************************)
(* NetworkLink with one slot that is empty, shows a module or fails.       *)
(***************************************************************************)
EXTENDS NetworkLink

CONSTANTS pump, nack, none

MCStatuses ==
  {[state |-> "Empty", type |-> none, address |-> 0, fault |-> none],
   [state |-> "Online", type |-> pump, address |-> 16, fault |-> none],
   [state |-> "Fault", type |-> none, address |-> 16, fault |-> nack]}
=============================================================================
