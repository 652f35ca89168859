----------------------------- MODULE MCMainLoop -----------------------------
(***************************************************************************)
(* Small instance: every default is the same value, and there is a request *)
(* of each method.                                                         *)
(***************************************************************************)
EXTENDS MainLoop

MCDefault == [f \in Fields |-> "default"]
MCRequests == {"isp 1", "updi 2"}
=============================================================================
