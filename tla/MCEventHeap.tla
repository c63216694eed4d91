---------------------------- MODULE MCEventHeap ----------------------------
EXTENDS EventHeap

(* The tie rules of the loops compare priorities, so two of them suffice;   *)
(* 0 is CREATE_EVENT's and 64 is MLEVEL_2.                                  *)
MCPrio == {0, 64}
=============================================================================
