---------------------------- MODULE MCMasterPump ----------------------------
(* MasterPump over the frame orders of SessionScripts. *)
EXTENDS MasterPump, SessionScripts
==============================================================================
