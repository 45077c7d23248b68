---------------------------- MODULE MCSessionExit ----------------------------
(* SessionExit over the frame orders of SessionScripts. *)
EXTENDS SessionExit, SessionScripts
==============================================================================
