---------------------------- MODULE MCCatchSession ----------------------------
(* Small instances of CatchSession. *)
EXTENDS CatchSession
=============================================================================
