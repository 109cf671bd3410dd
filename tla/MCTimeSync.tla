------------------------------ MODULE MCTimeSync ------------------------------
(* Small instances of TimeSync. *)
EXTENDS TimeSync
=============================================================================
