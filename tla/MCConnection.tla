----------------------------- MODULE MCConnection -----------------------------
(* Small instances of Connection. *)
EXTENDS Connection
=============================================================================
