------------------------------ MODULE MCConnMode ------------------------------
(* Small instances of ConnMode. *)
EXTENDS ConnMode
=============================================================================
