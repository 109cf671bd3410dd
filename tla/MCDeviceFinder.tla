---------------------------- MODULE MCDeviceFinder ----------------------------
(* Small instances of DeviceFinder. *)
EXTENDS DeviceFinder
=============================================================================
