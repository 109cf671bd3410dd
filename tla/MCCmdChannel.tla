---------------------------- MODULE MCCmdChannel ----------------------------
(* Small instances of CmdChannel: requests are interchangeable. *)
EXTENDS CmdChannel, TLC

Symmetry == Permutations(Cmd)
=============================================================================
