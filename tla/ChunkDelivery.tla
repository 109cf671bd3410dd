---------------------------- MODULE ChunkDelivery ----------------------------
(***************************************************************************)
(* What the download of a device promises: its chunks are saved one after  *)
(* the other, in the order in which the device holds them, a saved chunk   *)
(* stays saved, and success is told only when all of them are.             *)
(***************************************************************************)
EXTENDS Naturals

CONSTANT N   \* the number of chunks

VARIABLES
    saved,   \* the chunks whose file is whole
    told     \* the outcomes that have been told

Init == saved = {} /\ told = {}

Save ==
    /\ \E k \in 1..N : 1..(k - 1) \subseteq saved /\ saved' = saved \cup {k}
    /\ UNCHANGED told

Tell ==
    /\ told' = told \cup {FALSE} \/ (saved = 1..N /\ told' = told \cup {TRUE})
    /\ UNCHANGED saved

Next == Save \/ Tell

Spec == Init /\ [][Next]_<<saved, told>>
=============================================================================
