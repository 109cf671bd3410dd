----------------------------- MODULE CmdDelivery -----------------------------
(***************************************************************************)
(* What the command channel of a DeviceController promises its callers,    *)
(* with retransmission, loss and the backlog left out: commands are taken  *)
(* one at a time, and a command is over only after the device has heard    *)
(* it.  CmdChannel implements this specification on a timely link.         *)
(***************************************************************************)
CONSTANTS Cmd, NoCmd

VARIABLES
    cur,    \* the command being delivered, the last one when idle
    phase   \* "idle", "sent" (not heard yet) or "heard"

Init == cur = NoCmd /\ phase = "idle"

Start(c) == phase = "idle" /\ phase' = "sent" /\ cur' = c

Hear == phase = "sent" /\ phase' = "heard" /\ UNCHANGED cur

Finish == phase = "heard" /\ phase' = "idle" /\ UNCHANGED cur

Next == (\E c \in Cmd : Start(c)) \/ Hear \/ Finish

Spec == Init /\ [][Next]_<<cur, phase>>
=============================================================================
