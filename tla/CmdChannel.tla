----------------------------- MODULE CmdChannel -----------------------------
(***************************************************************************)
(* The command channel of one DeviceController at work: callers (queued    *)
(* calls from the main thread and handlers of the device thread) ask for   *)
(* commands, the two timers expire, the device answers, and the link may   *)
(* lose a command or an answer.                                            *)
(*                                                                         *)
(* The device is not part of the repository: it is modelled by what the    *)
(* central expects of it, one answer for every command it receives.  Here  *)
(* every answer stops m_cmdTimer, as CMD_OK does.                          *)
(*                                                                         *)
(* A member of Cmd is one request for a command: each is asked for at most *)
(* once, which is what bounds the model.                                   *)
(***************************************************************************)
EXTENDS CmdOps, FiniteSets

CONSTANTS
    Cmd,         \* the requests that callers may make
    NoCmd,       \* last_cmd before the first command
    Timely,      \* TRUE: m_cmdTimer does not expire while the link holds
                 \* a command or an answer (round trip below the timeout)
    MaxLoss,     \* bound: messages the link loses per started command
    MaxBacklog   \* bound: backlog length up to which it may grow

ASSUME ChannelAssumption ==
    /\ NoCmd \notin Cmd
    /\ Timely \in BOOLEAN
    /\ MaxLoss \in Nat
    /\ MaxBacklog \in Nat

VARIABLES
    ch,        \* the channel (CmdOps)
    oks,       \* answers on their way from the device
    asked,     \* ghost: requests made so far
    started,   \* ghost: requests that have become the outstanding command
    writes,    \* ghost: times the outstanding command has been written
    heard,     \* ghost: the device has received it since it was started
    lost,      \* ghost: messages lost since it was started
    timedOut   \* "CMD Timeout!" has been reported for it

vars == <<ch, oks, asked, started, writes, heard, lost, timedOut>>

ghosts == <<started, writes, heard, lost, timedOut>>

TypeOK ==
    /\ ch \in ChannelType(Cmd, NoCmd)
    /\ oks \in Nat
    /\ asked \subseteq Cmd
    /\ started \subseteq Cmd
    /\ writes \in Nat
    /\ heard \in BOOLEAN
    /\ lost \in Nat
    /\ timedOut \in BOOLEAN

Init ==
    /\ ch = IdleChannel(NoCmd)
    /\ oks = 0
    /\ asked = {}
    /\ started = {}
    /\ writes = 0
    /\ heard = FALSE
    /\ lost = 0
    /\ timedOut = FALSE

-----------------------------------------------------------------------------

\* A command has just become the outstanding one.
Begin(c) ==
    /\ started' = started \cup {c}
    /\ writes' = 1
    /\ heard' = FALSE
    /\ lost' = 0
    /\ timedOut' = FALSE

Request(c) ==
    /\ c \notin asked
    /\ asked' = asked \cup {c}
    /\ ch' = bleUartSendCmdWithResp(ch, c)
    /\ IF ch.cmdTimer
       THEN Len(ch.backlog) < MaxBacklog /\ UNCHANGED ghosts
       ELSE Begin(c)
    /\ UNCHANGED oks

CmdTimerExpires ==
    /\ ch.cmdTimer
    /\ Timely => ch.air = <<>> /\ oks = 0
    /\ ch' = onCmdTimerExpired(ch)
    /\ IF ch.retry > 0
       THEN writes' = writes + 1 /\ UNCHANGED timedOut
       ELSE timedOut' = TRUE /\ UNCHANGED writes
    /\ UNCHANGED <<oks, asked, started, heard, lost>>

BacklogTimerExpires ==
    /\ ch.backlogTimer
    /\ ch' = onBacklogTimerExpired(ch)
    /\ IF ch.cmdTimer \/ ch.backlog = <<>>
       THEN /\ Len(ch.backlog) < MaxBacklog
            /\ UNCHANGED ghosts
       ELSE Begin(Newest(ch.backlog))
    /\ UNCHANGED <<oks, asked>>

OkArrives ==
    /\ oks > 0
    /\ oks' = oks - 1
    /\ ch' = StopCmdTimer(ch)
    /\ UNCHANGED <<asked, started, writes, heard, lost, timedOut>>

DeviceHears ==
    /\ ch.air # <<>>
    /\ ch' = [ch EXCEPT !.air = Tail(@)]
    /\ oks' = oks + 1
    /\ heard' = (heard \/ Head(ch.air) = ch.last_cmd)
    /\ UNCHANGED <<asked, started, writes, lost, timedOut>>

LoseCmd ==
    /\ ch.air # <<>>
    /\ lost < MaxLoss
    /\ lost' = lost + 1
    /\ ch' = [ch EXCEPT !.air = Tail(@)]
    /\ UNCHANGED <<oks, asked, started, writes, heard, timedOut>>

LoseOk ==
    /\ oks > 0
    /\ lost < MaxLoss
    /\ lost' = lost + 1
    /\ oks' = oks - 1
    /\ UNCHANGED <<ch, asked, started, writes, heard, timedOut>>

Next ==
    \/ \E c \in Cmd : Request(c)
    \/ CmdTimerExpires
    \/ BacklogTimerExpires
    \/ OkArrives
    \/ DeviceHears
    \/ LoseCmd
    \/ LoseOk

Spec == Init /\ [][Next]_vars

\* The timers belong to a thread that runs its event loop, and a device in
\* range answers.  Nothing obliges a caller to ask or the link to lose.
Fairness ==
    /\ WF_vars(CmdTimerExpires)
    /\ WF_vars(BacklogTimerExpires)
    /\ WF_vars(OkArrives)
    /\ WF_vars(DeviceHears)

FairSpec == Spec /\ Fairness

-----------------------------------------------------------------------------

\* A request is never dropped: it has been started or it is in the backlog.
\* (bleUartSendCmdWithResp and the backlog timer are the only ways in and out.)
NoRequestLost == asked = started \cup Waiting(ch)

\* Retransmissions are budgeted per command: the writes made and the retries
\* left always add up, so a command is on the air at most Retry + 1 times and
\* "CMD Timeout!" is reported only when they are used up.
RetryBudget ==
    /\ ch.last_cmd # NoCmd => writes + ch.retry = Retry + 1
    /\ timedOut => writes = Retry + 1

\* CMD_OK carries no identity, yet on a timely link m_cmdTimer is stopped only
\* after the device has received the very command that is outstanding.
AckMeansHeard == ~ch.cmdTimer /\ ch.last_cmd # NoCmd => heard

\* On a timely link "CMD Timeout!" is never a false alarm: every one of the
\* writes, or its answer, was lost.
TimeoutMeansLoss == timedOut => lost > Retry

\* On a timely link the channel implements CmdDelivery.
Delivery ==
    INSTANCE CmdDelivery WITH
        cur <- ch.last_cmd,
        phase <- IF ~ch.cmdTimer THEN "idle" ELSE IF heard THEN "heard" ELSE "sent"

DeliverySpec == Delivery!Spec

\* As long as no more than Retry messages of a command are lost, the channel
\* always becomes free again.
AlwaysFree == ch.cmdTimer ~> ~ch.cmdTimer
=============================================================================
