------------------------------- MODULE CmdOps -------------------------------
(***************************************************************************)
(* The stop-and-wait command channel of a DeviceController                 *)
(* (devicecontroller.cpp): one command is outstanding at a time, guarded   *)
(* by m_cmdTimer; a command asked for meanwhile is put in a backlog that a *)
(* second timer empties.  The channel is a record, so that a handler that  *)
(* sends several commands is a composition of these operators.             *)
(*                                                                         *)
(*   last_cmd, retry   cmd_resp_struct (the timeout itself is not kept:    *)
(*                     timers are actions, not clocks)                     *)
(*   cmdTimer          m_cmdTimer->isActive(); it is not single-shot, so   *)
(*                     it stays active when it expires                     *)
(*   backlog           m_bleUartSendCmdWithRespBacklog                     *)
(*   backlogRetries    m_bleUartSendCmdWithRespBacklogRetries              *)
(*   backlogTimer      m_bleUartSendCmdWithRespBacklogTimer->isActive();   *)
(*                     single-shot                                         *)
(*   air               what writeCharacteristic has handed to the radio    *)
(*                     and the device has not received yet, oldest first   *)
(***************************************************************************)
EXTENDS Integers, Sequences

CONSTANTS
    Retry,         \* default of the parameter retry (5)
    BacklogRetry   \* what m_bleUartSendCmdWithRespBacklogRetries is set to (3)

ASSUME RetryAssumption == Retry \in Nat /\ BacklogRetry \in Nat \ {0}

ChannelType(cmds, none) ==
    [last_cmd : cmds \cup {none}, retry : 0..Retry, cmdTimer : BOOLEAN,
     backlog : Seq(cmds), backlogRetries : 0..BacklogRetry,
     backlogTimer : BOOLEAN, air : Seq(cmds)]

\* The channel of a device that has just been initialised.
IdleChannel(none) ==
    [last_cmd |-> none, retry |-> 0, cmdTimer |-> FALSE, backlog |-> <<>>,
     backlogRetries |-> 0, backlogTimer |-> FALSE, air |-> <<>>]

\* Fault: the backlog is scheduled but the command is not put in it.
KeepNothing(ch, c) == [ch EXCEPT !.backlogRetries = BacklogRetry, !.backlogTimer = TRUE]

\* The branch of bleUartSendCmdWithResp taken while a command is outstanding.
KeepForLater(ch, c) ==
    [ch EXCEPT !.backlogRetries = BacklogRetry,
               !.backlog = Append(@, c),
               !.backlogTimer = TRUE]

\* Fault: one retry is used up by the first write.
StartCmdOneRetryShort(ch, c) ==
    [ch EXCEPT !.last_cmd = c, !.retry = IF Retry > 0 THEN Retry - 1 ELSE 0,
               !.cmdTimer = TRUE, !.air = Append(@, c)]

\* Fault: the retries left by the previous command are kept.
StartCmdKeepingRetry(ch, c) ==
    [ch EXCEPT !.last_cmd = c, !.cmdTimer = TRUE, !.air = Append(@, c)]

\* The other branch: c becomes the outstanding command and is written.
StartCmd(ch, c) ==
    [ch EXCEPT !.last_cmd = c, !.retry = Retry, !.cmdTimer = TRUE,
               !.air = Append(@, c)]

\* Fault: a command is sent although another one is outstanding.
SendWithoutWaiting(ch, c) == StartCmd(ch, c)

bleUartSendCmdWithResp(ch, c) ==
    IF ch.cmdTimer THEN KeepForLater(ch, c) ELSE StartCmd(ch, c)

\* CMD_OK and the replies whose handler calls m_cmdTimer->stop().
StopCmdTimer(ch) == [ch EXCEPT !.cmdTimer = FALSE]

\* Fault: the retries left are not looked at.
RetryForever(ch) == [ch EXCEPT !.retry = @ - 1, !.air = Append(@, ch.last_cmd)]

\* With no retry left only "CMD Timeout!" is reported and the timer runs on.
onCmdTimerExpired(ch) ==
    IF ch.retry > 0
    THEN [ch EXCEPT !.retry = @ - 1, !.air = Append(@, ch.last_cmd)]
    ELSE ch

Newest(q) == q[Len(q)]
WithoutNewest(q) == SubSeq(q, 1, Len(q) - 1)

\* The newest entry is asked for again.  While the channel is busy that call
\* appends one more copy of it and refills the retries it is counted with;
\* once the channel is free the entry is sent and popped, and nothing starts
\* the timer again for the entries below it.
onBacklogTimerExpired(ch) ==
    LET fired == [ch EXCEPT !.backlogTimer = FALSE]
        again == bleUartSendCmdWithResp(fired, Newest(ch.backlog))
    IN  IF ch.backlog = <<>> THEN fired
        ELSE IF ~ch.cmdTimer
             THEN [again EXCEPT !.backlog = WithoutNewest(@)]
        ELSE IF again.backlogRetries > 0
             THEN [again EXCEPT !.backlogRetries = @ - 1, !.backlogTimer = TRUE]
        ELSE again

\* The commands waiting in the backlog.
Waiting(ch) == {ch.backlog[i] : i \in DOMAIN ch.backlog}
=============================================================================
