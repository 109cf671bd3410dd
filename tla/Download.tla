------------------------------- MODULE Download -------------------------------
(***************************************************************************)
(* The download of all chunks of one device: the command channel (CmdOps)  *)
(* and the receiver (ChunkOps) of a DeviceController together, the device  *)
(* at the other end of the link, and the event queue of the main thread,   *)
(* where LogFileHandler writes the chunks to files.                        *)
(*                                                                         *)
(* The device is not part of the repository: it is modelled by the         *)
(* conversation that devicecontroller.cpp expects of it.  It offers one    *)
(* chunk at a time and goes on to the next when CMD_HC_ACK_OK follows the  *)
(* stream.  It answers CMD_OK to every command that has no reply of its    *)
(* own, and to CMD_REQUEST_MISSING_PACKAGE, because nothing else would     *)
(* stop m_cmdTimer.                                                        *)
(*                                                                         *)
(* Chunk k has Counts[k] packages; <<k, t>> is the payload of package t.   *)
(* The number of a chunk stands for its type, which names the file.        *)
(***************************************************************************)
EXTENDS CmdOps, ChunkOps

CONSTANTS
    Counts,      \* the packages of each chunk the device holds, in order
    NoCmd,       \* last_cmd before the first command
    NoFile,      \* the content of a file that has not been written
    Garbage,     \* what may be found in a payload that has been destroyed
    Timing,      \* the values of timely
    Prompt,      \* TRUE: the main thread has handled all events posted to it
                 \* before the DeviceController handles its next one
    Losable,     \* the messages outside a stream that the link may lose
    Mixed,       \* TRUE: the link may lose packages and also other messages
    MaxGap,      \* how many packages in a row the link may lose
    MaxPkgLoss,  \* bound: packages of a stream the link loses
    MaxLoss,     \* bound: commands and other messages the link loses
    MaxBacklog   \* bound: backlog length up to which it may grow

ASSUME DownloadAssumption ==
    /\ Counts \in Seq(Nat \ {0})
    /\ Mixed \in BOOLEAN
    /\ Timing \subseteq BOOLEAN
    /\ Prompt \in BOOLEAN
    /\ Losable \subseteq {"OK", "START", "NO_CHUNK", "ACK_PROC", "MISSED"}
    /\ MaxGap \in Nat
    /\ MaxPkgLoss \in Nat
    /\ MaxLoss \in Nat
    /\ MaxBacklog \in Nat

VARIABLES
    timely,     \* TRUE: a round trip takes less than 250 ms and timers started
                \* together expire in the order they were started; FALSE: they
                \* expire whenever, and nothing is lost
    ch,         \* the command channel (CmdOps)
    rx,         \* the receiver (ChunkOps)
    kind,       \* hc_transfer_struct.incoming_type: the chunk being received
    nextTimer,  \* m_nextRequestTimer->isActive(); single-shot
    inbox,      \* notifications on their way from the device, oldest first
    dev,        \* the device: its chunk, its phase, the next package, and how
                \* many before it in a row the link has lost
    mainq,      \* events posted to the main thread, oldest first
    files,      \* the content of the file of each chunk
    reported,   \* what allDataDownloaded has told the main thread
    pkgLosses,  \* packages lost so far
    losses      \* other messages lost so far

vars == <<timely, ch, rx, kind, nextTimer, inbox, dev, mainq, files, reported,
          pkgLosses, losses>>

central == <<ch, rx, kind, nextTimer, mainq>>
main == <<mainq, files, reported>>
budget == <<timely, pkgLosses, losses>>

Chunk == DOMAIN Counts

\* The content of the file of chunk k when nothing went wrong.
Whole(k) == [t \in 0..(Counts[k] - 1) |-> <<k, t>>]

ASSUME SentinelAssumption ==
    /\ None \notin Chunk \X Nat
    /\ \A k \in Chunk : NoFile # Whole(k)

\* The commands of the central; pkg is the argument of "MISSING".
Command(op) == [op |-> op, pkg |-> 0]
MissingCmd(i) == [op |-> "MISSING", pkg |-> i]

Message(op) == [op |-> op, chunk |-> 0, byte |-> 0, payload |-> None]

TypeOK ==
    /\ timely \in Timing
    /\ ch \in ChannelType([op : {"REQUEST", "START_OK", "ACK_OK", "MISSING", "OK"},
                           pkg : Nat], NoCmd)
    /\ IsReceiver(rx, Chunk \X Nat)
    /\ kind \in Chunk \cup {0}
    /\ nextTimer \in BOOLEAN
    /\ inbox \in Seq([op : {"OK", "START", "NO_CHUNK", "PKG", "ACK_PROC", "MISSED"},
                      chunk : Chunk \cup {0}, byte : 0..(Wrap - 1),
                      payload : (Chunk \X Nat) \cup {None}])
    /\ dev \in [chunk : 1..(Len(Counts) + 1),
                phase : {"idle", "offered", "streaming", "sent"},
                next : Nat, gap : 0..MaxGap]
    /\ \A i \in DOMAIN mainq : mainq[i].op \in {"WRITE", "DONE"}
    /\ DOMAIN files = Chunk
    /\ reported \in SUBSET BOOLEAN
    /\ pkgLosses \in 0..MaxPkgLoss
    /\ losses \in 0..MaxLoss

Init ==
    /\ timely \in Timing
    /\ ch = bleUartSendCmdWithResp(IdleChannel(NoCmd), Command("REQUEST"))
    /\ \E stale \in 0..1, flag \in BOOLEAN : rx = NewReceiver(stale, flag)
    /\ kind = 0
    /\ nextTimer = FALSE
    /\ inbox = <<>>
    /\ dev = [chunk |-> 1, phase |-> "idle", next |-> 0, gap |-> 0]
    /\ mainq = <<>>
    /\ files = [k \in Chunk |-> NoFile]
    /\ reported = {}
    /\ pkgLosses = 0
    /\ losses = 0

-----------------------------------------------------------------------------
(* Events for the main thread *)

Done(success) == [op |-> "DONE", success |-> success]

Destroyed(q) ==
    [i \in DOMAIN q |-> IF q[i].op = "WRITE" THEN [q[i] EXCEPT !.intact = FALSE]
                        ELSE q[i]]

\* The payload handed over by the previous call is destroyed, whether or not
\* the main thread has used it, and the slots are joined to a new one.
writeReceivedChunkToFile(q, r) ==
    Append(Destroyed(q),
           [op |-> "WRITE", chunk |-> kind, content |-> r.vec, intact |-> TRUE])

\* writeTypeToLogFil: the file of that name is opened anew and overwritten.
MainThread ==
    /\ mainq # <<>>
    /\ LET e == Head(mainq) IN
       \/ /\ e.op = "WRITE"
          /\ \E data \in {e.content} \cup (IF e.intact THEN {} ELSE {Garbage}) :
                files' = [files EXCEPT ![e.chunk] = data]
          /\ UNCHANGED reported
       \/ /\ e.op = "DONE"
          /\ reported' = reported \cup {e.success}
          /\ UNCHANGED files
    /\ mainq' = Tail(mainq)
    /\ UNCHANGED <<ch, rx, kind, nextTimer, inbox, dev, budget>>

-----------------------------------------------------------------------------
(* Timers of the DeviceController.  m_cmdTimer takes 500 ms, the other two  *)
(* 250 ms, and hugeChunkDownloadFinished starts m_nextRequestTimer right   *)
(* after the acknowledgement may have started the backlog timer.  On the   *)
(* timely link the two then expire in that order and one right after the   *)
(* other: the backlog timer may have been restarted meanwhile, but the     *)
(* channel it found busy is still busy.                                    *)

\* Each restart of the backlog timer takes one of its retries.
Restarted == ch.backlogRetries < BacklogRetry

\* Nothing that answers a command is on its way.
NoAnswerDue ==
    /\ ch.air = <<>>
    /\ \A i \in DOMAIN inbox : inbox[i].op \in {"PKG", "ACK_PROC"}

\* Without a retry left the failure of a request for sensor data is reported,
\* each time the timer expires.
CmdTimerExpires ==
    /\ ch.cmdTimer
    /\ timely => NoAnswerDue
    /\ ch' = onCmdTimerExpired(ch)
    /\ mainq' = IF ch.retry = 0 /\ ch.last_cmd.op = "REQUEST"
                   /\ Done(FALSE) \notin {mainq[i] : i \in DOMAIN mainq}
                THEN Append(mainq, Done(FALSE)) ELSE mainq
    /\ UNCHANGED <<rx, kind, nextTimer, inbox, dev, files, reported, budget>>

BacklogTimerExpires ==
    /\ ch.backlogTimer
    /\ timely => NoAnswerDue \/ (ch.cmdTimer /\ ch.retry < Retry)
    /\ ch.cmdTimer => Len(ch.backlog) < MaxBacklog
    /\ ch' = onBacklogTimerExpired(ch)
    /\ UNCHANGED <<rx, kind, nextTimer, inbox, dev, main, budget>>

\* onNextRequestTimerExpired: sendRequestSensorData.
NextRequestTimerExpires ==
    /\ nextTimer
    /\ timely /\ ch.backlogTimer => Restarted /\ ch.cmdTimer
    /\ nextTimer' = FALSE
    /\ ch' = bleUartSendCmdWithResp(ch, Command("REQUEST"))
    /\ UNCHANGED <<rx, kind, inbox, dev, main, budget>>

-----------------------------------------------------------------------------
(* Notifications that arrive at the DeviceController (bleUartRx) *)

Notified(op) ==
    /\ inbox # <<>>
    /\ Head(inbox).op = op
    /\ inbox' = Tail(inbox)
    /\ UNCHANGED <<dev, files, reported, budget>>

OkArrives ==
    /\ Notified("OK")
    /\ ch' = StopCmdTimer(ch)
    /\ UNCHANGED <<rx, kind, nextTimer, mainq>>

onStartHugeChunkArrived ==
    /\ Notified("START")
    /\ kind' = Head(inbox).chunk
    /\ rx' = StartChunk(rx, Counts[Head(inbox).chunk])
    /\ ch' = bleUartSendCmdWithResp(StopCmdTimer(ch), Command("START_OK"))
    /\ UNCHANGED <<nextTimer, mainq>>

PackageArrives ==
    /\ Notified("PKG")
    /\ rx' = ReceivePackage(rx, Head(inbox).byte, Head(inbox).payload)
    /\ UNCHANGED <<ch, kind, nextTimer, mainq>>

sendAckOkHugeChunk(c) == bleUartSendCmdWithResp(c, Command("ACK_OK"))

\* Fault: the chunk is acknowledged and not written.
FinishedUnwritten(c, r, q) ==
    /\ ch' = sendAckOkHugeChunk(c)
    /\ mainq' = q
    /\ nextTimer' = TRUE

\* Fault: the next chunk is not asked for.
FinishedForGood(c, r, q) ==
    /\ ch' = sendAckOkHugeChunk(c)
    /\ mainq' = writeReceivedChunkToFile(q, r)
    /\ UNCHANGED nextTimer

\* The chunk is acknowledged before it is written.
hugeChunkDownloadFinished(c, r, q) ==
    /\ ch' = sendAckOkHugeChunk(c)
    /\ mainq' = writeReceivedChunkToFile(q, r)
    /\ nextTimer' = TRUE

sendRequestMissingPackage(c, r) ==
    /\ ch' = bleUartSendCmdWithResp(c, MissingCmd(Least(r.missed)))
    /\ rx' = NextMissing(r)

onStartHugeChunkAckProcArrived ==
    /\ Notified("ACK_PROC")
    /\ LET r == CheckChunk(rx) IN
       \/ /\ r.missed_cnt = 0
          /\ hugeChunkDownloadFinished(ch, r, mainq)
          /\ rx' = r
       \/ /\ r.missed_cnt # 0
          /\ sendRequestMissingPackage(ch, r)
          /\ UNCHANGED <<nextTimer, mainq>>
    /\ UNCHANGED kind

\* After the last reply the chunk is acknowledged and written here and once
\* more by hugeChunkDownloadFinished.
onReplyMissingPackageArrived ==
    /\ Notified("MISSED")
    /\ LET r == StoreMissing(rx, Head(inbox).payload) IN
       \/ /\ r.missed # {}
          /\ sendRequestMissingPackage(ch, r)
          /\ UNCHANGED <<nextTimer, mainq>>
       \/ /\ r.missed = {}
          /\ hugeChunkDownloadFinished(sendAckOkHugeChunk(ch), r,
                                       writeReceivedChunkToFile(mainq, r))
          /\ rx' = r
    /\ UNCHANGED kind

onNoChunkAvailableArrived ==
    /\ Notified("NO_CHUNK")
    /\ ch' = [StopCmdTimer(ch) EXCEPT !.air = Append(@, Command("OK"))]
    /\ mainq' = Append(mainq, Done(TRUE))
    /\ UNCHANGED <<rx, kind, nextTimer>>

-----------------------------------------------------------------------------
(* The device (external) *)

Offer == IF dev.chunk \in Chunk
         THEN [Message("START") EXCEPT !.chunk = dev.chunk]
         ELSE Message("NO_CHUNK")

MissedReply(i) ==
    [Message("MISSED") EXCEPT !.payload = IF dev.chunk \in Chunk
                                          THEN <<dev.chunk, i>> ELSE None]

\* The answers to command c, in every order the central may see them.
Answers(c) ==
    CASE c.op = "REQUEST" -> {<<Offer>>}
      [] c.op = "MISSING" -> {<<Message("OK"), MissedReply(c.pkg)>>,
                              <<MissedReply(c.pkg), Message("OK")>>}
      [] c.op \in {"START_OK", "ACK_OK"} -> {<<Message("OK")>>}
      [] c.op = "OK" -> {<<>>}

DeviceHears ==
    /\ ch.air # <<>>
    /\ LET c == Head(ch.air) IN
       /\ \E a \in Answers(c) : inbox' = inbox \o a
       /\ dev' =
            IF c.op = "REQUEST" /\ dev.chunk \in Chunk
            THEN [dev EXCEPT !.phase = "offered"]
            ELSE IF c.op = "START_OK" /\ dev.phase = "offered"
            THEN [dev EXCEPT !.phase = "streaming", !.next = 0, !.gap = 0]
            ELSE IF c.op = "ACK_OK" /\ dev.phase = "sent"
            THEN [dev EXCEPT !.phase = "idle", !.chunk = @ + 1]
            ELSE dev
    /\ ch' = [ch EXCEPT !.air = Tail(@)]
    /\ UNCHANGED <<rx, kind, nextTimer, main, budget>>

DeviceStreams ==
    /\ dev.phase = "streaming"
    /\ dev.next < Counts[dev.chunk]
    /\ \/ /\ inbox' = Append(inbox,
                        [op |-> "PKG", chunk |-> dev.chunk, byte |-> dev.next % Wrap,
                         payload |-> <<dev.chunk, dev.next>>])
          /\ dev' = [dev EXCEPT !.next = @ + 1, !.gap = 0]
          /\ UNCHANGED pkgLosses
       \/ /\ pkgLosses < MaxPkgLoss
          /\ timely
          /\ losses = 0 \/ Mixed
          /\ dev.next > 0
          /\ dev.gap < MaxGap
          /\ dev' = [dev EXCEPT !.next = @ + 1, !.gap = @ + 1]
          /\ pkgLosses' = pkgLosses + 1
          /\ UNCHANGED inbox
    /\ UNCHANGED <<central, files, reported, timely, losses>>

DeviceEndsStream ==
    /\ dev.phase = "streaming"
    /\ dev.next = Counts[dev.chunk]
    /\ dev' = [dev EXCEPT !.phase = "sent"]
    /\ inbox' = Append(inbox, Message("ACK_PROC"))
    /\ UNCHANGED <<central, files, reported, budget>>

\* The link may lose a command, or a message that is not part of a stream.
MayLose == timely /\ losses < MaxLoss /\ (pkgLosses = 0 \/ Mixed)

LoseCmd ==
    /\ ch.air # <<>>
    /\ MayLose
    /\ losses' = losses + 1
    /\ ch' = [ch EXCEPT !.air = Tail(@)]
    /\ UNCHANGED <<rx, kind, nextTimer, inbox, dev, main, timely, pkgLosses>>

LoseMessage ==
    /\ inbox # <<>>
    /\ Head(inbox).op \in Losable
    /\ MayLose
    /\ losses' = losses + 1
    /\ inbox' = Tail(inbox)
    /\ UNCHANGED <<central, dev, files, reported, timely, pkgLosses>>

-----------------------------------------------------------------------------

Timers == CmdTimerExpires \/ BacklogTimerExpires \/ NextRequestTimerExpires

bleUartRx ==
    \/ OkArrives
    \/ onStartHugeChunkArrived
    \/ PackageArrives
    \/ onStartHugeChunkAckProcArrived
    \/ onReplyMissingPackageArrived
    \/ onNoChunkAvailableArrived

\* An event that the thread of the DeviceController handles.
Controller(Event) == (Prompt => mainq = <<>>) /\ Event

Device == DeviceHears \/ DeviceStreams \/ DeviceEndsStream

Link == LoseCmd \/ LoseMessage

Next == MainThread \/ Controller(Timers) \/ Controller(bleUartRx) \/ Device \/ Link

Spec == Init /\ [][Next]_vars

\* Both threads run their event loops, and a device in range answers.
Fairness ==
    /\ WF_vars(MainThread)
    /\ WF_vars(Controller(CmdTimerExpires))
    /\ WF_vars(Controller(BacklogTimerExpires))
    /\ WF_vars(Controller(NextRequestTimerExpires))
    /\ WF_vars(Controller(bleUartRx))
    /\ WF_vars(DeviceHears)
    /\ WF_vars(DeviceStreams)
    /\ WF_vars(DeviceEndsStream)

FairSpec == Spec /\ Fairness

-----------------------------------------------------------------------------

\* The main thread ends up with every chunk whole, in the device's order, and
\* hears of success (allDataDownloaded) only when the last one is on disk:
\* whatever was lost of the streams and requested again, and although a
\* repaired chunk is written twice.
Saved ==
    INSTANCE ChunkDelivery WITH
        N <- Len(Counts),
        saved <- {k \in Chunk : files[k] = Whole(k)},
        told <- reported

SavesInOrder == Saved!Spec

\* CMD_HC_ACK_OK names no chunk and leaves before the chunk is written, maybe
\* twice; still the device lets go of a chunk only when it is whole on disk or
\* whole in an event for the thread that writes it.
AckMeansWritten ==
    \A k \in Chunk : k < dev.chunk =>
        \/ files[k] = Whole(k)
        \/ \E i \in DOMAIN mainq :
              /\ mainq[i].op = "WRITE"
              /\ mainq[i].chunk = k
              /\ mainq[i].content = Whole(k)

\* The download comes to an end although packages, commands and answers that
\* are asked for again are lost, as long as answers come in time: no command is
\* left waiting for good.
DownloadEnds == timely => <>(TRUE \in reported)

\* The comment on m_last_hc_payload_ptr (devicecontroller.h): the payload that
\* is handed to the file handler is destroyed there, so it is intact until then.
PayloadIsIntact ==
    \A i \in DOMAIN mainq : mainq[i].op = "WRITE" => mainq[i].intact
=============================================================================
