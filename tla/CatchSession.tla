----------------------------- MODULE CatchSession -----------------------------
(***************************************************************************)
(* From the start of a recording to the files of a catch: CatchController  *)
(* (catchcontroller.cpp, Linux build) starts and stops the wearables,      *)
(* passes a trigger on, prompts the user when all have data, downloads one *)
(* device after the other and finishes the log.  It lives in the main      *)
(* thread together with LogFileHandler; each DeviceController sends it     *)
(* events in order, and takes its commands when it can.                    *)
(*                                                                         *)
(* What happens between a request for sensor data and its end is module    *)
(* Download; here a device that is asked hands over its recording and      *)
(* reports the end, or stays silent.  What a backlog does to the order of  *)
(* commands is left open: those under way form a set.                      *)
(*                                                                         *)
(* The wearables are external.  A recording is named by the start that     *)
(* began it.                                                               *)
(***************************************************************************)
EXTENDS Integers, Sequences, FiniteSets

CONSTANTS
    N,          \* devices in m_device_list; their indices are 0..N-1
    Wearables,  \* those of them whose type is Wearable
    Garbage,    \* what m_sensorDataWaitingForDownload may hold at first
    UserWaits,  \* the user lets the devices settle and whatever is left of a download
                \* end first, and starts no recording after an error
    MaxStart,   \* bound: starts
    MaxIndex,   \* bound: m_currFileIndex
    MaxEvents,  \* bound: events of one device under way
    MaxMishap   \* bound: requests for sensor data that go unanswered or are repeated

ASSUME CatchSessionAssumption ==
    /\ N \in Nat \ {0}
    /\ Wearables \subseteq 0..(N - 1)
    /\ Garbage \subseteq BOOLEAN
    /\ UserWaits \in BOOLEAN
    /\ {MaxStart, MaxIndex, MaxEvents, MaxMishap} \subseteq Nat

Dev == 0..(N - 1)
Rec == 1..MaxStart
None == 0  \* no recording

VARIABLES
    cc,        \* the CatchController: m_bleUplEnabled, id_in_dl, download_state,
               \* m_downloadTimer.isActive() and the devices whose
               \* m_sensorDataWaitingForDownload is true
    popup,     \* the user is being asked for CATCH, DROP or FLOP
    index,     \* m_currFileIndex
    files,     \* by index and device: the recording in the files of that name
    cmds,      \* the commands under way to each device
    ev,        \* the events of each device for the main thread, oldest first
    dev,       \* each device: its phase, its recording, an announcement that has
               \* not been confirmed yet
    ticking,   \* the devices whose m_cmdTimer goes on without a retry left
    starts,    \* ghost: calls of sendStartToAllDevices
    confirmed, \* ghost: what the devices held when that index was confirmed
    announced, \* ghost: devices whose data has been announced since the last start
    reported,  \* the user has been told how the download ended
    erred,     \* invokeQmlError has been emitted
    mishaps    \* requests that have gone unanswered or been repeated though they arrived

vars == <<cc, popup, index, files, cmds, ev, dev, ticking, starts, confirmed,
          announced, reported, erred, mishaps>>

ghosts == <<starts, confirmed, announced>>
outcome == <<index, files, confirmed, reported, erred>>
device == <<dev, ticking, mishaps>>

Cmd == [op : {"START"}, rec : Rec]
       \cup [op : {"STOP", "TRIGGER", "REQUEST", "OK"}, rec : {None}]
Plain(op) == [op |-> op, rec |-> None]

Event == [op : {"WRITE"}, rec : Rec]
         \cup [op : {"TRIGGERED", "AVAILABLE", "DONE", "FAILED"}, rec : {None}]

TypeOK ==
    /\ cc \in [bleUpl : BOOLEAN, idInDl : Dev, state : {"UNSET", "NOT_RUNNING", "DOWNLOADING"},
               timer : BOOLEAN, waiting : SUBSET Dev]
    /\ {popup, reported, erred} \subseteq BOOLEAN
    /\ index \in 0..MaxIndex
    /\ files \in [0..MaxIndex -> [Dev -> Rec \cup {None}]]
    /\ confirmed \in [0..MaxIndex -> [Dev -> Rec \cup {None}]]
    /\ cmds \in [Dev -> SUBSET Cmd]
    /\ ev \in [Dev -> Seq(Event)]
    /\ dev \in [Dev -> [phase : {"stopped", "running", "triggered", "waiting"},
                        rec : Rec \cup {None}, announces : BOOLEAN]]
    /\ ticking \cup announced \subseteq Dev
    /\ starts \in 0..MaxStart
    /\ mishaps \in 0..MaxMishap

NoFiles == [d \in Dev |-> None]

\* m_bleUplEnabled and the flags of the devices have no initial value; the
\* buttons are enabled after setLoggingMedia has set the former.
Init ==
    /\ \E ble \in BOOLEAN, waiting \in [Dev -> Garbage] :
          cc = [bleUpl |-> ble, idInDl |-> 0, state |-> "UNSET", timer |-> FALSE,
                waiting |-> {d \in Dev : waiting[d]}]
    /\ cmds = [d \in Dev |-> {}]
    /\ popup = FALSE
    /\ index = 0
    /\ files = [i \in 0..MaxIndex |-> NoFiles]
    /\ ev = [d \in Dev |-> <<>>]
    /\ dev = [d \in Dev |-> [phase |-> "stopped", rec |-> None, announces |-> FALSE]]
    /\ ticking = {}
    /\ starts = 0
    /\ confirmed = [i \in 0..MaxIndex |-> NoFiles]
    /\ announced = {}
    /\ reported = TRUE
    /\ erred = FALSE
    /\ mishaps = 0

\* A command to some devices is added to those under way.
Sent(op, to) == [d \in Dev |-> IF d \in to THEN cmds[d] \cup {Plain(op)} ELSE cmds[d]]

-----------------------------------------------------------------------------
(* The user *)

\* No download is running and nothing of one is on its way.
AtRest ==
    /\ cc.state # "DOWNLOADING"
    /\ ticking = {}
    /\ \A d \in Dev :
          /\ Plain("REQUEST") \notin cmds[d]
          /\ \A i \in DOMAIN ev[d] : ev[d][i].op \notin {"WRITE", "DONE", "FAILED"}

\* In addition every device is waiting, and no start is on its way.
Settled ==
    /\ AtRest
    /\ \A d \in Dev : dev[d].phase = "waiting" /\ \A c \in cmds[d] : c.op # "START"

\* Not offered while the prompt is shown, which is modal; the progress of a
\* download is not.
sendStartToAllDevices ==
    /\ ~popup
    /\ UserWaits => ~erred /\ AtRest
    /\ starts < MaxStart
    /\ starts' = starts + 1
    /\ cmds' = [d \in Dev |-> cmds[d] \cup {[op |-> "START", rec |-> starts + 1]}]
    /\ announced' = {}
    /\ UNCHANGED <<cc, popup, ev, device, outcome>>

sendStopToAllDevices ==
    /\ ~popup
    /\ starts > 0
    /\ cmds' = Sent("STOP", Dev)
    /\ UNCHANGED <<cc, popup, ev, device, outcome, starts, announced>>

\* Fault: nobody watches over the download.
UnwatchedDownload(c, id) ==
    /\ cc' = [c EXCEPT !.idInDl = id, !.state = "DOWNLOADING"]
    /\ cmds' = Sent("REQUEST", {id})

\* Fault: all devices are asked at once.
AskAll(c, id) ==
    /\ cc' = [c EXCEPT !.idInDl = id, !.state = "DOWNLOADING", !.timer = TRUE]
    /\ cmds' = Sent("REQUEST", Dev)

startDownloadOfDevX(c, id) ==
    /\ cc' = [c EXCEPT !.idInDl = id, !.state = "DOWNLOADING", !.timer = TRUE]
    /\ cmds' = Sent("REQUEST", {id})

\* CATCH and DROP differ in the log only, which a FLOP finishes at once.  When
\* the wearables log to their card only, they are told the answer and no more:
\* neither the log nor the index is finished.
onCatchSuccessConfirmed(answer) ==
    /\ popup
    /\ popup' = FALSE
    /\ \/ /\ answer = "FLOP"
          /\ index < MaxIndex
          /\ index' = index + 1
          /\ UserWaits => cc.state # "DOWNLOADING"
          /\ UNCHANGED <<cc, cmds, confirmed, reported>>
       \/ /\ answer \in {"CATCH", "DROP"}
          /\ cc.bleUpl
          /\ startDownloadOfDevX(cc, 0)
          /\ confirmed' = [confirmed EXCEPT ![index] = [d \in Dev |-> dev[d].rec]]
          /\ UserWaits => Settled
          /\ reported' = FALSE
          /\ UNCHANGED index
       \/ /\ answer \in {"CATCH", "DROP"}
          /\ ~cc.bleUpl
          /\ UNCHANGED <<cc, cmds, index, confirmed, reported>>
    /\ UNCHANGED <<files, ev, device, starts, announced, erred>>

-----------------------------------------------------------------------------
(* Events of the devices in the main thread *)

Handles(d, op) ==
    /\ ev[d] # <<>>
    /\ Head(ev[d]).op = op
    /\ ev' = [ev EXCEPT ![d] = Tail(@)]

\* m_triggerTimestamp is set to 0 and to nothing else: every trigger is passed
\* on, younger ones too.
onRequestDispatchToOtherDevices(d) ==
    /\ Handles(d, "TRIGGERED")
    /\ cmds' = Sent("TRIGGER", Dev \ {d})
    /\ UNCHANGED <<cc, popup, device, outcome, starts, announced>>

\* The flag is set here and reset nowhere.
onSensorDataAvailableArrived(d) ==
    /\ Handles(d, "AVAILABLE")
    /\ cc' = [cc EXCEPT !.waiting = @ \cup {d}]
    /\ cmds' = Sent("OK", {d})
    /\ popup' = (popup \/ Wearables \subseteq cc'.waiting)
    /\ announced' = announced \cup {d}
    /\ UNCHANGED <<device, outcome, starts>>

\* writeTypeToLogFil: the file of that index and device is written anew.
writeTypeToLogFil(d) ==
    /\ Handles(d, "WRITE")
    /\ files' = [files EXCEPT ![index][d] = Head(ev[d]).rec]
    /\ UNCHANGED <<cc, popup, index, cmds, device, ghosts, reported, erred>>

\* Fault: the index goes on with every device.
IndexPerDevice(d) ==
    /\ \E success \in BOOLEAN :
          /\ Handles(d, IF success THEN "DONE" ELSE "FAILED")
          /\ erred' = (erred \/ ~success)
          /\ index < MaxIndex
          /\ index' = index + 1
          /\ \/ /\ d + 1 < N
                /\ startDownloadOfDevX(cc, d + 1)
                /\ reported' = (reported \/ ~success)
             \/ /\ d + 1 = N
                /\ cc' = [cc EXCEPT !.timer = FALSE, !.state = "NOT_RUNNING"]
                /\ reported' = TRUE
                /\ UNCHANGED cmds
    /\ UNCHANGED <<popup, files, device, ghosts>>

\* Fault: the next device is asked and the index left as it is.
IndexIsKept(d) ==
    /\ \E success \in BOOLEAN :
          /\ Handles(d, IF success THEN "DONE" ELSE "FAILED")
          /\ erred' = (erred \/ ~success)
          /\ \/ /\ d + 1 < N
                /\ startDownloadOfDevX(cc, d + 1)
                /\ reported' = (reported \/ ~success)
             \/ /\ d + 1 = N
                /\ cc' = [cc EXCEPT !.timer = FALSE, !.state = "NOT_RUNNING"]
                /\ reported' = TRUE
                /\ UNCHANGED cmds
    /\ UNCHANGED <<popup, index, files, device, ghosts>>

\* Fault: one device more than there are.
OneTooMany(d) ==
    /\ \E success \in BOOLEAN :
          /\ Handles(d, IF success THEN "DONE" ELSE "FAILED")
          /\ erred' = (erred \/ ~success)
          /\ startDownloadOfDevX(cc, d + 1)
          /\ reported' = (reported \/ ~success)
    /\ UNCHANGED <<popup, index, files, device, ghosts>>

\* onDownloadOfDeviceXfinished: failed or not, and whichever device it is, the
\* next one is asked; after the last one the log and the index are finished.
onDownloadOfDeviceXfinished(d) ==
    /\ \E success \in BOOLEAN :
          /\ Handles(d, IF success THEN "DONE" ELSE "FAILED")
          /\ erred' = (erred \/ ~success)
          /\ \/ /\ d + 1 < N
                /\ startDownloadOfDevX(cc, d + 1)
                /\ reported' = (reported \/ ~success)
                /\ UNCHANGED index
             \/ /\ d + 1 = N
                /\ cc' = [cc EXCEPT !.timer = FALSE, !.state = "NOT_RUNNING"]
                /\ index < MaxIndex
                /\ index' = index + 1
                /\ reported' = TRUE
                /\ UNCHANGED cmds
    /\ UNCHANGED <<popup, files, device, ghosts>>

\* download_state stays as it is.
onDownloadTimerExpired ==
    /\ cc.timer
    /\ cc' = [cc EXCEPT !.timer = FALSE]
    /\ reported' = TRUE
    /\ erred' = TRUE
    /\ UNCHANGED <<popup, index, files, cmds, ev, device, ghosts>>

-----------------------------------------------------------------------------
(* The wearables (external) and their DeviceController, as far as it has a  *)
(* part in it                                                              *)

Emits(d, events) ==
    /\ Len(ev[d]) < MaxEvents
    /\ ev' = [ev EXCEPT ![d] = @ \o events]

TriggersItself(d) ==
    /\ dev[d].phase = "running"
    /\ dev' = [dev EXCEPT ![d].phase = "triggered"]
    /\ Emits(d, <<Plain("TRIGGERED")>>)
    /\ UNCHANGED <<cc, popup, cmds, ticking, mishaps, outcome, starts, announced>>

\* CMD_SENSORDATA_AVAILABLE is repeated until CMD_OK has been heard.
Announces(d) ==
    /\ \/ dev[d].phase = "triggered"
       \/ dev[d].phase = "waiting" /\ dev[d].announces
    /\ dev' = [dev EXCEPT ![d].phase = "waiting", ![d].announces = TRUE]
    /\ Emits(d, <<Plain("AVAILABLE")>>)
    /\ UNCHANGED <<cc, popup, cmds, ticking, mishaps, outcome, starts, announced>>

Hears(d, op) ==
    /\ d \notin ticking
    /\ \E c \in cmds[d] :
          /\ c.op = op
          /\ cmds' = [cmds EXCEPT ![d] = @ \ {c}]
          /\ dev' = CASE op = "START" /\ dev[d].phase \in {"stopped", "waiting"} ->
                           [dev EXCEPT ![d] = [phase |-> "running", rec |-> c.rec,
                                               announces |-> FALSE]]
                      [] op = "STOP" /\ dev[d].phase = "running" ->
                           [dev EXCEPT ![d].phase = "stopped", ![d].rec = None]
                      [] op = "TRIGGER" /\ dev[d].phase = "running" ->
                           [dev EXCEPT ![d].phase = "triggered"]
                      [] op = "OK" -> [dev EXCEPT ![d].announces = FALSE]
                      [] OTHER -> dev
    /\ UNCHANGED <<cc, popup, ev, ticking, mishaps, outcome, starts, announced>>

\* A recording is handed over once; without one CMD_REQUEST_SENSORDATA is
\* answered by "no chunk available", which reports success as well.
Serves(d) ==
    /\ Emits(d, IF dev[d].phase = "waiting"
                THEN <<[op |-> "WRITE", rec |-> dev[d].rec], Plain("DONE")>>
                ELSE <<Plain("DONE")>>)
    /\ dev' = IF dev[d].phase = "waiting"
              THEN [dev EXCEPT ![d] = [phase |-> "stopped", rec |-> None, announces |-> FALSE]]
              ELSE dev

\* The request is repeated if the CMD_OK that answered it has been lost or is late:
\* then the device answers once more, and the end of the download is told twice.
RequestArrives(d) ==
    /\ d \notin ticking
    /\ Plain("REQUEST") \in cmds[d]
    /\ Serves(d)
    /\ \/ cmds' = [cmds EXCEPT ![d] = @ \ {Plain("REQUEST")}] /\ UNCHANGED mishaps
       \/ mishaps < MaxMishap /\ mishaps' = mishaps + 1 /\ UNCHANGED cmds
    /\ UNCHANGED <<cc, popup, ticking, outcome, starts, announced>>

\* No answer: either the download halts without a timer of the DeviceController
\* running, or the retries of the request run out.
RequestIsLost(d) ==
    /\ d \notin ticking
    /\ Plain("REQUEST") \in cmds[d]
    /\ mishaps < MaxMishap
    /\ mishaps' = mishaps + 1
    /\ cmds' = [cmds EXCEPT ![d] = @ \ {Plain("REQUEST")}]
    /\ ticking' \in {ticking, ticking \cup {d}}
    /\ UNCHANGED <<cc, popup, ev, dev, outcome, starts, announced>>

\* onCmdTimerExpired without a retry left, again and again.
CmdTimerTicks(d) ==
    /\ d \in ticking
    /\ \A i \in DOMAIN ev[d] : ev[d][i].op # "FAILED"
    /\ Emits(d, <<Plain("FAILED")>>)
    /\ UNCHANGED <<cc, popup, cmds, device, outcome, starts, announced>>

\* A late answer to the request stops the timer.
LateAnswer(d) ==
    /\ d \in ticking
    /\ ticking' = ticking \ {d}
    /\ Serves(d)
    /\ UNCHANGED <<cc, popup, cmds, mishaps, outcome, starts, announced>>

-----------------------------------------------------------------------------

MainThread(d) ==
    \/ onRequestDispatchToOtherDevices(d)
    \/ onSensorDataAvailableArrived(d)
    \/ writeTypeToLogFil(d)
    \/ onDownloadOfDeviceXfinished(d)

Next ==
    \/ sendStartToAllDevices
    \/ sendStopToAllDevices
    \/ \E answer \in {"CATCH", "DROP", "FLOP"} : onCatchSuccessConfirmed(answer)
    \/ onDownloadTimerExpired
    \/ \E d \in Dev :
          \/ MainThread(d)
          \/ TriggersItself(d)
          \/ Announces(d)
          \/ \E op \in {"START", "STOP", "TRIGGER", "OK"} : Hears(d, op)
          \/ RequestArrives(d)
          \/ RequestIsLost(d)
          \/ CmdTimerTicks(d)
          \/ LateAnswer(d)

Spec == Init /\ [][Next]_vars

\* The main thread runs its event loop and its timer expires.
Fairness ==
    /\ WF_vars(onDownloadTimerExpired)
    /\ \A d \in Dev : WF_vars(MainThread(d))

FairSpec == Spec /\ Fairness

-----------------------------------------------------------------------------

\* The user has done nothing too early and has not been told of an error.
Undisturbed == UserWaits /\ ~erred

\* The files of a finished index are the recordings the devices held when the
\* user confirmed the catch: all of them, and none of another catch, although
\* the index is a counter shared by events of several devices.
IndexIsACatch == Undisturbed => \A i \in 0..(index - 1) : files[i] = confirmed[i]

\* The files of one recording are not overwritten by those of another, unless
\* the user has been told of an error before.
KeptUnlessTold ==
    [][\A i \in 0..MaxIndex, d \in Dev :
          Undisturbed /\ files[i][d] # None => files'[i][d] = files[i][d]]_vars

\* Recordings are handed over one after the other, although the end of a download
\* may be told twice, the devices after it be asked twice, and so several devices
\* be asked at once: no device that still has its recording is asked before that
\* of the device before it has been taken from the queue.
HandsOver(d) ==
    \/ \E i \in DOMAIN ev[d] : ev[d][i].op = "WRITE"
    \/ dev[d].phase = "waiting" /\ (Plain("REQUEST") \in cmds[d] \/ d \in ticking)
OneAtATime == Undisturbed => Cardinality({d \in Dev : HandsOver(d)}) <= 1

\* A download that was confirmed ends with a message to the user, whatever the
\* devices do.
ToldAtTheEnd == ~reported ~> reported

\* catchcontroller.h on allWearablesAreWaitingForDownload: the user is prompted
\* when all wearables are waiting: each has announced data since the start.
PromptMeansWaiting == [][~popup /\ popup' => Wearables \subseteq announced']_vars
=============================================================================
