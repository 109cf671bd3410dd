------------------------------- MODULE ConnMode -------------------------------
(***************************************************************************)
(* The change to fast connection parameters that precedes a time sync, a   *)
(* download and a start of the recording on Android: CatchController       *)
(* (catchcontroller.cpp) asks the controllers of the devices concerned,    *)
(* counts their answers and goes on with what was waiting; a               *)
(* DeviceController (devicecontroller.cpp) asks its device and the central *)
(* and waits, with retries, until the device reports the mode.             *)
(*                                                                         *)
(* CatchController lives in the main thread, each DeviceController in one  *)
(* of its own; calls and answers are queued.  As nothing is slowed down    *)
(* (CHANGE_CONN_PARAM_OF_OTHER_DEVICES is 0), FAST is the only mode ever   *)
(* asked for.  TimeSyncHandler and the download are modules of their own;  *)
(* here they end some time after they began.                               *)
(***************************************************************************)
EXTENDS Integers, Sequences, FiniteSets

CONSTANTS
    N,        \* devices in m_device_list; their indices are 0..N-1
    Retries,  \* retries_remaining at first: 4
    MaxBegin  \* bound: procedures the user or the connection begins

ASSUME ConnModeAssumption ==
    /\ N \in Nat \ {0}
    /\ Retries \in Nat
    /\ MaxBegin \in Nat

Dev == 0..(N - 1)
States == {"UNSET", "SETTING_CONN_MODE", "RUNNING", "NOT_RUNNING"}
Kind == {"ts", "dl", "start"}

VARIABLES
    state,     \* time_sync_state, download_state and sending_start_state; RUNNING
               \* stands for SYNCING and DOWNLOADING
    remaining, \* remaining_c
    id,        \* id_in_sync and id_in_dl
    timer,     \* m_timesyncTimer and m_downloadTimer, if active
    work,      \* syncs and downloads that have begun and not ended
    calls,     \* each device: calls of startConnModeChangeProcedure under way
    fast,      \* each device: its last CONN_PARAM_INFO has FAST for both modes
    waits,     \* each device: m_connParamTimer->isActive()
    retries,   \* each device: retries_remaining
    answers,   \* each device: requestedConnModeReached on its way, oldest first
    begun,     \* procedures begun
    alone,     \* ghost: no call, wait, answer or work of its kind was under way when
               \* the last procedure began
    reached,   \* ghost: devices that have answered well since then
    told       \* invokeQmlError has been emitted since the last start

central == <<state, remaining, id, timer, work>>
device == <<calls, fast, waits, retries, answers>>
vars == <<central, device, begun, alone, reached, told>>

TypeOK ==
    /\ state \in [Kind -> States]
    /\ remaining \in Int
    /\ id \in [{"ts", "dl"} -> Dev]
    /\ timer \subseteq {"ts", "dl"}
    /\ work \subseteq {"ts", "dl"} \X Dev
    /\ calls \in [Dev -> Nat]
    /\ fast \in [Dev -> BOOLEAN]
    /\ waits \in [Dev -> BOOLEAN]
    /\ retries \in [Dev -> 0..Retries]
    /\ answers \in [Dev -> Seq(BOOLEAN)]
    /\ begun \in Nat
    /\ alone \in BOOLEAN
    /\ reached \subseteq Dev
    /\ told \in BOOLEAN

\* The states of CatchController have no initial value: UNSET is none that the
\* code compares with.
Init ==
    /\ state = [k \in Kind |-> "UNSET"]
    /\ remaining = 0
    /\ id = [k \in {"ts", "dl"} |-> 0]
    /\ timer = {}
    /\ work = {}
    /\ calls = [d \in Dev |-> 0]
    /\ fast = [d \in Dev |-> FALSE]
    /\ waits = [d \in Dev |-> FALSE]
    /\ retries = [d \in Dev |-> 0]
    /\ answers = [d \in Dev |-> <<>>]
    /\ begun = 0
    /\ alone = TRUE
    /\ reached = {}
    /\ told = FALSE

\* What a device has under way.
Load(d) == calls[d] + (IF waits[d] THEN 1 ELSE 0) + Len(answers[d])
Owes(d) == Load(d) > 0

Quiet(kind) ==
    /\ \A k \in Kind : state[k] # "SETTING_CONN_MODE"
    /\ \A d \in Dev : ~Owes(d) /\ <<kind, d>> \notin work'

-----------------------------------------------------------------------------
(* CatchController *)

\* Fault: the devices asked are added to those expected before.
AskForMore(kind, devices) ==
    /\ calls' = [d \in Dev |-> calls[d] + (IF d \in devices THEN 1 ELSE 0)]
    /\ remaining' = remaining + Cardinality(devices)
    /\ state' = [state EXCEPT ![kind] = "SETTING_CONN_MODE"]
    /\ alone' = Quiet(kind)
    /\ reached' = {}
    /\ UNCHANGED <<fast, waits, retries, answers>>

\* The devices are called and as many answers expected, whatever else waits.
Ask(kind, devices) ==
    /\ calls' = [d \in Dev |-> calls[d] + (IF d \in devices THEN 1 ELSE 0)]
    /\ remaining' = Cardinality(devices)
    /\ state' = [state EXCEPT ![kind] = "SETTING_CONN_MODE"]
    /\ alone' = Quiet(kind)
    /\ reached' = {}
    /\ UNCHANGED <<fast, waits, retries, answers>>

\* startTimeSyncOfDevX, startDownloadOfDevX
StartOfDevX(kind, d) ==
    /\ Ask(kind, {d})
    /\ id' = [id EXCEPT ![kind] = d]
    /\ timer' = timer \cup {kind}

\* startTimesyncAllDevices, onCatchSuccessConfirmed
StartAll(kind) ==
    /\ begun < MaxBegin
    /\ begun' = begun + 1
    /\ UNCHANGED <<work, told>>
    /\ StartOfDevX(kind, 0)

sendStartToAllDevices ==
    /\ begun < MaxBegin
    /\ begun' = begun + 1
    /\ told' = FALSE
    /\ UNCHANGED <<id, timer, work>>
    /\ Ask("start", Dev)

\* What waits goes on: both timers are set anew, CMD_START goes to all devices.
GoOn ==
    LET on == {k \in Kind : state[k] = "SETTING_CONN_MODE"}
    IN  /\ state' = [k \in Kind |-> IF k \notin on THEN state[k]
                                    ELSE IF k = "start" THEN "NOT_RUNNING" ELSE "RUNNING"]
        /\ timer' = timer \cup (on \ {"start"})
        /\ work' = work \cup {<<k, id[k]>> : k \in on \ {"start"}}

\* Fault: a failure counts as an answer like any other.
FailureCounts(d) ==
    /\ answers[d] # <<>>
    /\ answers' = [answers EXCEPT ![d] = Tail(@)]
    /\ LET success == Head(answers[d])
       IN  /\ remaining' = remaining - 1
           /\ told' = (told \/ ~success)
           /\ reached' = IF success THEN reached \cup {d} ELSE reached
    /\ IF remaining' = 0 THEN GoOn ELSE UNCHANGED <<state, timer, work>>
    /\ UNCHANGED <<id, calls, fast, waits, retries, begun, alone>>

\* Fault: a failure is reported and the counter left alone.
FailureForgotten(d) ==
    /\ answers[d] # <<>>
    /\ answers' = [answers EXCEPT ![d] = Tail(@)]
    /\ LET success == Head(answers[d])
       IN  /\ remaining' = IF success THEN remaining - 1 ELSE remaining
           /\ told' = (told \/ ~success)
           /\ reached' = IF success THEN reached \cup {d} ELSE reached
    /\ IF remaining' = 0 THEN GoOn ELSE UNCHANGED <<state, timer, work>>
    /\ UNCHANGED <<id, calls, fast, waits, retries, begun, alone>>

onConnUpdateOfDevXfinished(d) ==
    /\ answers[d] # <<>>
    /\ answers' = [answers EXCEPT ![d] = Tail(@)]
    /\ LET success == Head(answers[d])
       IN  /\ remaining' = (IF success THEN remaining ELSE 0) - 1
           /\ told' = (told \/ ~success)
           /\ reached' = IF success THEN reached \cup {d} ELSE reached
    /\ IF remaining' = 0 THEN GoOn ELSE UNCHANGED <<state, timer, work>>
    /\ UNCHANGED <<id, calls, fast, waits, retries, begun, alone>>

\* onTimeSyncTimerExpired, onDownloadTimerExpired: the state stays.
TimerExpired(kind) ==
    /\ kind \in timer
    /\ timer' = timer \ {kind}
    /\ told' = (told \/ state[kind] \in {"SETTING_CONN_MODE", "RUNNING"})
    /\ UNCHANGED <<state, remaining, id, work, device, begun, alone, reached>>

\* onTimeSyncOfDevXfinished, onDownloadOfDeviceXfinished: the next device, or the end.
OfDevXFinished(kind, d, success) ==
    /\ <<kind, d>> \in work
    /\ work' = work \ {<<kind, d>>}
    /\ told' = (told \/ ~success)
    /\ IF d + 1 < N THEN StartOfDevX(kind, d + 1)
       ELSE /\ timer' = timer \ {kind}
            /\ state' = [state EXCEPT ![kind] = "NOT_RUNNING"]
            /\ UNCHANGED <<remaining, id, device, alone, reached>>
    /\ UNCHANGED begun

-----------------------------------------------------------------------------
(* DeviceController *)

isDeviceInRequestedConnState(d) == fast[d]

\* The answer is at once, or the device and the central are asked: a wait that is
\* going on begins anew.
startConnModeChangeProcedure(d) ==
    /\ calls[d] > 0
    /\ calls' = [calls EXCEPT ![d] = @ - 1]
    /\ IF isDeviceInRequestedConnState(d)
       THEN /\ answers' = [answers EXCEPT ![d] = Append(@, TRUE)]
            /\ UNCHANGED <<waits, retries>>
       ELSE /\ retries' = [retries EXCEPT ![d] = Retries]
            /\ waits' = [waits EXCEPT ![d] = TRUE]
            /\ UNCHANGED answers
    /\ UNCHANGED <<central, fast, begun, alone, reached, told>>

\* Fault: the answer is given and the timer goes on.
TimerGoesOn(d, info) ==
    /\ fast' = [fast EXCEPT ![d] = info]
    /\ IF info /\ waits[d] THEN answers' = [answers EXCEPT ![d] = Append(@, TRUE)]
       ELSE UNCHANGED answers
    /\ UNCHANGED <<central, calls, waits, retries, begun, alone, reached, told>>

\* CONN_PARAM_INFO, which the device sends when it likes, and onConnParamInfoArrived.
onConnParamInfoArrived(d, info) ==
    /\ fast' = [fast EXCEPT ![d] = info]
    /\ IF info /\ waits[d] THEN /\ waits' = [waits EXCEPT ![d] = FALSE]
                                /\ answers' = [answers EXCEPT ![d] = Append(@, TRUE)]
       ELSE UNCHANGED <<waits, answers>>
    /\ UNCHANGED <<central, calls, retries, begun, alone, reached, told>>

\* Asks the central again, but not the device.
onConnParamTimerExpired(d) ==
    /\ waits[d]
    /\ IF retries[d] > 0 THEN /\ retries' = [retries EXCEPT ![d] = @ - 1]
                              /\ UNCHANGED <<waits, answers>>
       ELSE /\ waits' = [waits EXCEPT ![d] = FALSE]
            /\ answers' = [answers EXCEPT ![d] = Append(@, FALSE)]
            /\ UNCHANGED retries
    /\ UNCHANGED <<central, calls, fast, begun, alone, reached, told>>

-----------------------------------------------------------------------------

MainThread(d) == onConnUpdateOfDevXfinished(d)
Controller(d) == startConnModeChangeProcedure(d) \/ onConnParamTimerExpired(d)

Next ==
    \/ \E k \in {"ts", "dl"} : StartAll(k) \/ TimerExpired(k)
    \/ sendStartToAllDevices
    \/ \E k \in {"ts", "dl"}, d \in Dev, ok \in BOOLEAN : OfDevXFinished(k, d, ok)
    \/ \E d \in Dev : \/ MainThread(d)
                      \/ Controller(d)
                      \/ \E info \in BOOLEAN : onConnParamInfoArrived(d, info)

Spec == Init /\ [][Next]_vars

\* Queued calls and answers are handled, and m_connParamTimer expires.
FairSpec ==
    Spec /\ \A d \in Dev : WF_vars(MainThread(d))
                           /\ WF_vars(startConnModeChangeProcedure(d))
                           /\ WF_vars(onConnParamTimerExpired(d))

-----------------------------------------------------------------------------

\* A controller does not wait for a mode its device has reported (:1011).
WaitingMeansNotThere == \A d \in Dev : waits[d] => ~isDeviceInRequestedConnState(d)

Concerned(kind) == IF kind = "start" THEN Dev ELSE {id[kind]}

\* remaining_c counts the devices that still owe their one answer, as long as no
\* device has failed and the last procedure began when nothing was under way.
CounterIsRight ==
    (alone /\ remaining > 0) =>
        /\ remaining = Cardinality({d \in Dev : Owes(d)})
        /\ \A d \in Dev : Load(d) <= 1

\* A sync, a download or a start that began alone goes on only when each device
\* concerned has answered that it has reached the mode.
NothingTooEarly ==
    [][\A k \in Kind :
          alone /\ state[k] = "SETTING_CONN_MODE" /\ state'[k] # "SETTING_CONN_MODE"
              => Concerned(k) \subseteq reached']_vars

\* A start is sent, or the user is told of an error: although remaining_c is
\* overwritten by what else begins and calls that meet a wait are answered once.
StartEnds ==
    state["start"] = "SETTING_CONN_MODE" ~> (state["start"] # "SETTING_CONN_MODE" \/ told)
=============================================================================
