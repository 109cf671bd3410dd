------------------------------- MODULE TimeSync -------------------------------
(***************************************************************************)
(* Time synchronisation of all connected devices, one after the other:     *)
(* TimeSyncHandler (timesynchandler.cpp) exchanges time stamps with one    *)
(* device, CatchController (catchcontroller.cpp, Linux build) starts it    *)
(* when all devices are connected and goes on from device to device.  Both *)
(* live in the main thread, so a signal between them is a call; messages   *)
(* to and from a device cross its thread and the link.                     *)
(*                                                                         *)
(* There is one handler for all devices and a reply does not say which     *)
(* device it comes from.  Travelling times are left to the environment: a  *)
(* member of Travel is measured when a reply is handled.                   *)
(*                                                                         *)
(* The devices are external: a device answers every message it receives,   *)
(* a time stamp with its index and anything else with an ACK, and keeps    *)
(* the last stamp it received when it hears "last one was a good one".     *)
(***************************************************************************)
EXTENDS Integers, Sequences, FiniteSets, SequencesExt

CONSTANTS
    N,            \* number of connected devices; their indices are 0..N-1
    Measure,      \* TS_MEASURE_MSG_CNT (30)
    Trim,         \* smallest and biggest travelling times left out (3)
    Compensated,  \* TS_COMPENSATED_MSG_CNT (60)
    RepeatWrap,   \* values of m_send_repeat_count (2^16)
    Travel,       \* the travelling times a reply may show
    Garbage,      \* what m_connectionAlive may hold before it is set
    Timely,       \* TRUE: an answer takes less than the timeout (250 ms)
    MaxLoss       \* bound: messages and disconnections the link suffers

\* calculate_compensation leaves out 2 * Trim times and divides by the number of
\* the others: enough are measured, also if each start but the first finds the
\* count of an exchange it cuts into and what that has left of the times.
ASSUME TimeSyncAssumption ==
    /\ N \in Nat \ {0}
    /\ Trim \in Nat
    /\ Measure \in Nat
    /\ Measure >= 2 * Trim + 1 + (N - 1) * (IF Trim = 0 THEN 1 ELSE 2 * Trim - 1)
    /\ Compensated \in Nat /\ Compensated > 0
    /\ RepeatWrap \in Nat /\ RepeatWrap > Measure /\ RepeatWrap > Compensated
    /\ Travel \subseteq Nat /\ IsFiniteSet(Travel)
    /\ Garbage \subseteq BOOLEAN
    /\ Timely \in BOOLEAN
    /\ MaxLoss \in Nat

Dev == 0..(N - 1)

VARIABLES
    ts,         \* the TimeSyncHandler: m_sync_state, m_send_repeat_count,
                \* travelling_times, m_travelling_time_acceptance_trsh,
                \* m_dev_idx_in_sync, m_timeout_timer.isActive(), and what it
                \* has sent to each device
    replies,    \* TS_MSG notifications of each device, oldest first
    syncTimer,  \* m_timesyncTimer.isActive()
    nextTimer,  \* m_nextRequestTimer.isActive()
    alive,      \* m_connectionAlive of each DeviceInterface
    link,       \* each device: "new", "up" or "down"
    lastStamp,  \* the index of the last time stamp each device has received
    good,       \* the devices that have heard that their last one was good
    synced,     \* the devices that time_sync_finished(true) has named
    reported,   \* the user has been told since the last start: by
                \* invokeQmlError or by timeSyncOfAllDevFinished
    allDone,    \* timeSyncOfAllDevFinished has been emitted
    failed,     \* the devices that time_sync_finished(false) has named
    starts,     \* calls of startTimesyncAllDevices
    clash,      \* ghost: a start found an exchange still under way
    losses

vars == <<ts, replies, syncTimer, nextTimer, alive, link, lastStamp, good,
          synced, reported, allDone, failed, starts, clash, losses>>

devices == <<lastStamp, good>>
outcome == <<synced, allDone, failed>>
connections == <<nextTimer, alive, link>>

SyncState == {"UNSET", "START_WAITS_FOR_ACK", "MEASURING_TRAVELING_TIME",
              "SENDING_COMPENSATED", "STOP_WAITS_FOR_ACK", "STOPPED"}

\* The messages of both directions; ACK and START carry no index.  The index of
\* GOOD is a ghost: the stamp whose reply has been judged.
TsMsg == [cmd : {"START", "STAMP", "GOOD", "ACK"}, idx : 0..(RepeatWrap - 1)]
Plain(cmd) == [cmd |-> cmd, idx |-> 0]

TypeOK ==
    /\ ts \in [state : SyncState, repeat : 0..(RepeatWrap - 1), times : Seq(Travel),
               trsh : 0..Max(Travel \cup {0}), dev : Dev, timer : BOOLEAN,
               air : [Dev -> Seq(TsMsg)]]
    /\ replies \in [Dev -> Seq(TsMsg)]
    /\ {syncTimer, nextTimer, reported, allDone, clash} \subseteq BOOLEAN
    /\ alive \in [Dev -> BOOLEAN]
    /\ link \in [Dev -> {"new", "up", "down"}]
    /\ lastStamp \in [Dev -> 0..(RepeatWrap - 1)]
    /\ good \cup synced \cup failed \subseteq Dev
    /\ starts \in 0..N
    /\ losses \in 0..MaxLoss

Init ==
    /\ ts = [state |-> "UNSET", repeat |-> 0, times |-> <<>>, trsh |-> 0, dev |-> 0,
             timer |-> FALSE, air |-> [d \in Dev |-> <<>>]]
    /\ replies = [d \in Dev |-> <<>>]
    /\ syncTimer = FALSE
    /\ nextTimer = FALSE
    /\ alive \in [Dev -> Garbage]
    /\ link = [d \in Dev |-> "new"]
    /\ lastStamp = [d \in Dev |-> 0]
    /\ good = {}
    /\ synced = {}
    /\ reported = TRUE
    /\ allDone = FALSE
    /\ failed = {}
    /\ starts = 0
    /\ clash = FALSE
    /\ losses = 0

-----------------------------------------------------------------------------
(* TimeSyncHandler: what it sends *)

\* Every message but GOOD starts the timer for its answer.
Send(s, m) == [s EXCEPT !.air[s.dev] = Append(@, m)]
SendTimed(s, m) == [Send(s, m) EXCEPT !.timer = TRUE]

Stamp(i) == [cmd |-> "STAMP", idx |-> i]

\* Fault: the stamp is sent twice.
SendStampTwice(s) ==
    LET i == (s.repeat + 1) % RepeatWrap
    IN  [SendTimed(Send(s, Stamp(i)), Stamp(i)) EXCEPT !.repeat = i]

\* send_time_sync_msg and send_compensated_time_sync_msg differ in the time
\* they carry only.
send_time_sync_msg(s) ==
    LET i == (s.repeat + 1) % RepeatWrap
    IN  [SendTimed(s, Stamp(i)) EXCEPT !.repeat = i]

\* Of the travelling times only the smallest, the biggest and the sum are taken,
\* so they are kept in ascending order.
Added(q, t) == InsertAt(q, Cardinality({i \in DOMAIN q : q[i] <= t}) + 1, t)

Sum(q) == FoldSeq(+, 0, q)
Trimmed(q) == SubSeq(q, Trim + 1, Len(q) - Trim)

\* Fault: the sum is taken for the average.
ThresholdOfSum(q) == q[1] + (Sum(q) - q[1]) \div 2

\* Half way between the smallest travelling time and the average.
Threshold(q) == q[1] + ((Sum(q) \div Len(q)) - q[1]) \div 2

\* m_send_repeat_count has been set to 0 before; the trimmed times are kept.
calculate_compensation(s) ==
    LET kept == Trimmed(s.times)
    IN  send_time_sync_msg([s EXCEPT !.times = kept, !.trsh = Threshold(kept),
                                     !.state = "SENDING_COMPENSATED"])

\* Fault: travelling_times are cleared, m_send_repeat_count is not.
StartClearingTimes(s, d) ==
    SendTimed([s EXCEPT !.dev = d, !.times = <<>>, !.state = "START_WAITS_FOR_ACK"],
              Plain("START"))

\* Neither m_send_repeat_count nor travelling_times are reset.
start_time_sync(s, d) ==
    SendTimed([s EXCEPT !.dev = d, !.state = "START_WAITS_FOR_ACK"], Plain("START"))

-----------------------------------------------------------------------------
(* CatchController *)

\* Fault: m_timesyncTimer is not started.
StartUnguarded(s, d) ==
    /\ ts' = start_time_sync(s, d)
    /\ UNCHANGED syncTimer

startTimeSyncOfDevX(s, d) ==
    /\ ts' = start_time_sync(s, d)
    /\ syncTimer' = TRUE

\* Fault: after a failure the next device is left out as well.
SkipAfterFailure(s, success) ==
    /\ synced' = IF success THEN synced \cup {s.dev} ELSE synced
    /\ failed' = IF success THEN failed ELSE failed \cup {s.dev}
    /\ LET nextDev == IF success THEN s.dev + 1 ELSE s.dev + 2 IN
       IF nextDev < N
       THEN /\ startTimeSyncOfDevX(s, nextDev)
            /\ reported' = (reported \/ ~success)
            /\ UNCHANGED allDone
       ELSE /\ ts' = s
            /\ syncTimer' = FALSE
            /\ allDone' = TRUE
            /\ reported' = TRUE

\* Success or not, the next device is synchronised; after the last one
\* timeSyncOfAllDevFinished(true) is emitted.
onTimeSyncOfDevXfinished(s, success) ==
    /\ synced' = IF success THEN synced \cup {s.dev} ELSE synced
    /\ failed' = IF success THEN failed ELSE failed \cup {s.dev}
    /\ IF s.dev + 1 < N
       THEN /\ startTimeSyncOfDevX(s, s.dev + 1)
            /\ reported' = (reported \/ ~success)
            /\ UNCHANGED allDone
       ELSE /\ ts' = s
            /\ syncTimer' = FALSE
            /\ allDone' = TRUE
            /\ reported' = TRUE

\* onTimeSyncTimerExpired: the sync itself is not stopped.
TimeSyncTimerExpires ==
    /\ syncTimer
    /\ syncTimer' = FALSE
    /\ reported' = TRUE
    /\ UNCHANGED <<ts, replies, connections, devices, outcome, starts,
                   clash, losses>>

\* onNextRequestTimerExpired: startTimesyncAllDevices, from device 0.
NextRequestTimerExpires ==
    /\ nextTimer
    /\ nextTimer' = FALSE
    /\ startTimeSyncOfDevX(ts, 0)
    /\ starts' = starts + 1
    /\ reported' = FALSE
    /\ clash' = (clash \/ \E d \in Dev : ts.air[d] # <<>> \/ replies[d] # <<>>)
    /\ UNCHANGED <<replies, alive, link, devices, outcome, losses>>

\* onConnAliveOfDevXChanged(true): the flags of devices that have not been
\* heard of are looked at before anything has set them.
DeviceComesUp(d) ==
    /\ link[d] = "new"
    /\ link' = [link EXCEPT ![d] = "up"]
    /\ alive' = [alive EXCEPT ![d] = TRUE]
    /\ nextTimer' = (nextTimer \/ \A e \in Dev : alive'[e])
    /\ UNCHANGED <<ts, replies, syncTimer, devices, outcome, reported, starts,
                   clash, losses>>

\* onConnAliveOfDevXChanged(false): a device that is gone never comes back.
DeviceGoesDown(d) ==
    /\ link[d] = "up"
    /\ losses < MaxLoss
    /\ losses' = losses + 1
    /\ link' = [link EXCEPT ![d] = "down"]
    /\ alive' = [alive EXCEPT ![d] = FALSE]
    /\ reported' = TRUE
    /\ UNCHANGED <<ts, replies, syncTimer, nextTimer, devices, outcome, starts,
                   clash>>

-----------------------------------------------------------------------------
(* TimeSyncHandler: slot_time_sync_msg_arrived, one action per state *)

Arrives(d, state) ==
    /\ replies[d] # <<>>
    /\ ts.state = state
    /\ replies' = [replies EXCEPT ![d] = Tail(@)]
    /\ UNCHANGED <<connections, devices, starts, clash, losses>>

\* The handler once the timer has been stopped, at the top of the slot.
Heard == [ts EXCEPT !.timer = FALSE]

AckOfStart(d) ==
    /\ Arrives(d, "START_WAITS_FOR_ACK")
    /\ ts' = IF Head(replies[d]).cmd # "ACK" THEN [Heard EXCEPT !.state = "STOPPED"]
             ELSE [send_time_sync_msg(Heard) EXCEPT !.state = "MEASURING_TRAVELING_TIME"]
    /\ UNCHANGED <<syncTimer, outcome, reported>>

\* A reply with a wrong index is reported in the log and counted all the same.
Measured(d, t) ==
    /\ Arrives(d, "MEASURING_TRAVELING_TIME")
    /\ LET s == [Heard EXCEPT !.times = Added(@, t)] IN
       ts' = IF s.repeat = Measure THEN calculate_compensation([s EXCEPT !.repeat = 0])
             ELSE send_time_sync_msg(s)
    /\ UNCHANGED <<syncTimer, outcome, reported>>

\* Fault: success is reported before the device has confirmed it.
JudgedTooEarly(d, t) ==
    /\ Arrives(d, "SENDING_COMPENSATED")
    /\ \/ /\ t < ts.trsh
          /\ onTimeSyncOfDevXfinished(
                [Send(Heard, [cmd |-> "GOOD", idx |-> Head(replies[d]).idx])
                    EXCEPT !.state = "STOPPED", !.repeat = 0], TRUE)
       \/ /\ t >= ts.trsh
          /\ ts.repeat # Compensated
          /\ ts' = send_time_sync_msg(Heard)
          /\ UNCHANGED <<syncTimer, outcome, reported>>

Judged(d, t) ==
    /\ Arrives(d, "SENDING_COMPENSATED")
    /\ \/ /\ t < ts.trsh
          /\ ts' = [Send(Heard, [cmd |-> "GOOD", idx |-> Head(replies[d]).idx])
                      EXCEPT !.state = "STOP_WAITS_FOR_ACK", !.repeat = 0]
          /\ UNCHANGED <<syncTimer, outcome, reported>>
       \/ /\ t >= ts.trsh
          /\ ts.repeat = Compensated
          /\ onTimeSyncOfDevXfinished([Heard EXCEPT !.repeat = 0], FALSE)
       \/ /\ t >= ts.trsh
          /\ ts.repeat # Compensated
          /\ ts' = send_time_sync_msg(Heard)
          /\ UNCHANGED <<syncTimer, outcome, reported>>

AckOfStop(d) ==
    /\ Arrives(d, "STOP_WAITS_FOR_ACK")
    /\ \/ /\ Head(replies[d]).cmd # "ACK"
          /\ ts' = [Heard EXCEPT !.state = "STOPPED"]
          /\ UNCHANGED <<syncTimer, outcome, reported>>
       \/ /\ Head(replies[d]).cmd = "ACK"
          /\ onTimeSyncOfDevXfinished([Heard EXCEPT !.repeat = 0, !.times = <<>>,
                                                    !.state = "STOPPED"], TRUE)

Ignored(d) ==
    /\ \E state \in {"STOPPED", "UNSET"} : Arrives(d, state)
    /\ ts' = Heard
    /\ UNCHANGED <<syncTimer, outcome, reported>>

\* timeout_timer_expired: nobody is told.
TimeoutTimerExpires ==
    /\ ts.timer
    /\ Timely => ts.air[ts.dev] = <<>> /\ replies[ts.dev] = <<>>
    /\ ts' = [ts EXCEPT !.timer = FALSE, !.state = "STOPPED"]
    /\ UNCHANGED <<replies, syncTimer, connections, devices, outcome, reported,
                   starts, clash, losses>>

slot_time_sync_msg_arrived(d) ==
    \/ AckOfStart(d)
    \/ \E t \in Travel : Measured(d, t) \/ Judged(d, t)
    \/ AckOfStop(d)
    \/ Ignored(d)

-----------------------------------------------------------------------------
(* The devices (external) *)

Answer(m) == IF m.cmd = "STAMP" THEN m ELSE Plain("ACK")

DeviceHears(d) ==
    /\ ts.air[d] # <<>>
    /\ link[d] = "up"
    /\ LET m == Head(ts.air[d]) IN
       /\ replies' = [replies EXCEPT ![d] = Append(@, Answer(m))]
       /\ lastStamp' = IF m.cmd = "STAMP" THEN [lastStamp EXCEPT ![d] = m.idx]
                       ELSE lastStamp
       /\ good' = IF m.cmd = "GOOD" THEN good \cup {d} ELSE good
    /\ ts' = [ts EXCEPT !.air[d] = Tail(@)]
    /\ UNCHANGED <<syncTimer, connections, outcome, reported, starts,
                   clash, losses>>

\* A message to a device that is not connected reaches nobody.
Unheard(d) ==
    /\ ts.air[d] # <<>>
    /\ link[d] # "up"
    /\ ts' = [ts EXCEPT !.air[d] = Tail(@)]
    /\ UNCHANGED <<replies, syncTimer, connections, devices, outcome, reported,
                   starts, clash, losses>>

LoseReply(d) ==
    /\ replies[d] # <<>>
    /\ losses < MaxLoss
    /\ losses' = losses + 1
    /\ replies' = [replies EXCEPT ![d] = Tail(@)]
    /\ UNCHANGED <<ts, syncTimer, connections, devices, outcome, reported, starts,
                   clash>>

-----------------------------------------------------------------------------

Next ==
    \/ TimeSyncTimerExpires
    \/ NextRequestTimerExpires
    \/ TimeoutTimerExpires
    \/ \E d \in Dev :
          \/ slot_time_sync_msg_arrived(d)
          \/ DeviceComesUp(d)
          \/ DeviceGoesDown(d)
          \/ DeviceHears(d)
          \/ Unheard(d)
          \/ LoseReply(d)

Spec == Init /\ [][Next]_vars

\* The main thread runs its event loop and its timers expire.
Fairness ==
    /\ WF_vars(TimeSyncTimerExpires)
    /\ WF_vars(TimeoutTimerExpires)
    /\ \A d \in Dev : WF_vars(slot_time_sync_msg_arrived(d))

FairSpec == Spec /\ Fairness

-----------------------------------------------------------------------------

\* time_sync_finished(true) names a device only after that device has heard
\* that its stamp was good, although an ACK does not say what it is for or whose
\* it is, and although a second start may follow a sync that was broken off.
\* (Not when a start has met an exchange that was under way.)
SyncedMeansGood == ~clash => synced \subseteq good

\* "Last one was a good one" carries no index: when the device hears it, the
\* last stamp it has received is the one whose reply the handler has judged.
GoodOneWasTheLast ==
    ~clash => \A d \in Dev :
        LET q == ts.air[d] IN
        q # <<>> /\ Head(q).cmd = "GOOD" => Head(q).idx = lastStamp[d]

\* When the last time is measured there is one more of them than
\* calculate_compensation leaves out, which divides by the number of the others:
\* the count and the times, which neither a start nor a failure resets, do not
\* get too far apart, whatever exchanges have been broken off or cut into.
AverageIsOfSome ==
    ts.state = "MEASURING_TRAVELING_TIME" /\ ts.repeat = Measure =>
        Len(ts.times) + 1 > 2 * Trim

\* No device is passed over: when the end is announced each one has been
\* synchronised or reported as failed, also if a second start cut in.
NoDeviceIsPassedOver == allDone => synced \cup failed = Dev

\* A started synchronisation never peters out: whatever is lost, the user is
\* told of its end or of a failure.  (timeout_timer_expired tells nobody.)
UserIsTold == ~reported ~> reported
=============================================================================
