---------------------------- MODULE TimeSyncProofs ----------------------------
(***************************************************************************)
(* Proofs about TimeSync, for any number of devices, messages and losses.  *)
(*                                                                         *)
(* The devices are taken in the order of their indices, so those before    *)
(* the one in sync have had their end reported.                            *)
(*                                                                         *)
(* What the arguments need of the handler is its state and its device:     *)
(* that a message is sent changes neither.                                 *)
(*                                                                         *)
(* The threshold has its type because the average is of one time at least  *)
(* and not above the longest: the first follows from how the counters of   *)
(* the handler run apart when starts cut in (Enough), the second from the  *)
(* recursion of the sum, by looking at the smallest set that breaks it.    *)
(***************************************************************************)
EXTENDS TimeSync, FiniteSetTheorems, WellFoundedInduction, TLAPS

Field == {"state", "repeat", "times", "trsh", "dev", "timer", "air"}
Handler(s) == DOMAIN s = Field /\ s.dev \in Dev

\* The devices before the one in sync have been dealt with.
Passed ==
    /\ synced \cup failed \subseteq Dev
    /\ \A d \in Dev : d < ts.dev => d \in synced \cup failed
    /\ NoDeviceIsPassedOver

\* The handler is at rest until the first start.
Roused ==
    /\ starts \in Nat
    /\ starts = 0 => ts.state \in {"UNSET", "STOPPED"}

Inv == Handler(ts) /\ Passed /\ Roused

-----------------------------------------------------------------------------
(* What the functions of the handler leave of its state *)

LEMMA SendKeeps ==
    ASSUME NEW s, NEW m, Handler(s)
    PROVE  /\ Handler(Send(s, m)) /\ Send(s, m).dev = s.dev /\ Send(s, m).state = s.state
           /\ Handler(SendTimed(s, m)) /\ SendTimed(s, m).dev = s.dev
           /\ SendTimed(s, m).state = s.state
           /\ Send(s, m).air = [s.air EXCEPT ![s.dev] = Append(@, m)]
           /\ SendTimed(s, m).air = [s.air EXCEPT ![s.dev] = Append(@, m)]
  BY DEF Handler, Field, Send, SendTimed

LEMMA StampKeeps ==
    ASSUME NEW s, Handler(s)
    PROVE  LET r == send_time_sync_msg(s)
           IN  /\ Handler(r) /\ r.dev = s.dev /\ r.state = s.state
               /\ \E i : r.air = [s.air EXCEPT ![s.dev] = Append(@, Stamp(i))]
<1> DEFINE i == (s.repeat + 1) % RepeatWrap
           r == SendTimed(s, Stamp(i))
<1>1. /\ Handler(r) /\ r.dev = s.dev /\ r.state = s.state
      /\ r.air = [s.air EXCEPT ![s.dev] = Append(@, Stamp(i))]
  BY SendKeeps
<1>2. send_time_sync_msg(s) = [r EXCEPT !.repeat = i]
  BY DEF send_time_sync_msg
<1> HIDE DEF i, r
<1> QED BY <1>1, <1>2 DEF Handler, Field

LEMMA CompensationKeeps ==
    ASSUME NEW s, Handler(s)
    PROVE  LET r == calculate_compensation(s)
           IN  /\ Handler(r) /\ r.dev = s.dev /\ r.state = "SENDING_COMPENSATED"
               /\ \E i : r.air = [s.air EXCEPT ![s.dev] = Append(@, Stamp(i))]
<1> DEFINE k == Trimmed(s.times)
           t == Threshold(k)
           r == [s EXCEPT !.times = k, !.trsh = t, !.state = "SENDING_COMPENSATED"]
<1>1. calculate_compensation(s) = send_time_sync_msg(r)
  BY DEF calculate_compensation
<1>2. Handler(r) /\ r.dev = s.dev /\ r.state = "SENDING_COMPENSATED" /\ r.air = s.air
  <2> HIDE DEF k, t
  <2> QED BY DEF Handler, Field
<1> HIDE DEF r
<1> DEFINE q == send_time_sync_msg(r)
<1>3. /\ Handler(q) /\ q.dev = r.dev /\ q.state = r.state
      /\ \E i : q.air = [r.air EXCEPT ![r.dev] = Append(@, Stamp(i))]
  BY <1>2, StampKeeps
<1> HIDE DEF q
<1>4. \E i : q.air = [s.air EXCEPT ![s.dev] = Append(@, Stamp(i))]
  <2>1. r.air = s.air /\ r.dev = s.dev
    BY <1>2
  <2> QED BY <1>3, <2>1, Zenon
<1>5. calculate_compensation(s) = q
  BY <1>1 DEF q
<1> QED BY <1>2, <1>3, <1>4, <1>5, Zenon

LEMMA StartSends ==
    ASSUME NEW s, Handler(s), NEW d \in Dev
    PROVE  LET r == start_time_sync(s, d)
           IN  /\ Handler(r) /\ r.dev = d /\ r.state = "START_WAITS_FOR_ACK"
               /\ r.air = [s.air EXCEPT ![d] = Append(@, Plain("START"))]
<1> DEFINE r == [s EXCEPT !.dev = d, !.state = "START_WAITS_FOR_ACK"]
<1>1. Handler(r) /\ r.dev = d /\ r.state = "START_WAITS_FOR_ACK" /\ r.air = s.air
  BY DEF Handler, Field
<1>2. start_time_sync(s, d) = SendTimed(r, Plain("START"))
  BY DEF start_time_sync
<1> HIDE DEF r
<1> QED BY <1>1, <1>2, SendKeeps

LEMMA StartKeeps ==
    ASSUME NEW s, Handler(s), NEW d \in Dev
    PROVE  LET r == start_time_sync(s, d)
           IN  Handler(r) /\ r.dev = d /\ r.state = "START_WAITS_FOR_ACK"
  BY StartSends

-----------------------------------------------------------------------------
(* The steps *)

LEMMA InvInit == Init => Inv
<1> SUFFICES ASSUME Init PROVE Inv
  OBVIOUS
<1>1. Handler(ts) /\ ts.dev = 0 /\ ts.state = "UNSET"
  BY TimeSyncAssumption DEF Init, Handler, Field, Dev
<1>2. Passed
  BY <1>1 DEF Init, Passed, NoDeviceIsPassedOver, Dev
<1>3. Roused
  BY <1>1 DEF Init, Roused
<1> QED BY <1>1, <1>2, <1>3 DEF Inv

\* A step of the handler that ends nothing, whatever it sends.
LEMMA HandlerKeeps ==
    ASSUME Inv, Handler(ts'), ts'.dev = ts.dev, Roused', UNCHANGED outcome
    PROVE  Inv'
<1>1. Passed'
  BY DEF Inv, Passed, NoDeviceIsPassedOver, outcome
<1> QED BY <1>1 DEF Inv

\* The end of a device: it is reported, and the next one begins or all is done.
LEMMA FinishKeeps ==
    ASSUME Inv, NEW s, Handler(s), s.dev = ts.dev, NEW success \in BOOLEAN,
           onTimeSyncOfDevXfinished(s, success), starts # 0, UNCHANGED starts
    PROVE  Inv'
<1>0. Roused'
  BY DEF Inv, Roused
<1>1. /\ synced \cup failed \subseteq synced' \cup failed'
      /\ ts.dev \in synced' \cup failed' /\ synced' \cup failed' \subseteq Dev
  BY DEF Inv, Passed, Handler, onTimeSyncOfDevXfinished
<1>2. \A d \in Dev : d < ts.dev + 1 => d \in synced' \cup failed'
  <2>1. ts.dev \in Nat /\ \A d \in Dev : d \in Nat
    BY TimeSyncAssumption DEF Inv, Handler, Dev
  <2>2. ASSUME NEW d \in Dev, d < ts.dev + 1 PROVE d < ts.dev \/ d = ts.dev
    BY <2>1, <2>2
  <2> QED BY <2>2, <1>1 DEF Inv, Passed
<1>3. CASE s.dev + 1 < N
  <2>1. s.dev + 1 \in Dev
    BY <1>3, TimeSyncAssumption DEF Handler, Dev
  <2>2. ts' = start_time_sync(s, s.dev + 1) /\ allDone' = allDone
    BY <1>3 DEF onTimeSyncOfDevXfinished, startTimeSyncOfDevX
  <2>3. Handler(ts') /\ ts'.dev = ts.dev + 1 /\ ts'.state = "START_WAITS_FOR_ACK"
    BY <2>1, <2>2, StartKeeps
  <2>4. Passed'
    BY <1>1, <1>2, <2>2, <2>3 DEF Inv, Passed, NoDeviceIsPassedOver
  <2> QED BY <1>0, <2>3, <2>4 DEF Inv
<1>4. CASE ~(s.dev + 1 < N)
  <2>1. ts' = s
    BY <1>4 DEF onTimeSyncOfDevXfinished
  <2>2. Dev \subseteq synced' \cup failed'
    <3>1. N \in Nat /\ s.dev \in 0..(N - 1)
      BY TimeSyncAssumption DEF Handler, Dev
    <3>2. ASSUME NEW d \in 0..(N - 1) PROVE d < s.dev + 1
      BY <1>4, <3>1
    <3> QED BY <3>2, <1>2 DEF Dev
  <2>3. Passed'
    BY <1>1, <2>1, <2>2, <1>2 DEF Inv, Passed, NoDeviceIsPassedOver
  <2> QED BY <1>0, <2>1, <2>3 DEF Inv
<1> QED BY <1>3, <1>4

\* The handler of a message begins with a stopped timer.
LEMMA HeardKeeps ==
    ASSUME Inv
    PROVE  Handler(Heard) /\ Heard.dev = ts.dev /\ Heard.state = ts.state
  BY DEF Inv, Heard, Handler, Field

LEMMA AckOfStartKeeps == ASSUME NEW d \in Dev PROVE Inv /\ AckOfStart(d) => Inv'
<1> SUFFICES ASSUME Inv, AckOfStart(d) PROVE Inv'
  OBVIOUS
<1>1. ts.state = "START_WAITS_FOR_ACK" /\ UNCHANGED <<outcome, starts>>
  BY DEF AckOfStart, Arrives
<1>2. CASE Head(replies[d]).cmd # "ACK"
  <2>1. ts' = [Heard EXCEPT !.state = "STOPPED"]
    BY <1>2 DEF AckOfStart
  <2>2. Handler(ts') /\ ts'.dev = ts.dev /\ ts'.state = "STOPPED"
    BY <2>1, HeardKeeps DEF Handler, Field
  <2>3. Roused'
    BY <1>1, <2>2 DEF Inv, Roused, outcome
  <2> QED BY <1>1, <2>2, <2>3, HandlerKeeps
<1>3. CASE Head(replies[d]).cmd = "ACK"
  <2> DEFINE r == send_time_sync_msg(Heard)
  <2>1. ts' = [r EXCEPT !.state = "MEASURING_TRAVELING_TIME"]
    BY <1>3 DEF AckOfStart
  <2>2. Handler(r) /\ r.dev = ts.dev
    BY HeardKeeps, StampKeeps
  <2>3. Handler(ts') /\ ts'.dev = ts.dev /\ ts'.state = "MEASURING_TRAVELING_TIME"
    <3> HIDE DEF r
    <3> QED BY <2>1, <2>2 DEF Handler, Field
  <2>4. Roused'
    BY <1>1, <2>3 DEF Inv, Roused, outcome
  <2> QED BY <1>1, <2>3, <2>4, HandlerKeeps
<1> QED BY <1>2, <1>3

LEMMA MeasuredKeeps ==
    ASSUME NEW d \in Dev, NEW t \in Travel PROVE Inv /\ Measured(d, t) => Inv'
<1> SUFFICES ASSUME Inv, Measured(d, t) PROVE Inv'
  OBVIOUS
<1>1. ts.state = "MEASURING_TRAVELING_TIME" /\ UNCHANGED <<outcome, starts>>
  BY DEF Measured, Arrives
<1> DEFINE s == [Heard EXCEPT !.times = Added(@, t)]
           r == [s EXCEPT !.repeat = 0]
<1>2. /\ Handler(s) /\ s.dev = ts.dev /\ s.state = ts.state
      /\ Handler(r) /\ r.dev = ts.dev
  BY HeardKeeps DEF Handler, Field
<1>3. ts' = IF s.repeat = Measure THEN calculate_compensation(r) ELSE send_time_sync_msg(s)
  BY DEF Measured
<1> HIDE DEF r, s
<1>4. /\ Handler(ts') /\ ts'.dev = ts.dev
      /\ ts'.state \in {"MEASURING_TRAVELING_TIME", "SENDING_COMPENSATED"}
  BY <1>1, <1>2, <1>3, CompensationKeeps, StampKeeps
<1>5. Roused'
  BY <1>1, <1>4 DEF Inv, Roused, outcome
<1> QED BY <1>1, <1>4, <1>5, HandlerKeeps

LEMMA JudgedKeeps ==
    ASSUME NEW d \in Dev, NEW t \in Travel PROVE Inv /\ Judged(d, t) => Inv'
<1> SUFFICES ASSUME Inv, Judged(d, t) PROVE Inv'
  OBVIOUS
<1>1. ts.state = "SENDING_COMPENSATED" /\ UNCHANGED starts
  BY DEF Judged, Arrives
<1>2. starts # 0
  BY <1>1 DEF Inv, Roused
<1> DEFINE r == Send(Heard, [cmd |-> "GOOD", idx |-> Head(replies[d]).idx])
<1>3. CASE ts' = [r EXCEPT !.state = "STOP_WAITS_FOR_ACK", !.repeat = 0] /\ UNCHANGED outcome
  <2>1. Handler(r) /\ r.dev = ts.dev
    BY HeardKeeps, SendKeeps
  <2>2. Handler(ts') /\ ts'.dev = ts.dev /\ ts'.state = "STOP_WAITS_FOR_ACK"
    <3> HIDE DEF r
    <3> QED BY <1>3, <2>1 DEF Handler, Field
  <2>3. Roused'
    BY <1>1, <1>2, <1>3, <2>2 DEF Inv, Roused, outcome
  <2> QED BY <1>3, <2>2, <2>3, HandlerKeeps
<1>4. CASE ts' = send_time_sync_msg(Heard) /\ UNCHANGED outcome
  <2>1. Handler(ts') /\ ts'.dev = ts.dev /\ ts'.state = ts.state
    BY <1>4, HeardKeeps, StampKeeps
  <2>2. Roused'
    BY <1>1, <1>4, <2>1 DEF Inv, Roused, outcome
  <2> QED BY <1>4, <2>1, <2>2, HandlerKeeps
<1>5. CASE onTimeSyncOfDevXfinished([Heard EXCEPT !.repeat = 0], FALSE)
  <2> DEFINE s == [Heard EXCEPT !.repeat = 0]
  <2>1. Handler(s) /\ s.dev = ts.dev
    BY HeardKeeps DEF Handler, Field
  <2> HIDE DEF s
  <2> QED BY <1>1, <1>2, <1>5, <2>1, FinishKeeps DEF s
<1> QED BY <1>3, <1>4, <1>5 DEF Judged

LEMMA AckOfStopKeeps == ASSUME NEW d \in Dev PROVE Inv /\ AckOfStop(d) => Inv'
<1> SUFFICES ASSUME Inv, AckOfStop(d) PROVE Inv'
  OBVIOUS
<1>1. ts.state = "STOP_WAITS_FOR_ACK" /\ UNCHANGED starts
  BY DEF AckOfStop, Arrives
<1>2. starts # 0
  BY <1>1 DEF Inv, Roused
<1>3. CASE ts' = [Heard EXCEPT !.state = "STOPPED"] /\ UNCHANGED outcome
  <2>1. Handler(ts') /\ ts'.dev = ts.dev /\ ts'.state = "STOPPED"
    BY <1>3, HeardKeeps DEF Handler, Field
  <2>2. Roused'
    BY <1>1, <1>2, <1>3, <2>1 DEF Inv, Roused, outcome
  <2> QED BY <1>3, <2>1, <2>2, HandlerKeeps
<1>4. ASSUME onTimeSyncOfDevXfinished([Heard EXCEPT !.repeat = 0, !.times = <<>>,
                                                    !.state = "STOPPED"], TRUE)
      PROVE  Inv'
  <2> DEFINE s == [Heard EXCEPT !.repeat = 0, !.times = <<>>, !.state = "STOPPED"]
  <2>1. Handler(s) /\ s.dev = ts.dev /\ s.state = "STOPPED"
    BY HeardKeeps DEF Handler, Field
  <2>2. onTimeSyncOfDevXfinished(s, TRUE)
    BY <1>4
  <2> HIDE DEF s
  <2> QED BY <1>1, <1>2, <1>4, <2>1, <2>2, FinishKeeps
<1> QED BY <1>3, <1>4 DEF AckOfStop

LEMMA IgnoredKeeps == ASSUME NEW d \in Dev PROVE Inv /\ Ignored(d) => Inv'
<1> SUFFICES ASSUME Inv, Ignored(d) PROVE Inv'
  OBVIOUS
<1>1. ts' = Heard /\ UNCHANGED <<outcome, starts>>
  BY DEF Ignored, Arrives
<1>2. Roused'
  BY <1>1, HeardKeeps DEF Inv, Roused, outcome
<1> QED BY <1>1, <1>2, HeardKeeps, HandlerKeeps

LEMMA TimeoutKeeps == Inv /\ TimeoutTimerExpires => Inv'
<1> SUFFICES ASSUME Inv, TimeoutTimerExpires PROVE Inv'
  OBVIOUS
<1>1. /\ ts' = [ts EXCEPT !.timer = FALSE, !.state = "STOPPED"]
      /\ UNCHANGED <<outcome, starts>>
  BY DEF TimeoutTimerExpires
<1>2. Handler(ts') /\ ts'.dev = ts.dev /\ ts'.state = "STOPPED"
  BY <1>1 DEF Inv, Handler, Field
<1>3. Roused'
  BY <1>1, <1>2 DEF Inv, Roused, outcome
<1> QED BY <1>1, <1>2, <1>3, HandlerKeeps

\* A start begins with device 0: there is none before it.
LEMMA StartAllKeeps == Inv /\ NextRequestTimerExpires => Inv'
<1> SUFFICES ASSUME Inv, NextRequestTimerExpires PROVE Inv'
  OBVIOUS
<1>1. /\ ts' = start_time_sync(ts, 0) /\ starts' = starts + 1
      /\ UNCHANGED outcome
  BY DEF NextRequestTimerExpires, startTimeSyncOfDevX
<1>2. 0 \in Dev /\ \A d \in Dev : ~(d < 0)
  BY TimeSyncAssumption DEF Dev
<1>3. Handler(ts') /\ ts'.dev = 0 /\ ts'.state = "START_WAITS_FOR_ACK"
  BY <1>1, <1>2, StartKeeps DEF Inv
<1>4. Passed'
  BY <1>1, <1>2, <1>3 DEF Inv, Passed, NoDeviceIsPassedOver, outcome
<1>5. Roused'
  <2>1. starts \in Nat /\ starts' \in Nat /\ starts' # 0 /\ (starts' = 1 => starts = 0)
    BY <1>1 DEF Inv, Roused
  <2> QED BY <1>1, <1>3, <2>1 DEF Inv, Roused
<1> QED BY <1>3, <1>4, <1>5 DEF Inv

\* The link and the devices take a message from the air, which is not looked at.
LEMMA LinkKeeps ==
    ASSUME NEW d \in Dev, Inv, ts' = [ts EXCEPT !.air[d] = Tail(@)] \/ UNCHANGED ts,
           UNCHANGED <<outcome, starts>>
    PROVE  Inv'
<1>1. Handler(ts') /\ ts'.dev = ts.dev /\ ts'.state = ts.state
  BY DEF Inv, Handler, Field
<1>2. Roused'
  BY <1>1 DEF Inv, Roused, outcome
<1> QED BY <1>1, <1>2, HandlerKeeps

LEMMA InvNext == Inv /\ [Next]_vars => Inv'
<1> SUFFICES ASSUME Inv, [Next]_vars PROVE Inv'
  OBVIOUS
<1>1. CASE TimeSyncTimerExpires
  <2>1. 0 \in Dev
    BY TimeSyncAssumption DEF Dev
  <2> QED BY <1>1, <2>1, LinkKeeps DEF TimeSyncTimerExpires
<1>2. CASE NextRequestTimerExpires
  BY <1>2, StartAllKeeps
<1>3. CASE TimeoutTimerExpires
  BY <1>3, TimeoutKeeps
<1>4. ASSUME NEW d \in Dev, slot_time_sync_msg_arrived(d) PROVE Inv'
  BY <1>4, AckOfStartKeeps, MeasuredKeeps, JudgedKeeps, AckOfStopKeeps, IgnoredKeeps
     DEF slot_time_sync_msg_arrived
<1>5. ASSUME NEW d \in Dev, DeviceComesUp(d) \/ DeviceGoesDown(d) \/ LoseReply(d) PROVE Inv'
  BY <1>5, LinkKeeps DEF DeviceComesUp, DeviceGoesDown, LoseReply
<1>6. ASSUME NEW d \in Dev, DeviceHears(d) \/ Unheard(d) PROVE Inv'
  BY <1>6, LinkKeeps DEF DeviceHears, Unheard
<1>7. CASE UNCHANGED vars
  <2>1. 0 \in Dev
    BY TimeSyncAssumption DEF Dev
  <2> QED BY <1>7, <2>1, LinkKeeps DEF vars, outcome
<1> QED BY <1>1, <1>2, <1>3, <1>4, <1>5, <1>6, <1>7 DEF Next

-----------------------------------------------------------------------------
(* One message under way                                                   *)
(*                                                                         *)
(* A reply does not say which device it comes from, nor an ACK what it is  *)
(* for.  That they are taken for what they are rests on there being one    *)
(* message under way, of the device in sync, and on what it may be in each *)
(* state of the handler; a start that cuts in would break it, so the       *)
(* invariant holds until a start has met an exchange (clash).              *)

\* Messages under way: none, or one of the device in sync.
NoMsg == [d \in Dev |-> <<>>]
Only(d, m) == [NoMsg EXCEPT ![d] = <<m>>]

\* What is on its way to the device, or back from it, in each state.
Asks(m) ==
    /\ ts.state = "START_WAITS_FOR_ACK" => m.cmd = "START"
    /\ ts.state \in {"MEASURING_TRAVELING_TIME", "SENDING_COMPENSATED"} => m.cmd = "STAMP"
    /\ ts.state = "STOP_WAITS_FOR_ACK" => m.cmd = "GOOD"
    /\ m.cmd = "GOOD" => m.idx = lastStamp[ts.dev]

Replies(m) ==
    /\ ts.state = "START_WAITS_FOR_ACK" => m.cmd = "ACK"
    /\ ts.state \in {"MEASURING_TRAVELING_TIME", "SENDING_COMPENSATED"} =>
          m.cmd = "STAMP" /\ m.idx = lastStamp[ts.dev]
    /\ ts.state = "STOP_WAITS_FOR_ACK" => m.cmd = "ACK" /\ ts.dev \in good

AskUnderWay(m) == ts.air = Only(ts.dev, m) /\ replies = NoMsg /\ Asks(m)
ReplyUnderWay(m) == ts.air = NoMsg /\ replies = Only(ts.dev, m) /\ Replies(m)
NoneUnderWay == ts.air = NoMsg /\ replies = NoMsg

Exchange ==
    ~clash =>
       /\ NoneUnderWay \/ \E m : AskUnderWay(m) \/ ReplyUnderWay(m)
       /\ synced \subseteq good

\* Every device has a last stamp.
Stamps == DOMAIN lastStamp = Dev

\* Nothing but these is read.
LEMMA ExchangeSame ==
    ASSUME Exchange, UNCHANGED <<ts, replies, synced, good, lastStamp, clash>>
    PROVE  Exchange'
  BY DEF Exchange, NoneUnderWay, AskUnderWay, ReplyUnderWay, Asks, Replies, Only, NoMsg

LEMMA OneMessage ==
    ASSUME NEW d \in Dev, NEW m
    PROVE  /\ [NoMsg EXCEPT ![d] = Append(@, m)] = Only(d, m)
           /\ [Only(d, m) EXCEPT ![d] = Tail(@)] = NoMsg
           /\ Only(d, m)[d] = <<m>> /\ Only(d, m)[d] # <<>>
           /\ \A e \in Dev : NoMsg[e] = <<>> /\ (Only(d, m)[e] # <<>> => e = d)
<1>1. Append(<<>>, m) = <<m>> /\ Tail(<<m>>) = <<>> /\ <<m>> # <<>>
  OBVIOUS
<1> QED BY <1>1 DEF NoMsg, Only

\* The reply that is handled is the one under way.
LEMMA Arrival ==
    ASSUME Inv, Exchange, ~clash, NEW d \in Dev, replies[d] # <<>>,
           replies' = [replies EXCEPT ![d] = Tail(@)]
    PROVE  /\ ts.air = NoMsg /\ replies' = NoMsg /\ d = ts.dev
           /\ Replies(Head(replies[d]))
<1>1. replies[d] # <<>> /\ ts.dev \in Dev
  BY DEF Inv, Handler
<1>2. replies # NoMsg
  BY <1>1, OneMessage
<1>3. PICK m : ReplyUnderWay(m)
  BY <1>2 DEF Exchange, NoneUnderWay, AskUnderWay
<1>4. replies = Only(ts.dev, m) /\ ts.air = NoMsg /\ Replies(m)
  BY <1>3 DEF ReplyUnderWay
<1>5. d = ts.dev
  BY <1>1, <1>4, OneMessage
<1>6. Head(replies[d]) = m
  <2>1. replies[d] = <<m>>
    BY <1>1, <1>4, <1>5, OneMessage
  <2> QED BY <2>1
<1>7. replies' = NoMsg
  <2>1. replies' = [Only(ts.dev, m) EXCEPT ![ts.dev] = Tail(@)]
    BY <1>4, <1>5
  <2> QED BY <2>1, <1>1, OneMessage
<1> QED BY <1>1, <1>4, <1>5, <1>6, <1>7

\* The handler falls silent.
LEMMA Silent ==
    ASSUME ts'.air = NoMsg, replies' = NoMsg, synced' \subseteq good' PROVE Exchange'
  BY DEF Exchange, NoneUnderWay, NoMsg

\* The handler sends one message to its device.
LEMMA Speaks ==
    ASSUME NEW m, NEW d \in Dev, ts'.dev = d, ts'.air = [NoMsg EXCEPT ![d] = Append(@, m)],
           replies' = NoMsg, Asks(m)', synced' \subseteq good'
    PROVE  Exchange'
<1>1. ts'.air = Only(d, m)
  BY OneMessage
<1>2. AskUnderWay(m)'
  BY <1>1 DEF AskUnderWay, Only, NoMsg
<1> QED BY <1>2 DEF Exchange

\* A device that has heard that it is good ends, or one that has failed, and
\* the next one is asked to start.
LEMMA FinishSpeaks ==
    ASSUME Handler(ts), NEW s, Handler(s), s.dev = ts.dev, s.air = NoMsg,
           NEW success \in BOOLEAN, onTimeSyncOfDevXfinished(s, success),
           success => ts.dev \in good, synced \subseteq good,
           replies' = NoMsg, UNCHANGED good
    PROVE  Exchange'
<1>1. synced' \subseteq good'
  BY DEF onTimeSyncOfDevXfinished
<1>2. CASE s.dev + 1 < N
  <2>1. s.dev + 1 \in Dev
    BY <1>2, TimeSyncAssumption DEF Handler, Dev
  <2>2. ts' = start_time_sync(s, s.dev + 1)
    BY <1>2 DEF onTimeSyncOfDevXfinished, startTimeSyncOfDevX
  <2> DEFINE d == s.dev + 1
             r == start_time_sync(s, d)
  <2>3. /\ r.dev = d /\ r.state = "START_WAITS_FOR_ACK"
        /\ r.air = [s.air EXCEPT ![d] = Append(@, Plain("START"))]
    <3>1. d \in Dev
      BY <2>1
    <3> HIDE DEF d
    <3> QED BY <3>1, StartSends
  <2>4. ts' = r /\ d \in Dev
    BY <2>1, <2>2
  <2> HIDE DEF d, r
  <2>5. Asks(Plain("START"))'
    BY <2>3, <2>4 DEF Asks, Plain
  <2>6. ts'.dev = d /\ ts'.air = [NoMsg EXCEPT ![d] = Append(@, Plain("START"))]
    BY <2>3, <2>4
  <2> QED BY <1>1, <2>4, <2>5, <2>6, Speaks
<1>3. CASE ~(s.dev + 1 < N)
  <2>1. ts'.air = NoMsg
    BY <1>3 DEF onTimeSyncOfDevXfinished
  <2> QED BY <1>1, <2>1, Silent
<1> QED BY <1>2, <1>3

\* A stamp for the device in sync.
LEMMA StampSpeaks ==
    ASSUME ts.dev \in Dev, ts.air = NoMsg, ts'.dev = ts.dev,
           ts'.state \in {"MEASURING_TRAVELING_TIME", "SENDING_COMPENSATED"},
           \E i : ts'.air = [ts.air EXCEPT ![ts.dev] = Append(@, Stamp(i))],
           replies' = NoMsg, synced' \subseteq good'
    PROVE  Exchange'
<1>1. PICK i : ts'.air = [NoMsg EXCEPT ![ts.dev] = Append(@, Stamp(i))]
  OBVIOUS
<1>2. Asks(Stamp(i))'
  BY DEF Asks, Stamp
<1> QED BY <1>1, <1>2, Speaks

LEMMA HeardAir == Inv => Heard.air = ts.air
  BY DEF Inv, Heard, Handler, Field

LEMMA AckOfStartSpeaks ==
    ASSUME Inv, Exchange, ~clash, NEW d \in Dev, AckOfStart(d) PROVE Exchange'
<1>1. /\ Arrives(d, "START_WAITS_FOR_ACK") /\ UNCHANGED <<synced, good>>
      /\ synced \subseteq good /\ ts.dev \in Dev
  BY DEF AckOfStart, Arrives, outcome, devices, Exchange, Inv, Handler
<1>2. ts.air = NoMsg /\ replies' = NoMsg /\ Head(replies[d]).cmd = "ACK"
  BY <1>1, Arrival DEF Arrives, Replies
<1> DEFINE r == send_time_sync_msg(Heard)
<1>3. ts' = [r EXCEPT !.state = "MEASURING_TRAVELING_TIME"]
  BY <1>2 DEF AckOfStart
<1>4. /\ Handler(r) /\ r.dev = ts.dev
      /\ \E i : r.air = [ts.air EXCEPT ![ts.dev] = Append(@, Stamp(i))]
  <2>1. Heard.air = ts.air /\ Heard.dev = ts.dev /\ Handler(Heard)
    BY HeardAir, HeardKeeps
  <2>2. Handler(r) /\ r.dev = Heard.dev
    BY <2>1, StampKeeps
  <2>3. \E i : r.air = [Heard.air EXCEPT ![Heard.dev] = Append(@, Stamp(i))]
    BY <2>1, StampKeeps
  <2> HIDE DEF r
  <2> QED BY <2>1, <2>2, <2>3, Zenon
<1> HIDE DEF r
<1>5. ts'.dev = ts.dev /\ ts'.state = "MEASURING_TRAVELING_TIME" /\ ts'.air = r.air
  BY <1>3, <1>4 DEF Handler, Field
<1>6. \E i : ts'.air = [ts.air EXCEPT ![ts.dev] = Append(@, Stamp(i))]
  BY <1>4, <1>5, Zenon
<1> QED BY <1>1, <1>2, <1>5, <1>6, StampSpeaks

LEMMA MeasuredSpeaks ==
    ASSUME Inv, Exchange, ~clash, NEW d \in Dev, NEW t \in Travel, Measured(d, t)
    PROVE  Exchange'
<1>1. /\ Arrives(d, "MEASURING_TRAVELING_TIME") /\ UNCHANGED <<synced, good>>
      /\ synced \subseteq good /\ ts.dev \in Dev /\ ts.state = "MEASURING_TRAVELING_TIME"
  BY DEF Measured, Arrives, outcome, devices, Exchange, Inv, Handler
<1>2. ts.air = NoMsg /\ replies' = NoMsg
  BY <1>1, Arrival DEF Arrives
<1> DEFINE s == [Heard EXCEPT !.times = Added(@, t)]
           r == [s EXCEPT !.repeat = 0]
<1>3. /\ Handler(s) /\ s.dev = ts.dev /\ s.state = ts.state /\ s.air = ts.air
      /\ Handler(r) /\ r.dev = ts.dev /\ r.air = ts.air
  BY HeardKeeps, HeardAir DEF Handler, Field
<1>4. ts' = IF s.repeat = Measure THEN calculate_compensation(r) ELSE send_time_sync_msg(s)
  BY DEF Measured
<1> HIDE DEF r, s
<1> DEFINE a == calculate_compensation(r)
           b == send_time_sync_msg(s)
<1>5. /\ a.dev = r.dev /\ a.state = "SENDING_COMPENSATED"
      /\ \E i : a.air = [r.air EXCEPT ![r.dev] = Append(@, Stamp(i))]
  BY <1>3, CompensationKeeps
<1>6. /\ b.dev = s.dev /\ b.state = s.state
      /\ \E i : b.air = [s.air EXCEPT ![s.dev] = Append(@, Stamp(i))]
  BY <1>3, StampKeeps
<1>7. ts' = a \/ ts' = b
  BY <1>4
<1> HIDE DEF a, b
<1>8. /\ ts'.dev = ts.dev
      /\ ts'.state \in {"MEASURING_TRAVELING_TIME", "SENDING_COMPENSATED"}
  BY <1>1, <1>3, <1>5, <1>6, <1>7
<1>9. \E i : ts'.air = [ts.air EXCEPT ![ts.dev] = Append(@, Stamp(i))]
  BY <1>3, <1>5, <1>6, <1>7, Zenon
<1> QED BY <1>1, <1>2, <1>8, <1>9, StampSpeaks

LEMMA JudgedSpeaks ==
    ASSUME Inv, Exchange, ~clash, NEW d \in Dev, NEW t \in Travel, Judged(d, t)
    PROVE  Exchange'
<1>1. /\ Arrives(d, "SENDING_COMPENSATED") /\ synced \subseteq good /\ ts.dev \in Dev
      /\ UNCHANGED <<lastStamp, good>> /\ ts.state = "SENDING_COMPENSATED"
  BY DEF Judged, Arrives, devices, Exchange, Inv, Handler
<1>2. /\ ts.air = NoMsg /\ replies' = NoMsg
      /\ Head(replies[d]).idx = lastStamp[ts.dev]
  BY <1>1, Arrival DEF Arrives, Replies
<1>3. Heard.air = ts.air /\ Heard.dev = ts.dev /\ Handler(Heard) /\ Heard.state = ts.state
  BY HeardAir, HeardKeeps
<1>m. PICK m : m = [cmd |-> "GOOD", idx |-> Head(replies[d]).idx]
  OBVIOUS
<1> DEFINE r == Send(Heard, m)
<1>4. CASE /\ ts' = [r EXCEPT !.state = "STOP_WAITS_FOR_ACK", !.repeat = 0]
           /\ UNCHANGED outcome
  <2>1. m.cmd = "GOOD" /\ m.idx = lastStamp[ts.dev]
    BY <1>m, <1>2
  <2>2. Handler(r) /\ r.dev = ts.dev /\ r.air = [NoMsg EXCEPT ![ts.dev] = Append(@, m)]
    <3>1. r.dev = Heard.dev /\ r.air = [Heard.air EXCEPT ![Heard.dev] = Append(@, m)] /\ Handler(r)
      BY <1>3, SendKeeps
    <3> HIDE DEF r
    <3> QED BY <1>2, <1>3, <3>1
  <2> HIDE DEF r
  <2>3. ts'.dev = ts.dev /\ ts'.state = "STOP_WAITS_FOR_ACK" /\ ts'.air = r.air
    BY <1>4, <2>2 DEF Handler, Field
  <2>4. Asks(m)'
    BY <1>1, <2>1, <2>3 DEF Asks
  <2>5. synced' \subseteq good' /\ ts'.air = [NoMsg EXCEPT ![ts.dev] = Append(@, m)]
    BY <1>1, <1>4, <2>2, <2>3 DEF outcome
  <2> QED BY <1>1, <1>2, <2>3, <2>4, <2>5, Speaks
<1>5. CASE ts' = send_time_sync_msg(Heard) /\ UNCHANGED outcome
  <2> DEFINE b == send_time_sync_msg(Heard)
  <2>1. /\ b.dev = Heard.dev /\ b.state = Heard.state
        /\ \E i : b.air = [Heard.air EXCEPT ![Heard.dev] = Append(@, Stamp(i))]
    BY <1>3, StampKeeps
  <2>2. ts' = b /\ UNCHANGED synced
    BY <1>5 DEF outcome
  <2> HIDE DEF b
  <2>3. ts'.dev = ts.dev /\ ts'.state = "SENDING_COMPENSATED" /\ synced' \subseteq good'
    BY <1>1, <1>3, <2>1, <2>2
  <2>4. \E i : ts'.air = [ts.air EXCEPT ![ts.dev] = Append(@, Stamp(i))]
    BY <1>3, <2>1, <2>2, Zenon
  <2> QED BY <1>1, <1>2, <2>3, <2>4, StampSpeaks
<1>6. CASE onTimeSyncOfDevXfinished([Heard EXCEPT !.repeat = 0], FALSE)
  <2> DEFINE s == [Heard EXCEPT !.repeat = 0]
  <2>1. Handler(s) /\ s.dev = ts.dev /\ s.air = NoMsg
    BY <1>2, <1>3 DEF Handler, Field
  <2>2. onTimeSyncOfDevXfinished(s, FALSE)
    BY <1>6
  <2> HIDE DEF s
  <2> QED BY <1>1, <1>2, <2>1, <2>2, FinishSpeaks DEF Inv
<1> QED BY <1>m, <1>4, <1>5, <1>6 DEF Judged

LEMMA AckOfStopSpeaks ==
    ASSUME Inv, Exchange, ~clash, NEW d \in Dev, AckOfStop(d) PROVE Exchange'
<1>1. /\ Arrives(d, "STOP_WAITS_FOR_ACK") /\ synced \subseteq good /\ UNCHANGED good
  BY DEF AckOfStop, Arrives, devices, Exchange
<1>2. /\ ts.air = NoMsg /\ replies' = NoMsg /\ ts.dev \in good
      /\ Head(replies[d]).cmd = "ACK"
  BY <1>1, Arrival DEF Arrives, Replies
<1> DEFINE s == [Heard EXCEPT !.repeat = 0, !.times = <<>>, !.state = "STOPPED"]
<1>3. onTimeSyncOfDevXfinished(s, TRUE)
  BY <1>2 DEF AckOfStop
<1>4. Handler(s) /\ s.dev = ts.dev /\ s.air = NoMsg
  BY <1>2, HeardAir, HeardKeeps DEF Handler, Field
<1> HIDE DEF s
<1> QED BY <1>1, <1>2, <1>3, <1>4, FinishSpeaks DEF Inv

LEMMA IgnoredSilent ==
    ASSUME Inv, Exchange, ~clash, NEW d \in Dev, Ignored(d) PROVE Exchange'
<1>1. PICK state : Arrives(d, state) /\ ts' = Heard /\ UNCHANGED <<synced, good>>
  BY DEF Ignored, Arrives, outcome, devices
<1>2. ts.air = NoMsg /\ replies' = NoMsg /\ synced' \subseteq good'
  BY <1>1, Arrival DEF Arrives, Exchange
<1> QED BY <1>1, <1>2, HeardAir, Silent

\* A handler that stops leaves what is under way.
LEMMA TimeoutLeaves ==
    ASSUME Inv, Exchange, ~clash, TimeoutTimerExpires PROVE Exchange'
<1>1. /\ ts' = [ts EXCEPT !.timer = FALSE, !.state = "STOPPED"]
      /\ UNCHANGED <<replies, synced, good, lastStamp>>
  BY DEF TimeoutTimerExpires, outcome, devices
<1>2. ts'.dev = ts.dev /\ ts'.state = "STOPPED" /\ ts'.air = ts.air
  BY <1>1 DEF Inv, Handler, Field
<1>3. ASSUME NEW m PROVE /\ Asks(m) => Asks(m)'
                         /\ Replies(m) => Replies(m)'
  BY <1>1, <1>2 DEF Asks, Replies
<1>4. ASSUME NEW m PROVE /\ AskUnderWay(m) => AskUnderWay(m)'
                         /\ ReplyUnderWay(m) => ReplyUnderWay(m)'
  BY <1>1, <1>2, <1>3 DEF AskUnderWay, ReplyUnderWay, Only, NoMsg
<1>5. NoneUnderWay => NoneUnderWay'
  BY <1>1, <1>2 DEF NoneUnderWay, NoMsg
<1> QED BY <1>1, <1>4, <1>5 DEF Exchange

LEMMA StartAllSpeaks ==
    ASSUME Inv, Exchange, ~clash, NextRequestTimerExpires PROVE Exchange'
<1>1. /\ ts' = start_time_sync(ts, 0) /\ UNCHANGED <<replies, synced, good>>
      /\ clash' = (clash \/ \E d \in Dev : ts.air[d] # <<>> \/ replies[d] # <<>>)
      /\ synced \subseteq good /\ ts.dev \in Dev
  BY DEF NextRequestTimerExpires, startTimeSyncOfDevX, outcome, devices, Exchange, Inv, Handler
<1>2. CASE clash'
  BY <1>2 DEF Exchange
<1>3. CASE ~clash'
  <2>1. ~(\E d \in Dev : ts.air[d] # <<>> \/ replies[d] # <<>>)
    BY <1>1, <1>3
  <2>2. ASSUME NEW m PROVE ~AskUnderWay(m) /\ ~ReplyUnderWay(m)
    BY <1>1, <2>1, OneMessage DEF AskUnderWay, ReplyUnderWay
  <2>3. ts.air = NoMsg /\ replies = NoMsg
    BY <2>2 DEF Exchange, NoneUnderWay
  <2> DEFINE r == start_time_sync(ts, 0)
  <2>4. 0 \in Dev
    BY TimeSyncAssumption DEF Dev
  <2>5. /\ r.dev = 0 /\ r.state = "START_WAITS_FOR_ACK"
        /\ r.air = [ts.air EXCEPT ![0] = Append(@, Plain("START"))]
    BY <2>4, StartSends DEF Inv
  <2>6. ts' = r
    BY <1>1
  <2> HIDE DEF r
  <2>7. ts'.dev = 0 /\ ts'.air = [NoMsg EXCEPT ![0] = Append(@, Plain("START"))]
    BY <2>3, <2>5, <2>6
  <2>8. Asks(Plain("START"))'
    BY <2>5, <2>6 DEF Asks, Plain
  <2>9. replies' = NoMsg /\ synced' \subseteq good'
    BY <1>1, <2>3
  <2> QED BY <2>4, <2>7, <2>8, <2>9, Speaks
<1> QED BY <1>2, <1>3

\* What is taken from the air is the message under way.
LEMMA Departure ==
    ASSUME Inv, Exchange, ~clash, NEW d \in Dev, ts.air[d] # <<>>,
           ts' = [ts EXCEPT !.air[d] = Tail(@)]
    PROVE  /\ d = ts.dev /\ Asks(Head(ts.air[d])) /\ replies = NoMsg
           /\ ts'.air = NoMsg /\ ts'.dev = ts.dev /\ ts'.state = ts.state
<1>1. ts.dev \in Dev
  BY DEF Inv, Handler
<1>2. ts.air # NoMsg
  BY OneMessage
<1>3. PICK m : AskUnderWay(m)
  BY <1>2 DEF Exchange, NoneUnderWay, ReplyUnderWay
<1>4. ts.air = Only(ts.dev, m) /\ replies = NoMsg /\ Asks(m)
  BY <1>3 DEF AskUnderWay
<1>5. d = ts.dev
  BY <1>1, <1>4, OneMessage
<1>6. Head(ts.air[d]) = m
  <2>1. ts.air[d] = <<m>>
    BY <1>1, <1>4, <1>5, OneMessage
  <2> QED BY <2>1
<1>7. /\ ts'.air = [ts.air EXCEPT ![d] = Tail(@)]
      /\ ts'.dev = ts.dev /\ ts'.state = ts.state
  BY DEF Inv, Handler, Field
<1>8. ts'.air = NoMsg
  <2>1. ts'.air = [Only(ts.dev, m) EXCEPT ![ts.dev] = Tail(@)]
    BY <1>4, <1>5, <1>7
  <2> QED BY <1>1, <2>1, OneMessage
<1> QED BY <1>4, <1>5, <1>6, <1>7, <1>8

\* The device answers what it was asked.
LEMMA DeviceHearsAnswers ==
    ASSUME Inv, Stamps, Exchange, ~clash, NEW d \in Dev, DeviceHears(d) PROVE Exchange'
<1>m. PICK m, a : m = Head(ts.air[d]) /\ a = Answer(m)
  OBVIOUS
<1>1. /\ ts.air[d] # <<>> /\ ts' = [ts EXCEPT !.air[d] = Tail(@)]
      /\ replies' = [replies EXCEPT ![d] = Append(@, a)]
      /\ lastStamp' = IF m.cmd = "STAMP" THEN [lastStamp EXCEPT ![d] = m.idx] ELSE lastStamp
      /\ good' = IF m.cmd = "GOOD" THEN good \cup {d} ELSE good
      /\ synced' = synced /\ synced \subseteq good
  BY <1>m DEF DeviceHears, outcome, Exchange
<1>2. /\ d = ts.dev /\ Asks(m) /\ replies = NoMsg
      /\ ts'.air = NoMsg /\ ts'.dev = ts.dev /\ ts'.state = ts.state
  BY <1>m, <1>1, Departure
<1>3. replies' = Only(d, a)
  <2>1. replies' = [NoMsg EXCEPT ![d] = Append(@, a)]
    BY <1>1, <1>2
  <2> QED BY <2>1, OneMessage
<1>4. a = IF m.cmd = "STAMP" THEN m ELSE [cmd |-> "ACK", idx |-> 0]
  BY <1>m DEF Answer, Plain
<1>5. Replies(a)'
  <2>1. CASE m.cmd = "STAMP"
    <3>1. lastStamp' = [lastStamp EXCEPT ![d] = m.idx] /\ a = m
      BY <1>1, <1>4, <2>1
    <3>2. lastStamp'[d] = m.idx
      BY <3>1 DEF Stamps
    <3> QED BY <1>2, <2>1, <3>1, <3>2 DEF Asks, Replies
  <2>2. CASE m.cmd # "STAMP"
    <3>1. a.cmd = "ACK"
      BY <1>4, <2>2
    <3> QED BY <1>1, <1>2, <2>2, <3>1 DEF Asks, Replies
  <2> QED BY <2>1, <2>2
<1>6. ReplyUnderWay(a)'
  BY <1>2, <1>3, <1>5 DEF ReplyUnderWay, Only, NoMsg
<1> QED BY <1>1, <1>6 DEF Exchange

LEMMA UnheardIsGone ==
    ASSUME Inv, Exchange, ~clash, NEW d \in Dev, Unheard(d) PROVE Exchange'
<1>1. /\ ts.air[d] # <<>> /\ ts' = [ts EXCEPT !.air[d] = Tail(@)]
      /\ UNCHANGED <<replies, synced, good>> /\ synced \subseteq good
  BY DEF Unheard, outcome, devices, Exchange
<1>2. ts'.air = NoMsg /\ replies' = NoMsg
  BY <1>1, Departure
<1> QED BY <1>1, <1>2, Silent

LEMMA LostIsGone ==
    ASSUME Inv, Exchange, ~clash, NEW d \in Dev, LoseReply(d) PROVE Exchange'
<1>1. /\ replies[d] # <<>> /\ replies' = [replies EXCEPT ![d] = Tail(@)]
      /\ UNCHANGED <<ts, synced, good>> /\ synced \subseteq good
  BY DEF LoseReply, outcome, devices, Exchange
<1>2. ts'.air = NoMsg /\ replies' = NoMsg
  BY <1>1, Arrival
<1> QED BY <1>1, <1>2, Silent

LEMMA StampsKept == Stamps /\ [Next]_vars => Stamps'
<1> SUFFICES ASSUME Stamps, [Next]_vars PROVE Stamps'
  OBVIOUS
<1>1. CASE UNCHANGED lastStamp
  BY <1>1 DEF Stamps
<1>2. ASSUME NEW d \in Dev, DeviceHears(d) PROVE Stamps'
  <2>1. lastStamp' \in {lastStamp, [lastStamp EXCEPT ![d] = Head(ts.air[d]).idx]}
    BY <1>2 DEF DeviceHears
  <2> QED BY <2>1 DEF Stamps
<1>3. \/ UNCHANGED lastStamp
      \/ \E d \in Dev : DeviceHears(d)
  BY DEF Next, vars, TimeSyncTimerExpires, NextRequestTimerExpires, TimeoutTimerExpires,
         slot_time_sync_msg_arrived, AckOfStart, Measured, Judged, AckOfStop, Ignored, Arrives,
         DeviceComesUp, DeviceGoesDown, Unheard, LoseReply, devices
<1> QED BY <1>1, <1>2, <1>3

LEMMA ExchangeInit == Init => Exchange /\ Stamps
  BY DEF Init, Exchange, Stamps, NoneUnderWay, NoMsg

LEMMA ExchangeNext == Inv /\ Stamps /\ Exchange /\ [Next]_vars => Exchange'
<1> SUFFICES ASSUME Inv, Stamps, Exchange, [Next]_vars PROVE Exchange'
  OBVIOUS
<1>1. CASE clash
  <2>1. clash'
    BY <1>1 DEF Next, vars, TimeSyncTimerExpires, NextRequestTimerExpires,
           TimeoutTimerExpires, slot_time_sync_msg_arrived, AckOfStart, Measured, Judged,
           AckOfStop, Ignored, Arrives, DeviceComesUp, DeviceGoesDown, DeviceHears, Unheard,
           LoseReply
  <2> QED BY <2>1 DEF Exchange
<1>2. CASE ~clash
  <2>1. CASE TimeSyncTimerExpires
    BY <2>1, ExchangeSame DEF TimeSyncTimerExpires, outcome, devices
  <2>2. CASE NextRequestTimerExpires
    BY <1>2, <2>2, StartAllSpeaks
  <2>3. CASE TimeoutTimerExpires
    BY <1>2, <2>3, TimeoutLeaves
  <2>4. ASSUME NEW d \in Dev, slot_time_sync_msg_arrived(d) PROVE Exchange'
    BY <1>2, <2>4, AckOfStartSpeaks, MeasuredSpeaks, JudgedSpeaks, AckOfStopSpeaks,
       IgnoredSilent DEF slot_time_sync_msg_arrived
  <2>5. ASSUME NEW d \in Dev, DeviceComesUp(d) \/ DeviceGoesDown(d) PROVE Exchange'
    BY <2>5, ExchangeSame DEF DeviceComesUp, DeviceGoesDown, outcome, devices
  <2>6. ASSUME NEW d \in Dev, DeviceHears(d) \/ Unheard(d) \/ LoseReply(d) PROVE Exchange'
    BY <1>2, <2>6, DeviceHearsAnswers, UnheardIsGone, LostIsGone
  <2>7. CASE UNCHANGED vars
    BY <2>7, ExchangeSame DEF vars
  <2> QED BY <2>1, <2>2, <2>3, <2>4, <2>5, <2>6, <2>7 DEF Next
<1> QED BY <1>1, <1>2

-----------------------------------------------------------------------------
(* The sum of travelling times.  FoldSeq is a recursive function on the    *)
(* subsets of the domain, one exists for every finite domain, and whatever *)
(* holds of a smaller subset holds of the next: in place of an induction,  *)
(* the smallest subset that is an exception is looked at.                  *)

LEMMA SmallestNumber ==
    ASSUME NEW T \in SUBSET Nat, T # {}
    PROVE  \E m \in T : \A y \in T : m <= y
<1> DEFINE R == {ss \in Nat \X Nat : ss[1] < ss[2]}
<1>1. IsWellFoundedOn(R, Nat)
  BY NatLessThanWellFounded DEF OpToRel
<1> HIDE DEF R
<1>2. PICK m \in T : \A y \in T : ~ (<<y, m>> \in R)
  BY <1>1, WFMin
<1>3. ASSUME NEW y \in T PROVE m <= y
  <2>1. y \in Nat /\ m \in Nat /\ ~ (<<y, m>> \in R)
    BY <1>2
  <2>2. ~(y < m)
    BY <2>1 DEF R
  <2> QED
    BY <2>1, <2>2
<1> QED
  BY <1>3

\* The element of a set of indices that is added next.
Pick(s) == CHOOSE x \in s : TRUE

SumOf(q, f, s) == IF s = {} THEN 0 ELSE q[Pick(s)] + f[s \ {Pick(s)}]

LEMMA SumIs ==
    ASSUME NEW q
    PROVE  Sum(q) = (CHOOSE f : f = [s \in SUBSET DOMAIN q |-> SumOf(q, f, s)])[DOMAIN q]
BY DEF Sum, FoldSeq, FoldFunction, FoldFunctionOnSet, MapThenFoldSet, SumOf, Pick

LEMMA PickIsMember == ASSUME NEW s, s # {} PROVE Pick(s) \in s
BY DEF Pick

\* The subsets of S with at most n elements.
UpTo(S, n) == {s \in SUBSET S : Cardinality(s) <= n}

LEMMA OneLess ==
    ASSUME NEW S, IsFiniteSet(S), NEW n \in Nat, NEW s \in UpTo(S, n), s # {}
    PROVE  /\ IsFiniteSet(s) /\ Cardinality(s) \in Nat \ {0} /\ n # 0
           /\ Cardinality(s \ {Pick(s)}) = Cardinality(s) - 1
           /\ s \ {Pick(s)} \in UpTo(S, n - 1)
           /\ s \ {Pick(s)} \in UpTo(S, n)
<1>1. IsFiniteSet(s) /\ s \in SUBSET S /\ Cardinality(s) <= n
  BY FS_Subset DEF UpTo
<1>2. Cardinality(s) \in Nat /\ Cardinality(s) # 0
  BY <1>1, FS_CardinalityType, FS_EmptySet
<1>3. Cardinality(s \ {Pick(s)}) = Cardinality(s) - 1
  BY <1>1, FS_RemoveElement, PickIsMember
<1> QED
  BY <1>1, <1>2, <1>3 DEF UpTo

\* A function that is the sum on all small subsets.
Sums(q, S, n, f) ==
    /\ f \in [UpTo(S, n) -> Nat]
    /\ \A s \in UpTo(S, n) : f[s] = SumOf(q, f, s)

LEMMA SumsExist ==
    ASSUME NEW S, IsFiniteSet(S), NEW q \in [S -> Nat], NEW n \in Nat
    PROVE  \E f : Sums(q, S, n, f)
<1> DEFINE T == {k \in Nat : ~ \E f : Sums(q, S, k, f)}
<1>1. SUFFICES ASSUME T # {} PROVE FALSE
  OBVIOUS
<1>2. PICK m \in T : \A y \in T : m <= y
  BY <1>1, SmallestNumber
<1>3. m \in Nat /\ ~ \E f : Sums(q, S, m, f)
  OBVIOUS
<1>4. CASE m = 0
  <2> DEFINE f == [s \in UpTo(S, 0) |-> 0]
  <2>1. \A s \in UpTo(S, 0) : s = {}
    BY OneLess
  <2>2. Sums(q, S, 0, f)
    BY <2>1 DEF Sums, SumOf
  <2> QED
    BY <1>3, <1>4, <2>2
<1>5. CASE m # 0
  <2>1. m - 1 \in Nat /\ m - 1 \notin T
    BY <1>2, <1>3, <1>5
  <2>2. PICK g : Sums(q, S, m - 1, g)
    BY <2>1
  <2> DEFINE f == [s \in UpTo(S, m) |-> SumOf(q, g, s)]
  <2>3. UpTo(S, m - 1) \subseteq UpTo(S, m)
    <3>1. ASSUME NEW s \in UpTo(S, m - 1) PROVE s \in UpTo(S, m)
      <4>1. IsFiniteSet(s) /\ s \in SUBSET S /\ Cardinality(s) <= m - 1
        BY FS_Subset DEF UpTo
      <4>2. Cardinality(s) \in Nat
        BY <4>1, FS_CardinalityType
      <4> QED
        BY <1>3, <4>1, <4>2 DEF UpTo
    <3> QED
      BY <3>1
  <2>4. \A s \in UpTo(S, m - 1) : f[s] = g[s] /\ g[s] \in Nat
    BY <2>2, <2>3 DEF Sums
  <2>5. ASSUME NEW s \in UpTo(S, m)
        PROVE  f[s] \in Nat /\ f[s] = SumOf(q, f, s)
    <3>1. f[s] = SumOf(q, g, s)
      OBVIOUS
    <3> HIDE DEF f
    <3>2. CASE s = {}
      BY <3>1, <3>2 DEF SumOf
    <3>3. CASE s # {}
      <4>1. s \ {Pick(s)} \in UpTo(S, m - 1)
        BY <1>3, <3>3, OneLess
      <4>2. Pick(s) \in S
        BY <3>3, PickIsMember DEF UpTo
      <4>3. q[Pick(s)] \in Nat
        BY <4>2
      <4> QED
        BY <2>4, <3>1, <3>3, <4>1, <4>3 DEF SumOf
    <3> QED
      BY <3>2, <3>3
  <2>6. DOMAIN f = UpTo(S, m) /\ f = [s \in UpTo(S, m) |-> f[s]]
    OBVIOUS
  <2> HIDE DEF f
  <2>7. Sums(q, S, m, f)
    BY <2>5, <2>6 DEF Sums
  <2> QED
    BY <1>3, <2>7
<1> QED
  BY <1>4, <1>5

\* The sum is what it should be of every set of indices.
LEMMA SumRecursion ==
    ASSUME NEW S, IsFiniteSet(S), NEW q \in [S -> Nat]
    PROVE  \E f : /\ f = [s \in SUBSET S |-> SumOf(q, f, s)]
                  /\ Sum(q) = f[S]
<1> DEFINE n == Cardinality(S)
<1>1. n \in Nat
  BY FS_CardinalityType
<1>2. UpTo(S, n) = SUBSET S
  BY FS_Subset DEF UpTo
<1>3. PICK g : Sums(q, S, n, g)
  BY <1>1, SumsExist
<1>4. g \in [SUBSET S -> Nat] /\ \A s \in SUBSET S : g[s] = SumOf(q, g, s)
  BY <1>2, <1>3 DEF Sums
<1>5. g = [s \in SUBSET S |-> SumOf(q, g, s)]
  <2>1. g = [s \in SUBSET S |-> g[s]]
    BY <1>4
  <2> QED
    BY <1>4, <2>1
<1> DEFINE f == CHOOSE h : h = [s \in SUBSET S |-> SumOf(q, h, s)]
<1>6. f = [s \in SUBSET S |-> SumOf(q, f, s)]
  BY <1>5
<1>7. DOMAIN q = S
  OBVIOUS
<1>8. Sum(q) = f[S]
  BY <1>7, SumIs
<1> HIDE DEF f
<1> QED
  BY <1>6, <1>8

LEMMA TimesStep ==
    ASSUME NEW c \in Nat, c # 0, NEW b \in Nat, NEW y \in Nat, NEW x \in Nat,
           x <= b, y <= (c - 1) * b
    PROVE  x + y \in Nat /\ x + y <= c * b
<1>1. (c - 1) * b + b = c * b /\ (c - 1) * b \in Nat /\ c * b \in Nat
  OBVIOUS
<1> QED
  BY <1>1

\* The average is not greater than the greatest.
LEMMA SumBounded ==
    ASSUME NEW S, IsFiniteSet(S), NEW q \in [S -> Nat], NEW b \in Nat,
           \A i \in S : q[i] <= b
    PROVE  Sum(q) \in Nat /\ Sum(q) <= Cardinality(S) * b
<1>1. PICK f : f = [s \in SUBSET S |-> SumOf(q, f, s)] /\ Sum(q) = f[S]
  BY SumRecursion
<1>2. \A s \in SUBSET S : f[s] = SumOf(q, f, s)
  BY <1>1
<1> DEFINE Good(s) == f[s] \in Nat /\ f[s] <= Cardinality(s) * b
           T == {k \in Nat : \E s \in SUBSET S : Cardinality(s) = k /\ ~Good(s)}
<1>3. T = {}
  <2>1. SUFFICES ASSUME T # {} PROVE FALSE
    OBVIOUS
  <2>2. PICK m \in T : \A y \in T : m <= y
    BY <2>1, SmallestNumber
  <2>3. PICK s \in SUBSET S : Cardinality(s) = m /\ ~Good(s)
    OBVIOUS
  <2>4. CASE s = {}
    <3>1. f[s] = 0 /\ Cardinality(s) = 0
      BY <1>2, <2>4, FS_EmptySet DEF SumOf
    <3> QED
      BY <2>3, <3>1
  <2>5. CASE s # {}
    <3> DEFINE r == s \ {Pick(s)}
               x == q[Pick(s)]
    <3>1. m \in Nat /\ s \in UpTo(S, m)
      BY <2>3 DEF UpTo
    <3>2. m # 0 /\ Cardinality(r) = m - 1 /\ r \in SUBSET S
      BY <2>3, <2>5, <3>1, OneLess
    <3>3. m - 1 \notin T
      BY <2>2, <3>1, <3>2
    <3>4. Good(r)
      BY <3>1, <3>2, <3>3
    <3>5. x \in Nat /\ x <= b
      BY <2>5, PickIsMember
    <3>6. f[s] = x + f[r]
      BY <1>2, <2>5 DEF SumOf
    <3>7. f[r] \in Nat /\ f[r] <= (m - 1) * b
      BY <3>2, <3>4
    <3> HIDE DEF x, r
    <3>8. f[s] \in Nat /\ f[s] <= m * b
      BY <3>1, <3>2, <3>5, <3>6, <3>7, TimesStep
    <3> QED
      BY <2>3, <3>8
  <2> QED
    BY <2>4, <2>5
<1>4. Cardinality(S) \in Nat
  BY FS_CardinalityType
<1>5. Good(S)
  BY <1>3, <1>4
<1> QED
  BY <1>1, <1>5

-----------------------------------------------------------------------------
(* Travelling times *)

Longest == Max(Travel \cup {0})

LEMMA Bounded ==
    ASSUME NEW T \in SUBSET Nat, IsFiniteSet(T), T # {}
    PROVE  \E b \in T : \A x \in T : x <= b
<1> DEFINE Unbounded(s) == s # {} /\ ~ \E b \in s : \A x \in s : x <= b
           K == {k \in Nat : \E s \in SUBSET T : Cardinality(s) = k /\ Unbounded(s)}
<1>1. Cardinality(T) \in Nat
  BY FS_CardinalityType
<1>2. SUFFICES ASSUME K # {} PROVE FALSE
  BY <1>1
<1>3. PICK m \in K : \A y \in K : m <= y
  BY <1>2, SmallestNumber
<1>4. PICK s \in SUBSET T : Cardinality(s) = m /\ Unbounded(s)
  OBVIOUS
<1> DEFINE p == Pick(s)
           r == s \ {p}
<1>5. p \in s /\ p \in Nat /\ m \in Nat /\ s \in UpTo(T, m)
  <2>1. m \in Nat
    OBVIOUS
  <2>2. s # {} /\ Cardinality(s) = m
    BY <1>4
  <2> HIDE DEF K
  <2>3. p \in s
    BY <2>2, PickIsMember
  <2>4. s \in UpTo(T, m)
    BY <2>1, <2>2 DEF UpTo
  <2> QED
    BY <2>1, <2>3, <2>4
<1>6. Cardinality(r) = m - 1 /\ m - 1 \in Nat
  BY <1>4, <1>5, OneLess
<1>7. ~Unbounded(r)
  <2>1. m - 1 \notin K
    BY <1>3, <1>5, <1>6
  <2> QED
    BY <1>6, <2>1
<1> HIDE DEF p
<1>8. CASE r = {}
  <2>1. \A x \in s : x <= p
    BY <1>5, <1>8
  <2> QED
    BY <1>4, <1>5, <2>1
<1>9. CASE r # {}
  <2>1. PICK b \in r : \A x \in r : x <= b
    BY <1>7, <1>9
  <2>2. b \in s /\ b \in Nat /\ \A x \in s : x = p \/ x \in r
    BY <2>1
  <2>3. CASE p <= b
    BY <1>4, <2>1, <2>2, <2>3
  <2>4. CASE b <= p
    <3>1. \A x \in s : x <= p
      BY <1>5, <2>1, <2>2, <2>4
    <3> QED
      BY <1>4, <1>5, <3>1
  <2> QED
    BY <1>5, <2>2, <2>3, <2>4
<1> QED
  BY <1>8, <1>9

LEMMA LongestBounds ==
    Longest \in Nat /\ \A t \in Travel : t \in Nat /\ t <= Longest
<1> DEFINE T == Travel \cup {0}
<1>1. T \in SUBSET Nat /\ IsFiniteSet(T) /\ T # {}
  BY FS_AddElement, TimeSyncAssumption
<1>2. \E b \in T : \A x \in T : x <= b
  BY <1>1, Bounded
<1>3. \E b \in T : \A x \in T : b >= x
  BY <1>1, <1>2
<1>4. Max(T) \in T /\ \A x \in T : Max(T) >= x
  BY <1>3 DEF Max
<1> QED
  BY <1>1, <1>4 DEF Longest

LEMMA SeqFunction ==
    ASSUME NEW X, NEW q \in Seq(X)
    PROVE  /\ Len(q) \in Nat /\ DOMAIN q = 1..Len(q)
           /\ q \in [1..Len(q) -> X] /\ \A i \in 1..Len(q) : q[i] \in X
OBVIOUS

\* Taking a part or putting one in.
LEMMA PartType ==
    ASSUME NEW X, NEW q \in Seq(X), NEW a \in Nat \ {0}, NEW b \in Int, b <= Len(q)
    PROVE  /\ SubSeq(q, a, b) \in Seq(X)
           /\ Len(SubSeq(q, a, b)) = IF b >= a THEN b - a + 1 ELSE 0
OBVIOUS

LEMMA JoinType ==
    ASSUME NEW X, NEW p \in Seq(X), NEW q \in Seq(X)
    PROVE  p \o q \in Seq(X) /\ Len(p \o q) = Len(p) + Len(q)
OBVIOUS

LEMMA InsertType ==
    ASSUME NEW X, NEW q \in Seq(X), NEW e \in X, NEW i \in 1..(Len(q) + 1)
    PROVE  InsertAt(q, i, e) \in Seq(X) /\ Len(InsertAt(q, i, e)) = Len(q) + 1
<1> DEFINE a == SubSeq(q, 1, i - 1)
           m == <<e>>
           c == SubSeq(q, i, Len(q))
<1>1. /\ Len(q) \in Nat /\ i \in Nat \ {0} /\ i - 1 \in Int /\ i - 1 <= Len(q)
      /\ Len(q) \in Int /\ i <= Len(q) + 1
  OBVIOUS
<1>2. a \in Seq(X) /\ Len(a) = i - 1
  BY <1>1, PartType
<1>3. c \in Seq(X) /\ Len(c) = Len(q) + 1 - i
  BY <1>1, PartType
<1>4. m \in Seq(X) /\ Len(m) = 1
  OBVIOUS
<1>5. InsertAt(q, i, e) = (a \o m) \o c
  BY DEF InsertAt
<1> HIDE DEF a, m, c
<1>6. a \o m \in Seq(X) /\ Len(a \o m) = i
  <2>1. a \o m \in Seq(X) /\ Len(a \o m) = Len(a) + Len(m)
    BY <1>2, <1>4, JoinType
  <2> QED
    BY <1>1, <1>2, <1>4, <2>1
<1>7. (a \o m) \o c \in Seq(X) /\ Len((a \o m) \o c) = Len(q) + 1
  <2>1. /\ (a \o m) \o c \in Seq(X)
        /\ Len((a \o m) \o c) = Len(a \o m) + Len(c)
    BY <1>3, <1>6, JoinType
  <2> QED
    BY <1>1, <1>3, <1>6, <2>1
<1> QED
  BY <1>5, <1>7

LEMMA AddedType ==
    ASSUME NEW q \in Seq(Travel), NEW t \in Travel
    PROVE  Added(q, t) \in Seq(Travel) /\ Len(Added(q, t)) = Len(q) + 1
<1> DEFINE S == {i \in DOMAIN q : q[i] <= t}
<1>1. Len(q) \in Nat /\ DOMAIN q = 1..Len(q)
  BY SeqFunction
<1>2. IsFiniteSet(1..Len(q)) /\ Cardinality(1..Len(q)) = Len(q)
  BY <1>1, FS_Interval
<1>3. IsFiniteSet(S) /\ Cardinality(S) <= Len(q)
  BY <1>1, <1>2, FS_Subset
<1>4. Cardinality(S) + 1 \in 1..(Len(q) + 1)
  BY <1>1, <1>3, FS_CardinalityType
<1> HIDE DEF S
<1>5. InsertAt(q, Cardinality(S) + 1, t) \in Seq(Travel)
      /\ Len(InsertAt(q, Cardinality(S) + 1, t)) = Len(q) + 1
  BY <1>4, InsertType
<1> QED
  BY <1>5 DEF Added, S

LEMMA TrimmedType ==
    ASSUME NEW q \in Seq(Travel), Len(q) > 2 * Trim
    PROVE  /\ Trimmed(q) \in Seq(Travel)
           /\ Len(Trimmed(q)) = Len(q) - 2 * Trim /\ Len(Trimmed(q)) \in Nat \ {0}
<1>1. Trim \in Nat /\ Len(q) \in Nat
  BY TimeSyncAssumption
<1>2. Trim + 1 \in Nat \ {0} /\ Len(q) - Trim \in Int /\ Len(q) - Trim <= Len(q)
      /\ Len(q) - Trim >= Trim + 1
  BY <1>1
<1>3. SubSeq(q, Trim + 1, Len(q) - Trim) \in Seq(Travel)
      /\ Len(SubSeq(q, Trim + 1, Len(q) - Trim)) = (Len(q) - Trim) - (Trim + 1) + 1
  BY <1>2, PartType
<1>4. (Len(q) - Trim) - (Trim + 1) + 1 = Len(q) - 2 * Trim
      /\ Len(q) - 2 * Trim \in Nat \ {0}
  BY <1>1
<1> QED
  BY <1>3, <1>4 DEF Trimmed

LEMMA QuotientBounded ==
    ASSUME NEW x \in Nat, NEW n \in Nat \ {0}, NEW b \in Nat, x <= n * b
    PROVE  x \div n \in Nat /\ x \div n <= b
<1> DEFINE a == x \div n
<1>1. a \in Nat /\ a * n <= x
  OBVIOUS
<1> HIDE DEF a
<1>2. SUFFICES ASSUME a >= b + 1 PROVE FALSE
  BY <1>1 DEF a
<1>3. a * n >= (b + 1) * n
  BY <1>1, <1>2
<1>4. (b + 1) * n = n * b + n
  OBVIOUS
<1>5. n * b \in Nat /\ a * n \in Nat
  BY <1>1
<1> QED
  BY <1>1, <1>3, <1>4, <1>5

\* Half way between the smallest and the average, and so below the longest.
LEMMA ThresholdType ==
    ASSUME NEW q \in Seq(Travel), Len(q) # 0
    PROVE  Threshold(q) \in 0..Longest
<1> DEFINE n == Len(q)
           S == 1..n
           a == Sum(q) \div n
           m == q[1]
<1>1. n \in Nat /\ n > 0 /\ q \in [S -> Nat] /\ 1 \in S
      /\ \A i \in S : q[i] <= Longest /\ q[i] \in Nat
  BY SeqFunction, LongestBounds
<1>2. IsFiniteSet(S) /\ Cardinality(S) = n
  BY <1>1, FS_Interval
<1>3. Sum(q) \in Nat /\ Sum(q) <= n * Longest
  BY <1>1, <1>2, SumBounded, LongestBounds
<1>4. a \in Nat /\ a <= Longest
  <2>1. n \in Nat \ {0} /\ Longest \in Nat
    BY <1>1, LongestBounds
  <2> HIDE DEF n
  <2> QED
    BY <1>3, <2>1, QuotientBounded
<1>5. m \in Nat /\ m <= Longest /\ Longest \in Nat
  BY <1>1, LongestBounds
<1>6. Threshold(q) = m + (a - m) \div 2
  BY DEF Threshold
<1> HIDE DEF a, m
<1>7. m + (a - m) \div 2 \in 0..Longest
  BY <1>4, <1>5
<1> QED
  BY <1>6, <1>7


-----------------------------------------------------------------------------
(* The average is always of something                                      *)
(*                                                                         *)
(* m_send_repeat_count and travelling_times are reset by a success and by  *)
(* calculate_compensation, not by a start.  A start that cuts in can thus  *)
(* find more stamps counted than times gathered, by what calculate_        *)
(* compensation has trimmed; how many of them there may be, Lag, and so    *)
(* that more times than are trimmed have come when the count is reached,   *)
(* is what the range of the threshold rests on.                            *)

Cost == IF Trim = 0 THEN 1 ELSE 2 * Trim - 1
Lag(k) == (k - 1) * Cost

\* Of n times and a count of r in a state of the handler.
Enough(state, r, n, lag) ==
    /\ r < Measure => r <= n + lag + Cost
    /\ state = "START_WAITS_FOR_ACK" /\ r < Measure => r <= n + lag
    /\ state = "MEASURING_TRAVELING_TIME" /\ r <= Measure => r <= n + 1 + lag
    /\ state = "SENDING_COMPENSATED" => Measure <= n + lag + 2 * Trim
    /\ state = "STOP_WAITS_FOR_ACK" => r = 0


\* The times are in ascending order: the first is the smallest, and those
\* trimmed at the ends are the smallest and the biggest.
Ascending(q) == \A i, j \in 1..Len(q) : i <= j => q[i] <= q[j]

Gathered ==
    /\ Enough(ts.state, ts.repeat, Len(ts.times), Lag(starts))
    /\ Ascending(ts.times)

\* A start takes a device that has come up.
Known == {d \in Dev : link[d] # "new"}
Begun == starts + (IF nextTimer THEN 1 ELSE 0) <= Cardinality(Known)

Count(r) == (r + 1) % RepeatWrap

LEMMA CostType ==
    /\ Cost \in Nat \ {0} /\ 2 * Trim <= Cost + 1
    /\ Trim \in Nat /\ Measure \in Nat \ {0} /\ RepeatWrap \in Nat /\ RepeatWrap > Measure
    /\ N \in Nat \ {0}
<1>1. /\ N \in Nat \ {0} /\ Trim \in Nat /\ Measure \in Nat
      /\ RepeatWrap \in Nat /\ RepeatWrap > Measure
      /\ Measure >= 2 * Trim + 1 + (N - 1) * Cost
  BY TimeSyncAssumption DEF Cost
<1>2. Cost \in Nat \ {0} /\ 2 * Trim <= Cost + 1
  BY <1>1 DEF Cost
<1>3. (N - 1) * Cost \in Nat
  <2>1. N - 1 \in Nat /\ Cost \in Nat
    BY <1>1, <1>2
  <2> HIDE DEF Cost
  <2> QED
    BY <2>1
<1> QED
  BY <1>1, <1>2, <1>3

LEMMA LagType ==
    ASSUME NEW k \in 0..N
    PROVE  /\ Lag(k) \in Int /\ (k # 0 => Lag(k) \in Nat) /\ Lag(k + 1) = Lag(k) + Cost
           /\ Measure >= 2 * Trim + 1 + Lag(k)
<1>1. Cost \in Nat \ {0} /\ N \in Nat \ {0}
  BY CostType
<1>2. Measure >= 2 * Trim + 1 + (N - 1) * Cost
  BY TimeSyncAssumption DEF Cost
<1> HIDE DEF Cost
<1>3. (N - 1) * Cost = (k - 1) * Cost + (N - k) * Cost
  BY <1>1
<1>4. N - k \in Nat /\ (N - k) * Cost \in Nat /\ (k - 1) * Cost \in Int
  BY <1>1
<1>5. k # 0 => (k - 1) * Cost \in Nat
  BY <1>1
<1>6. ((k + 1) - 1) * Cost = (k - 1) * Cost + Cost
  BY <1>1
<1> QED
  BY <1>1, <1>2, <1>3, <1>4, <1>5, <1>6, CostType DEF Lag

LEMMA CountType ==
    ASSUME NEW r \in 0..(RepeatWrap - 1)
    PROVE  Count(r) \in 0..(RepeatWrap - 1) /\ Count(r) \in {0, r + 1}
<1>1. RepeatWrap \in Nat \ {0}
  BY CostType
<1>2. CASE r + 1 < RepeatWrap
  BY <1>1, <1>2 DEF Count
<1>3. CASE r + 1 = RepeatWrap
  BY <1>1, <1>3 DEF Count
<1> QED
  BY <1>1, <1>2, <1>3

-----------------------------------------------------------------------------
(* Enough, step by step *)

LEMMA StoppedEnough ==
    ASSUME NEW state, NEW r, NEW n, NEW lag, Enough(state, r, n, lag)
    PROVE  Enough("STOPPED", r, n, lag)
BY DEF Enough

LEMMA CutInEnough ==
    ASSUME NEW state, NEW r \in Nat, NEW n \in Nat, NEW lag \in Int,
           Enough(state, r, n, lag)
    PROVE  Enough("START_WAITS_FOR_ACK", r, n, lag + Cost)
<1>1. Cost \in Nat /\ Measure \in Nat
  BY CostType
<1> HIDE DEF Cost
<1> QED
  BY <1>1 DEF Enough

LEMMA ZeroEnough ==
    ASSUME NEW n \in Nat, NEW lag \in Nat,
           NEW state \in {"START_WAITS_FOR_ACK", "STOP_WAITS_FOR_ACK", "STOPPED"}
    PROVE  Enough(state, 0, n, lag)
<1>1. Cost \in Nat /\ Measure \in Nat
  BY CostType
<1> HIDE DEF Cost
<1> QED
  BY <1>1 DEF Enough

LEMMA AcceptedEnough ==
    ASSUME NEW r \in 0..(RepeatWrap - 1), NEW n \in Nat, NEW lag \in Nat,
           Enough("START_WAITS_FOR_ACK", r, n, lag)
    PROVE  Enough("MEASURING_TRAVELING_TIME", Count(r), n, lag)
<1>1. Cost \in Nat \ {0} /\ Measure \in Nat /\ Count(r) \in {0, r + 1} /\ r \in Nat
  BY CostType, CountType
<1> HIDE DEF Cost, Count
<1> QED
  BY <1>1 DEF Enough

LEMMA MeasuredEnough ==
    ASSUME NEW r \in 0..(RepeatWrap - 1), NEW n \in Nat, NEW lag \in Nat,
           Enough("MEASURING_TRAVELING_TIME", r, n, lag), r # Measure
    PROVE  Enough("MEASURING_TRAVELING_TIME", Count(r), n + 1, lag)
<1>1. Cost \in Nat \ {0} /\ Measure \in Nat /\ Count(r) \in {0, r + 1} /\ r \in Nat
  BY CostType, CountType
<1> HIDE DEF Cost, Count
<1> QED
  BY <1>1 DEF Enough

LEMMA CompensationEnough ==
    ASSUME NEW n \in Nat, NEW k \in 1..N,
           Enough("MEASURING_TRAVELING_TIME", Measure, n, Lag(k))
    PROVE  /\ n + 1 > 2 * Trim
           /\ Enough("SENDING_COMPENSATED", Count(0), (n + 1) - 2 * Trim, Lag(k))
<1>1. /\ Cost \in Nat \ {0} /\ Measure \in Nat /\ Trim \in Nat /\ 0 \in 0..(RepeatWrap - 1)
      /\ k \in 0..N /\ k # 0
  BY CostType
<1>2. Count(0) \in {0, 1} /\ Lag(k) \in Nat /\ Measure >= 2 * Trim + 1 + Lag(k)
  BY <1>1, CountType, LagType
<1> HIDE DEF Cost, Count, Lag
<1>3. Measure <= n + 1 + Lag(k)
  BY <1>1 DEF Enough
<1> QED
  BY <1>1, <1>2, <1>3 DEF Enough

LEMMA CompensatedEnough ==
    ASSUME NEW r \in 0..(RepeatWrap - 1), NEW n \in Nat, NEW lag \in Nat,
           Enough("SENDING_COMPENSATED", r, n, lag)
    PROVE  /\ Enough("SENDING_COMPENSATED", Count(r), n, lag)
           /\ Enough("SENDING_COMPENSATED", 0, n, lag)
<1>1. /\ Cost \in Nat \ {0} /\ Measure \in Nat /\ Count(r) \in {0, r + 1} /\ r \in Nat
      /\ Trim \in Nat /\ 2 * Trim <= Cost + 1
  BY CostType, CountType
<1> HIDE DEF Cost, Count
<1> QED
  BY <1>1 DEF Enough

-----------------------------------------------------------------------------
(* The types of what the handler computes *)

TsType == [state : SyncState, repeat : 0..(RepeatWrap - 1), times : Seq(Travel),
           trsh : 0..Longest, dev : Dev, timer : BOOLEAN, air : [Dev -> Seq(TsMsg)]]

LEMMA IsTsType ==
    ASSUME NEW s
    PROVE  s \in TsType <=>
             /\ s = [state |-> s.state, repeat |-> s.repeat, times |-> s.times,
                     trsh |-> s.trsh, dev |-> s.dev, timer |-> s.timer, air |-> s.air]
             /\ s.state \in SyncState
             /\ s.repeat \in 0..(RepeatWrap - 1)
             /\ s.times \in Seq(Travel)
             /\ s.trsh \in 0..Longest
             /\ s.dev \in Dev
             /\ s.timer \in BOOLEAN
             /\ s.air \in [Dev -> Seq(TsMsg)]
BY DEF TsType

\* What a message that is sent leaves.
Leaves(s, r) ==
    r.state = s.state /\ r.repeat = s.repeat /\ r.times = s.times /\ r.dev = s.dev

LEMMA SendType ==
    ASSUME NEW s \in TsType, NEW m \in TsMsg
    PROVE  /\ Send(s, m) \in TsType /\ Leaves(s, Send(s, m))
           /\ SendTimed(s, m) \in TsType /\ Leaves(s, SendTimed(s, m))
<1> DEFINE a == [s.air EXCEPT ![s.dev] = Append(@, m)]
<1>1. a \in [Dev -> Seq(TsMsg)]
  <2>1. s.air \in [Dev -> Seq(TsMsg)] /\ s.dev \in Dev
    BY IsTsType
  <2>2. Append(s.air[s.dev], m) \in Seq(TsMsg)
    BY <2>1
  <2> QED
    BY <2>1, <2>2
<1>2. Send(s, m) = [s EXCEPT !.air = a]
  BY DEF Send, TsType
<1> HIDE DEF a
<1> DEFINE r == [s EXCEPT !.air = a]
<1>3. r \in TsType /\ Leaves(s, r)
  BY <1>1 DEF TsType, Leaves
<1> HIDE DEF r
<1>4. [r EXCEPT !.timer = TRUE] \in TsType /\ Leaves(s, [r EXCEPT !.timer = TRUE])
  BY <1>3 DEF TsType, Leaves
<1> QED
  BY <1>2, <1>3, <1>4 DEF SendTimed, r

LEMMA StampIsMsg == \A i \in 0..(RepeatWrap - 1) : Stamp(i) \in TsMsg
BY DEF Stamp, TsMsg

LEMMA PlainIsMsg == Plain("START") \in TsMsg /\ Plain("ACK") \in TsMsg
<1>1. 0 \in 0..(RepeatWrap - 1)
  BY CostType
<1> QED
  BY <1>1 DEF Plain, TsMsg

LEMMA StampType ==
    ASSUME NEW s \in TsType
    PROVE  /\ send_time_sync_msg(s) \in TsType
           /\ send_time_sync_msg(s).repeat = Count(s.repeat)
           /\ send_time_sync_msg(s).state = s.state
           /\ send_time_sync_msg(s).times = s.times
           /\ send_time_sync_msg(s).dev = s.dev
<1> DEFINE i == Count(s.repeat)
           r == SendTimed(s, Stamp(i))
<1>1. i \in 0..(RepeatWrap - 1)
  BY IsTsType, CountType
<1>2. r \in TsType /\ Leaves(s, r)
  BY <1>1, StampIsMsg, SendType
<1>3. send_time_sync_msg(s) = [r EXCEPT !.repeat = i]
  BY DEF send_time_sync_msg, Count
<1> HIDE DEF i, r
<1> QED
  BY <1>1, <1>2, <1>3 DEF TsType, Leaves, i

LEMMA CompensationType ==
    ASSUME NEW s \in TsType, Len(s.times) > 2 * Trim
    PROVE  /\ calculate_compensation(s) \in TsType
           /\ calculate_compensation(s).repeat = Count(s.repeat)
           /\ calculate_compensation(s).state = "SENDING_COMPENSATED"
           /\ calculate_compensation(s).times = Trimmed(s.times)
           /\ Len(calculate_compensation(s).times) = Len(s.times) - 2 * Trim
<1> DEFINE k == Trimmed(s.times)
           t == Threshold(k)
           r == [s EXCEPT !.times = k, !.trsh = t, !.state = "SENDING_COMPENSATED"]
<1>1. s.times \in Seq(Travel)
  BY IsTsType
<1>2. k \in Seq(Travel) /\ Len(k) # 0 /\ Len(k) = Len(s.times) - 2 * Trim
  BY <1>1, TrimmedType
<1>3. t \in 0..Longest
  BY <1>2, ThresholdType
<1>4. calculate_compensation(s) = send_time_sync_msg(r)
  BY DEF calculate_compensation
<1> HIDE DEF k, t
<1>5. /\ r \in TsType /\ r.repeat = s.repeat /\ r.times = k
      /\ r.state = "SENDING_COMPENSATED"
  BY <1>2, <1>3 DEF TsType, SyncState
<1> HIDE DEF r
<1> QED
  BY <1>2, <1>4, <1>5, StampType DEF k

LEMMA StartType ==
    ASSUME NEW s \in TsType, NEW d \in Dev
    PROVE  /\ start_time_sync(s, d) \in TsType
           /\ start_time_sync(s, d).repeat = s.repeat
           /\ start_time_sync(s, d).state = "START_WAITS_FOR_ACK"
           /\ start_time_sync(s, d).times = s.times
<1> DEFINE r == [s EXCEPT !.dev = d, !.state = "START_WAITS_FOR_ACK"]
<1>1. /\ r \in TsType /\ r.repeat = s.repeat /\ r.times = s.times
      /\ r.state = "START_WAITS_FOR_ACK"
  BY DEF TsType, SyncState
<1>2. start_time_sync(s, d) = SendTimed(r, Plain("START"))
  BY DEF start_time_sync
<1> HIDE DEF r
<1>3. SendTimed(r, Plain("START")) \in TsType /\ Leaves(r, SendTimed(r, Plain("START")))
  BY <1>1, PlainIsMsg, SendType
<1> QED
  BY <1>1, <1>2, <1>3 DEF Leaves

-----------------------------------------------------------------------------
(* Added and Trimmed keep the order *)

\* A set of indices that holds all that is before one of its own.
LEMMA FirstOnes ==
    ASSUME NEW n \in Nat, NEW S \in SUBSET (1..n),
           \A i \in S : \A j \in 1..n : j <= i => j \in S
    PROVE  S = 1..Cardinality(S) /\ Cardinality(S) <= n
<1>1. CASE S = {}
  BY <1>1, FS_EmptySet
<1>2. CASE S # {}
  <2>1. S \in SUBSET Nat /\ IsFiniteSet(S)
    <3>1. IsFiniteSet(1..n)
      BY FS_Interval
    <3>2. IsFiniteSet(S)
      BY <3>1, FS_Subset
    <3>3. 1..n \subseteq Nat
      OBVIOUS
    <3> QED
      BY <3>2, <3>3
  <2>2. PICK m \in S : \A x \in S : x <= m
    BY <1>2, <2>1, Bounded
  <2>3. m \in Nat /\ m >= 1 /\ m <= n
    OBVIOUS
  <2>m. S = 1..m
    <3>1. ASSUME NEW x \in S PROVE x \in 1..m
      BY <2>2, <2>3
    <3>2. ASSUME NEW x \in 1..m PROVE x \in S
      <4>1. x \in 1..n /\ x <= m
        BY <2>3
      <4> QED
        BY <4>1
    <3> QED
      BY <3>1, <3>2
  <2>4. Cardinality(1..m) = m
    BY <2>3, FS_Interval
  <2> QED
    BY <2>3, <2>4, <2>m
<1> QED
  BY <1>1, <1>2

LEMMA PartIs ==
    ASSUME NEW X, NEW q \in Seq(X), NEW a \in Nat \ {0}, NEW b \in Int, b <= Len(q),
           NEW j \in 1..Len(SubSeq(q, a, b))
    PROVE  SubSeq(q, a, b)[j] = q[a + j - 1] /\ a + j - 1 \in a..b
OBVIOUS

LEMMA JoinIs ==
    ASSUME NEW X, NEW p \in Seq(X), NEW q \in Seq(X), NEW j \in 1..(Len(p) + Len(q))
    PROVE  (p \o q)[j] = IF j <= Len(p) THEN p[j] ELSE q[j - Len(p)]
OBVIOUS

LEMMA InsertIs ==
    ASSUME NEW X, NEW q \in Seq(X), NEW e \in X, NEW i \in 1..(Len(q) + 1),
           NEW j \in 1..(Len(q) + 1)
    PROVE  InsertAt(q, i, e)[j] = IF j < i THEN q[j] ELSE IF j = i THEN e ELSE q[j - 1]
<1> DEFINE a == SubSeq(q, 1, i - 1)
           m == <<e>>
           c == SubSeq(q, i, Len(q))
<1>1. /\ Len(q) \in Nat /\ i \in Nat \ {0} /\ i - 1 \in Int /\ i - 1 <= Len(q)
      /\ Len(q) \in Int /\ i <= Len(q) + 1 /\ j \in Nat /\ 1 \in Nat \ {0}
  OBVIOUS
<1>2. a \in Seq(X) /\ Len(a) = i - 1
  BY <1>1, PartType
<1>3. c \in Seq(X) /\ Len(c) = Len(q) + 1 - i
  BY <1>1, PartType
<1>4. m \in Seq(X) /\ Len(m) = 1 /\ m[1] = e
  OBVIOUS
<1>5. InsertAt(q, i, e) = (a \o m) \o c
  BY DEF InsertAt
<1>6. \A k \in 1..Len(a) : a[k] = q[k]
  BY <1>1, PartIs
<1>7. \A k \in 1..Len(c) : c[k] = q[i + k - 1]
  BY <1>1, PartIs
<1> HIDE DEF a, m, c
<1> DEFINE b == a \o m
<1>8. b \in Seq(X) /\ Len(b) = i
  <2>1. b \in Seq(X) /\ Len(b) = Len(a) + Len(m)
    BY <1>2, <1>4, JoinType
  <2> QED
    BY <1>1, <1>2, <1>4, <2>1
<1>9. \A k \in 1..i : b[k] = IF k < i THEN q[k] ELSE e
  <2>1. ASSUME NEW k \in 1..i PROVE b[k] = IF k < i THEN q[k] ELSE e
    <3>1. k \in 1..(Len(a) + Len(m)) /\ k \in Nat
      BY <1>1, <1>2, <1>4
    <3>2. b[k] = IF k <= Len(a) THEN a[k] ELSE m[k - Len(a)]
      BY <1>2, <1>4, <3>1, JoinIs
    <3>3. CASE k < i
      <4>1. k <= Len(a) /\ k \in 1..Len(a)
        BY <1>1, <1>2, <3>1, <3>3
      <4> QED
        BY <1>6, <3>2, <3>3, <4>1
    <3>4. CASE k = i
      <4>1. ~(k <= Len(a)) /\ k - Len(a) = 1
        BY <1>1, <1>2, <3>4
      <4> QED
        BY <1>1, <1>4, <3>2, <3>4, <4>1
    <3>5. k < i \/ k = i
      BY <1>1
    <3> QED
      BY <3>3, <3>4, <3>5
  <2> QED
    BY <2>1
<1> HIDE DEF b
<1>10. (b \o c)[j] = IF j <= i THEN b[j] ELSE c[j - i]
  <2>1. j \in 1..(Len(b) + Len(c))
    BY <1>1, <1>3, <1>8
  <2> QED
    BY <1>3, <1>8, <2>1, JoinIs
<1>11. InsertAt(q, i, e)[j] = (b \o c)[j]
  BY <1>5 DEF b
<1>12. CASE j <= i
  <2>1. j \in 1..i
    BY <1>1, <1>12
  <2> QED
    BY <1>1, <1>9, <1>10, <1>11, <1>12, <2>1
<1>13. CASE j > i
  <2>1. j - i \in 1..Len(c) /\ i + (j - i) - 1 = j - 1 /\ ~(j <= i) /\ ~(j < i) /\ j # i
    BY <1>1, <1>3, <1>13
  <2>2. c[j - i] = q[j - 1]
    BY <1>7, <2>1
  <2> QED
    BY <1>10, <1>11, <2>1, <2>2
<1> QED
  BY <1>1, <1>12, <1>13

LEMMA AddedAscends ==
    ASSUME NEW q \in Seq(Travel), NEW t \in Travel, Ascending(q)
    PROVE  Ascending(Added(q, t))
<1> DEFINE n == Len(q)
           S == {i \in DOMAIN q : q[i] <= t}
           k == Cardinality(S)
           r == Added(q, t)
<1>1. n \in Nat /\ DOMAIN q = 1..n /\ t \in Nat /\ \A i \in 1..n : q[i] \in Nat
  BY SeqFunction, LongestBounds
<1>2. \A i, j \in 1..n : i <= j => q[i] <= q[j]
  BY DEF Ascending
<1>3. S \in SUBSET (1..n) /\ \A i \in S : \A j \in 1..n : j <= i => j \in S
  BY <1>1, <1>2
<1>4. S = 1..k /\ k <= n /\ k \in Nat
  <2>1. IsFiniteSet(S)
    <3>1. n \in Int /\ 1 \in Int
      BY <1>1
    <3>2. IsFiniteSet(1..n)
      BY <3>1, FS_Interval
    <3> HIDE DEF S, n
    <3> QED
      BY <1>3, <3>2, FS_Subset
  <2> HIDE DEF S, n
  <2> QED
    BY <1>1, <1>3, <2>1, FirstOnes, FS_CardinalityType
<1>5. \A i \in 1..n : i <= k <=> q[i] <= t
  BY <1>1, <1>4
<1>6. r = InsertAt(q, k + 1, t) /\ Len(r) = n + 1
  BY AddedType DEF Added
<1> HIDE DEF S, k, r
<1>7. \A j \in 1..(n + 1) :
         r[j] = IF j < k + 1 THEN q[j] ELSE IF j = k + 1 THEN t ELSE q[j - 1]
  <2>1. k + 1 \in 1..(Len(q) + 1)
    BY <1>1, <1>4
  <2> HIDE DEF n
  <2> QED
    BY <1>6, <2>1, InsertIs DEF n
<1> HIDE DEF n
<1> SUFFICES ASSUME NEW i \in 1..(n + 1), NEW j \in 1..(n + 1), i <= j PROVE r[i] <= r[j]
  BY <1>6 DEF Ascending, r
<1>8. i \in Nat /\ j \in Nat
  BY <1>1
<1>9. CASE j < k + 1
  <2>1. i < k + 1 /\ i \in 1..n /\ j \in 1..n
    BY <1>1, <1>4, <1>8, <1>9
  <2> QED
    BY <1>2, <1>7, <1>9, <2>1
<1>10. CASE j = k + 1
  <2>1. CASE i = k + 1
    BY <1>1, <1>4, <1>7, <1>10, <2>1
  <2>2. CASE i # k + 1
    <3>1. i < k + 1 /\ i \in 1..n /\ i <= k
      BY <1>1, <1>4, <1>8, <1>10, <2>2
    <3>2. r[i] = q[i]
      BY <1>7, <3>1
    <3>3. r[j] = t
      BY <1>4, <1>7, <1>10
    <3> QED
      BY <1>5, <3>1, <3>2, <3>3
  <2> QED
    BY <2>1, <2>2
<1>11. CASE j > k + 1
  <2>1. /\ j - 1 \in 1..n /\ ~(j < k + 1) /\ j # k + 1 /\ ~(j - 1 <= k)
    BY <1>1, <1>4, <1>8, <1>11
  <2>2. r[j] = q[j - 1] /\ q[j - 1] \in Nat /\ t <= q[j - 1]
    BY <1>1, <1>5, <1>7, <2>1
  <2>3. CASE i < k + 1
    <3>1. i \in 1..n /\ i <= j - 1
      BY <1>1, <1>4, <1>8, <1>11, <2>3
    <3> QED
      BY <1>2, <1>7, <2>1, <2>2, <2>3, <3>1
  <2>4. CASE i = k + 1
    <3>1. r[i] = t
      BY <1>4, <1>7, <2>4
    <3> QED
      BY <2>2, <3>1
  <2>5. CASE i > k + 1
    <3>1. i - 1 \in 1..n /\ i - 1 <= j - 1 /\ ~(i < k + 1) /\ i # k + 1
      BY <1>1, <1>4, <1>8, <2>5
    <3>2. r[i] = q[i - 1]
      BY <1>7, <3>1
    <3> QED
      BY <1>2, <2>1, <2>2, <3>1, <3>2
  <2> QED
    BY <1>4, <1>8, <2>3, <2>4, <2>5
<1> QED
  BY <1>4, <1>8, <1>9, <1>10, <1>11

LEMMA TrimmedAscends ==
    ASSUME NEW q \in Seq(Travel), Len(q) > 2 * Trim, Ascending(q)
    PROVE  Ascending(Trimmed(q))
<1> DEFINE r == Trimmed(q)
<1>1. Trim \in Nat /\ Len(q) \in Nat
  BY CostType
<1>2. Len(r) = Len(q) - 2 * Trim
  BY TrimmedType
<1>3. Trim + 1 \in Nat \ {0} /\ Len(q) - Trim \in Int /\ Len(q) - Trim <= Len(q)
  BY <1>1
<1>4. \A j \in 1..Len(r) : r[j] = q[j + Trim] /\ j + Trim \in 1..Len(q)
  <2>1. ASSUME NEW j \in 1..Len(r) PROVE r[j] = q[j + Trim] /\ j + Trim \in 1..Len(q)
    <3>1. r[j] = q[(Trim + 1) + j - 1]
      BY <1>3, PartIs DEF Trimmed
    <3>2. (Trim + 1) + j - 1 = j + Trim /\ j + Trim \in 1..Len(q)
      BY <1>1, <1>2
    <3> QED
      BY <3>1, <3>2
  <2> QED
    BY <2>1
<1> HIDE DEF r
<1> SUFFICES ASSUME NEW i \in 1..Len(r), NEW j \in 1..Len(r), i <= j PROVE r[i] <= r[j]
  BY DEF Ascending, r
<1>5. i + Trim <= j + Trim /\ i + Trim \in 1..Len(q) /\ j + Trim \in 1..Len(q)
  BY <1>1, <1>4
<1> QED
  BY <1>4, <1>5 DEF Ascending

-----------------------------------------------------------------------------
(* The types, step by step *)

Around ==
    /\ replies \in [Dev -> Seq(TsMsg)]
    /\ {syncTimer, nextTimer, reported, allDone, clash} \subseteq BOOLEAN
    /\ alive \in [Dev -> BOOLEAN]
    /\ link \in [Dev -> {"new", "up", "down"}]
    /\ lastStamp \in [Dev -> 0..(RepeatWrap - 1)]
    /\ good \cup synced \cup failed \subseteq Dev
    /\ losses \in 0..MaxLoss

Typed == ts \in TsType /\ Around /\ starts \in Nat /\ Gathered /\ Begun

LEMMA StartsBounded == ASSUME Typed PROVE starts \in 0..N /\ (nextTimer => starts + 1 \in 0..N)
<1>1. N \in Nat /\ N - 1 >= 0
  BY CostType
<1>2. IsFiniteSet(Dev) /\ Cardinality(Dev) = N
  BY <1>1, FS_Interval DEF Dev
<1>3. Known \subseteq Dev
  BY DEF Known
<1>4. Cardinality(Known) <= N /\ Cardinality(Known) \in Nat
  BY <1>2, <1>3, FS_Subset, FS_CardinalityType
<1>5. starts \in Nat /\ starts + (IF nextTimer THEN 1 ELSE 0) <= Cardinality(Known)
  BY DEF Typed, Begun
<1> QED
  BY <1>1, <1>4, <1>5

LEMMA TypedMeans == Typed => TypeOK
BY StartsBounded DEF Typed, Around, TypeOK, TsType, Longest

LEMMA TypedInit == Init => Typed
<1> SUFFICES ASSUME Init PROVE Typed
  OBVIOUS
<1>1. 0 \in Dev /\ 0 \in 0..(RepeatWrap - 1) /\ 0 \in 0..Longest /\ 0 \in 0..MaxLoss
  BY CostType, LongestBounds, TimeSyncAssumption DEF Dev
<1>2. <<>> \in Seq(Travel) /\ <<>> \in Seq(TsMsg) /\ Len(<<>>) = 0
  OBVIOUS
<1>3. ts \in TsType
  BY <1>1, <1>2 DEF Init, TsType, SyncState
<1>4. Around
  <2>1. alive \in [Dev -> BOOLEAN]
    BY TimeSyncAssumption DEF Init
  <2> QED
    BY <1>1, <1>2, <2>1 DEF Init, Around
<1>5. Gathered
  <2>1. ts.state = "UNSET" /\ ts.repeat = 0 /\ Len(ts.times) = 0 /\ starts = 0
    BY <1>2 DEF Init
  <2>2. Lag(0) = 0 - Cost /\ Cost \in Nat
    BY CostType DEF Lag
  <2> HIDE DEF Cost, Lag
  <2>3. Enough(ts.state, ts.repeat, Len(ts.times), Lag(starts))
    BY <2>1, <2>2 DEF Enough
  <2> QED
    BY <2>1, <2>3 DEF Gathered, Ascending
<1>6. Begun
  <2>1. Known = {}
    BY DEF Init, Known
  <2> QED
    BY <2>1, FS_EmptySet DEF Init, Begun
<1> QED
  BY <1>3, <1>4, <1>5, <1>6 DEF Typed, Init

LEMMA TakenType ==
    ASSUME NEW f \in [Dev -> Seq(TsMsg)], NEW d \in Dev, f[d] # <<>>
    PROVE  /\ [f EXCEPT ![d] = Tail(@)] \in [Dev -> Seq(TsMsg)]
           /\ Head(f[d]) \in TsMsg
<1>1. f[d] \in Seq(TsMsg)
  OBVIOUS
<1>2. Tail(f[d]) \in Seq(TsMsg) /\ Head(f[d]) \in TsMsg
  BY <1>1
<1> QED
  BY <1>2

\* A reply that is handled: what is left to say is what the handler does.
LEMMA HandledTypes ==
    ASSUME Typed, NEW d \in Dev, NEW state, Arrives(d, state),
           ts' \in TsType, Enough(ts'.state, ts'.repeat, Len(ts'.times), Lag(starts)),
           Ascending(ts'.times),
           syncTimer' \in BOOLEAN, reported' \in BOOLEAN, allDone' \in BOOLEAN,
           synced' \cup failed' \subseteq Dev
    PROVE  Typed'
<1>1. /\ replies' = [replies EXCEPT ![d] = Tail(@)] /\ replies[d] # <<>>
      /\ UNCHANGED <<nextTimer, alive, link, lastStamp, good, starts, clash, losses>>
  BY DEF Arrives, connections, devices
<1>2. replies' \in [Dev -> Seq(TsMsg)]
  BY <1>1, TakenType DEF Typed, Around
<1>3. Around'
  BY <1>1, <1>2 DEF Typed, Around
<1>4. Gathered' /\ Begun' /\ starts' \in Nat
  BY <1>1 DEF Typed, Gathered, Begun, Known
<1> QED
  BY <1>3, <1>4 DEF Typed

LEMMA HeardType ==
    ASSUME Typed
    PROVE  /\ Heard \in TsType /\ Leaves(ts, Heard)
           /\ ts.repeat \in 0..(RepeatWrap - 1) /\ ts.times \in Seq(Travel)
           /\ Len(ts.times) \in Nat
           /\ Enough(ts.state, ts.repeat, Len(ts.times), Lag(starts)) /\ Ascending(ts.times)
           /\ {syncTimer, reported, allDone} \subseteq BOOLEAN
           /\ synced \cup failed \subseteq Dev /\ ts.dev \in Dev
<1>1. Heard \in TsType /\ Leaves(ts, Heard)
  BY DEF Typed, Heard, TsType, Leaves
<1>2. /\ ts.repeat \in 0..(RepeatWrap - 1) /\ ts.times \in Seq(Travel)
      /\ Len(ts.times) \in Nat /\ ts.dev \in Dev
  BY IsTsType DEF Typed
<1> QED
  BY <1>1, <1>2 DEF Typed, Gathered, Around

\* Only a start lets the handler work.
LEMMA Started ==
    ASSUME Inv, Typed, ts.state \notin {"UNSET", "STOPPED"}
    PROVE  starts \in 1..N /\ Lag(starts) \in Nat
<1>1. starts \in 0..N /\ starts # 0 /\ N \in Nat
  BY StartsBounded, CostType DEF Inv, Roused
<1> QED
  BY <1>1, LagType

LEMMA FinishTypes ==
    ASSUME Typed, starts \in 1..N, NEW s \in TsType, s.repeat = 0,
           s.state \in {"STOPPED", "SENDING_COMPENSATED"},
           Enough(s.state, 0, Len(s.times), Lag(starts)),
           NEW success \in BOOLEAN, onTimeSyncOfDevXfinished(s, success)
    PROVE  /\ ts' \in TsType
           /\ Enough(ts'.state, ts'.repeat, Len(ts'.times), Lag(starts))
           /\ ts'.times = s.times
           /\ syncTimer' \in BOOLEAN /\ reported' \in BOOLEAN /\ allDone' \in BOOLEAN
           /\ synced' \cup failed' \subseteq Dev
<1>1. s.dev \in Dev /\ s.times \in Seq(Travel)
  BY IsTsType
<1>2. Len(s.times) \in Nat /\ Lag(starts) \in Nat
  BY <1>1, LagType, CostType
<1>3. synced' \cup failed' \subseteq Dev
  BY <1>1 DEF onTimeSyncOfDevXfinished, Typed, Around
<1>4. CASE s.dev + 1 < N
  <2>1. s.dev + 1 \in Dev
    BY <1>1, <1>4, CostType DEF Dev
  <2>2. /\ ts' = start_time_sync(s, s.dev + 1) /\ syncTimer' = TRUE
        /\ reported' = (reported \/ ~success) /\ allDone' = allDone
    BY <1>4 DEF onTimeSyncOfDevXfinished, startTimeSyncOfDevX
  <2>3. ts' \in TsType /\ ts'.repeat = 0 /\ ts'.state = "START_WAITS_FOR_ACK"
        /\ ts'.times = s.times
    BY <2>1, <2>2, StartType
  <2>4. Enough(ts'.state, ts'.repeat, Len(ts'.times), Lag(starts))
    BY <1>2, <2>3, ZeroEnough
  <2>5. syncTimer' \in BOOLEAN /\ reported' \in BOOLEAN /\ allDone' \in BOOLEAN
    BY <2>2 DEF Typed, Around
  <2> QED
    BY <1>3, <2>3, <2>4, <2>5
<1>5. CASE ~(s.dev + 1 < N)
  BY <1>3, <1>5 DEF onTimeSyncOfDevXfinished
<1> QED
  BY <1>4, <1>5

LEMMA AckOfStartTypes ==
    ASSUME Inv, Typed, NEW d \in Dev, AckOfStart(d) PROVE Typed'
<1>1. /\ Arrives(d, "START_WAITS_FOR_ACK") /\ ts.state = "START_WAITS_FOR_ACK"
      /\ UNCHANGED <<syncTimer, reported, synced, allDone, failed>>
  BY DEF AckOfStart, Arrives, outcome
<1>2. Lag(starts) \in Nat
  BY <1>1, Started
<1>3. CASE Head(replies[d]).cmd # "ACK"
  <2>1. ts' = [Heard EXCEPT !.state = "STOPPED"]
    BY <1>3 DEF AckOfStart
  <2>2. /\ ts' \in TsType /\ ts'.state = "STOPPED" /\ ts'.repeat = ts.repeat
        /\ ts'.times = ts.times
    BY <2>1, HeardType DEF TsType, SyncState, Leaves
  <2>3. Enough(ts'.state, ts'.repeat, Len(ts'.times), Lag(starts))
    BY <2>2, HeardType, StoppedEnough
  <2> QED
    BY <1>1, <2>2, <2>3, HeardType, HandledTypes
<1>4. CASE Head(replies[d]).cmd = "ACK"
  <2> DEFINE r == send_time_sync_msg(Heard)
  <2>1. ts' = [r EXCEPT !.state = "MEASURING_TRAVELING_TIME"]
    BY <1>4 DEF AckOfStart
  <2>2. r \in TsType /\ r.repeat = Count(ts.repeat) /\ r.times = ts.times
    BY HeardType, StampType DEF Leaves
  <2> HIDE DEF r
  <2>3. /\ ts' \in TsType /\ ts'.state = "MEASURING_TRAVELING_TIME"
        /\ ts'.repeat = Count(ts.repeat) /\ ts'.times = ts.times
    BY <2>1, <2>2 DEF TsType, SyncState
  <2>4. Enough(ts'.state, ts'.repeat, Len(ts'.times), Lag(starts))
    BY <1>1, <1>2, <2>3, HeardType, AcceptedEnough
  <2> QED
    BY <1>1, <2>3, <2>4, HeardType, HandledTypes
<1> QED
  BY <1>3, <1>4

LEMMA MeasuredTypes ==
    ASSUME Inv, Typed, NEW d \in Dev, NEW t \in Travel, Measured(d, t) PROVE Typed'
<1>1. /\ Arrives(d, "MEASURING_TRAVELING_TIME") /\ ts.state = "MEASURING_TRAVELING_TIME"
      /\ UNCHANGED <<syncTimer, reported, synced, allDone, failed>>
  BY DEF Measured, Arrives, outcome
<1>2. Lag(starts) \in Nat /\ starts \in 1..N
  BY <1>1, Started
<1> DEFINE q == Added(ts.times, t)
           n == Len(ts.times)
           s == [Heard EXCEPT !.times = Added(@, t)]
           r == [s EXCEPT !.repeat = 0]
<1>3. ts' = IF s.repeat = Measure THEN calculate_compensation(r) ELSE send_time_sync_msg(s)
  BY DEF Measured
<1>4. q \in Seq(Travel) /\ Len(q) = n + 1 /\ n \in Nat
  BY HeardType, AddedType
<1>5. s = [Heard EXCEPT !.times = q]
  BY HeardType DEF Leaves, TsType
<1> HIDE DEF q, n
<1>6. /\ s \in TsType /\ s.times = q /\ s.repeat = ts.repeat
      /\ s.state = "MEASURING_TRAVELING_TIME"
  <2> HIDE DEF s
  <2> QED
    BY <1>1, <1>4, <1>5, HeardType DEF TsType, Leaves
<1> HIDE DEF s
<1>7. r \in TsType /\ r.times = q /\ r.repeat = 0
  <2>1. 0 \in 0..(RepeatWrap - 1)
    BY CostType
  <2> QED
    BY <1>6, <2>1 DEF TsType
<1> HIDE DEF r
<1>8. /\ ts.repeat \in 0..(RepeatWrap - 1)
      /\ Enough("MEASURING_TRAVELING_TIME", ts.repeat, n, Lag(starts))
  BY <1>1, HeardType DEF n
<1>a. Ascending(q)
  BY HeardType, AddedAscends DEF q
<1>9. /\ ts' \in TsType /\ Enough(ts'.state, ts'.repeat, Len(ts'.times), Lag(starts))
      /\ Ascending(ts'.times)
  <2>1. CASE ts.repeat = Measure
    <3>1. n + 1 > 2 * Trim
          /\ Enough("SENDING_COMPENSATED", Count(0), (n + 1) - 2 * Trim, Lag(starts))
      BY <1>2, <1>4, <1>8, <2>1, CompensationEnough
    <3>2. Len(r.times) > 2 * Trim
      BY <1>4, <1>7, <3>1
    <3>3. /\ ts' \in TsType /\ ts'.repeat = Count(0) /\ ts'.state = "SENDING_COMPENSATED"
          /\ Len(ts'.times) = (n + 1) - 2 * Trim /\ ts'.times = Trimmed(q)
      BY <1>3, <1>4, <1>6, <1>7, <2>1, <3>2, CompensationType
    <3>4. Ascending(ts'.times)
      BY <1>4, <1>7, <1>a, <3>2, <3>3, TrimmedAscends
    <3> QED
      BY <3>1, <3>3, <3>4
  <2>2. CASE ts.repeat # Measure
    <3>1. /\ ts' \in TsType /\ ts'.repeat = Count(ts.repeat)
          /\ ts'.state = "MEASURING_TRAVELING_TIME" /\ ts'.times = q
      BY <1>3, <1>6, <2>2, StampType
    <3>2. Enough("MEASURING_TRAVELING_TIME", Count(ts.repeat), n + 1, Lag(starts))
      BY <1>2, <1>4, <1>8, <2>2, MeasuredEnough
    <3> QED
      BY <1>4, <1>a, <3>1, <3>2
  <2> QED
    BY <2>1, <2>2
<1>10. synced' \cup failed' \subseteq Dev
  BY <1>1, HeardType
<1>11. syncTimer' \in BOOLEAN /\ reported' \in BOOLEAN /\ allDone' \in BOOLEAN
  BY <1>1, HeardType
<1> QED
  BY <1>1, <1>9, <1>10, <1>11, HandledTypes

LEMMA JudgedTypes ==
    ASSUME Inv, Typed, NEW d \in Dev, NEW t \in Travel, Judged(d, t) PROVE Typed'
<1>1. /\ Arrives(d, "SENDING_COMPENSATED") /\ ts.state = "SENDING_COMPENSATED"
      /\ replies[d] # <<>>
  BY DEF Judged, Arrives
<1>2. Lag(starts) \in Nat /\ starts \in 1..N
  BY <1>1, Started
<1>3. Enough("SENDING_COMPENSATED", ts.repeat, Len(ts.times), Lag(starts))
  BY <1>1, HeardType
<1>z. 0 \in 0..(RepeatWrap - 1)
  BY CostType
<1>m. PICK m : m = [cmd |-> "GOOD", idx |-> Head(replies[d]).idx]
  OBVIOUS
<1> DEFINE r == Send(Heard, m)
<1>4. CASE /\ ts' = [r EXCEPT !.state = "STOP_WAITS_FOR_ACK", !.repeat = 0]
           /\ UNCHANGED <<syncTimer, outcome, reported>>
  <2>1. m \in TsMsg
    <3>1. Head(replies[d]) \in TsMsg
      BY <1>1, TakenType DEF Typed, Around
    <3> QED
      BY <1>m, <3>1 DEF TsMsg
  <2>2. r \in TsType /\ r.times = ts.times
    BY <2>1, HeardType, SendType DEF Leaves
  <2> HIDE DEF r
  <2>3. /\ ts' \in TsType /\ ts'.state = "STOP_WAITS_FOR_ACK" /\ ts'.repeat = 0
        /\ ts'.times = ts.times
    BY <1>4, <1>z, <2>2 DEF TsType, SyncState
  <2>4. Enough(ts'.state, ts'.repeat, Len(ts'.times), Lag(starts))
    BY <1>2, <2>3, HeardType, ZeroEnough
  <2> QED
    BY <1>1, <1>4, <2>3, <2>4, HeardType, HandledTypes DEF outcome
<1>5. CASE ts' = send_time_sync_msg(Heard) /\ UNCHANGED <<syncTimer, outcome, reported>>
  <2>1. /\ ts' \in TsType /\ ts'.repeat = Count(ts.repeat)
        /\ ts'.state = "SENDING_COMPENSATED" /\ ts'.times = ts.times
    BY <1>1, <1>5, HeardType, StampType DEF Leaves
  <2>2. Enough(ts'.state, ts'.repeat, Len(ts'.times), Lag(starts))
    BY <1>2, <1>3, <2>1, HeardType, CompensatedEnough
  <2> QED
    BY <1>1, <1>5, <2>1, <2>2, HeardType, HandledTypes DEF outcome
<1>6. CASE onTimeSyncOfDevXfinished([Heard EXCEPT !.repeat = 0], FALSE)
  <2> DEFINE s == [Heard EXCEPT !.repeat = 0]
  <2>1. /\ s \in TsType /\ s.repeat = 0 /\ s.state = "SENDING_COMPENSATED"
        /\ s.times = ts.times
    BY <1>1, <1>z, HeardType DEF TsType, Leaves
  <2>2. onTimeSyncOfDevXfinished(s, FALSE)
    BY <1>6
  <2> HIDE DEF s
  <2>3. Enough(s.state, 0, Len(s.times), Lag(starts))
    BY <1>2, <1>3, <2>1, HeardType, CompensatedEnough
  <2>4. /\ ts' \in TsType
        /\ Enough(ts'.state, ts'.repeat, Len(ts'.times), Lag(starts)) /\ ts'.times = s.times
        /\ syncTimer' \in BOOLEAN /\ reported' \in BOOLEAN /\ allDone' \in BOOLEAN
        /\ synced' \cup failed' \subseteq Dev
    BY <1>2, <2>1, <2>2, <2>3, FinishTypes
  <2>5. Ascending(ts'.times)
    BY <2>1, <2>4, HeardType
  <2> QED
    BY <1>1, <2>4, <2>5, HandledTypes
<1> QED
  BY <1>m, <1>4, <1>5, <1>6 DEF Judged

LEMMA AckOfStopTypes ==
    ASSUME Inv, Typed, NEW d \in Dev, AckOfStop(d) PROVE Typed'
<1>1. Arrives(d, "STOP_WAITS_FOR_ACK") /\ ts.state = "STOP_WAITS_FOR_ACK"
  BY DEF AckOfStop, Arrives
<1>2. Lag(starts) \in Nat /\ starts \in 1..N
  BY <1>1, Started
<1>z. 0 \in 0..(RepeatWrap - 1) /\ <<>> \in Seq(Travel) /\ Len(<<>>) = 0
  BY CostType
<1>3. CASE /\ ts' = [Heard EXCEPT !.state = "STOPPED"]
           /\ UNCHANGED <<syncTimer, outcome, reported>>
  <2>1. /\ ts' \in TsType /\ ts'.state = "STOPPED" /\ ts'.repeat = ts.repeat
        /\ ts'.times = ts.times
    BY <1>3, HeardType DEF TsType, SyncState, Leaves
  <2>2. Enough(ts'.state, ts'.repeat, Len(ts'.times), Lag(starts))
    BY <2>1, HeardType, StoppedEnough
  <2> QED
    BY <1>1, <1>3, <2>1, <2>2, HeardType, HandledTypes DEF outcome
<1>4. ASSUME onTimeSyncOfDevXfinished([Heard EXCEPT !.repeat = 0, !.times = <<>>,
                                                    !.state = "STOPPED"], TRUE)
      PROVE  Typed'
  <2> DEFINE s == [Heard EXCEPT !.repeat = 0, !.times = <<>>, !.state = "STOPPED"]
  <2>1. s \in TsType /\ s.repeat = 0 /\ s.state = "STOPPED" /\ s.times = <<>>
    BY <1>z, HeardType DEF TsType, SyncState
  <2>2. onTimeSyncOfDevXfinished(s, TRUE)
    BY <1>4
  <2> HIDE DEF s
  <2>3. Enough(s.state, 0, Len(s.times), Lag(starts))
    BY <1>2, <1>z, <2>1, ZeroEnough
  <2>4. /\ ts' \in TsType
        /\ Enough(ts'.state, ts'.repeat, Len(ts'.times), Lag(starts)) /\ ts'.times = s.times
        /\ syncTimer' \in BOOLEAN /\ reported' \in BOOLEAN /\ allDone' \in BOOLEAN
        /\ synced' \cup failed' \subseteq Dev
    BY <1>2, <2>1, <2>2, <2>3, FinishTypes
  <2>5. Ascending(ts'.times)
    BY <1>z, <2>1, <2>4 DEF Ascending
  <2> QED
    BY <1>1, <1>4, <2>4, <2>5, HandledTypes
<1> QED
  BY <1>3, <1>4 DEF AckOfStop

LEMMA IgnoredTypes ==
    ASSUME Typed, NEW d \in Dev, Ignored(d) PROVE Typed'
<1>1. PICK state : Arrives(d, state)
  BY DEF Ignored
<1>2. ts' = Heard /\ UNCHANGED <<syncTimer, reported, synced, allDone, failed>>
  BY DEF Ignored, outcome
<1>3. /\ Enough(ts'.state, ts'.repeat, Len(ts'.times), Lag(starts))
      /\ Ascending(ts'.times)
  BY <1>2, HeardType DEF Leaves
<1> QED
  BY <1>1, <1>2, <1>3, HeardType, HandledTypes

LEMMA TimeoutTypes == ASSUME Typed, TimeoutTimerExpires PROVE Typed'
<1>1. /\ ts' = [ts EXCEPT !.timer = FALSE, !.state = "STOPPED"]
      /\ UNCHANGED <<replies, syncTimer, connections, devices, outcome, reported,
                     starts, clash, losses>>
  BY DEF TimeoutTimerExpires
<1>2. /\ ts' \in TsType /\ ts'.state = "STOPPED" /\ ts'.repeat = ts.repeat
      /\ ts'.times = ts.times
  BY <1>1 DEF Typed, TsType, SyncState
<1>3. Enough(ts'.state, ts'.repeat, Len(ts'.times), Lag(starts))
  BY <1>2, HeardType, StoppedEnough
<1>4. Gathered'
  BY <1>1, <1>2, <1>3 DEF Typed, Gathered
<1> QED
  BY <1>1, <1>2, <1>4
     DEF Typed, Around, Begun, Known, connections, devices, outcome

LEMMA StartAllTypes == ASSUME Typed, NextRequestTimerExpires PROVE Typed'
<1>1. /\ nextTimer /\ nextTimer' = FALSE /\ ts' = start_time_sync(ts, 0)
      /\ syncTimer' = TRUE /\ starts' = starts + 1 /\ reported' = FALSE
      /\ UNCHANGED <<replies, alive, link, devices, outcome, losses>>
  BY DEF NextRequestTimerExpires, startTimeSyncOfDevX
<1>2. clash' \in BOOLEAN
  BY DEF NextRequestTimerExpires
<1>3. 0 \in Dev /\ starts \in 0..N
  BY CostType, StartsBounded DEF Dev
<1>4. /\ ts' \in TsType /\ ts'.repeat = ts.repeat /\ ts'.state = "START_WAITS_FOR_ACK"
      /\ ts'.times = ts.times
  BY <1>1, <1>3, StartType DEF Typed
<1>5. Gathered'
  <2>1. Lag(starts) \in Int /\ Lag(starts') = Lag(starts) + Cost
    BY <1>1, <1>3, LagType
  <2>2. ts.repeat \in Nat
    BY HeardType
  <2>3. Enough("START_WAITS_FOR_ACK", ts.repeat, Len(ts.times), Lag(starts) + Cost)
    BY <2>1, <2>2, HeardType, CutInEnough
  <2> QED
    BY <1>4, <2>1, <2>3 DEF Typed, Gathered
<1>6. Begun'
  <2>1. Known' = Known /\ starts + 1 <= Cardinality(Known)
    BY <1>1 DEF Known, Typed, Begun
  <2> QED
    BY <1>1, <2>1 DEF Begun, Typed
<1>7. Around'
  BY <1>1, <1>2 DEF Typed, Around, devices, outcome
<1> QED
  BY <1>1, <1>4, <1>5, <1>6, <1>7 DEF Typed

LEMMA ComesUpTypes == ASSUME Typed, NEW d \in Dev, DeviceComesUp(d) PROVE Typed'
<1>1. /\ link[d] = "new" /\ link' = [link EXCEPT ![d] = "up"]
      /\ alive' = [alive EXCEPT ![d] = TRUE]
      /\ UNCHANGED <<ts, replies, syncTimer, devices, outcome, reported, starts,
                     clash, losses>>
  BY DEF DeviceComesUp
<1>2. nextTimer' \in BOOLEAN
  BY DEF DeviceComesUp
<1>3. link' \in [Dev -> {"new", "up", "down"}] /\ alive' \in [Dev -> BOOLEAN]
  BY <1>1 DEF Typed, Around
<1>4. Around'
  BY <1>1, <1>2, <1>3 DEF Typed, Around, devices, outcome
<1>5. Begun'
  <2>1. IsFiniteSet(Known)
    <3>1. IsFiniteSet(Dev)
      BY CostType, FS_Interval DEF Dev
    <3> QED
      BY <3>1, FS_Subset DEF Known
  <2>2. d \notin Known /\ Known' = Known \cup {d}
    BY <1>1 DEF Known, Typed, Around
  <2>3. Cardinality(Known') = Cardinality(Known) + 1 /\ Cardinality(Known) \in Nat
    BY <2>1, <2>2, FS_AddElement, FS_CardinalityType
  <2>4. starts <= Cardinality(Known) /\ starts \in Nat
    BY <2>3 DEF Typed, Begun
  <2> QED
    BY <1>1, <2>3, <2>4 DEF Begun
<1> QED
  BY <1>1, <1>4, <1>5 DEF Typed, Gathered

LEMMA GoesDownTypes == ASSUME Typed, NEW d \in Dev, DeviceGoesDown(d) PROVE Typed'
<1>1. /\ link[d] = "up" /\ losses < MaxLoss /\ losses' = losses + 1
      /\ link' = [link EXCEPT ![d] = "down"] /\ alive' = [alive EXCEPT ![d] = FALSE]
      /\ reported' = TRUE
      /\ UNCHANGED <<ts, replies, syncTimer, nextTimer, devices, outcome, starts,
                     clash>>
  BY DEF DeviceGoesDown
<1>2. /\ link' \in [Dev -> {"new", "up", "down"}] /\ alive' \in [Dev -> BOOLEAN]
      /\ losses' \in 0..MaxLoss
  BY <1>1, TimeSyncAssumption DEF Typed, Around
<1>3. Around'
  BY <1>1, <1>2 DEF Typed, Around, devices, outcome
<1>4. Known' = Known
  BY <1>1 DEF Known, Typed, Around
<1> QED
  BY <1>1, <1>3, <1>4 DEF Typed, Gathered, Begun

LEMMA LostTypes == ASSUME Typed, NEW d \in Dev, LoseReply(d) PROVE Typed'
<1>1. /\ replies[d] # <<>> /\ losses < MaxLoss /\ losses' = losses + 1
      /\ replies' = [replies EXCEPT ![d] = Tail(@)]
      /\ UNCHANGED <<ts, syncTimer, connections, devices, outcome, reported, starts,
                     clash>>
  BY DEF LoseReply
<1>2. losses' \in 0..MaxLoss
  BY <1>1, TimeSyncAssumption DEF Typed, Around
<1>3. replies' \in [Dev -> Seq(TsMsg)]
  BY <1>1, TakenType DEF Typed, Around
<1> QED
  BY <1>1, <1>2, <1>3
     DEF Typed, Around, Gathered, Begun, Known, connections, devices, outcome

\* A message leaves the air, whoever hears it.
LEMMA GoneTypes ==
    ASSUME Typed, NEW d \in Dev, ts.air[d] # <<>>, ts' = [ts EXCEPT !.air[d] = Tail(@)]
    PROVE  /\ ts' \in TsType /\ Leaves(ts, ts') /\ Head(ts.air[d]) \in TsMsg
<1> DEFINE a == [ts.air EXCEPT ![d] = Tail(@)]
<1>1. a \in [Dev -> Seq(TsMsg)] /\ Head(ts.air[d]) \in TsMsg
  BY IsTsType, TakenType DEF Typed
<1>2. ts' = [ts EXCEPT !.air = a]
  BY DEF Typed, TsType
<1> HIDE DEF a
<1> QED
  BY <1>1, <1>2 DEF Typed, TsType, Leaves

LEMMA HearsTypes == ASSUME Typed, NEW d \in Dev, DeviceHears(d) PROVE Typed'
<1>m. PICK m, a : m = Head(ts.air[d]) /\ a = Answer(m)
  OBVIOUS
<1>1. /\ ts.air[d] # <<>> /\ ts' = [ts EXCEPT !.air[d] = Tail(@)]
      /\ replies' = [replies EXCEPT ![d] = Append(@, a)]
      /\ lastStamp' = IF m.cmd = "STAMP" THEN [lastStamp EXCEPT ![d] = m.idx] ELSE lastStamp
      /\ good' = IF m.cmd = "GOOD" THEN good \cup {d} ELSE good
      /\ UNCHANGED <<syncTimer, connections, outcome, reported, starts, 
                     clash, losses>>
  BY <1>m DEF DeviceHears
<1>2. ts' \in TsType /\ Leaves(ts, ts') /\ m \in TsMsg
  BY <1>m, <1>1, GoneTypes
<1>3. a \in TsMsg
  BY <1>m, <1>2, PlainIsMsg DEF Answer
<1>4. replies' \in [Dev -> Seq(TsMsg)]
  <2>1. replies \in [Dev -> Seq(TsMsg)]
    BY DEF Typed, Around
  <2>2. Append(replies[d], a) \in Seq(TsMsg)
    BY <1>3, <2>1
  <2> QED
    BY <1>1, <2>1, <2>2
<1>5. lastStamp' \in [Dev -> 0..(RepeatWrap - 1)]
  BY <1>1, <1>2 DEF Typed, Around, TsMsg
<1>6. Around'
  BY <1>1, <1>4, <1>5 DEF Typed, Around, connections, outcome
<1> QED
  BY <1>1, <1>2, <1>6 DEF Typed, Gathered, Begun, Known, Leaves, connections

LEMMA UnheardTypes == ASSUME Typed, NEW d \in Dev, Unheard(d) PROVE Typed'
<1>1. /\ ts.air[d] # <<>> /\ ts' = [ts EXCEPT !.air[d] = Tail(@)]
      /\ UNCHANGED <<replies, syncTimer, connections, devices, outcome, reported,
                     starts, clash, losses>>
  BY DEF Unheard
<1>2. ts' \in TsType /\ Leaves(ts, ts')
  BY <1>1, GoneTypes
<1> QED
  BY <1>1, <1>2
     DEF Typed, Around, Gathered, Begun, Known, Leaves, connections, devices, outcome

LEMMA TypedNext == Inv /\ Typed /\ [Next]_vars => Typed'
<1> SUFFICES ASSUME Inv, Typed, [Next]_vars PROVE Typed'
  OBVIOUS
<1>1. CASE TimeSyncTimerExpires
  BY <1>1 DEF TimeSyncTimerExpires, Typed, Around, Gathered, Begun, Known, connections,
              devices, outcome
<1>2. CASE NextRequestTimerExpires
  BY <1>2, StartAllTypes
<1>3. CASE TimeoutTimerExpires
  BY <1>3, TimeoutTypes
<1>4. ASSUME NEW d \in Dev, slot_time_sync_msg_arrived(d) PROVE Typed'
  BY <1>4, AckOfStartTypes, MeasuredTypes, JudgedTypes, AckOfStopTypes, IgnoredTypes
     DEF slot_time_sync_msg_arrived
<1>5. ASSUME NEW d \in Dev, DeviceComesUp(d) \/ DeviceGoesDown(d) \/ LoseReply(d)
      PROVE  Typed'
  BY <1>5, ComesUpTypes, GoesDownTypes, LostTypes
<1>6. ASSUME NEW d \in Dev, DeviceHears(d) \/ Unheard(d) PROVE Typed'
  BY <1>6, HearsTypes, UnheardTypes
<1>7. CASE UNCHANGED vars
  BY <1>7 DEF vars, Typed, Around, Gathered, Begun, Known
<1> QED
  BY <1>1, <1>2, <1>3, <1>4, <1>5, <1>6, <1>7 DEF Next

-----------------------------------------------------------------------------
(* The theorems *)

LEMMA Invariance == Spec => [](Inv /\ Stamps /\ Exchange /\ Typed)
<1>1. Init => Inv /\ Stamps /\ Exchange /\ Typed
  BY InvInit, ExchangeInit, TypedInit
<1>2. Inv /\ Stamps /\ Exchange /\ Typed /\ [Next]_vars
         => (Inv /\ Stamps /\ Exchange /\ Typed)'
  BY InvNext, StampsKept, ExchangeNext, TypedNext
<1> QED BY <1>1, <1>2, PTL DEF Spec

\* Every variable has its type: no count leaves its 16 bits, no more starts are
\* made than there are devices, and the threshold is one of a travelling time.
THEOREM TypeCorrect == Spec => []TypeOK
BY Invariance, TypedMeans, PTL

\* The average of the travelling times is always of one at least.
THEOREM AverageIsOfSomeHolds == Spec => []AverageIsOfSome
<1>1. Inv /\ Typed => AverageIsOfSome
  <2> SUFFICES ASSUME Inv, Typed, ts.state = "MEASURING_TRAVELING_TIME", ts.repeat = Measure
               PROVE  Len(ts.times) + 1 > 2 * Trim
    BY DEF AverageIsOfSome
  <2>1. starts \in 1..N
    BY Started
  <2>2. /\ Len(ts.times) \in Nat
        /\ Enough("MEASURING_TRAVELING_TIME", Measure, Len(ts.times), Lag(starts))
    BY HeardType
  <2> QED
    BY <2>1, <2>2, CompensationEnough
<1> QED BY <1>1, Invariance, PTL

\* The first of the travelling times is the smallest: what is trimmed at both
\* ends are the smallest and the biggest, as calculate_compensation removes them.
THEOREM TimesAscend == Spec => []Ascending(ts.times)
<1>1. Typed => Ascending(ts.times)
  BY DEF Typed, Gathered
<1> QED BY <1>1, Invariance, PTL

\* When the end is announced every device has been synchronised or reported as
\* failed, also if a second start cut in.
THEOREM NoDeviceIsPassedOverHolds == Spec => []NoDeviceIsPassedOver
<1>1. Inv => NoDeviceIsPassedOver
  BY DEF Inv, Passed
<1> QED BY <1>1, Invariance, PTL

\* A device is said to be synchronised only after it has heard that it is.
THEOREM SyncedMeansGoodHolds == Spec => []SyncedMeansGood
<1>1. Exchange => SyncedMeansGood
  BY DEF Exchange, SyncedMeansGood
<1> QED BY <1>1, Invariance, PTL

\* The stamp a device is told to keep is the one whose reply was judged.
THEOREM GoodOneWasTheLastHolds == Spec => []GoodOneWasTheLast
<1>1. Inv /\ Exchange => GoodOneWasTheLast
  <2> SUFFICES ASSUME Inv, Exchange, ~clash, NEW d \in Dev, ts.air[d] # <<>>,
                      Head(ts.air[d]).cmd = "GOOD"
               PROVE  Head(ts.air[d]).idx = lastStamp[d]
    BY DEF GoodOneWasTheLast
  <2>1. ts.dev \in Dev /\ ts.air # NoMsg
    BY OneMessage DEF Inv, Handler
  <2>2. PICK m : AskUnderWay(m)
    BY <2>1 DEF Exchange, NoneUnderWay, ReplyUnderWay
  <2>3. ts.air[ts.dev] = <<m>> /\ d = ts.dev
    BY <2>1, <2>2, OneMessage DEF AskUnderWay
  <2>4. m.cmd = "GOOD" => m.idx = lastStamp[d]
    BY <2>2, <2>3 DEF AskUnderWay, Asks
  <2>5. Head(ts.air[d]) = m
    BY <2>3
  <2> QED BY <2>4, <2>5
<1> QED BY <1>1, Invariance, PTL
=============================================================================
