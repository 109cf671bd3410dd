-------------------------- MODULE CatchSessionProofs --------------------------
(***************************************************************************)
(* Proofs about CatchSession, for any number of devices, starts, indices   *)
(* and requests that go unanswered.                                        *)
(*                                                                         *)
(* The end of a download does not say which request it belongs to, it may  *)
(* be told more often than once, and a file is named by the index of the   *)
(* moment it is written.  That the files of an index are those of one      *)
(* catch rests on a recording preceding every end it is handed over with,  *)
(* and on the devices still to be asked keeping what they had when the     *)
(* user confirmed; once the last of them has handed over, whatever is left *)
(* of the download finds devices without a recording.  All of it is lost   *)
(* with the first error (Undisturbed).                                     *)
(***************************************************************************)
EXTENDS CatchSession, FiniteSetTheorems, TLAPS

Downloading == cc.state = "DOWNLOADING"
Writes(q) == \E k \in DOMAIN q : q[k].op = "WRITE"
Ends(q) == \E k \in DOMAIN q : q[k].op = "DONE"
Carries(q, r) == \A k \in DOMAIN q : q[k].op = "WRITE" => q[k].rec = r

\* What a device hands over: its recording, then the end.
InOrder(q) ==
    /\ Writes(q) => Ends(q)
    /\ \A j, k \in DOMAIN q : j < k => (q[j].op \in {"DONE", "WRITE"} => q[k].op # "WRITE")

Ordered == \A d \in Dev : InOrder(ev[d])

\* Something of a download is under way for this device.
Pending(d) == Plain("REQUEST") \in cmds[d] \/ d \in ticking \/ Ends(ev[d])

NoStart == \A d \in Dev : \A c \in cmds[d] : c.op # "START"

Unserved(d) ==
    /\ files[index][d] = None
    /\ dev[d].phase = "waiting"
    /\ dev[d].rec = confirmed[index][d]

Serving(d) ==
    /\ files[index][d] = None
    /\ dev[d].phase = "stopped"
    /\ Writes(ev[d])
    /\ Carries(ev[d], confirmed[index][d])

WasServed(d) ==
    /\ files[index][d] = confirmed[index][d]
    /\ dev[d].phase = "stopped"
    /\ ~Writes(ev[d])

\* A download has come to the device k: nothing has been asked of those behind it.
\* Those before it may be asked again, and have nothing left.
Pass(k) ==
    /\ Downloading
    /\ NoStart
    /\ \A d \in Dev : d < k => WasServed(d)
    /\ \A d \in Dev : d > k => Unserved(d) /\ ~Pending(d)
    /\ (Unserved(k) /\ ~Ends(ev[k])) \/ Serving(k) \/ WasServed(k)

\* No download, or what is left of one.
Idle ==
    /\ files[index] = NoFiles /\ confirmed[index] = NoFiles
    /\ \A d \in Dev : ~Writes(ev[d])
    /\ (\E d \in Dev : Pending(d)) => NoStart /\ \A d \in Dev : dev[d].phase = "stopped"

\* The indices still to come.
Fresh == \A i \in 0..MaxIndex : i > index => files[i] = NoFiles /\ confirmed[i] = NoFiles

\* What is handed over is a recording.
HasRecording == \A d \in Dev : dev[d].phase # "stopped" => dev[d].rec \in Rec

Orderly ==
    Undisturbed => Ordered /\ (Idle \/ \E k \in Dev : Pass(k)) /\ Fresh /\ IndexIsACatch

Inv == TypeOK /\ HasRecording /\ Orderly

-----------------------------------------------------------------------------
(* Types *)

Phase == {"stopped", "running", "triggered", "waiting"}
Wearable == [phase : Phase, rec : Rec \cup {None}, announces : BOOLEAN]
Central == [bleUpl : BOOLEAN, idInDl : Dev, state : {"UNSET", "NOT_RUNNING", "DOWNLOADING"},
            timer : BOOLEAN, waiting : SUBSET Dev]

LEMMA Kinds ==
    /\ \A op \in {"STOP", "TRIGGER", "REQUEST", "OK"} : Plain(op) \in Cmd /\ Plain(op).op = op
    /\ \A op \in {"TRIGGERED", "AVAILABLE", "DONE", "FAILED"} : Plain(op) \in Event /\ Plain(op).op = op
    /\ \A r \in Rec : [op |-> "START", rec |-> r] \in Cmd /\ [op |-> "WRITE", rec |-> r] \in Event
    /\ \A e \in Event : e.op = "WRITE" => e.rec \in Rec
    /\ \A c \in Cmd : c.op = "START" => c.rec \in Rec
  BY DEF Plain, Cmd, Event

LEMMA SentType ==
    ASSUME TypeOK, NEW op \in {"STOP", "TRIGGER", "REQUEST", "OK"}, NEW to
    PROVE  Sent(op, to) \in [Dev -> SUBSET Cmd]
<1>1. ASSUME NEW d \in Dev
      PROVE  (IF d \in to THEN cmds[d] \cup {Plain(op)} ELSE cmds[d]) \in SUBSET Cmd
  BY Kinds DEF TypeOK
<1> QED BY <1>1, Zenon DEF Sent

LEMMA DownloadType ==
    ASSUME TypeOK, NEW c \in Central, NEW d \in Dev, startDownloadOfDevX(c, d)
    PROVE  cc' \in Central /\ cmds' \in [Dev -> SUBSET Cmd]
<1>1. cmds' \in [Dev -> SUBSET Cmd]
  BY SentType DEF startDownloadOfDevX
<1>2. cc' = [c EXCEPT !.idInDl = d, !.state = "DOWNLOADING", !.timer = TRUE]
  BY DEF startDownloadOfDevX
<1>3. cc' \in Central
  BY <1>2 DEF Central
<1> QED BY <1>1, <1>3

\* The parts of the type, one by one.
LEMMA FromParts ==
    ASSUME cc' \in Central, popup' \in BOOLEAN, reported' \in BOOLEAN, erred' \in BOOLEAN,
           index' \in 0..MaxIndex,
           files' \in [0..MaxIndex -> [Dev -> Rec \cup {None}]],
           confirmed' \in [0..MaxIndex -> [Dev -> Rec \cup {None}]],
           cmds' \in [Dev -> SUBSET Cmd], ev' \in [Dev -> Seq(Event)],
           dev' \in [Dev -> Wearable], ticking' \subseteq Dev, announced' \subseteq Dev,
           starts' \in 0..MaxStart, mishaps' \in 0..MaxMishap
    PROVE  TypeOK'
  BY DEF TypeOK, Central, Wearable, Phase, Dev, Rec, Cmd, Event

LEMMA ToParts ==
    ASSUME TypeOK
    PROVE  /\ cc \in Central /\ popup \in BOOLEAN /\ reported \in BOOLEAN /\ erred \in BOOLEAN
           /\ index \in 0..MaxIndex
           /\ files \in [0..MaxIndex -> [Dev -> Rec \cup {None}]]
           /\ confirmed \in [0..MaxIndex -> [Dev -> Rec \cup {None}]]
           /\ cmds \in [Dev -> SUBSET Cmd] /\ ev \in [Dev -> Seq(Event)]
           /\ dev \in [Dev -> Wearable] /\ ticking \subseteq Dev /\ announced \subseteq Dev
           /\ starts \in 0..MaxStart /\ mishaps \in 0..MaxMishap
  BY DEF TypeOK, Central, Wearable, Phase

\* The oldest event is taken from a queue.
LEMMA Handled ==
    ASSUME TypeOK, NEW d \in Dev, NEW op, Handles(d, op)
    PROVE  /\ ev' \in [Dev -> Seq(Event)]
           /\ ev[d] \in Seq(Event) /\ ev[d] # <<>> /\ Head(ev[d]) = ev[d][1]
           /\ Head(ev[d]) \in Event /\ Head(ev[d]).op = op
           /\ ev'[d] = Tail(ev[d]) /\ \A e \in Dev : e # d => ev'[e] = ev[e]
<1>1. ev \in [Dev -> Seq(Event)] /\ ev[d] \in Seq(Event)
  BY ToParts
<1>2. ev[d] # <<>> /\ Head(ev[d]).op = op /\ ev' = [ev EXCEPT ![d] = Tail(@)]
  BY DEF Handles
<1>3. Tail(ev[d]) \in Seq(Event) /\ Head(ev[d]) \in Event /\ Head(ev[d]) = ev[d][1]
  BY <1>1, <1>2
<1> QED BY <1>1, <1>2, <1>3

\* Events are added to a queue.
LEMMA Emitted ==
    ASSUME TypeOK, NEW d \in Dev, NEW es \in Seq(Event), Emits(d, es)
    PROVE  /\ ev' \in [Dev -> Seq(Event)] /\ ev[d] \in Seq(Event)
           /\ ev'[d] = ev[d] \o es /\ \A e \in Dev : e # d => ev'[e] = ev[e]
<1>1. ev \in [Dev -> Seq(Event)] /\ ev[d] \in Seq(Event)
  BY ToParts
<1>2. ev[d] \o es \in Seq(Event)
  BY <1>1
<1> QED BY <1>1, <1>2 DEF Emits

LEMMA OneEvent ==
    ASSUME NEW op \in {"TRIGGERED", "AVAILABLE", "DONE", "FAILED"}
    PROVE  <<Plain(op)>> \in Seq(Event)
<1>1. Plain(op) \in Event
  BY Kinds
<1> QED BY <1>1

LEMMA StartTypes == TypeOK /\ sendStartToAllDevices => TypeOK'
<1> SUFFICES ASSUME TypeOK, sendStartToAllDevices PROVE TypeOK'
  OBVIOUS
<1>1. UNCHANGED <<cc, popup, ev, dev, ticking, mishaps, index, files, confirmed, reported, erred>>
  BY DEF sendStartToAllDevices, device, outcome
<1>2. starts' \in 0..MaxStart /\ starts + 1 \in Rec
  BY CatchSessionAssumption, ToParts DEF sendStartToAllDevices, Rec
<1>3. cmds' \in [Dev -> SUBSET Cmd]
  <2>1. cmds' = [d \in Dev |-> cmds[d] \cup {[op |-> "START", rec |-> starts + 1]}]
    BY DEF sendStartToAllDevices
  <2>2. ASSUME NEW d \in Dev
        PROVE  cmds[d] \cup {[op |-> "START", rec |-> starts + 1]} \in SUBSET Cmd
    BY <1>2, Kinds, ToParts
  <2> QED BY <2>1, <2>2, Zenon
<1>4. announced' \subseteq Dev
  BY DEF sendStartToAllDevices
<1> QED BY <1>1, <1>2, <1>3, <1>4, ToParts, FromParts

LEMMA StopTypes == TypeOK /\ sendStopToAllDevices => TypeOK'
<1> SUFFICES ASSUME TypeOK, sendStopToAllDevices PROVE TypeOK'
  OBVIOUS
<1>1. UNCHANGED <<cc, popup, ev, dev, ticking, mishaps, index, files, confirmed, reported,
                  erred, starts, announced>>
  BY DEF sendStopToAllDevices, device, outcome
<1>2. cmds' \in [Dev -> SUBSET Cmd]
  BY SentType DEF sendStopToAllDevices
<1> QED BY <1>1, <1>2, ToParts, FromParts

LEMMA AnswerTypes ==
    ASSUME NEW answer \in {"CATCH", "DROP", "FLOP"}
    PROVE  TypeOK /\ onCatchSuccessConfirmed(answer) => TypeOK'
<1> SUFFICES ASSUME TypeOK, onCatchSuccessConfirmed(answer) PROVE TypeOK'
  OBVIOUS
<1>1. /\ UNCHANGED <<files, ev, dev, ticking, mishaps, starts, announced, erred>>
      /\ popup' = FALSE
  BY DEF onCatchSuccessConfirmed, device
<1>2. CASE index < MaxIndex /\ index' = index + 1 /\ UNCHANGED <<cc, cmds, confirmed, reported>>
  <2>1. index' \in 0..MaxIndex
    BY <1>2, ToParts, CatchSessionAssumption
  <2> QED BY <1>1, <1>2, <2>1, ToParts, FromParts
<1>3. CASE /\ startDownloadOfDevX(cc, 0)
           /\ confirmed' = [confirmed EXCEPT ![index] = [d \in Dev |-> dev[d].rec]]
           /\ reported' = FALSE /\ UNCHANGED index
  <2>1. 0 \in Dev
    BY CatchSessionAssumption DEF Dev
  <2>2. cc' \in Central /\ cmds' \in [Dev -> SUBSET Cmd]
    BY <1>3, <2>1, ToParts, DownloadType
  <2>3. [d \in Dev |-> dev[d].rec] \in [Dev -> Rec \cup {None}]
    BY ToParts DEF Wearable
  <2>4. confirmed' \in [0..MaxIndex -> [Dev -> Rec \cup {None}]]
    BY <1>3, <2>3, ToParts
  <2> QED BY <1>1, <1>3, <2>2, <2>4, ToParts, FromParts
<1>4. CASE UNCHANGED <<cc, cmds, index, confirmed, reported>>
  BY <1>1, <1>4, ToParts, FromParts
<1> QED BY <1>2, <1>3, <1>4 DEF onCatchSuccessConfirmed

LEMMA TriggerTypes ==
    ASSUME NEW d \in Dev PROVE TypeOK /\ onRequestDispatchToOtherDevices(d) => TypeOK'
<1> SUFFICES ASSUME TypeOK, onRequestDispatchToOtherDevices(d) PROVE TypeOK'
  OBVIOUS
<1>1. UNCHANGED <<cc, popup, dev, ticking, mishaps, index, files, confirmed, reported,
                  erred, starts, announced>>
  BY DEF onRequestDispatchToOtherDevices, device, outcome
<1>2. cmds' \in [Dev -> SUBSET Cmd]
  BY SentType DEF onRequestDispatchToOtherDevices
<1>3. ev' \in [Dev -> Seq(Event)]
  BY Handled DEF onRequestDispatchToOtherDevices
<1> QED BY <1>1, <1>2, <1>3, ToParts, FromParts

LEMMA AvailableTypes ==
    ASSUME NEW d \in Dev PROVE TypeOK /\ onSensorDataAvailableArrived(d) => TypeOK'
<1> SUFFICES ASSUME TypeOK, onSensorDataAvailableArrived(d) PROVE TypeOK'
  OBVIOUS
<1>1. UNCHANGED <<dev, ticking, mishaps, index, files, confirmed, reported, erred, starts>>
  BY DEF onSensorDataAvailableArrived, device, outcome
<1>2. cmds' \in [Dev -> SUBSET Cmd]
  BY SentType DEF onSensorDataAvailableArrived
<1>3. ev' \in [Dev -> Seq(Event)]
  BY Handled DEF onSensorDataAvailableArrived
<1>4. cc' \in Central
  <2>1. cc \in Central /\ cc' = [cc EXCEPT !.waiting = @ \cup {d}]
    BY ToParts DEF onSensorDataAvailableArrived
  <2> QED BY <2>1 DEF Central
<1>5. popup' \in BOOLEAN /\ announced' \subseteq Dev
  BY ToParts DEF onSensorDataAvailableArrived
<1> QED BY <1>1, <1>2, <1>3, <1>4, <1>5, ToParts, FromParts

LEMMA WriteTypes ==
    ASSUME NEW d \in Dev PROVE TypeOK /\ writeTypeToLogFil(d) => TypeOK'
<1> SUFFICES ASSUME TypeOK, writeTypeToLogFil(d) PROVE TypeOK'
  OBVIOUS
<1>1. UNCHANGED <<cc, popup, index, cmds, dev, ticking, mishaps, starts, confirmed, announced,
                  reported, erred>>
  BY DEF writeTypeToLogFil, device, ghosts
<1>2. ev' \in [Dev -> Seq(Event)] /\ Head(ev[d]).rec \in Rec
  BY Handled, Kinds DEF writeTypeToLogFil
<1>3. files' \in [0..MaxIndex -> [Dev -> Rec \cup {None}]]
  BY <1>2, ToParts DEF writeTypeToLogFil
<1> QED BY <1>1, <1>2, <1>3, ToParts, FromParts

LEMMA FinishedTypes ==
    ASSUME NEW d \in Dev PROVE TypeOK /\ onDownloadOfDeviceXfinished(d) => TypeOK'
<1> SUFFICES ASSUME TypeOK, onDownloadOfDeviceXfinished(d) PROVE TypeOK'
  OBVIOUS
<1>1. PICK success \in BOOLEAN :
         /\ Handles(d, IF success THEN "DONE" ELSE "FAILED")
         /\ erred' = (erred \/ ~success)
         /\ \/ /\ d + 1 < N
               /\ startDownloadOfDevX(cc, d + 1)
               /\ reported' = (reported \/ ~success)
               /\ UNCHANGED index
            \/ /\ d + 1 = N
               /\ cc' = [cc EXCEPT !.timer = FALSE, !.state = "NOT_RUNNING"]
               /\ index < MaxIndex
               /\ index' = index + 1
               /\ reported' = TRUE
               /\ UNCHANGED cmds
  BY Zenon DEF onDownloadOfDeviceXfinished
<1>2. UNCHANGED <<popup, files, dev, ticking, mishaps, starts, confirmed, announced>>
  BY DEF onDownloadOfDeviceXfinished, device, ghosts
<1>3. ev' \in [Dev -> Seq(Event)]
  BY <1>1, Handled
<1>4. erred' \in BOOLEAN /\ reported' \in BOOLEAN
  BY <1>1, ToParts
<1>5. CASE d + 1 < N /\ startDownloadOfDevX(cc, d + 1) /\ UNCHANGED index
  <2>1. d + 1 \in Dev
    BY <1>5, CatchSessionAssumption DEF Dev
  <2>2. cc' \in Central /\ cmds' \in [Dev -> SUBSET Cmd]
    BY <1>5, <2>1, ToParts, DownloadType
  <2> QED BY <1>2, <1>3, <1>4, <1>5, <2>2, ToParts, FromParts
<1>6. CASE /\ cc' = [cc EXCEPT !.timer = FALSE, !.state = "NOT_RUNNING"]
           /\ index < MaxIndex /\ index' = index + 1 /\ UNCHANGED cmds
  <2>1. cc' \in Central
    BY <1>6, ToParts DEF Central
  <2>2. index' \in 0..MaxIndex
    BY <1>6, ToParts, CatchSessionAssumption
  <2> QED BY <1>2, <1>3, <1>4, <1>6, <2>1, <2>2, ToParts, FromParts
<1> QED BY <1>1, <1>5, <1>6

LEMMA TimerTypes == TypeOK /\ onDownloadTimerExpired => TypeOK'
<1> SUFFICES ASSUME TypeOK, onDownloadTimerExpired PROVE TypeOK'
  OBVIOUS
<1>1. UNCHANGED <<popup, index, files, cmds, ev, dev, ticking, mishaps, starts, confirmed, announced>>
  BY DEF onDownloadTimerExpired, device, ghosts
<1>2. cc' \in Central /\ reported' = TRUE /\ erred' = TRUE
  BY ToParts DEF onDownloadTimerExpired, Central
<1> QED BY <1>1, <1>2, ToParts, FromParts

LEMMA SelfTypes ==
    ASSUME NEW d \in Dev PROVE TypeOK /\ TriggersItself(d) => TypeOK'
<1> SUFFICES ASSUME TypeOK, TriggersItself(d) PROVE TypeOK'
  OBVIOUS
<1>1. UNCHANGED <<cc, popup, cmds, ticking, mishaps, index, files, confirmed, reported, erred,
                  starts, announced>>
  BY DEF TriggersItself, outcome
<1>2. ev' \in [Dev -> Seq(Event)]
  BY Emitted, OneEvent DEF TriggersItself
<1>3. dev' \in [Dev -> Wearable]
  <2>1. dev \in [Dev -> Wearable] /\ dev' = [dev EXCEPT ![d].phase = "triggered"]
    BY ToParts DEF TriggersItself
  <2> QED BY <2>1 DEF Wearable, Phase
<1> QED BY <1>1, <1>2, <1>3, ToParts, FromParts

LEMMA AnnounceTypes ==
    ASSUME NEW d \in Dev PROVE TypeOK /\ Announces(d) => TypeOK'
<1> SUFFICES ASSUME TypeOK, Announces(d) PROVE TypeOK'
  OBVIOUS
<1>1. UNCHANGED <<cc, popup, cmds, ticking, mishaps, index, files, confirmed, reported, erred,
                  starts, announced>>
  BY DEF Announces, outcome
<1>2. ev' \in [Dev -> Seq(Event)]
  BY Emitted, OneEvent DEF Announces
<1>3. dev' \in [Dev -> Wearable]
  <2>1. dev \in [Dev -> Wearable] /\ dev' = [dev EXCEPT ![d].phase = "waiting", ![d].announces = TRUE]
    BY ToParts DEF Announces
  <2> QED BY <2>1 DEF Wearable, Phase
<1> QED BY <1>1, <1>2, <1>3, ToParts, FromParts

LEMMA HearTypes ==
    ASSUME NEW d \in Dev, NEW op \in {"START", "STOP", "TRIGGER", "OK"}
    PROVE  TypeOK /\ Hears(d, op) => TypeOK'
<1> SUFFICES ASSUME TypeOK, Hears(d, op) PROVE TypeOK'
  OBVIOUS
<1>1. UNCHANGED <<cc, popup, ev, ticking, mishaps, index, files, confirmed, reported, erred,
                  starts, announced>>
  BY DEF Hears, outcome
<1>2. PICK c \in cmds[d] :
         /\ c.op = op
         /\ cmds' = [cmds EXCEPT ![d] = @ \ {c}]
         /\ \/ /\ op = "START"
               /\ dev' = [dev EXCEPT ![d] = [phase |-> "running", rec |-> c.rec,
                                             announces |-> FALSE]]
            \/ dev' = [dev EXCEPT ![d].phase = "stopped", ![d].rec = None]
            \/ dev' = [dev EXCEPT ![d].phase = "triggered"]
            \/ dev' = [dev EXCEPT ![d].announces = FALSE]
            \/ dev' = dev
  BY Zenon DEF Hears
<1>3. cmds' \in [Dev -> SUBSET Cmd]
  BY <1>2, ToParts
<1>4. dev' \in [Dev -> Wearable]
  <2>1. dev \in [Dev -> Wearable] /\ c \in Cmd
    BY <1>2, ToParts
  <2>2. CASE /\ op = "START"
             /\ dev' = [dev EXCEPT ![d] = [phase |-> "running", rec |-> c.rec,
                                           announces |-> FALSE]]
    <3>1. c.rec \in Rec
      BY <1>2, <2>1, <2>2, Kinds
    <3>2. [phase |-> "running", rec |-> c.rec, announces |-> FALSE] \in Wearable
      BY <3>1 DEF Wearable, Phase
    <3> QED BY <2>1, <2>2, <3>2
  <2>3. CASE dev' = [dev EXCEPT ![d].phase = "stopped", ![d].rec = None]
    BY <2>1, <2>3 DEF Wearable, Phase
  <2>4. CASE dev' = [dev EXCEPT ![d].phase = "triggered"]
    BY <2>1, <2>4 DEF Wearable, Phase
  <2>5. CASE dev' = [dev EXCEPT ![d].announces = FALSE]
    BY <2>1, <2>5 DEF Wearable, Phase
  <2> QED BY <1>2, <2>1, <2>2, <2>3, <2>4, <2>5
<1> QED BY <1>1, <1>3, <1>4, ToParts, FromParts

\* What a device that has been asked hands over.
Handed(d) == [op |-> "WRITE", rec |-> dev[d].rec]
Fallow == [phase |-> "stopped", rec |-> None, announces |-> FALSE]

LEMMA Served ==
    ASSUME NEW d \in Dev, Serves(d)
    PROVE  \/ /\ dev[d].phase = "waiting"
              /\ Emits(d, <<Handed(d), Plain("DONE")>>)
              /\ dev' = [dev EXCEPT ![d] = Fallow]
           \/ /\ dev[d].phase # "waiting"
              /\ Emits(d, <<Plain("DONE")>>)
              /\ dev' = dev
<1>1. CASE dev[d].phase = "waiting"
  BY <1>1, Zenon DEF Serves, Handed, Fallow
<1>2. CASE dev[d].phase # "waiting"
  BY <1>2, Zenon DEF Serves, Handed, Fallow
<1> QED BY <1>1, <1>2

LEMMA ServedTypes ==
    ASSUME TypeOK, HasRecording, NEW d \in Dev, Serves(d)
    PROVE  ev' \in [Dev -> Seq(Event)] /\ dev' \in [Dev -> Wearable]
<1>1. dev \in [Dev -> Wearable] /\ Fallow \in Wearable
  BY ToParts DEF Wearable, Phase, Fallow
<1>2. CASE /\ dev[d].phase = "waiting"
           /\ Emits(d, <<Handed(d), Plain("DONE")>>)
           /\ dev' = [dev EXCEPT ![d] = Fallow]
  <2>1. Handed(d) \in Event /\ Plain("DONE") \in Event
    BY <1>2, Kinds DEF HasRecording, Handed
  <2>2. <<Handed(d), Plain("DONE")>> \in Seq(Event)
    BY <2>1
  <2> QED BY <1>1, <1>2, <2>2, Emitted
<1>3. CASE dev[d].phase # "waiting" /\ Emits(d, <<Plain("DONE")>>) /\ dev' = dev
  <2>1. <<Plain("DONE")>> \in Seq(Event)
    BY OneEvent
  <2> QED BY <1>1, <1>3, <2>1, Emitted
<1> QED BY <1>2, <1>3, Served

LEMMA ArriveTypes ==
    ASSUME NEW d \in Dev PROVE TypeOK /\ HasRecording /\ RequestArrives(d) => TypeOK'
<1> SUFFICES ASSUME TypeOK, HasRecording, RequestArrives(d) PROVE TypeOK'
  OBVIOUS
<1>1. /\ UNCHANGED <<cc, popup, ticking, index, files, confirmed, reported, erred,
                     starts, announced>>
      /\ \/ cmds' = [cmds EXCEPT ![d] = @ \ {Plain("REQUEST")}] /\ UNCHANGED mishaps
         \/ mishaps < MaxMishap /\ mishaps' = mishaps + 1 /\ UNCHANGED cmds
      /\ Serves(d)
  BY DEF RequestArrives, outcome
<1>2. cmds' \in [Dev -> SUBSET Cmd]
  BY <1>1, ToParts
<1>3. mishaps' \in 0..MaxMishap
  BY <1>1, ToParts, CatchSessionAssumption
<1> QED BY <1>1, <1>2, <1>3, ServedTypes, ToParts, FromParts

LEMMA LostTypes ==
    ASSUME NEW d \in Dev PROVE TypeOK /\ RequestIsLost(d) => TypeOK'
<1> SUFFICES ASSUME TypeOK, RequestIsLost(d) PROVE TypeOK'
  OBVIOUS
<1>1. /\ UNCHANGED <<cc, popup, ev, dev, index, files, confirmed, reported, erred,
                     starts, announced>>
      /\ cmds' = [cmds EXCEPT ![d] = @ \ {Plain("REQUEST")}]
      /\ mishaps < MaxMishap /\ mishaps' = mishaps + 1
      /\ ticking' \in {ticking, ticking \cup {d}}
  BY DEF RequestIsLost, outcome
<1>2. cmds' \in [Dev -> SUBSET Cmd] /\ ticking' \subseteq Dev
  BY <1>1, ToParts
<1>3. mishaps' \in 0..MaxMishap
  BY <1>1, ToParts, CatchSessionAssumption
<1> QED BY <1>1, <1>2, <1>3, ToParts, FromParts

LEMMA TickTypes ==
    ASSUME NEW d \in Dev PROVE TypeOK /\ CmdTimerTicks(d) => TypeOK'
<1> SUFFICES ASSUME TypeOK, CmdTimerTicks(d) PROVE TypeOK'
  OBVIOUS
<1>1. UNCHANGED <<cc, popup, cmds, dev, ticking, mishaps, index, files, confirmed, reported, erred,
                  starts, announced>>
  BY DEF CmdTimerTicks, outcome, device
<1>2. ev' \in [Dev -> Seq(Event)]
  BY Emitted, OneEvent DEF CmdTimerTicks
<1> QED BY <1>1, <1>2, ToParts, FromParts

LEMMA LateTypes ==
    ASSUME NEW d \in Dev PROVE TypeOK /\ HasRecording /\ LateAnswer(d) => TypeOK'
<1> SUFFICES ASSUME TypeOK, HasRecording, LateAnswer(d) PROVE TypeOK'
  OBVIOUS
<1>1. /\ UNCHANGED <<cc, popup, cmds, mishaps, index, files, confirmed, reported, erred,
                     starts, announced>>
      /\ ticking' = ticking \ {d}
      /\ Serves(d)
  BY DEF LateAnswer, outcome
<1>2. ticking' \subseteq Dev
  BY <1>1, ToParts
<1> QED BY <1>1, <1>2, ServedTypes, ToParts, FromParts

LEMMA TypeInit == Init => TypeOK /\ HasRecording
<1> SUFFICES ASSUME Init PROVE TypeOK /\ HasRecording
  OBVIOUS
<1>1. 0 \in Dev /\ 0 \in 0..MaxIndex /\ 0 \in 0..MaxStart /\ 0 \in 0..MaxMishap
  BY CatchSessionAssumption DEF Dev
<1>2. cc \in Central
  <2>1. PICK ble \in BOOLEAN, waiting \in [Dev -> Garbage] :
           cc = [bleUpl |-> ble, idInDl |-> 0, state |-> "UNSET", timer |-> FALSE,
                 waiting |-> {d \in Dev : waiting[d]}]
    BY DEF Init
  <2> QED BY <1>1, <2>1 DEF Central
<1>3. dev \in [Dev -> Wearable] /\ HasRecording
  BY DEF Init, Wearable, Phase, HasRecording
<1>4. /\ files \in [0..MaxIndex -> [Dev -> Rec \cup {None}]]
      /\ confirmed \in [0..MaxIndex -> [Dev -> Rec \cup {None}]]
  <2>1. NoFiles \in [Dev -> Rec \cup {None}]
    BY DEF NoFiles
  <2> QED BY <2>1 DEF Init
<1>5. cmds \in [Dev -> SUBSET Cmd] /\ ev \in [Dev -> Seq(Event)]
  BY DEF Init
<1>6. /\ popup \in BOOLEAN /\ reported \in BOOLEAN /\ erred \in BOOLEAN
      /\ index \in 0..MaxIndex /\ starts \in 0..MaxStart /\ mishaps \in 0..MaxMishap
      /\ ticking \subseteq Dev /\ announced \subseteq Dev
  BY <1>1 DEF Init
<1> QED BY <1>2, <1>3, <1>4, <1>5, <1>6 DEF TypeOK, Central, Wearable, Phase

LEMMA RecordingNext ==
    ASSUME TypeOK, HasRecording, [Next]_vars PROVE HasRecording'
<1>0. dev \in [Dev -> Wearable] /\ cmds \in [Dev -> SUBSET Cmd]
  BY ToParts
<1>1. CASE dev' = dev
  BY <1>1 DEF HasRecording
<1>2. ASSUME NEW d \in Dev, TriggersItself(d) PROVE HasRecording'
  <2>1. dev[d].phase = "running" /\ dev' = [dev EXCEPT ![d].phase = "triggered"]
    BY <1>2 DEF TriggersItself
  <2> QED BY <1>0, <2>1 DEF HasRecording, Wearable
<1>3. ASSUME NEW d \in Dev, Announces(d) PROVE HasRecording'
  <2>1. /\ dev[d].phase # "stopped"
        /\ dev' = [dev EXCEPT ![d].phase = "waiting", ![d].announces = TRUE]
    BY <1>3 DEF Announces
  <2> QED BY <1>0, <2>1 DEF HasRecording, Wearable
<1>4. ASSUME NEW d \in Dev, NEW op \in {"START", "STOP", "TRIGGER", "OK"}, Hears(d, op)
      PROVE  HasRecording'
  <2>1. PICK c \in cmds[d] :
           /\ c.op = op
           /\ \/ /\ op = "START"
                 /\ dev' = [dev EXCEPT ![d] = [phase |-> "running", rec |-> c.rec,
                                               announces |-> FALSE]]
              \/ dev' = [dev EXCEPT ![d].phase = "stopped", ![d].rec = None]
              \/ dev[d].phase = "running" /\ dev' = [dev EXCEPT ![d].phase = "triggered"]
              \/ dev' = [dev EXCEPT ![d].announces = FALSE]
              \/ dev' = dev
    BY <1>4, Zenon DEF Hears
  <2>2. CASE /\ op = "START"
             /\ dev' = [dev EXCEPT ![d] = [phase |-> "running", rec |-> c.rec,
                                           announces |-> FALSE]]
    <3>1. c.rec \in Rec
      BY <1>0, <2>1, <2>2, Kinds
    <3> QED BY <1>0, <2>2, <3>1 DEF HasRecording
  <2>3. CASE dev' = [dev EXCEPT ![d].phase = "stopped", ![d].rec = None]
    BY <1>0, <2>3 DEF HasRecording, Wearable
  <2>4. CASE dev[d].phase = "running" /\ dev' = [dev EXCEPT ![d].phase = "triggered"]
    BY <1>0, <2>4 DEF HasRecording, Wearable
  <2>5. CASE dev' = [dev EXCEPT ![d].announces = FALSE]
    BY <1>0, <2>5 DEF HasRecording, Wearable
  <2> QED BY <1>1, <2>1, <2>2, <2>3, <2>4, <2>5
<1>5. ASSUME NEW d \in Dev, Serves(d) PROVE HasRecording'
  <2>1. dev' = [dev EXCEPT ![d] = Fallow] \/ dev' = dev
    BY <1>5, Served
  <2> QED BY <1>0, <1>1, <2>1 DEF HasRecording, Fallow
<1>6. ASSUME NEW d \in Dev, MainThread(d) PROVE dev' = dev
  BY <1>6 DEF MainThread, onRequestDispatchToOtherDevices, onSensorDataAvailableArrived,
            writeTypeToLogFil, onDownloadOfDeviceXfinished, device
<1>7. sendStartToAllDevices \/ sendStopToAllDevices \/ onDownloadTimerExpired => dev' = dev
  BY DEF sendStartToAllDevices, sendStopToAllDevices, onDownloadTimerExpired, device
<1>8. ASSUME NEW answer, onCatchSuccessConfirmed(answer) PROVE dev' = dev
  BY <1>8 DEF onCatchSuccessConfirmed, device
<1>9. ASSUME NEW d \in Dev, RequestArrives(d) \/ LateAnswer(d) PROVE Serves(d)
  BY <1>9 DEF RequestArrives, LateAnswer
<1>10. ASSUME NEW d \in Dev, RequestIsLost(d) \/ CmdTimerTicks(d) PROVE dev' = dev
  BY <1>10 DEF RequestIsLost, CmdTimerTicks, device
<1>11. UNCHANGED vars => dev' = dev
  BY DEF vars
<1> QED BY <1>1, <1>2, <1>3, <1>4, <1>5, <1>6, <1>7, <1>8, <1>9, <1>10, <1>11, Zenon DEF Next

LEMMA TypeNext ==
    ASSUME TypeOK, HasRecording, [Next]_vars PROVE TypeOK'
<1>1. UNCHANGED vars => TypeOK'
  <2> SUFFICES ASSUME UNCHANGED vars PROVE TypeOK'
    OBVIOUS
  <2> QED BY ToParts, FromParts DEF vars
<1>2. ASSUME NEW d \in Dev, MainThread(d) PROVE TypeOK'
  BY <1>2, TriggerTypes, AvailableTypes, WriteTypes, FinishedTypes, Zenon DEF MainThread
<1> QED BY <1>1, <1>2, StartTypes, StopTypes, AnswerTypes, TimerTypes, SelfTypes, AnnounceTypes,
           HearTypes, ArriveTypes, LostTypes, TickTypes, LateTypes, Zenon DEF Next

\* Every variable keeps its type, for any number of devices, starts and events.
THEOREM TypeCorrect == Spec => []TypeOK
<1>1. Init => TypeOK /\ HasRecording
  BY TypeInit
<1>2. TypeOK /\ HasRecording /\ [Next]_vars => (TypeOK /\ HasRecording)'
  BY TypeNext, RecordingNext
<1> QED BY <1>1, <1>2, PTL DEF Spec

-----------------------------------------------------------------------------
(* Queues of events *)

Telling(e) == e.op \in {"WRITE", "DONE"}

\* A queue that says of a hand-over what the other one says.
Alike(p, q) ==
    /\ Writes(p) <=> Writes(q)
    /\ Ends(p) <=> Ends(q)
    /\ InOrder(q) => InOrder(p)
    /\ \A r \in Rec \cup {None} : Carries(q, r) => Carries(p, r)

LEMMA TailAt ==
    ASSUME NEW q \in Seq(Event), q # <<>>
    PROVE  /\ 1 \in DOMAIN q /\ Head(q) = q[1] /\ Tail(q) \in Seq(Event)
           /\ \A k \in DOMAIN Tail(q) : k \in Nat /\ k + 1 \in DOMAIN q /\ Tail(q)[k] = q[k + 1]
           /\ \A k \in DOMAIN q : k # 1 => k - 1 \in DOMAIN Tail(q) /\ Tail(q)[k - 1] = q[k]
<1>1. DOMAIN q = 1..Len(q) /\ Len(q) \in Nat /\ Len(q) # 0
  OBVIOUS
<1>2. Tail(q) \in Seq(Event) /\ Len(Tail(q)) = Len(q) - 1
  BY <1>1
<1>3. DOMAIN Tail(q) = 1..(Len(q) - 1)
  BY <1>2
<1>4. \A k \in 1..(Len(q) - 1) : Tail(q)[k] = q[k + 1]
  BY <1>1
<1> QED BY <1>1, <1>2, <1>3, <1>4

LEMMA TailAlike ==
    ASSUME NEW q \in Seq(Event), q # <<>>, ~Telling(Head(q))
    PROVE  Alike(Tail(q), q)
<1> DEFINE t == Tail(q)
<1>1. /\ \A k \in DOMAIN t : k \in Nat /\ k + 1 \in DOMAIN q /\ t[k] = q[k + 1]
      /\ \A k \in DOMAIN q : k # 1 => k - 1 \in DOMAIN t /\ t[k - 1] = q[k]
      /\ Head(q) = q[1]
  BY TailAt
<1>2. \A k \in DOMAIN q : Telling(q[k]) => k # 1
  BY <1>1
<1> HIDE DEF t
<1>3. Writes(t) <=> Writes(q)
  BY <1>1, <1>2 DEF Writes, Telling
<1>4. Ends(t) <=> Ends(q)
  BY <1>1, <1>2 DEF Ends, Telling
<1>5. ASSUME InOrder(q) PROVE InOrder(t)
  <2>1. ASSUME NEW j \in DOMAIN t, NEW k \in DOMAIN t, j < k, t[j].op \in {"DONE", "WRITE"}
        PROVE  t[k].op # "WRITE"
    <3>1. /\ j + 1 \in DOMAIN q /\ k + 1 \in DOMAIN q /\ j + 1 < k + 1
          /\ t[j] = q[j + 1] /\ t[k] = q[k + 1]
      BY <1>1, <2>1
    <3> QED BY <1>5, <2>1, <3>1 DEF InOrder
  <2> QED BY <1>3, <1>4, <1>5, <2>1 DEF InOrder
<1>6. ASSUME NEW r \in Rec \cup {None}, Carries(q, r) PROVE Carries(t, r)
  BY <1>1, <1>6 DEF Carries
<1> QED BY <1>3, <1>4, <1>5, <1>6 DEF Alike, t

LEMMA TailOfWrite ==
    ASSUME NEW q \in Seq(Event), q # <<>>, InOrder(q), Head(q).op = "WRITE"
    PROVE  Writes(q) /\ Ends(Tail(q)) /\ ~Writes(Tail(q)) /\ InOrder(Tail(q))
<1> DEFINE t == Tail(q)
<1>1. /\ 1 \in DOMAIN q /\ q[1].op = "WRITE"
      /\ \A k \in DOMAIN t : k \in Nat /\ k + 1 \in DOMAIN q /\ t[k] = q[k + 1]
      /\ \A k \in DOMAIN q : k # 1 => k - 1 \in DOMAIN t /\ t[k - 1] = q[k]
      /\ \A k \in DOMAIN t : k \in 1..Len(t) /\ Len(t) \in Nat
  BY TailAt
<1> HIDE DEF t
<1>2. Writes(q)
  BY <1>1 DEF Writes
<1>3. PICK n \in DOMAIN q : q[n].op = "DONE"
  BY <1>2 DEF InOrder, Ends
<1>4. Ends(t)
  BY <1>1, <1>3 DEF Ends
<1>5. ASSUME NEW k \in DOMAIN t PROVE t[k].op # "WRITE"
  <2>1. k + 1 \in DOMAIN q /\ 1 < k + 1 /\ t[k] = q[k + 1]
    BY <1>1
  <2> QED BY <1>1, <2>1 DEF InOrder
<1>6. InOrder(t)
  BY <1>4, <1>5 DEF InOrder
<1> QED BY <1>2, <1>4, <1>5, <1>6 DEF Writes, t

LEMMA TailOfDone ==
    ASSUME NEW q \in Seq(Event), q # <<>>, InOrder(q), Head(q).op = "DONE"
    PROVE  /\ Ends(q) /\ ~Writes(q) /\ ~Writes(Tail(q)) /\ InOrder(Tail(q))
           /\ Tail(q) \in Seq(Event)
<1> DEFINE t == Tail(q)
<1>1. /\ 1 \in DOMAIN q /\ q[1].op = "DONE" /\ t \in Seq(Event)
      /\ \A k \in DOMAIN t : k \in Nat /\ k + 1 \in DOMAIN q /\ t[k] = q[k + 1]
      /\ \A k \in DOMAIN q : k # 1 => k - 1 \in DOMAIN t /\ t[k - 1] = q[k]
      /\ \A k \in DOMAIN t : k \in 1..Len(t) /\ Len(t) \in Nat
  BY TailAt
<1> HIDE DEF t
<1>2. ASSUME NEW k \in DOMAIN t PROVE t[k].op # "WRITE"
  <2>1. k + 1 \in DOMAIN q /\ 1 < k + 1 /\ t[k] = q[k + 1]
    BY <1>1
  <2> QED BY <1>1, <2>1 DEF InOrder
<1>3. ~Writes(q)
  BY <1>1, <1>2 DEF Writes
<1>4. Ends(q) /\ ~Writes(t)
  BY <1>1, <1>2 DEF Ends, Writes
<1>5. InOrder(t)
  BY <1>2, <1>4 DEF InOrder
<1> QED BY <1>1, <1>3, <1>4, <1>5 DEF t

LEMMA AddedAt ==
    ASSUME NEW q \in Seq(Event), NEW es \in Seq(Event)
    PROVE  /\ q \o es \in Seq(Event)
           /\ \A k \in DOMAIN q : k \in DOMAIN (q \o es) /\ (q \o es)[k] = q[k]
           /\ \A k \in DOMAIN (q \o es) :
                 \/ k \in DOMAIN q
                 \/ /\ k \in Nat /\ k - Len(q) \in DOMAIN es
                    /\ (q \o es)[k] = es[k - Len(q)]
           /\ \A k \in DOMAIN es : k + Len(q) \in DOMAIN (q \o es)
                                   /\ (q \o es)[k + Len(q)] = es[k]
           /\ Len(q) \in Nat /\ DOMAIN q = 1..Len(q)
<1>1. Len(q) \in Nat /\ Len(es) \in Nat /\ DOMAIN q = 1..Len(q) /\ DOMAIN es = 1..Len(es)
  OBVIOUS
<1>2. q \o es \in Seq(Event) /\ Len(q \o es) = Len(q) + Len(es)
  OBVIOUS
<1>3. DOMAIN (q \o es) = 1..(Len(q) + Len(es))
  BY <1>2
<1>4. \A k \in 1..(Len(q) + Len(es)) :
         (q \o es)[k] = IF k <= Len(q) THEN q[k] ELSE es[k - Len(q)]
  BY <1>1
<1> QED BY <1>1, <1>2, <1>3, <1>4

LEMMA AddedAlike ==
    ASSUME NEW q \in Seq(Event), NEW e \in Event, ~Telling(e)
    PROVE  Alike(q \o <<e>>, q)
<1> DEFINE p == q \o <<e>>
<1>0. <<e>> \in Seq(Event) /\ DOMAIN <<e>> = {1} /\ <<e>>[1] = e
  OBVIOUS
<1>1. /\ \A k \in DOMAIN q : k \in DOMAIN p /\ p[k] = q[k]
      /\ \A k \in DOMAIN p : k \in DOMAIN q \/ p[k] = e
  BY <1>0, AddedAt
<1>2. \A k \in DOMAIN p : Telling(p[k]) => k \in DOMAIN q /\ p[k] = q[k]
  BY <1>1
<1> HIDE DEF p
<1>3. Writes(p) <=> Writes(q)
  BY <1>1, <1>2 DEF Writes, Telling
<1>4. Ends(p) <=> Ends(q)
  BY <1>1, <1>2 DEF Ends, Telling
<1>5. ASSUME InOrder(q) PROVE InOrder(p)
  <2>1. ASSUME NEW j \in DOMAIN p, NEW k \in DOMAIN p, j < k, p[j].op \in {"DONE", "WRITE"}
        PROVE  p[k].op # "WRITE"
    <3>1. Telling(p[j]) /\ Telling(p[k])
             => j \in DOMAIN q /\ k \in DOMAIN q /\ p[j] = q[j] /\ p[k] = q[k]
      BY <1>2
    <3> QED BY <1>5, <2>1, <3>1 DEF InOrder, Telling
  <2> QED BY <1>3, <1>4, <1>5, <2>1 DEF InOrder
<1>6. ASSUME NEW r \in Rec \cup {None}, Carries(q, r) PROVE Carries(p, r)
  BY <1>2, <1>6 DEF Carries, Telling
<1> QED BY <1>3, <1>4, <1>5, <1>6 DEF Alike, p

\* The recording and the end behind events that tell nothing.
LEMMA HandOver ==
    ASSUME NEW q \in Seq(Event), NEW w \in Event, w.op = "WRITE", InOrder(q), ~Ends(q)
    PROVE  LET p == q \o <<w, Plain("DONE")>>
           IN  Writes(p) /\ Ends(p) /\ InOrder(p) /\ Carries(p, w.rec)
<1> DEFINE done == Plain("DONE")
           es == <<w, done>>
           p == q \o es
<1>0. /\ done \in Event /\ done.op = "DONE"
      /\ es \in Seq(Event) /\ DOMAIN es = {1, 2} /\ es[1] = w /\ es[2] = done
  BY Kinds
<1> HIDE DEF done
<1>1. Len(q) \in Nat /\ DOMAIN q = 1..Len(q)
  OBVIOUS
<1>2. /\ \A k \in DOMAIN q : p[k] = q[k]
      /\ \A k \in DOMAIN p : \/ k \in DOMAIN q
                             \/ k \in Nat /\ k - Len(q) \in DOMAIN es /\ p[k] = es[k - Len(q)]
      /\ \A k \in DOMAIN es : k + Len(q) \in DOMAIN p /\ p[k + Len(q)] = es[k]
  BY <1>0, AddedAt
<1> HIDE DEF es
<1>3. \A k \in DOMAIN q : q[k].op \notin {"WRITE", "DONE"}
  BY DEF InOrder, Ends, Writes
<1> HIDE DEF p
<1>4. /\ Len(q) + 1 \in DOMAIN p /\ p[Len(q) + 1] = w
      /\ Len(q) + 2 \in DOMAIN p /\ p[Len(q) + 2] = done
  BY <1>0, <1>1, <1>2
<1>5. ASSUME NEW k \in DOMAIN p
      PROVE  \/ k \in 1..Len(q) /\ p[k].op \notin {"WRITE", "DONE"}
             \/ k = Len(q) + 1 /\ p[k] = w
             \/ k = Len(q) + 2 /\ p[k] = done
  <2>1. CASE k \in DOMAIN q
    BY <1>1, <1>2, <1>3, <2>1
  <2>2. CASE k \in Nat /\ k - Len(q) \in DOMAIN es /\ p[k] = es[k - Len(q)]
    <3>1. k - Len(q) = 1 \/ k - Len(q) = 2
      BY <1>0, <2>2
    <3>2. CASE k - Len(q) = 1
      BY <1>0, <1>1, <2>2, <3>2
    <3>3. CASE k - Len(q) = 2
      BY <1>0, <1>1, <2>2, <3>3
    <3> QED BY <3>1, <3>2, <3>3
  <2> QED BY <1>2, <2>1, <2>2
<1>6. Writes(p) /\ Ends(p)
  BY <1>0, <1>4 DEF Writes, Ends
<1>7. ASSUME NEW j \in DOMAIN p, NEW k \in DOMAIN p, j < k, p[j].op \in {"DONE", "WRITE"}
      PROVE  p[k].op # "WRITE"
  <2>1. j = Len(q) + 2 \/ j = Len(q) + 1
    BY <1>5, <1>7
  <2>2. k \in 1..Len(q) \/ k = Len(q) + 1 \/ k = Len(q) + 2
    BY <1>5
  <2>3. k = Len(q) + 2 /\ p[k] = done
    BY <1>1, <1>4, <1>7, <2>1, <2>2
  <2> QED BY <1>0, <2>3
<1>8. InOrder(p)
  BY <1>6, <1>7 DEF InOrder
<1>9. Carries(p, w.rec)
  <2>1. ASSUME NEW k \in DOMAIN p, p[k].op = "WRITE" PROVE p[k] = w
    BY <1>0, <1>5, <2>1
  <2> QED BY <2>1 DEF Carries
<1> QED BY <1>6, <1>8, <1>9 DEF p, es, done

\* An end more, behind whatever there is.
LEMMA OneMoreEnd ==
    ASSUME NEW q \in Seq(Event), InOrder(q)
    PROVE  LET p == q \o <<Plain("DONE")>>
           IN  /\ InOrder(p)
               /\ Writes(p) <=> Writes(q)
               /\ \A r \in Rec \cup {None} : Carries(q, r) => Carries(p, r)
<1> DEFINE e == Plain("DONE")
           p == q \o <<e>>
<1>0. e \in Event /\ e.op = "DONE"
  BY Kinds
<1> HIDE DEF e
<1>1. /\ <<e>> \in Seq(Event) /\ DOMAIN <<e>> = {1} /\ <<e>>[1] = e
      /\ Len(q) \in Nat /\ DOMAIN q = 1..Len(q)
  BY <1>0
<1>2. /\ \A k \in DOMAIN q : k \in DOMAIN p /\ p[k] = q[k]
      /\ \A k \in DOMAIN p : k \in DOMAIN q \/ p[k] = e
      /\ 1 + Len(q) \in DOMAIN p /\ p[1 + Len(q)] = e
  BY <1>1, AddedAt
<1> HIDE DEF p
<1>3. \A k \in DOMAIN p : p[k].op = "WRITE" => k \in DOMAIN q /\ p[k] = q[k]
  BY <1>0, <1>2
<1>4. Writes(p) <=> Writes(q)
  BY <1>2, <1>3 DEF Writes
<1>5. Ends(p)
  BY <1>0, <1>2 DEF Ends
<1>6. ASSUME NEW j \in DOMAIN p, NEW k \in DOMAIN p, j < k, p[j].op \in {"DONE", "WRITE"}
      PROVE  p[k].op # "WRITE"
  <2> SUFFICES ASSUME p[k].op = "WRITE" PROVE FALSE
    OBVIOUS
  <2>1. k \in DOMAIN q /\ p[k] = q[k]
    BY <1>3
  <2>2. CASE j \in DOMAIN q
    <3>1. p[j] = q[j]
      BY <1>2, <2>2
    <3> QED BY <1>6, <2>1, <2>2, <3>1 DEF InOrder
  <2>3. CASE j \notin DOMAIN q
    <3>1. p \in Seq(Event)
      BY <1>1, AddedAt DEF p
    <3>2. DOMAIN p = 1..Len(p) /\ Len(p) \in Nat
      BY <3>1
    <3>3. j \in Nat /\ j >= 1 /\ k <= Len(q) /\ k \in Nat
      BY <1>1, <2>1, <3>2
    <3>4. j \in 1..Len(q)
      BY <1>1, <1>6, <3>3
    <3> QED BY <1>1, <2>3, <3>4
  <2> QED BY <2>2, <2>3
<1>7. InOrder(p)
  BY <1>5, <1>6 DEF InOrder
<1>8. \A r \in Rec \cup {None} : Carries(q, r) => Carries(p, r)
  BY <1>3 DEF Carries
<1> QED BY <1>4, <1>7, <1>8 DEF p, e

-----------------------------------------------------------------------------
(* Steps that leave a download as it is *)

Engaged == Downloading \/ \E d \in Dev : Pending(d)

\* Nothing is asked, ended or filed, and no device that waits or has handed over
\* turns to something else.
Quiet ==
    /\ files' = files /\ confirmed' = confirmed /\ index' = index
    /\ cc'.state = cc.state /\ ticking' = ticking
    /\ \A d \in Dev :
          /\ Plain("REQUEST") \in cmds'[d] <=> Plain("REQUEST") \in cmds[d]
          /\ ev'[d] = ev[d] \/ Alike(ev'[d], ev[d])
    /\ Engaged /\ NoStart =>
          /\ NoStart'
          /\ \A d \in Dev : dev[d].phase \in {"waiting", "stopped"} =>
                dev'[d].phase = dev[d].phase /\ dev'[d].rec = dev[d].rec

LEMMA QuietKeeps ==
    ASSUME TypeOK, Quiet, Undisturbed' => Undisturbed, Orderly
    PROVE  Orderly'
<1> SUFFICES ASSUME Undisturbed'
             PROVE  (Ordered /\ (Idle \/ \E k \in Dev : Pass(k)) /\ Fresh /\ IndexIsACatch)'
  BY DEF Orderly
<1>0. Ordered /\ (Idle \/ \E k \in Dev : Pass(k)) /\ Fresh /\ IndexIsACatch /\ Undisturbed
  BY DEF Orderly
<1>1. /\ files' = files /\ confirmed' = confirmed /\ index' = index /\ ticking' = ticking
      /\ Downloading' <=> Downloading
  BY DEF Quiet, Downloading
<1>2. ASSUME NEW d \in Dev
      PROVE  /\ Pending(d)' <=> Pending(d)
             /\ Writes(ev[d])' <=> Writes(ev[d])
             /\ Ends(ev[d])' <=> Ends(ev[d])
             /\ InOrder(ev[d]) => InOrder(ev[d])'
             /\ \A r \in Rec \cup {None} : Carries(ev[d], r) => Carries(ev[d], r)'
  <2>1. Plain("REQUEST") \in cmds'[d] <=> Plain("REQUEST") \in cmds[d]
    BY DEF Quiet
  <2>2. CASE ev'[d] = ev[d]
    BY <1>1, <2>1, <2>2 DEF Pending
  <2>3. CASE Alike(ev'[d], ev[d])
    BY <1>1, <2>1, <2>3 DEF Pending, Alike
  <2> QED BY <2>2, <2>3 DEF Quiet
<1>3. Ordered'
  BY <1>0, <1>2 DEF Ordered
<1>4. Fresh' /\ IndexIsACatch'
  BY <1>0, <1>1 DEF Fresh, IndexIsACatch
<1>5. Idle => Idle'
  <2> SUFFICES ASSUME Idle PROVE Idle'
    OBVIOUS
  <2>1. \A d \in Dev : ~Writes(ev[d])'
    BY <1>2 DEF Idle
  <2>2. ASSUME NEW d \in Dev, Pending(d)'
        PROVE  NoStart' /\ \A e \in Dev : dev'[e].phase = "stopped"
    <3>1. Pending(d)
      BY <1>2, <2>2
    <3>2. NoStart /\ \A e \in Dev : dev[e].phase = "stopped"
      BY <3>1 DEF Idle
    <3> QED BY <3>1, <3>2 DEF Quiet, Engaged
  <2> QED BY <1>1, <2>1, <2>2 DEF Idle
<1>6. ASSUME NEW k \in Dev, Pass(k) PROVE Pass(k)'
  <2>1. /\ NoStart'
        /\ \A d \in Dev : dev[d].phase \in {"waiting", "stopped"} =>
              dev'[d].phase = dev[d].phase /\ dev'[d].rec = dev[d].rec
    BY <1>6 DEF Quiet, Engaged, Pass
  <2>2. ASSUME NEW d \in Dev
        PROVE  /\ Unserved(d) => Unserved(d)'
               /\ WasServed(d) => WasServed(d)'
               /\ Serving(d) => Serving(d)'
    <3>1. Unserved(d) => Unserved(d)'
      BY <1>1, <2>1 DEF Unserved
    <3>2. WasServed(d) => WasServed(d)'
      BY <1>1, <1>2, <2>1 DEF WasServed
    <3>3. confirmed[index][d] \in Rec \cup {None}
      BY ToParts
    <3>4. Serving(d) => Serving(d)'
      BY <1>1, <1>2, <2>1, <3>3 DEF Serving
    <3> QED BY <3>1, <3>2, <3>4
  <2>3. Ends(ev[k])' <=> Ends(ev[k])
    BY <1>2
  <2>4. \A d \in Dev : d > k => Unserved(d)' /\ ~Pending(d)'
    BY <1>2, <1>6, <2>2 DEF Pass
  <2>5. \A d \in Dev : d < k => WasServed(d)'
    BY <1>6, <2>2 DEF Pass
  <2>6. (Unserved(k)' /\ ~Ends(ev[k])') \/ Serving(k)' \/ WasServed(k)'
    BY <1>6, <2>2, <2>3, Zenon DEF Pass
  <2> QED BY <1>1, <1>6, <2>1, <2>4, <2>5, <2>6 DEF Pass
<1> QED BY <1>0, <1>3, <1>4, <1>5, <1>6

LEMMA SentQuietly ==
    ASSUME TypeOK, NEW op \in {"STOP", "TRIGGER", "OK"}, NEW to, NEW d \in Dev
    PROVE  /\ Plain("REQUEST") \in Sent(op, to)[d] <=> Plain("REQUEST") \in cmds[d]
           /\ \A c \in Sent(op, to)[d] : c.op = "START" => c \in cmds[d]
<1>1. Plain(op) # Plain("REQUEST") /\ Plain(op).op # "START"
  BY DEF Plain
<1>2. Sent(op, to)[d] \in {cmds[d], cmds[d] \cup {Plain(op)}}
  BY Zenon DEF Sent
<1> QED BY <1>1, <1>2

\* Commands of another kind and events that tell nothing.
LEMMA QuietEvents ==
    ASSUME TypeOK,
           UNCHANGED <<files, confirmed, index, dev, ticking>>,
           cc'.state = cc.state,
           \A d \in Dev :
              /\ Plain("REQUEST") \in cmds'[d] <=> Plain("REQUEST") \in cmds[d]
              /\ Engaged => \A c \in cmds'[d] : c.op = "START" => c \in cmds[d]
              /\ ev'[d] = ev[d] \/ Alike(ev'[d], ev[d])
    PROVE  Quiet
<1>1. Engaged /\ NoStart => NoStart'
  BY DEF NoStart
<1> QED BY <1>1 DEF Quiet

LEMMA HandledQuietly ==
    ASSUME TypeOK, NEW d \in Dev, NEW op \in {"TRIGGERED", "AVAILABLE", "FAILED"}, Handles(d, op)
    PROVE  \A e \in Dev : ev'[e] = ev[e] \/ Alike(ev'[e], ev[e])
<1>1. /\ ev[d] \in Seq(Event) /\ ev[d] # <<>> /\ Head(ev[d]).op = op
      /\ ev'[d] = Tail(ev[d]) /\ \A e \in Dev : e # d => ev'[e] = ev[e]
  BY Handled
<1>2. Alike(Tail(ev[d]), ev[d])
  BY <1>1, TailAlike DEF Telling
<1> QED BY <1>1, <1>2

LEMMA EmittedQuietly ==
    ASSUME TypeOK, NEW d \in Dev, NEW op \in {"TRIGGERED", "AVAILABLE", "FAILED"},
           Emits(d, <<Plain(op)>>)
    PROVE  \A e \in Dev : ev'[e] = ev[e] \/ Alike(ev'[e], ev[e])
<1>1. Plain(op) \in Event /\ ~Telling(Plain(op)) /\ <<Plain(op)>> \in Seq(Event)
  BY Kinds, OneEvent DEF Telling
<1>2. /\ ev[d] \in Seq(Event) /\ ev'[d] = ev[d] \o <<Plain(op)>>
      /\ \A e \in Dev : e # d => ev'[e] = ev[e]
  BY <1>1, Emitted
<1>3. Alike(ev[d] \o <<Plain(op)>>, ev[d])
  BY <1>1, <1>2, AddedAlike
<1> QED BY <1>2, <1>3

LEMMA RestIsRest ==
    ASSUME AtRest PROVE ~Downloading /\ \A d \in Dev : ~Pending(d) /\ ~Writes(ev[d])
<1>1. ASSUME NEW d \in Dev PROVE ~Pending(d) /\ ~Writes(ev[d])
  <2>1. Plain("REQUEST") \notin cmds[d] /\ d \notin ticking
    BY DEF AtRest
  <2>2. \A i \in DOMAIN ev[d] : ev[d][i].op \notin {"WRITE", "DONE", "FAILED"}
    BY DEF AtRest
  <2> QED BY <2>1, <2>2 DEF Pending, Ends, Writes
<1> QED BY <1>1 DEF AtRest, Downloading

LEMMA StartQuiet ==
    ASSUME TypeOK, Undisturbed, sendStartToAllDevices PROVE Quiet
<1>1. /\ UNCHANGED <<files, confirmed, index, dev, ticking, cc, ev>>
      /\ AtRest
      /\ cmds' = [d \in Dev |-> cmds[d] \cup {[op |-> "START", rec |-> starts + 1]}]
  BY DEF sendStartToAllDevices, device, outcome, Undisturbed
<1>2. [op |-> "START", rec |-> starts + 1] # Plain("REQUEST")
  BY DEF Plain
<1>3. \A d \in Dev : Plain("REQUEST") \in cmds'[d] <=> Plain("REQUEST") \in cmds[d]
  BY <1>1, <1>2, Zenon
<1>4. ~Engaged
  BY <1>1, RestIsRest DEF Engaged
<1> QED BY <1>1, <1>3, <1>4, QuietEvents

LEMMA StopQuiet ==
    ASSUME TypeOK, sendStopToAllDevices PROVE Quiet
<1>1. /\ UNCHANGED <<files, confirmed, index, dev, ticking, cc, ev>>
      /\ cmds' = Sent("STOP", Dev)
  BY DEF sendStopToAllDevices, device, outcome
<1> QED BY <1>1, SentQuietly, QuietEvents

LEMMA TriggerQuiet ==
    ASSUME TypeOK, NEW d \in Dev, onRequestDispatchToOtherDevices(d) PROVE Quiet
<1>1. /\ UNCHANGED <<files, confirmed, index, dev, ticking, cc>>
      /\ cmds' = Sent("TRIGGER", Dev \ {d})
      /\ Handles(d, "TRIGGERED")
  BY DEF onRequestDispatchToOtherDevices, device, outcome
<1>2. \A e \in Dev : ev'[e] = ev[e] \/ Alike(ev'[e], ev[e])
  BY <1>1, HandledQuietly
<1> QED BY <1>1, <1>2, SentQuietly, QuietEvents

LEMMA AvailableQuiet ==
    ASSUME TypeOK, NEW d \in Dev, onSensorDataAvailableArrived(d) PROVE Quiet
<1>1. /\ UNCHANGED <<files, confirmed, index, dev, ticking>>
      /\ cc' = [cc EXCEPT !.waiting = @ \cup {d}]
      /\ cmds' = Sent("OK", {d})
      /\ Handles(d, "AVAILABLE")
  BY DEF onSensorDataAvailableArrived, device, outcome
<1>2. \A e \in Dev : ev'[e] = ev[e] \/ Alike(ev'[e], ev[e])
  BY <1>1, HandledQuietly
<1>3. cc'.state = cc.state
  BY <1>1, ToParts DEF Central
<1> QED BY <1>1, <1>2, <1>3, SentQuietly, QuietEvents

LEMMA TickQuiet ==
    ASSUME TypeOK, NEW d \in Dev, CmdTimerTicks(d) PROVE Quiet
<1>1. UNCHANGED <<files, confirmed, index, dev, ticking, cc, cmds>> /\ Emits(d, <<Plain("FAILED")>>)
  BY DEF CmdTimerTicks, device, outcome
<1>2. \A e \in Dev : ev'[e] = ev[e] \/ Alike(ev'[e], ev[e])
  BY <1>1, EmittedQuietly
<1> QED BY <1>1, <1>2, QuietEvents

LEMMA SelfQuiet ==
    ASSUME TypeOK, NEW d \in Dev, TriggersItself(d) PROVE Quiet
<1>1. /\ UNCHANGED <<files, confirmed, index, ticking, cc, cmds>>
      /\ Emits(d, <<Plain("TRIGGERED")>>)
      /\ dev[d].phase = "running" /\ dev' = [dev EXCEPT ![d].phase = "triggered"]
  BY DEF TriggersItself, outcome
<1>2. \A e \in Dev : ev'[e] = ev[e] \/ Alike(ev'[e], ev[e])
  BY <1>1, EmittedQuietly
<1>3. \A e \in Dev : dev[e].phase \in {"waiting", "stopped"} => dev'[e] = dev[e]
  BY <1>1, ToParts
<1> QED BY <1>1, <1>2, <1>3 DEF Quiet, NoStart

LEMMA AnnounceQuiet ==
    ASSUME TypeOK, NEW d \in Dev, Announces(d) PROVE Quiet
<1>1. /\ UNCHANGED <<files, confirmed, index, ticking, cc, cmds>>
      /\ Emits(d, <<Plain("AVAILABLE")>>)
      /\ dev[d].phase \in {"triggered", "waiting"}
      /\ dev' = [dev EXCEPT ![d].phase = "waiting", ![d].announces = TRUE]
  BY DEF Announces, outcome
<1>2. \A e \in Dev : ev'[e] = ev[e] \/ Alike(ev'[e], ev[e])
  BY <1>1, EmittedQuietly
<1>3. \A e \in Dev : dev[e].phase \in {"waiting", "stopped"} =>
         dev'[e].phase = dev[e].phase /\ dev'[e].rec = dev[e].rec
  BY <1>1, ToParts DEF Wearable
<1> QED BY <1>1, <1>2, <1>3 DEF Quiet, NoStart

\* Commands other than START leave a device that waits or has handed over alone.
LEMMA HearQuiet ==
    ASSUME TypeOK, NEW d \in Dev, NEW op \in {"START", "STOP", "TRIGGER", "OK"}, Hears(d, op)
    PROVE  Quiet
<1>1. UNCHANGED <<files, confirmed, index, ticking, cc, ev>>
  BY DEF Hears, outcome
<1>2. PICK c \in cmds[d] :
         /\ c.op = op
         /\ cmds' = [cmds EXCEPT ![d] = @ \ {c}]
         /\ \/ op = "START"
            \/ /\ dev[d].phase = "running"
               /\ \/ dev' = [dev EXCEPT ![d].phase = "stopped", ![d].rec = None]
                  \/ dev' = [dev EXCEPT ![d].phase = "triggered"]
            \/ dev' = [dev EXCEPT ![d].announces = FALSE]
            \/ dev' = dev
  BY Zenon DEF Hears
<1>3. c # Plain("REQUEST")
  BY <1>2 DEF Plain
<1>4. \A e \in Dev : /\ Plain("REQUEST") \in cmds'[e] <=> Plain("REQUEST") \in cmds[e]
                     /\ \A b \in cmds'[e] : b \in cmds[e]
  BY <1>2, <1>3, ToParts
<1>5. ASSUME NoStart, NEW e \in Dev, dev[e].phase \in {"waiting", "stopped"}
      PROVE  dev'[e].phase = dev[e].phase /\ dev'[e].rec = dev[e].rec
  <2>1. op # "START" /\ dev \in [Dev -> Wearable]
    BY <1>2, <1>5, ToParts DEF NoStart
  <2>2. CASE dev[d].phase = "running" /\ \/ dev' = [dev EXCEPT ![d].phase = "stopped", ![d].rec = None]
                                         \/ dev' = [dev EXCEPT ![d].phase = "triggered"]
    <3>1. e # d
      BY <1>5, <2>2
    <3>2. dev'[e] = dev[e]
      BY <2>1, <2>2, <3>1
    <3> QED BY <3>2
  <2>3. CASE dev' = [dev EXCEPT ![d].announces = FALSE]
    BY <2>1, <2>3 DEF Wearable
  <2> QED BY <1>2, <2>1, <2>2, <2>3
<1>6. NoStart => NoStart'
  BY <1>4 DEF NoStart
<1> QED BY <1>1, <1>4, <1>5, <1>6 DEF Quiet

-----------------------------------------------------------------------------
(* Steps of a download *)

Rows == [0..MaxIndex -> [Dev -> Rec \cup {None}]]

LEMMA Asking ==
    ASSUME TypeOK, NEW d \in Dev, startDownloadOfDevX(cc, d)
    PROVE  /\ cc'.state = "DOWNLOADING" /\ Downloading'
           /\ \A e \in Dev : e # d => cmds'[e] = cmds[e]
           /\ NoStart => NoStart'
<1>1. /\ cc' = [cc EXCEPT !.idInDl = d, !.state = "DOWNLOADING", !.timer = TRUE]
      /\ cmds' = Sent("REQUEST", {d})
  BY DEF startDownloadOfDevX
<1>2. cc'.state = "DOWNLOADING"
  BY <1>1, ToParts DEF Central
<1>3. /\ \A e \in Dev : e # d => cmds'[e] = cmds[e]
      /\ cmds'[d] = cmds[d] \cup {Plain("REQUEST")}
  BY <1>1, Zenon DEF Sent
<1>4. Plain("REQUEST").op # "START"
  BY DEF Plain
<1>5. \A e \in Dev : \A c \in cmds'[e] : c.op = "START" => c \in cmds[e]
  BY <1>3, <1>4
<1> QED BY <1>2, <1>3, <1>5 DEF Downloading, NoStart

\* The parts of Orderly while nothing disturbs.
LEMMA OrderlyParts ==
    ASSUME TypeOK, Orderly, Undisturbed
    PROVE  /\ Ordered /\ (Idle \/ \E k \in Dev : Pass(k)) /\ Fresh /\ IndexIsACatch
           /\ index \in 0..MaxIndex /\ files \in Rows /\ confirmed \in Rows
           /\ dev \in [Dev -> Wearable] /\ ev \in [Dev -> Seq(Event)]
           /\ cmds \in [Dev -> SUBSET Cmd] /\ ticking \subseteq Dev
           /\ Dev \subseteq Nat
  BY ToParts, CatchSessionAssumption DEF Orderly, Rows, Dev

\* FLOP: the index goes on without files.
LEMMA FlopKeeps ==
    ASSUME TypeOK, Orderly, Undisturbed, ~Downloading, index < MaxIndex, index' = index + 1,
           UNCHANGED <<cc, cmds, confirmed, files, ev, dev, ticking>>
    PROVE  Orderly'
<1>0. Ordered /\ Fresh /\ IndexIsACatch /\ index \in 0..MaxIndex
  BY OrderlyParts
<1>1. Idle
  BY OrderlyParts DEF Pass
<1>2. Ordered' /\ Fresh'
  BY <1>0 DEF Ordered, Fresh
<1>3. Idle'
  <2>1. files[index'] = NoFiles /\ confirmed[index'] = NoFiles
    BY <1>0, CatchSessionAssumption DEF Fresh
  <2>2. \A d \in Dev : Pending(d)' <=> Pending(d)
    BY DEF Pending
  <2> QED BY <1>1, <2>1, <2>2 DEF Idle, NoStart
<1>4. IndexIsACatch'
  BY <1>0, <1>1 DEF IndexIsACatch, Idle
<1> QED BY <1>2, <1>3, <1>4 DEF Orderly

\* The user confirms when all devices are waiting: the first one is asked.
LEMMA CatchKeeps ==
    ASSUME TypeOK, Orderly, Undisturbed, Settled, startDownloadOfDevX(cc, 0),
           confirmed' = [confirmed EXCEPT ![index] = [d \in Dev |-> dev[d].rec]],
           UNCHANGED <<files, ev, dev, ticking, index>>
    PROVE  Orderly'
<1>0. /\ Ordered /\ Fresh /\ IndexIsACatch /\ index \in 0..MaxIndex /\ 0 \in Dev
      /\ confirmed \in Rows /\ Dev \subseteq Nat
  BY OrderlyParts, CatchSessionAssumption DEF Dev
<1>1. ~Downloading /\ \A d \in Dev : ~Pending(d) /\ ~Writes(ev[d])
  BY RestIsRest DEF Settled
<1>2. Idle
  BY <1>1, OrderlyParts DEF Pass
<1>3. /\ Downloading' /\ \A e \in Dev : e # 0 => cmds'[e] = cmds[e]
      /\ NoStart => NoStart'
  BY <1>0, Asking
<1>4. /\ \A e \in Dev : confirmed'[index][e] = dev[e].rec
      /\ \A i \in 0..MaxIndex : i # index => confirmed'[i] = confirmed[i]
  BY <1>0 DEF Rows
<1>5. \A d \in Dev : Unserved(d)'
  <2>1. \A d \in Dev : files[index][d] = None
    BY <1>2 DEF Idle, NoFiles
  <2>2. \A d \in Dev : dev[d].phase = "waiting"
    BY DEF Settled
  <2> QED BY <1>4, <2>1, <2>2 DEF Unserved
<1>6. NoStart'
  BY <1>3 DEF Settled, NoStart
<1>7. \A d \in Dev : d > 0 => ~Pending(d)'
  BY <1>1, <1>3 DEF Pending
<1>8. ~Ends(ev[0])'
  BY <1>0, <1>1 DEF Pending
<1>9. Pass(0)'
  BY <1>0, <1>3, <1>5, <1>6, <1>7, <1>8 DEF Pass
<1>10. Fresh' /\ IndexIsACatch' /\ Ordered'
  BY <1>0, <1>4 DEF Fresh, IndexIsACatch, Ordered
<1> QED BY <1>0, <1>9, <1>10 DEF Orderly

\* A recording is filed under the index of its catch.
LEMMA WriteKeeps ==
    ASSUME TypeOK, Orderly, Undisturbed, NEW d \in Dev, writeTypeToLogFil(d)
    PROVE  Orderly' /\ files[index][d] = None
<1>0. /\ Ordered /\ (Idle \/ \E k \in Dev : Pass(k)) /\ Fresh /\ IndexIsACatch
      /\ index \in 0..MaxIndex /\ files \in Rows /\ Dev \subseteq Nat
  BY OrderlyParts
<1>1. /\ UNCHANGED <<cc, index, cmds, dev, ticking, confirmed, erred>>
      /\ Handles(d, "WRITE")
      /\ files' = [files EXCEPT ![index][d] = Head(ev[d]).rec]
  BY DEF writeTypeToLogFil, device, ghosts
<1>2. /\ ev[d] \in Seq(Event) /\ ev[d] # <<>> /\ Head(ev[d]).op = "WRITE" /\ Head(ev[d]) = ev[d][1]
      /\ ev'[d] = Tail(ev[d]) /\ \A e \in Dev : e # d => ev'[e] = ev[e]
      /\ 1 \in DOMAIN ev[d]
  BY <1>1, Handled, TailAt
<1>3. /\ Writes(ev[d]) /\ Ends(ev'[d]) /\ ~Writes(ev'[d]) /\ InOrder(ev'[d])
  BY <1>0, <1>2, TailOfWrite DEF Ordered
<1>4. Ends(ev[d]) /\ Pending(d)
  BY <1>0, <1>3 DEF Ordered, InOrder, Pending
<1>5. PICK k \in Dev : Pass(k)
  BY <1>0, <1>3 DEF Idle
<1>6. d = k /\ Serving(k)
  <2>1. ~(d < k) /\ ~(d > k)
    BY <1>3, <1>4, <1>5 DEF Pass, WasServed
  <2>2. d = k
    BY <1>0, <2>1
  <2> QED BY <1>3, <1>4, <1>5, <2>2 DEF Pass, WasServed
<1>7. files[index][d] = None /\ Head(ev[d]).rec = confirmed[index][d] /\ dev[d].phase = "stopped"
  BY <1>2, <1>6 DEF Serving, Carries
<1>8. /\ files'[index][d] = confirmed[index][d]
      /\ \A e \in Dev : e # d => files'[index][e] = files[index][e]
      /\ \A i \in 0..MaxIndex : i # index => files'[i] = files[i]
  BY <1>0, <1>1, <1>7 DEF Rows
<1>9. Ordered'
  BY <1>0, <1>2, <1>3 DEF Ordered
<1>10. Pass(k)'
  <2>1. WasServed(k)'
    BY <1>1, <1>3, <1>6, <1>7, <1>8 DEF WasServed
  <2>2. \A e \in Dev : e < k => WasServed(e)'
    BY <1>0, <1>1, <1>2, <1>5, <1>6, <1>8 DEF Pass, WasServed
  <2>3. \A e \in Dev : e > k => Unserved(e)' /\ ~Pending(e)'
    <3>1. ASSUME NEW e \in Dev, e > k PROVE e # d /\ Unserved(e) /\ ~Pending(e)
      BY <1>0, <1>5, <1>6, <3>1 DEF Pass
    <3> QED BY <1>1, <1>2, <1>8, <3>1 DEF Unserved, Pending
  <2> QED BY <1>1, <1>5, <2>1, <2>2, <2>3 DEF Pass, NoStart, Downloading
<1>11. Fresh' /\ IndexIsACatch'
  BY <1>0, <1>1, <1>8 DEF Fresh, IndexIsACatch, Undisturbed
<1> QED BY <1>7, <1>9, <1>10, <1>11 DEF Orderly

\* The end of a download: the next device is asked, or the index goes on.
LEMMA FinishedKeeps ==
    ASSUME TypeOK, Orderly, Undisturbed, ~erred', NEW d \in Dev, onDownloadOfDeviceXfinished(d)
    PROVE  Orderly'
<1>0. /\ Ordered /\ (Idle \/ \E k \in Dev : Pass(k)) /\ Fresh /\ IndexIsACatch
      /\ index \in 0..MaxIndex /\ files \in Rows /\ confirmed \in Rows /\ Dev \subseteq Nat
  BY OrderlyParts
<1>1. PICK success \in BOOLEAN :
         /\ Handles(d, IF success THEN "DONE" ELSE "FAILED")
         /\ erred' = (erred \/ ~success)
         /\ \/ d + 1 < N /\ startDownloadOfDevX(cc, d + 1) /\ UNCHANGED index
            \/ /\ d + 1 = N
               /\ cc' = [cc EXCEPT !.timer = FALSE, !.state = "NOT_RUNNING"]
               /\ index < MaxIndex /\ index' = index + 1
               /\ UNCHANGED cmds
  BY Zenon DEF onDownloadOfDeviceXfinished
<1>2. UNCHANGED <<files, dev, ticking, confirmed>>
  BY DEF onDownloadOfDeviceXfinished, device, ghosts
<1>3. Handles(d, "DONE")
  BY <1>1
<1>4. /\ ev[d] \in Seq(Event) /\ ev[d] # <<>> /\ Head(ev[d]).op = "DONE"
      /\ ev'[d] = Tail(ev[d]) /\ \A e \in Dev : e # d => ev'[e] = ev[e]
  BY <1>3, Handled
<1>5. Ends(ev[d]) /\ ~Writes(ev[d]) /\ ~Writes(ev'[d]) /\ InOrder(ev'[d])
  BY <1>0, <1>4, TailOfDone DEF Ordered
<1>6. Ends(ev'[d]) => Ends(ev[d])
  BY <1>5
<1>7. /\ Ordered' /\ Pending(d)
      /\ \A e \in Dev : (Writes(ev[e])' <=> Writes(ev[e])) /\ (Ends(ev[e])' => Ends(ev[e]))
  <2>1. \A e \in Dev : (Writes(ev[e])' <=> Writes(ev[e])) /\ (Ends(ev[e])' => Ends(ev[e]))
    BY <1>4, <1>5
  <2> QED BY <1>0, <1>4, <1>5, <2>1 DEF Ordered, Pending
<1>8. CASE d + 1 < N /\ startDownloadOfDevX(cc, d + 1) /\ UNCHANGED index
  <2>1. d + 1 \in Dev /\ d \in Nat
    BY <1>8, CatchSessionAssumption DEF Dev
  <2>2. /\ Downloading' /\ \A e \in Dev : e # d + 1 => cmds'[e] = cmds[e]
        /\ NoStart => NoStart'
    BY <1>8, <2>1, Asking
  <2>3. \A e \in Dev : e # d + 1 => (Pending(e)' => Pending(e))
    BY <1>2, <1>7, <2>2 DEF Pending
  <2>4. Fresh' /\ IndexIsACatch'
    BY <1>0, <1>2, <1>8 DEF Fresh, IndexIsACatch
  <2>5. ASSUME Idle PROVE Idle'
    <3>1. NoStart' /\ \A e \in Dev : dev'[e].phase = "stopped"
      BY <1>2, <1>7, <2>2, <2>5 DEF Idle
    <3> QED BY <1>2, <1>7, <1>8, <2>5, <3>1 DEF Idle
  <2>6. ASSUME NEW k \in Dev, Pass(k) PROVE \E j \in Dev : Pass(j)'
    <3>1. NoStart'
      BY <2>2, <2>6 DEF Pass
    <3>2. ASSUME NEW e \in Dev
          PROVE  /\ WasServed(e) => WasServed(e)'
                 /\ Unserved(e) => Unserved(e)'
                 /\ e # d /\ Serving(e) => Serving(e)'
      <4>1. WasServed(e) => WasServed(e)'
        BY <1>2, <1>7, <1>8 DEF WasServed
      <4>2. Unserved(e) => Unserved(e)'
        BY <1>2, <1>8 DEF Unserved
      <4>3. e # d /\ Serving(e) => Serving(e)'
        BY <1>2, <1>4, <1>8 DEF Serving
      <4> QED BY <4>1, <4>2, <4>3
    <3>3. ~(d > k)
      BY <1>7, <2>6 DEF Pass
    <3>4. CASE d < k
      <4>1. \A e \in Dev : e < k => WasServed(e)'
        BY <2>6, <3>2 DEF Pass
      <4>2. \A e \in Dev : e > k => Unserved(e)' /\ ~Pending(e)'
        <5>1. \A e \in Dev : e > k => e # d + 1
          BY <1>0, <3>4
        <5> QED BY <2>3, <2>6, <3>2, <5>1 DEF Pass
      <4>3. (Unserved(k)' /\ ~Ends(ev[k])') \/ Serving(k)' \/ WasServed(k)'
        <5>1. d # k
          BY <1>0, <3>4
        <5> QED BY <1>7, <2>6, <3>2, <5>1 DEF Pass
      <4>4. Pass(k)'
        BY <2>2, <3>1, <4>1, <4>2, <4>3 DEF Pass
      <4> QED BY <4>4
    <3>5. CASE d = k
      <4>1. WasServed(d)
        BY <1>5, <2>6, <3>5 DEF Pass, Serving
      <4>2. \A e \in Dev : e < d + 1 => WasServed(e)'
        <5>1. \A e \in Dev : e < d + 1 => e < d \/ e = d
          BY <1>0
        <5> QED BY <2>6, <3>2, <3>5, <4>1, <5>1 DEF Pass
      <4>3. \A e \in Dev : e > d => Unserved(e)'
        BY <2>6, <3>2, <3>5 DEF Pass
      <4>4. \A e \in Dev : e > d + 1 => Unserved(e)' /\ ~Pending(e)'
        <5>1. \A e \in Dev : e > d + 1 => e > d /\ e # d + 1
          BY <1>0
        <5> QED BY <2>3, <2>6, <3>5, <4>3, <5>1 DEF Pass
      <4>5. Unserved(d + 1)' /\ ~Ends(ev[d + 1])'
        <5>1. d + 1 > d
          BY <2>1
        <5>2. ~Ends(ev[d + 1])
          BY <2>1, <2>6, <3>5, <5>1 DEF Pass, Pending
        <5> QED BY <1>7, <2>1, <4>3, <5>1, <5>2
      <4>6. Pass(d + 1)'
        BY <2>2, <3>1, <4>2, <4>4, <4>5 DEF Pass
      <4> QED BY <2>1, <4>6
    <3> QED BY <1>0, <3>3, <3>4, <3>5
  <2>7. (Idle \/ \E k \in Dev : Pass(k))'
    BY <1>0, <2>5, <2>6
  <2> QED BY <1>7, <2>4, <2>7 DEF Orderly
<1>9. CASE /\ d + 1 = N
           /\ cc' = [cc EXCEPT !.timer = FALSE, !.state = "NOT_RUNNING"]
           /\ index < MaxIndex /\ index' = index + 1
           /\ UNCHANGED cmds
  <2>1. files[index'] = NoFiles /\ confirmed[index'] = NoFiles
    BY <1>0, <1>9, CatchSessionAssumption DEF Fresh
  <2>2. /\ files[index] = confirmed[index]
        /\ NoStart /\ \A e \in Dev : dev[e].phase = "stopped" /\ ~Writes(ev[e])
    <3>1. CASE Idle
      BY <1>7, <3>1 DEF Idle
    <3>2. ASSUME NEW k \in Dev, Pass(k)
          PROVE  /\ files[index] = confirmed[index]
                 /\ NoStart /\ \A e \in Dev : dev[e].phase = "stopped" /\ ~Writes(ev[e])
      <4>1. k = d
        <5>1. ~(d > k)
          BY <1>7, <3>2 DEF Pass
        <5>2. ~(k > d)
          BY <1>9, CatchSessionAssumption DEF Dev
        <5> QED BY <1>0, <5>1, <5>2
      <4>2. WasServed(d)
        BY <1>5, <3>2, <4>1 DEF Pass, Serving
      <4>3. \A e \in Dev : e < d \/ e = d
        BY <1>9, CatchSessionAssumption DEF Dev
      <4>4. \A e \in Dev : WasServed(e)
        BY <3>2, <4>1, <4>2, <4>3 DEF Pass
      <4>5. \A e \in Dev : files[index][e] = confirmed[index][e]
        BY <4>4 DEF WasServed
      <4>6. files[index] = confirmed[index]
        <5>1. files[index] \in [Dev -> Rec \cup {None}] /\ confirmed[index] \in [Dev -> Rec \cup {None}]
          BY <1>0 DEF Rows
        <5> QED BY <4>5, <5>1
      <4> QED BY <3>2, <4>4, <4>6 DEF Pass, WasServed
    <3> QED BY <1>0, <3>1, <3>2
  <2>3. Idle'
    BY <1>2, <1>7, <1>9, <2>1, <2>2 DEF Idle, NoStart
  <2>4. Fresh'
    BY <1>0, <1>2, <1>9 DEF Fresh
  <2>5. IndexIsACatch'
    BY <1>0, <1>2, <1>9, <2>2 DEF IndexIsACatch
  <2> QED BY <1>7, <2>3, <2>4, <2>5 DEF Orderly
<1> QED BY <1>1, <1>8, <1>9

\* Fewer requests under way, and nothing else.
LEMMA FewerKeep ==
    ASSUME TypeOK, Orderly, Undisturbed,
           UNCHANGED <<cc, ev, dev, index, files, confirmed, erred>>,
           \A d \in Dev : cmds'[d] \subseteq cmds[d] /\ (Pending(d)' => Pending(d))
    PROVE  Orderly'
<1>0. Ordered /\ (Idle \/ \E k \in Dev : Pass(k)) /\ Fresh /\ IndexIsACatch
  BY OrderlyParts
<1>1. NoStart => NoStart'
  BY DEF NoStart
<1>2. Idle => Idle'
  BY <1>1 DEF Idle
<1>3. ASSUME NEW k \in Dev, Pass(k) PROVE Pass(k)'
  <2>1. \A d \in Dev : /\ WasServed(d) => WasServed(d)'
                       /\ Unserved(d) => Unserved(d)'
                       /\ Serving(d) => Serving(d)'
    BY DEF WasServed, Unserved, Serving
  <2>2. Downloading' /\ (Ends(ev[k])' <=> Ends(ev[k]))
    BY <1>3 DEF Pass, Downloading
  <2> QED BY <1>1, <1>3, <2>1, <2>2 DEF Pass
<1>4. Fresh' /\ IndexIsACatch' /\ Ordered'
  BY <1>0 DEF Fresh, IndexIsACatch, Ordered, Undisturbed
<1> QED BY <1>0, <1>2, <1>3, <1>4 DEF Orderly

\* A device that has been asked hands its recording over if it has one, on the
\* request, on its repetition or late.
LEMMA ServeKeeps ==
    ASSUME TypeOK, HasRecording, Orderly, Undisturbed, NEW d \in Dev, Serves(d),
           UNCHANGED <<cc, index, files, confirmed, erred>>,
           Plain("REQUEST") \in cmds[d] \/ d \in ticking,
           ticking' \subseteq ticking,
           \A e \in Dev : cmds'[e] \subseteq cmds[e]
    PROVE  Orderly'
<1>0. /\ Ordered /\ (Idle \/ \E k \in Dev : Pass(k)) /\ Fresh /\ IndexIsACatch
      /\ dev \in [Dev -> Wearable] /\ Dev \subseteq Nat /\ ev[d] \in Seq(Event)
      /\ confirmed[index][d] \in Rec \cup {None}
  BY OrderlyParts, ToParts
<1>1. Pending(d) /\ (NoStart => NoStart') /\ InOrder(ev[d])
  BY <1>0 DEF Pending, NoStart, Ordered
<1>2. Fresh' /\ IndexIsACatch'
  BY <1>0 DEF Fresh, IndexIsACatch, Undisturbed
<1>3. ASSUME dev[d].phase # "waiting"
      PROVE  /\ dev' = dev /\ \A e \in Dev : e # d => ev'[e] = ev[e]
             /\ InOrder(ev'[d])
             /\ Writes(ev'[d]) <=> Writes(ev[d])
             /\ Carries(ev[d], confirmed[index][d]) => Carries(ev'[d], confirmed[index][d])
  <2>1. Emits(d, <<Plain("DONE")>>) /\ dev' = dev
    BY <1>3, Served
  <2>2. ev'[d] = ev[d] \o <<Plain("DONE")>> /\ \A e \in Dev : e # d => ev'[e] = ev[e]
    BY <2>1, OneEvent, Emitted
  <2>3. /\ InOrder(ev'[d])
        /\ Writes(ev'[d]) <=> Writes(ev[d])
        /\ \A r \in Rec \cup {None} : Carries(ev[d], r) => Carries(ev'[d], r)
    BY <1>0, <1>1, <2>2, OneMoreEnd
  <2> QED BY <1>0, <2>1, <2>2, <2>3
<1>4. ASSUME Idle PROVE Orderly'
  <2>1. NoStart /\ \A e \in Dev : dev[e].phase = "stopped"
    BY <1>1, <1>4 DEF Idle
  <2>2. /\ dev' = dev /\ \A e \in Dev : e # d => ev'[e] = ev[e]
        /\ InOrder(ev'[d])
        /\ Writes(ev'[d]) <=> Writes(ev[d])
    BY <1>3, <2>1
  <2>3. Ordered'
    BY <1>0, <2>2 DEF Ordered
  <2>4. Idle'
    <3>1. \A e \in Dev : ~Writes(ev'[e])
      BY <1>4, <2>2 DEF Idle
    <3> QED BY <1>1, <1>4, <2>1, <2>2, <3>1 DEF Idle
  <2> QED BY <1>2, <2>3, <2>4 DEF Orderly
<1>5. ASSUME NEW k \in Dev, Pass(k) PROVE Orderly'
  <2>1. ~(d > k) /\ NoStart' /\ Downloading'
    BY <1>1, <1>5 DEF Pass, Downloading
  <2>2. ASSUME \A e \in Dev : e # d => ev'[e] = ev[e] /\ dev'[e] = dev[e],
               InOrder(ev'[d]),
               d < k => WasServed(d)',
               d = k => Serving(d)' \/ WasServed(d)'
        PROVE  Orderly'
    <3>1. Ordered'
      BY <1>0, <2>2 DEF Ordered
    <3>2. ASSUME NEW e \in Dev, e # d
          PROVE  /\ WasServed(e) => WasServed(e)'
                 /\ Unserved(e) => Unserved(e)'
                 /\ Serving(e) => Serving(e)'
                 /\ Ends(ev[e])' <=> Ends(ev[e])
                 /\ Pending(e)' => Pending(e)
      <4>1. ev'[e] = ev[e] /\ dev'[e] = dev[e]
        BY <2>2, <3>2
      <4> QED BY <4>1 DEF WasServed, Unserved, Serving, Pending
    <3>3. \A e \in Dev : e < k => WasServed(e)'
      BY <1>5, <2>2, <3>2 DEF Pass
    <3>4. \A e \in Dev : e > k => Unserved(e)' /\ ~Pending(e)'
      <4>1. \A e \in Dev : e > k => e # d
        BY <2>1
      <4> QED BY <1>5, <3>2, <4>1 DEF Pass
    <3>5. (Unserved(k)' /\ ~Ends(ev[k])') \/ Serving(k)' \/ WasServed(k)'
      <4>1. CASE d = k
        BY <2>2, <4>1
      <4>2. CASE d # k
        BY <1>5, <3>2, <4>2 DEF Pass
      <4> QED BY <4>1, <4>2
    <3>6. Pass(k)'
      BY <2>1, <3>3, <3>4, <3>5 DEF Pass
    <3> QED BY <1>2, <3>1, <3>6 DEF Orderly
  <2>3. CASE dev[d].phase # "waiting"
    <3>1. /\ dev' = dev /\ \A e \in Dev : e # d => ev'[e] = ev[e]
          /\ InOrder(ev'[d])
          /\ Writes(ev'[d]) <=> Writes(ev[d])
          /\ Carries(ev[d], confirmed[index][d]) => Carries(ev'[d], confirmed[index][d])
      BY <1>3, <2>3
    <3>2. WasServed(d) => WasServed(d)'
      BY <3>1 DEF WasServed
    <3>3. Serving(d) => Serving(d)'
      BY <3>1 DEF Serving
    <3>4. d < k => WasServed(d)
      BY <1>5 DEF Pass
    <3>5. d = k => Serving(d) \/ WasServed(d)
      BY <1>5, <2>3 DEF Pass, Unserved
    <3> QED BY <2>2, <3>1, <3>2, <3>3, <3>4, <3>5
  <2>4. CASE dev[d].phase = "waiting"
    <3>1. d = k
      <4>1. ~(d < k)
        BY <1>5, <2>4 DEF Pass, WasServed
      <4> QED BY <1>0, <2>1, <4>1
    <3>2. Unserved(d) /\ ~Ends(ev[d])
      BY <1>5, <2>4, <3>1 DEF Pass, Serving, WasServed
    <3>3. Emits(d, <<Handed(d), Plain("DONE")>>) /\ dev' = [dev EXCEPT ![d] = Fallow]
      BY <2>4, Served
    <3>4. Handed(d) \in Event /\ Handed(d).op = "WRITE" /\ Handed(d).rec = confirmed[index][d]
      BY <2>4, <3>2, Kinds DEF HasRecording, Handed, Unserved
    <3>5. /\ ev'[d] = ev[d] \o <<Handed(d), Plain("DONE")>>
          /\ \A e \in Dev : e # d => ev'[e] = ev[e]
      <4>1. Plain("DONE") \in Event
        BY Kinds
      <4>2. <<Handed(d), Plain("DONE")>> \in Seq(Event)
        BY <3>4, <4>1
      <4> QED BY <3>3, <4>2, Emitted
    <3>6. /\ Writes(ev'[d]) /\ InOrder(ev'[d])
          /\ Carries(ev'[d], confirmed[index][d])
      BY <1>0, <1>1, <3>2, <3>4, <3>5, HandOver
    <3>7. /\ dev'[d].phase = "stopped"
          /\ \A e \in Dev : e # d => dev'[e] = dev[e]
      BY <1>0, <3>3 DEF Fallow
    <3>8. Serving(d)'
      BY <3>2, <3>6, <3>7 DEF Serving, Unserved
    <3>9. ~(d < k) /\ \A e \in Dev : e # d => ev'[e] = ev[e] /\ dev'[e] = dev[e]
      BY <1>0, <3>1, <3>5, <3>7
    <3>10. Serving(d)' \/ WasServed(d)'
      BY <3>8
    <3> QED BY <2>2, <3>6, <3>9, <3>10
  <2> QED BY <2>3, <2>4
<1> QED BY <1>0, <1>4, <1>5

\* A request that goes unanswered takes nothing from the device.
LEMMA LostKeeps ==
    ASSUME TypeOK, Orderly, Undisturbed, NEW d \in Dev, RequestIsLost(d)
    PROVE  Orderly'
<1>1. /\ UNCHANGED <<cc, ev, dev, index, files, confirmed, erred>>
      /\ Plain("REQUEST") \in cmds[d]
      /\ cmds' = [cmds EXCEPT ![d] = @ \ {Plain("REQUEST")}]
      /\ ticking' \in {ticking, ticking \cup {d}}
  BY DEF RequestIsLost, outcome
<1>2. \A e \in Dev : cmds'[e] \subseteq cmds[e]
  BY <1>1, ToParts
<1>3. ASSUME NEW e \in Dev, Pending(e)' PROVE Pending(e)
  <2>1. CASE e = d
    BY <1>1, <2>1 DEF Pending
  <2>2. CASE e # d
    BY <1>1, <1>2, <1>3, <2>2 DEF Pending
  <2> QED BY <2>1, <2>2
<1> QED BY <1>1, <1>2, <1>3, FewerKeep

-----------------------------------------------------------------------------

LEMMA OrderlyInit == Init => Orderly
<1> SUFFICES ASSUME Init PROVE Ordered /\ Idle /\ Fresh /\ IndexIsACatch
  BY DEF Orderly
<1>1. index = 0
  BY DEF Init
<1>2. \A d \in Dev : cmds[d] = {} /\ ev[d] = <<>> /\ d \notin ticking
  BY DEF Init
<1>3. \A d \in Dev : ~Writes(ev[d]) /\ ~Pending(d) /\ InOrder(ev[d])
  BY <1>2 DEF Writes, Pending, Ends, InOrder
<1>4. /\ files = [i \in 0..MaxIndex |-> NoFiles] /\ confirmed = [i \in 0..MaxIndex |-> NoFiles]
      /\ 0 \in 0..MaxIndex
  BY CatchSessionAssumption DEF Init
<1>5. Idle
  BY <1>1, <1>3, <1>4 DEF Idle
<1>6. Fresh
  BY <1>4 DEF Fresh
<1>7. IndexIsACatch
  BY <1>1 DEF IndexIsACatch
<1> QED BY <1>3, <1>5, <1>6, <1>7 DEF Ordered

LEMMA OrderlyNext ==
    ASSUME TypeOK, HasRecording, Orderly, [Next]_vars PROVE Orderly'
<1> SUFFICES ASSUME Undisturbed' PROVE Orderly'
  BY DEF Orderly
<1>1. erred => erred'
  <2>1. ASSUME NEW d \in Dev, MainThread(d) PROVE erred => erred'
    BY <2>1, Zenon DEF MainThread, onRequestDispatchToOtherDevices, onSensorDataAvailableArrived,
              writeTypeToLogFil, onDownloadOfDeviceXfinished, outcome
  <2>2. sendStartToAllDevices \/ sendStopToAllDevices => (erred => erred')
    BY Zenon DEF sendStartToAllDevices, sendStopToAllDevices, outcome
  <2>3. onDownloadTimerExpired => erred'
    BY DEF onDownloadTimerExpired
  <2>4. ASSUME NEW answer, onCatchSuccessConfirmed(answer) PROVE erred' = erred
    BY <2>4, Zenon DEF onCatchSuccessConfirmed
  <2>5. ASSUME NEW d \in Dev,
               \/ TriggersItself(d) \/ Announces(d) \/ RequestArrives(d) \/ RequestIsLost(d)
               \/ CmdTimerTicks(d) \/ LateAnswer(d)
        PROVE  erred' = erred
    BY <2>5, Zenon DEF TriggersItself, Announces, RequestArrives, RequestIsLost, CmdTimerTicks,
                       LateAnswer, outcome
  <2>6. ASSUME NEW d \in Dev, NEW op, Hears(d, op) PROVE erred' = erred
    BY <2>6, Zenon DEF Hears, outcome
  <2>7. UNCHANGED vars => erred' = erred
    BY DEF vars
  <2> QED BY <2>1, <2>2, <2>3, <2>4, <2>5, <2>6, <2>7, Zenon DEF Next
<1>2. Undisturbed /\ ~erred'
  BY <1>1 DEF Undisturbed
<1>3. Quiet => Orderly'
  BY <1>2, QuietKeeps
<1>4. CASE UNCHANGED vars
  <2>1. Quiet
    BY <1>4, QuietEvents DEF vars
  <2> QED BY <1>3, <2>1
<1>5. sendStartToAllDevices \/ sendStopToAllDevices => Orderly'
  BY <1>2, <1>3, StartQuiet, StopQuiet
<1>6. ~onDownloadTimerExpired
  BY <1>2 DEF onDownloadTimerExpired
<1>7. ASSUME NEW answer \in {"CATCH", "DROP", "FLOP"}, onCatchSuccessConfirmed(answer) PROVE Orderly'
  <2>1. /\ UNCHANGED <<files, ev, dev, ticking>>
        /\ \/ /\ UserWaits => ~Downloading
              /\ index < MaxIndex /\ index' = index + 1
              /\ UNCHANGED <<cc, cmds, confirmed>>
           \/ /\ UserWaits => Settled
              /\ startDownloadOfDevX(cc, 0)
              /\ confirmed' = [confirmed EXCEPT ![index] = [d \in Dev |-> dev[d].rec]]
              /\ UNCHANGED index
           \/ UNCHANGED <<cc, cmds, index, confirmed>>
    BY <1>7, Zenon DEF onCatchSuccessConfirmed, device, Downloading
  <2>2. CASE /\ UserWaits => ~Downloading
             /\ index < MaxIndex /\ index' = index + 1
             /\ UNCHANGED <<cc, cmds, confirmed>>
    BY <1>2, <2>1, <2>2, FlopKeeps DEF Undisturbed
  <2>3. CASE /\ UserWaits => Settled
             /\ startDownloadOfDevX(cc, 0)
             /\ confirmed' = [confirmed EXCEPT ![index] = [d \in Dev |-> dev[d].rec]]
             /\ UNCHANGED index
    BY <1>2, <2>1, <2>3, CatchKeeps DEF Undisturbed
  <2>4. CASE UNCHANGED <<cc, cmds, index, confirmed>>
    <3>1. Quiet
      BY <2>1, <2>4, QuietEvents
    <3> QED BY <1>3, <3>1
  <2> QED BY <2>1, <2>2, <2>3, <2>4
<1>8. ASSUME NEW d \in Dev, MainThread(d) PROVE Orderly'
  BY <1>2, <1>3, <1>8, TriggerQuiet, AvailableQuiet, WriteKeeps, FinishedKeeps DEF MainThread
<1>9. ASSUME NEW d \in Dev, TriggersItself(d) \/ Announces(d) \/ CmdTimerTicks(d) PROVE Orderly'
  BY <1>3, <1>9, SelfQuiet, AnnounceQuiet, TickQuiet
<1>10. ASSUME NEW d \in Dev, NEW op \in {"START", "STOP", "TRIGGER", "OK"}, Hears(d, op) PROVE Orderly'
  BY <1>2, <1>3, <1>10, HearQuiet
<1>11. ASSUME NEW d \in Dev, RequestIsLost(d) PROVE Orderly'
  BY <1>2, <1>11, LostKeeps
<1>12. ASSUME NEW d \in Dev, RequestArrives(d) \/ LateAnswer(d) PROVE Orderly'
  <2>1. /\ Serves(d) /\ UNCHANGED <<cc, index, files, confirmed, erred>>
        /\ Plain("REQUEST") \in cmds[d] \/ d \in ticking
        /\ ticking' = ticking \/ ticking' = ticking \ {d}
        /\ cmds' = cmds \/ cmds' = [cmds EXCEPT ![d] = @ \ {Plain("REQUEST")}]
    BY <1>12, Zenon DEF RequestArrives, LateAnswer, outcome
  <2>2. ticking' \subseteq ticking
    BY <2>1
  <2>3. \A e \in Dev : cmds'[e] \subseteq cmds[e]
    <3>1. cmds \in [Dev -> SUBSET Cmd]
      BY ToParts
    <3> QED BY <2>1, <3>1
  <2> QED BY <1>2, <2>1, <2>2, <2>3, ServeKeeps
<1> QED BY <1>4, <1>5, <1>6, <1>7, <1>8, <1>9, <1>10, <1>11, <1>12, Zenon DEF Next

LEMMA Invariance == Spec => []Inv
<1>1. Init => Inv
  BY TypeInit, OrderlyInit DEF Inv
<1>2. Inv /\ [Next]_vars => Inv'
  BY TypeNext, RecordingNext, OrderlyNext DEF Inv
<1> QED BY <1>1, <1>2, PTL DEF Spec

\* The files of a finished index are the recordings that were held when the
\* user confirmed that catch.
THEOREM IndexIsACatchHolds == Spec => []IndexIsACatch
<1>1. Inv => IndexIsACatch
  BY DEF Inv, Orderly, IndexIsACatch
<1> QED BY <1>1, Invariance, PTL

\* At most one device has its recording under way, or may still hand it over.
THEOREM OneAtATimeHolds == Spec => []OneAtATime
<1>1. Inv => OneAtATime
  <2> SUFFICES ASSUME Inv, Undisturbed PROVE Cardinality({d \in Dev : HandsOver(d)}) <= 1
    BY DEF OneAtATime
  <2>1. Ordered /\ (Idle \/ \E k \in Dev : Pass(k)) /\ Dev \subseteq Nat
    BY OrderlyParts DEF Inv
  <2>2. \A d \in Dev : HandsOver(d) => Writes(ev[d]) \/ (dev[d].phase = "waiting" /\ Pending(d))
    BY DEF HandsOver, Writes, Pending
  <2>3. ASSUME NEW k \in Dev, \A d \in Dev : HandsOver(d) => d = k
        PROVE  Cardinality({d \in Dev : HandsOver(d)}) <= 1
    <3>1. {d \in Dev : HandsOver(d)} \subseteq {k}
      BY <2>3
    <3>2. IsFiniteSet({k}) /\ Cardinality({k}) = 1
      BY FS_Singleton
    <3>3. Cardinality({d \in Dev : HandsOver(d)}) <= Cardinality({k})
      BY <3>1, <3>2, FS_Subset
    <3> QED BY <3>2, <3>3
  <2>4. CASE Idle
    <3>1. \A d \in Dev : ~HandsOver(d)
      BY <2>2, <2>4 DEF Idle
    <3>2. 0 \in Dev
      BY CatchSessionAssumption DEF Dev
    <3> QED BY <2>3, <3>1, <3>2
  <2>5. ASSUME NEW k \in Dev, Pass(k)
        PROVE  Cardinality({d \in Dev : HandsOver(d)}) <= 1
    <3>1. ASSUME NEW d \in Dev, HandsOver(d) PROVE d = k
      <4>1. Writes(ev[d]) => Pending(d)
        BY <2>1 DEF Ordered, InOrder, Pending
      <4>2. ~(d < k)
        BY <2>2, <2>5, <3>1 DEF Pass, WasServed
      <4>3. ~(d > k)
        BY <2>2, <2>5, <3>1, <4>1 DEF Pass
      <4> QED BY <2>1, <4>2, <4>3
    <3> QED BY <2>3, <3>1
  <2> QED BY <2>1, <2>4, <2>5
<1> QED BY <1>1, Invariance, PTL

\* No file of a catch is overwritten before the user has been told of an error.
THEOREM KeptUnlessToldHolds == Spec => KeptUnlessTold
<1>1. ASSUME Inv, [Next]_vars
      PROVE  \A i \in 0..MaxIndex, d \in Dev :
                Undisturbed /\ files[i][d] # None => files'[i][d] = files[i][d]
  <2>1. CASE files' = files
    BY <2>1
  <2>2. ASSUME NEW e \in Dev, writeTypeToLogFil(e), Undisturbed,
               NEW i \in 0..MaxIndex, NEW d \in Dev, files[i][d] # None
        PROVE  files'[i][d] = files[i][d]
    <3>1. files[index][e] = None
      BY <1>1, <2>2, WriteKeeps DEF Inv
    <3>2. files' = [files EXCEPT ![index][e] = Head(ev[e]).rec] /\ files \in Rows /\ index \in 0..MaxIndex
      BY <1>1, <2>2, ToParts DEF writeTypeToLogFil, Inv, Rows
    <3>3. i # index \/ d # e
      BY <2>2, <3>1
    <3> QED BY <3>2, <3>3 DEF Rows
  <2>3. ASSUME ~\E e \in Dev : writeTypeToLogFil(e) PROVE files' = files
    <3>1. sendStartToAllDevices \/ sendStopToAllDevices \/ onDownloadTimerExpired => files' = files
      BY Zenon DEF sendStartToAllDevices, sendStopToAllDevices, onDownloadTimerExpired, outcome
    <3>2. ASSUME NEW answer, onCatchSuccessConfirmed(answer) PROVE files' = files
      BY <3>2, Zenon DEF onCatchSuccessConfirmed
    <3>3. ASSUME NEW e \in Dev, MainThread(e) PROVE files' = files
      BY <2>3, <3>3, Zenon DEF MainThread, onRequestDispatchToOtherDevices,
                onSensorDataAvailableArrived, onDownloadOfDeviceXfinished, outcome
    <3>4. ASSUME NEW e \in Dev,
                 \/ TriggersItself(e) \/ Announces(e) \/ RequestArrives(e) \/ RequestIsLost(e)
                 \/ CmdTimerTicks(e) \/ LateAnswer(e)
          PROVE  files' = files
      BY <3>4, Zenon DEF TriggersItself, Announces, RequestArrives, RequestIsLost, CmdTimerTicks,
                         LateAnswer, outcome
    <3>5. ASSUME NEW e \in Dev, NEW op, Hears(e, op) PROVE files' = files
      BY <3>5, Zenon DEF Hears, outcome
    <3>6. UNCHANGED vars => files' = files
      BY DEF vars
    <3> QED BY <1>1, <3>1, <3>2, <3>3, <3>4, <3>5, <3>6, Zenon DEF Next
  <2> QED BY <2>1, <2>2, <2>3
<1>2. Inv /\ [Next]_vars
         => [\A i \in 0..MaxIndex, d \in Dev :
                Undisturbed /\ files[i][d] # None => files'[i][d] = files[i][d]]_vars
  BY <1>1
<1> QED BY <1>2, Invariance, PTL DEF Spec, KeptUnlessTold
=============================================================================
