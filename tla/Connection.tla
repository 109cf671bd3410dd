------------------------------ MODULE Connection ------------------------------
(***************************************************************************)
(* From CONNECT to "all devices connected": the interfaces DeviceFinder    *)
(* creates (devicefinder.cpp, deviceinterface.cpp), the set-up of a        *)
(* connection by its DeviceController (devicecontroller.cpp), and what     *)
(* CatchController makes of devices that come, go and change their state.  *)
(*                                                                         *)
(* The interfaces and CatchController live in the main thread; each        *)
(* DeviceController lives in a thread of its own and is heard of through   *)
(* queued signals.  QLowEnergyController and the devices are external.     *)
(***************************************************************************)
EXTENDS Integers, Sequences

CONSTANTS
    States,     \* the main states a device reports: 16 bits
    Unshown,    \* m_devicesMainState before a first change
    Garbage,    \* what m_connectionAlive may hold before it is set
    MaxPress,   \* bound: presses of CONNECT
    MaxList,    \* bound: m_device_list
    MaxEvents   \* bound: signals of one controller under way

ASSUME ConnectionAssumption ==
    /\ \A s \in States : s \in Nat /\ s < 2 ^ 16
    /\ Unshown \notin States
    /\ Garbage \subseteq BOOLEAN
    /\ {MaxPress, MaxList, MaxEvents} \subseteq Nat

VARIABLES
    list,       \* m_device_list: each with m_connectionAlive, the main state of the
                \* last alive message and, a ghost, what m_connectionAlive held
                \* before anything set it
    link,       \* the connection of each DeviceController in the list
    ev,         \* the signals of each controller, oldest first
    connected,  \* m_devicesConnected
    shown,      \* m_devicesMainState
    presses,
    changed,    \* ghost: a device has reported a change of its state
    lost        \* ghost: devices in the list whose loss has been handled

verdict == <<connected, shown, changed, lost>>
vars == <<presses, list, link, ev, verdict>>

Index == DOMAIN list
Alive(b) == [kind |-> "ALIVE", alive |-> b]
MainState(s) == [kind |-> "STATE", state |-> s]

TypeOK ==
    /\ {connected, changed} \subseteq BOOLEAN
    /\ list \in Seq([alive : BOOLEAN, last : States, atFirst : BOOLEAN])
    /\ DOMAIN link = Index /\ DOMAIN ev = Index
    /\ \A i \in Index :
          /\ link[i] \in {"connecting", "discovering", "details", "up", "stuck", "down"}
          /\ ev[i] \in Seq([kind : {"ALIVE"}, alive : BOOLEAN] \cup [kind : {"STATE"}, state : States])
    /\ shown \in States \cup {Unshown}
    /\ presses \in 0..MaxPress
    /\ lost \subseteq Index

Init ==
    /\ list = <<>>
    /\ link = <<>>
    /\ ev = <<>>
    /\ connected = FALSE
    /\ shown = Unshown
    /\ presses = 0
    /\ changed = FALSE
    /\ lost = {}

-----------------------------------------------------------------------------
(* DeviceFinder *)

\* connectToSelectedDevices: interfaces are appended for the devices selected
\* (DeviceFinder: at most two), and their controllers told to initialise.
\* m_connectionAlive and the last alive message have no initial value.
connectToSelectedDevices ==
    /\ presses < MaxPress
    /\ presses' = presses + 1
    /\ \E n \in 0..2 : \E alive \in [1..n -> Garbage], last \in [1..n -> States] :
          /\ Len(list) + n <= MaxList
          /\ list' = list \o [k \in 1..n |-> [alive |-> alive[k], last |-> last[k],
                                           atFirst |-> alive[k]]]
          /\ link' = link \o [k \in 1..n |-> "connecting"]
          /\ ev' = ev \o [k \in 1..n |-> <<>>]
    /\ UNCHANGED verdict

-----------------------------------------------------------------------------
(* DeviceController: the set-up of a connection *)

Goes(i, from, to) ==
    /\ link[i] = from
    /\ link' = [link EXCEPT ![i] = to]
    /\ UNCHANGED <<presses, list, verdict>>

\* After initializeDevice and connectToPeripheral.  An error of the connection is
\* logged and has no other effect: the link stays as it is.
onConnected(i) == Goes(i, "connecting", "discovering") /\ UNCHANGED ev

\* The connection is valid if both characteristics are there, which is told once
\* in the life of the controller; otherwise there is no way on.
searchCharacteristic(i, phase) ==
    \/ Goes(i, phase, "stuck") /\ UNCHANGED ev
    \/ Goes(i, phase, "up") /\ ev' = [ev EXCEPT ![i] = Append(@, Alive(TRUE))]

\* serviceScanDone, updateCurrentService: without the service of the BLE UART
\* there is no way on either.
serviceScanDone(i) ==
    \/ \E to \in {"stuck", "details"} : Goes(i, "discovering", to) /\ UNCHANGED ev
    \/ searchCharacteristic(i, "discovering")

serviceStateChanged(i) == searchCharacteristic(i, "details")

\* There is no second attempt.
onDisconnected(i) ==
    /\ \E from \in {"discovering", "details", "up", "stuck"} : Goes(i, from, "down")
    /\ ev' = [ev EXCEPT ![i] = Append(@, Alive(FALSE))]

\* bleUartRx: an ALIVE message with the main state of the device.
bleUartRx(i) ==
    /\ link[i] = "up"
    /\ Len(ev[i]) < MaxEvents
    /\ \E s \in States : ev' = [ev EXCEPT ![i] = Append(@, MainState(s))]
    /\ UNCHANGED <<presses, list, link, verdict>>

-----------------------------------------------------------------------------
(* The main thread *)

Takes(i, event) ==
    /\ ev[i] # <<>>
    /\ Head(ev[i]) = event
    /\ ev' = [ev EXCEPT ![i] = Tail(@)]

\* Fault: the device that reports is looked at, the others are not.
AliveAlone(i, isItAlive) ==
    /\ Takes(i, Alive(isItAlive))
    /\ list' = [list EXCEPT ![i].alive = isItAlive]
    /\ connected' = isItAlive
    /\ lost' = IF isItAlive THEN lost ELSE lost \cup {i}
    /\ UNCHANGED <<presses, link, shown, changed>>

\* Fault: what is shown is looked at before the device is entered.
AliveTooLate(i, isItAlive) ==
    /\ Takes(i, Alive(isItAlive))
    /\ list' = [list EXCEPT ![i].alive = isItAlive]
    /\ connected' = (isItAlive /\ (connected \/ \A j \in Index : list[j].alive))
    /\ lost' = IF isItAlive THEN lost ELSE lost \cup {i}
    /\ UNCHANGED <<presses, link, shown, changed>>

\* Fault: a loss is shown and not entered.
LossForgotten(i, isItAlive) ==
    /\ Takes(i, Alive(isItAlive))
    /\ list' = [list EXCEPT ![i].alive = @ \/ isItAlive]
    /\ connected' = (isItAlive /\ (connected \/ \A j \in Index : list'[j].alive))
    /\ lost' = IF isItAlive THEN lost ELSE lost \cup {i}
    /\ UNCHANGED <<presses, link, shown, changed>>

\* CatchController, then the interface itself, which enters it once more.
onConnAliveOfDevXChanged(i, isItAlive) ==
    /\ Takes(i, Alive(isItAlive))
    /\ list' = [list EXCEPT ![i].alive = isItAlive]
    /\ connected' = (isItAlive /\ (connected \/ \A j \in Index : list'[j].alive))
    /\ lost' = IF isItAlive THEN lost ELSE lost \cup {i}
    /\ UNCHANGED <<presses, link, shown, changed>>

\* getLastMainState returns 8 bits of the 16.
getLastMainState(d) == d.last % 256

\* Fault: the device itself is compared too, and has not been entered yet.
ShownIfBefore(i, s) ==
    IF \A j \in Index : getLastMainState(list[j]) = s THEN s ELSE shown

\* onMainStateOfDevXChanged: it is shown if all other devices are in it too.
MainStateChanged(i, s) ==
    IF \A j \in Index \ {i} : getLastMainState(list[j]) = s THEN s ELSE shown

onAliveArrived(i, s) ==
    /\ Takes(i, MainState(s))
    /\ list' = [list EXCEPT ![i].last = s]
    /\ changed' = (changed \/ list[i].last # s)
    /\ shown' = IF list[i].last # s THEN MainStateChanged(i, s) ELSE shown
    /\ UNCHANGED <<presses, link, connected, lost>>

MainThread(i) ==
    \/ \E b \in BOOLEAN : onConnAliveOfDevXChanged(i, b)
    \/ \E s \in States : onAliveArrived(i, s)

Next ==
    \/ connectToSelectedDevices
    \/ \E i \in Index :
          \/ onConnected(i)
          \/ serviceScanDone(i)
          \/ serviceStateChanged(i)
          \/ onDisconnected(i)
          \/ bleUartRx(i)
          \/ MainThread(i)

Spec == Init /\ [][Next]_vars

\* The main thread handles what has been queued for it.
FairSpec == Spec /\ \A i \in 1..MaxList : WF_vars(i \in Index /\ MainThread(i))

-----------------------------------------------------------------------------

\* "Connected" comes up when every device in the list has reported itself and no
\* loss has been handled, whatever else is on its way.  A device that has not is
\* taken for connected only if its m_connectionAlive was TRUE before anything set it
\* (the constructors of DeviceInfo do not).
ConnectedMeansAll ==
    [][~connected /\ connected' =>
          /\ lost = {}
          /\ \A i \in Index : link[i] \in {"up", "down"} \/ list[i].atFirst]_vars

\* Once the loss of a device is handled, the devices do not count as connected
\* again: not by another device that comes up late, not by a second CONNECT.
DownStaysDown == lost # {} => ~connected

\* Devices that agree are shown with the state they agree on, in whatever order
\* their messages came, if the state fits into 8 bits or there is one device.
AgreedIsShown ==
    \A s \in States :
       (changed /\ (s < 256 \/ Len(list) = 1) /\ \A i \in Index : list[i].last = s) => shown = s

\* If all devices in the list are up for good, this is noticed.
AllUp == list # <<>> /\ \A i \in Index : link[i] = "up"
UpIsNoticed == <>[]AllUp => <>[]connected
=============================================================================
