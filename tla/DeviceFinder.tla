----------------------------- MODULE DeviceFinder -----------------------------
(***************************************************************************)
(* DeviceFinder (devicefinder.cpp): the search for devices, the selection  *)
(* of at most two of them, and the identifiers LEFT and RIGHT that tell    *)
(* the files of two wearables apart.  It lives in the main thread.         *)
(*                                                                         *)
(* The devices are found in any order: m_foundDevices is a function on     *)
(* those found so far, and the order in the list is any order.             *)
(***************************************************************************)
EXTENDS Integers, FiniteSets

CONSTANTS
    Devices,    \* the devices within reach
    Wearable,   \* those of them whose name is that of a wearable
    None,       \* the identifier of a device that has not been given one
    MaxSearch,  \* bound: searches
    MaxPress    \* bound: presses of CONNECT

ASSUME FinderAssumption ==
    /\ IsFiniteSet(Devices)
    /\ Wearable \subseteq Devices
    /\ None \notin {"LEFT", "RIGHT"}
    /\ {MaxSearch, MaxPress} \subseteq Nat

VARIABLES
    found,      \* m_foundDevices: of each device its identifier, DEVICE_SELECTED and
                \* whether its m_deviceType is Wearable
    scanning,   \* m_deviceDiscoveryAgent->isActive()
    count,      \* m_selectedDevicesCount
    wearables,  \* m_currentlySelectedWearables
    list,       \* m_device_list: the interfaces, each with its device, its
                \* identifier, its type and the press that created it
    searches, presses,
    reselected  \* ghost: the left wearable was deselected and the right one stayed

vars == <<found, scanning, count, wearables, list, searches, presses, reselected>>

Identifier == {"LEFT", "RIGHT", None}
Found == [ident : Identifier, selected : BOOLEAN, wearable : BOOLEAN]
Interface == [id : Devices, ident : Identifier, wearable : BOOLEAN, press : 1..MaxPress]

TypeOK ==
    /\ DOMAIN found \subseteq Devices
    /\ found \in [DOMAIN found -> Found]
    /\ scanning \in BOOLEAN
    /\ count \in 0..2
    /\ wearables \in 0..count
    /\ list \subseteq Interface
    /\ searches \in 0..MaxSearch
    /\ presses \in 0..MaxPress
    /\ reselected \in BOOLEAN

NoDevices == [d \in {} |-> [ident |-> None, selected |-> FALSE, wearable |-> FALSE]]

Init ==
    /\ found = NoDevices
    /\ scanning = FALSE
    /\ count = 0
    /\ wearables = 0
    /\ list = {}
    /\ searches = 0
    /\ presses = 0
    /\ reselected = FALSE

Selected == {d \in DOMAIN found : found[d].selected}

-----------------------------------------------------------------------------

\* The devices found are forgotten, the numbers of those selected are not.
startSearch ==
    /\ ~scanning
    /\ searches < MaxSearch
    /\ searches' = searches + 1
    /\ scanning' = TRUE
    /\ found' = NoDevices
    /\ UNCHANGED <<count, wearables, list, presses, reselected>>

\* The type of a device with another name is never set: it may be that of a
\* wearable too.
addDevice(d) ==
    /\ scanning
    /\ d \notin DOMAIN found
    /\ \E isWearable \in BOOLEAN :
          /\ d \in Wearable => isWearable
          /\ found' = [e \in DOMAIN found \cup {d} |->
                          IF e = d
                          THEN [ident |-> None, selected |-> FALSE, wearable |-> isWearable]
                          ELSE found[e]]
    /\ UNCHANGED <<scanning, count, wearables, list, searches, presses, reselected>>

\* Also after an error (scanError): the agent is no longer active.
scanFinished ==
    /\ scanning
    /\ scanning' = FALSE
    /\ UNCHANGED <<found, count, wearables, list, searches, presses, reselected>>

Marked(d, ident) == [found EXCEPT ![d].ident = ident, ![d].selected = TRUE]

\* Fault: the number of devices is taken for that of the wearables.
AddByDevices(d) ==
    /\ count < 2
    /\ ~found[d].selected
    /\ count' = count + 1
    /\ IF found[d].wearable
       THEN /\ wearables' = wearables + 1
            /\ found' = Marked(d, IF wearables <= 1 THEN "LEFT" ELSE "RIGHT")
       ELSE /\ found' = Marked(d, found[d].ident)
            /\ UNCHANGED wearables
    /\ UNCHANGED <<scanning, list, searches, presses, reselected>>

\* Fault: a device that is not a wearable is not counted.
AddUncounted(d) ==
    /\ count < 2
    /\ ~found[d].selected
    /\ IF found[d].wearable
       THEN /\ count' = count + 1
            /\ wearables' = wearables + 1
            /\ found' = Marked(d, IF wearables' = 1 THEN "LEFT" ELSE "RIGHT")
       ELSE /\ found' = Marked(d, found[d].ident)
            /\ UNCHANGED <<count, wearables>>
    /\ UNCHANGED <<scanning, list, searches, presses, reselected>>

\* A device that is not selected is clicked.
addDeviceToSelection(d) ==
    /\ count < 2
    /\ ~found[d].selected
    /\ count' = count + 1
    /\ IF found[d].wearable
       THEN /\ wearables' = wearables + 1
            /\ found' = Marked(d, IF wearables' = 1 THEN "LEFT" ELSE "RIGHT")
       ELSE /\ found' = Marked(d, found[d].ident)
            /\ UNCHANGED wearables
    /\ UNCHANGED <<scanning, list, searches, presses, reselected>>

\* A selected device is clicked.  It keeps its identifier.
removeDeviceFromSelection(d) ==
    /\ found[d].selected
    /\ found' = [found EXCEPT ![d].selected = FALSE]
    /\ count' = count - 1
    /\ wearables' = IF found[d].wearable THEN wearables - 1 ELSE wearables
    /\ reselected' = (reselected \/ \E e \in Selected \ {d} :
                                      found[d].wearable /\ found[e].ident = "RIGHT")
    /\ UNCHANGED <<scanning, list, searches, presses>>

\* A DeviceInterface for each selected device is appended.  Every other press of
\* the button connects; those between, of TERMINATE, do nothing.
connectToSelectedDevices ==
    /\ presses < MaxPress
    /\ presses' = presses + 1
    /\ list' = list \cup {[id |-> d, ident |-> found[d].ident,
                             wearable |-> found[d].wearable, press |-> presses + 1] :
                           d \in Selected}
    /\ UNCHANGED <<found, scanning, count, wearables, searches, reselected>>

Next ==
    \/ startSearch
    \/ \E d \in Devices : addDevice(d)
    \/ scanFinished
    \/ \E d \in DOMAIN found : addDeviceToSelection(d) \/ removeDeviceFromSelection(d)
    \/ connectToSelectedDevices

Spec == Init /\ [][Next]_vars

-----------------------------------------------------------------------------

\* However often the user searches, selects, deselects and connects, no more
\* than two devices are selected at a time, and so connected by one press.
AtMostTwoSelected == Cardinality(Selected) <= 2

\* The files of two wearables are told apart by the identifier alone: devices that
\* count as wearables and were connected by one press differ in it, also after searches that have
\* left the counters behind, unless the user has deselected the left one while
\* the right one stayed selected.
SidesDiffer ==
    reselected \/ \A i, j \in list :
       (i # j /\ i.press = j.press /\ i.wearable /\ j.wearable) => i.ident # j.ident
=============================================================================
