-------------------------- MODULE DeviceFinderProofs --------------------------
(***************************************************************************)
(* Proofs about DeviceFinder, for any devices and any numbers of searches  *)
(* and presses of CONNECT.                                                 *)
(*                                                                         *)
(* The counters are only bounds: a search forgets the devices and leaves   *)
(* them behind.  So the invariant counts the selected wearables against    *)
(* m_currentlySelectedWearables and the other selected devices against     *)
(* what is left of m_selectedDevicesCount; and a counter of one says that  *)
(* the wearable that may be there is the left one.                         *)
(***************************************************************************)
EXTENDS DeviceFinder, FiniteSetTheorems, TLAPS

Worn == {d \in Selected : found[d].wearable}
Others == Selected \ Worn

Counted ==
    /\ Cardinality(Worn) <= wearables
    /\ Cardinality(Others) <= count - wearables

Sided ==
    /\ \A d \in Worn : found[d].ident # None
    /\ ~reselected =>
          /\ wearables = 1 => \A d \in Worn : found[d].ident = "LEFT"
          /\ \A d, e \in Worn : d # e => found[d].ident # found[e].ident

Kept ==
    /\ \A i \in list : i.press <= presses
    /\ SidesDiffer

Inv == TypeOK /\ Counted /\ Sided /\ Kept

-----------------------------------------------------------------------------
(* The sets counted *)

\* The selected devices are finitely many, wearables and others.
LEMMA Finite ==
    ASSUME TypeOK
    PROVE  /\ IsFiniteSet(Worn) /\ Cardinality(Worn) \in Nat
           /\ IsFiniteSet(Others) /\ Cardinality(Others) \in Nat
<1>1. Worn \subseteq Devices /\ Others \subseteq Devices
  BY DEF TypeOK, Worn, Others, Selected
<1> QED BY <1>1, FinderAssumption, FS_Subset, FS_CardinalityType

\* Nothing is selected when nothing is found.
LEMMA Nothing ==
    ASSUME found = NoDevices
    PROVE  /\ Worn = {} /\ Cardinality(Worn) = 0
           /\ Others = {} /\ Cardinality(Others) = 0
<1>1. Selected = {}
  BY DEF NoDevices, Selected
<1> QED BY <1>1, FS_EmptySet DEF Worn, Others

\* The parts of the invariant read nothing but these variables.
LEMMA Unchanged ==
    ASSUME Inv, UNCHANGED <<found, count, wearables, list, presses, reselected>>
    PROVE  Counted' /\ Sided' /\ Kept'
  BY DEF Inv, Counted, Sided, Kept, SidesDiffer, Worn, Others, Selected

-----------------------------------------------------------------------------
(* The steps *)

LEMMA InvInit == Init => Inv
<1> SUFFICES ASSUME Init PROVE Inv
  OBVIOUS
<1> USE FinderAssumption DEF Init
<1>1. Worn = {} /\ Cardinality(Worn) = 0 /\ Cardinality(Others) = 0
  BY Nothing
<1>2. TypeOK
  <2>1. DOMAIN found = {} /\ found \in [DOMAIN found -> Found]
    BY DEF NoDevices
  <2>2. 0 \in 0..MaxSearch /\ 0 \in 0..MaxPress
    OBVIOUS
  <2>3. DOMAIN found \subseteq Devices /\ list \subseteq Interface
    BY <2>1
  <2>4. scanning \in BOOLEAN /\ reselected \in BOOLEAN
    OBVIOUS
  <2>5. count \in 0..2 /\ wearables \in 0..count
    OBVIOUS
  <2>6. searches \in 0..MaxSearch /\ presses \in 0..MaxPress
    BY <2>2
  <2> HIDE DEF Init
  <2> QED BY <2>1, <2>3, <2>4, <2>5, <2>6 DEF TypeOK
<1>3. Counted /\ Sided /\ Kept
  BY <1>1 DEF Counted, Sided, Kept, SidesDiffer
<1> QED BY <1>2, <1>3 DEF Inv

\* A search forgets the devices and not the numbers.
LEMMA SearchKeeps == Inv /\ startSearch => Inv'
<1> SUFFICES ASSUME Inv, startSearch PROVE Inv'
  OBVIOUS
<1> USE DEF startSearch
<1>1. Worn' = {} /\ Cardinality(Worn') = 0 /\ Cardinality(Others') = 0
  <2>1. Selected' = {}
    BY DEF NoDevices, Selected
  <2> QED BY <2>1, FS_EmptySet DEF Worn, Others
<1>2. TypeOK'
  BY FinderAssumption DEF Inv, TypeOK, NoDevices
<1>3. Counted' /\ Sided'
  BY <1>1 DEF Inv, TypeOK, Counted, Sided
<1>4. Kept'
  BY DEF Inv, Kept, SidesDiffer
<1> QED BY <1>2, <1>3, <1>4 DEF Inv

\* A device that is found is not selected.
LEMMA FoundKeeps == ASSUME NEW d \in Devices PROVE Inv /\ addDevice(d) => Inv'
<1> SUFFICES ASSUME Inv, addDevice(d) PROVE Inv'
  OBVIOUS
<1> USE DEF addDevice
<1>1. /\ DOMAIN found' = DOMAIN found \cup {d}
      /\ \A e \in DOMAIN found : found'[e] = found[e]
      /\ \E w \in BOOLEAN :
            found'[d] = [ident |-> None, selected |-> FALSE, wearable |-> w]
  OBVIOUS
<1>2. TypeOK'
  <2>1. found' \in [DOMAIN found' -> Found]
    BY <1>1 DEF Inv, TypeOK, Found, Identifier
  <2> QED BY <1>1, <2>1 DEF Inv, TypeOK
<1>3. Selected' = Selected /\ \A e \in Selected : found'[e] = found[e]
  BY <1>1 DEF Selected
<1>4. Counted' /\ Sided' /\ Kept'
  <2>1. Counted'
    BY <1>3 DEF Inv, Counted, Worn, Others
  <2>2. Sided'
    <3>1. Worn' = Worn /\ \A e \in Worn : found'[e].ident = found[e].ident
      BY <1>3 DEF Worn
    <3>2. wearables' = wearables /\ reselected' = reselected
      OBVIOUS
    <3> HIDE DEF addDevice, Worn
    <3> QED BY <3>1, <3>2 DEF Inv, Sided
  <2>3. Kept'
    BY DEF Inv, Kept, SidesDiffer
  <2> QED BY <2>1, <2>2, <2>3
<1> QED BY <1>2, <1>4 DEF Inv

LEMMA FinishedKeeps == Inv /\ scanFinished => Inv'
<1> SUFFICES ASSUME Inv, scanFinished PROVE Inv'
  OBVIOUS
<1>1. TypeOK'
  BY DEF Inv, TypeOK, scanFinished
<1>2. Counted' /\ Sided' /\ Kept'
  BY Unchanged DEF scanFinished
<1> QED BY <1>1, <1>2 DEF Inv

\* The first wearable is the left one, also as far as the counter goes; so the
\* second one is the other.
LEMMA AddKeeps ==
    ASSUME NEW d \in DOMAIN found PROVE Inv /\ addDeviceToSelection(d) => Inv'
<1> SUFFICES ASSUME Inv, addDeviceToSelection(d) PROVE Inv'
  OBVIOUS
<1> USE DEF addDeviceToSelection
<1>0. d \in Devices /\ found[d] \in Found /\ d \notin Selected
  BY DEF Inv, TypeOK, Selected
<1>1. PICK ident \in Identifier :
        /\ found' = Marked(d, ident)
        /\ found[d].wearable => /\ wearables' = wearables + 1
                             /\ ident = IF wearables' = 1 THEN "LEFT" ELSE "RIGHT"
        /\ ~found[d].wearable => wearables' = wearables
  BY <1>0 DEF Identifier, Found
<1>2. /\ DOMAIN found' = DOMAIN found
      /\ \A e \in DOMAIN found \ {d} : found'[e] = found[e]
      /\ found'[d].ident = ident /\ found'[d].selected
      /\ found'[d].wearable <=> found[d].wearable
  BY <1>0, <1>1 DEF Marked, Inv, TypeOK, Found
<1>3. Selected' = Selected \cup {d}
  BY <1>2 DEF Selected
<1>4. CASE found[d].wearable
  <2>1. Worn' = Worn \cup {d} /\ Others' = Others /\ d \notin Worn
    BY <1>0, <1>2, <1>3, <1>4 DEF Worn, Others, Selected
  <2>2. /\ Cardinality(Worn') = Cardinality(Worn) + 1
        /\ Cardinality(Worn) \in Nat /\ Cardinality(Others) \in Nat
    BY <2>1, Finite, FS_AddElement DEF Inv
  <2>3. wearables' <= count' /\ count' \in 0..2 /\ wearables' \in Nat
    BY <1>1, <1>4 DEF Inv, TypeOK
  <2>4. Counted'
    BY <1>1, <1>4, <2>1, <2>2 DEF Inv, TypeOK, Counted
  <2>5. Sided'
    <3>1. \A e \in Worn : found'[e].ident = found[e].ident
      BY <1>2, <2>1 DEF Worn, Selected
    <3>2. found'[d].ident = ident /\ ident # None
      BY <1>1, <1>2, <1>4, FinderAssumption
    <3>3. ASSUME ~reselected'
          PROVE  /\ wearables' = 1 => \A e \in Worn' : found'[e].ident = "LEFT"
                 /\ \A e, f \in Worn' : e # f => found'[e].ident # found'[f].ident
      <4>1. CASE wearables = 0
        <5>1. Worn = {}
          BY <4>1, <2>2, Finite, FS_EmptySet DEF Inv, Counted
        <5> QED BY <1>1, <1>4, <2>1, <3>2, <4>1, <5>1
      <4>2. CASE wearables = 1
        <5>0. ~reselected
          BY <3>3
        <5>1. \A e \in Worn : found[e].ident = "LEFT"
          BY <5>0, <4>2 DEF Inv, Sided
        <5>2. ident = "RIGHT" /\ wearables' = 2
          BY <1>1, <1>4, <4>2
        <5>3. \A e, f \in Worn : e # f => found[e].ident # found[f].ident
          BY <5>0 DEF Inv, Sided
        <5> HIDE DEF addDeviceToSelection
        <5> QED BY <2>1, <3>1, <3>2, <5>1, <5>2, <5>3
      <4> QED BY <4>1, <4>2 DEF Inv, TypeOK
    <3>4. \A e \in Worn' : found'[e].ident # None
      BY <2>1, <3>1, <3>2 DEF Inv, Sided
    <3> HIDE DEF addDeviceToSelection
    <3> QED BY <3>3, <3>4 DEF Sided
  <2>6. TypeOK'
    <3>1. found' \in [DOMAIN found' -> Found]
      BY <1>0, <1>1 DEF Marked, Inv, TypeOK, Found
    <3>2. UNCHANGED <<scanning, list, searches, presses, reselected>>
      OBVIOUS
    <3> HIDE DEF addDeviceToSelection
    <3> QED BY <1>2, <2>3, <3>1, <3>2 DEF Inv, TypeOK
  <2>7. Kept'
    BY DEF Inv, Kept, SidesDiffer
  <2> QED BY <2>4, <2>5, <2>6, <2>7 DEF Inv
<1>5. CASE ~found[d].wearable
  <2>1. Worn' = Worn /\ Others' = Others \cup {d} /\ d \notin Others
    BY <1>0, <1>2, <1>3, <1>5 DEF Worn, Others, Selected
  <2>2. /\ Cardinality(Others') = Cardinality(Others) + 1
        /\ Cardinality(Worn) \in Nat /\ Cardinality(Others) \in Nat
    BY <2>1, Finite, FS_AddElement DEF Inv
  <2>3. wearables' <= count' /\ count' \in 0..2 /\ wearables' \in Nat
    BY <1>1, <1>5 DEF Inv, TypeOK
  <2>4. Counted'
    BY <1>1, <1>5, <2>1, <2>2 DEF Inv, TypeOK, Counted
  <2>5. Sided'
    <3>1. \A e \in Worn : found'[e].ident = found[e].ident
      BY <1>2, <1>5 DEF Worn, Selected
    <3>2. wearables' = wearables /\ reselected' = reselected
      BY <1>1, <1>5
    <3> HIDE DEF addDeviceToSelection
    <3> QED BY <2>1, <3>1, <3>2 DEF Inv, Sided
  <2>6. TypeOK'
    <3>1. found' \in [DOMAIN found' -> Found]
      BY <1>0, <1>1 DEF Marked, Inv, TypeOK, Found
    <3>2. UNCHANGED <<scanning, list, searches, presses, reselected>>
      OBVIOUS
    <3> HIDE DEF addDeviceToSelection
    <3> QED BY <1>2, <2>3, <3>1, <3>2 DEF Inv, TypeOK
  <2>7. Kept'
    BY DEF Inv, Kept, SidesDiffer
  <2> QED BY <2>4, <2>5, <2>6, <2>7 DEF Inv
<1> QED BY <1>4, <1>5

\* What is left when one of two wearables goes is the left one, or it is noted.
LEMMA RemoveKeeps ==
    ASSUME NEW d \in DOMAIN found PROVE Inv /\ removeDeviceFromSelection(d) => Inv'
<1> SUFFICES ASSUME Inv, removeDeviceFromSelection(d) PROVE Inv'
  OBVIOUS
<1>0. d \in Selected /\ found[d] \in Found
  BY DEF Inv, TypeOK, Selected, removeDeviceFromSelection
<1>1. /\ DOMAIN found' = DOMAIN found
      /\ \A e \in DOMAIN found \ {d} : found'[e] = found[e]
      /\ found'[d].ident = found[d].ident /\ ~found'[d].selected
      /\ found'[d].wearable <=> found[d].wearable
      /\ found'[d] \in Found
  BY <1>0 DEF removeDeviceFromSelection, Inv, TypeOK, Found
<1>2. Selected' = Selected \ {d}
  BY <1>1 DEF Selected
<1>3. /\ count' = count - 1
      /\ wearables' = IF found[d].wearable THEN wearables - 1 ELSE wearables
      /\ UNCHANGED <<scanning, list, searches, presses>>
  BY DEF removeDeviceFromSelection
<1>4. reselected' = (reselected \/ \E e \in Selected \ {d} :
                                      found[d].wearable /\ found[e].ident = "RIGHT")
  BY DEF removeDeviceFromSelection
<1>5. count \in 0..2 /\ wearables \in 0..count /\ reselected \in BOOLEAN
  BY DEF Inv, TypeOK
<1>6. /\ Cardinality(Worn) \in Nat /\ Cardinality(Others) \in Nat
      /\ Cardinality(Worn) <= wearables /\ Cardinality(Others) <= count - wearables
  BY Finite DEF Inv, Counted
<1>7. /\ Worn' = Worn \ {d}
      /\ Others' = Others \ {d}
      /\ found[d].wearable => d \in Worn /\ d \notin Others
      /\ ~found[d].wearable => d \in Others /\ d \notin Worn
  BY <1>0, <1>1, <1>2 DEF Worn, Others, Selected
<1>8. /\ Cardinality(Worn') = IF found[d].wearable THEN Cardinality(Worn) - 1 ELSE Cardinality(Worn)
      /\ Cardinality(Others') = IF found[d].wearable THEN Cardinality(Others) ELSE Cardinality(Others) - 1
      /\ Cardinality(Worn') \in Nat /\ Cardinality(Others') \in Nat
  <2>1. /\ IsFiniteSet(Worn \ {d}) /\ IsFiniteSet(Others \ {d})
        /\ Cardinality(Worn \ {d}) = IF d \in Worn THEN Cardinality(Worn) - 1 ELSE Cardinality(Worn)
        /\ Cardinality(Others \ {d}) = IF d \in Others THEN Cardinality(Others) - 1
                                        ELSE Cardinality(Others)
    BY Finite, FS_RemoveElement DEF Inv
  <2>2. Cardinality(Worn \ {d}) \in Nat /\ Cardinality(Others \ {d}) \in Nat
    BY <2>1, FS_CardinalityType
  <2>3. CASE found[d].wearable
    BY <1>7, <2>1, <2>2, <2>3
  <2>4. CASE ~found[d].wearable
    BY <1>7, <2>1, <2>2, <2>4
  <2> QED BY <2>3, <2>4
<1>9. Counted'
  BY <1>3, <1>5, <1>6, <1>8 DEF Counted
<1>10. TypeOK'
  <2>1. found' \in [DOMAIN found' -> Found]
    BY <1>0, <1>1 DEF removeDeviceFromSelection, Inv, TypeOK, Found
  <2>2. count' \in 0..2 /\ wearables' \in 0..count'
    BY <1>3, <1>5, <1>6, <1>8
  <2>3. reselected' \in BOOLEAN
    BY <1>4
  <2> QED BY <1>1, <1>3, <2>1, <2>2, <2>3 DEF Inv, TypeOK
<1>11. Sided'
  <2>1. \A e \in Worn' : e \in Worn /\ e # d /\ found'[e].ident = found[e].ident
    BY <1>1, <1>7 DEF Worn, Selected
  <2>2. \A e \in Worn' : found'[e].ident # None
    BY <2>1 DEF Inv, Sided
  <2>3. ASSUME ~reselected'
        PROVE  /\ wearables' = 1 => \A e \in Worn' : found'[e].ident = "LEFT"
               /\ \A e, f \in Worn' : e # f => found'[e].ident # found'[f].ident
    <3>1. ~reselected
      BY <1>4, <2>3
    <3>2. /\ wearables = 1 => \A e \in Worn : found[e].ident = "LEFT"
          /\ \A e, f \in Worn : e # f => found[e].ident # found[f].ident
      BY <3>1 DEF Inv, Sided
    <3>3. \A e, f \in Worn' : e # f => found'[e].ident # found'[f].ident
      BY <2>1, <3>2
    <3>4. ASSUME wearables' = 1, NEW e \in Worn' PROVE found'[e].ident = "LEFT"
      <4>1. CASE found[d].wearable
        <5>1. found[e].ident # "RIGHT"
          BY <1>4, <2>1, <2>3, <4>1 DEF Worn
        <5>2. found[e].ident # None /\ found[e].ident \in Identifier
          BY <2>1 DEF Inv, TypeOK, Sided, Worn, Selected, Found
        <5> QED BY <2>1, <5>1, <5>2 DEF Identifier
      <4>2. CASE ~found[d].wearable
        BY <1>3, <2>1, <3>2, <3>4, <4>2
      <4> QED BY <4>1, <4>2
    <3> QED BY <3>3, <3>4
  <2> QED BY <2>2, <2>3 DEF Sided
<1>12. Kept'
  BY <1>3, <1>4 DEF Inv, Kept, SidesDiffer
<1> QED BY <1>9, <1>10, <1>11, <1>12 DEF Inv

\* The interfaces of one press are those of the devices selected at that press.
LEMMA ConnectKeeps == Inv /\ connectToSelectedDevices => Inv'
<1> SUFFICES ASSUME Inv, connectToSelectedDevices PROVE Inv'
  OBVIOUS
<1>1. /\ presses < MaxPress /\ presses' = presses + 1
      /\ UNCHANGED <<found, scanning, count, wearables, searches, reselected>>
  BY DEF connectToSelectedDevices
<1>2. PICK new : /\ list' = list \cup new
                 /\ new = {[id |-> d, ident |-> found[d].ident,
                                wearable |-> found[d].wearable, press |-> presses + 1] :
                              d \in Selected}
  BY DEF connectToSelectedDevices
<1>3. \A i \in new : /\ i \in Interface
                     /\ i.press = presses + 1
                     /\ i.id \in Selected /\ i.ident = found[i.id].ident
                     /\ i.wearable <=> found[i.id].wearable
  BY <1>1, <1>2, FinderAssumption DEF Inv, TypeOK, Selected, Found, Interface
<1>4. TypeOK'
  BY <1>1, <1>2, <1>3, FinderAssumption DEF Inv, TypeOK
<1>5. Counted' /\ Sided'
  BY <1>1 DEF Inv, Counted, Sided, Worn, Others, Selected
<1>6. presses \in Nat /\ \A i \in list : i.press \in Nat /\ i.press <= presses
  BY FinderAssumption DEF Inv, TypeOK, Kept, Interface
<1>7. \A i \in list' : i.press <= presses'
  BY <1>1, <1>2, <1>3, <1>6
<1>8. ASSUME ~reselected', NEW i \in list', NEW j \in list',
             i # j, i.press = j.press, i.wearable, j.wearable
      PROVE  i.ident # j.ident
  <2>1. CASE i \in list /\ j \in list
    BY <1>1, <1>8, <2>1 DEF Inv, Kept, SidesDiffer
  <2>2. CASE i \in new /\ j \in new
    <3>1. i.id # j.id
      BY <1>2, <1>8, <2>2
    <3>2. i.id \in Worn /\ j.id \in Worn
      BY <1>3, <1>8, <2>2 DEF Worn
    <3> QED BY <1>1, <1>3, <1>8, <2>2, <3>1, <3>2 DEF Inv, Sided
  <2>3. (i \in list /\ j \in list) \/ (i \in new /\ j \in new)
    BY <1>2, <1>3, <1>6, <1>8
  <2> QED BY <2>1, <2>2, <2>3
<1>9. SidesDiffer'
  BY <1>8 DEF SidesDiffer
<1> QED BY <1>4, <1>5, <1>7, <1>9 DEF Inv, Kept

LEMMA InvStep == Inv /\ [Next]_vars => Inv'
<1> SUFFICES ASSUME Inv, [Next]_vars PROVE Inv'
  OBVIOUS
<1>1. CASE startSearch
  BY <1>1, SearchKeeps
<1>2. CASE \E d \in Devices : addDevice(d)
  BY <1>2, FoundKeeps
<1>3. CASE scanFinished
  BY <1>3, FinishedKeeps
<1>4. CASE \E d \in DOMAIN found : addDeviceToSelection(d) \/ removeDeviceFromSelection(d)
  BY <1>4, AddKeeps, RemoveKeeps
<1>5. CASE connectToSelectedDevices
  BY <1>5, ConnectKeeps
<1>6. CASE UNCHANGED vars
  <2>1. TypeOK'
    BY <1>6 DEF vars, Inv, TypeOK
  <2> QED BY <1>6, <2>1, Unchanged DEF vars, Inv
<1> QED BY <1>1, <1>2, <1>3, <1>4, <1>5, <1>6 DEF Next

LEMMA Invariance == Spec => []Inv
  BY InvInit, InvStep, PTL DEF Spec

-----------------------------------------------------------------------------
(* The properties *)

\* The counters stay within 0..2, and that of the wearables within the other,
\* so that no click underflows them (addDeviceToSelection,
\* removeDeviceFromSelection).
THEOREM TypeCorrect == Spec => []TypeOK
<1>1. Inv => TypeOK
  BY DEF Inv
<1> QED BY <1>1, Invariance, PTL

\* m_selectedDevicesCount keeps the selection to two devices.
THEOREM AtMostTwoSelectedHolds == Spec => []AtMostTwoSelected
<1>1. Inv => AtMostTwoSelected
  <2> SUFFICES ASSUME Inv PROVE AtMostTwoSelected
    OBVIOUS
  <2>1. Selected = Worn \cup Others /\ Worn \cap Others = {}
    BY DEF Worn, Others
  <2>2. Cardinality(Selected) = Cardinality(Worn) + Cardinality(Others)
    <3>1. Cardinality(Worn \cap Others) = 0
      BY <2>1, FS_EmptySet
    <3>2. Cardinality(Worn \cup Others) =
            Cardinality(Worn) + Cardinality(Others) - Cardinality(Worn \cap Others)
      BY Finite, FS_Union DEF Inv
    <3> QED BY <2>1, <3>1, <3>2, Finite DEF Inv
  <2> QED BY <2>2, Finite DEF Inv, TypeOK, Counted, AtMostTwoSelected
<1> QED BY <1>1, Invariance, PTL

\* The identifiers given by addDeviceToSelection tell the wearables of one press
\* apart.
THEOREM SidesDifferHolds == Spec => []SidesDiffer
<1>1. Inv => SidesDiffer
  BY DEF Inv, Kept
<1> QED BY <1>1, Invariance, PTL
=============================================================================
