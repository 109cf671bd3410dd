--------------------------- MODULE ConnectionProofs ---------------------------
(***************************************************************************)
(* Proofs about Connection, for any number of devices, presses of CONNECT  *)
(* and main states.                                                        *)
(*                                                                         *)
(* Nothing says of an event in a queue whether it is still true.  What     *)
(* helps is that a controller reports itself once and its loss last: a     *)
(* loss under way has nothing behind it, and a device whose loss has been  *)
(* handled has no event left and will never have one.                      *)
(***************************************************************************)
EXTENDS Connection, TLAPS

Phase == {"connecting", "discovering", "details", "up", "stuck", "down"}
Interface == [alive : BOOLEAN, last : States, atFirst : BOOLEAN]
Event == [kind : {"ALIVE"}, alive : BOOLEAN] \cup [kind : {"STATE"}, state : States]

Typed ==
    /\ list \in Seq(Interface) /\ link \in Seq(Phase) /\ ev \in Seq(Seq(Event))
    /\ Len(link) = Len(list) /\ Len(ev) = Len(list)
    /\ {connected, changed} \subseteq BOOLEAN
    /\ shown \in States \cup {Unshown}
    /\ presses \in 0..MaxPress
    /\ lost \subseteq Index

\* A loss is the last a controller reports.
LossIsLast ==
    \A i \in Index :
       /\ \A k \in DOMAIN ev[i] : ev[i][k] = Alive(FALSE) => link[i] = "down" /\ k = Len(ev[i])
       /\ i \in lost => link[i] = "down" /\ ev[i] = <<>> /\ ~list[i].alive

\* Who counts as there has come up, or its flag began as TRUE.
AliveCameUp ==
    \A i \in Index :
       /\ (\E k \in DOMAIN ev[i] : ev[i][k] = Alive(TRUE)) => link[i] \in {"up", "down"}
       /\ list[i].alive => link[i] \in {"up", "down"} \/ list[i].atFirst

ChangeIsOf == changed => list # <<>>

Inv == Typed /\ LossIsLast /\ AliveCameUp /\ DownStaysDown /\ ChangeIsOf /\ AgreedIsShown

-----------------------------------------------------------------------------
(* Types *)

LEMMA TypedIsEnough == Typed => TypeOK
<1> SUFFICES ASSUME Typed PROVE TypeOK
  OBVIOUS
<1>1. DOMAIN list = 1..Len(list) /\ DOMAIN link = 1..Len(link) /\ DOMAIN ev = 1..Len(ev)
  BY DEF Typed
<1>2. \A i \in Index : link[i] \in Phase /\ ev[i] \in Seq(Event)
  BY <1>1 DEF Typed, Index
<1> QED BY <1>1, <1>2 DEF Typed, TypeOK, Index, Phase, Event, Interface

LEMMA Indices ==
    ASSUME Typed
    PROVE  /\ Index = 1..Len(list) /\ Len(list) \in Nat
           /\ \A i \in Index : /\ link[i] \in Phase /\ list[i] \in Interface
                               /\ ev[i] \in Seq(Event)
  BY DEF Typed, Index

LEMMA EventsDiffer ==
    ASSUME NEW s
    PROVE  Alive(TRUE) # Alive(FALSE) /\ MainState(s) # Alive(TRUE) /\ MainState(s) # Alive(FALSE)
<1>1. Alive(TRUE).alive # Alive(FALSE).alive
  BY DEF Alive
<1>2. MainState(s).kind = "STATE" /\ Alive(TRUE).kind = "ALIVE" /\ Alive(FALSE).kind = "ALIVE"
  BY DEF Alive, MainState
<1> QED BY <1>1, <1>2

LEMMA InvInit == Init => Inv
<1> SUFFICES ASSUME Init PROVE Inv
  OBVIOUS
<1>1. Typed
  <2>1. list \in Seq(Interface) /\ link \in Seq(Phase) /\ ev \in Seq(Seq(Event))
    BY DEF Init
  <2>2. Len(link) = Len(list) /\ Len(ev) = Len(list) /\ lost \subseteq Index
    BY DEF Init
  <2>3. presses \in 0..MaxPress
    BY ConnectionAssumption DEF Init
  <2>4. {connected, changed} \subseteq BOOLEAN /\ shown \in States \cup {Unshown}
    BY DEF Init
  <2> QED BY <2>1, <2>2, <2>3, <2>4 DEF Typed
<1>2. Index = {}
  BY DEF Init, Index
<1> QED BY <1>1, <1>2 DEF Init, Inv, LossIsLast, AliveCameUp, DownStaysDown, ChangeIsOf,
                        AgreedIsShown

-----------------------------------------------------------------------------
(* Devices are added *)

LEMMA ConcatType ==
    ASSUME NEW S, NEW s \in Seq(S), NEW t \in Seq(S)
    PROVE  s \o t \in Seq(S) /\ Len(s \o t) = Len(s) + Len(t)
  OBVIOUS

LEMMA ConcatFirst ==
    ASSUME NEW S, NEW s \in Seq(S), NEW t \in Seq(S), NEW i \in 1..Len(s)
    PROVE  (s \o t)[i] = s[i]
  OBVIOUS

LEMMA ConcatSecond ==
    ASSUME NEW S, NEW s \in Seq(S), NEW t \in Seq(S),
           NEW i \in 1..(Len(s) + Len(t)), i \notin 1..Len(s)
    PROVE  (s \o t)[i] = t[i - Len(s)]
  OBVIOUS

LEMMA Added ==
    ASSUME Typed, NEW n \in Nat, NEW alive \in [1..n -> Garbage], NEW last \in [1..n -> States],
           list' = list \o [k \in 1..n |-> [alive |-> alive[k], last |-> last[k],
                                           atFirst |-> alive[k]]],
           link' = link \o [k \in 1..n |-> "connecting"],
           ev' = ev \o [k \in 1..n |-> <<>>]
    PROVE  /\ list' \in Seq(Interface) /\ link' \in Seq(Phase) /\ ev' \in Seq(Seq(Event))
           /\ Len(list') = Len(list) + n /\ Len(link') = Len(list') /\ Len(ev') = Len(list')
           /\ Index' = 1..(Len(list) + n) /\ Index \subseteq Index'
           /\ \A i \in Index : list'[i] = list[i] /\ link'[i] = link[i] /\ ev'[i] = ev[i]
           /\ \A i \in Index' \ Index : /\ list'[i].alive = list'[i].atFirst
                                        /\ link'[i] = "connecting" /\ ev'[i] = <<>>
<1> DEFINE a == [k \in 1..n |-> [alive |-> alive[k], last |-> last[k],
                                           atFirst |-> alive[k]]]
           b == [k \in 1..n |-> "connecting"]
           c == [k \in 1..n |-> <<>>]
<1>1. /\ a \in Seq(Interface) /\ Len(a) = n
      /\ \A k \in 1..n : a[k].alive = a[k].atFirst
  <2>1. ASSUME NEW k \in 1..n PROVE /\ a[k] \in Interface
                                      /\ a[k].alive = a[k].atFirst
    <3>1. alive[k] \in Garbage
      BY Zenon
    <3>2. Garbage \subseteq BOOLEAN
      BY ConnectionAssumption
    <3>3. alive[k] \in BOOLEAN /\ last[k] \in States
      BY <3>1, <3>2, Zenon
    <3>4. a[k] = [alive |-> alive[k], last |-> last[k], atFirst |-> alive[k]]
      BY Zenon
    <3> HIDE DEF a
    <3>5. a[k].alive = alive[k] /\ a[k].atFirst = alive[k]
      BY <3>4
    <3>6. a[k] \in [alive : BOOLEAN, last : States, atFirst : BOOLEAN]
      BY <3>3, <3>4
    <3> QED BY <3>5, <3>6, Zenon DEF Interface
  <2>2. a = [k \in 1..n |-> a[k]]
    BY Zenon
  <2> HIDE DEF a
  <2>3. a \in [1..n -> Interface]
    BY <2>1, <2>2, Zenon
  <2> QED BY <2>1, <2>3
<1>2. b \in Seq(Phase) /\ Len(b) = n /\ \A k \in 1..n : b[k] = "connecting"
  BY DEF Phase
<1>3. c \in Seq(Seq(Event)) /\ Len(c) = n /\ \A k \in 1..n : c[k] = <<>>
  OBVIOUS
<1> HIDE DEF a, b, c
<1>4. list' = list \o a /\ link' = link \o b /\ ev' = ev \o c
  BY DEF a, b, c
<1> DEFINE l == Len(list)
<1>5. /\ list \in Seq(Interface) /\ link \in Seq(Phase) /\ ev \in Seq(Seq(Event))
      /\ l \in Nat /\ Len(list) = l /\ Len(link) = l /\ Len(ev) = l
  BY DEF Typed
<1> HIDE DEF l
<1>6. /\ list' \in Seq(Interface) /\ Len(list') = l + n
      /\ \A i \in 1..l : list'[i] = list[i]
      /\ \A i \in 1..(l + n) : i \notin 1..l => list'[i] = a[i - l]
  <2>1. /\ list \in Seq(Interface) /\ a \in Seq(Interface) /\ Len(list) = l /\ Len(a) = n
        /\ list' = list \o a
    BY <1>1, <1>4, <1>5
  <2>2. list' \in Seq(Interface) /\ Len(list') = l + n
    BY <2>1, ConcatType
  <2>3. \A i \in 1..l : list'[i] = list[i]
    BY <2>1, ConcatFirst
  <2>4. ASSUME NEW i \in 1..(l + n), i \notin 1..l PROVE list'[i] = a[i - l]
    <3>1. i \in 1..(Len(list) + Len(a)) /\ i \notin 1..Len(list)
      BY <2>1, <2>4
    <3>2. (list \o a)[i] = a[i - Len(list)]
      BY <2>1, <3>1, ConcatSecond
    <3> QED BY <2>1, <3>2
  <2> QED BY <2>2, <2>3, <2>4
<1>7. /\ link' \in Seq(Phase) /\ Len(link') = l + n
      /\ \A i \in 1..l : link'[i] = link[i]
      /\ \A i \in 1..(l + n) : i \notin 1..l => link'[i] = b[i - l]
  <2>1. /\ link \in Seq(Phase) /\ b \in Seq(Phase) /\ Len(link) = l /\ Len(b) = n
        /\ link' = link \o b
    BY <1>2, <1>4, <1>5
  <2>2. link' \in Seq(Phase) /\ Len(link') = l + n
    BY <2>1, ConcatType
  <2>3. \A i \in 1..l : link'[i] = link[i]
    BY <2>1, ConcatFirst
  <2>4. ASSUME NEW i \in 1..(l + n), i \notin 1..l PROVE link'[i] = b[i - l]
    <3>1. i \in 1..(Len(link) + Len(b)) /\ i \notin 1..Len(link)
      BY <2>1, <2>4
    <3>2. (link \o b)[i] = b[i - Len(link)]
      BY <2>1, <3>1, ConcatSecond
    <3> QED BY <2>1, <3>2
  <2> QED BY <2>2, <2>3, <2>4
<1>8. /\ ev' \in Seq(Seq(Event)) /\ Len(ev') = l + n
      /\ \A i \in 1..l : ev'[i] = ev[i]
      /\ \A i \in 1..(l + n) : i \notin 1..l => ev'[i] = c[i - l]
  <2>1. /\ ev \in Seq(Seq(Event)) /\ c \in Seq(Seq(Event)) /\ Len(ev) = l /\ Len(c) = n
        /\ ev' = ev \o c
    BY <1>3, <1>4, <1>5
  <2>2. ev' \in Seq(Seq(Event)) /\ Len(ev') = l + n
    BY <2>1, ConcatType
  <2>3. \A i \in 1..l : ev'[i] = ev[i]
    BY <2>1, ConcatFirst
  <2>4. ASSUME NEW i \in 1..(l + n), i \notin 1..l PROVE ev'[i] = c[i - l]
    <3>1. i \in 1..(Len(ev) + Len(c)) /\ i \notin 1..Len(ev)
      BY <2>1, <2>4
    <3>2. (ev \o c)[i] = c[i - Len(ev)]
      BY <2>1, <3>1, ConcatSecond
    <3> QED BY <2>1, <3>2
  <2> QED BY <2>2, <2>3, <2>4
<1>9. /\ Index = 1..l /\ Index' = 1..(l + n)
      /\ \A i \in Index' \ Index : i - l \in 1..n
  BY <1>5, <1>6 DEF Index, l
<1>10. \A i \in Index' \ Index : /\ list'[i].alive = list'[i].atFirst
                                 /\ link'[i] = "connecting" /\ ev'[i] = <<>>
  <2> SUFFICES ASSUME NEW i \in Index' \ Index
               PROVE  /\ list'[i].alive = list'[i].atFirst
                      /\ link'[i] = "connecting" /\ ev'[i] = <<>>
    OBVIOUS
  <2>1. i \in 1..(l + n) /\ i \notin 1..l /\ i - l \in 1..n
    BY <1>9
  <2>2. list'[i] = a[i - l] /\ link'[i] = b[i - l] /\ ev'[i] = c[i - l]
    BY <1>6, <1>7, <1>8, <2>1
  <2>3. a[i - l].alive = a[i - l].atFirst
    BY <1>1, <2>1, Zenon
  <2>4. list'[i].alive = list'[i].atFirst
    BY <2>2, <2>3, Zenon
  <2>5. link'[i] = "connecting" /\ ev'[i] = <<>>
    BY <1>2, <1>3, <2>1, <2>2
  <2> QED BY <2>4, <2>5
<1>11. Index \subseteq Index'
  BY <1>5, <1>9
<1> QED BY <1>5, <1>6, <1>7, <1>8, <1>9, <1>10, <1>11 DEF l

LEMMA ConnectKeeps == Inv /\ connectToSelectedDevices => Inv'
<1> SUFFICES ASSUME Inv, connectToSelectedDevices PROVE Inv'
  OBVIOUS
<1>1. PICK n \in 0..2 : \E alive \in [1..n -> Garbage], last \in [1..n -> States] :
          /\ list' = list \o [k \in 1..n |-> [alive |-> alive[k], last |-> last[k],
                                           atFirst |-> alive[k]]]
          /\ link' = link \o [k \in 1..n |-> "connecting"]
          /\ ev' = ev \o [k \in 1..n |-> <<>>]
  BY Zenon DEF connectToSelectedDevices
<1>2. Typed /\ n \in Nat
  BY DEF Inv
<1>3. /\ list' \in Seq(Interface) /\ link' \in Seq(Phase) /\ ev' \in Seq(Seq(Event))
      /\ Len(list') = Len(list) + n /\ Len(link') = Len(list') /\ Len(ev') = Len(list')
      /\ Index' = 1..(Len(list) + n) /\ Index \subseteq Index'
      /\ \A i \in Index : list'[i] = list[i] /\ link'[i] = link[i] /\ ev'[i] = ev[i]
      /\ \A i \in Index' \ Index : /\ list'[i].alive = list'[i].atFirst
                                   /\ link'[i] = "connecting" /\ ev'[i] = <<>>
  BY <1>1, <1>2, Added
<1>4. UNCHANGED verdict /\ presses' \in 0..MaxPress
  <2>1. UNCHANGED verdict /\ presses < MaxPress /\ presses' = presses + 1
    BY Zenon DEF connectToSelectedDevices
  <2>2. MaxPress \in Nat /\ presses \in 0..MaxPress
    BY <1>2, ConnectionAssumption DEF Typed
  <2> QED BY <2>1, <2>2
<1>5. Typed'
  BY <1>2, <1>3, <1>4 DEF Typed, verdict
<1>6. LossIsLast'
  <2>1. lost' = lost /\ lost \subseteq Index /\ LossIsLast
    BY <1>2, <1>4 DEF Inv, Typed, verdict
  <2>2. ASSUME NEW i \in Index
        PROVE  /\ \A k \in DOMAIN ev'[i] : ev'[i][k] = Alive(FALSE)
                                             => link'[i] = "down" /\ k = Len(ev'[i])
               /\ i \in lost' => link'[i] = "down" /\ ev'[i] = <<>> /\ ~list'[i].alive
    BY <1>3, <2>1 DEF LossIsLast
  <2>3. ASSUME NEW i \in Index' \ Index PROVE i \notin lost' /\ DOMAIN ev'[i] = {}
    BY <1>3, <2>1
  <2> QED BY <2>2, <2>3 DEF LossIsLast
<1>7. AliveCameUp'
  <2> SUFFICES ASSUME NEW i \in Index'
               PROVE  /\ (\E k \in DOMAIN ev'[i] : ev'[i][k] = Alive(TRUE))
                            => link'[i] \in {"up", "down"}
                      /\ list'[i].alive => link'[i] \in {"up", "down"} \/ list'[i].atFirst
    BY DEF AliveCameUp, Alive
  <2>1. CASE i \in Index
    BY <1>3, <2>1 DEF Inv, AliveCameUp
  <2>2. CASE i \notin Index
    <3>1. list'[i].alive = list'[i].atFirst
      BY <1>3, <2>2
    <3>2. DOMAIN ev'[i] = {}
      BY <1>3, <2>2
    <3> QED BY <3>1, <3>2, Zenon
  <2> QED BY <2>1, <2>2
<1>8. DownStaysDown'
  BY <1>4 DEF Inv, DownStaysDown, verdict
<1>9. ChangeIsOf' /\ (changed => Len(list) > 0)
  BY <1>2, <1>3, <1>4 DEF Inv, ChangeIsOf, verdict, Typed
<1>10. AgreedIsShown'
  <2> SUFFICES ASSUME NEW s \in States, changed, s < 256 \/ Len(list') = 1,
                      \A i \in Index' : list'[i].last = s
               PROVE  shown = s
    BY <1>4 DEF AgreedIsShown, verdict
  <2>1. \A i \in Index : list[i].last = s
    BY <1>3
  <2>2. s < 256 \/ Len(list) = 1
    BY <1>2, <1>3, <1>9 DEF Typed
  <2> QED BY <2>1, <2>2 DEF Inv, AgreedIsShown
<1> QED BY <1>5, <1>6, <1>7, <1>8, <1>9, <1>10 DEF Inv

-----------------------------------------------------------------------------
(* A controller goes on, and may report something *)

\* What an event appended adds to a queue.
LEMMA LastOrBefore ==
    ASSUME NEW q \in Seq(Event), NEW e, NEW p, p = Append(q, e), NEW k \in DOMAIN p
    PROVE  \/ k = Len(p) /\ p[k] = e
           \/ k \in DOMAIN q /\ p[k] = q[k]
<1>1. /\ Len(q) \in Nat /\ DOMAIN q = 1..Len(q) /\ DOMAIN p = 1..(Len(q) + 1)
      /\ Len(p) = Len(q) + 1 /\ p[Len(q) + 1] = e
      /\ \A j \in DOMAIN q : p[j] = q[j]
  OBVIOUS
<1>2. k = Len(q) + 1 \/ k \in DOMAIN q
  BY <1>1
<1>3. CASE k = Len(q) + 1
  <2>1. k = Len(p) /\ p[k] = e
    BY <1>1, <1>3
  <2> QED BY <2>1, Zenon
<1>4. CASE k \in DOMAIN q
  <2>1. p[k] = q[k]
    BY <1>1, <1>4, Zenon
  <2> QED BY <1>4, <2>1, Zenon
<1> QED BY <1>2, <1>3, <1>4, Zenon

LEMMA SetUpKeeps ==
    ASSUME Inv, NEW i \in Index, NEW to \in Phase,
           link' = [link EXCEPT ![i] = to], UNCHANGED <<presses, list, verdict>>,
           link[i] # "down",
           link[i] = "up" => to \in {"up", "down"},
           \/ UNCHANGED ev /\ (to # "up" => link[i] # "up" \/ to = "down")
           \/ ev' = [ev EXCEPT ![i] = Append(@, Alive(TRUE))] /\ to = "up"
           \/ ev' = [ev EXCEPT ![i] = Append(@, Alive(FALSE))] /\ to = "down"
           \/ \E s \in States : ev' = [ev EXCEPT ![i] = Append(@, MainState(s))] /\ to = link[i]
    PROVE  Inv'
<1>1. Typed /\ Index' = Index
  BY DEF Inv, Index
<1>2. PICK q \in Seq(Event) :
         /\ ev' = [ev EXCEPT ![i] = q]
         /\ \/ q = ev[i]
            \/ q = Append(ev[i], Alive(TRUE)) /\ to = "up"
            \/ q = Append(ev[i], Alive(FALSE)) /\ to = "down"
            \/ \E s \in States : q = Append(ev[i], MainState(s)) /\ to = link[i]
  <2>1. ev[i] \in Seq(Event) /\ Alive(TRUE) \in Event /\ Alive(FALSE) \in Event
        /\ \A s \in States : MainState(s) \in Event
    BY <1>1, Indices DEF Event, Alive, MainState
  <2>2. \A e \in Event : Append(ev[i], e) \in Seq(Event)
    BY <2>1
  <2>3. UNCHANGED ev => ev' = [ev EXCEPT ![i] = ev[i]]
    BY <1>1 DEF Typed
  <2> QED BY <2>1, <2>2, <2>3
<1>3. Typed'
  <2>1. link' \in Seq(Phase) /\ Len(link') = Len(link)
    BY <1>1 DEF Typed, Index
  <2>2. ev' \in Seq(Seq(Event)) /\ Len(ev') = Len(ev)
    BY <1>1, <1>2 DEF Typed, Index
  <2> QED BY <1>1, <2>1, <2>2 DEF Typed, verdict
<1>4. /\ link'[i] = to /\ ev'[i] = q
      /\ \A j \in Index : j # i => link'[j] = link[j] /\ ev'[j] = ev[j]
  BY <1>1, <1>2 DEF Typed, Index
<1>5. i \notin lost /\ \A k \in DOMAIN ev[i] : ev[i][k] # Alive(FALSE)
  BY DEF Inv, LossIsLast
<1>6. \A k \in DOMAIN q : q[k] = Alive(FALSE) => to = "down" /\ k = Len(q)
  <2>1. ev[i] \in Seq(Event)
    BY <1>1, Indices
  <2>2. CASE q = ev[i]
    BY <1>5, <2>2
  <2>3. ASSUME NEW e, q = Append(ev[i], e), e # Alive(FALSE) \/ to = "down"
        PROVE  \A k \in DOMAIN q : q[k] = Alive(FALSE) => to = "down" /\ k = Len(q)
    <3>1. /\ \A k \in DOMAIN q : q[k] = Alive(FALSE) => k = Len(q)
          /\ (\E k \in DOMAIN q : q[k] = Alive(FALSE)) => e = Alive(FALSE)
      <4>1. \A k \in DOMAIN q : \/ k = Len(q) /\ q[k] = e
                                \/ k \in DOMAIN ev[i] /\ q[k] = ev[i][k]
        BY <2>1, <2>3, LastOrBefore
      <4> QED BY <1>5, <4>1, Zenon
    <3> QED BY <2>3, <3>1, Zenon
  <2> QED BY <1>2, <2>2, <2>3, EventsDiffer
<1>7. LossIsLast'
  <2>1. list' = list /\ lost' = lost
    BY DEF verdict
  <2> SUFFICES ASSUME NEW j \in Index
               PROVE  /\ \A k \in DOMAIN ev'[j] : ev'[j][k] = Alive(FALSE)
                                                   => link'[j] = "down" /\ k = Len(ev'[j])
                      /\ j \in lost => link'[j] = "down" /\ ev'[j] = <<>> /\ ~list[j].alive
    BY <1>1, <2>1, Zenon DEF LossIsLast, Alive
  <2>2. CASE j = i
    BY <1>4, <1>5, <1>6, <2>2
  <2>3. CASE j # i
    BY <1>4, <2>3 DEF Inv, LossIsLast
  <2> QED BY <2>2, <2>3
<1>8. AliveCameUp'
  <2>1. list'[i].alive => to \in {"up", "down"} \/ list'[i].atFirst
    <3>1. list[i].alive => link[i] \in {"up", "down"} \/ list[i].atFirst
      BY DEF Inv, AliveCameUp
    <3> QED BY <3>1 DEF verdict
  <2>2. ASSUME \E k \in DOMAIN q : q[k] = Alive(TRUE)
        PROVE  to \in {"up", "down"}
    <3>1. CASE link[i] = "up"
      BY <3>1
    <3>2. CASE link[i] # "up"
      <4>1. \A k \in DOMAIN ev[i] : ev[i][k] # Alive(TRUE)
        BY <3>2 DEF Inv, AliveCameUp
      <4>2. ev[i] \in Seq(Event)
        BY <1>1, Indices
      <4>3. q # ev[i]
        BY <2>2, <4>1
      <4>4. CASE to \notin {"up", "down"}
        <5>1. PICK s \in States : q = Append(ev[i], MainState(s))
          BY <1>2, <4>3, <4>4
        <5>2. \A k \in DOMAIN q : q[k] # Alive(TRUE)
          <6>1. MainState(s) # Alive(TRUE)
            BY EventsDiffer
          <6>2. \A k \in DOMAIN q : \/ q[k] = MainState(s)
                                    \/ k \in DOMAIN ev[i] /\ q[k] = ev[i][k]
            BY <4>2, <5>1, LastOrBefore
          <6> QED BY <4>1, <6>1, <6>2, Zenon
        <5> QED BY <2>2, <5>2
      <4> QED BY <4>4
    <3> QED BY <3>1, <3>2
  <2>3. \A j \in Index :
           /\ (\E k \in DOMAIN ev'[j] : ev'[j][k] = Alive(TRUE)) => link'[j] \in {"up", "down"}
           /\ list'[j].alive => link'[j] \in {"up", "down"} \/ list'[j].atFirst
    <3> SUFFICES ASSUME NEW j \in Index
                 PROVE  /\ (\E k \in DOMAIN ev'[j] : ev'[j][k] = Alive(TRUE))
                              => link'[j] \in {"up", "down"}
                        /\ list'[j].alive => link'[j] \in {"up", "down"} \/ list'[j].atFirst
      OBVIOUS
    <3>1. CASE j = i
      BY <1>4, <2>1, <2>2, <3>1
    <3>2. CASE j # i
      <4>1. link'[j] = link[j] /\ ev'[j] = ev[j] /\ list' = list
        BY <1>4, <3>2 DEF verdict
      <4> QED BY <4>1, Zenon DEF Inv, AliveCameUp
    <3> QED BY <3>1, <3>2
  <2> QED BY <1>1, <2>3 DEF AliveCameUp, Alive
<1>9. DownStaysDown' /\ ChangeIsOf' /\ AgreedIsShown'
  BY <1>1 DEF Inv, DownStaysDown, ChangeIsOf, AgreedIsShown, verdict
<1> QED BY <1>3, <1>7, <1>8, <1>9 DEF Inv

LEMMA ControllerKeeps ==
    ASSUME Inv, NEW i \in Index,
           \/ onConnected(i) \/ serviceScanDone(i) \/ serviceStateChanged(i)
           \/ onDisconnected(i) \/ bleUartRx(i)
    PROVE  Inv'
<1>1. link[i] \in Phase /\ link = [link EXCEPT ![i] = link[i]]
  <2>1. Typed
    BY DEF Inv
  <2>2. link \in Seq(Phase)
    BY <2>1 DEF Typed
  <2> QED BY <2>1, <2>2, Indices
<1>2. ASSUME NEW from \in Phase, NEW to \in Phase, from # "down", from # "up",
             Goes(i, from, to), UNCHANGED ev, to # "up"
      PROVE  Inv'
  BY <1>2, SetUpKeeps DEF Goes
<1>3. ASSUME NEW phase \in {"discovering", "details"}, searchCharacteristic(i, phase)
      PROVE  Inv'
  <2>1. CASE Goes(i, phase, "stuck") /\ UNCHANGED ev
    BY <1>2, <2>1 DEF Phase
  <2>2. CASE Goes(i, phase, "up") /\ ev' = [ev EXCEPT ![i] = Append(@, Alive(TRUE))]
    BY <2>2, SetUpKeeps DEF Goes, Phase
  <2> QED BY <1>3, <2>1, <2>2, Zenon DEF searchCharacteristic
<1>4. CASE onConnected(i)
  BY <1>2, <1>4 DEF onConnected, Phase
<1>5. CASE serviceScanDone(i)
  BY <1>2, <1>3, <1>5 DEF serviceScanDone, Phase
<1>6. CASE serviceStateChanged(i)
  BY <1>3, <1>6 DEF serviceStateChanged
<1>7. CASE onDisconnected(i)
  <2>1. PICK from \in {"discovering", "details", "up", "stuck"} : Goes(i, from, "down")
    BY <1>7, Zenon DEF onDisconnected
  <2>2. ev' = [ev EXCEPT ![i] = Append(@, Alive(FALSE))]
    BY <1>7, Zenon DEF onDisconnected
  <2> QED BY <2>1, <2>2, SetUpKeeps DEF Goes, Phase
<1>8. CASE bleUartRx(i)
  <2>1. PICK s \in States : ev' = [ev EXCEPT ![i] = Append(@, MainState(s))]
    BY <1>8, Zenon DEF bleUartRx
  <2>2. link[i] = "up" /\ UNCHANGED <<presses, list, link, verdict>>
    BY <1>8, Zenon DEF bleUartRx
  <2>3. link' = [link EXCEPT ![i] = link[i]]
    BY <1>1, <2>2
  <2> QED BY <1>1, <2>1, <2>2, <2>3, SetUpKeeps
<1> QED BY <1>4, <1>5, <1>6, <1>7, <1>8

-----------------------------------------------------------------------------
(* The main thread *)

\* The event taken is the oldest; those left are what was behind it.
LEMMA Taken ==
    ASSUME Typed, NEW i \in Index, NEW e, Takes(i, e)
    PROVE  /\ e \in Event /\ ev[i][1] = e /\ 1 \in DOMAIN ev[i] /\ ev[i] # <<>>
           /\ ev' \in Seq(Seq(Event)) /\ Len(ev') = Len(ev)
           /\ ev'[i] \in Seq(Event) /\ Len(ev'[i]) = Len(ev[i]) - 1
           /\ \A k \in DOMAIN ev'[i] : k + 1 \in DOMAIN ev[i] /\ ev'[i][k] = ev[i][k + 1]
           /\ \A j \in Index : j # i => ev'[j] = ev[j]
<1>1. ev[i] \in Seq(Event) /\ ev[i] # <<>> /\ Head(ev[i]) = e /\ i \in DOMAIN ev
  BY Indices DEF Takes, Typed, Index
<1>2. PICK q : q = Tail(ev[i])
  OBVIOUS
<1>3. /\ q \in Seq(Event) /\ Len(q) = Len(ev[i]) - 1
      /\ \A k \in 1..Len(q) : q[k] = ev[i][k + 1]
  BY <1>1, <1>2
<1>4. ev' = [ev EXCEPT ![i] = q]
  BY <1>2 DEF Takes
<1>5. e \in Event /\ ev[i][1] = e /\ 1 \in DOMAIN ev[i]
  BY <1>1
<1>6. ev' \in Seq(Seq(Event)) /\ Len(ev') = Len(ev) /\ ev'[i] = q
  BY <1>1, <1>3, <1>4 DEF Typed
<1>7. \A j \in Index : j # i => ev'[j] = ev[j]
  BY <1>4 DEF Typed, Index
<1>8. \A k \in DOMAIN q : k + 1 \in DOMAIN ev[i] /\ q[k] = ev[i][k + 1]
  BY <1>1, <1>3
<1> QED BY <1>1, <1>3, <1>5, <1>6, <1>7, <1>8

\* What is left of the queue of a controller is still in order.
LEMMA QueueKeeps ==
    ASSUME Inv, NEW i \in Index, NEW e, Takes(i, e)
    PROVE  /\ \A k \in DOMAIN ev'[i] : ev'[i][k] = Alive(FALSE)
                                          => link[i] = "down" /\ k = Len(ev'[i])
           /\ e = Alive(FALSE) => link[i] = "down" /\ ev'[i] = <<>>
           /\ i \notin lost
           /\ (\E k \in DOMAIN ev'[i] : ev'[i][k] = Alive(TRUE))
                 => \E k \in DOMAIN ev[i] : ev[i][k] = Alive(TRUE)
<1>1. Typed
  BY DEF Inv
<1>2. /\ ev[i][1] = e /\ 1 \in DOMAIN ev[i] /\ ev[i] # <<>>
      /\ ev'[i] \in Seq(Event) /\ Len(ev'[i]) = Len(ev[i]) - 1
      /\ \A k \in DOMAIN ev'[i] : k + 1 \in DOMAIN ev[i] /\ ev'[i][k] = ev[i][k + 1]
  BY <1>1, Taken
<1>3. \A k \in DOMAIN ev[i] : ev[i][k] = Alive(FALSE) => link[i] = "down" /\ k = Len(ev[i])
  BY DEF Inv, LossIsLast
<1>4. Len(ev[i]) \in Nat /\ DOMAIN ev'[i] = 1..Len(ev'[i])
  BY <1>1, <1>2, Indices
<1>5. ASSUME NEW k \in DOMAIN ev'[i], ev'[i][k] = Alive(FALSE)
      PROVE  link[i] = "down" /\ k = Len(ev'[i])
  <2>1. link[i] = "down" /\ k + 1 = Len(ev[i])
    BY <1>2, <1>3, <1>5
  <2> QED BY <1>2, <1>4, <2>1
<1>6. e = Alive(FALSE) => link[i] = "down" /\ ev'[i] = <<>>
  <2> SUFFICES ASSUME e = Alive(FALSE) PROVE link[i] = "down" /\ ev'[i] = <<>>
    OBVIOUS
  <2>1. link[i] = "down" /\ 1 = Len(ev[i])
    BY <1>2, <1>3
  <2>2. Len(ev'[i]) = 0
    BY <1>2, <2>1
  <2> QED BY <1>2, <2>1, <2>2
<1>7. i \notin lost
  BY <1>2 DEF Inv, LossIsLast
<1>8. (\E k \in DOMAIN ev'[i] : ev'[i][k] = Alive(TRUE))
         => \E k \in DOMAIN ev[i] : ev[i][k] = Alive(TRUE)
  BY <1>2
<1> QED BY <1>5, <1>6, <1>7, <1>8

\* The list with one entry changed.
LEMMA EntryChanged ==
    ASSUME Typed, NEW i \in Index, NEW x \in Interface, list' = [list EXCEPT ![i] = x]
    PROVE  /\ list' \in Seq(Interface) /\ Len(list') = Len(list) /\ Index' = Index
           /\ list'[i] = x /\ \A j \in Index : j # i => list'[j] = list[j]
  BY DEF Typed, Index

\* A device comes or goes.
LEMMA AliveKeeps ==
    ASSUME Inv, NEW i \in Index, NEW b \in BOOLEAN, onConnAliveOfDevXChanged(i, b)
    PROVE  Inv'
<1>1. Typed /\ Takes(i, Alive(b)) /\ UNCHANGED <<presses, link, shown, changed>>
  BY Zenon DEF Inv, onConnAliveOfDevXChanged
<1>2. PICK x : x = [list[i] EXCEPT !.alive = b]
  OBVIOUS
<1>3. /\ x \in Interface
      /\ x.alive = b /\ x.last = list[i].last /\ x.atFirst = list[i].atFirst
  <2>1. list[i] \in Interface
    BY <1>1, Indices DEF Interface
  <2> QED BY <1>2, <2>1, Zenon DEF Interface
<1>4. list' = [list EXCEPT ![i] = x]
  BY <1>2 DEF onConnAliveOfDevXChanged
<1>5. /\ list' \in Seq(Interface) /\ Len(list') = Len(list) /\ Index' = Index
      /\ list'[i] = x /\ \A j \in Index : j # i => list'[j] = list[j]
  BY <1>1, <1>3, <1>4, EntryChanged
<1>6. /\ ev' \in Seq(Seq(Event)) /\ Len(ev') = Len(ev)
      /\ \A j \in Index : j # i => ev'[j] = ev[j]
  BY <1>1, Taken
<1>7. /\ connected' = (b /\ (connected \/ \A j \in Index : list'[j].alive))
      /\ lost' = IF b THEN lost ELSE lost \cup {i}
  BY Zenon DEF onConnAliveOfDevXChanged
<1>8. Typed'
  <2>1. connected' \in BOOLEAN /\ changed' \in BOOLEAN
    BY <1>1, <1>7 DEF Typed
  <2>2. lost' \subseteq Index'
    BY <1>1, <1>5, <1>7 DEF Typed
  <2> QED BY <1>1, <1>5, <1>6, <2>1, <2>2 DEF Typed
<1>9. /\ \A k \in DOMAIN ev'[i] : ev'[i][k] = Alive(FALSE) => link[i] = "down" /\ k = Len(ev'[i])
      /\ Alive(b) = Alive(FALSE) => link[i] = "down" /\ ev'[i] = <<>>
      /\ i \notin lost
      /\ (\E k \in DOMAIN ev'[i] : ev'[i][k] = Alive(TRUE))
            => \E k \in DOMAIN ev[i] : ev[i][k] = Alive(TRUE)
  BY <1>1, QueueKeeps
<1>10. LossIsLast'
  <2> SUFFICES ASSUME NEW j \in Index
               PROVE  /\ \A k \in DOMAIN ev'[j] : ev'[j][k] = Alive(FALSE)
                                                   => link[j] = "down" /\ k = Len(ev'[j])
                      /\ j \in lost' => link[j] = "down" /\ ev'[j] = <<>> /\ ~list'[j].alive
    BY <1>1, <1>5 DEF LossIsLast, Alive
  <2>1. CASE j # i
    <3>1. j \in lost' => j \in lost
      BY <1>7, <2>1
    <3> QED BY <1>5, <1>6, <2>1, <3>1 DEF Inv, LossIsLast
  <2>2. CASE j = i
    <3>1. i \in lost' => ~b
      BY <1>7, <1>9
    <3>2. ~b => link[i] = "down" /\ ev'[i] = <<>> /\ ~list'[i].alive
      <4>1. ~b => Alive(b) = Alive(FALSE) /\ b = FALSE
        OBVIOUS
      <4> QED BY <1>3, <1>5, <1>9, <4>1, Zenon
    <3> QED BY <1>9, <2>2, <3>1, <3>2
  <2> QED BY <2>1, <2>2
<1>11. AliveCameUp'
  <2> SUFFICES ASSUME NEW j \in Index
               PROVE  /\ (\E k \in DOMAIN ev'[j] : ev'[j][k] = Alive(TRUE))
                            => link[j] \in {"up", "down"}
                      /\ list'[j].alive => link[j] \in {"up", "down"} \/ list'[j].atFirst
    BY <1>1, <1>5 DEF AliveCameUp, Alive
  <2>1. CASE j # i
    BY <1>5, <1>6, <2>1 DEF Inv, AliveCameUp
  <2>2. CASE j = i
    <3>1. (\E k \in DOMAIN ev'[i] : ev'[i][k] = Alive(TRUE)) => link[i] \in {"up", "down"}
      BY <1>9 DEF Inv, AliveCameUp
    <3>2. b => link[i] \in {"up", "down"}
      <4> SUFFICES ASSUME b PROVE link[i] \in {"up", "down"}
        OBVIOUS
      <4>1. ev[i][1] = Alive(b) /\ 1 \in DOMAIN ev[i]
        BY <1>1, Taken
      <4>2. b = TRUE
        OBVIOUS
      <4>3. \E k \in DOMAIN ev[i] : ev[i][k] = Alive(TRUE)
        BY <4>1, <4>2, Zenon
      <4> QED BY <4>3 DEF Inv, AliveCameUp
    <3> QED BY <1>3, <1>5, <2>2, <3>1, <3>2
  <2> QED BY <2>1, <2>2
<1>12. DownStaysDown'
  <2> SUFFICES ASSUME lost' # {}, b PROVE ~connected'
    BY <1>7 DEF DownStaysDown
  <2>1. lost' = lost
    BY <1>7
  <2>2. ~connected
    BY <2>1 DEF Inv, DownStaysDown
  <2>3. PICK j \in lost : j \in Index /\ ~list[j].alive
    BY <1>1, <2>1 DEF Inv, LossIsLast, Typed
  <2>4. ~list'[j].alive
    BY <1>5, <1>9, <2>3
  <2> QED BY <1>7, <2>2, <2>3, <2>4
<1>13. \A j \in Index : list'[j].last = list[j].last
  BY <1>3, <1>5
<1>14. ChangeIsOf' /\ AgreedIsShown'
  <2>1. list # <<>> => list' # <<>>
    BY <1>1, <1>5 DEF Typed
  <2>2. ChangeIsOf'
    BY <1>1, <2>1 DEF Inv, ChangeIsOf
  <2>3. AgreedIsShown'
    BY <1>1, <1>5, <1>13 DEF Inv, AgreedIsShown
  <2> QED BY <2>2, <2>3
<1> QED BY <1>8, <1>10, <1>11, <1>12, <1>14 DEF Inv

\* A device reports its state.
LEMMA StateKeeps ==
    ASSUME Inv, NEW i \in Index, NEW s \in States, onAliveArrived(i, s)
    PROVE  Inv'
<1>1. Typed /\ Takes(i, MainState(s)) /\ UNCHANGED <<presses, link, connected, lost>>
  BY Zenon DEF Inv, onAliveArrived
<1>2. PICK x : x = [list[i] EXCEPT !.last = s]
  OBVIOUS
<1>3. /\ x \in Interface
      /\ x.alive = list[i].alive /\ x.last = s /\ x.atFirst = list[i].atFirst
  <2>1. list[i] \in Interface
    BY <1>1, Indices DEF Interface
  <2> QED BY <1>2, <2>1, Zenon DEF Interface
<1>4. list' = [list EXCEPT ![i] = x]
  BY <1>2 DEF onAliveArrived
<1>5. /\ list' \in Seq(Interface) /\ Len(list') = Len(list) /\ Index' = Index
      /\ list'[i] = x /\ \A j \in Index : j # i => list'[j] = list[j]
  BY <1>1, <1>3, <1>4, EntryChanged
<1>6. /\ ev' \in Seq(Seq(Event)) /\ Len(ev') = Len(ev)
      /\ \A j \in Index : j # i => ev'[j] = ev[j]
  BY <1>1, Taken
<1>7. /\ changed' = (changed \/ list[i].last # s)
      /\ shown' = IF list[i].last # s THEN MainStateChanged(i, s) ELSE shown
  BY Zenon DEF onAliveArrived
<1>8. Typed'
  <2>1. connected' \in BOOLEAN /\ changed' \in BOOLEAN
    BY <1>1, <1>7 DEF Typed
  <2>2. shown' \in States \cup {Unshown}
    <3>1. shown' \in {shown, s}
      BY <1>7 DEF MainStateChanged
    <3> QED BY <1>1, <3>1 DEF Typed
  <2> QED BY <1>1, <1>5, <1>6, <2>1, <2>2 DEF Typed
<1>9. /\ \A k \in DOMAIN ev'[i] : ev'[i][k] = Alive(FALSE) => link[i] = "down" /\ k = Len(ev'[i])
      /\ i \notin lost
      /\ (\E k \in DOMAIN ev'[i] : ev'[i][k] = Alive(TRUE))
            => \E k \in DOMAIN ev[i] : ev[i][k] = Alive(TRUE)
  BY <1>1, QueueKeeps
<1>10. LossIsLast'
  <2> SUFFICES ASSUME NEW j \in Index
               PROVE  /\ \A k \in DOMAIN ev'[j] : ev'[j][k] = Alive(FALSE)
                                                   => link[j] = "down" /\ k = Len(ev'[j])
                      /\ j \in lost => link[j] = "down" /\ ev'[j] = <<>> /\ ~list'[j].alive
    BY <1>1, <1>5 DEF LossIsLast, Alive
  <2>1. CASE j # i
    BY <1>5, <1>6, <2>1 DEF Inv, LossIsLast
  <2>2. CASE j = i
    BY <1>9, <2>2
  <2> QED BY <2>1, <2>2
<1>11. AliveCameUp'
  <2> SUFFICES ASSUME NEW j \in Index
               PROVE  /\ (\E k \in DOMAIN ev'[j] : ev'[j][k] = Alive(TRUE))
                            => link[j] \in {"up", "down"}
                      /\ list'[j].alive => link[j] \in {"up", "down"} \/ list'[j].atFirst
    BY <1>1, <1>5 DEF AliveCameUp, Alive
  <2>1. CASE j # i
    BY <1>5, <1>6, <2>1 DEF Inv, AliveCameUp
  <2>2. CASE j = i
    <3>1. (\E k \in DOMAIN ev'[i] : ev'[i][k] = Alive(TRUE)) => link[i] \in {"up", "down"}
      BY <1>9 DEF Inv, AliveCameUp
    <3>2. list[i].alive => link[i] \in {"up", "down"} \/ list[i].atFirst
      BY DEF Inv, AliveCameUp
    <3> QED BY <1>3, <1>5, <2>2, <3>1, <3>2
  <2> QED BY <2>1, <2>2
<1>12. DownStaysDown' /\ ChangeIsOf'
  BY <1>1, <1>5 DEF Inv, DownStaysDown, ChangeIsOf, Typed, Index
<1>13. AgreedIsShown'
  <2> SUFFICES ASSUME NEW t \in States, changed', t < 256 \/ Len(list) = 1,
                      \A j \in Index : list'[j].last = t
               PROVE  shown' = t
    BY <1>5 DEF AgreedIsShown
  <2>1. t = s
    BY <1>3, <1>5
  <2>2. CASE list[i].last = s
    <3>1. \A j \in Index : list[j].last = s
      BY <1>5, <2>1, <2>2
    <3> QED BY <1>7, <2>1, <2>2, <3>1 DEF Inv, AgreedIsShown
  <2>3. CASE list[i].last # s
    <3>1. ASSUME NEW j \in Index \ {i} PROVE getLastMainState(list'[j]) = s
      <4>1. list'[j].last = s
        BY <2>1
      <4>2. s < 256
        <5>1. Len(list) = 1 => Index = {1}
          BY <1>1, Indices
        <5> QED BY <2>1, <3>1, <5>1
      <4>3. s % 256 = s
        <5>1. s \in 0..255
          BY <4>2, ConnectionAssumption
        <5> QED BY <5>1
      <4> QED BY <4>1, <4>3 DEF getLastMainState
    <3>2. ASSUME NEW j \in Index \ {i} PROVE getLastMainState(list[j]) = s
      <4>1. list'[j] = list[j]
        BY <1>5
      <4> QED BY <3>1, <4>1, Zenon DEF getLastMainState
    <3>3. MainStateChanged(i, s) = s
      BY <3>2, Zenon DEF MainStateChanged
    <3> QED BY <1>7, <2>1, <2>3, <3>3
  <2> QED BY <2>2, <2>3
<1> QED BY <1>8, <1>10, <1>11, <1>12, <1>13 DEF Inv

LEMMA InvNext == Inv /\ [Next]_vars => Inv'
<1> SUFFICES ASSUME Inv, [Next]_vars PROVE Inv'
  OBVIOUS
<1>1. CASE connectToSelectedDevices
  BY <1>1, ConnectKeeps
<1>2. ASSUME NEW i \in Index,
             \/ onConnected(i) \/ serviceScanDone(i) \/ serviceStateChanged(i)
             \/ onDisconnected(i) \/ bleUartRx(i)
      PROVE  Inv'
  BY <1>2, ControllerKeeps
<1>3. ASSUME NEW i \in Index, MainThread(i) PROVE Inv'
  BY <1>3, AliveKeeps, StateKeeps DEF MainThread
<1>4. CASE UNCHANGED vars
  BY <1>4 DEF vars, verdict, Inv, Typed, LossIsLast, AliveCameUp, DownStaysDown, ChangeIsOf,
              AgreedIsShown, Index
<1> QED BY <1>1, <1>2, <1>3, <1>4 DEF Next

-----------------------------------------------------------------------------
(* The theorems *)

LEMMA Invariance == Spec => []Inv
  BY InvInit, InvNext, PTL DEF Spec

\* Every variable of Connection keeps its type.
THEOREM TypeCorrect == Spec => []TypeOK
<1>1. Inv => TypeOK
  BY TypedIsEnough DEF Inv
<1> QED BY <1>1, Invariance, PTL

\* A loss that has been handled is final, whoever comes up after it.
THEOREM DownStaysDownHolds == Spec => []DownStaysDown
<1>1. Inv => DownStaysDown
  BY DEF Inv
<1> QED BY <1>1, Invariance, PTL

\* Devices that agree on a state of 8 bits are shown with it.
THEOREM AgreedIsShownHolds == Spec => []AgreedIsShown
<1>1. Inv => AgreedIsShown
  BY DEF Inv
<1> QED BY <1>1, Invariance, PTL

\* Nothing but the event of a device that has come up makes the devices connected.
LEMMA ConnectedByAll ==
    ASSUME Inv, [Next]_vars, ~connected, connected'
    PROVE  lost = {} /\ \A j \in Index : link[j] \in {"up", "down"} \/ list[j].atFirst
<1>1. PICK i \in Index, b \in BOOLEAN : onConnAliveOfDevXChanged(i, b)
  <2>1. connected' # connected
    OBVIOUS
  <2>2. ~connectToSelectedDevices /\ ~UNCHANGED vars
    BY <2>1, Zenon DEF connectToSelectedDevices, vars, verdict
  <2>3. ASSUME NEW i \in Index
        PROVE  /\ ~onConnected(i) /\ ~serviceScanDone(i) /\ ~serviceStateChanged(i)
               /\ ~onDisconnected(i) /\ ~bleUartRx(i)
               /\ \A s \in States : ~onAliveArrived(i, s)
    <3>1. ASSUME NEW from, NEW to PROVE ~Goes(i, from, to)
      BY <2>1, Zenon DEF Goes, verdict
    <3>2. ~bleUartRx(i) /\ \A s \in States : ~onAliveArrived(i, s)
      BY <2>1, Zenon DEF bleUartRx, onAliveArrived, verdict
    <3> QED BY <3>1, <3>2, Zenon DEF onConnected, serviceScanDone, serviceStateChanged,
                                     searchCharacteristic, onDisconnected
  <2> QED BY <2>2, <2>3, Zenon DEF Next, MainThread
<1>2. /\ Typed /\ Takes(i, Alive(b))
      /\ list' = [list EXCEPT ![i].alive = b]
      /\ connected' = (b /\ (connected \/ \A j \in Index : list'[j].alive))
  BY <1>1, Zenon DEF onConnAliveOfDevXChanged, Inv
<1>3. b = TRUE /\ \A j \in Index : list'[j].alive
  BY <1>2
<1>4. i \notin lost /\ link[i] \in {"up", "down"}
  <2>1. i \notin lost /\ ev[i][1] = Alive(TRUE) /\ 1 \in DOMAIN ev[i]
    BY <1>2, <1>3, QueueKeeps, Taken
  <2> QED BY <2>1 DEF Inv, AliveCameUp
<1>5. ASSUME NEW j \in Index, j # i
      PROVE  j \notin lost /\ (link[j] \in {"up", "down"} \/ list[j].atFirst)
  <2>1. list'[j] = list[j]
    BY <1>2, <1>5 DEF Index
  <2>2. list[j].alive
    BY <1>3, <2>1
  <2> QED BY <2>2 DEF Inv, LossIsLast, AliveCameUp
<1>6. lost = {}
  BY <1>2, <1>4, <1>5 DEF Typed
<1> QED BY <1>4, <1>5, <1>6

\* "Connected" comes up when no loss has been handled and every device has come
\* up, whatever the flags of the interfaces begin as: only a device whose flag
\* began as TRUE is taken for connected without that.
THEOREM ConnectedMeansAllHolds == Spec => ConnectedMeansAll
<1>1. Inv /\ [Next]_vars =>
         [~connected /\ connected' =>
             /\ lost = {}
             /\ \A i \in Index : link[i] \in {"up", "down"} \/ list[i].atFirst]_vars
  BY ConnectedByAll
<1> QED BY <1>1, Invariance, PTL DEF Spec, ConnectedMeansAll
=============================================================================
