---------------------------- MODULE ConnModeProofs ----------------------------
(***************************************************************************)
(* Proofs about ConnMode, for any number of devices, retries and           *)
(* procedures.                                                             *)
(*                                                                         *)
(* remaining_c is one number for three procedures, so the argument is      *)
(* about the one that began alone: it is the only one that waits, each     *)
(* device has at most one thing under way, and as long as no device has    *)
(* failed the counter is the number of devices that owe theirs.  An answer *)
(* that brings the counter to zero is therefore the last one.              *)
(***************************************************************************)
EXTENDS ConnMode, FiniteSetTheorems, TLAPS

Waiting(k) == state[k] = "SETTING_CONN_MODE"
Owing == {d \in Dev : Owes(d)}

OneWaits ==
    /\ \A j, k \in Kind : Waiting(j) /\ Waiting(k) => j = k
    /\ \A k \in {"ts", "dl"} : Waiting(k) => \A d \in Dev : <<k, d>> \notin work
OneEach == \A d \in Dev : Load(d) <= 1
Counts == remaining > 0 => remaining = Cardinality(Owing)
Heard ==
    remaining > 0 =>
        \A k \in Kind : Waiting(k) => \A d \in Concerned(k) : Owes(d) \/ d \in reached

Alone == alone => OneWaits /\ OneEach /\ Counts /\ Heard

Inv == TypeOK /\ WaitingMeansNotThere /\ Alone

-----------------------------------------------------------------------------
(* What is under way *)

LEMMA LoadType ==
    ASSUME TypeOK, NEW d \in Dev
    PROVE  /\ Load(d) \in Nat
           /\ Load(d) = 0 => calls[d] = 0 /\ ~waits[d] /\ Len(answers[d]) = 0
<1>1. calls[d] \in Nat /\ Len(answers[d]) \in Nat /\ waits[d] \in BOOLEAN
  BY DEF TypeOK
<1> HIDE DEF TypeOK
<1>2. CASE waits[d]
  BY <1>1, <1>2 DEF Load
<1>3. CASE ~waits[d]
  BY <1>1, <1>3 DEF Load
<1> QED BY <1>2, <1>3

LEMMA DevFinite == IsFiniteSet(Dev) /\ Cardinality(Dev) = N
<1>1. N \in Nat /\ 0 \in Int /\ N - 1 \in Int
  BY ConnModeAssumption
<1>2. IsFiniteSet(0..(N - 1)) /\ Cardinality(0..(N - 1)) = IF 0 > N - 1 THEN 0 ELSE (N - 1) - 0 + 1
  BY <1>1, FS_Interval
<1>3. N > 0
  BY ConnModeAssumption
<1> QED BY <1>1, <1>2, <1>3 DEF Dev

LEMMA OwingFinite == IsFiniteSet(Owing) /\ Cardinality(Owing) \in Nat
<1>1. Owing \subseteq Dev
  BY DEF Owing
<1> QED BY <1>1, DevFinite, FS_Subset, FS_CardinalityType

LEMMA ConcernedInDev == TypeOK => \A k \in Kind : Concerned(k) \subseteq Dev
  BY DEF TypeOK, Concerned, Kind

\* A step that changes the load of no device, what waits or what has been heard.
LEMMA SameLoad ==
    ASSUME TypeOK, Alone, UNCHANGED <<remaining, id, alone, reached>>,
           \A k \in Kind : Waiting(k)' => Waiting(k),
           work' \subseteq work,
           alone => \A d \in Dev : Load(d)' = Load(d)
    PROVE  Alone'
<1> SUFFICES ASSUME alone' PROVE OneWaits' /\ OneEach' /\ Counts' /\ Heard'
  BY DEF Alone
<1>1. OneWaits /\ OneEach /\ Counts /\ Heard /\ \A d \in Dev : Load(d)' = Load(d)
  BY DEF Alone
<1>2. \A d \in Dev : Owes(d)' <=> Owes(d)
  BY <1>1 DEF Owes
<1>3. Owing' = Owing
  BY <1>2 DEF Owing
<1>4. OneWaits'
  BY <1>1 DEF OneWaits, Kind
<1>5. OneEach'
  BY <1>1 DEF OneEach
<1>6. Counts'
  BY <1>1, <1>3 DEF Counts
<1>7. Heard'
  <2>1. \A k \in Kind : Concerned(k)' = Concerned(k) /\ Concerned(k) \subseteq Dev
    BY ConcernedInDev DEF Concerned
  <2> QED BY <1>1, <1>2, <2>1 DEF Heard
<1> QED BY <1>4, <1>5, <1>6, <1>7

-----------------------------------------------------------------------------
(* CatchController *)

\* A procedure that begins with nothing under way is the only one, and each
\* device it asks owes one answer.
LEMMA AskKeeps ==
    ASSUME TypeOK, NEW kind \in Kind, NEW devices \in SUBSET Dev,
           Ask(kind, devices), Concerned(kind)' \subseteq devices
    PROVE  Alone'
<1> SUFFICES ASSUME alone' PROVE OneWaits' /\ OneEach' /\ Counts' /\ Heard'
  BY DEF Alone
<1>1. /\ \A k \in Kind : ~Waiting(k)
      /\ \A d \in Dev : ~Owes(d) /\ <<kind, d>> \notin work'
  BY DEF Ask, Quiet, Waiting
<1>2. \A k \in Kind : Waiting(k)' <=> k = kind
  BY <1>1 DEF Ask, Waiting, TypeOK
<1>3. ASSUME NEW d \in Dev PROVE Load(d) = 0
  <2>1. Load(d) \in Nat
    BY LoadType
  <2>2. ~Owes(d)
    BY <1>1
  <2>3. ~(Load(d) > 0)
    BY <2>2 DEF Owes
  <2> QED BY <2>1, <2>3
<1>4. \A d \in Dev : calls[d] = 0 /\ ~waits[d] /\ Len(answers[d]) = 0
  BY <1>3, LoadType
<1>5. \A d \in Dev : Load(d)' = IF d \in devices THEN 1 ELSE 0
  BY <1>4 DEF Ask, Load
<1>6. \A d \in Dev : Owes(d)' <=> d \in devices
  BY <1>5 DEF Owes
<1>7. Owing' = devices
  BY <1>6 DEF Owing
<1>8. OneWaits'
  <2>1. \A j, k \in Kind : Waiting(j)' /\ Waiting(k)' => j = k
    BY <1>2
  <2>2. \A k \in {"ts", "dl"} : Waiting(k)' => k = kind
    BY <1>2 DEF Kind
  <2> QED BY <1>1, <2>1, <2>2 DEF OneWaits
<1>9. OneEach'
  BY <1>5 DEF OneEach
<1>10. Counts'
  BY <1>7 DEF Counts, Ask
<1>11. Heard'
  BY <1>2, <1>6 DEF Heard
<1> QED BY <1>8, <1>9, <1>10, <1>11

\* The types that a procedure touches when it begins.
LEMMA AskTypes ==
    ASSUME TypeOK, NEW kind \in Kind, NEW devices \in SUBSET Dev, Ask(kind, devices)
    PROVE  /\ state' \in [Kind -> States]
           /\ remaining' \in Int
           /\ calls' \in [Dev -> Nat]
           /\ alone' \in BOOLEAN /\ reached' \subseteq Dev
           /\ UNCHANGED <<fast, waits, retries, answers>>
<1>1. state' \in [Kind -> States]
  BY DEF Ask, TypeOK, States
<1>2. remaining' \in Int
  <2>1. IsFiniteSet(devices)
    BY DevFinite, FS_Subset
  <2> QED BY <2>1, FS_CardinalityType DEF Ask
<1>3. calls' \in [Dev -> Nat]
  BY DEF Ask, TypeOK
<1>4. alone' \in BOOLEAN
  BY DEF Ask, Quiet
<1> QED BY <1>1, <1>2, <1>3, <1>4 DEF Ask

LEMMA StartOfDevXKeeps ==
    ASSUME TypeOK, WaitingMeansNotThere, NEW k \in {"ts", "dl"}, NEW d \in Dev,
           StartOfDevX(k, d), work' \subseteq work, begun' \in Nat, told' \in BOOLEAN
    PROVE  Inv'
<1>1. Ask(k, {d}) /\ k \in Kind /\ {d} \in SUBSET Dev
  BY DEF StartOfDevX, Kind
<1>2. id' \in [{"ts", "dl"} -> Dev] /\ id'[k] = d /\ timer' \subseteq {"ts", "dl"}
  BY DEF StartOfDevX, TypeOK
<1>3. Alone'
  <2>1. Concerned(k)' \subseteq {d}
    BY <1>2 DEF Concerned
  <2> QED BY <1>1, <2>1, AskKeeps
<1>4. /\ state' \in [Kind -> States] /\ remaining' \in Int /\ calls' \in [Dev -> Nat]
      /\ alone' \in BOOLEAN /\ reached' \subseteq Dev
      /\ UNCHANGED <<fast, waits, retries, answers>>
  BY <1>1, AskTypes
<1>5. TypeOK'
  BY <1>2, <1>4 DEF TypeOK
<1>6. WaitingMeansNotThere'
  BY <1>4 DEF WaitingMeansNotThere, isDeviceInRequestedConnState
<1> QED BY <1>3, <1>5, <1>6 DEF Inv

LEMMA StartAllKeeps ==
    ASSUME Inv, NEW k \in {"ts", "dl"}, StartAll(k) PROVE Inv'
<1>1. StartOfDevX(k, 0) /\ work' = work /\ begun' \in Nat /\ told' \in BOOLEAN
  BY DEF StartAll, Inv, TypeOK
<1>2. 0 \in Dev
  BY ConnModeAssumption DEF Dev
<1> QED BY <1>1, <1>2, StartOfDevXKeeps DEF Inv

LEMMA StartKeeps ==
    ASSUME Inv, sendStartToAllDevices PROVE Inv'
<1>0. TypeOK
  BY DEF Inv
<1>1. Ask("start", Dev) /\ UNCHANGED <<id, timer, work>> /\ begun' \in Nat /\ told' \in BOOLEAN
  <2>1. Ask("start", Dev) /\ UNCHANGED <<id, timer, work>> /\ begun' = begun + 1 /\ told' = FALSE
    BY DEF sendStartToAllDevices
  <2>2. begun \in Nat
    BY <1>0 DEF TypeOK
  <2>3. begun' \in Nat
    BY <2>1, <2>2
  <2>4. told' \in BOOLEAN
    BY <2>1
  <2> QED BY <2>1, <2>3, <2>4
<1>2. "start" \in Kind /\ Dev \in SUBSET Dev /\ Concerned("start")' \subseteq Dev
  BY DEF Kind, Concerned
<1>3. Alone'
  BY <1>1, <1>2, AskKeeps DEF Inv
<1>4. /\ state' \in [Kind -> States] /\ remaining' \in Int /\ calls' \in [Dev -> Nat]
      /\ alone' \in BOOLEAN /\ reached' \subseteq Dev
      /\ UNCHANGED <<fast, waits, retries, answers>>
  BY <1>1, <1>2, AskTypes DEF Inv
<1>5. TypeOK'
  BY <1>1, <1>4 DEF Inv, TypeOK
<1>6. WaitingMeansNotThere'
  BY <1>4 DEF Inv, WaitingMeansNotThere, isDeviceInRequestedConnState
<1> QED BY <1>3, <1>5, <1>6 DEF Inv

\* An answer: the last one that is owed, if it brings the counter to zero.
LEMMA AnswerKeeps ==
    ASSUME Inv, NEW d \in Dev, onConnUpdateOfDevXfinished(d) PROVE Inv'
<1>1. /\ TypeOK /\ answers[d] \in Seq(BOOLEAN) /\ answers[d] # <<>>
      /\ answers' = [answers EXCEPT ![d] = Tail(answers[d])]
      /\ UNCHANGED <<id, calls, fast, waits, retries, begun, alone>>
  BY DEF Inv, TypeOK, onConnUpdateOfDevXfinished
<1>2. PICK success \in BOOLEAN :
        /\ remaining' = (IF success THEN remaining ELSE 0) - 1
        /\ told' = (told \/ ~success)
        /\ reached' = IF success THEN reached \cup {d} ELSE reached
  <2>1. Head(answers[d]) \in BOOLEAN
    BY <1>1
  <2> QED BY <2>1 DEF onConnUpdateOfDevXfinished
<1>3. IF remaining' = 0 THEN GoOn ELSE UNCHANGED <<state, timer, work>>
  BY DEF onConnUpdateOfDevXfinished
<1>4. /\ state' \in [Kind -> States]
      /\ timer' \subseteq {"ts", "dl"}
      /\ work' \subseteq {"ts", "dl"} \X Dev
  <2>1. CASE remaining' = 0
    <3>1. GoOn
      BY <1>3, <2>1
    <3>2. state' \in [Kind -> States]
      BY <1>1, <3>1 DEF GoOn, TypeOK, States
    <3>3. timer' \subseteq {"ts", "dl"}
      BY <1>1, <3>1 DEF GoOn, TypeOK, Kind
    <3>4. \A k \in Kind \ {"start"} : <<k, id[k]>> \in {"ts", "dl"} \X Dev
      BY <1>1 DEF TypeOK, Kind
    <3>5. work' \subseteq {"ts", "dl"} \X Dev
      BY <1>1, <3>1, <3>4 DEF GoOn, TypeOK
    <3> QED BY <3>2, <3>3, <3>5
  <2>2. CASE remaining' # 0
    BY <1>1, <1>3, <2>2 DEF TypeOK
  <2> QED BY <2>1, <2>2
<1>5. answers' \in [Dev -> Seq(BOOLEAN)] /\ Len(answers[d]) \in Nat \ {0}
      /\ Len(answers'[d]) = Len(answers[d]) - 1
      /\ \A e \in Dev \ {d} : answers'[e] = answers[e]
  BY <1>1 DEF TypeOK
<1>6. TypeOK'
  <2>1. remaining' \in Int
    BY <1>1, <1>2 DEF TypeOK
  <2>2. told' \in BOOLEAN /\ reached' \subseteq Dev
    BY <1>1, <1>2 DEF TypeOK
  <2> QED BY <1>1, <1>4, <1>5, <2>1, <2>2 DEF TypeOK
<1>7. WaitingMeansNotThere'
  BY <1>1 DEF Inv, WaitingMeansNotThere, isDeviceInRequestedConnState
<1>8. \A e \in Dev : Load(e)' = IF e = d THEN Load(e) - 1 ELSE Load(e)
  <2>1. calls[d] \in Nat /\ waits[d] \in BOOLEAN
    BY <1>1 DEF TypeOK
  <2>2. Load(d)' = Load(d) - 1
    BY <1>1, <1>5, <2>1 DEF Load
  <2>3. \A e \in Dev \ {d} : Load(e)' = Load(e)
    BY <1>1, <1>5 DEF Load
  <2> QED BY <2>2, <2>3
<1>9. ASSUME alone' PROVE OneWaits' /\ OneEach' /\ Counts' /\ Heard'
  <2>1. OneWaits /\ OneEach /\ Counts /\ Heard
    BY <1>1, <1>9 DEF Inv, Alone
  <2>2. \A e \in Dev : Load(e) \in Nat /\ Load(e) <= 1
    BY <1>1, <2>1, LoadType DEF OneEach
  <2>3. Load(d) = 1
    <3>1. Load(d) # 0
      BY <1>1, <1>5, LoadType
    <3> QED BY <2>2, <3>1
  <2>4. OneEach'
    BY <1>8, <2>2 DEF OneEach
  <2>5. \A e \in Dev : Owes(e)' <=> Owes(e) /\ e # d
    BY <1>8, <2>2, <2>3 DEF Owes
  <2>6. Owing' = Owing \ {d} /\ d \in Owing
    BY <2>3, <2>5 DEF Owing, Owes
  <2>7. Cardinality(Owing') = Cardinality(Owing) - 1 /\ Cardinality(Owing) \in Nat
    BY <2>6, OwingFinite, FS_RemoveElement
  <2>8. CASE remaining' = 0
    <3>1. \A k \in Kind : ~Waiting(k)'
      BY <1>1, <1>3, <2>8 DEF GoOn, Waiting, TypeOK
    <3> QED BY <2>4, <2>8, <3>1 DEF OneWaits, Kind, Counts, Heard
  <2>9. CASE remaining' # 0
    <3>1. UNCHANGED <<state, timer, work>>
      BY <1>3, <2>9
    <3>2. OneWaits'
      BY <2>1, <3>1 DEF OneWaits, Waiting
    <3>3. remaining' > 0 => /\ remaining > 0 /\ remaining' = remaining - 1
                            /\ reached' = reached \cup {d}
      BY <1>1, <1>2 DEF TypeOK
    <3>4. Counts'
      BY <2>1, <2>7, <3>3 DEF Counts
    <3>5. Heard'
      <4>1. \A k \in Kind : Concerned(k)' = Concerned(k) /\ Concerned(k) \subseteq Dev
        BY <1>1, ConcernedInDev DEF Concerned
      <4>2. \A k \in Kind : Waiting(k)' <=> Waiting(k)
        BY <3>1 DEF Waiting
      <4> QED BY <2>1, <2>5, <3>3, <4>1, <4>2 DEF Heard
    <3> QED BY <2>4, <3>2, <3>4, <3>5
  <2> QED BY <2>8, <2>9
<1> QED BY <1>6, <1>7, <1>9 DEF Inv, Alone

LEMMA TimerKeeps ==
    ASSUME Inv, NEW k \in {"ts", "dl"}, TimerExpired(k) PROVE Inv'
<1>1. /\ UNCHANGED <<state, remaining, id, work, device, begun, alone, reached>>
      /\ timer' \subseteq timer /\ told' \in BOOLEAN
  BY DEF TimerExpired
<1>2. TypeOK'
  BY <1>1 DEF Inv, TypeOK, device
<1>3. WaitingMeansNotThere'
  BY <1>1 DEF Inv, WaitingMeansNotThere, isDeviceInRequestedConnState, device
<1>4. Alone'
  <2>1. \A e \in Dev : Load(e)' = Load(e)
    BY <1>1 DEF Load, device
  <2>2. \A j \in Kind : Waiting(j)' => Waiting(j)
    BY <1>1 DEF Waiting
  <2> QED BY <1>1, <2>1, <2>2, SameLoad DEF Inv
<1> QED BY <1>2, <1>3, <1>4 DEF Inv

LEMMA FinishKeeps ==
    ASSUME Inv, NEW k \in {"ts", "dl"}, NEW d \in Dev, NEW ok \in BOOLEAN,
           OfDevXFinished(k, d, ok)
    PROVE  Inv'
<1>1. work' = work \ {<<k, d>>} /\ begun' = begun /\ told' = (told \/ ~ok)
  BY DEF OfDevXFinished
<1>2. CASE d + 1 < N
  <2>1. d + 1 \in Dev /\ StartOfDevX(k, d + 1)
    BY <1>2, ConnModeAssumption DEF OfDevXFinished, Dev
  <2>2. work' \subseteq work /\ begun' \in Nat
    BY <1>1 DEF Inv, TypeOK
  <2>3. told' \in BOOLEAN
    BY <1>1
  <2> QED BY <2>1, <2>2, <2>3, StartOfDevXKeeps DEF Inv
<1>3. CASE ~(d + 1 < N)
  <2>1. /\ timer' = timer \ {k}
        /\ state' = [state EXCEPT ![k] = "NOT_RUNNING"]
        /\ UNCHANGED <<remaining, id, device, alone, reached>>
    BY <1>3 DEF OfDevXFinished
  <2>2. TypeOK'
    <3>1. state' \in [Kind -> States]
      BY <2>1 DEF Inv, TypeOK, Kind, States
    <3>2. told' \in BOOLEAN
      BY <1>1
    <3> QED BY <1>1, <2>1, <3>1, <3>2 DEF Inv, TypeOK, device
  <2>3. WaitingMeansNotThere'
    BY <2>1 DEF Inv, WaitingMeansNotThere, isDeviceInRequestedConnState, device
  <2>4. Alone'
    <3>1. \A e \in Dev : Load(e)' = Load(e)
      BY <2>1 DEF Load, device
    <3>2. \A j \in Kind : Waiting(j)' => Waiting(j)
      BY <2>1 DEF Waiting, Inv, TypeOK
    <3> QED BY <1>1, <2>1, <3>1, <3>2, SameLoad DEF Inv
  <2> QED BY <2>2, <2>3, <2>4 DEF Inv
<1> QED BY <1>2, <1>3

-----------------------------------------------------------------------------
(* DeviceController *)

\* A call becomes an answer or a wait.  With one call under way there is no wait
\* that it could meet.
LEMMA CallKeeps ==
    ASSUME Inv, NEW d \in Dev, startConnModeChangeProcedure(d) PROVE Inv'
<1>1. /\ TypeOK /\ calls[d] \in Nat /\ calls[d] > 0
      /\ calls' = [calls EXCEPT ![d] = calls[d] - 1]
      /\ UNCHANGED <<central, fast, begun, alone, reached, told>>
  BY DEF Inv, TypeOK, startConnModeChangeProcedure
<1>2. \/ /\ fast[d]
         /\ answers' = [answers EXCEPT ![d] = Append(answers[d], TRUE)]
         /\ UNCHANGED <<waits, retries>>
      \/ /\ ~fast[d]
         /\ retries' = [retries EXCEPT ![d] = Retries]
         /\ waits' = [waits EXCEPT ![d] = TRUE]
         /\ UNCHANGED answers
  BY DEF startConnModeChangeProcedure, isDeviceInRequestedConnState
<1>3. /\ calls' \in [Dev -> Nat] /\ answers' \in [Dev -> Seq(BOOLEAN)]
      /\ waits' \in [Dev -> BOOLEAN] /\ retries' \in [Dev -> 0..Retries]
  <2>1. calls' \in [Dev -> Nat]
    BY <1>1 DEF TypeOK
  <2>2. answers' \in [Dev -> Seq(BOOLEAN)]
    <3>1. answers[d] \in Seq(BOOLEAN) /\ answers \in [Dev -> Seq(BOOLEAN)]
      BY <1>1 DEF TypeOK
    <3>2. Append(answers[d], TRUE) \in Seq(BOOLEAN)
      BY <3>1
    <3> QED BY <1>2, <3>1, <3>2
  <2>3. waits' \in [Dev -> BOOLEAN]
    BY <1>1, <1>2 DEF TypeOK
  <2>4. retries' \in [Dev -> 0..Retries]
    <3>1. Retries \in 0..Retries /\ retries \in [Dev -> 0..Retries]
      BY <1>1, ConnModeAssumption DEF TypeOK
    <3> QED BY <1>2, <3>1
  <2> QED BY <2>1, <2>2, <2>3, <2>4
<1>4. TypeOK'
  BY <1>1, <1>3 DEF TypeOK, central
<1>5. WaitingMeansNotThere'
  BY <1>1, <1>2 DEF Inv, TypeOK, WaitingMeansNotThere, isDeviceInRequestedConnState
<1>6. ASSUME alone PROVE \A e \in Dev : Load(e)' = Load(e)
  <2>1. Load(d) <= 1
    BY <1>6 DEF Inv, Alone, OneEach
  <2>2. Len(answers[d]) \in Nat /\ waits[d] \in BOOLEAN /\ answers[d] \in Seq(BOOLEAN)
    BY <1>1 DEF TypeOK
  <2>3. ~waits[d] /\ calls[d] = 1 /\ Len(answers[d]) = 0
    BY <1>1, <2>1, <2>2 DEF Load
  <2>4. Load(d)' = Load(d)
    <3>1. calls'[d] = 0
      BY <1>1, <2>3 DEF TypeOK
    <3>2. CASE fast[d]
      <4>1. Len(answers'[d]) = 1 /\ waits'[d] = waits[d]
        BY <1>1, <1>2, <2>2, <2>3, <3>2 DEF TypeOK
      <4> QED BY <2>3, <3>1, <4>1 DEF Load
    <3>3. CASE ~fast[d]
      <4>1. answers'[d] = answers[d] /\ waits'[d]
        BY <1>1, <1>2, <3>3 DEF TypeOK
      <4> QED BY <2>3, <3>1, <4>1 DEF Load
    <3> QED BY <3>2, <3>3
  <2>5. ASSUME NEW e \in Dev \ {d} PROVE Load(e)' = Load(e)
    <3>1. calls'[e] = calls[e] /\ waits'[e] = waits[e] /\ answers'[e] = answers[e]
      BY <1>1, <1>2 DEF TypeOK
    <3> QED BY <3>1 DEF Load
  <2> QED BY <2>4, <2>5
<1>7. Alone'
  <2>1. \A j \in Kind : Waiting(j)' => Waiting(j)
    BY <1>1 DEF Waiting, central
  <2>2. UNCHANGED <<remaining, id, alone, reached>> /\ work' \subseteq work
    BY <1>1 DEF central
  <2> QED BY <1>1, <1>6, <2>1, <2>2, SameLoad DEF Inv
<1> QED BY <1>4, <1>5, <1>7 DEF Inv

\* A wait of d becomes an answer.
WaitEnds(d, success) ==
    /\ waits[d]
    /\ waits' = [waits EXCEPT ![d] = FALSE]
    /\ answers' = [answers EXCEPT ![d] = Append(answers[d], success)]
    /\ UNCHANGED <<central, calls, begun, alone, reached, told>>

LEMMA WaitEndsLoad ==
    ASSUME TypeOK, NEW d \in Dev, NEW success \in BOOLEAN, WaitEnds(d, success)
    PROVE  /\ \A e \in Dev : Load(e)' = Load(e)
           /\ answers' \in [Dev -> Seq(BOOLEAN)] /\ waits' \in [Dev -> BOOLEAN]
<1>1. /\ answers[d] \in Seq(BOOLEAN) /\ calls[d] \in Nat /\ waits[d]
      /\ waits' = [waits EXCEPT ![d] = FALSE]
      /\ answers' = [answers EXCEPT ![d] = Append(answers[d], success)]
      /\ calls' = calls
  BY DEF TypeOK, WaitEnds
<1>2. answers' \in [Dev -> Seq(BOOLEAN)] /\ waits' \in [Dev -> BOOLEAN]
  <2>1. Append(answers[d], success) \in Seq(BOOLEAN)
    BY <1>1
  <2> QED BY <1>1, <2>1 DEF TypeOK
<1>3. Load(d)' = Load(d)
  <2>1. ~waits'[d] /\ Len(answers'[d]) = Len(answers[d]) + 1 /\ Len(answers[d]) \in Nat
    BY <1>1 DEF TypeOK
  <2>2. waits[d] /\ calls'[d] = calls[d] /\ calls[d] \in Nat
    BY <1>1
  <2>3. Load(d) = calls[d] + 1 + Len(answers[d])
    BY <2>2 DEF Load
  <2>4. Load(d)' = calls'[d] + 0 + Len(answers'[d])
    BY <2>1 DEF Load
  <2> QED BY <2>1, <2>2, <2>3, <2>4
<1>4. ASSUME NEW e \in Dev \ {d} PROVE Load(e)' = Load(e)
  <2>1. waits'[e] = waits[e] /\ answers'[e] = answers[e]
    BY <1>1 DEF TypeOK
  <2> QED BY <1>1, <2>1 DEF Load
<1> QED BY <1>2, <1>3, <1>4

\* A device that reports the mode ends the wait for it.
LEMMA InfoKeeps ==
    ASSUME Inv, NEW d \in Dev, NEW info \in BOOLEAN, onConnParamInfoArrived(d, info)
    PROVE  Inv'
<1>1. /\ TypeOK /\ fast' = [fast EXCEPT ![d] = info]
      /\ UNCHANGED <<central, calls, retries, begun, alone, reached, told>>
  BY DEF Inv, onConnParamInfoArrived
<1>2. (info /\ waits[d] /\ WaitEnds(d, TRUE)) \/ (~(info /\ waits[d]) /\ UNCHANGED <<waits, answers>>)
  BY DEF onConnParamInfoArrived, WaitEnds
<1>3. /\ \A e \in Dev : Load(e)' = Load(e)
      /\ answers' \in [Dev -> Seq(BOOLEAN)] /\ waits' \in [Dev -> BOOLEAN]
  <2>1. CASE WaitEnds(d, TRUE)
    BY <1>1, <2>1, WaitEndsLoad
  <2>2. CASE UNCHANGED <<waits, answers>>
    BY <1>1, <2>2 DEF Load, TypeOK
  <2> QED BY <1>2, <2>1, <2>2
<1>4. TypeOK'
  <2>1. fast' \in [Dev -> BOOLEAN]
    BY <1>1 DEF TypeOK
  <2> QED BY <1>1, <1>3, <2>1 DEF TypeOK, central
<1>5. WaitingMeansNotThere'
  <2>1. WaitingMeansNotThere
    BY DEF Inv
  <2>2. waits'[d] => ~fast'[d]
    BY <1>1, <1>2, <2>1 DEF WaitEnds, WaitingMeansNotThere, TypeOK, isDeviceInRequestedConnState
  <2>3. \A e \in Dev \ {d} : waits'[e] = waits[e] /\ fast'[e] = fast[e]
    BY <1>1, <1>2 DEF WaitEnds, TypeOK
  <2> QED BY <2>1, <2>2, <2>3 DEF WaitingMeansNotThere, isDeviceInRequestedConnState
<1>6. Alone'
  <2>1. \A j \in Kind : Waiting(j)' => Waiting(j)
    BY <1>1 DEF Waiting, central
  <2>2. UNCHANGED <<remaining, id, alone, reached>> /\ work' \subseteq work
    BY <1>1 DEF central
  <2> QED BY <1>1, <1>3, <2>1, <2>2, SameLoad DEF Inv
<1> QED BY <1>4, <1>5, <1>6 DEF Inv

\* The timer of a wait repeats it, or ends it with a failure.
LEMMA ExpiryKeeps ==
    ASSUME Inv, NEW d \in Dev, onConnParamTimerExpired(d) PROVE Inv'
<1>1. /\ TypeOK /\ retries[d] \in 0..Retries
      /\ UNCHANGED <<central, calls, fast, begun, alone, reached, told>>
  BY DEF Inv, TypeOK, onConnParamTimerExpired
<1>2. \/ /\ retries[d] > 0
         /\ retries' = [retries EXCEPT ![d] = retries[d] - 1]
         /\ UNCHANGED <<waits, answers>>
      \/ WaitEnds(d, FALSE) /\ UNCHANGED retries
  BY DEF onConnParamTimerExpired, WaitEnds
<1>3. /\ \A e \in Dev : Load(e)' = Load(e)
      /\ answers' \in [Dev -> Seq(BOOLEAN)] /\ waits' \in [Dev -> BOOLEAN]
  <2>1. CASE WaitEnds(d, FALSE)
    BY <1>1, <2>1, WaitEndsLoad
  <2>2. CASE UNCHANGED <<waits, answers>>
    BY <1>1, <2>2 DEF Load, TypeOK
  <2> QED BY <1>2, <2>1, <2>2
<1>4. TypeOK'
  <2>1. retries' \in [Dev -> 0..Retries]
    <3>1. retries[d] > 0 => retries[d] - 1 \in 0..Retries
      BY <1>1, ConnModeAssumption
    <3>2. retries \in [Dev -> 0..Retries]
      BY <1>1 DEF TypeOK
    <3> QED BY <1>2, <3>1, <3>2
  <2> QED BY <1>1, <1>3, <2>1 DEF TypeOK, central
<1>5. WaitingMeansNotThere'
  <2>1. WaitingMeansNotThere
    BY DEF Inv
  <2>2. \A e \in Dev : waits'[e] => waits[e]
    BY <1>1, <1>2 DEF WaitEnds, TypeOK
  <2> QED BY <1>1, <2>1, <2>2 DEF WaitingMeansNotThere, isDeviceInRequestedConnState
<1>6. Alone'
  <2>1. \A j \in Kind : Waiting(j)' => Waiting(j)
    BY <1>1 DEF Waiting, central
  <2>2. UNCHANGED <<remaining, id, alone, reached>> /\ work' \subseteq work
    BY <1>1 DEF central
  <2> QED BY <1>1, <1>3, <2>1, <2>2, SameLoad DEF Inv
<1> QED BY <1>4, <1>5, <1>6 DEF Inv

-----------------------------------------------------------------------------
(* The invariant and the properties *)

LEMMA InvInit == Init => Inv
<1> SUFFICES ASSUME Init PROVE Inv
  OBVIOUS
<1>1. 0 \in Dev /\ 0 \in 0..Retries
  BY ConnModeAssumption DEF Dev
<1>2. /\ state \in [Kind -> States] /\ id \in [{"ts", "dl"} -> Dev]
      /\ retries \in [Dev -> 0..Retries]
  BY <1>1 DEF Init, States
<1>3. answers \in [Dev -> Seq(BOOLEAN)] /\ \A d \in Dev : Len(answers[d]) = 0
  BY DEF Init
<1>4. calls \in [Dev -> Nat] /\ fast \in [Dev -> BOOLEAN] /\ waits \in [Dev -> BOOLEAN]
  BY DEF Init
<1>5. /\ remaining = 0 /\ timer = {} /\ work = {} /\ begun = 0 /\ reached = {}
      /\ alone \in BOOLEAN /\ told \in BOOLEAN
  BY DEF Init
<1>6. TypeOK
  BY <1>2, <1>3, <1>4, <1>5 DEF TypeOK
<1>7. WaitingMeansNotThere
  BY DEF Init, WaitingMeansNotThere
<1>8. \A d \in Dev : Load(d) = 0
  BY <1>3 DEF Init, Load
<1>9. \A k \in Kind : ~Waiting(k)
  BY DEF Init, Waiting
<1>10. Alone
  BY <1>5, <1>8, <1>9 DEF Alone, OneWaits, OneEach, Counts, Heard, Kind
<1> QED BY <1>6, <1>7, <1>10 DEF Inv

LEMMA InvStep == Inv /\ [Next]_vars => Inv'
<1> SUFFICES ASSUME Inv, [Next]_vars PROVE Inv'
  OBVIOUS
<1>1. CASE \E k \in {"ts", "dl"} : StartAll(k) \/ TimerExpired(k)
  BY <1>1, StartAllKeeps, TimerKeeps
<1>2. CASE sendStartToAllDevices
  BY <1>2, StartKeeps
<1>3. CASE \E k \in {"ts", "dl"}, d \in Dev, ok \in BOOLEAN : OfDevXFinished(k, d, ok)
  BY <1>3, FinishKeeps
<1>4. CASE \E d \in Dev : MainThread(d)
  BY <1>4, AnswerKeeps DEF MainThread
<1>5. CASE \E d \in Dev : Controller(d)
  BY <1>5, CallKeeps, ExpiryKeeps DEF Controller
<1>6. CASE \E d \in Dev : \E info \in BOOLEAN : onConnParamInfoArrived(d, info)
  BY <1>6, InfoKeeps
<1>7. CASE UNCHANGED vars
  <2>1. TypeOK' /\ WaitingMeansNotThere'
    BY <1>7 DEF vars, central, device, Inv, TypeOK, WaitingMeansNotThere,
                isDeviceInRequestedConnState
  <2>2. Alone'
    <3>1. \A e \in Dev : Load(e)' = Load(e)
      BY <1>7 DEF vars, device, Load
    <3>2. \A j \in Kind : Waiting(j)' => Waiting(j)
      BY <1>7 DEF vars, central, Waiting
    <3>3. UNCHANGED <<remaining, id, alone, reached>> /\ work' \subseteq work
      BY <1>7 DEF vars, central
    <3> QED BY <3>1, <3>2, <3>3, SameLoad DEF Inv
  <2> QED BY <2>1, <2>2 DEF Inv
<1> QED BY <1>1, <1>2, <1>3, <1>4, <1>5, <1>6, <1>7 DEF Next

LEMMA Invariance == Spec => []Inv
  BY InvInit, InvStep, PTL DEF Spec

\* Every variable keeps its type; retries_remaining does not underflow.
THEOREM TypeCorrect == Spec => []TypeOK
<1>1. Inv => TypeOK
  BY DEF Inv
<1> QED BY <1>1, Invariance, PTL

\* No report of the mode is missed by a controller that waits for it.
THEOREM WaitingMeansNotThereHolds == Spec => []WaitingMeansNotThere
<1>1. Inv => WaitingMeansNotThere
  BY DEF Inv
<1> QED BY <1>1, Invariance, PTL

\* remaining_c is right for a procedure that began alone.
THEOREM CounterIsRightHolds == Spec => []CounterIsRight
<1>1. Inv => CounterIsRight
  <2>1. Owing = {d \in Dev : Owes(d)}
    BY DEF Owing
  <2> HIDE DEF Owing
  <2> QED BY <2>1 DEF Inv, Alone, OneEach, Counts, CounterIsRight
<1> QED BY <1>1, Invariance, PTL

\* A procedure that began alone goes on only after the last answer, and all
\* answers were good.
LEMMA GoesOnInTime ==
    ASSUME Inv, [Next]_vars, NEW k \in Kind, alone, Waiting(k), ~Waiting(k)'
    PROVE  Concerned(k) \subseteq reached'
<1>1. PICK d \in Dev : onConnUpdateOfDevXfinished(d)
  <2>1. state' # state
    BY DEF Waiting
  <2>2. ~(\E j \in {"ts", "dl"} : StartAll(j)) /\ ~sendStartToAllDevices
    <3>1. ASSUME NEW j \in Kind, NEW devices, Ask(j, devices) PROVE FALSE
      BY <3>1 DEF Ask, Waiting, Inv, TypeOK
    <3> QED BY <3>1 DEF StartAll, StartOfDevX, sendStartToAllDevices, Kind
  <2>3. ~(\E j \in {"ts", "dl"}, e \in Dev, ok \in BOOLEAN : OfDevXFinished(j, e, ok))
    <3>1. SUFFICES ASSUME NEW j \in {"ts", "dl"}, NEW e \in Dev, NEW ok \in BOOLEAN,
                          OfDevXFinished(j, e, ok)
                   PROVE  FALSE
      OBVIOUS
    <3>2. ASSUME NEW devices, Ask(j, devices) PROVE FALSE
      BY <3>2 DEF Ask, Waiting, Inv, TypeOK
    <3>3. state' = [state EXCEPT ![j] = "NOT_RUNNING"] /\ <<j, e>> \in work
      BY <3>1, <3>2 DEF OfDevXFinished, StartOfDevX
    <3>4. k = j
      BY <3>3 DEF Waiting, Inv, TypeOK
    <3> QED BY <3>3, <3>4 DEF Inv, Alone, OneWaits
  <2>4. ~(\E j \in {"ts", "dl"} : TimerExpired(j)) /\ ~UNCHANGED vars
    BY <2>1 DEF TimerExpired, vars, central
  <2>5. \A d \in Dev : /\ ~Controller(d)
                       /\ \A info \in BOOLEAN : ~onConnParamInfoArrived(d, info)
    BY <2>1 DEF Controller, startConnModeChangeProcedure, onConnParamTimerExpired,
                onConnParamInfoArrived, central
  <2> QED BY <2>2, <2>3, <2>4, <2>5 DEF Next, MainThread
<1>2. OneEach /\ Counts /\ Heard /\ TypeOK
  BY DEF Inv, Alone
<1>3. answers[d] \in Seq(BOOLEAN) /\ answers[d] # <<>> /\ remaining \in Int /\ reached \subseteq Dev
  BY <1>1, <1>2 DEF onConnUpdateOfDevXfinished, TypeOK
<1>4. remaining' = 0
  BY <1>1 DEF onConnUpdateOfDevXfinished, Waiting
<1>5. remaining = 1 /\ reached' = reached \cup {d}
  <2>1. /\ Head(answers[d]) => remaining' = remaining - 1
        /\ ~Head(answers[d]) => remaining' = 0 - 1
    BY <1>1, Zenon DEF onConnUpdateOfDevXfinished
  <2>2. CASE ~Head(answers[d])
    <3>1. remaining' = 0 - 1
      BY <2>1, <2>2, Zenon
    <3> QED BY <3>1, <1>4
  <2>3. CASE Head(answers[d])
    <3>1. remaining = 1
      <4>1. remaining' = remaining - 1
        BY <2>1, <2>3, Zenon
      <4> QED BY <4>1, <1>3, <1>4
    <3>2. reached' = reached \cup {d}
      BY <1>1, <2>3 DEF onConnUpdateOfDevXfinished
    <3> QED BY <3>1, <3>2
  <2> QED BY <2>2, <2>3
<1>6. Cardinality(Owing) = 1
  BY <1>2, <1>5 DEF Counts
<1>7. d \in Owing
  <2>1. Load(d) # 0 /\ Load(d) \in Nat
    BY <1>2, <1>3, LoadType
  <2> QED BY <2>1 DEF Owing, Owes
<1>8. Owing = {d}
  BY <1>6, <1>7, OwingFinite, FS_Singleton
<1>9. \A e \in Concerned(k) : e \in Dev /\ (Owes(e) \/ e \in reached)
  BY <1>2, <1>5, ConcernedInDev DEF Heard
<1> QED BY <1>5, <1>8, <1>9 DEF Owing

\* Nothing begins while the answer of a device concerned is outstanding.
THEOREM NothingTooEarlyHolds == Spec => NothingTooEarly
<1>1. Inv /\ [Next]_vars =>
         [\A k \in Kind :
            alone /\ state[k] = "SETTING_CONN_MODE" /\ state'[k] # "SETTING_CONN_MODE"
                => Concerned(k) \subseteq reached']_vars
  BY GoesOnInTime DEF Waiting
<1> QED BY <1>1, Invariance, PTL DEF Spec, NothingTooEarly
=============================================================================
