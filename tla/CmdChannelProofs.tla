-------------------------- MODULE CmdChannelProofs --------------------------
(***************************************************************************)
(* What the command channel guarantees for every set of requests, every    *)
(* number of retries and every bound.                                      *)
(***************************************************************************)
EXTENDS CmdChannel, TLAPS

\* What the branches of the channel's operators do to each of its fields.
LEMMA KeepForLaterFields ==
    ASSUME NEW x \in ChannelType(Cmd, NoCmd), NEW c \in Cmd
    PROVE  LET k == KeepForLater(x, c)
           IN /\ k \in ChannelType(Cmd, NoCmd)
              /\ k.last_cmd = x.last_cmd /\ k.retry = x.retry
              /\ k.cmdTimer = x.cmdTimer /\ k.air = x.air
              /\ k.backlog = Append(x.backlog, c)
<1>1. Append(x.backlog, c) \in Seq(Cmd)
  BY DEF ChannelType
<1>2. BacklogRetry \in 0..BacklogRetry
  BY RetryAssumption
<1>3. KeepForLater(x, c) \in ChannelType(Cmd, NoCmd)
  BY <1>1, <1>2 DEF KeepForLater, ChannelType
<1> QED
  BY <1>3 DEF KeepForLater, ChannelType

LEMMA StartCmdFields ==
    ASSUME NEW x \in ChannelType(Cmd, NoCmd), NEW c \in Cmd
    PROVE  LET s == StartCmd(x, c)
           IN /\ s \in ChannelType(Cmd, NoCmd)
              /\ s.last_cmd = c /\ s.retry = Retry /\ s.cmdTimer = TRUE
              /\ s.air = Append(x.air, c) /\ s.backlog = x.backlog
<1>1. Append(x.air, c) \in Seq(Cmd)
  BY DEF ChannelType
<1>2. Retry \in 0..Retry
  BY RetryAssumption
<1>3. StartCmd(x, c) \in ChannelType(Cmd, NoCmd)
  BY <1>1, <1>2 DEF StartCmd, ChannelType
<1> QED
  BY <1>3 DEF StartCmd, ChannelType

LEMMA SendFields ==
    ASSUME NEW x \in ChannelType(Cmd, NoCmd), NEW c \in Cmd
    PROVE  bleUartSendCmdWithResp(x, c) \in ChannelType(Cmd, NoCmd)
BY KeepForLaterFields, StartCmdFields DEF bleUartSendCmdWithResp

LEMMA CmdTimerFields ==
    ASSUME NEW x \in ChannelType(Cmd, NoCmd), x.last_cmd # NoCmd
    PROVE  LET t == onCmdTimerExpired(x)
           IN /\ t \in ChannelType(Cmd, NoCmd)
              /\ t.last_cmd = x.last_cmd /\ t.cmdTimer = x.cmdTimer
              /\ t.backlog = x.backlog
              /\ x.retry > 0 => /\ t.retry = x.retry - 1
                                /\ t.air = Append(x.air, x.last_cmd)
              /\ ~(x.retry > 0) => t = x /\ x.retry = 0
<1>1. /\ x.last_cmd \in Cmd /\ x.retry \in 0..Retry
      /\ Append(x.air, x.last_cmd) \in Seq(Cmd)
  BY DEF ChannelType
<1>2. CASE x.retry > 0
  <2>1. x.retry - 1 \in 0..Retry
    BY <1>1, <1>2, RetryAssumption
  <2>2. onCmdTimerExpired(x) = [x EXCEPT !.retry = @ - 1, !.air = Append(@, x.last_cmd)]
    BY <1>2 DEF onCmdTimerExpired
  <2>3. onCmdTimerExpired(x) \in ChannelType(Cmd, NoCmd)
    BY <1>1, <2>1, <2>2 DEF ChannelType
  <2> QED
    BY <1>2, <2>2, <2>3 DEF ChannelType
<1>3. CASE ~(x.retry > 0)
  BY <1>1, <1>3, RetryAssumption DEF onCmdTimerExpired
<1> QED
  BY <1>2, <1>3

\* The newest entry of a non-empty backlog and the entries below it.
LEMMA NewestEntry ==
    ASSUME NEW q \in Seq(Cmd), q # <<>>
    PROVE  /\ Newest(q) \in Cmd
           /\ WithoutNewest(q) \in Seq(Cmd)
           /\ Len(q) > 0
BY DEF Newest, WithoutNewest

LEMMA BacklogTimerFields ==
    ASSUME NEW x \in ChannelType(Cmd, NoCmd)
    PROVE  LET t == onBacklogTimerExpired(x)
           IN /\ t \in ChannelType(Cmd, NoCmd)
              /\ x.backlog = <<>> =>
                   /\ t.last_cmd = x.last_cmd /\ t.retry = x.retry
                   /\ t.cmdTimer = x.cmdTimer /\ t.air = x.air
                   /\ t.backlog = x.backlog
              /\ x.backlog # <<>> /\ x.cmdTimer =>
                   /\ t.last_cmd = x.last_cmd /\ t.retry = x.retry
                   /\ t.cmdTimer = x.cmdTimer /\ t.air = x.air
                   /\ t.backlog = Append(x.backlog, Newest(x.backlog))
              /\ x.backlog # <<>> /\ ~x.cmdTimer =>
                   /\ t.last_cmd = Newest(x.backlog) /\ t.retry = Retry
                   /\ t.cmdTimer = TRUE
                   /\ t.air = Append(x.air, Newest(x.backlog))
                   /\ t.backlog = WithoutNewest(x.backlog)
<1> DEFINE fired == [x EXCEPT !.backlogTimer = FALSE]
           again == bleUartSendCmdWithResp(fired, Newest(x.backlog))
           t == onBacklogTimerExpired(x)
<1>1. /\ fired \in ChannelType(Cmd, NoCmd)
      /\ fired.last_cmd = x.last_cmd /\ fired.retry = x.retry
      /\ fired.cmdTimer = x.cmdTimer /\ fired.air = x.air
      /\ fired.backlog = x.backlog
  BY DEF ChannelType
<1>2. CASE x.backlog = <<>>
  <2>1. t = fired
    BY <1>2 DEF onBacklogTimerExpired
  <2> QED
    BY <1>1, <1>2, <2>1
<1>3. CASE x.backlog # <<>>
  <2>1. x.backlog \in Seq(Cmd)
    BY DEF ChannelType
  <2>2. Newest(x.backlog) \in Cmd /\ WithoutNewest(x.backlog) \in Seq(Cmd)
    BY <1>3, <2>1, NewestEntry
  <2>3. CASE x.cmdTimer
    <3>1. again = KeepForLater(fired, Newest(x.backlog))
      BY <1>1, <2>3 DEF bleUartSendCmdWithResp
    <3>2. /\ again \in ChannelType(Cmd, NoCmd)
          /\ again.last_cmd = x.last_cmd /\ again.retry = x.retry
          /\ again.cmdTimer = x.cmdTimer /\ again.air = x.air
          /\ again.backlog = Append(x.backlog, Newest(x.backlog))
      <4> DEFINE n == Newest(x.backlog)
      <4>1. fired \in ChannelType(Cmd, NoCmd) /\ n \in Cmd
        BY <1>1, <2>2
      <4> HIDE DEF fired, again, n
      <4>2. LET k == KeepForLater(fired, n)
            IN /\ k \in ChannelType(Cmd, NoCmd)
               /\ k.last_cmd = fired.last_cmd /\ k.retry = fired.retry
               /\ k.cmdTimer = fired.cmdTimer /\ k.air = fired.air
               /\ k.backlog = Append(fired.backlog, n)
        BY <4>1, KeepForLaterFields
      <4> QED BY <1>1, <3>1, <4>2 DEF n
    <3>3. again.backlogRetries = BacklogRetry
      <4>1. KeepForLater(fired, Newest(x.backlog)).backlogRetries = BacklogRetry
        BY DEF KeepForLater, ChannelType
      <4> HIDE DEF fired, again
      <4> QED BY <3>1, <4>1
    <3>4. t = [again EXCEPT !.backlogRetries = @ - 1, !.backlogTimer = TRUE]
      BY <1>3, <2>3, <3>3, RetryAssumption DEF onBacklogTimerExpired
    <3>5. again.backlogRetries - 1 \in 0..BacklogRetry
      BY <3>3, RetryAssumption
    <3> HIDE DEF fired, again, t
    <3>6. t \in ChannelType(Cmd, NoCmd)
      BY <3>2, <3>4, <3>5 DEF ChannelType
    <3>7. /\ t.last_cmd = again.last_cmd /\ t.retry = again.retry
          /\ t.cmdTimer = again.cmdTimer /\ t.air = again.air
          /\ t.backlog = again.backlog
      BY <3>2, <3>4 DEF ChannelType
    <3> QED BY <1>3, <2>3, <3>2, <3>6, <3>7 DEF t
  <2>4. CASE ~x.cmdTimer
    <3>1. again = StartCmd(fired, Newest(x.backlog))
      BY <1>1, <2>4 DEF bleUartSendCmdWithResp
    <3>2. /\ again \in ChannelType(Cmd, NoCmd)
          /\ again.last_cmd = Newest(x.backlog) /\ again.retry = Retry
          /\ again.cmdTimer = TRUE /\ again.air = Append(x.air, Newest(x.backlog))
          /\ again.backlog = x.backlog
      <4> DEFINE n == Newest(x.backlog)
      <4>1. fired \in ChannelType(Cmd, NoCmd) /\ n \in Cmd
        BY <1>1, <2>2
      <4> HIDE DEF fired, again, n
      <4>2. /\ StartCmd(fired, n) \in ChannelType(Cmd, NoCmd)
            /\ StartCmd(fired, n).last_cmd = n /\ StartCmd(fired, n).retry = Retry
            /\ StartCmd(fired, n).cmdTimer = TRUE
            /\ StartCmd(fired, n).air = Append(fired.air, n)
            /\ StartCmd(fired, n).backlog = fired.backlog
        BY <4>1, StartCmdFields
      <4> QED BY <1>1, <3>1, <4>2 DEF n
    <3>3. t = [again EXCEPT !.backlog = WithoutNewest(@)]
      BY <1>3, <2>4 DEF onBacklogTimerExpired
    <3> HIDE DEF fired, again, t
    <3>4. t \in ChannelType(Cmd, NoCmd)
      BY <2>2, <3>2, <3>3 DEF ChannelType
    <3>5. /\ t.last_cmd = again.last_cmd /\ t.retry = again.retry
          /\ t.cmdTimer = again.cmdTimer /\ t.air = again.air
          /\ t.backlog = WithoutNewest(x.backlog)
      BY <3>2, <3>3 DEF ChannelType
    <3> QED BY <1>3, <2>4, <3>2, <3>4, <3>5 DEF t
  <2> QED BY <2>3, <2>4
<1> QED BY <1>2, <1>3

-----------------------------------------------------------------------------

\* TypeOK is inductive only together with the fact that a running m_cmdTimer
\* has a command to repeat.
TypeInv == TypeOK /\ (ch.cmdTimer => ch.last_cmd # NoCmd)

LEMMA TypeInvInit == Init => TypeInv
<1> SUFFICES ASSUME Init PROVE TypeInv
  OBVIOUS
<1>1. ch \in ChannelType(Cmd, NoCmd) /\ ~ch.cmdTimer
  BY RetryAssumption DEF Init, IdleChannel, ChannelType
<1> QED BY <1>1 DEF Init, TypeInv, TypeOK

LEMMA TypeInvStep == TypeInv /\ [Next]_vars => TypeInv'
<1> SUFFICES ASSUME TypeInv, [Next]_vars PROVE TypeInv'
  OBVIOUS
<1>0. /\ TypeOK
      /\ ch \in ChannelType(Cmd, NoCmd)
      /\ ch.cmdTimer \in BOOLEAN /\ ch.air \in Seq(Cmd) /\ ch.backlog \in Seq(Cmd)
      /\ NoCmd \notin Cmd
  BY ChannelAssumption DEF TypeInv, TypeOK, ChannelType
<1>1. ASSUME NEW c \in Cmd, Request(c) PROVE TypeInv'
  <2>1. ch' \in ChannelType(Cmd, NoCmd) /\ (ch'.cmdTimer => ch'.last_cmd # NoCmd)
    BY <1>0, <1>1, KeepForLaterFields, StartCmdFields
    DEF Request, bleUartSendCmdWithResp, TypeInv
  <2>2. /\ oks' \in Nat /\ writes' \in Nat /\ lost' \in Nat
        /\ asked' \subseteq Cmd /\ started' \subseteq Cmd
    BY <1>0, <1>1 DEF Request, Begin, ghosts, TypeOK
  <2>3. heard' \in BOOLEAN /\ timedOut' \in BOOLEAN
    BY <1>0, <1>1, Zenon DEF Request, Begin, ghosts, TypeOK
  <2> QED BY <2>1, <2>2, <2>3 DEF TypeInv, TypeOK
<1>2. CASE CmdTimerExpires
  <2>1. ch' \in ChannelType(Cmd, NoCmd) /\ (ch'.cmdTimer => ch'.last_cmd # NoCmd)
    BY <1>0, <1>2, CmdTimerFields DEF CmdTimerExpires, TypeInv
  <2>2. /\ oks' \in Nat /\ writes' \in Nat /\ lost' \in Nat
        /\ asked' \subseteq Cmd /\ started' \subseteq Cmd
    BY <1>0, <1>2 DEF CmdTimerExpires, TypeOK
  <2>3. heard' \in BOOLEAN /\ timedOut' \in BOOLEAN
    BY <1>0, <1>2, Zenon DEF CmdTimerExpires, TypeOK
  <2> QED BY <2>1, <2>2, <2>3 DEF TypeInv, TypeOK
<1>3. CASE BacklogTimerExpires
  <2>1. ch' \in ChannelType(Cmd, NoCmd) /\ (ch'.cmdTimer => ch'.last_cmd # NoCmd)
    <3>1. ch' = onBacklogTimerExpired(ch)
      BY <1>3 DEF BacklogTimerExpires
    <3>2. ch.backlog # <<>> => Newest(ch.backlog) \in Cmd
      BY <1>0, NewestEntry
    <3> QED BY <1>0, <3>1, <3>2, BacklogTimerFields DEF TypeInv
  <2>2. ch.backlog # <<>> => Newest(ch.backlog) \in Cmd
    BY <1>0, NewestEntry
  <2>3. /\ oks' \in Nat /\ writes' \in Nat /\ lost' \in Nat
        /\ asked' \subseteq Cmd /\ started' \subseteq Cmd
    BY <1>0, <1>3, <2>2 DEF BacklogTimerExpires, Begin, ghosts, TypeOK
  <2>4. heard' \in BOOLEAN /\ timedOut' \in BOOLEAN
    BY <1>0, <1>3, Zenon DEF BacklogTimerExpires, Begin, ghosts, TypeOK
  <2> QED BY <2>1, <2>3, <2>4 DEF TypeInv, TypeOK
<1>4. CASE OkArrives
  <2>1. ch' \in ChannelType(Cmd, NoCmd) /\ ~ch'.cmdTimer
    BY <1>0, <1>4 DEF OkArrives, StopCmdTimer, ChannelType
  <2> QED BY <1>0, <1>4, <2>1 DEF OkArrives, TypeInv, TypeOK
<1>5. CASE DeviceHears \/ LoseCmd
  <2>1. Tail(ch.air) \in Seq(Cmd)
    BY <1>0, <1>5 DEF DeviceHears, LoseCmd
  <2>2. ch' = [ch EXCEPT !.air = Tail(@)]
    BY <1>5 DEF DeviceHears, LoseCmd
  <2>3. /\ ch' \in ChannelType(Cmd, NoCmd)
        /\ ch'.cmdTimer = ch.cmdTimer /\ ch'.last_cmd = ch.last_cmd
    BY <1>0, <2>1, <2>2 DEF ChannelType
  <2>4. /\ oks' \in Nat /\ writes' \in Nat /\ lost' \in Nat
        /\ asked' \subseteq Cmd /\ started' \subseteq Cmd
    BY <1>0, <1>5 DEF DeviceHears, LoseCmd, TypeOK
  <2>5. heard' \in BOOLEAN /\ timedOut' \in BOOLEAN
    BY <1>0, <1>5, Zenon DEF DeviceHears, LoseCmd, TypeOK
  <2> QED BY <1>0, <2>3, <2>4, <2>5 DEF TypeInv, TypeOK
<1>6. CASE LoseOk
  BY <1>0, <1>6 DEF LoseOk, TypeInv, TypeOK
<1>7. CASE UNCHANGED vars
  BY <1>7 DEF vars, TypeInv, TypeOK
<1> QED BY <1>1, <1>2, <1>3, <1>4, <1>5, <1>6, <1>7 DEF Next

\* Every variable keeps its type, for all values of the constants.
THEOREM TypeCorrect == Spec => []TypeOK
<1>1. TypeInv => TypeOK
  BY DEF TypeInv
<1> QED BY <1>1, TypeInvInit, TypeInvStep, PTL DEF Spec

-----------------------------------------------------------------------------

\* The three ways in which a step treats the outstanding command: it begins
\* one, repeats it, or leaves it alone.
Begins(c) ==
    /\ ~ch.cmdTimer
    /\ ch'.last_cmd = c /\ ch'.retry = Retry /\ ch'.cmdTimer = TRUE
    /\ ch'.air = Append(ch.air, c)
    /\ Begin(c)
    /\ oks' = oks

Repeats ==
    /\ ch.cmdTimer /\ ch.retry > 0
    /\ Timely => ch.air = <<>> /\ oks = 0
    /\ ch'.last_cmd = ch.last_cmd /\ ch'.retry = ch.retry - 1
    /\ ch'.cmdTimer = ch.cmdTimer
    /\ ch'.air = Append(ch.air, ch.last_cmd)
    /\ writes' = writes + 1
    /\ UNCHANGED <<oks, heard, lost, timedOut>>

Keeps ==
    /\ ch'.last_cmd = ch.last_cmd /\ ch'.retry = ch.retry
    /\ ch'.cmdTimer = ch.cmdTimer
    /\ writes' = writes

LEMMA RequestCases ==
    ASSUME TypeInv, NEW c \in Cmd, Request(c)
    PROVE  \/ Begins(c)
           \/ /\ Keeps /\ ch.cmdTimer /\ ch'.air = ch.air
              /\ UNCHANGED <<oks, heard, lost, timedOut>>
<1>1. ch \in ChannelType(Cmd, NoCmd)
  BY DEF TypeInv, TypeOK
<1>2. CASE ch.cmdTimer
  <2>1. ch' = KeepForLater(ch, c)
    BY <1>2 DEF Request, bleUartSendCmdWithResp
  <2> QED BY <1>1, <1>2, <2>1, KeepForLaterFields DEF Request, ghosts, Keeps
<1>3. CASE ~ch.cmdTimer
  <2>1. ch' = StartCmd(ch, c)
    BY <1>3 DEF Request, bleUartSendCmdWithResp
  <2>2. Begin(c) /\ oks' = oks
    BY <1>3 DEF Request
  <2>3. /\ ch'.last_cmd = c /\ ch'.retry = Retry /\ ch'.cmdTimer = TRUE
        /\ ch'.air = Append(ch.air, c)
    BY <1>1, <2>1, StartCmdFields
  <2> QED BY <1>3, <2>2, <2>3 DEF Begins
<1> QED BY <1>2, <1>3

LEMMA CmdTimerCases ==
    ASSUME TypeInv, CmdTimerExpires
    PROVE  \/ Repeats
           \/ /\ Keeps /\ ch.cmdTimer /\ ch.retry = 0 /\ ch'.air = ch.air
              /\ Timely => ch.air = <<>> /\ oks = 0
              /\ timedOut'
              /\ UNCHANGED <<oks, heard, lost>>
<1>1. ch \in ChannelType(Cmd, NoCmd) /\ ch.last_cmd # NoCmd /\ ch' = onCmdTimerExpired(ch)
  BY DEF TypeInv, TypeOK, CmdTimerExpires
<1>2. CASE ch.retry > 0
  BY <1>1, <1>2, CmdTimerFields DEF CmdTimerExpires, Repeats
<1>3. CASE ~(ch.retry > 0)
  BY <1>1, <1>3, CmdTimerFields DEF CmdTimerExpires, Keeps
<1> QED BY <1>2, <1>3

LEMMA BacklogTimerCases ==
    ASSUME TypeInv, BacklogTimerExpires
    PROVE  \/ \E c \in Cmd : Begins(c)
           \/ /\ Keeps /\ ch'.air = ch.air
              /\ UNCHANGED <<oks, heard, lost, timedOut>>
<1>1. ch \in ChannelType(Cmd, NoCmd) /\ ch' = onBacklogTimerExpired(ch)
  BY DEF TypeInv, TypeOK, BacklogTimerExpires
<1>2. CASE ch.cmdTimer \/ ch.backlog = <<>>
  BY <1>1, <1>2, BacklogTimerFields DEF BacklogTimerExpires, ghosts, Keeps
<1>3. CASE ~(ch.cmdTimer \/ ch.backlog = <<>>)
  <2>1. ch.backlog \in Seq(Cmd)
    BY <1>1 DEF ChannelType
  <2>2. Newest(ch.backlog) \in Cmd
    BY <1>3, <2>1, NewestEntry
  <2>3. Begins(Newest(ch.backlog))
    BY <1>1, <1>3, BacklogTimerFields DEF BacklogTimerExpires, Begins
  <2> QED BY <2>2, <2>3
<1> QED BY <1>2, <1>3

LEMMA OkFields ==
    ASSUME TypeInv, OkArrives
    PROVE  /\ ch'.last_cmd = ch.last_cmd /\ ch'.retry = ch.retry
           /\ ch'.cmdTimer = FALSE /\ ch'.air = ch.air
BY DEF TypeInv, TypeOK, ChannelType, OkArrives, StopCmdTimer

LEMMA AirFields ==
    ASSUME TypeInv, DeviceHears \/ LoseCmd
    PROVE  /\ ch'.last_cmd = ch.last_cmd /\ ch'.retry = ch.retry
           /\ ch'.cmdTimer = ch.cmdTimer /\ ch'.air = Tail(ch.air)
<1>1. ch \in ChannelType(Cmd, NoCmd) /\ ch' = [ch EXCEPT !.air = Tail(@)]
  BY DEF TypeInv, TypeOK, DeviceHears, LoseCmd
<1> QED BY <1>1 DEF ChannelType

-----------------------------------------------------------------------------

\* The retransmission budget.  TimedOut commands have no retry left.
BudgetInv ==
    /\ ch.last_cmd # NoCmd => writes + ch.retry = Retry + 1
    /\ timedOut => ch.last_cmd # NoCmd /\ ch.retry = 0

LEMMA BudgetStep == TypeInv /\ BudgetInv /\ [Next]_vars => BudgetInv'
<1> SUFFICES ASSUME TypeInv, BudgetInv, [Next]_vars PROVE BudgetInv'
  OBVIOUS
<1>0. /\ ch.retry \in Nat /\ Retry \in Nat /\ writes \in Nat
      /\ ch.cmdTimer => ch.last_cmd # NoCmd
      /\ NoCmd \notin Cmd
  BY RetryAssumption, ChannelAssumption DEF TypeInv, TypeOK, ChannelType
<1>1. ASSUME NEW c \in Cmd, Begins(c) PROVE BudgetInv'
  BY <1>0, <1>1 DEF Begins, Begin, BudgetInv
<1>2. ASSUME NEW c \in Cmd, Request(c) PROVE BudgetInv'
  BY <1>1, <1>2, RequestCases DEF Keeps, BudgetInv
<1>3. CASE CmdTimerExpires
  BY <1>0, <1>3, CmdTimerCases DEF Keeps, Repeats, BudgetInv
<1>4. CASE BacklogTimerExpires
  BY <1>1, <1>4, BacklogTimerCases DEF Keeps, BudgetInv
<1>5. CASE OkArrives
  BY <1>5, OkFields DEF OkArrives, BudgetInv
<1>6. CASE DeviceHears \/ LoseCmd
  BY <1>6, AirFields DEF DeviceHears, LoseCmd, BudgetInv
<1>7. CASE LoseOk
  BY <1>7 DEF LoseOk, BudgetInv
<1>8. CASE UNCHANGED vars
  BY <1>8 DEF vars, BudgetInv
<1> QED BY <1>2, <1>3, <1>4, <1>5, <1>6, <1>7, <1>8 DEF Next

\* A command is written at most Retry + 1 times and "CMD Timeout!" is reported
\* only after all of them, whatever the link and the callers do.
THEOREM RetryBudgetHolds == Spec => []RetryBudget
<1>1. Init => BudgetInv
  BY DEF Init, IdleChannel, BudgetInv
<1>2. TypeInv /\ BudgetInv => RetryBudget
  BY RetryAssumption DEF TypeInv, TypeOK, ChannelType, BudgetInv, RetryBudget
<1> QED BY <1>1, <1>2, TypeInvInit, TypeInvStep, BudgetStep, PTL DEF Spec

-----------------------------------------------------------------------------

\* What appending to a backlog and popping its newest entry do to its entries.
LEMMA WaitingAppend ==
    ASSUME NEW q \in Seq(Cmd), NEW c \in Cmd
    PROVE  LET q2 == Append(q, c)
           IN {q2[i] : i \in DOMAIN q2} = {q[i] : i \in DOMAIN q} \cup {c}
<1> DEFINE q2 == Append(q, c)
<1>1. /\ Len(q) \in Nat /\ DOMAIN q = 1..Len(q)
      /\ DOMAIN q2 = 1..(Len(q) + 1)
      /\ \A i \in 1..Len(q) : q2[i] = q[i]
      /\ q2[Len(q) + 1] = c
  OBVIOUS
<1> HIDE DEF q2
<1>2. ASSUME NEW i \in DOMAIN q2
      PROVE  q2[i] \in {q[j] : j \in DOMAIN q} \cup {c}
  <2>1. i \in DOMAIN q \/ i = Len(q) + 1
    BY <1>1
  <2> QED BY <1>1, <2>1
<1>3. ASSUME NEW i \in DOMAIN q
      PROVE  q[i] \in {q2[j] : j \in DOMAIN q2}
  <2>1. i \in DOMAIN q2 /\ q2[i] = q[i]
    BY <1>1
  <2> QED BY <2>1
<1>4. c \in {q2[j] : j \in DOMAIN q2}
  <2>1. Len(q) + 1 \in DOMAIN q2
    BY <1>1
  <2> QED BY <1>1, <2>1
<1> QED BY <1>2, <1>3, <1>4 DEF q2

LEMMA WaitingPop ==
    ASSUME NEW q \in Seq(Cmd), q # <<>>
    PROVE  LET q2 == WithoutNewest(q)
           IN {q[i] : i \in DOMAIN q} = {q2[i] : i \in DOMAIN q2} \cup {Newest(q)}
<1> DEFINE q2 == WithoutNewest(q)
<1>1. /\ Len(q) \in Nat /\ Len(q) > 0 /\ DOMAIN q = 1..Len(q)
      /\ DOMAIN q2 = 1..(Len(q) - 1)
      /\ \A i \in 1..(Len(q) - 1) : q2[i] = q[i]
      /\ Newest(q) = q[Len(q)]
  BY DEF WithoutNewest, Newest
<1> HIDE DEF q2
<1>2. ASSUME NEW i \in DOMAIN q
      PROVE  q[i] \in {q2[j] : j \in DOMAIN q2} \cup {Newest(q)}
  <2>1. i \in DOMAIN q2 \/ i = Len(q)
    BY <1>1
  <2> QED BY <1>1, <2>1
<1>3. ASSUME NEW i \in DOMAIN q2
      PROVE  q2[i] \in {q[j] : j \in DOMAIN q}
  <2>1. i \in DOMAIN q /\ q2[i] = q[i]
    BY <1>1
  <2> QED BY <2>1
<1>4. Newest(q) \in {q[j] : j \in DOMAIN q}
  <2>1. Len(q) \in DOMAIN q
    BY <1>1
  <2> QED BY <1>1, <2>1
<1> QED BY <1>2, <1>3, <1>4 DEF q2

LEMMA NoRequestLostStep == TypeInv /\ NoRequestLost /\ [Next]_vars => NoRequestLost'
<1> SUFFICES ASSUME TypeInv, NoRequestLost, [Next]_vars PROVE NoRequestLost'
  OBVIOUS
<1>0. /\ ch \in ChannelType(Cmd, NoCmd)
      /\ ch.backlog \in Seq(Cmd) /\ ch.cmdTimer \in BOOLEAN
      /\ asked = started \cup Waiting(ch)
      /\ ch.cmdTimer => ch.last_cmd # NoCmd
  BY DEF TypeInv, TypeOK, ChannelType, NoRequestLost
<1> SUFFICES asked' = started' \cup Waiting(ch')
  BY DEF NoRequestLost, Waiting
<1>1. ASSUME NEW c \in Cmd, Request(c) PROVE asked' = started' \cup Waiting(ch')
  <2>1. CASE ch.cmdTimer
    <3>1. ch'.backlog = Append(ch.backlog, c)
      BY <1>0, <1>1, <2>1, KeepForLaterFields DEF Request, bleUartSendCmdWithResp
    <3>2. Waiting(ch') = Waiting(ch) \cup {c}
      BY <1>0, <3>1, WaitingAppend DEF Waiting
    <3> QED BY <1>0, <1>1, <2>1, <3>2 DEF Request, ghosts
  <2>2. CASE ~ch.cmdTimer
    <3>1. ch'.backlog = ch.backlog
      BY <1>0, <1>1, <2>2, StartCmdFields DEF Request, bleUartSendCmdWithResp
    <3>2. Waiting(ch') = Waiting(ch)
      BY <3>1 DEF Waiting
    <3> QED BY <1>0, <1>1, <2>2, <3>2 DEF Request, Begin
  <2> QED BY <2>1, <2>2
<1>2. CASE CmdTimerExpires
  <2>1. ch'.backlog = ch.backlog
    BY <1>0, <1>2, CmdTimerFields DEF CmdTimerExpires
  <2>2. Waiting(ch') = Waiting(ch)
    BY <2>1 DEF Waiting
  <2> QED BY <1>0, <1>2, <2>2 DEF CmdTimerExpires
<1>3. CASE BacklogTimerExpires
  <2>0. ch' = onBacklogTimerExpired(ch)
    BY <1>3 DEF BacklogTimerExpires
  <2>1. CASE ch.backlog = <<>>
    <3>1. ch'.backlog = ch.backlog
      BY <1>0, <2>0, <2>1, BacklogTimerFields
    <3>2. Waiting(ch') = Waiting(ch)
      BY <3>1 DEF Waiting
    <3> QED BY <1>0, <1>3, <2>1, <3>2 DEF BacklogTimerExpires, ghosts
  <2>2. CASE ch.backlog # <<>> /\ ch.cmdTimer
    <3>1. ch'.backlog = Append(ch.backlog, Newest(ch.backlog))
      BY <1>0, <2>0, <2>2, BacklogTimerFields
    <3>2. Newest(ch.backlog) \in Cmd
      BY <1>0, <2>2, NewestEntry
    <3>3. Waiting(ch') = Waiting(ch) \cup {Newest(ch.backlog)}
      BY <1>0, <3>1, <3>2, WaitingAppend DEF Waiting
    <3>4. Newest(ch.backlog) \in Waiting(ch)
      BY <1>0, <2>2, WaitingPop DEF Waiting
    <3> QED BY <1>0, <1>3, <2>2, <3>3, <3>4 DEF BacklogTimerExpires, ghosts
  <2>3. CASE ch.backlog # <<>> /\ ~ch.cmdTimer
    <3>1. ch'.backlog = WithoutNewest(ch.backlog)
      BY <1>0, <2>0, <2>3, BacklogTimerFields
    <3>2. Waiting(ch) = Waiting(ch') \cup {Newest(ch.backlog)}
      <4> DEFINE q == ch.backlog
                 q2 == WithoutNewest(q)
      <4>1. {q[i] : i \in DOMAIN q} = {q2[i] : i \in DOMAIN q2} \cup {Newest(q)}
        BY <1>0, <2>3, WaitingPop
      <4>2. Waiting(ch') = {q2[i] : i \in DOMAIN q2}
        BY <3>1, Zenon DEF Waiting
      <4> QED BY <4>1, <4>2 DEF Waiting
    <3>3. asked' = asked /\ started' = started \cup {Newest(ch.backlog)}
      BY <1>3, <2>3 DEF BacklogTimerExpires, Begin
    <3> QED BY <1>0, <3>2, <3>3
  <2> QED BY <2>1, <2>2, <2>3
<1>4. CASE OkArrives
  <2>1. ch'.backlog = ch.backlog
    BY <1>0, <1>4 DEF OkArrives, StopCmdTimer, ChannelType
  <2>2. Waiting(ch') = Waiting(ch)
    BY <2>1 DEF Waiting
  <2> QED BY <1>0, <1>4, <2>2 DEF OkArrives
<1>5. CASE DeviceHears \/ LoseCmd
  <2>1. ch' = [ch EXCEPT !.air = Tail(@)] /\ UNCHANGED <<asked, started>>
    BY <1>5 DEF DeviceHears, LoseCmd
  <2>2. ch'.backlog = ch.backlog
    BY <1>0, <2>1 DEF ChannelType
  <2>3. Waiting(ch') = Waiting(ch)
    BY <2>2 DEF Waiting
  <2> QED BY <1>0, <2>1, <2>3
<1>6. CASE LoseOk
  BY <1>0, <1>6 DEF LoseOk
<1>7. CASE UNCHANGED vars
  BY <1>0, <1>7 DEF vars
<1> QED BY <1>1, <1>2, <1>3, <1>4, <1>5, <1>6, <1>7 DEF Next

\* Every request made is started or still in the backlog, whatever the link,
\* the timers and the other callers do.
THEOREM NoRequestLostHolds == Spec => []NoRequestLost
<1>1. Init => NoRequestLost
  BY DEF Init, IdleChannel, NoRequestLost, Waiting
<1> QED BY <1>1, TypeInvInit, TypeInvStep, NoRequestLostStep, PTL DEF Spec

-----------------------------------------------------------------------------

\* On a timely link at most one message of the dialogue is in flight, it
\* belongs to the outstanding command, and every write of that command that
\* is not in flight has been lost.
TimelyInv ==
    /\ Len(ch.air) + oks \in {0, 1}
    /\ ch.air # <<>> => ch.cmdTimer /\ Head(ch.air) = ch.last_cmd
    /\ oks > 0 => ch.cmdTimer /\ heard
    /\ ~ch.cmdTimer => ch.last_cmd = NoCmd \/ heard
    /\ ch.cmdTimer => writes = lost + Len(ch.air) + oks
    /\ timedOut => lost > Retry

LEMMA EmptyIsZero == ASSUME NEW q \in Seq(Cmd) PROVE q = <<>> <=> Len(q) = 0
OBVIOUS

LEMMA EmptyOrOne ==
    ASSUME NEW q \in Seq(Cmd), NEW c \in Cmd
    PROVE  /\ Len(q) \in Nat
           /\ q = <<>> <=> Len(q) = 0
           /\ q = <<>> => Len(Append(q, c)) = 1 /\ Head(Append(q, c)) = c
           /\ q # <<>> => Len(Tail(q)) = Len(q) - 1
           /\ Len(q) = 1 => Tail(q) = <<>>
<1>1. Len(q) \in Nat /\ (q = <<>> <=> Len(q) = 0)
  OBVIOUS
<1>2. q = <<>> => Len(Append(q, c)) = 1 /\ Head(Append(q, c)) = c
  OBVIOUS
<1>3. q # <<>> => Len(Tail(q)) = Len(q) - 1 /\ Tail(q) \in Seq(Cmd)
  OBVIOUS
<1>4. ASSUME Len(q) = 1 PROVE Tail(q) = <<>>
  <2>1. q # <<>>
    BY <1>1, <1>4
  <2>2. Tail(q) \in Seq(Cmd) /\ Len(Tail(q)) = 0
    BY <1>3, <1>4, <2>1
  <2> QED BY <2>2, EmptyIsZero
<1> QED BY <1>1, <1>2, <1>3, <1>4

LEMMA AtMostOne ==
    ASSUME NEW a \in Nat, NEW b \in Nat, a + b \in {0, 1}, a # 0
    PROVE  a = 1 /\ b = 0
OBVIOUS

LEMMA TimelyStep ==
    ASSUME Timely
    PROVE  TypeInv /\ BudgetInv /\ TimelyInv /\ [Next]_vars => TimelyInv'
<1> SUFFICES ASSUME TypeInv, BudgetInv, TimelyInv, [Next]_vars PROVE TimelyInv'
  OBVIOUS
<1>0. /\ ch.air \in Seq(Cmd) /\ ch.last_cmd \in Cmd \cup {NoCmd} /\ ch.cmdTimer \in BOOLEAN
      /\ oks \in Nat /\ lost \in Nat /\ writes \in Nat /\ Retry \in Nat
      /\ ch.cmdTimer => ch.last_cmd # NoCmd
      /\ Len(ch.air) \in Nat
      /\ ch.air = <<>> <=> Len(ch.air) = 0
  BY RetryAssumption, EmptyIsZero DEF TypeInv, TypeOK, ChannelType
<1>1. ASSUME NEW c \in Cmd, Begins(c) PROVE TimelyInv'
  <2>1. ch.air = <<>> /\ oks = 0
    BY <1>0, <1>1 DEF Begins, TimelyInv
  <2>2. Len(ch'.air) = 1 /\ Head(ch'.air) = c /\ oks' = 0
    BY <1>0, <1>1, <2>1, EmptyOrOne DEF Begins
  <2> QED BY <1>1, <2>2 DEF Begins, Begin, TimelyInv
<1>2. ASSUME Keeps, ch'.air = ch.air, UNCHANGED <<oks, heard, lost, timedOut>>
      PROVE  TimelyInv'
  BY <1>2 DEF Keeps, TimelyInv
<1>3. ASSUME NEW c \in Cmd, Request(c) PROVE TimelyInv'
  BY <1>1, <1>2, <1>3, RequestCases
<1>4. CASE CmdTimerExpires
  <2>1. ch.air = <<>> /\ oks = 0 /\ ch.cmdTimer /\ ch.last_cmd \in Cmd
    BY <1>0, <1>4 DEF CmdTimerExpires
  <2>2. CASE Repeats
    <3>1. Len(ch'.air) = 1 /\ Head(ch'.air) = ch.last_cmd
      BY <1>0, <2>1, <2>2, EmptyOrOne DEF Repeats
    <3> QED BY <1>0, <2>1, <2>2, <3>1 DEF Repeats, TimelyInv
  <2>3. CASE ~Repeats
    <3>1. /\ Keeps /\ ch.retry = 0 /\ ch'.air = ch.air
          /\ UNCHANGED <<oks, heard, lost>>
      BY <1>4, <2>3, CmdTimerCases
    <3>2. writes = Retry + 1 /\ writes = lost
      BY <1>0, <2>1, <3>1 DEF BudgetInv, TimelyInv
    <3> QED BY <1>0, <2>1, <3>1, <3>2 DEF Keeps, TimelyInv
  <2> QED BY <2>2, <2>3
<1>5. CASE BacklogTimerExpires
  BY <1>1, <1>2, <1>5, BacklogTimerCases
<1>6. CASE OkArrives
  <2>1. /\ oks = 1 /\ oks' = 0 /\ Len(ch.air) = 0 /\ heard
        /\ UNCHANGED <<heard, lost, timedOut, writes>>
    BY <1>0, <1>6 DEF OkArrives, TimelyInv
  <2>2. ch'.air = ch.air /\ ~ch'.cmdTimer
    BY <1>6, OkFields
  <2>3. ch'.air = <<>> /\ Len(ch'.air) + oks' = 0
    BY <1>0, <2>1, <2>2
  <2>4. heard' /\ (timedOut' => lost' > Retry)
    BY <2>1 DEF TimelyInv
  <2> QED BY <2>1, <2>2, <2>3, <2>4 DEF TimelyInv
<1>7. CASE DeviceHears \/ LoseCmd
  <2>1. ch.air # <<>>
    BY <1>7 DEF DeviceHears, LoseCmd
  <2>2. ch.cmdTimer /\ Head(ch.air) = ch.last_cmd /\ Len(ch.air) = 1 /\ oks = 0
    <3>1. ch.cmdTimer /\ Head(ch.air) = ch.last_cmd
      BY <2>1 DEF TimelyInv
    <3>2. Len(ch.air) + oks \in {0, 1}
      BY DEF TimelyInv
    <3>3. Len(ch.air) \in Nat /\ Len(ch.air) # 0 /\ oks \in Nat
      BY <1>0, <2>1
    <3>4. Len(ch.air) = 1 /\ oks = 0
      BY <3>2, <3>3, AtMostOne
    <3> QED BY <3>1, <3>4
  <2>3. ch'.air = <<>> /\ Len(ch'.air) = 0
    BY <1>0, <1>7, <2>2, EmptyOrOne, AirFields, ChannelAssumption
  <2>4. /\ ch'.cmdTimer = ch.cmdTimer /\ ch'.last_cmd = ch.last_cmd
        /\ UNCHANGED <<writes, timedOut>>
    BY <1>7, AirFields DEF DeviceHears, LoseCmd
  <2>5. CASE DeviceHears
    <3>1. heard' /\ oks' = 1 /\ lost' = lost
      <4>1. heard'
        BY <2>2, <2>5, Zenon DEF DeviceHears
      <4> QED BY <2>2, <2>5, <4>1 DEF DeviceHears
    <3>2. writes = lost + 1 /\ (timedOut => lost > Retry)
      BY <1>0, <2>2 DEF TimelyInv
    <3>3. writes' = lost' + Len(ch'.air) + oks' /\ Len(ch'.air) + oks' = 1
      BY <1>0, <2>3, <2>4, <3>1, <3>2
    <3>4. timedOut' => lost' > Retry
      BY <2>4, <3>1, <3>2
    <3> QED BY <2>2, <2>3, <2>4, <3>1, <3>3, <3>4 DEF TimelyInv
  <2>6. CASE LoseCmd
    BY <1>0, <2>2, <2>3, <2>4, <2>6 DEF LoseCmd, TimelyInv
  <2> QED BY <1>7, <2>5, <2>6
<1>8. CASE LoseOk
  <2>1. oks = 1 /\ oks' = 0 /\ Len(ch.air) = 0 /\ lost' = lost + 1
    BY <1>0, <1>8 DEF LoseOk, TimelyInv
  <2> QED BY <1>0, <1>8, <2>1 DEF LoseOk, TimelyInv
<1>9. CASE UNCHANGED vars
  BY <1>9 DEF vars, TimelyInv
<1> QED BY <1>3, <1>4, <1>5, <1>6, <1>7, <1>8, <1>9 DEF Next

LEMMA TimelyInit == Init => TimelyInv
<1> SUFFICES ASSUME Init PROVE TimelyInv
  OBVIOUS
<1>1. /\ ch.air = <<>> /\ ~ch.cmdTimer /\ ch.last_cmd = NoCmd
      /\ oks = 0 /\ ~timedOut
  BY DEF Init, IdleChannel
<1> QED BY <1>1 DEF TimelyInv

LEMMA TimelyAlways == ASSUME Timely PROVE Spec => [](TypeInv /\ TimelyInv)
<1>1. Init => BudgetInv
  BY DEF Init, IdleChannel, BudgetInv
<1>2. TypeInv /\ BudgetInv /\ TimelyInv /\ [Next]_vars => TimelyInv'
  BY TimelyStep
<1> QED
  BY <1>1, <1>2, TypeInvInit, TypeInvStep, BudgetStep, TimelyInit, PTL DEF Spec

\* The answer that stops m_cmdTimer was caused by the outstanding command.
THEOREM AckMeansHeardHolds == ASSUME Timely PROVE Spec => []AckMeansHeard
<1>1. TypeInv /\ TimelyInv => AckMeansHeard
  BY DEF TimelyInv, AckMeansHeard
<1> QED BY <1>1, TimelyAlways, PTL

\* "CMD Timeout!" is reported only when Retry + 1 messages have been lost.
THEOREM TimeoutMeansLossHolds == ASSUME Timely PROVE Spec => []TimeoutMeansLoss
<1>1. TypeInv /\ TimelyInv => TimeoutMeansLoss
  BY DEF TimelyInv, TimeoutMeansLoss
<1> QED BY <1>1, TimelyAlways, PTL

-----------------------------------------------------------------------------

\* The phase of CmdDelivery that a state of the channel stands for.
Phase == IF ~ch.cmdTimer THEN "idle" ELSE IF heard THEN "heard" ELSE "sent"

AbstractStep == Delivery!Next \/ UNCHANGED <<ch.last_cmd, Phase>>

LEMMA DeliveryStep ==
    TypeInv /\ TimelyInv /\ [Next]_vars => AbstractStep
<1> SUFFICES ASSUME TypeInv, TimelyInv, [Next]_vars PROVE AbstractStep
  OBVIOUS
<1>1. ASSUME NEW c \in Cmd, Begins(c) PROVE AbstractStep
  <2>1. Phase = "idle" /\ Phase' = "sent" /\ ch'.last_cmd = c
    BY <1>1, Zenon DEF Begins, Begin, Phase
  <2>2. Delivery!Start(c)
    BY <2>1 DEF Delivery!Start, Phase
  <2> QED BY <2>2 DEF AbstractStep, Delivery!Next
<1>2. ASSUME Keeps, heard' = heard PROVE AbstractStep
  BY <1>2, Zenon DEF Keeps, AbstractStep, Phase
<1>3. ASSUME NEW c \in Cmd, Request(c) PROVE AbstractStep
  BY <1>1, <1>2, <1>3, RequestCases
<1>4. CASE CmdTimerExpires
  <2>1. CASE Repeats
    BY <2>1, Zenon DEF Repeats, AbstractStep, Phase
  <2>2. CASE ~Repeats
    BY <1>2, <1>4, <2>2, CmdTimerCases
  <2> QED BY <2>1, <2>2
<1>5. CASE BacklogTimerExpires
  BY <1>1, <1>2, <1>5, BacklogTimerCases
<1>6. CASE OkArrives
  <2>1. ch.cmdTimer /\ heard
    BY <1>6 DEF OkArrives, TimelyInv
  <2>2. Phase = "heard" /\ Phase' = "idle" /\ ch'.last_cmd = ch.last_cmd
    BY <1>6, <2>1, OkFields, Zenon DEF Phase
  <2>3. Delivery!Finish
    BY <2>2 DEF Delivery!Finish, Phase
  <2> QED BY <2>3 DEF AbstractStep, Delivery!Next
<1>7. CASE DeviceHears
  <2>1. ch.cmdTimer /\ Head(ch.air) = ch.last_cmd
    BY <1>7 DEF DeviceHears, TimelyInv
  <2>2. ch'.cmdTimer = ch.cmdTimer /\ ch'.last_cmd = ch.last_cmd /\ heard'
    <3>1. heard'
      BY <1>7, <2>1, Zenon DEF DeviceHears
    <3> QED BY <1>7, <3>1, AirFields
  <2>3. Phase' = "heard" /\ (Phase = "heard" \/ Phase = "sent")
    BY <2>1, <2>2, Zenon DEF Phase
  <2>4. CASE Phase = "heard"
    BY <2>2, <2>3, <2>4 DEF AbstractStep
  <2>5. CASE Phase = "sent"
    <3>1. Delivery!Hear
      BY <2>2, <2>3, <2>5 DEF Delivery!Hear, Phase
    <3> QED BY <3>1 DEF AbstractStep, Delivery!Next
  <2> QED BY <2>3, <2>4, <2>5
<1>8. CASE LoseCmd
  BY <1>8, AirFields, Zenon DEF LoseCmd, AbstractStep, Phase
<1>9. CASE LoseOk
  BY <1>9, Zenon DEF LoseOk, AbstractStep, Phase
<1>10. CASE UNCHANGED vars
  BY <1>10, Zenon DEF vars, AbstractStep, Phase
<1> QED BY <1>3, <1>4, <1>5, <1>6, <1>7, <1>8, <1>9, <1>10 DEF Next

\* On a timely link the channel, with its retransmissions, its backlog and a
\* link that loses messages, implements CmdDelivery.
THEOREM ChannelImplementsDelivery == ASSUME Timely PROVE Spec => DeliverySpec
<1>1. Init => Delivery!Init
  BY DEF Init, IdleChannel, Delivery!Init
<1>2. TypeInv /\ TimelyInv /\ [Next]_vars
      => [Delivery!Next]_<<ch.last_cmd, Phase>>
  BY DeliveryStep DEF AbstractStep
<1>3. Spec => [](TypeInv /\ TimelyInv)
  BY TimelyAlways
<1> QED
  BY <1>1, <1>2, <1>3, PTL DEF Spec, DeliverySpec, Delivery!Spec, Phase
=============================================================================
