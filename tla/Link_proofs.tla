---------------------------- MODULE Link_proofs ----------------------------
(***************************************************************************)
(* Proofs about the client's end of a link: about LinkControl, for every   *)
(* set of clients and every CONNECT_TIMES, and about Receive, for every    *)
(* checksum that notices one wrong character, any sizes and any bounds.    *)
(***************************************************************************)
EXTENDS LinkControl, Receive, SequenceTheorems, TLAPS

(***************************************************************************)
(* What holds of one client while the collection timers have not been      *)
(* stopped: from the end of its first session on, each signal is handled   *)
(* before the next is sent, so that at most one kind is pending, and once  *)
(* it is handled gather_stop says what the client said last.               *)
(***************************************************************************)
InStep(c) ==
  /\ sessions[c] > 0 => a_flag[c]
  /\ pc[c] \notin {"connect", "login"} => sessions[c] > 0
  /\ pc[c] \in {"spin", "linger"} => pending[c] = {}
  /\ pc[c] \in {"connect", "login"} /\ sessions[c] > 0
       => pending[c] = {} /\ gather_stop[c]
  /\ pc[c] = "settle" /\ sessions[c] = 2
       => /\ pending[c] \subseteq {"start"}
          /\ pending[c] = {} => ~gather_stop[c]
  /\ pc[c] \in {"spin", "linger"} /\ sessions[c] = 2 => ~gather_stop[c]
  /\ pc[c] = "quiet"
       => /\ pending[c] \subseteq {"stop"}
          /\ pending[c] = {} => gather_stop[c]

(***************************************************************************)
(* The inductive invariant.                                                *)
(***************************************************************************)
IInv ==
  /\ TypeOK
  /\ ~stalled => timers = "running" /\ \A c \in Client : InStep(c)

-----------------------------------------------------------------------------
LEMMA TypeInit == Init => TypeOK
  <1> SUFFICES ASSUME Init PROVE TypeOK
    OBVIOUS
  <1>1. /\ a_flag \in [Client -> BOOLEAN]
        /\ b_flag \in [Client -> BOOLEAN]
        /\ once \in [Client -> BOOLEAN]
        /\ gather_stop \in [Client -> BOOLEAN]
        /\ stalled \in BOOLEAN
    BY Zenon DEF Init
  <1>2. /\ pc \in [Client -> Control]
        /\ reboot_flag \in [Client -> 0 .. CONNECT_TIMES + 1]
        /\ error \in [Client -> 0 .. 3]
        /\ pending \in [Client -> SUBSET Signal]
        /\ sessions \in [Client -> 0 .. 2]
        /\ timers \in {"running", "stopped", "armed"}
    BY ConnectTimesAssumption DEF Init, Control
  <1> QED BY <1>1, <1>2 DEF TypeOK

LEMMA TypeStep == TypeOK /\ [Next]_vars => TypeOK'
  <1> SUFFICES ASSUME TypeOK, [Next]_vars PROVE TypeOK'
    OBVIOUS
  <1> USE DEF TypeOK, flags, gather, client
  <1>1. ASSUME NEW c \in Client, ConnectFail(c) PROVE TypeOK'
    BY <1>1, ConnectTimesAssumption
       DEF ConnectFail, CountFailure, Goto, sigqueue, Control, Signal
  <1>2. ASSUME NEW c \in Client, ConnectOk(c) PROVE TypeOK'
    BY <1>2 DEF ConnectOk, Goto, Control
  <1>3. ASSUME NEW c \in Client, LoginFail(c) PROVE TypeOK'
    <2>1. CASE a_flag[c] \/ b_flag[c]
      BY <1>3, <2>1, ConnectTimesAssumption
         DEF LoginFail, CountFailure, Goto, Control
    <2>2. CASE ~(a_flag[c] \/ b_flag[c])
      <3>1. b_flag' \in [Client -> BOOLEAN]
        BY <1>3, <2>2 DEF LoginFail
      <3> QED BY <1>3, <2>2, <3>1, ConnectTimesAssumption
              DEF LoginFail, CountFailure, Goto, sigqueue, Control, Signal
    <2> QED BY <2>1, <2>2
  <1>4. ASSUME NEW c \in Client, LoginOk(c) PROVE TypeOK'
    BY <1>4, ConnectTimesAssumption
       DEF LoginOk, Goto, sigqueue, Control, Signal
  <1>5. ASSUME NEW c \in Client, Settled(c) PROVE TypeOK'
    BY <1>5 DEF Settled, Goto, Control
  <1>6. ASSUME NEW c \in Client, CreateThreads(c) PROVE TypeOK'
    BY <1>6 DEF CreateThreads
  <1>7. ASSUME NEW c \in Client, SeeError(c) PROVE TypeOK'
    BY <1>7 DEF SeeError, Goto, Control
  <1>8. ASSUME NEW c \in Client, CloseLink(c) PROVE TypeOK'
    BY <1>8 DEF CloseLink, Goto, sigqueue, Control, Signal
  <1>9. ASSUME NEW c \in Client, Reconnect(c) PROVE TypeOK'
    BY <1>9 DEF Reconnect, Goto, Control
  <1>10. ASSUME NEW c \in Client, NEW e \in 1 .. 3, RaiseError(c, e)
         PROVE  TypeOK'
    BY <1>10 DEF RaiseError
  <1>11. ASSUME NEW c \in Client, Reboot(c) PROVE TypeOK'
    <2>1. Init'
      BY <1>11 DEF Reboot, Init
    <2> QED BY <2>1, TypeInit, PTL
  <1>12. ASSUME NEW c \in Client, NEW s \in Signal, Handle(c, s) PROVE TypeOK'
    <2>1. gather_stop' \in [Client -> BOOLEAN]
      BY <1>12, Zenon DEF Handle
    <2>2. pending' \in [Client -> SUBSET Signal]
      BY <1>12 DEF Handle
    <2> QED BY <1>12, <2>1, <2>2 DEF Handle
  <1>13. CASE StopTimers BY <1>13 DEF StopTimers
  <1>14. CASE StartTimers BY <1>14 DEF StartTimers
  <1>15. CASE FirstExpiry BY <1>15 DEF FirstExpiry
  <1>16. CASE UNCHANGED vars BY <1>16 DEF vars
  <1> QED
    BY <1>1, <1>2, <1>3, <1>4, <1>5, <1>6, <1>7, <1>8, <1>9, <1>10, <1>11,
       <1>12, <1>13, <1>14, <1>15, <1>16 DEF Next, Main

(***************************************************************************)
(* Type correctness.                                                       *)
(***************************************************************************)
THEOREM TypeCorrect == Spec => []TypeOK
<1> QED BY TypeInit, TypeStep, PTL DEF Spec

-----------------------------------------------------------------------------
(***************************************************************************)
(* A step of client c keeps c in step; what it does to others is nothing.  *)
(***************************************************************************)
LEMMA OwnStep ==
  ASSUME TypeOK, NEW c \in Client, InStep(c), timers = "running",
         \/ Main(c)
         \/ \E e \in 1 .. 3 : RaiseError(c, e)
         \/ \E s \in Signal : Handle(c, s)
  PROVE  InStep(c)'
  <1> USE DEF TypeOK, InStep, flags, gather, Goto, sigqueue, CountFailure,
              Slept, Signal
  <1>1. CASE ConnectFail(c) BY <1>1 DEF ConnectFail
  <1>2. CASE ConnectOk(c) BY <1>2 DEF ConnectOk
  <1>3. CASE LoginFail(c) BY <1>3 DEF LoginFail
  <1>4. CASE LoginOk(c) BY <1>4 DEF LoginOk
  <1>5. CASE Settled(c) BY <1>5 DEF Settled
  <1>6. CASE CreateThreads(c) BY <1>6 DEF CreateThreads
  <1>7. CASE SeeError(c) BY <1>7 DEF SeeError
  <1>8. CASE CloseLink(c) BY <1>8 DEF CloseLink
  <1>9. CASE Reconnect(c) BY <1>9 DEF Reconnect
  <1>10. ASSUME NEW e \in 1 .. 3, RaiseError(c, e) PROVE InStep(c)'
    BY <1>10 DEF RaiseError
  <1>11. ASSUME NEW s \in Signal, Handle(c, s) PROVE InStep(c)'
    BY <1>11 DEF Handle
  <1> QED BY <1>1, <1>2, <1>3, <1>4, <1>5, <1>6, <1>7, <1>8, <1>9, <1>10,
             <1>11 DEF Main

LEMMA OtherStep ==
  ASSUME TypeOK, NEW c \in Client, NEW d \in Client, d # c, InStep(d),
         \/ Main(c)
         \/ \E e \in 1 .. 3 : RaiseError(c, e)
         \/ \E s \in Signal : Handle(c, s)
  PROVE  InStep(d)'
  <1> USE DEF TypeOK, flags, gather, Goto, sigqueue, CountFailure, InStep
  <1>1. CASE ConnectFail(c) BY <1>1 DEF ConnectFail
  <1>2. CASE ConnectOk(c) BY <1>2 DEF ConnectOk
  <1>3. CASE LoginFail(c) BY <1>3 DEF LoginFail
  <1>4. CASE LoginOk(c) BY <1>4 DEF LoginOk
  <1>5. CASE Settled(c) BY <1>5 DEF Settled
  <1>6. CASE CreateThreads(c) BY <1>6 DEF CreateThreads
  <1>7. CASE SeeError(c) BY <1>7 DEF SeeError
  <1>8. CASE CloseLink(c) BY <1>8 DEF CloseLink
  <1>9. CASE Reconnect(c) BY <1>9 DEF Reconnect
  <1>10. ASSUME NEW e \in 1 .. 3, RaiseError(c, e) PROVE InStep(d)'
    BY <1>10 DEF RaiseError
  <1>11. ASSUME NEW s \in Signal, Handle(c, s) PROVE InStep(d)'
    BY <1>11 DEF Handle
  <1> QED BY <1>1, <1>2, <1>3, <1>4, <1>5, <1>6, <1>7, <1>8, <1>9, <1>10,
             <1>11 DEF Main

LEMMA Inductive == Spec => []IInv
<1>1. Init => IInv
  <2>1. ASSUME Init, NEW c \in Client PROVE InStep(c)
    <3>1. pc[c] = "connect" /\ sessions[c] = 0
      BY <2>1 DEF Init
    <3> QED BY <3>1 DEF InStep
  <2> QED BY <2>1, TypeInit DEF Init, IInv
<1>2. IInv /\ [Next]_vars => IInv'
  <2> SUFFICES ASSUME IInv, [Next]_vars, ~stalled'
               PROVE  timers' = "running" /\ \A d \in Client : InStep(d)'
    BY TypeStep DEF IInv
  <2>1. CASE UNCHANGED vars BY <2>1 DEF vars, IInv, InStep
  <2>2. ASSUME NEW c \in Client, Reboot(c)
        PROVE  timers' = "running" /\ \A d \in Client : InStep(d)'
    BY <2>2 DEF Reboot, InStep
  <2>3. CASE StopTimers BY <2>3 DEF StopTimers
  <2>4. CASE StartTimers \/ FirstExpiry
    BY <2>4 DEF StartTimers, FirstExpiry, IInv
  <2>5. ASSUME NEW c \in Client,
               \/ Main(c)
               \/ \E e \in 1 .. 3 : RaiseError(c, e)
               \/ \E s \in Signal : Handle(c, s)
        PROVE  timers' = "running" /\ \A d \in Client : InStep(d)'
    <3>1. stalled' = stalled /\ timers' = timers
      BY <2>5 DEF Main, ConnectFail, ConnectOk, LoginFail, LoginOk, Settled,
                  CreateThreads, SeeError, CloseLink, Reconnect, RaiseError,
                  Handle, gather
    <3> QED BY <2>5, <3>1, OwnStep, OtherStep DEF IInv
  <2> QED BY <2>1, <2>2, <2>3, <2>4, <2>5 DEF Next
<1> QED BY <1>1, <1>2, PTL DEF Spec

(***************************************************************************)
(* Between sessions nothing is queued for the server, and no signal is     *)
(* pending that could change that.                                         *)
(***************************************************************************)
THEOREM Stopped == Spec => []OfflineStopped
<1>1. IInv => OfflineStopped BY DEF IInv, InStep, OfflineStopped
<1> QED BY <1>1, Inductive, PTL

(***************************************************************************)
(* From the second login on, gather queues the data of a running session.  *)
(***************************************************************************)
THEOREM Flows == Spec => []LaterSessionFlows
<1>1. IInv => LaterSessionFlows BY DEF IInv, InStep, LaterSessionFlows
<1> QED BY <1>1, Inductive, PTL

-----------------------------------------------------------------------------
(***************************************************************************)
(* With values of the standard width every reader finds what it looks for. *)
(***************************************************************************)
LEMMA FourAndThree ==
  ASSUME NEW a, NEW b, NEW c, NEW d, NEW e, NEW f, NEW g
  PROVE  <<a, b, c, d>> \o <<e, f, g>> = <<a, b, c, d, e, f, g>>
  <1> DEFINE S == {a, b, c, d, e, f, g}
             s == <<a, b, c, d>> \o <<e, f, g>>
             t == <<a, b, c, d, e, f, g>>
  <1>1. Len(s) = 7 /\ s \in Seq(S)
    OBVIOUS
  <1>2. Len(t) = 7 /\ t \in Seq(S)
    OBVIOUS
  <1>3. \A i \in 1 .. 7 : s[i] = t[i]
    OBVIOUS
  <1>4. s = t
    <2> HIDE DEF s, t, S
    <2> QED BY <1>1, <1>2, <1>3, SeqEqual
  <1> QED BY <1>4

LEMMA FourAndFour ==
  ASSUME NEW a, NEW b, NEW c, NEW d, NEW e, NEW f, NEW g, NEW h
  PROVE  <<a, b, c, d>> \o <<e, f, g, h>> = <<a, b, c, d, e, f, g, h>>
  <1> DEFINE S == {a, b, c, d, e, f, g, h}
             s == <<a, b, c, d>> \o <<e, f, g, h>>
             t == <<a, b, c, d, e, f, g, h>>
  <1>1. Len(s) = 8 /\ s \in Seq(S)
    OBVIOUS
  <1>2. Len(t) = 8 /\ t \in Seq(S)
    OBVIOUS
  <1>3. \A i \in 1 .. 8 : s[i] = t[i]
    OBVIOUS
  <1>4. s = t
    <2> HIDE DEF s, t, S
    <2> QED BY <1>1, <1>2, <1>3, SeqEqual
  <1> QED BY <1>4

LEMMA OneAndFour ==
  ASSUME NEW a, NEW b, NEW c, NEW d, NEW e
  PROVE  <<a>> \o <<b, c, d, e>> = <<a, b, c, d, e>>
  <1> DEFINE S == {a, b, c, d, e}
             s == <<a>> \o <<b, c, d, e>>
             t == <<a, b, c, d, e>>
  <1>1. Len(s) = 5 /\ s \in Seq(S)
    OBVIOUS
  <1>2. Len(t) = 5 /\ t \in Seq(S)
    OBVIOUS
  <1>3. \A i \in 1 .. 5 : s[i] = t[i]
    OBVIOUS
  <1>4. s = t
    <2> HIDE DEF s, t, S
    <2> QED BY <1>1, <1>2, <1>3, SeqEqual
  <1> QED BY <1>4

LEMMA FiveAndThree ==
  ASSUME NEW a, NEW b, NEW c, NEW d, NEW e, NEW f, NEW g, NEW h
  PROVE  <<a, b, c, d, e>> \o <<f, g, h>> = <<a, b, c, d, e, f, g, h>>
  <1> DEFINE S == {a, b, c, d, e, f, g, h}
             s == <<a, b, c, d, e>> \o <<f, g, h>>
             t == <<a, b, c, d, e, f, g, h>>
  <1>1. Len(s) = 8 /\ s \in Seq(S)
    OBVIOUS
  <1>2. Len(t) = 8 /\ t \in Seq(S)
    OBVIOUS
  <1>3. \A i \in 1 .. 8 : s[i] = t[i]
    OBVIOUS
  <1>4. s = t
    <2> HIDE DEF s, t, S
    <2> QED BY <1>1, <1>2, <1>3, SeqEqual
  <1> QED BY <1>4

LEMMA Layouts ==
  /\ Answer = <<"ST", "CN", "PW", "MN", "Flag", "CP", "QN", "CN2">>
  /\ Command = <<"QN", "ST", "CN", "PW", "MN", "Flag", "CP", "Argument">>
  /\ create_pkt_heartbeat = <<"ST", "CN", "PW", "MN", "QN", "Flag", "CP">>
  /\ create_pkt_alarm_data
       = <<"ST", "CN", "PW", "MN", "CP", "QN", "DataTime">>
  /\ create_pkt_minute_data
       = <<"ST", "CN", "PW", "MN", "Flag", "CP", "QN", "DataTime">>
  /\ create_pkt_hourly_data
       = <<"ST", "CN", "PW", "MN", "Flag", "CP", "QN", "DataTime">>
  /\ create_pkt_daily_data
       = <<"ST", "CN", "PW", "MN", "Flag", "CP", "QN", "DataTime">>
  <1>1. Answer = <<"ST", "CN", "PW", "MN", "Flag", "CP", "QN", "CN2">>
    BY FourAndFour DEF Answer, Head4
  <1>2. Command = <<"QN", "ST", "CN", "PW", "MN", "Flag", "CP", "Argument">>
    <2>1. <<"QN">> \o Head4 = <<"QN", "ST", "CN", "PW", "MN">>
      BY OneAndFour DEF Head4
    <2>2. <<"QN", "ST", "CN", "PW", "MN">> \o <<"Flag", "CP", "Argument">>
            = <<"QN", "ST", "CN", "PW", "MN", "Flag", "CP", "Argument">>
      BY FiveAndThree
    <2> QED BY <2>1, <2>2 DEF Command
  <1>3. create_pkt_heartbeat = <<"ST", "CN", "PW", "MN", "QN", "Flag", "CP">>
    BY FourAndThree DEF create_pkt_heartbeat, Head4
  <1>4. create_pkt_alarm_data
          = <<"ST", "CN", "PW", "MN", "CP", "QN", "DataTime">>
    BY FourAndThree DEF create_pkt_alarm_data, Head4
  <1>5. /\ create_pkt_minute_data = Head4 \o <<"Flag", "CP", "QN", "DataTime">>
        /\ create_pkt_hourly_data = Head4 \o <<"Flag", "CP", "QN", "DataTime">>
        /\ create_pkt_daily_data = Head4 \o <<"Flag", "CP", "QN", "DataTime">>
    BY DEF create_pkt_minute_data, create_pkt_hourly_data,
           create_pkt_daily_data
  <1>6. Head4 \o <<"Flag", "CP", "QN", "DataTime">>
          = <<"ST", "CN", "PW", "MN", "Flag", "CP", "QN", "DataTime">>
    BY FourAndFour DEF Head4
  <1> QED BY <1>1, <1>2, <1>3, <1>4, <1>5, <1>6

LEMMA Widths ==
  /\ Width("ST", Standard) = 6 /\ Width("CN", Standard) = 8
  /\ Width("PW", Standard) = 10 /\ Width("MN", Standard) = 18
  /\ Width("Flag", Standard) = 7 /\ Width("CP", Standard) = 5
  /\ Width("QN", Standard) = 21
  /\ \A f : ~Blank(f, Standard)
  BY DEF Width, Standard, AtLeast, Characters, Blank

LEMMA AnswersRead == ReadsAnswer(Standard)
  <1> DEFINE p == Answer
  <1>1. p = <<"ST", "CN", "PW", "MN", "Flag", "CP", "QN", "CN2">>
    BY Layouts
  <1>2. Before(p, 2, Standard) = 6 /\ Before(p, 7, Standard) = 54
        /\ Before(p, 8, Standard) = 75
    BY <1>1, Widths DEF Before
  <1> QED BY <1>1, <1>2, Widths DEF ReadsAnswer, Scans

LEMMA CommandsRead == ReadsCommand(Standard)
  <1> DEFINE p == Command
  <1>1. p = <<"QN", "ST", "CN", "PW", "MN", "Flag", "CP", "Argument">>
    BY Layouts
  <1>2. Before(p, 1, Standard) = 0 /\ Before(p, 3, Standard) = 27
        /\ Before(p, 8, Standard) = 75
    BY <1>1, Widths DEF Before
  <1> QED BY <1>1, <1>2, Widths DEF ReadsCommand, Scans

LEMMA HistoryRead ==
  ASSUME NEW p,
         p = <<"ST", "CN", "PW", "MN", "Flag", "CP", "QN", "DataTime">>
  PROVE  ReadsQueued(p, Standard)
  <1>1. Before(p, 7, Standard) = 54
    BY Widths DEF Before
  <1>2. PointsAt(p, 57, "QN", Standard)
    BY <1>1 DEF PointsAt
  <1>3. ASSUME NEW q \in Queued PROVE PointsAt(q, 9, "CN", Standard)
    <2>1. 2 \in DOMAIN q /\ q[1] = "ST" /\ q[2] = "CN"
      BY DEF Queued, Head4, create_pkt_realtime_data, create_pkt_sbs_status,
             create_pkt_alarm_data, create_pkt_minute_data,
             create_pkt_hourly_data, create_pkt_daily_data,
             create_pkt_response, create_pkt_exec
    <2>2. Before(q, 2, Standard) = 6
      BY <2>1, Widths DEF Before
    <2> QED BY <2>1, <2>2 DEF PointsAt
  <1> QED BY <1>2, <1>3 DEF ReadsQueued

LEMMA Known == \A k \in DOMAIN Answered : KnownAgain(k, Standard)
  <1> DEFINE p == <<"ST", "CN", "PW", "MN", "Flag", "CP", "QN", "DataTime">>
  <1>1. /\ History.minute = p /\ History.hour = p /\ History.day = p
        /\ DOMAIN History = {"minute", "hour", "day"}
        /\ Answered.minute = p /\ Answered.hour = p /\ Answered.day = p
        /\ Answered.heartbeat = <<"ST", "CN", "PW", "MN", "QN", "Flag", "CP">>
        /\ Answered.alarm
             = <<"ST", "CN", "PW", "MN", "CP", "QN", "DataTime">>
        /\ DOMAIN Answered = {"heartbeat", "alarm", "minute", "hour", "day"}
    BY Layouts DEF History, Answered
  <1>2. ASSUME NEW k \in DOMAIN Answered
        PROVE  \E i \in DOMAIN Answered[k] : Answered[k][i] = "QN"
    <2>1. CASE k = "heartbeat"
      <3>1. 5 \in DOMAIN Answered[k] /\ Answered[k][5] = "QN"
        BY <1>1, <2>1
      <3> QED BY <3>1
    <2>2. CASE k = "alarm"
      <3>1. 6 \in DOMAIN Answered[k] /\ Answered[k][6] = "QN"
        BY <1>1, <2>2
      <3> QED BY <3>1
    <2>3. CASE k \in {"minute", "hour", "day"}
      <3>1. 7 \in DOMAIN Answered[k] /\ Answered[k][7] = "QN"
        BY <1>1, <2>3
      <3> QED BY <3>1
    <2> QED BY <1>1, <2>1, <2>2, <2>3
  <1>3. ASSUME NEW k \in DOMAIN History
        PROVE  ReadsQueued(History[k], Standard)
    <2>1. History[k] = p
      BY <1>1
    <2> QED BY <2>1, HistoryRead
  <1> QED BY <1>2, <1>3, AnswersRead DEF KnownAgain

-----------------------------------------------------------------------------
(***************************************************************************)
(* Packets and their frames.                                               *)
(***************************************************************************)
LEMMA Bounds ==
  /\ Room \in Nat /\ MsgSize \in Nat /\ MaxLogin \in Nat /\ MaxFrame \in Nat
  /\ MaxDamage \in Nat /\ DataMax \in Nat /\ DataMax >= 3
  /\ Room >= DataMax + 6
  BY ReceiveAssumption, DataMaxAssumption

LEMMA Characterised ==
  ASSUME NEW d \in Packets
  PROVE  /\ d \in Seq(Nat) /\ Len(d) \in {2, 3} /\ crc16(d) \in Nat
         /\ d[1] \in {65, 66, 67} /\ d[2] \in Nat /\ d[2] >= 48
         /\ Len(d) = 3 => d[1] = 67 /\ d[3] = 48
         /\ d = IF Len(d) = 2 THEN <<d[1], d[2]>> ELSE <<d[1], d[2], d[3]>>
  <1>1. crc16(d) \in Nat
    BY ChecksumAssumption
  <1>2. CASE \E n \in 0 .. MaxLogin : d = Accept(n)
    BY <1>1, <1>2, Bounds DEF Accept
  <1>3. CASE \E n \in 1 .. MaxFrame : d = Respond(n)
    BY <1>1, <1>3, Bounds DEF Respond
  <1>4. CASE \E n \in 1 .. MaxFrame : d = Order(n)
    BY <1>1, <1>4, Bounds DEF Order
  <1> QED BY <1>2, <1>3, <1>4 DEF Packets

LEMMA TwoParts ==
  ASSUME NEW s \in Seq(Nat), NEW t \in Seq(Nat)
  PROVE  /\ s \o t \in Seq(Nat) /\ Len(s \o t) = Len(s) + Len(t)
         /\ \A i \in 1 .. Len(s) : (s \o t)[i] = s[i]
         /\ \A i \in 1 .. Len(t) : (s \o t)[Len(s) + i] = t[i]
  <1>1. s \o t \in Seq(Nat) /\ Len(s \o t) = Len(s) + Len(t)
    BY ConcatProperties
  <1>2. ASSUME NEW i \in 1 .. Len(s) PROVE (s \o t)[i] = s[i]
    <2>1. i \in 1 .. Len(s) + Len(t) /\ i <= Len(s)
      BY LenProperties
    <2> QED BY <2>1, ConcatProperties
  <1>3. ASSUME NEW i \in 1 .. Len(t) PROVE (s \o t)[Len(s) + i] = t[i]
    <2> DEFINE k == Len(s) + i
    <2>1. k \in 1 .. Len(s) + Len(t) /\ ~(k <= Len(s)) /\ k - Len(s) = i
      BY LenProperties
    <2> HIDE DEF k
    <2>2. (s \o t)[k] = t[k - Len(s)]
      BY <2>1, ConcatProperties
    <2> QED BY <2>1, <2>2 DEF k
  <1> QED BY <1>1, <1>2, <1>3

LEMMA Middle ==
  ASSUME NEW s \in Seq(Nat), NEW n \in Nat, 3 + n <= Len(s)
  PROVE  /\ SubSeq(s, 4, 3 + n) \in Seq(Nat) /\ Len(SubSeq(s, 4, 3 + n)) = n
         /\ \A i \in 1 .. n : SubSeq(s, 4, 3 + n)[i] = s[3 + i]
  OBVIOUS

LEMMA Opening ==
  ASSUME NEW s \in Seq(Nat), NEW n \in 1 .. Len(s)
  PROVE  /\ SubSeq(s, 1, n) \in Seq(Nat) /\ Len(SubSeq(s, 1, n)) = n
         /\ \A i \in 1 .. n : SubSeq(s, 1, n)[i] = s[i]
  OBVIOUS

LEMMA Remaining ==
  ASSUME NEW s \in Seq(Nat), NEW n \in 1 .. Len(s)
  PROVE  /\ SubSeq(s, n + 1, Len(s)) \in Seq(Nat)
         /\ Len(SubSeq(s, n + 1, Len(s))) = Len(s) - n
         /\ \A i \in 1 .. Len(s) - n : SubSeq(s, n + 1, Len(s))[i] = s[n + i]
  OBVIOUS

LEMMA Framed ==
  ASSUME NEW d \in Packets
  PROVE  LET e == encap_packet(d)
             n == Len(d)
         IN  /\ e \in Seq(Nat) /\ Len(e) = n + 6
             /\ e[1] = 35 /\ e[2] = 35 /\ e[3] = n
             /\ \A i \in 1 .. n : e[3 + i] = d[i]
             /\ e[n + 4] = crc16(d) /\ e[n + 5] = 13 /\ e[n + 6] = 10
  <1> DEFINE n == Len(d)
             a == <<Hash, Hash, n>>
             c == <<crc16(d), CR, LF>>
             e == (a \o d) \o c
  <1>1. encap_packet(d) = e
    BY DEF encap_packet
  <1>2. d \in Seq(Nat) /\ n \in {2, 3} /\ crc16(d) \in Nat
    BY Characterised
  <1>3. /\ a \in Seq(Nat) /\ Len(a) = 3 /\ a[1] = 35 /\ a[2] = 35 /\ a[3] = n
        /\ c \in Seq(Nat) /\ Len(c) = 3 /\ c[1] = crc16(d) /\ c[2] = 13
        /\ c[3] = 10
    BY <1>2 DEF Hash, CR, LF
  <1> HIDE DEF a, c
  <1>4. /\ a \o d \in Seq(Nat) /\ Len(a \o d) = n + 3
        /\ \A i \in 1 .. 3 : (a \o d)[i] = a[i]
        /\ \A i \in 1 .. n : (a \o d)[3 + i] = d[i]
    <2>1. /\ a \o d \in Seq(Nat) /\ Len(a \o d) = Len(a) + Len(d)
          /\ \A i \in 1 .. Len(a) : (a \o d)[i] = a[i]
          /\ \A i \in 1 .. Len(d) : (a \o d)[Len(a) + i] = d[i]
      <3>1. a \in Seq(Nat) /\ d \in Seq(Nat)
        BY <1>2, <1>3
      <3> QED BY <3>1, TwoParts, Zenon
    <2>2. Len(a) + n = n + 3
      BY <1>2, <1>3
    <2> QED BY <1>3, <2>1, <2>2
  <1> DEFINE b == a \o d
  <1> HIDE DEF b
  <1>5. /\ e \in Seq(Nat) /\ Len(e) = n + 6
        /\ \A i \in 1 .. n + 3 : e[i] = b[i]
        /\ \A i \in 1 .. 3 : e[n + 3 + i] = c[i]
    <2>1. b \in Seq(Nat) /\ Len(b) = n + 3
      BY <1>4 DEF b
    <2>2. /\ b \o c \in Seq(Nat) /\ Len(b \o c) = Len(b) + Len(c)
          /\ \A i \in 1 .. Len(b) : (b \o c)[i] = b[i]
          /\ \A i \in 1 .. Len(c) : (b \o c)[Len(b) + i] = c[i]
      <3>1. b \in Seq(Nat) /\ c \in Seq(Nat)
        BY <1>3, <2>1
      <3> QED BY <3>1, TwoParts, Zenon
    <2>3. n + 3 + 3 = n + 6
      BY <1>2
    <2> QED BY <1>3, <2>1, <2>2, <2>3 DEF b
  <1> HIDE DEF e
  <1>6. e[1] = 35 /\ e[2] = 35 /\ e[3] = n
    <2>1. 1 \in 1 .. n + 3 /\ 2 \in 1 .. n + 3 /\ 3 \in 1 .. n + 3
      BY <1>2
    <2> QED BY <1>3, <1>4, <1>5, <2>1 DEF b
  <1>7. ASSUME NEW i \in 1 .. n PROVE e[3 + i] = d[i]
    <2>1. 3 + i \in 1 .. n + 3
      BY <1>2
    <2> QED BY <1>4, <1>5, <2>1 DEF b
  <1>8. e[n + 4] = crc16(d) /\ e[n + 5] = 13 /\ e[n + 6] = 10
    BY <1>2, <1>3, <1>5
  <1> QED BY <1>1, <1>5, <1>6, <1>7, <1>8

(***************************************************************************)
(* What verify_packet has looked at.                                       *)
(***************************************************************************)
LEMMA Unpacked ==
  ASSUME NEW r \in Seq(Nat), verify_packet(r)
  PROVE  LET n == r[3]
         IN  /\ n \in Nat /\ n <= DataMax /\ n + 6 <= Len(r)
             /\ Data(r) \in Seq(Nat) /\ Len(Data(r)) = n
             /\ \A i \in 1 .. n : Data(r)[i] = r[3 + i]
             /\ r[1] = 35 /\ r[2] = 35
             /\ r[n + 4] = crc16(Data(r)) /\ r[n + 5] = 13 /\ r[n + 6] = 10
  <1> DEFINE m == Buffer(r, 3)
  <1>1. m \in Nat
    BY DEF Buffer
  <1> HIDE DEF m
  <1>2. /\ Buffer(r, 1) = 35 /\ Buffer(r, 2) = 35 /\ m <= DataMax
        /\ Buffer(r, m + 5) = 13 /\ Buffer(r, m + 6) = 10
        /\ Buffer(r, m + 4) = crc16(Data(r))
    <2>1. 3 + m + 1 = m + 4 /\ 3 + m + 2 = m + 5 /\ 3 + m + 3 = m + 6
      BY <1>1
    <2> QED BY <2>1 DEF verify_packet, Marked, Hash, CR, LF, m
  <1>3. m + 6 \in DOMAIN r
    BY <1>2 DEF Buffer
  <1>4. m + 6 <= Len(r) /\ \A i \in 1 .. m + 6 : Buffer(r, i) = r[i]
    BY <1>1, <1>3 DEF Buffer
  <1>5. m = r[3]
    BY <1>1, <1>4 DEF m
  <1>6. /\ Data(r) = SubSeq(r, 4, 3 + m) /\ Data(r) \in Seq(Nat)
        /\ Len(Data(r)) = m /\ \A i \in 1 .. m : Data(r)[i] = r[3 + i]
    <2>1. Data(r) = SubSeq(r, 4, 3 + m)
      BY DEF Data, m
    <2>2. 3 + m <= Len(r)
      BY <1>1, <1>4
    <2>3. /\ SubSeq(r, 4, 3 + m) \in Seq(Nat)
          /\ Len(SubSeq(r, 4, 3 + m)) = m
          /\ \A i \in 1 .. m : SubSeq(r, 4, 3 + m)[i] = r[3 + i]
      BY <1>1, <2>2, Middle, Zenon
    <2> QED BY <2>1, <2>3, Zenon
  <1>7. /\ r[1] = 35 /\ r[2] = 35 /\ r[m + 4] = crc16(Data(r))
        /\ r[m + 5] = 13 /\ r[m + 6] = 10
    BY <1>1, <1>2, <1>4
  <1>8. m + 6 <= Len(r) /\ m <= DataMax
    BY <1>2, <1>4, Zenon
  <1> QED BY <1>1, <1>5, <1>6, <1>7, <1>8, Zenon

LEMMA WholePasses ==
  ASSUME NEW d \in Packets
  PROVE  verify_packet(encap_packet(d)) /\ Data(encap_packet(d)) = d
  <1> DEFINE e == encap_packet(d)
             n == Len(d)
  <1>1. /\ e \in Seq(Nat) /\ Len(e) = n + 6
        /\ e[1] = 35 /\ e[2] = 35 /\ e[3] = n
        /\ \A i \in 1 .. n : e[3 + i] = d[i]
        /\ e[n + 4] = crc16(d) /\ e[n + 5] = 13 /\ e[n + 6] = 10
    BY Framed
  <1>2. n \in {2, 3} /\ d \in Seq(Nat)
    BY Characterised
  <1> HIDE DEF e, n
  <1>3. \A i \in 1 .. n + 6 : Buffer(e, i) = e[i]
    BY <1>1, <1>2 DEF Buffer
  <1>4. Data(e) = d
    <2>1. Data(e) = SubSeq(e, 4, 3 + n)
      <3>1. 3 \in 1 .. n + 6
        BY <1>2
      <3>2. Buffer(e, 3) = n
        BY <1>1, <1>3, <3>1, Zenon
      <3> QED BY <3>2, Zenon DEF Data
    <2>2. /\ SubSeq(e, 4, 3 + n) \in Seq(Nat) /\ Len(SubSeq(e, 4, 3 + n)) = n
          /\ \A i \in 1 .. n : SubSeq(e, 4, 3 + n)[i] = e[3 + i]
      <3>1. n \in Nat /\ 3 + n <= Len(e)
        BY <1>1, <1>2
      <3> QED BY <1>1, <3>1, Middle, Zenon
    <2>3. \A i \in 1 .. n : Data(e)[i] = d[i]
      BY <1>1, <2>1, <2>2, Zenon
    <2>4. Data(e) \in Seq(Nat) /\ Len(Data(e)) = n /\ Len(d) = n
      BY <2>1, <2>2, Zenon DEF n
    <2> QED BY <1>2, <2>3, <2>4, SeqEqual
  <1>5. verify_packet(e)
    <2>1. Buffer(e, 3) = n
      BY <1>1, <1>2, <1>3
    <2>2. 3 + n + 1 = n + 4 /\ 3 + n + 2 = n + 5 /\ 3 + n + 3 = n + 6
      BY <1>2
    <2>3. /\ Buffer(e, 1) = 35 /\ Buffer(e, 2) = 35
          /\ Buffer(e, n + 4) = crc16(d) /\ Buffer(e, n + 5) = 13
          /\ Buffer(e, n + 6) = 10
      BY <1>1, <1>2, <1>3
    <2>4. n <= DataMax
      BY <1>2, Bounds
    <2> QED BY <1>4, <2>1, <2>2, <2>3, <2>4
            DEF verify_packet, Marked, Hash, CR, LF
  <1> QED BY <1>4, <1>5 DEF e

LEMMA Positions ==
  ASSUME NEW d \in Packets
  PROVE  LET e == encap_packet(d)
         IN  /\ e \in Seq(Nat)
             /\ \/ /\ Len(d) = 2 /\ Len(e) = 8 /\ d = <<d[1], d[2]>>
                   /\ e[3] = 2 /\ e[4] = d[1] /\ e[5] = d[2]
                   /\ e[6] = crc16(d) /\ e[7] = 13 /\ e[8] = 10
                \/ /\ Len(d) = 3 /\ Len(e) = 9 /\ d[1] = 67
                   /\ e[3] = 3 /\ e[4] = 67 /\ e[5] = d[2] /\ e[6] = 48
                   /\ e[7] = crc16(d) /\ e[8] = 13 /\ e[9] = 10
  <1> DEFINE e == encap_packet(d)
             m == Len(d)
  <1>1. /\ e \in Seq(Nat) /\ Len(e) = m + 6
        /\ e[3] = m /\ \A i \in 1 .. m : e[3 + i] = d[i]
        /\ e[m + 4] = crc16(d) /\ e[m + 5] = 13 /\ e[m + 6] = 10
    BY Framed
  <1>2. /\ m = 2 \/ m = 3
        /\ m = 3 => d[1] = 67 /\ d[3] = 48
        /\ m = 2 => d = <<d[1], d[2]>>
    BY Characterised
  <1> HIDE DEF e, m
  <1>3. CASE m = 2
    <2>1. e[3 + 1] = d[1] /\ e[3 + 2] = d[2]
      BY <1>1, <1>3
    <2> QED BY <1>1, <1>2, <1>3, <2>1 DEF e, m
  <1>4. CASE m = 3
    <2>1. e[3 + 1] = d[1] /\ e[3 + 2] = d[2] /\ e[3 + 3] = d[3]
      BY <1>1, <1>4
    <2> QED BY <1>1, <1>2, <1>4, <2>1 DEF e, m
  <1> QED BY <1>2, <1>3, <1>4

LEMMA DamagedFrames ==
  ASSUME NEW d \in Packets, NEW r \in Damaged(encap_packet(d))
  PROVE  /\ r \in Seq(Nat) /\ Len(r) = Len(encap_packet(d))
         /\ \/ \E i \in 1 .. Len(r) : \E v \in {0, 3, 66, 35} :
                 /\ r[i] = v
                 /\ \A k \in 1 .. Len(r) : k # i => r[k] = encap_packet(d)[k]
            \/ \E i \in 4 .. Len(r) - 4 :
                 /\ r[i] = encap_packet(d)[i + 1]
                 /\ r[i + 1] = encap_packet(d)[i]
                 /\ \A k \in 1 .. Len(r) :
                      k # i /\ k # i + 1 => r[k] = encap_packet(d)[k]
  <1> DEFINE e == encap_packet(d)
             n == Len(e)
  <1>1. e \in Seq(Nat) /\ n \in Nat
    BY Positions
  <1>2. DOMAIN e = 1 .. n /\ e \in [1 .. n -> Nat]
    BY <1>1, LenProperties
  <1>3. Wrong = {0, 3, 66, 35}
    BY DEF Wrong, Hash
  <1>4. \/ \E i \in DOMAIN e, v \in Wrong : r = [e EXCEPT ![i] = v]
        \/ \E i \in 4 .. n - 4 : r = Swapped(e, i)
    BY DEF Damaged
  <1> HIDE DEF e, n
  <1>5. ASSUME NEW i \in DOMAIN e, NEW v \in Wrong, r = [e EXCEPT ![i] = v]
        PROVE  /\ r \in [1 .. n -> Nat] /\ i \in 1 .. n /\ r[i] = v
               /\ \A k \in 1 .. n : k # i => r[k] = e[k]
    BY <1>2, <1>3, <1>5
  <1>6. ASSUME NEW i \in 4 .. n - 4, r = Swapped(e, i)
        PROVE  /\ r \in [1 .. n -> Nat]
               /\ r[i] = e[i + 1] /\ r[i + 1] = e[i]
               /\ \A k \in 1 .. n : k # i /\ k # i + 1 => r[k] = e[k]
    <2>1. i \in 1 .. n /\ i + 1 \in 1 .. n /\ i # i + 1
      BY <1>1
    <2>2. r = [e EXCEPT ![i] = e[i + 1], ![i + 1] = e[i]]
      BY <1>6 DEF Swapped
    <2> HIDE <1>6
    <2> QED BY <1>2, <2>1, <2>2
  <1>7. r \in [1 .. n -> Nat]
    BY <1>4, <1>5, <1>6
  <1>8. r \in Seq(Nat) /\ Len(r) = n
    BY <1>1, <1>7
  <1>9. CASE \E i \in DOMAIN e, v \in Wrong : r = [e EXCEPT ![i] = v]
    <2>1. PICK i \in DOMAIN e, v \in Wrong : r = [e EXCEPT ![i] = v]
      BY <1>9
    <2>2. /\ i \in 1 .. n /\ r[i] = v
          /\ \A k \in 1 .. n : k # i => r[k] = e[k]
      BY <1>5, <2>1
    <2> QED BY <1>3, <1>8, <2>2 DEF e, n
  <1>10. CASE \E i \in 4 .. n - 4 : r = Swapped(e, i)
    <2>1. PICK i \in 4 .. n - 4 : r = Swapped(e, i)
      BY <1>10
    <2>2. /\ r[i] = e[i + 1] /\ r[i + 1] = e[i]
          /\ \A k \in 1 .. n : k # i /\ k # i + 1 => r[k] = e[k]
      BY <1>6, <2>1
    <2> QED BY <1>8, <2>2 DEF e, n
  <1> QED BY <1>4, <1>9, <1>10

LEMMA NotThird == \A i \in 4 .. 5 : 3 \in 1 .. 9 /\ 3 # i /\ 3 # i + 1
  OBVIOUS

LEMMA NoneOfThem == \A v \in {0, 3, 66, 35} : v # 2 /\ v # 65
  OBVIOUS

(***************************************************************************)
(* The login's answer: a frame that begins what the client receives, and   *)
(* that is taken for an acceptance, was one before any damage.             *)
(***************************************************************************)
LEMMA AcceptedWasSent ==
  ASSUME NEW n \in 0 .. MaxLogin,
         NEW d \in Packets,
         d[1] = 65 \/ d = Respond(1) \/ d = Order(1),
         NEW f \in {encap_packet(d)} \cup Damaged(encap_packet(d)),
         NEW r \in Seq(Nat), verify_packet(r), Data(r) = Accept(n),
         \A i \in 1 .. 6 : r[i] = f[i]
  PROVE  d = Accept(n)
  <1> DEFINE e == encap_packet(d)
  <1>1. \/ /\ Len(d) = 2 /\ Len(e) = 8 /\ d = <<d[1], d[2]>>
           /\ e[3] = 2 /\ e[4] = d[1] /\ e[5] = d[2] /\ e[6] = crc16(d)
        \/ Len(d) = 3 /\ Len(e) = 9 /\ e[3] = 3
    BY Positions
  <1>2. d[1] \in {65, 66, 67} /\ d[2] \in Nat
    BY Characterised
  <1>3. n \in Nat
    BY Bounds
  <1>4. f[3] = 2 /\ f[4] = 65 /\ f[5] = 48 + n /\ f[6] = crc16(Accept(n))
    <2>1. /\ r[3] = Len(Data(r)) /\ r[r[3] + 4] = crc16(Data(r))
          /\ \A i \in 1 .. r[3] : Data(r)[i] = r[3 + i]
      BY Unpacked
    <2>2. Len(Data(r)) = 2 /\ Data(r)[1] = 65 /\ Data(r)[2] = 48 + n
      BY DEF Accept
    <2>3. r[3] = 2
      BY <2>1, <2>2, Zenon
    <2>4. r[3 + 1] = 65 /\ r[3 + 2] = 48 + n /\ r[2 + 4] = crc16(Accept(n))
      <3>1. 1 \in 1 .. 2 /\ 2 \in 1 .. 2
        OBVIOUS
      <3>2. \A i \in 1 .. 2 : Data(r)[i] = r[3 + i]
        BY <2>1, <2>3, Zenon
      <3>3. r[2 + 4] = crc16(Accept(n))
        BY <2>1, <2>3, Zenon
      <3> QED BY <2>2, <3>1, <3>2, <3>3, Zenon
    <2>5. r[3] = f[3] /\ r[4] = f[4] /\ r[5] = f[5] /\ r[6] = f[6]
      <3>1. 3 \in 1 .. 6 /\ 4 \in 1 .. 6 /\ 5 \in 1 .. 6 /\ 6 \in 1 .. 6
        OBVIOUS
      <3> QED BY <3>1, Zenon
    <2>6. r[4] = 65 /\ r[5] = 48 + n /\ r[6] = crc16(Accept(n))
      <3>1. 3 + 1 = 4 /\ 3 + 2 = 5 /\ 2 + 4 = 6
        OBVIOUS
      <3> QED BY <2>4, <3>1
    <2> QED BY <2>3, <2>5, <2>6, Zenon
  <1>5. d[1] # 65 => d[2] = 49
    <2>1. Respond(1)[2] = 49 /\ Order(1)[2] = 49
      BY DEF Respond, Order
    <2> QED BY <2>1, Zenon
  <1>6. CASE f = e
    <2> HIDE DEF e
    <2>1. d = <<d[1], d[2]>> /\ d[1] = 65 /\ d[2] = 48 + n
      BY <1>1, <1>4, <1>6
    <2> QED BY <2>1 DEF Accept
  <1>7. ASSUME f \in Damaged(e) PROVE d = Accept(n)
    <2>1. /\ Len(f) = Len(e)
          /\ \/ \E i \in 1 .. Len(f) : \E v \in {0, 3, 66, 35} :
                  /\ f[i] = v /\ \A k \in 1 .. Len(f) : k # i => f[k] = e[k]
             \/ \E i \in 4 .. Len(f) - 4 :
                  /\ f[i] = e[i + 1] /\ f[i + 1] = e[i]
                  /\ \A k \in 1 .. Len(f) :
                       k # i /\ k # i + 1 => f[k] = e[k]
      BY <1>7, DamagedFrames
    <2> HIDE DEF e
    <2>2. /\ Len(d) = 2 /\ Len(f) = 8 /\ d = <<d[1], d[2]>>
          /\ e[3] = 2 /\ e[4] = d[1] /\ e[5] = d[2] /\ e[6] = crc16(d)
      <3> SUFFICES ASSUME Len(f) = 9, e[3] = 3 PROVE FALSE
        BY <1>1, <2>1
      <3>1. ASSUME NEW i \in 1 .. 9, NEW v \in {0, 3, 66, 35}, f[i] = v,
                   \A k \in 1 .. 9 : k # i => f[k] = e[k]
            PROVE  FALSE
        <4>1. 3 \in 1 .. 9 /\ v # 2
          BY NoneOfThem
        <4>2. CASE i = 3
          BY <1>4, <3>1, <4>1, <4>2, Zenon
        <4>3. CASE i # 3
          <5>1. f[3] = e[3]
            BY <3>1, <4>1, <4>3, Zenon
          <5> QED BY <1>4, <5>1
        <4> QED BY <4>2, <4>3
      <3>2. ASSUME NEW i \in 4 .. 5,
                   \A k \in 1 .. 9 : k # i /\ k # i + 1 => f[k] = e[k]
            PROVE  FALSE
        <4>1. 3 \in 1 .. 9 /\ 3 # i /\ 3 # i + 1
          BY NotThird, Zenon
        <4>2. f[3] = e[3]
          BY <3>2, <4>1
        <4> QED BY <1>4, <4>2
      <3> QED BY <2>1, <3>1, <3>2
    <2>3. ASSUME NEW i \in 1 .. 8, NEW v \in {0, 3, 66, 35}, f[i] = v,
                 \A k \in 1 .. 8 : k # i => f[k] = e[k]
          PROVE  d = Accept(n)
      <3>1. i # 3 /\ i # 4
        <4>1. v # 2 /\ v # 65
          BY NoneOfThem, Zenon
        <4>2. f[3] = 2 /\ f[4] = 65 /\ f[i] = v
          BY <1>4, <2>3, Zenon
        <4> QED BY <4>1, <4>2, Zenon
      <3>2. d[1] = 65
        <4>1. 4 \in 1 .. 8 /\ 4 # i
          <5>1. 4 \in 1 .. 8
            OBVIOUS
          <5> QED BY <3>1, <5>1, Zenon
        <4>2. f[4] = e[4]
          BY <2>3, <4>1
        <4> QED BY <1>4, <2>2, <4>2, Zenon
      <3>3. CASE i # 5
        <4>1. d[2] = 48 + n
          BY <1>4, <2>2, <2>3, <3>3
        <4> QED BY <2>2, <3>2, <4>1 DEF Accept
      <3>4. CASE i = 5
        <4>1. v = 48 + n /\ crc16(d) = crc16(Accept(n))
          BY <1>4, <2>2, <2>3, <3>4
        <4>2. [d EXCEPT ![2] = v] = Accept(n) /\ 2 \in DOMAIN d
          <5>1. [<<65, d[2]>> EXCEPT ![2] = v] = <<65, v>>
            OBVIOUS
          <5>2. d = <<65, d[2]>>
            BY <2>2, <3>2
          <5>3. 2 \in DOMAIN <<65, d[2]>>
            OBVIOUS
          <5>4. <<65, v>> = Accept(n)
            BY <4>1 DEF Accept
          <5> QED BY <5>1, <5>2, <5>3, <5>4, Zenon
        <4>3. v \in Wrong
          BY DEF Wrong, Hash
        <4>4. v = d[2]
          BY <4>1, <4>2, <4>3, ChecksumAssumption
        <4> QED BY <2>2, <3>2, <4>1, <4>4 DEF Accept
      <3> QED BY <3>3, <3>4
    <2>4. ASSUME NEW i \in 4 .. 4, f[i] = e[i + 1], f[i + 1] = e[i]
          PROVE  d = Accept(n)
      <3>1. f[4] = e[5] /\ f[5] = e[4]
        <4>1. i = 4
          OBVIOUS
        <4> QED BY <2>4, <4>1
      <3>2. d[2] = 65 /\ d[1] = 48 + n
        BY <1>4, <2>2, <3>1
      <3>3. d[1] = 65
        BY <1>5, <3>2
      <3> QED BY <2>2, <3>2, <3>3 DEF Accept
    <2> QED BY <2>1, <2>2, <2>3, <2>4
  <1> QED BY <1>6, <1>7

-----------------------------------------------------------------------------
(***************************************************************************)
(* The inductive invariant.  While the client waits for the answer to its  *)
(* login, what it will receive begins with the frame sent first.           *)
(***************************************************************************)
ReceiveTypes ==
  /\ conf \in Config
  /\ link \in {"closed", "login", "session"}
  /\ stream \in Seq(Nat) /\ Len(stream) <= Len(sent) * Room
  /\ sent \in Seq(Packets) /\ Len(sent) <= MaxFrame
  /\ qn \in 0 .. MaxLogin /\ damages \in 0 .. MaxDamage
  /\ verified \in Seq(Seq(Nat)) /\ handled \in Seq(Seq(Nat))
  /\ passed \in Seq(Seq(Nat))
  /\ \A i \in DOMAIN passed : Len(passed[i]) + 6 <= MsgSize
  /\ whole = NotWhole \/ whole \in 0 .. Len(sent)

Next4(i) == {Accept(0), Accept(qn), Respond(i), Order(i)}

Numbered == \A i \in 1 .. Len(sent) : sent[i] \in Next4(i)

Frames(d) == {encap_packet(d)} \cup Damaged(encap_packet(d))

Begins(f) == Len(f) <= Len(stream) /\ \A i \in 1 .. Len(f) : stream[i] = f[i]

Waiting ==
  link = "login" =>
    /\ verified = <<>> /\ handled = <<>> /\ passed = <<>>
    /\ whole \in {0, NotWhole}
    /\ sent = <<>> => stream = <<>>
    /\ sent # <<>> => \E f \in Frames(sent[1]) : Begins(f)

OldTypes ==
  /\ behind \in BOOLEAN /\ left \in Seq(Nat) /\ before \in Seq(Packets)
  /\ Len(before) <= MaxFrame /\ Len(left) <= Len(before) * Room

ReceiveInv == ReceiveTypes /\ Numbered /\ Waiting /\ SessionAccepted

-----------------------------------------------------------------------------
(***************************************************************************)
(* The server sends.                                                       *)
(***************************************************************************)
LEMMA FrameSize ==
  ASSUME NEW d \in Packets, NEW f \in Frames(d)
  PROVE  f \in Seq(Nat) /\ Len(f) \in 8 .. 9 /\ Len(f) <= Room
  <1> DEFINE e == encap_packet(d)
  <1>1. e \in Seq(Nat) /\ (Len(e) = 8 \/ Len(e) = 9)
    BY Positions
  <1>2. f = e \/ f \in Damaged(e)
    BY DEF Frames
  <1>3. f \in Damaged(e) => f \in Seq(Nat) /\ Len(f) = Len(e)
    BY DamagedFrames
  <1> HIDE DEF e
  <1>4. f \in Seq(Nat) /\ (Len(f) = 8 \/ Len(f) = 9)
    BY <1>1, <1>2, <1>3
  <1>5. Room \in Nat /\ Room >= 9
    BY Bounds
  <1> DEFINE k == Len(f)
  <1>6. f \in Seq(Nat) /\ (k = 8 \/ k = 9)
    BY <1>4
  <1> HIDE DEF k
  <1>7. k \in 8 .. 9 /\ k <= Room
    BY <1>5, <1>6
  <1> QED BY <1>6, <1>7 DEF k

LEMMA SentNext ==
  ASSUME ReceiveTypes, NEW d \in Next4(Len(sent) + 1), Len(sent) < MaxFrame
  PROVE  d \in Packets
  <1>1. Len(sent) + 1 \in 1 .. MaxFrame /\ 0 \in 0 .. MaxLogin
    BY Bounds DEF ReceiveTypes
  <1>2. qn \in 0 .. MaxLogin
    BY DEF ReceiveTypes
  <1> QED BY <1>1, <1>2 DEF Next4, Packets

LEMMA OneFrameMore ==
  ASSUME NEW s \in Seq(Packets), NEW t \in Seq(Nat),
         Len(t) <= Len(s) * Room,
         NEW d \in Packets, NEW f \in Frames(d)
  PROVE  /\ Append(s, d) \in Seq(Packets) /\ t \o f \in Seq(Nat)
         /\ Len(Append(s, d)) = Len(s) + 1
         /\ Len(t \o f) <= Len(Append(s, d)) * Room
  <1> DEFINE k == Len(s)
             l == Len(t)
             p == k * Room
  <1>1. /\ Append(s, d) \in Seq(Packets) /\ Len(Append(s, d)) = k + 1
        /\ k \in Nat /\ l \in Nat
    OBVIOUS
  <1>2. f \in Seq(Nat) /\ Len(f) \in Nat /\ Len(f) <= Room
    BY FrameSize
  <1>3. t \o f \in Seq(Nat) /\ Len(t \o f) = l + Len(f)
    BY <1>2, TwoParts
  <1>4. Room \in Nat /\ (k + 1) * Room = p + Room /\ p \in Nat /\ l <= p
    BY <1>1, Bounds
  <1> HIDE DEF k, l, p
  <1>5. Len(t \o f) <= p + Room
    BY <1>1, <1>2, <1>3, <1>4
  <1>6. (k + 1) * Room = Len(Append(s, d)) * Room
    BY <1>1
  <1>7. Len(t \o f) <= Len(Append(s, d)) * Room
    BY <1>4, <1>5, <1>6, Zenon
  <1> QED BY <1>1, <1>3, <1>7 DEF k

LEMMA Sends ==
  ASSUME ReceiveInv, NEW d \in Next4(Len(sent) + 1), SendPacket(d),
         NEW f \in Frames(d), stream' = stream \o f,
         damages' \in 0 .. MaxDamage, whole' \in {whole, NotWhole}
  PROVE  ReceiveInv'
  <1>1. /\ ReceiveTypes /\ Numbered /\ Waiting /\ SessionAccepted
        /\ Len(sent) < MaxFrame /\ sent' = Append(sent, d)
        /\ conf' = conf /\ link' = link /\ qn' = qn
        /\ verified' = verified /\ handled' = handled /\ passed' = passed
    BY DEF ReceiveInv, SendPacket
  <1>2. d \in Packets
    BY <1>1, SentNext
  <1>3. f \in Seq(Nat) /\ Len(f) \in Nat /\ Len(f) <= Room
    BY <1>2, FrameSize
  <1>4. /\ sent \in Seq(Packets) /\ stream \in Seq(Nat)
        /\ Len(sent) \in Nat /\ Len(stream) \in Nat
    BY <1>1 DEF ReceiveTypes
  <1>5. /\ sent' \in Seq(Packets) /\ Len(sent') = Len(sent) + 1
        /\ \A i \in 1 .. Len(sent) : sent'[i] = sent[i]
        /\ sent'[Len(sent) + 1] = d
    BY <1>1, <1>2, <1>4
  <1>6. /\ stream' \in Seq(Nat) /\ Len(stream') = Len(stream) + Len(f)
        /\ \A i \in 1 .. Len(stream) : stream'[i] = stream[i]
        /\ \A i \in 1 .. Len(f) : stream'[Len(stream) + i] = f[i]
    <2>1. /\ stream \o f \in Seq(Nat)
          /\ Len(stream \o f) = Len(stream) + Len(f)
          /\ \A i \in 1 .. Len(stream) : (stream \o f)[i] = stream[i]
          /\ \A i \in 1 .. Len(f) : (stream \o f)[Len(stream) + i] = f[i]
      BY <1>3, <1>4, TwoParts
    <2> QED BY <2>1
  <1>7. Len(stream') <= Len(sent') * Room
    <2>1. Len(stream) <= Len(sent) * Room
      BY <1>1 DEF ReceiveTypes
    <2>2. Len(stream \o f) <= Len(Append(sent, d)) * Room
      BY <1>2, <1>4, <2>1, OneFrameMore
    <2> QED BY <1>1, <2>2
  <1>8. ReceiveTypes'
    <2>1. whole' = NotWhole \/ whole' \in 0 .. Len(sent')
      BY <1>1, <1>4, <1>5 DEF ReceiveTypes
    <2>2. Len(sent') <= MaxFrame
      BY <1>1, <1>4, <1>5, Bounds
    <2> QED BY <1>1, <1>5, <1>6, <1>7, <2>1, <2>2 DEF ReceiveTypes
  <1>9. Numbered'
    BY <1>1, <1>4, <1>5 DEF Numbered, Next4
  <1>10. sent' # <<>>
    BY <1>4, <1>5
  <1>11. Waiting'
    <2> SUFFICES ASSUME link = "login"
                 PROVE  \E g \in Frames(sent'[1]) : Begins(g)'
      BY <1>1, <1>10 DEF Waiting, Frames
    <2>1. CASE sent = <<>>
      <3>1. stream = <<>> /\ sent'[1] = d
        BY <1>1, <1>5, <2>1 DEF Waiting
      <3>2. Begins(f)'
        BY <1>3, <1>6, <3>1 DEF Begins
      <3> QED BY <3>1, <3>2
    <2>2. CASE sent # <<>>
      <3>1. PICK g \in Frames(sent[1]) : Begins(g)
        BY <1>1, <2>2 DEF Waiting
      <3>2. 1 \in 1 .. Len(sent) /\ sent'[1] = sent[1] /\ sent[1] \in Packets
        BY <1>4, <1>5, <2>2
      <3>3. Len(g) \in Nat
        BY <3>1, <3>2, FrameSize
      <3>4. /\ Len(g) <= Len(stream)
            /\ \A i \in 1 .. Len(g) : stream[i] = g[i]
        BY <3>1 DEF Begins
      <3>5. \A i \in 1 .. Len(g) : i \in 1 .. Len(stream)
        BY <1>4, <3>3, <3>4
      <3>6. Len(g) <= Len(stream')
        BY <1>3, <1>4, <1>6, <3>3, <3>4
      <3>7. Begins(g)'
        BY <1>6, <3>4, <3>5, <3>6 DEF Begins
      <3> QED BY <3>1, <3>2, <3>7
    <2> QED BY <2>1, <2>2
  <1>12. SessionAccepted'
    <2> SUFFICES ASSUME link = "session" PROVE sent'[1] = Accept(qn)
      BY <1>1, <1>10 DEF SessionAccepted
    <2>1. sent # <<>> /\ sent[1] = Accept(qn)
      BY <1>1 DEF SessionAccepted
    <2>2. 1 \in 1 .. Len(sent)
      BY <1>4, <2>1
    <2> QED BY <1>5, <2>1, <2>2
  <1> QED BY <1>8, <1>9, <1>11, <1>12 DEF ReceiveInv

-----------------------------------------------------------------------------
(***************************************************************************)
(* The client receives.                                                    *)
(***************************************************************************)
LEMMA Taken ==
  ASSUME ReceiveTypes, NEW r, Received(r)
  PROVE  /\ r \in Seq(Nat) /\ Len(r) \in 1 .. Len(stream)
         /\ \A i \in 1 .. Len(r) : r[i] = stream[i]
         /\ stream' \in Seq(Nat) /\ Len(stream') <= Len(sent) * Room
  <1>1. /\ stream \in Seq(Nat) /\ Len(stream) <= Len(sent) * Room
        /\ Len(stream) \in Nat /\ Len(sent) \in Nat /\ Room \in Nat
    BY Bounds DEF ReceiveTypes
  <1>2. PICK n \in 1 .. Len(stream) :
          r = SubSeq(stream, 1, n)
            /\ stream' = SubSeq(stream, n + 1, Len(stream))
    BY DEF Received
  <1>3. /\ r \in Seq(Nat) /\ Len(r) = n
        /\ \A i \in 1 .. n : r[i] = stream[i]
    BY <1>1, <1>2, Opening, Zenon
  <1>4. stream' \in Seq(Nat) /\ Len(stream') <= Len(stream)
    <2>1. /\ stream' \in Seq(Nat) /\ Len(stream') = Len(stream) - n
      BY <1>1, <1>2, Remaining, Zenon
    <2> DEFINE l == Len(stream)
    <2>2. l \in Nat /\ n \in 1 .. l
      BY <1>1
    <2> HIDE DEF l
    <2>3. l - n <= l
      BY <2>2
    <2> QED BY <2>1, <2>3 DEF l
  <1> DEFINE p == Len(sent) * Room
  <1>5. p \in Nat
    BY <1>1
  <1>6. Len(stream) <= p
    BY <1>1
  <1>7. Len(stream') \in Nat
    BY <1>4
  <1> HIDE DEF p
  <1>8. Len(stream') <= p
    BY <1>1, <1>4, <1>5, <1>6, <1>7
  <1> QED BY <1>1, <1>3, <1>4, <1>8 DEF p

LEMMA Counted ==
  ASSUME ReceiveTypes, NEW r, Counts(r)
  PROVE  \/ whole' = NotWhole
         \/ /\ whole \in 0 .. Len(sent) - 1 /\ whole' = whole + 1
            /\ whole' \in 0 .. Len(sent)
            /\ sent[whole + 1] \in Packets
            /\ r = encap_packet(sent[whole + 1])
  <1>1. sent \in Seq(Packets) /\ Len(sent) \in Nat
    BY DEF ReceiveTypes
  <1>2. CASE whole \in 0 .. Len(sent) - 1 /\ r = encap_packet(sent[whole + 1])
    <2>1. whole + 1 \in 1 .. Len(sent)
      BY <1>1, <1>2
    <2>2. sent[whole + 1] \in Packets
      BY <1>1, <2>1
    <2>3. whole' = whole + 1
      BY <1>2 DEF Counts
    <2> QED BY <1>1, <1>2, <2>1, <2>2, <2>3
  <1>3. CASE ~(whole \in 0 .. Len(sent) - 1
                 /\ r = encap_packet(sent[whole + 1]))
    BY <1>3 DEF Counts
  <1> QED BY <1>2, <1>3

LEMMA Accepted ==
  ASSUME ReceiveInv, NEW r, LoginAnswered(r)
  PROVE  sent # <<>> /\ sent[1] = Accept(qn)
  <1>1. /\ ReceiveTypes /\ Numbered /\ Waiting /\ link = "login"
        /\ Received(r) /\ verify_packet(r) /\ Data(r) = Accept(qn)
    BY DEF ReceiveInv, LoginAnswered, parse_login_info
  <1>2. /\ r \in Seq(Nat) /\ Len(r) \in 1 .. Len(stream)
        /\ \A i \in 1 .. Len(r) : r[i] = stream[i]
    BY <1>1, Taken
  <1>3. sent # <<>>
    <2> SUFFICES ASSUME sent = <<>> PROVE FALSE
      OBVIOUS
    <2>1. stream = <<>>
      BY <1>1 DEF Waiting
    <2>2. Len(stream) = 0
      BY <2>1
    <2> QED BY <1>2, <2>2
  <1>4. PICK f \in Frames(sent[1]) : Begins(f)
    BY <1>1, <1>3 DEF Waiting
  <1>5. sent \in Seq(Packets) /\ 1 \in 1 .. Len(sent) /\ sent[1] \in Packets
    BY <1>1, <1>3 DEF ReceiveTypes
  <1>6. f \in Seq(Nat) /\ Len(f) \in 8 .. 9
    BY <1>4, <1>5, FrameSize
  <1>7. Len(r) >= 8
    <2>1. /\ Len(Data(r)) = r[3] /\ r[3] + 6 <= Len(r)
      BY <1>1, <1>2, Unpacked
    <2>2. Len(Data(r)) = 2
      BY <1>1 DEF Accept
    <2> QED BY <1>2, <2>1, <2>2
  <1>8. ASSUME NEW i \in 1 .. 6 PROVE r[i] = f[i]
    <2>1. i \in 1 .. Len(r) /\ i \in 1 .. Len(f)
      <3> DEFINE m == Len(r)
                 k == Len(f)
      <3>1. m \in Nat /\ m >= 8 /\ k \in 8 .. 9
        BY <1>2, <1>6, <1>7
      <3> HIDE DEF m, k
      <3>2. i \in 1 .. m /\ i \in 1 .. k
        BY <3>1
      <3> QED BY <3>2 DEF m, k
    <2>2. r[i] = stream[i]
      BY <1>2, <2>1
    <2>3. stream[i] = f[i]
      BY <1>4, <2>1 DEF Begins
    <2> QED BY <2>2, <2>3
  <1>9. qn \in 0 .. MaxLogin
    BY <1>1 DEF ReceiveTypes
  <1>10. sent[1][1] = 65 \/ sent[1] = Respond(1) \/ sent[1] = Order(1)
    <2>1. sent[1] \in Next4(1)
      BY <1>1, <1>5 DEF Numbered
    <2> QED BY <2>1 DEF Next4, Accept
  <1>11. f \in {encap_packet(sent[1])} \cup Damaged(encap_packet(sent[1]))
    BY <1>4 DEF Frames
  <1> HIDE DEF Frames
  <1>12. sent[1] = Accept(qn)
    BY <1>1, <1>2, <1>5, <1>8, <1>9, <1>10, <1>11, AcceptedWasSent
  <1> QED BY <1>3, <1>12

(***************************************************************************)
(* What the client receives changes what it has taken, and no packet.      *)
(***************************************************************************)
LEMMA Receives ==
  ASSUME ReceiveInv, NEW r, Received(r),
         UNCHANGED <<setup, qn, sent>>,
         link' \in {"closed", "session"},
         link' = "session" => sent # <<>> /\ sent[1] = Accept(qn),
         verified' \in Seq(Seq(Nat)), handled' \in Seq(Seq(Nat)),
         passed' \in Seq(Seq(Nat)),
         \A i \in DOMAIN passed' : Len(passed'[i]) + 6 <= MsgSize,
         whole' = NotWhole \/ whole' \in 0 .. Len(sent)
  PROVE  ReceiveInv'
  <1>1. ReceiveTypes /\ Numbered
    BY DEF ReceiveInv
  <1>2. stream' \in Seq(Nat) /\ Len(stream') <= Len(sent) * Room
    BY <1>1, Taken
  <1>3. ReceiveTypes'
    BY <1>1, <1>2 DEF ReceiveTypes, setup
  <1>4. Numbered'
    BY <1>1 DEF Numbered, Next4
  <1>5. Waiting'
    BY DEF Waiting
  <1>6. SessionAccepted'
    BY DEF SessionAccepted
  <1> QED BY <1>3, <1>4, <1>5, <1>6 DEF ReceiveInv

LEMMA Handed ==
  ASSUME ReceiveInv, NEW r, Receive(r)
  PROVE  /\ Data(r) \in Seq(Nat) /\ Len(Data(r)) + 6 <= Len(r)
         /\ verified' = Append(verified, Data(r))
         /\ handled' = handled \/ handled' = Append(handled, Data(r))
         /\ \/ passed' = passed
            \/ /\ passed' = Append(passed, Data(r))
               /\ Len(Data(r)) + 6 <= MsgSize
  <1>1. /\ ReceiveTypes /\ Received(r) /\ verify_packet(r)
        /\ verified' = Append(verified, Data(r))
        /\ parse_recv_respond(Data(r))
        /\ IF PassOn(r) THEN parse_recv_command(Data(r)) ELSE UNCHANGED passed
    BY DEF ReceiveInv, Receive
  <1>2. r \in Seq(Nat) /\ Len(r) \in Nat
    BY <1>1, Taken
  <1>3. Data(r) \in Seq(Nat) /\ Len(Data(r)) + 6 <= Len(r)
    BY <1>1, <1>2, Unpacked
  <1>4. handled' = handled \/ handled' = Append(handled, Data(r))
    BY <1>1 DEF parse_recv_respond
  <1>5. \/ passed' = passed
        \/ passed' = Append(passed, Data(r)) /\ Len(r) <= MsgSize
    BY <1>1 DEF parse_recv_command, PassOn
  <1>6. Len(r) <= MsgSize => Len(Data(r)) + 6 <= MsgSize
    <2> DEFINE k == Len(Data(r))
               m == Len(r)
    <2>1. k \in Nat /\ m \in Nat /\ MsgSize \in Nat /\ k + 6 <= m
      BY <1>2, <1>3, Bounds
    <2> HIDE DEF k, m
    <2>2. m <= MsgSize => k + 6 <= MsgSize
      BY <2>1
    <2> QED BY <2>2 DEF k, m
  <1> QED BY <1>1, <1>3, <1>4, <1>5, <1>6

LEMMA Longer ==
  ASSUME NEW s \in Seq(Seq(Nat)), NEW d \in Seq(Nat)
  PROVE  /\ Append(s, d) \in Seq(Seq(Nat)) /\ Len(s) \in Nat
         /\ Len(Append(s, d)) = Len(s) + 1
         /\ \A i \in 1 .. Len(s) : Append(s, d)[i] = s[i]
         /\ Append(s, d)[Len(s) + 1] = d
  OBVIOUS

LEMMA ReceiveStep ==
  ASSUME ReceiveInv, [ReceiveNext]_receiveVars
  PROVE  ReceiveInv'
  <1>1. /\ ReceiveTypes /\ Numbered /\ Waiting /\ SessionAccepted
    BY DEF ReceiveInv
  <1>2. /\ Len(sent) \in Nat /\ sent \in Seq(Packets)
        /\ verified \in Seq(Seq(Nat)) /\ handled \in Seq(Seq(Nat))
        /\ passed \in Seq(Seq(Nat))
        /\ \A i \in DOMAIN passed : Len(passed[i]) + 6 <= MsgSize
        /\ whole = NotWhole \/ whole \in 0 .. Len(sent)
    BY <1>1 DEF ReceiveTypes
  <1>3. ASSUME NEW d \in Next4(Len(sent) + 1), SendWhole(d)
        PROVE  ReceiveInv'
    <2>1. /\ SendPacket(d) /\ stream' = stream \o encap_packet(d)
          /\ damages' = damages /\ whole' = whole
      BY <1>3 DEF SendWhole
    <2>2. damages' \in 0 .. MaxDamage
      BY <1>1, <2>1 DEF ReceiveTypes
    <2>3. encap_packet(d) \in Frames(d)
      BY DEF Frames
    <2> QED BY <2>1, <2>2, <2>3, Sends
  <1>4. ASSUME NEW d \in Next4(Len(sent) + 1), SendDamaged(d)
        PROVE  ReceiveInv'
    <2>1. SendPacket(d) /\ damages < MaxDamage /\ damages' = damages + 1
          /\ whole' = NotWhole
      BY <1>4 DEF SendDamaged
    <2>2. PICK f \in Damaged(encap_packet(d)) : stream' = stream \o f
      BY <1>4 DEF SendDamaged
    <2>3. damages' \in 0 .. MaxDamage
      BY <1>1, <2>1, Bounds DEF ReceiveTypes
    <2>4. f \in Frames(d)
      BY DEF Frames
    <2> QED BY <2>1, <2>2, <2>3, <2>4, Sends
  <1>5. CASE LogIn
    <2>1. /\ link' = "login" /\ qn' = qn + 1 /\ qn < MaxLogin
          /\ stream' = <<>> /\ sent' = <<>> /\ verified' = <<>>
          /\ handled' = <<>> /\ passed' = <<>> /\ whole' = 0
          /\ conf' = conf /\ damages' = damages
      BY <1>5 DEF LogIn, setup
    <2>2. ReceiveTypes'
      <3>1. /\ stream' \in Seq(Nat) /\ sent' \in Seq(Packets)
            /\ verified' \in Seq(Seq(Nat)) /\ handled' \in Seq(Seq(Nat))
            /\ passed' \in Seq(Seq(Nat)) /\ DOMAIN passed' = {}
            /\ Len(stream') = 0 /\ Len(sent') = 0
        BY <2>1
      <3>2. 0 <= 0 * Room /\ 0 <= MaxFrame /\ qn' \in 0 .. MaxLogin
        BY <1>1, <2>1, Bounds DEF ReceiveTypes
      <3>3. whole' \in 0 .. Len(sent')
        BY <2>1, <3>1
      <3> QED BY <1>1, <2>1, <3>1, <3>2, <3>3 DEF ReceiveTypes
    <2>3. Numbered'
      <3>1. Len(sent') = 0
        BY <2>1
      <3> QED BY <3>1 DEF Numbered
    <2>4. Waiting' /\ SessionAccepted'
      BY <2>1 DEF Waiting, SessionAccepted
    <2> QED BY <2>2, <2>3, <2>4 DEF ReceiveInv
  <1>6. CASE LinkEnds
    <2>1. /\ link' = "closed" /\ stream' = stream /\ qn' = qn /\ sent' = sent
          /\ verified' = verified /\ handled' = handled /\ passed' = passed
          /\ whole' = whole /\ conf' = conf /\ damages' = damages
      BY <1>6 DEF LinkEnds, setup, past
    <2> QED BY <1>1, <2>1 DEF ReceiveInv, ReceiveTypes, Numbered, Next4,
                              Waiting, SessionAccepted
  <1>7. ASSUME NEW r, LoginAnswered(r) PROVE ReceiveInv'
    <2>1. /\ Received(r) /\ verify_packet(r) /\ Data(r) = Accept(qn)
          /\ link' = "session" /\ verified' = Append(verified, Data(r))
          /\ Counts(r) /\ UNCHANGED <<setup, qn, sent>>
          /\ handled' = handled /\ passed' = passed
      BY <1>7 DEF LoginAnswered, parse_login_info
    <2>2. r \in Seq(Nat)
      BY <1>1, <2>1, Taken
    <2>3. Data(r) \in Seq(Nat)
      BY <2>1, <2>2, Unpacked
    <2>4. verified' \in Seq(Seq(Nat))
      BY <1>2, <2>1, <2>3
    <2>5. whole' = NotWhole \/ whole' \in 0 .. Len(sent)
      BY <1>1, <2>1, Counted
    <2>6. sent # <<>> /\ sent[1] = Accept(qn)
      BY <1>7, Accepted
    <2> QED BY <1>2, <2>1, <2>4, <2>5, <2>6, Receives
  <1>8. ASSUME NEW r, LoginRefused(r) PROVE ReceiveInv'
    <2>1. /\ Received(r) /\ link' = "closed" /\ UNCHANGED <<setup, qn, sent>>
          /\ verified' = verified /\ handled' = handled /\ passed' = passed
          /\ whole' = whole
      BY <1>8 DEF LoginRefused, past
    <2> QED BY <1>2, <2>1, Receives
  <1>9. ASSUME NEW r, Receive(r) PROVE ReceiveInv'
    <2>1. /\ Received(r) /\ link' = link /\ link = "session"
          /\ Counts(r) /\ UNCHANGED <<setup, qn, sent>>
      BY <1>9 DEF Receive
    <2>2. /\ Data(r) \in Seq(Nat)
          /\ verified' = Append(verified, Data(r))
          /\ handled' = handled \/ handled' = Append(handled, Data(r))
          /\ \/ passed' = passed
             \/ /\ passed' = Append(passed, Data(r))
                /\ Len(Data(r)) + 6 <= MsgSize
      BY <1>9, Handed
    <2>3. verified' \in Seq(Seq(Nat)) /\ handled' \in Seq(Seq(Nat))
      <3>1. /\ Append(verified, Data(r)) \in Seq(Seq(Nat))
            /\ Append(handled, Data(r)) \in Seq(Seq(Nat))
        BY <1>2, <2>2, Longer
      <3> QED BY <1>2, <2>2, <3>1, Zenon
    <2>4. /\ passed' \in Seq(Seq(Nat))
          /\ \A i \in DOMAIN passed' : Len(passed'[i]) + 6 <= MsgSize
      <3>1. CASE passed' = passed
        BY <1>2, <3>1
      <3>2. ASSUME passed' = Append(passed, Data(r)),
                   Len(Data(r)) + 6 <= MsgSize
            PROVE  /\ passed' \in Seq(Seq(Nat))
                   /\ \A i \in DOMAIN passed' : Len(passed'[i]) + 6 <= MsgSize
        <4>1. /\ passed' \in Seq(Seq(Nat)) /\ Len(passed) \in Nat
              /\ Len(passed') = Len(passed) + 1
              /\ \A i \in 1 .. Len(passed) : passed'[i] = passed[i]
              /\ passed'[Len(passed) + 1] = Data(r)
          BY <1>2, <2>2, <3>2, Longer
        <4>2. ASSUME NEW i \in DOMAIN passed'
              PROVE  Len(passed'[i]) + 6 <= MsgSize
          <5>1. i \in 1 .. Len(passed) \/ i = Len(passed) + 1
            BY <4>1
          <5>2. CASE i \in 1 .. Len(passed)
            <6>1. passed'[i] = passed[i] /\ i \in DOMAIN passed
              BY <1>2, <4>1, <5>2
            <6>2. Len(passed[i]) + 6 <= MsgSize
              BY <1>2, <6>1
            <6> QED BY <6>1, <6>2, Zenon
          <5>3. CASE i = Len(passed) + 1
            BY <3>2, <4>1, <5>3, Zenon
          <5> QED BY <5>1, <5>2, <5>3
        <4> QED BY <4>1, <4>2
      <3> QED BY <2>2, <3>1, <3>2
    <2>5. whole' = NotWhole \/ whole' \in 0 .. Len(sent)
      BY <1>1, <2>1, Counted
    <2>6. sent # <<>> /\ sent[1] = Accept(qn)
      BY <1>1, <2>1 DEF SessionAccepted
    <2> QED BY <2>1, <2>3, <2>4, <2>5, <2>6, Receives
  <1>10. ASSUME NEW r, Discard(r) PROVE ReceiveInv'
    <2>1. /\ Received(r) /\ link' = link /\ link = "session"
          /\ Counts(r) /\ UNCHANGED <<setup, qn, sent>>
          /\ verified' = verified /\ handled' = handled /\ passed' = passed
      BY <1>10 DEF Discard
    <2>2. whole' = NotWhole \/ whole' \in 0 .. Len(sent)
      BY <1>1, <2>1, Counted
    <2>3. sent # <<>> /\ sent[1] = Accept(qn)
      BY <1>1, <2>1 DEF SessionAccepted
    <2> QED BY <1>2, <2>1, <2>2, <2>3, Receives
  <1>11. CASE UNCHANGED receiveVars
    <2>1. /\ link' = link /\ stream' = stream /\ qn' = qn /\ sent' = sent
          /\ verified' = verified /\ handled' = handled /\ passed' = passed
          /\ whole' = whole /\ conf' = conf /\ damages' = damages
      BY <1>11 DEF receiveVars, setup, past
    <2> QED BY <1>1, <2>1 DEF ReceiveInv, ReceiveTypes, Numbered, Next4,
                              Waiting, Begins, SessionAccepted
  <1>12. CASE ServerSends
    <2>1. PICK d \in {Accept(n) : n \in {0, qn}}
               \cup {Respond(Len(sent) + 1), Order(Len(sent) + 1)} :
            SendWhole(d) \/ SendDamaged(d)
      BY <1>12 DEF ServerSends
    <2>2. d \in Next4(Len(sent) + 1)
      BY DEF Next4
    <2> QED BY <1>3, <1>4, <2>1, <2>2
  <1>13. CASE SendsOnOld \/ OldRecv
    <2>1. /\ link' = link /\ stream' = stream /\ qn' = qn /\ sent' = sent
          /\ verified' = verified /\ handled' = handled /\ passed' = passed
          /\ whole' = whole /\ conf' = conf
      BY <1>13 DEF SendsOnOld, OldRecv, setup, past
    <2>2. \/ damages' = damages
          \/ damages < MaxDamage /\ damages' = damages + 1
      BY <1>13 DEF SendsOnOld, OldRecv, setup
    <2>3. damages' \in 0 .. MaxDamage
      BY <1>1, <2>2, Bounds DEF ReceiveTypes
    <2> QED BY <1>1, <2>1, <2>3 DEF ReceiveInv, ReceiveTypes, Numbered, Next4,
                                    Waiting, Begins, SessionAccepted
  <1> QED BY <1>5, <1>6, <1>7, <1>8, <1>9, <1>10, <1>11, <1>12, <1>13
          DEF ReceiveNext

LEMMA ReceiveStarts ==
  ASSUME ReceiveInit
  PROVE  ReceiveInv
  <1>1. /\ conf \in Config /\ link = "closed" /\ stream = <<>> /\ qn = 0
        /\ damages = 0 /\ sent = <<>> /\ verified = <<>> /\ handled = <<>>
        /\ passed = <<>> /\ whole = 0
    BY DEF ReceiveInit
  <1>2. /\ stream \in Seq(Nat) /\ sent \in Seq(Packets)
        /\ verified \in Seq(Seq(Nat)) /\ handled \in Seq(Seq(Nat))
        /\ passed \in Seq(Seq(Nat)) /\ DOMAIN passed = {}
        /\ Len(stream) = 0 /\ Len(sent) = 0
    BY <1>1
  <1>3. /\ 0 <= 0 * Room /\ 0 <= MaxFrame /\ qn \in 0 .. MaxLogin
        /\ damages \in 0 .. MaxDamage /\ whole \in 0 .. Len(sent)
    BY <1>1, <1>2, Bounds
  <1> QED BY <1>1, <1>2, <1>3 DEF ReceiveInv, ReceiveTypes, Numbered, Waiting,
                                  SessionAccepted

-----------------------------------------------------------------------------
(***************************************************************************)
(* What has been taken whole has been handed on.                           *)
(***************************************************************************)
LEMMA UpTo ==
  ASSUME NEW m \in Nat
  PROVE  \A i : i \in 1 .. m + 1 <=> i \in 1 .. m \/ i = m + 1
  OBVIOUS

LEMMA Front ==
  ASSUME NEW s \in Seq(Packets), NEW k \in 0 .. Len(s)
  PROVE  /\ SubSeq(s, 1, k) \in Seq(Packets) /\ Len(SubSeq(s, 1, k)) = k
         /\ \A i \in 1 .. k : SubSeq(s, 1, k)[i] = s[i]
         /\ Members(SubSeq(s, 1, k)) = {s[i] : i \in 1 .. k}
  <1> DEFINE t == SubSeq(s, 1, k)
  <1>1. /\ t \in Seq(Packets) /\ Len(t) = k /\ k \in Nat
        /\ \A i \in 1 .. k : t[i] = s[i]
    OBVIOUS
  <1> HIDE DEF t
  <1>2. DOMAIN t = 1 .. k
    BY <1>1
  <1>3. Members(t) = {s[i] : i \in 1 .. k}
    BY <1>1, <1>2 DEF Members
  <1> QED BY <1>1, <1>3 DEF t

LEMMA OneMore ==
  ASSUME NEW s \in Seq(Packets), NEW k \in 0 .. Len(s) - 1
  PROVE  /\ SubSeq(s, 1, k + 1) = Append(SubSeq(s, 1, k), s[k + 1])
         /\ Members(SubSeq(s, 1, k + 1))
              = Members(SubSeq(s, 1, k)) \cup {s[k + 1]}
  <1> DEFINE a == SubSeq(s, 1, k)
             b == SubSeq(s, 1, k + 1)
             d == s[k + 1]
             c == Append(a, d)
  <1>1. k \in 0 .. Len(s) /\ k + 1 \in 0 .. Len(s) /\ k \in Nat
        /\ d \in Packets
    OBVIOUS
  <1>2. /\ a \in Seq(Packets) /\ Len(a) = k
        /\ \A i \in 1 .. k : a[i] = s[i]
        /\ Members(a) = {s[i] : i \in 1 .. k}
    BY <1>1, Front
  <1>3. /\ b \in Seq(Packets) /\ Len(b) = k + 1
        /\ \A i \in 1 .. k + 1 : b[i] = s[i]
        /\ Members(b) = {s[i] : i \in 1 .. k + 1}
    BY <1>1, Front
  <1> HIDE DEF a, b
  <1>4. /\ c \in Seq(Packets) /\ Len(c) = k + 1
        /\ \A i \in 1 .. k : c[i] = a[i]
        /\ c[k + 1] = d
    BY <1>1, <1>2
  <1> HIDE DEF c
  <1>5. \A i \in 1 .. k + 1 : c[i] = b[i]
    BY <1>1, <1>2, <1>3, <1>4
  <1>6. b = c
    BY <1>3, <1>4, <1>5, SeqEqual
  <1>7. Members(b) = Members(a) \cup {d}
    <2>1. \A i : i \in 1 .. k + 1 <=> i \in 1 .. k \/ i = k + 1
      <3>1. k \in Nat
        BY <1>1
      <3> QED BY <3>1, UpTo
    <2> HIDE DEF d
    <2>2. {s[i] : i \in 1 .. k + 1} = {s[i] : i \in 1 .. k} \cup {s[k + 1]}
      BY <2>1
    <2> QED BY <1>2, <1>3, <2>2 DEF d
  <1> QED BY <1>6, <1>7 DEF a, b, c, d

LEMMA HoldsOneMore ==
  ASSUME NEW s \in Seq(Seq(Nat)), NEW S, Holds(s, S),
         NEW d \in Seq(Nat), Number(d) \in Nat,
         \A x \in S : Number(x) \in Nat /\ Number(x) < Number(d)
  PROVE  Holds(Append(s, d), S \cup {d})
  <1> DEFINE t == Append(s, d)
             m == Len(s)
  <1>1. /\ t \in Seq(Seq(Nat)) /\ m \in Nat /\ Len(t) = m + 1
        /\ \A i \in 1 .. m : t[i] = s[i]
        /\ t[m + 1] = d
    BY Longer
  <1>2. DOMAIN s = 1 .. m
    OBVIOUS
  <1>3. Members(s) = S /\ Ascending(s)
    BY DEF Holds
  <1> HIDE DEF t, m
  <1>4. DOMAIN t = 1 .. m + 1
    BY <1>1
  <1>5. \A i : i \in 1 .. m + 1 <=> i \in 1 .. m \/ i = m + 1
    <2>1. m \in Nat
      BY <1>1
    <2> QED BY <2>1, UpTo
  <1>6. \A i \in 1 .. m : s[i] \in S
    BY <1>2, <1>3 DEF Members
  <1>7. Members(t) = S \cup {d}
    <2>1. ASSUME NEW x \in Members(t) PROVE x \in S \cup {d}
      BY <1>1, <1>4, <1>5, <1>6, <2>1 DEF Members
    <2>2. ASSUME NEW x \in S PROVE x \in Members(t)
      <3>1. PICK i \in 1 .. m : s[i] = x
        BY <1>2, <1>3 DEF Members
      <3> QED BY <1>1, <1>4, <1>5, <3>1 DEF Members
    <2>3. d \in Members(t)
      BY <1>1, <1>4, <1>5 DEF Members
    <2> QED BY <2>1, <2>2, <2>3
  <1>8. ASSUME NEW i \in DOMAIN t, NEW j \in DOMAIN t, i < j
        PROVE  Number(t[i]) < Number(t[j])
    <2>1. i \in 1 .. m
      BY <1>1, <1>4, <1>8
    <2>2. t[i] = s[i] /\ s[i] \in S
      BY <1>1, <1>6, <2>1
    <2>3. CASE j \in 1 .. m
      <3>1. t[j] = s[j]
        BY <1>1, <2>3
      <3>2. Number(s[i]) < Number(s[j])
        BY <1>2, <1>3, <1>8, <2>1, <2>3 DEF Ascending
      <3> QED BY <2>2, <3>1, <3>2, Zenon
    <2>4. CASE j = m + 1
      <3>1. t[j] = d
        BY <1>1, <2>4
      <3>2. Number(s[i]) < Number(d)
        BY <2>2
      <3> QED BY <2>2, <3>1, <3>2, Zenon
    <2> QED BY <1>4, <1>5, <2>3, <2>4
  <1> QED BY <1>7, <1>8 DEF Holds, Ascending, t

(***************************************************************************)
(* The second number of an answer, and of an order, is its place.          *)
(***************************************************************************)
LEMMA Placed ==
  ASSUME ReceiveInv, NEW i \in 1 .. Len(sent),
         IsRespond(sent[i]) \/ IsOrder(sent[i])
  PROVE  Number(sent[i]) = 48 + i
  <1>1. sent[i] \in Next4(i) /\ i \in Nat
    BY DEF ReceiveInv, ReceiveTypes, Numbered
  <1>2. ASSUME NEW n, sent[i] = Accept(n) PROVE FALSE
    BY <1>2 DEF Accept, IsRespond, IsOrder
  <1>3. sent[i] = Respond(i) \/ sent[i] = Order(i)
    BY <1>1, <1>2 DEF Next4
  <1> QED BY <1>3 DEF Respond, Order, Number

LEMMA Later ==
  ASSUME ReceiveInv, NEW k \in 0 .. Len(sent) - 1,
         IsRespond(sent[k + 1]) \/ IsOrder(sent[k + 1]),
         NEW x \in Members(SubSeq(sent, 1, k)), IsRespond(x) \/ IsOrder(x)
  PROVE  /\ Number(sent[k + 1]) \in Nat /\ Number(x) \in Nat
         /\ Number(x) < Number(sent[k + 1])
  <1>1. sent \in Seq(Packets) /\ Len(sent) \in Nat
    BY DEF ReceiveInv, ReceiveTypes
  <1>2. PICK i \in 1 .. k : x = sent[i]
    BY <1>1, Front
  <1>3. i \in 1 .. Len(sent) /\ k + 1 \in 1 .. Len(sent) /\ i \in Nat
        /\ k \in Nat /\ i <= k
    BY <1>1
  <1>4. Number(sent[i]) = 48 + i
    BY <1>2, <1>3, Placed
  <1>5. Number(sent[k + 1]) = 48 + (k + 1)
    BY <1>3, Placed
  <1> QED BY <1>2, <1>3, <1>4, <1>5

LEMMA SamePast ==
  ASSUME NothingLost, conf' = conf, whole' = whole, verified' = verified,
         handled' = handled, passed' = passed,
         SubSeq(sent', 1, whole) = SubSeq(sent, 1, whole) \/ whole = NotWhole
  PROVE  NothingLost'
  <1> SUFFICES ASSUME conf' = Standard, whole' # NotWhole
               PROVE  LET taken == Members(SubSeq(sent', 1, whole'))
                      IN  /\ verified' = SubSeq(sent', 1, whole')
                          /\ Holds(handled', {d \in taken : IsRespond(d)})
                          /\ Holds(passed',
                                   {d \in taken : IsOrder(d) /\ Fits(d)})
    BY DEF NothingLost
  <1>1. SubSeq(sent', 1, whole') = SubSeq(sent, 1, whole)
    OBVIOUS
  <1> DEFINE taken == Members(SubSeq(sent, 1, whole))
  <1>2. /\ verified = SubSeq(sent, 1, whole)
        /\ Holds(handled, {d \in taken : IsRespond(d)})
        /\ Holds(passed, {d \in taken : IsOrder(d) /\ Fits(d)})
    BY DEF NothingLost
  <1> QED BY <1>1, <1>2, Zenon

LEMMA NothingYet ==
  ASSUME NEW s
  PROVE  /\ SubSeq(s, 1, 0) = <<>> /\ Members(<<>>) = {}
         /\ \A S : S = {} => Holds(<<>>, S)
  <1>1. SubSeq(s, 1, 0) = <<>>
    OBVIOUS
  <1>2. Members(<<>>) = {}
    BY DEF Members
  <1>3. Ascending(<<>>)
    BY DEF Ascending
  <1> QED BY <1>1, <1>2, <1>3 DEF Holds

LEMMA NothingFirst ==
  ASSUME verified = <<>>, handled = <<>>, passed = <<>>, whole = 0
  PROVE  NothingLost
  <1>1. SubSeq(sent, 1, whole) = <<>> /\ Members(<<>>) = {}
    BY NothingYet
  <1>2. /\ Holds(handled, {d \in {} : IsRespond(d)})
        /\ Holds(passed, {d \in {} : IsOrder(d) /\ Fits(d)})
    BY NothingYet
  <1> QED BY <1>1, <1>2 DEF NothingLost

LEMMA LoginTaken ==
  ASSUME ReceiveInv, NEW r, LoginAnswered(r)
  PROVE  NothingLost'
  <1>1. /\ ReceiveTypes /\ Waiting /\ link = "login"
        /\ verify_packet(r) /\ Data(r) = Accept(qn)
        /\ verified' = Append(verified, Data(r)) /\ Counts(r)
        /\ sent' = sent /\ handled' = handled /\ passed' = passed
    BY DEF ReceiveInv, LoginAnswered, parse_login_info
  <1>2. /\ verified = <<>> /\ handled = <<>> /\ passed = <<>>
        /\ whole \in {0, NotWhole}
    BY <1>1 DEF Waiting
  <1> SUFFICES ASSUME whole' # NotWhole PROVE NothingLost'
    BY DEF NothingLost
  <1>3. /\ whole \in 0 .. Len(sent) - 1 /\ whole' = whole + 1
        /\ sent[whole + 1] \in Packets
        /\ r = encap_packet(sent[whole + 1])
    BY <1>1, Counted
  <1>4. whole = 0 /\ whole' = 1
    BY <1>2, <1>3 DEF NotWhole
  <1>5. sent[1] = Accept(qn)
    BY <1>1, <1>3, <1>4, WholePasses
  <1>6. /\ SubSeq(sent', 1, whole') = <<Accept(qn)>>
        /\ Members(SubSeq(sent', 1, whole')) = {Accept(qn)}
    <2>1. sent \in Seq(Packets) /\ 0 \in 0 .. Len(sent) - 1
      BY <1>1, <1>3, <1>4 DEF ReceiveTypes
    <2>2. /\ SubSeq(sent, 1, 0 + 1) = Append(SubSeq(sent, 1, 0), sent[0 + 1])
          /\ Members(SubSeq(sent, 1, 0 + 1))
               = Members(SubSeq(sent, 1, 0)) \cup {sent[0 + 1]}
      BY <2>1, OneMore
    <2>3. 0 + 1 = 1 /\ Append(<<>>, sent[1]) = <<sent[1]>>
      OBVIOUS
    <2>4. SubSeq(sent, 1, 0) = <<>> /\ Members(<<>>) = {}
      BY NothingYet
    <2>5. SubSeq(sent, 1, 1) = <<sent[1]>>
          /\ Members(SubSeq(sent, 1, 1)) = {} \cup {sent[1]}
      BY <2>2, <2>3, <2>4, Zenon
    <2> QED BY <1>1, <1>4, <1>5, <2>5
  <1>7. verified' = <<Accept(qn)>>
    BY <1>1, <1>2
  <1>8. ~IsRespond(Accept(qn)) /\ ~IsOrder(Accept(qn))
    BY DEF Accept, IsRespond, IsOrder
  <1>9. /\ Holds(<<>>, {d \in {Accept(qn)} : IsRespond(d)})
        /\ Holds(<<>>, {d \in {Accept(qn)} : IsOrder(d) /\ Fits(d)})
    BY <1>8, NothingYet
  <1> QED BY <1>1, <1>2, <1>6, <1>7, <1>9 DEF NothingLost

LEMMA PacketTaken ==
  ASSUME ReceiveInv, NothingLost, NEW r, Receive(r)
  PROVE  NothingLost'
  <1>1. /\ ReceiveTypes /\ conf' = conf /\ sent' = sent
        /\ verified' = Append(verified, Data(r)) /\ Counts(r)
        /\ parse_recv_respond(Data(r))
        /\ IF PassOn(r) THEN parse_recv_command(Data(r)) ELSE UNCHANGED passed
    BY DEF ReceiveInv, Receive, setup
  <1> SUFFICES ASSUME conf = Standard, whole' # NotWhole PROVE NothingLost'
    BY <1>1 DEF NothingLost
  <1> DEFINE d == sent[whole + 1]
             taken == Members(SubSeq(sent, 1, whole))
             answers == {x \in taken : IsRespond(x)}
             orders == {x \in taken : IsOrder(x) /\ Fits(x)}
  <1>2. /\ whole \in 0 .. Len(sent) - 1 /\ whole' = whole + 1
        /\ d \in Packets /\ r = encap_packet(d)
    BY <1>1, Counted
  <1>3. sent \in Seq(Packets) /\ whole # NotWhole
    BY <1>1, <1>2 DEF ReceiveTypes, NotWhole
  <1>4. /\ verified = SubSeq(sent, 1, whole)
        /\ Holds(handled, answers) /\ Holds(passed, orders)
    BY <1>3 DEF NothingLost
  <1>5. Data(r) = d
    BY <1>2, WholePasses
  <1>6. /\ SubSeq(sent, 1, whole') = Append(SubSeq(sent, 1, whole), d)
        /\ Members(SubSeq(sent, 1, whole')) = taken \cup {d}
    BY <1>2, <1>3, OneMore
  <1>7. d \in Seq(Nat)
    BY <1>2, Characterised
  <1>8. handled \in Seq(Seq(Nat)) /\ passed \in Seq(Seq(Nat))
    BY <1>1 DEF ReceiveTypes
  <1>9. \A x \in taken : /\ IsRespond(x) \/ IsOrder(x)
                         /\ IsRespond(d) \/ IsOrder(d)
          => /\ Number(d) \in Nat /\ Number(x) \in Nat
             /\ Number(x) < Number(d)
    BY <1>2, Later
  <1>10. IsRespond(d) \/ IsOrder(d) => Number(d) \in Nat
    <2>1. whole + 1 \in 1 .. Len(sent) /\ 48 + (whole + 1) \in Nat
      BY <1>2, <1>3
    <2>2. IsRespond(d) \/ IsOrder(d) => Number(d) = 48 + (whole + 1)
      BY <2>1, Placed
    <2> QED BY <2>1, <2>2
  <1> HIDE DEF taken
  <1>11. Holds(handled', {x \in taken \cup {d} : IsRespond(x)})
    <2>1. CASE IsRespond(d)
      <3>1. handled' = Append(handled, d)
        <4>1. \A kind \in DOMAIN Answered : KnownAgain(kind, conf)
          BY Known
        <4> QED BY <1>1, <1>5, <2>1, <4>1 DEF parse_recv_respond
      <3>2. {x \in taken \cup {d} : IsRespond(x)} = answers \cup {d}
        BY <2>1
      <3>3. \A x \in answers : Number(x) \in Nat /\ Number(x) < Number(d)
        BY <1>9, <2>1
      <3>4. Number(d) \in Nat
        BY <1>10, <2>1
      <3> HIDE DEF answers, d
      <3>5. Holds(Append(handled, d), answers \cup {d})
        BY <1>4, <1>7, <1>8, <3>3, <3>4, HoldsOneMore
      <3> QED BY <3>1, <3>2, <3>5, Zenon
    <2>2. CASE ~IsRespond(d)
      <3>1. handled' = handled
        BY <1>1, <1>5, <2>2 DEF parse_recv_respond
      <3>2. {x \in taken \cup {d} : IsRespond(x)} = answers
        BY <2>2
      <3> HIDE DEF answers
      <3> QED BY <1>4, <3>1, <3>2, Zenon
    <2> QED BY <2>1, <2>2
  <1>12. Holds(passed', {x \in taken \cup {d} : IsOrder(x) /\ Fits(x)})
    <2>1. PassOn(r) <=> Fits(d)
      <3>1. Len(r) = Len(d) + 6
        BY <1>2, Framed
      <3> QED BY <3>1 DEF PassOn, Fits
    <2>2. CASE IsOrder(d) /\ Fits(d)
      <3>1. passed' = Append(passed, d)
        BY <1>1, <1>5, <2>1, <2>2, CommandsRead DEF parse_recv_command
      <3>2. {x \in taken \cup {d} : IsOrder(x) /\ Fits(x)} = orders \cup {d}
        BY <2>2
      <3>3. \A x \in orders : Number(x) \in Nat /\ Number(x) < Number(d)
        BY <1>9, <2>2
      <3>4. Number(d) \in Nat
        BY <1>10, <2>2
      <3> HIDE DEF orders, d
      <3>5. Holds(Append(passed, d), orders \cup {d})
        BY <1>4, <1>7, <1>8, <3>3, <3>4, HoldsOneMore
      <3> QED BY <3>1, <3>2, <3>5, Zenon
    <2>3. CASE ~(IsOrder(d) /\ Fits(d))
      <3>1. passed' = passed
        BY <1>1, <1>5, <2>1, <2>3 DEF parse_recv_command
      <3>2. {x \in taken \cup {d} : IsOrder(x) /\ Fits(x)} = orders
        BY <2>3
      <3> HIDE DEF orders
      <3> QED BY <1>4, <3>1, <3>2, Zenon
    <2> QED BY <2>2, <2>3
  <1>13. verified' = SubSeq(sent, 1, whole')
    BY <1>1, <1>4, <1>5, <1>6
  <1> HIDE DEF d
  <1>14. /\ SubSeq(sent', 1, whole') = SubSeq(sent, 1, whole')
         /\ Members(SubSeq(sent', 1, whole')) = taken \cup {d}
    BY <1>1, <1>6
  <1> QED BY <1>11, <1>12, <1>13, <1>14 DEF NothingLost

LEMMA NothingLostStep ==
  ASSUME ReceiveInv, NothingLost, [ReceiveNext]_receiveVars
  PROVE  NothingLost'
  <1>1. ReceiveTypes
    BY DEF ReceiveInv
  <1>2. /\ sent \in Seq(Packets) /\ Len(sent) \in Nat
        /\ whole = NotWhole \/ whole \in 0 .. Len(sent)
    BY <1>1 DEF ReceiveTypes
  <1>3. ASSUME NEW d, SendWhole(d) PROVE NothingLost'
    <2>1. /\ conf' = conf /\ whole' = whole /\ verified' = verified
          /\ handled' = handled /\ passed' = passed /\ sent' = Append(sent, d)
      BY <1>3 DEF SendWhole, SendPacket
    <2>2. ASSUME whole # NotWhole
          PROVE  SubSeq(sent', 1, whole) = SubSeq(sent, 1, whole)
      BY <1>2, <2>1, <2>2
    <2> QED BY <2>1, <2>2, SamePast
  <1>4. ASSUME NEW d, SendDamaged(d) PROVE NothingLost'
    BY <1>4 DEF SendDamaged, NothingLost
  <1>5. CASE LogIn
    <2>1. /\ verified' = <<>> /\ handled' = <<>> /\ passed' = <<>>
          /\ whole' = 0
      BY <1>5 DEF LogIn
    <2>2. SubSeq(sent', 1, whole') = <<>> /\ Members(<<>>) = {}
      BY <2>1, NothingYet
    <2>3. /\ Holds(<<>>, {d \in {} : IsRespond(d)})
          /\ Holds(<<>>, {d \in {} : IsOrder(d) /\ Fits(d)})
      BY NothingYet
    <2> QED BY <2>1, <2>2, <2>3 DEF NothingLost
  <1>6. CASE LinkEnds
    BY <1>6, SamePast DEF LinkEnds, setup, past
  <1>7. ASSUME NEW r, LoginAnswered(r) PROVE NothingLost'
    BY <1>7, LoginTaken
  <1>8. ASSUME NEW r, LoginRefused(r) PROVE NothingLost'
    BY <1>8, SamePast DEF LoginRefused, setup, past
  <1>9. ASSUME NEW r, Receive(r) PROVE NothingLost'
    BY <1>9, PacketTaken
  <1>10. ASSUME NEW r, Discard(r) PROVE NothingLost'
    <2>1. whole' = NotWhole
      BY <1>1, <1>10, Counted, WholePasses DEF Discard
    <2> QED BY <2>1 DEF NothingLost
  <1>11. CASE UNCHANGED receiveVars
    BY <1>11, SamePast DEF receiveVars, setup, past
  <1>12. CASE SendsOnOld \/ OldRecv
    BY <1>12, SamePast DEF SendsOnOld, OldRecv, setup, past
  <1> QED BY <1>3, <1>4, <1>5, <1>6, <1>7, <1>8, <1>9, <1>10, <1>11, <1>12
          DEF ReceiveNext, ServerSends

-----------------------------------------------------------------------------
(***************************************************************************)
(* Without damage: where each frame lies in what is still to be received,  *)
(* and that what was handed on lay before it.                              *)
(***************************************************************************)
Size(d) == Len(encap_packet(d))

Lies(at, s, t) ==
  /\ at \in [1 .. Len(s) -> Int]
  /\ \A i, j \in 1 .. Len(s) : i < j => at[i] + Size(s[i]) <= at[j]
  /\ \A i \in 1 .. Len(s) : at[i] + Size(s[i]) <= Len(t) + 1
  /\ \A p \in 1 .. Len(t) : \E i \in 1 .. Len(s) :
       at[i] <= p /\ p < at[i] + Size(s[i])
  /\ \A i \in 1 .. Len(s) : \A k \in 1 .. Size(s[i]) :
       at[i] + k > 1 => t[at[i] + k - 1] = encap_packet(s[i])[k]

Behind(at, s, h) ==
  \A d \in Members(h) : \E i \in 1 .. Len(s) :
    d = s[i] /\ at[i] < 1 /\ (IsRespond(d) \/ IsOrder(d))

Undamaged ==
  damages = 0 => /\ \E at : /\ Lies(at, sent, stream)
                            /\ Behind(at, sent, handled)
                            /\ Behind(at, sent, passed)
                 /\ Ascending(handled) /\ Ascending(passed)

LEMMA Sized ==
  ASSUME NEW s \in Seq(Packets), NEW i \in 1 .. Len(s)
  PROVE  s[i] \in Packets /\ Size(s[i]) \in {8, 9}
  <1>1. s[i] \in Packets
    OBVIOUS
  <1> QED BY <1>1, Positions DEF Size

(***************************************************************************)
(* Two marks next to each other are the beginning of a frame.              *)
(***************************************************************************)
LEMMA TwoMarks ==
  ASSUME NEW d \in Packets, NEW k \in 1 .. Size(d),
         encap_packet(d)[k] = 35,
         k < Size(d) => encap_packet(d)[k + 1] = 35
  PROVE  k = 1
  <1> DEFINE e == encap_packet(d)
  <1>1. \/ /\ Size(d) = 8 /\ e[3] = 2 /\ e[4] = d[1] /\ e[5] = d[2]
           /\ e[7] = 13 /\ e[8] = 10
        \/ /\ Size(d) = 9 /\ e[3] = 3 /\ e[4] = 67 /\ e[5] = d[2]
           /\ e[6] = 48 /\ e[8] = 13 /\ e[9] = 10
    BY Positions DEF Size
  <1>2. d[1] \in {65, 66, 67} /\ d[2] \in Nat /\ d[2] >= 48
    BY Characterised
  <1>3. e[k] = 35 /\ (k < Size(d) => e[k + 1] = 35)
    OBVIOUS
  <1> HIDE DEF e
  <1>4. e[3] # 35 /\ e[4] # 35 /\ e[5] # 35
    BY <1>1, <1>2
  <1>5. CASE Size(d) = 8
    <2>1. e[7] # 35 /\ e[8] # 35
      BY <1>1, <1>5
    <2>2. k \in 1 .. 8 /\ (k < 8 => e[k + 1] = 35)
      BY <1>3, <1>5
    <2>3. k # 2 /\ k # 3 /\ k # 4 /\ k # 5 /\ k # 6 /\ k # 7 /\ k # 8
      BY <1>3, <1>4, <2>1, <2>2
    <2> QED BY <2>2, <2>3
  <1>6. CASE Size(d) = 9
    <2>1. e[6] # 35 /\ e[8] # 35 /\ e[9] # 35
      BY <1>1, <1>6
    <2>2. k \in 1 .. 9 /\ (k < 9 => e[k + 1] = 35)
      BY <1>3, <1>6
    <2>3. /\ k # 2 /\ k # 3 /\ k # 4 /\ k # 5 /\ k # 6 /\ k # 7 /\ k # 8
          /\ k # 9
      BY <1>3, <1>4, <2>1, <2>2
    <2> QED BY <2>2, <2>3
  <1> QED BY <1>1, <1>5, <1>6

Opens(r, t) == Len(r) <= Len(t) /\ \A i \in 1 .. Len(r) : r[i] = t[i]

LEMMA FrontOnly ==
  ASSUME NEW s \in Seq(Packets), NEW t \in Seq(Nat), NEW at, Lies(at, s, t),
         NEW r \in Seq(Nat), verify_packet(r), Opens(r, t)
  PROVE  \E i \in 1 .. Len(s) : at[i] = 1 /\ Data(r) = s[i]
  <1>0. /\ s \in Seq(Packets) /\ t \in Seq(Nat) /\ Lies(at, s, t)
        /\ Len(r) <= Len(t) /\ \A i \in 1 .. Len(r) : r[i] = t[i]
    BY DEF Opens
  <1>1. /\ r[3] \in Nat /\ r[3] + 6 <= Len(r) /\ r[1] = 35 /\ r[2] = 35
        /\ Data(r) \in Seq(Nat) /\ Len(Data(r)) = r[3]
        /\ \A i \in 1 .. r[3] : Data(r)[i] = r[3 + i]
    BY Unpacked
  <1>2. Len(r) \in Nat /\ Len(t) \in Nat /\ Len(r) >= 6 /\ Len(t) >= 6
    <2> DEFINE m == Len(r)
               n == Len(t)
               x == r[3]
    <2>1. m \in Nat /\ n \in Nat
      BY <1>0
    <2>2. x \in Nat /\ x + 6 <= m /\ m <= n
      BY <1>0, <1>1, Zenon
    <2> HIDE DEF m, n, x
    <2>3. m >= 6 /\ n >= 6
      BY <2>1, <2>2
    <2> QED BY <2>1, <2>3 DEF m, n
  <1>3. t[1] = 35 /\ t[2] = 35
    <2>1. 1 \in 1 .. Len(r) /\ 2 \in 1 .. Len(r)
      BY <1>2
    <2> QED BY <1>0, <1>1, <2>1
  <1>4. PICK i \in 1 .. Len(s) : at[i] <= 1 /\ 1 < at[i] + Size(s[i])
    <2>1. 1 \in 1 .. Len(t)
      BY <1>2
    <2> QED BY <1>0, <2>1 DEF Lies
  <1> DEFINE d == s[i]
             e == encap_packet(d)
             a == at[i]
             k == 2 - a
             z == Size(d)
  <1>5. d \in Packets /\ z \in {8, 9}
    BY <1>0, Sized
  <1>6. a \in Int /\ a <= 1 /\ 1 < a + z
    BY <1>0, <1>4 DEF Lies
  <1>7. \A q \in 1 .. z : a + q > 1 => t[a + q - 1] = e[q]
    BY <1>0 DEF Lies
  <1> HIDE DEF d, e, a, z
  <1>8. k \in 1 .. z /\ a + k = 2 /\ a + k - 1 = 1
    BY <1>5, <1>6
  <1> HIDE DEF k
  <1>9. e[k] = 35
    <2>1. a + k > 1
      BY <1>8
    <2>2. t[a + k - 1] = e[k]
      BY <1>7, <1>8, <2>1, Zenon
    <2> QED BY <1>3, <1>8, <2>2, Zenon
  <1>10. k < z => e[k + 1] = 35
    <2> SUFFICES ASSUME k < z PROVE e[k + 1] = 35
      OBVIOUS
    <2>1. k + 1 \in 1 .. z /\ a + (k + 1) > 1 /\ a + (k + 1) - 1 = 2
      BY <1>5, <1>6, <1>8
    <2> QED BY <1>3, <1>7, <2>1
  <1>11. k = 1
    BY <1>5, <1>8, <1>9, <1>10, TwoMarks DEF e, z
  <1>12. a = 1
    BY <1>6, <1>8, <1>11
  <1>13. \A q \in 1 .. z : t[q] = e[q]
    <2> TAKE q \in 1 .. z
    <2>1. a + q > 1 /\ a + q - 1 = q
      BY <1>5, <1>12
    <2> QED BY <1>7, <2>1
  <1> DEFINE m == Len(d)
  <1>14. /\ e[3] = m /\ z = m + 6 /\ m \in {2, 3} /\ d \in Seq(Nat)
         /\ \A j \in 1 .. m : e[3 + j] = d[j]
    BY <1>5, Framed, Characterised DEF e, z, Size
  <1> HIDE DEF m
  <1>15. r[3] = m
    <2>1. 3 \in 1 .. Len(r) /\ 3 \in 1 .. z
      BY <1>2, <1>14
    <2>2. r[3] = t[3]
      BY <1>0, <2>1
    <2>3. t[3] = e[3]
      BY <1>13, <2>1
    <2> QED BY <1>14, <2>2, <2>3
  <1>16. ASSUME NEW j \in 1 .. m PROVE Data(r)[j] = d[j]
    <2>1. 3 + j \in 1 .. Len(r) /\ 3 + j \in 1 .. z
      BY <1>1, <1>2, <1>14, <1>15
    <2>2. Data(r)[j] = r[3 + j]
      BY <1>1, <1>15
    <2>3. r[3 + j] = t[3 + j] /\ t[3 + j] = e[3 + j] /\ e[3 + j] = d[j]
      BY <1>0, <1>13, <1>14, <2>1
    <2> QED BY <2>2, <2>3
  <1>17. Data(r) = d
    <2>1. Len(Data(r)) = m /\ Len(d) = m
      BY <1>1, <1>15 DEF m
    <2> QED BY <1>1, <1>14, <1>16, <2>1, SeqEqual
  <1> QED BY <1>12, <1>17 DEF a, d

LEMMA Shifted ==
  ASSUME NEW s \in Seq(Packets), NEW t \in Seq(Nat), NEW at, Lies(at, s, t),
         NEW n \in 1 .. Len(t)
  PROVE  Lies([i \in 1 .. Len(s) |-> at[i] - n], s,
              SubSeq(t, n + 1, Len(t)))
  <1> DEFINE l == Len(t)
             u == SubSeq(t, n + 1, l)
             to == [i \in 1 .. Len(s) |-> at[i] - n]
  <1>1. /\ n \in Nat /\ n >= 1 /\ n <= l /\ l \in Nat
        /\ u \in Seq(Nat) /\ Len(u) = l - n
        /\ \A p \in 1 .. l - n : u[p] = t[n + p]
    <2>1. n \in Nat /\ n >= 1 /\ n <= l /\ l \in Nat
      OBVIOUS
    <2>2. /\ u \in Seq(Nat) /\ Len(u) = l - n
          /\ \A p \in 1 .. l - n : u[p] = t[n + p]
      BY Remaining, Zenon
    <2> QED BY <2>1, <2>2
  <1>2. \A i \in 1 .. Len(s) :
          at[i] \in Int /\ Size(s[i]) \in Nat /\ to[i] = at[i] - n
    <2>1. \A i \in 1 .. Len(s) : at[i] \in Int
      BY DEF Lies
    <2>2. \A i \in 1 .. Len(s) : Size(s[i]) \in Nat
      BY Sized
    <2> HIDE DEF u, l
    <2> QED BY <2>1, <2>2
  <1> HIDE DEF u, l
  <1>3. to \in [1 .. Len(s) -> Int]
    BY <1>1, <1>2
  <1> HIDE DEF to
  <1>4. ASSUME NEW i \in 1 .. Len(s), NEW j \in 1 .. Len(s), i < j
        PROVE  to[i] + Size(s[i]) <= to[j]
    <2> DEFINE a == at[i]
               z == Size(s[i])
               b == at[j]
    <2>1. a + z <= b
      BY <1>4 DEF Lies
    <2>2. /\ a \in Int /\ z \in Nat /\ b \in Int
          /\ to[i] = a - n /\ to[j] = b - n
      BY <1>2
    <2> HIDE DEF a, z, b
    <2>3. a - n + z <= b - n
      BY <1>1, <2>1, <2>2
    <2> QED BY <2>2, <2>3 DEF z
  <1>5. ASSUME NEW i \in 1 .. Len(s)
        PROVE  to[i] + Size(s[i]) <= Len(u) + 1
    <2> DEFINE a == at[i]
               z == Size(s[i])
    <2>1. a + z <= l + 1
      BY DEF Lies, l
    <2>2. a \in Int /\ z \in Nat /\ to[i] = a - n
      BY <1>2
    <2> HIDE DEF a, z
    <2>3. a - n + z <= l - n + 1
      BY <1>1, <2>1, <2>2
    <2> QED BY <1>1, <2>2, <2>3 DEF z
  <1>6. ASSUME NEW p \in 1 .. Len(u)
        PROVE  \E i \in 1 .. Len(s) : to[i] <= p /\ p < to[i] + Size(s[i])
    <2>1. n + p \in 1 .. l
      BY <1>1
    <2>2. PICK i \in 1 .. Len(s) :
            at[i] <= n + p /\ n + p < at[i] + Size(s[i])
      BY <2>1 DEF Lies, l
    <2> DEFINE a == at[i]
               z == Size(s[i])
    <2>3. a \in Int /\ z \in Nat /\ to[i] = a - n
      BY <1>2
    <2>4. a <= n + p /\ n + p < a + z /\ p \in Nat
      BY <1>1, <2>2
    <2> HIDE DEF a, z
    <2>5. n \in Nat
      BY <1>1
    <2>6. a - n <= p /\ p < a - n + z
      <3>1. a \in Int /\ z \in Nat
        BY <2>3
      <3> QED BY <2>4, <2>5, <3>1
    <2> QED BY <2>3, <2>6 DEF z
  <1>7. ASSUME NEW i \in 1 .. Len(s), NEW k \in 1 .. Size(s[i]), to[i] + k > 1
        PROVE  u[to[i] + k - 1] = encap_packet(s[i])[k]
    <2> DEFINE a == at[i]
               z == Size(s[i])
               p == to[i] + k - 1
    <2>1. a + z <= l + 1
      BY DEF Lies, l
    <2>2. a \in Int /\ z \in Nat /\ to[i] = a - n /\ k \in 1 .. z
      BY <1>2
    <2> HIDE DEF a, z
    <2>3. a - n + k > 1 /\ p = a - n + k - 1
      BY <1>7, <2>2
    <2> HIDE DEF p
    <2>4. p \in 1 .. l - n /\ n + p = a + k - 1 /\ a + k > 1
      <3>1. n \in Nat /\ l \in Nat /\ a \in Int /\ z \in Nat /\ k \in 1 .. z
        BY <1>1, <2>2
      <3> QED BY <2>1, <2>3, <3>1
    <2>5. u[p] = t[n + p]
      BY <1>1, <2>4
    <2>6. t[a + k - 1] = encap_packet(s[i])[k]
      <3>1. \A q \in 1 .. z : a + q > 1
              => t[a + q - 1] = encap_packet(s[i])[q]
        BY DEF Lies, a, z
      <3> QED BY <2>2, <2>4, <3>1
    <2> QED BY <2>4, <2>5, <2>6 DEF p
  <1>8. Lies(to, s, u)
    BY <1>3, <1>4, <1>5, <1>6, <1>7 DEF Lies
  <1> QED BY <1>8 DEF to, u, l

LEMMA Grown ==
  ASSUME NEW s \in Seq(Packets), NEW t \in Seq(Nat), NEW at, Lies(at, s, t),
         NEW d \in Packets
  PROVE  LET to == [i \in 1 .. Len(s) + 1 |->
                      IF i <= Len(s) THEN at[i] ELSE Len(t) + 1]
         IN  /\ Lies(to, Append(s, d), t \o encap_packet(d))
             /\ \A i \in 1 .. Len(s) : to[i] = at[i]
  <1> DEFINE m == Len(s)
             l == Len(t)
             e == encap_packet(d)
             c == Append(s, d)
             u == t \o e
             to == [i \in 1 .. m + 1 |-> IF i <= m THEN at[i] ELSE l + 1]
  <1>1. /\ m \in Nat /\ l \in Nat /\ c \in Seq(Packets) /\ Len(c) = m + 1
        /\ \A i \in 1 .. m : c[i] = s[i]
        /\ c[m + 1] = d
    OBVIOUS
  <1>2. e \in Seq(Nat) /\ Len(e) = Size(d) /\ Size(d) \in {8, 9}
    BY Positions DEF Size
  <1>3. /\ u \in Seq(Nat) /\ Len(u) = l + Size(d)
        /\ \A p \in 1 .. l : u[p] = t[p]
        /\ \A k \in 1 .. Size(d) : u[l + k] = e[k]
    <2>1. /\ t \o e \in Seq(Nat) /\ Len(t \o e) = Len(t) + Len(e)
          /\ \A p \in 1 .. Len(t) : (t \o e)[p] = t[p]
          /\ \A k \in 1 .. Len(e) : (t \o e)[Len(t) + k] = e[k]
      BY <1>2, TwoParts
    <2> QED BY <1>2, <2>1
  <1>4. \A i \in 1 .. m : /\ at[i] \in Int /\ Size(s[i]) \in {8, 9}
                          /\ at[i] + Size(s[i]) <= l + 1
    BY Sized DEF Lies
  <1> HIDE DEF u, e, c, l, m
  <1>5. \A i : i \in 1 .. m + 1 <=> i \in 1 .. m \/ i = m + 1
    <2>1. m \in Nat
      BY <1>1
    <2> QED BY <2>1, UpTo
  <1>6. /\ to \in [1 .. m + 1 -> Int]
        /\ \A i \in 1 .. m : to[i] = at[i]
        /\ to[m + 1] = l + 1
    BY <1>1, <1>4, <1>5
  <1> HIDE DEF to
  <1>7. ASSUME NEW i \in 1 .. m + 1, NEW j \in 1 .. m + 1, i < j
        PROVE  to[i] + Size(c[i]) <= to[j]
    <2>1. i \in 1 .. m /\ to[i] = at[i] /\ c[i] = s[i]
      BY <1>1, <1>6, <1>7
    <2>2. CASE j \in 1 .. m
      <3>1. at[i] + Size(s[i]) <= at[j]
        BY <1>7, <2>1, <2>2 DEF Lies, m
      <3> QED BY <1>6, <2>1, <2>2, <3>1
    <2>3. CASE j = m + 1
      BY <1>4, <1>6, <2>1, <2>3
    <2> QED BY <1>5, <2>2, <2>3
  <1>8. ASSUME NEW i \in 1 .. m + 1
        PROVE  to[i] + Size(c[i]) <= Len(u) + 1
    <2>1. CASE i \in 1 .. m
      <3>1. to[i] = at[i] /\ c[i] = s[i] /\ at[i] + Size(s[i]) <= l + 1
        BY <1>1, <1>4, <1>6, <2>1
      <3> DEFINE a == at[i]
                 z == Size(s[i])
                 y == Size(d)
      <3>2. /\ a \in Int /\ z \in Nat /\ a + z <= l + 1 /\ y \in Nat
            /\ l \in Nat /\ Len(u) = l + y
        <4>1. a \in Int /\ z \in {8, 9} /\ a + z <= l + 1
          BY <1>4, <2>1, Zenon
        <4>2. y \in {8, 9} /\ l \in Nat /\ Len(u) = l + y
          BY <1>1, <1>2, <1>3, Zenon
        <4> HIDE DEF a, z, y
        <4> QED BY <4>1, <4>2
      <3> HIDE DEF a, z, y
      <3>3. a + z <= l + y + 1
        BY <3>2
      <3> QED BY <3>1, <3>2, <3>3 DEF a, z
    <2>2. CASE i = m + 1
      BY <1>1, <1>2, <1>3, <1>6, <2>2
    <2> QED BY <1>5, <2>1, <2>2
  <1>9. ASSUME NEW p \in 1 .. Len(u)
        PROVE  \E i \in 1 .. m + 1 : to[i] <= p /\ p < to[i] + Size(c[i])
    <2>1. p \in Nat /\ p >= 1 /\ p <= l + Size(d)
      BY <1>1, <1>2, <1>3
    <2>2. CASE p <= l
      <3>1. p \in 1 .. l
        BY <1>1, <2>1, <2>2
      <3>2. PICK i \in 1 .. m : at[i] <= p /\ p < at[i] + Size(s[i])
        BY <3>1 DEF Lies, l, m
      <3>3. i \in 1 .. m + 1 /\ to[i] = at[i] /\ c[i] = s[i]
        BY <1>1, <1>5, <1>6
      <3> QED BY <3>2, <3>3
    <2>3. CASE p > l
      <3>1. l + 1 <= p /\ p < l + 1 + Size(d)
        BY <1>1, <1>2, <2>1, <2>3
      <3> QED BY <1>1, <1>5, <1>6, <3>1
    <2> QED BY <1>1, <2>1, <2>2, <2>3
  <1>10. ASSUME NEW i \in 1 .. m + 1, NEW k \in 1 .. Size(c[i]), to[i] + k > 1
         PROVE  u[to[i] + k - 1] = encap_packet(c[i])[k]
    <2>1. CASE i \in 1 .. m
      <3>1. to[i] = at[i] /\ c[i] = s[i]
        BY <1>1, <1>6, <2>1
      <3> DEFINE p == at[i] + k - 1
      <3>2. at[i] + k > 1 /\ k \in 1 .. Size(s[i])
        BY <1>10, <3>1
      <3>3. p \in 1 .. l
        <4> DEFINE a == at[i]
                   z == Size(s[i])
        <4>1. a \in Int /\ z \in Nat /\ a + z <= l + 1
          BY <1>4, <2>1
        <4>2. a + k > 1 /\ k \in 1 .. z
          BY <3>2
        <4> HIDE DEF a, z
        <4>3. a + k - 1 \in 1 .. l
          BY <1>1, <4>1, <4>2
        <4> QED BY <4>3 DEF a
      <3>4. t[p] = encap_packet(s[i])[k]
        BY <2>1, <3>2 DEF Lies, m
      <3> HIDE DEF p
      <3>5. u[p] = t[p]
        BY <1>3, <3>3
      <3> QED BY <3>1, <3>4, <3>5 DEF p
    <2>2. CASE i = m + 1
      <3>1. to[i] = l + 1 /\ c[i] = d /\ k \in 1 .. Size(d)
        BY <1>1, <1>6, <2>2
      <3>2. l + 1 + k - 1 = l + k
        BY <1>1, <1>2, <3>1
      <3>3. u[l + k] = e[k]
        BY <1>3, <3>1
      <3> QED BY <3>1, <3>2, <3>3 DEF e
    <2> QED BY <1>5, <2>1, <2>2
  <1>11. Lies(to, c, u)
    BY <1>1, <1>6, <1>7, <1>8, <1>9, <1>10 DEF Lies
  <1> QED BY <1>6, <1>11 DEF to, c, u, e, l, m

LEMMA StillBehind ==
  ASSUME NEW s, NEW at, NEW h, Behind(at, s, h),
         NEW c, NEW to,
         \A i \in 1 .. Len(s) :
           i \in 1 .. Len(c) /\ c[i] = s[i] /\ (at[i] < 1 => to[i] < 1)
  PROVE  Behind(to, c, h)
  BY DEF Behind

LEMMA NowhereYet == \E at : Lies(at, <<>>, <<>>)
  <1> DEFINE at == [i \in 1 .. 0 |-> 0]
  <1>1. Len(<<>>) = 0
    OBVIOUS
  <1>2. \A p : p \notin 1 .. 0
    OBVIOUS
  <1>3. at \in [1 .. 0 -> Int]
    OBVIOUS
  <1> HIDE DEF at
  <1>4. Lies(at, <<>>, <<>>)
    BY <1>1, <1>2, <1>3, Zenon DEF Lies
  <1> QED BY <1>4

LEMMA NothingBehind ==
  \A at, s : Behind(at, s, <<>>) /\ Ascending(<<>>)
  BY DEF Behind, Members, Ascending

(***************************************************************************)
(* A packet that is handed on lay at the front, and was sent after those   *)
(* that were handed on before.                                             *)
(***************************************************************************)
LEMMA HandedNext ==
  ASSUME ReceiveInv, NEW at, Lies(at, sent, stream),
         NEW h \in Seq(Seq(Nat)), Behind(at, sent, h), Ascending(h),
         NEW i \in 1 .. Len(sent), at[i] = 1,
         IsRespond(sent[i]) \/ IsOrder(sent[i]),
         NEW to, \A j \in 1 .. Len(sent) : at[j] <= 1 => to[j] < 1
  PROVE  /\ Behind(to, sent, Append(h, sent[i]))
         /\ Ascending(Append(h, sent[i]))
  <1> DEFINE d == sent[i]
  <1>1. sent \in Seq(Packets) /\ Len(sent) \in Nat
    BY DEF ReceiveInv, ReceiveTypes
  <1>2. d \in Packets /\ d \in Seq(Nat)
    <2>1. d \in Packets
      BY <1>1
    <2> QED BY <2>1, Characterised
  <1>3. i \in Nat /\ Number(d) = 48 + i /\ Number(d) \in Nat
    BY <1>1, Placed
  <1>4. ASSUME NEW x \in Members(h)
        PROVE  /\ Number(x) \in Nat /\ Number(x) < Number(d)
               /\ \E j \in 1 .. Len(sent) :
                    x = sent[j] /\ to[j] < 1 /\ (IsRespond(x) \/ IsOrder(x))
    <2>1. PICK j \in 1 .. Len(sent) :
            x = sent[j] /\ at[j] < 1 /\ (IsRespond(x) \/ IsOrder(x))
      BY DEF Behind
    <2>2. Number(x) = 48 + j /\ j \in Nat
      BY <1>1, <2>1, Placed
    <2>3. j < i
      <3> SUFFICES ASSUME i <= j PROVE FALSE
        BY <1>3, <2>2
      <3>1. i # j
        BY <2>1
      <3>2. at[i] + Size(sent[i]) <= at[j]
        BY <1>3, <2>2, <3>1 DEF Lies
      <3>3. Size(sent[i]) \in {8, 9}
        BY <1>1, Sized
      <3>4. at[j] \in Int
        BY DEF Lies
      <3> DEFINE b == at[j]
                 z == Size(sent[i])
      <3>5. b \in Int /\ z \in {8, 9} /\ 1 + z <= b /\ b < 1
        BY <2>1, <3>2, <3>3, <3>4
      <3> HIDE DEF b, z
      <3> QED BY <3>5
    <2>4. at[j] <= 1
      <3>1. at[j] \in Int
        BY DEF Lies
      <3> DEFINE b == at[j]
      <3>2. b \in Int /\ b < 1
        BY <2>1, <3>1
      <3> HIDE DEF b
      <3>3. b <= 1
        BY <3>2
      <3> QED BY <3>3 DEF b
    <2>5. Number(x) \in Nat /\ Number(x) < Number(d)
      BY <1>3, <2>2, <2>3
    <2> QED BY <2>1, <2>4, <2>5
  <1>5. Holds(h, Members(h))
    BY DEF Holds
  <1> HIDE DEF d
  <1>6. Holds(Append(h, d), Members(h) \cup {d})
    BY <1>2, <1>3, <1>4, <1>5, HoldsOneMore
  <1>7. to[i] < 1
    <2>1. 1 <= 1
      OBVIOUS
    <2> QED BY <2>1
  <1>8. Behind(to, sent, Append(h, d))
    BY <1>4, <1>6, <1>7 DEF Behind, Holds, d
  <1> QED BY <1>6, <1>8 DEF Holds, d

LEMMA UndamagedStep ==
  ASSUME ReceiveInv, Undamaged, [ReceiveNext]_receiveVars
  PROVE  Undamaged'
  <1>1. ReceiveTypes
    BY DEF ReceiveInv
  <1>2. /\ sent \in Seq(Packets) /\ Len(sent) \in Nat /\ stream \in Seq(Nat)
        /\ handled \in Seq(Seq(Nat)) /\ passed \in Seq(Seq(Nat))
        /\ damages \in Nat
    BY <1>1, Bounds DEF ReceiveTypes
  <1> SUFFICES ASSUME damages' = 0 PROVE Undamaged'
    BY DEF Undamaged
  <1>3. CASE LogIn
    <2>1. /\ stream' = <<>> /\ sent' = <<>> /\ handled' = <<>>
          /\ passed' = <<>>
      BY <1>3 DEF LogIn
    <2>2. \E at : Lies(at, <<>>, <<>>)
      BY NowhereYet
    <2> QED BY <2>1, <2>2, NothingBehind DEF Undamaged
  <1>4. ASSUME NEW d, SendDamaged(d) PROVE FALSE
    BY <1>2, <1>4 DEF SendDamaged
  <1>5. CASE damages = 0 /\ ~LogIn
    <2>1. PICK at : /\ Lies(at, sent, stream) /\ Behind(at, sent, handled)
                    /\ Behind(at, sent, passed)
      BY <1>5 DEF Undamaged
    <2>2. Ascending(handled) /\ Ascending(passed)
      BY <1>5 DEF Undamaged
    <2>3. ASSUME NEW d \in Next4(Len(sent) + 1), SendWhole(d)
          PROVE  Undamaged'
      <3>1. /\ sent' = Append(sent, d) /\ Len(sent) < MaxFrame
            /\ stream' = stream \o encap_packet(d)
            /\ handled' = handled /\ passed' = passed
        BY <2>3 DEF SendWhole, SendPacket
      <3>2. d \in Packets
        BY <1>1, <3>1, SentNext
      <3> DEFINE to == [i \in 1 .. Len(sent) + 1 |->
                          IF i <= Len(sent) THEN at[i] ELSE Len(stream) + 1]
      <3>3. /\ Lies(to, sent', stream')
            /\ \A i \in 1 .. Len(sent) : to[i] = at[i]
        BY <1>2, <2>1, <3>1, <3>2, Grown
      <3> HIDE DEF to
      <3>4. \A i \in 1 .. Len(sent) :
              i \in 1 .. Len(sent') /\ sent'[i] = sent[i]
        BY <1>2, <3>1, <3>2
      <3>5. Behind(to, sent', handled) /\ Behind(to, sent', passed)
        BY <2>1, <3>3, <3>4, StillBehind
      <3> QED BY <2>2, <3>1, <3>3, <3>5 DEF Undamaged
    <2>4. ASSUME sent' = sent, stream' = stream, handled' = handled,
                 passed' = passed
          PROVE  Undamaged'
      BY <2>1, <2>2, <2>4 DEF Undamaged
    <2>5. ASSUME NEW r, Received(r)
          PROVE  \E to : /\ Lies(to, sent, stream')
                         /\ Behind(to, sent, handled)
                         /\ Behind(to, sent, passed)
                         /\ \A j \in 1 .. Len(sent) : at[j] <= 1 => to[j] < 1
      <3>1. PICK n \in 1 .. Len(stream) :
              stream' = SubSeq(stream, n + 1, Len(stream))
        BY <2>5 DEF Received
      <3> DEFINE to == [i \in 1 .. Len(sent) |-> at[i] - n]
      <3>2. Lies(to, sent, stream')
        BY <1>2, <2>1, <3>1, Shifted
      <3>3. ASSUME NEW j \in 1 .. Len(sent)
            PROVE  (at[j] <= 1 => to[j] < 1) /\ (at[j] < 1 => to[j] < 1)
        <4> DEFINE b == at[j]
        <4>1. b \in Int /\ to[j] = b - n
          BY <2>1 DEF Lies
        <4>2. n \in Nat /\ n >= 1
          BY <1>2
        <4> HIDE DEF b, to
        <4>3. (b <= 1 => b - n < 1) /\ (b < 1 => b - n < 1)
          BY <4>1, <4>2
        <4> QED BY <4>1, <4>3 DEF b
      <3> HIDE DEF to
      <3>4. Behind(to, sent, handled) /\ Behind(to, sent, passed)
        BY <2>1, <3>3, StillBehind
      <3> QED BY <3>2, <3>3, <3>4
    <2>6. ASSUME NEW r, Received(r), sent' = sent, handled' = handled,
                 passed' = passed
          PROVE  Undamaged'
      BY <2>2, <2>5, <2>6 DEF Undamaged
    <2>7. ASSUME NEW r, Receive(r) PROVE Undamaged'
      <3>1. /\ Received(r) /\ verify_packet(r) /\ sent' = sent
            /\ parse_recv_respond(Data(r))
            /\ \/ parse_recv_command(Data(r))
               \/ passed' = passed
        BY <2>7 DEF Receive
      <3>2. /\ r \in Seq(Nat) /\ Len(r) \in 1 .. Len(stream)
            /\ \A i \in 1 .. Len(r) : r[i] = stream[i]
        BY <1>1, <3>1, Taken
      <3>3. Len(r) <= Len(stream)
        BY <1>2, <3>2
      <3>4. PICK i \in 1 .. Len(sent) : at[i] = 1 /\ Data(r) = sent[i]
        <4>1. Opens(r, stream)
          BY <3>2, <3>3 DEF Opens
        <4>2. r \in Seq(Nat) /\ verify_packet(r) /\ Lies(at, sent, stream)
          BY <2>1, <3>1, <3>2
        <4> QED BY <1>2, <4>1, <4>2, FrontOnly
      <3>5. PICK to : /\ Lies(to, sent, stream')
                      /\ Behind(to, sent, handled)
                      /\ Behind(to, sent, passed)
                      /\ \A j \in 1 .. Len(sent) : at[j] <= 1 => to[j] < 1
        BY <2>5, <3>1
      <3>6. \/ handled' = handled
            \/ handled' = Append(handled, sent[i]) /\ IsRespond(sent[i])
        BY <3>1, <3>4 DEF parse_recv_respond
      <3>7. \/ passed' = passed
            \/ passed' = Append(passed, sent[i]) /\ IsOrder(sent[i])
        BY <3>1, <3>4 DEF parse_recv_command
      <3>8. Behind(to, sent, handled') /\ Ascending(handled')
        <4>1. CASE handled' = handled
          BY <2>2, <3>5, <4>1
        <4>2. CASE handled' = Append(handled, sent[i]) /\ IsRespond(sent[i])
          BY <1>2, <2>1, <2>2, <3>4, <3>5, <4>2, HandedNext
        <4> QED BY <3>6, <4>1, <4>2
      <3>9. Behind(to, sent, passed') /\ Ascending(passed')
        <4>1. CASE passed' = passed
          BY <2>2, <3>5, <4>1
        <4>2. CASE passed' = Append(passed, sent[i]) /\ IsOrder(sent[i])
          BY <1>2, <2>1, <2>2, <3>4, <3>5, <4>2, HandedNext
        <4> QED BY <3>7, <4>1, <4>2
      <3> QED BY <3>1, <3>5, <3>8, <3>9 DEF Undamaged
    <2>8. ASSUME NEW r, LoginAnswered(r) PROVE Undamaged'
      BY <2>6, <2>8 DEF LoginAnswered
    <2>9. ASSUME NEW r, LoginRefused(r) PROVE Undamaged'
      BY <2>6, <2>9 DEF LoginRefused, past
    <2>10. ASSUME NEW r, Discard(r) PROVE Undamaged'
      BY <2>6, <2>10 DEF Discard
    <2>11. CASE LinkEnds
      BY <2>4, <2>11 DEF LinkEnds, past
    <2>12. CASE UNCHANGED receiveVars
      BY <2>4, <2>12 DEF receiveVars, past
    <2>13. CASE ServerSends
      <3>1. PICK d \in {Accept(n) : n \in {0, qn}}
                 \cup {Respond(Len(sent) + 1), Order(Len(sent) + 1)} :
              SendWhole(d) \/ SendDamaged(d)
        BY <2>13 DEF ServerSends
      <3>2. d \in Next4(Len(sent) + 1)
        BY DEF Next4
      <3> QED BY <1>4, <2>3, <3>1, <3>2
    <2>14. CASE SendsOnOld \/ OldRecv
      BY <2>4, <2>14 DEF SendsOnOld, OldRecv, past
    <2> QED BY <1>5, <2>7, <2>8, <2>9, <2>10, <2>11, <2>12, <2>13, <2>14
            DEF ReceiveNext
  <1>6. damages = 0 \/ LogIn
    <2> SUFFICES ASSUME ~LogIn PROVE damages = 0
      OBVIOUS
    <2>1. CASE SendsOnOld
      BY <1>2, <2>1 DEF SendsOnOld
    <2>2. CASE ~SendsOnOld
      <3>1. damages' = damages
        BY <1>4, <2>2 DEF ReceiveNext, ServerSends, SendWhole, LinkEnds,
                          LoginAnswered, LoginRefused, Receive, Discard,
                          OldRecv, receiveVars, setup
      <3> QED BY <3>1
    <2> QED BY <2>1, <2>2
  <1> QED BY <1>3, <1>5, <1>6

-----------------------------------------------------------------------------
(***************************************************************************)
(* The socket of an earlier connection.  A receiver that is left there has *)
(* handed on nothing of the present session, and hands on at most one      *)
(* packet when its recv returns.                                           *)
(***************************************************************************)
OneStray ==
  /\ \/ stray = <<>>
     \/ ~behind /\ \E d : stray = <<d>>
  /\ behind /\ link # "closed" => handled = <<>> /\ passed = <<>>

OldUndamaged ==
  damages = 0 => /\ behind => \E at : Lies(at, before, left)
                 /\ Members(stray) \subseteq Members(before)

OldInv == OldTypes /\ OneStray /\ OldUndamaged

LEMMA SameOld ==
  ASSUME OldInv, UNCHANGED old, damages' = 0 => damages = 0,
         behind /\ link' # "closed" => handled' = <<>> /\ passed' = <<>>
  PROVE  OldInv'
  <1>1. behind' = behind /\ left' = left /\ before' = before /\ stray' = stray
    BY DEF old
  <1>2. OldTypes'
    BY <1>1 DEF OldInv, OldTypes
  <1>3. OneStray'
    BY <1>1 DEF OldInv, OneStray
  <1>4. OldUndamaged'
    BY <1>1 DEF OldInv, OldUndamaged
  <1> QED BY <1>2, <1>3, <1>4 DEF OldInv

LEMMA LeftBehind ==
  ASSUME ReceiveTypes, Undamaged, StaysBehind, link' = "closed",
         damages' = damages
  PROVE  OldInv'
  <1>1. /\ behind' = TRUE /\ left' = stream /\ before' = sent /\ stray' = <<>>
    BY DEF StaysBehind
  <1>2. OldTypes'
    BY <1>1 DEF OldTypes, ReceiveTypes
  <1>3. Members(<<>>) = {}
    BY NothingYet
  <1>4. damages = 0 => \E at : Lies(at, sent, stream)
    BY DEF Undamaged
  <1> QED BY <1>1, <1>2, <1>3, <1>4 DEF OldInv, OneStray, OldUndamaged

LEMMA SentOnOld ==
  ASSUME ReceiveTypes, OldInv, SendsOnOld
  PROVE  OldInv'
  <1>1. PICK d \in {Respond(Len(before) + 1), Order(Len(before) + 1)} :
          /\ behind /\ Len(before) < MaxFrame /\ before' = Append(before, d)
          /\ \/ left' = left \o encap_packet(d) /\ UNCHANGED damages
             \/ /\ damages < MaxDamage /\ damages' = damages + 1
                /\ \E r \in Damaged(encap_packet(d)) : left' = left \o r
          /\ UNCHANGED <<conf, link, stream, qn, past, behind, stray>>
    BY DEF SendsOnOld
  <1>2. /\ before \in Seq(Packets) /\ left \in Seq(Nat) /\ behind \in BOOLEAN
        /\ Len(left) <= Len(before) * Room /\ Len(before) \in Nat
        /\ damages \in Nat
    BY Bounds DEF OldInv, OldTypes, ReceiveTypes
  <1>3. d \in Packets
    <2>1. Len(before) + 1 \in 1 .. MaxFrame
      BY <1>1, <1>2, Bounds
    <2> QED BY <2>1 DEF Packets
  <1>4. PICK f \in Frames(d) :
          /\ left' = left \o f
          /\ \/ f = encap_packet(d) /\ damages' = damages
             \/ damages' = damages + 1
    BY <1>1 DEF Frames
  <1>5. /\ before' \in Seq(Packets) /\ left' \in Seq(Nat)
        /\ Len(before') = Len(before) + 1
        /\ Len(left') <= Len(before') * Room
    BY <1>1, <1>2, <1>3, <1>4, OneFrameMore
  <1>6. OldTypes'
    <2>1. Len(before') <= MaxFrame
      BY <1>1, <1>2, <1>5, Bounds
    <2> QED BY <1>1, <1>2, <1>5, <2>1 DEF OldTypes
  <1>7. OneStray'
    BY <1>1 DEF OldInv, OneStray, past
  <1>8. ASSUME damages' = 0
        PROVE  /\ \E to : Lies(to, before', left')
               /\ Members(stray') \subseteq Members(before')
    <2>1. damages = 0 /\ f = encap_packet(d)
      BY <1>2, <1>4, <1>8
    <2>2. PICK at : Lies(at, before, left)
      BY <1>1, <2>1 DEF OldInv, OldUndamaged
    <2> DEFINE to == [i \in 1 .. Len(before) + 1 |->
                        IF i <= Len(before) THEN at[i] ELSE Len(left) + 1]
    <2>3. Lies(to, before', left')
      BY <1>1, <1>2, <1>3, <1>4, <2>1, <2>2, Grown
    <2> HIDE DEF to
    <2>4. stray' = stray /\ stray = <<>>
      BY <1>1 DEF OldInv, OneStray
    <2>5. Members(stray') = {}
      BY <2>4, NothingYet
    <2> QED BY <2>3, <2>5
  <1> QED BY <1>6, <1>7, <1>8 DEF OldInv, OldUndamaged

LEMMA OldTaken ==
  ASSUME ReceiveTypes, OldInv, OldRecv
  PROVE  OldInv'
  <1>1. /\ behind /\ behind' = FALSE /\ left' = <<>> /\ before' = before
        /\ link' = link /\ handled' = handled /\ passed' = passed
        /\ damages' = damages
    BY DEF OldRecv, past, setup
  <1>2. /\ before \in Seq(Packets) /\ left \in Seq(Nat)
        /\ Len(before) <= MaxFrame /\ Len(before) \in Nat /\ stray = <<>>
    BY <1>1 DEF OldInv, OldTypes, OneStray
  <1>3. OldTypes'
    <2>1. left' \in Seq(Nat) /\ Len(left') = 0 /\ 0 <= Len(before) * Room
      BY <1>1, <1>2, Bounds
    <2> QED BY <1>1, <1>2, <2>1 DEF OldTypes
  <1>4. CASE stray' = stray
    <2>1. Members(<<>>) = {}
      BY NothingYet
    <2> QED BY <1>1, <1>2, <1>3, <1>4, <2>1
            DEF OldInv, OneStray, OldUndamaged
  <1>5. ASSUME NEW n \in 1 .. Len(left), NEW r, r = SubSeq(left, 1, n),
               HandedOn(r), stray' = Append(stray, Data(r))
        PROVE  OldInv'
    <2>1. stray' = <<Data(r)>>
      BY <1>2, <1>5
    <2>2. ASSUME damages = 0 PROVE Members(stray') \subseteq Members(before)
      <3>1. PICK at : Lies(at, before, left)
        BY <1>1, <2>2 DEF OldInv, OldUndamaged
      <3>2. /\ r \in Seq(Nat) /\ Len(r) = n
            /\ \A i \in 1 .. n : r[i] = left[i]
        BY <1>2, <1>5, Opening, Zenon
      <3>3. Opens(r, left)
        BY <1>2, <3>2 DEF Opens
      <3>4. verify_packet(r)
        BY <1>5 DEF HandedOn
      <3>5. PICK i \in 1 .. Len(before) : Data(r) = before[i]
        BY <1>2, <3>1, <3>2, <3>3, <3>4, FrontOnly
      <3>6. before[i] \in Members(before)
        BY <1>2 DEF Members
      <3>7. Members(stray') = {Data(r)}
        BY <2>1 DEF Members
      <3> QED BY <3>5, <3>6, <3>7
    <2>3. OneStray'
      BY <1>1, <2>1 DEF OneStray
    <2> QED BY <1>1, <1>3, <2>2, <2>3 DEF OldInv, OldUndamaged
  <1> QED BY <1>4, <1>5 DEF OldRecv

LEMMA OldStep ==
  ASSUME ReceiveInv, Undamaged, OldInv, [ReceiveNext]_receiveVars
  PROVE  OldInv'
  <1>1. ReceiveTypes /\ Waiting
    BY DEF ReceiveInv
  <1>2. damages \in Nat
    BY <1>1, Bounds DEF ReceiveTypes
  <1>3. behind /\ link # "closed" => handled = <<>> /\ passed = <<>>
    BY DEF OldInv, OneStray
  <1>4. CASE ServerSends
    <2>1. /\ UNCHANGED old /\ link' = link /\ handled' = handled
          /\ passed' = passed
          /\ damages' = damages \/ damages' = damages + 1
      BY <1>4 DEF ServerSends, SendWhole, SendDamaged, SendPacket
    <2>2. damages' = 0 => damages = 0
      BY <1>2, <2>1
    <2> QED BY <1>3, <2>1, <2>2, SameOld
  <1>5. CASE SendsOnOld
    BY <1>1, <1>5, SentOnOld
  <1>6. CASE LogIn
    BY <1>6, SameOld DEF LogIn, setup
  <1>7. CASE LinkEnds
    <2>1. link' = "closed" /\ damages' = damages
      BY <1>7 DEF LinkEnds, setup
    <2>2. CASE StaysBehind
      BY <1>1, <2>1, <2>2, LeftBehind
    <2>3. CASE UNCHANGED old
      BY <2>1, <2>3, SameOld
    <2> QED BY <1>7, <2>2, <2>3 DEF LinkEnds
  <1>8. CASE OldRecv
    BY <1>1, <1>8, OldTaken
  <1>9. ASSUME NEW r, LoginAnswered(r) PROVE OldInv'
    BY <1>3, <1>9, SameOld DEF LoginAnswered, setup
  <1>10. ASSUME NEW r, LoginRefused(r) PROVE OldInv'
    BY <1>10, SameOld DEF LoginRefused, setup
  <1>11. ASSUME NEW r, Receive(r) PROVE OldInv'
    BY <1>11, SameOld DEF Receive, setup
  <1>12. ASSUME NEW r, Discard(r) PROVE OldInv'
    BY <1>12, SameOld DEF Discard, setup
  <1>13. CASE UNCHANGED receiveVars
    BY <1>3, <1>13, SameOld DEF receiveVars, setup, past
  <1> QED BY <1>4, <1>5, <1>6, <1>7, <1>8, <1>9, <1>10, <1>11, <1>12, <1>13
          DEF ReceiveNext

LEMMA UndamagedWhole ==
  ASSUME Undamaged, OldInv, damages = 0
  PROVE  OnlyWhole
  <1>1. PICK at : Behind(at, sent, handled) /\ Behind(at, sent, passed)
    BY DEF Undamaged
  <1>2. \A i \in 1 .. Len(sent) : sent[i] \in Members(sent)
    BY DEF Members
  <1>3. InOrder(handled) /\ InOrder(passed)
    BY <1>1, <1>2 DEF Undamaged, InOrder, Behind
  <1>4. Len(stray) <= 1
    <2>1. stray = <<>> \/ \E d : stray = <<d>>
      BY DEF OldInv, OneStray
    <2>2. Len(<<>>) <= 1 /\ \A d : Len(<<d>>) <= 1
      OBVIOUS
    <2> QED BY <2>1, <2>2, Zenon
  <1> QED BY <1>3, <1>4 DEF OldInv, OneStray, OldUndamaged, OnlyWhole

-----------------------------------------------------------------------------
LEMMA InBounds ==
  ASSUME NEW s \in Seq(Packets), Len(s) <= MaxFrame,
         NEW t \in Seq(Nat), Len(t) <= Len(s) * Room
  PROVE  Len(t) <= MaxFrame * Room
  <1> DEFINE l == Len(t)
             k == Len(s)
  <1>1. /\ k \in Nat /\ k <= MaxFrame /\ l <= k * Room /\ l \in Nat
        /\ MaxFrame \in Nat /\ Room \in Nat
    BY Bounds
  <1> HIDE DEF l, k
  <1>2. PICK x \in Nat : MaxFrame = k + x
    <2>1. MaxFrame - k \in Nat /\ MaxFrame = k + (MaxFrame - k)
      BY <1>1
    <2> QED BY <2>1
  <1>3. (k + x) * Room = k * Room + x * Room
    BY <1>1, <1>2
  <1>4. k * Room \in Nat /\ x * Room \in Nat
    BY <1>1, <1>2
  <1> DEFINE y == k * Room
             z == x * Room
  <1>5. y \in Nat /\ z \in Nat /\ l <= y /\ MaxFrame * Room = y + z
    BY <1>1, <1>2, <1>3, <1>4
  <1> HIDE DEF y, z
  <1>6. l <= y + z
    BY <1>1, <1>5
  <1> QED BY <1>5, <1>6 DEF l

LEMMA ReceiveTyped ==
  ASSUME ReceiveTypes, OldTypes
  PROVE  ReceiveTypeOK
  <1>1. /\ \A i \in DOMAIN sent : sent[i] \in Packets
        /\ \A i \in DOMAIN before : before[i] \in Packets
    BY DEF ReceiveTypes, OldTypes
  <1>2. Len(stream) <= MaxFrame * Room /\ Len(left) <= MaxFrame * Room
    BY InBounds DEF ReceiveTypes, OldTypes
  <1>3. whole \in 0 .. MaxFrame \cup {NotWhole}
    BY Bounds DEF ReceiveTypes
  <1> QED BY <1>1, <1>2, <1>3 DEF ReceiveTypes, OldTypes, ReceiveTypeOK

(***************************************************************************)
(* Together they are inductive.                                            *)
(***************************************************************************)
LEMMA ReceiveInductive ==
  ReceiveSpec => [](ReceiveInv /\ NothingLost /\ Undamaged /\ OldInv)
  <1>1. ASSUME ReceiveInit
        PROVE  ReceiveInv /\ NothingLost /\ Undamaged /\ OldInv
    <2>1. ReceiveInv
      BY <1>1, ReceiveStarts
    <2>2. /\ stream = <<>> /\ sent = <<>> /\ verified = <<>>
          /\ handled = <<>> /\ passed = <<>> /\ whole = 0
          /\ behind = FALSE /\ left = <<>> /\ before = <<>> /\ stray = <<>>
      BY <1>1 DEF ReceiveInit
    <2>3. \E at : Lies(at, <<>>, <<>>)
      BY NowhereYet
    <2>4. OldInv
      <3>1. /\ left \in Seq(Nat) /\ before \in Seq(Packets)
            /\ Len(left) = 0 /\ Len(before) = 0
        BY <2>2
      <3>2. 0 <= MaxFrame /\ 0 <= 0 * Room
        BY Bounds
      <3> QED BY <2>2, <3>1, <3>2 DEF OldInv, OldTypes, OneStray, OldUndamaged
    <2> QED BY <2>1, <2>2, <2>3, <2>4, NothingFirst, NothingBehind
            DEF Undamaged
  <1>2. ASSUME ReceiveInv, NothingLost, Undamaged, OldInv,
               [ReceiveNext]_receiveVars
        PROVE  (ReceiveInv /\ NothingLost /\ Undamaged /\ OldInv)'
    BY <1>2, ReceiveStep, NothingLostStep, UndamagedStep, OldStep
  <1> QED BY <1>1, <1>2, PTL DEF ReceiveSpec

(***************************************************************************)
(* The state of the receiver keeps its type, and its queues their size.    *)
(***************************************************************************)
THEOREM ReceiveTypeCorrect == ReceiveSpec => []ReceiveTypeOK
  <1>1. ReceiveInv /\ OldInv => ReceiveTypeOK
    BY ReceiveTyped DEF ReceiveInv, OldInv
  <1> QED BY <1>1, ReceiveInductive, PTL

(***************************************************************************)
(* A session begins only when the server has accepted the login of this    *)
(* very connection: whatever is damaged, and whatever the answers to an    *)
(* earlier login say (client.c 804-881).                                   *)
(***************************************************************************)
THEOREM Admitted == ReceiveSpec => []SessionAccepted
  <1>1. ReceiveInv => SessionAccepted
    BY DEF ReceiveInv
  <1> QED BY <1>1, ReceiveInductive, PTL

(***************************************************************************)
(* With values of the standard width, what is received packet by packet    *)
(* is known again or gets to gather, if it fits in the queue: all of it,   *)
(* and in its order (client.c 215-253, packet.c 249-590).                  *)
(***************************************************************************)
THEOREM AllTaken == ReceiveSpec => []NothingLost
  <1> QED BY ReceiveInductive, PTL

(***************************************************************************)
(* However the bytes are cut and joined: as long as no packet is damaged,  *)
(* the handlers see only packets that the server has sent: those of this   *)
(* connection each once and in their order, and ahead of them at most one  *)
(* of the earlier connection in whose recv the receiver was left           *)
(* (client.c 329-375).  For damaged packets it is the checksum that        *)
(* decides.                                                                *)
(***************************************************************************)
THEOREM HandedWhole == ReceiveSpec => [](damages = 0 => OnlyWhole)
  <1>1. Undamaged /\ OldInv => (damages = 0 => OnlyWhole)
    BY UndamagedWhole
  <1> QED BY <1>1, ReceiveInductive, PTL
=============================================================================
