------------------------- MODULE GatherFanout_proofs -------------------------
(***************************************************************************)
(* Proofs about GatherFanout, for any number of servers, any set of        *)
(* collectors, any capacity of the queues and any bounds.                  *)
(***************************************************************************)
EXTENDS GatherFanout, SequenceTheorems, TLAPS

USE SizeAssumption, NoneAssumption, BoundAssumption

(***************************************************************************)
(* A collector in its loop holds `mutex', so that there is one at most; it *)
(* has looked at the flag of no server but the one it is busy with.        *)
(***************************************************************************)
Exclusive ==
  /\ \A t \in Collector : at[t] # 0 => mutex = t /\ round[t] # 0
  /\ \A t \in Collector : looked[t] => at[t] \in Server

(***************************************************************************)
(* The packet that a collector which looked before the stop will still put *)
(* onto the queue is the first since the stop.                             *)
(***************************************************************************)
FirstSinceStop ==
  \A t \in Collector : \A i \in Server :
    (looked[t] /\ at[t] = i /\ gather_stop[i]) => extra[i] = 0

(***************************************************************************)
(* The packets put onto the queues so far are of rounds that have begun;   *)
(* the packet of a round under way is nowhere but at the end of queues     *)
(* that its collector has passed.                                          *)
(***************************************************************************)
Current(t) == <<t, round[t]>>

RoundsBegun ==
  \A i \in Server : \A a \in DOMAIN sent[i] :
    \A t \in Collector : \A r \in Nat :
      sent[i][a] = <<t, r>> => r <= round[t]

CurrentIsLast ==
  \A t \in Collector : at[t] # 0 =>
    \A i \in Server : \A a \in DOMAIN sent[i] :
      sent[i][a] = Current(t) => a = Len(sent[i]) /\ i < at[t]

-----------------------------------------------------------------------------
(***************************************************************************)
(* Every step keeps the truth values.                                      *)
(***************************************************************************)
LEMMA FlagsStep == FlagsOK /\ [Next]_vars => FlagsOK'
  <1> SUFFICES ASSUME FlagsOK, [Next]_vars PROVE FlagsOK'
    OBVIOUS
  <1> USE DEF FlagsOK, clients, collecting, receiving
  <1>1. ASSUME NEW t \in Collector, Lock(t) PROVE FlagsOK'
    BY <1>1, Zenon DEF Lock
  <1>2. ASSUME NEW t \in Collector, Look(t) PROVE FlagsOK'
    BY <1>2, Zenon DEF Look
  <1>3. ASSUME NEW t \in Collector, Put(t) PROVE FlagsOK'
    BY <1>3, Zenon DEF Put
  <1>4. ASSUME NEW t \in Collector, Unlock(t) PROVE FlagsOK'
    BY <1>4, Zenon DEF Unlock
  <1>5. CASE Poll
    BY <1>5, Zenon DEF Poll
  <1>6. CASE SendReply
    BY <1>6, Zenon DEF SendReply, mq_send
  <1>7. CASE WriteRegisters
    BY <1>7, Zenon DEF WriteRegisters
  <1>8. ASSUME NEW i \in Server, CheckError(i) PROVE FlagsOK'
    BY <1>8, Zenon DEF CheckError
  <1>9. ASSUME NEW i \in Server, Take(i) PROVE FlagsOK'
    BY <1>9, Zenon DEF Take
  <1>10. ASSUME NEW i \in Server, Forward(i) PROVE FlagsOK'
    BY <1>10, Zenon DEF Forward
  <1>11. ASSUME NEW i \in Server, Lose(i) PROVE FlagsOK'
    BY <1>11, Zenon DEF Lose
  <1>12. ASSUME NEW i \in Server, Regain(i) PROVE FlagsOK'
    BY <1>12, Zenon DEF Regain
  <1>13. ASSUME NEW i \in Server, Stop(i) PROVE FlagsOK'
    BY <1>13, Zenon DEF Stop
  <1>14. ASSUME NEW i \in Server, Start(i) PROVE FlagsOK'
    BY <1>14, Zenon DEF Start
  <1>15. CASE UNCHANGED vars
    BY <1>15, Zenon DEF vars
  <1> QED
    BY <1>1, <1>2, <1>3, <1>4, <1>5, <1>6, <1>7, <1>8, <1>9, <1>10,
       <1>11, <1>12, <1>13, <1>14, <1>15, Zenon DEF Next

(***************************************************************************)
(* Every step keeps what the threads are at, and their exclusion.          *)
(***************************************************************************)
LEMMA ThreadsStep ==
  TypeOK /\ Exclusive /\ [Next]_vars => ThreadsOK' /\ Exclusive'
  <1> SUFFICES ASSUME FlagsOK, ThreadsOK, Exclusive, [Next]_vars
               PROVE  ThreadsOK' /\ Exclusive'
    BY DEF TypeOK
  <1> USE DEF FlagsOK, ThreadsOK, Exclusive, Server, clients, collecting,
              receiving
  <1>1. ASSUME NEW t \in Collector, Lock(t) PROVE ThreadsOK' /\ Exclusive'
    BY <1>1 DEF Lock
  <1>2. ASSUME NEW t \in Collector, Look(t) PROVE ThreadsOK' /\ Exclusive'
    <2>1. CASE gather_stop[at[t]]
      <3>1. /\ at' = [at EXCEPT ![t] = @ + 1] /\ looked' = looked
            /\ mutex' = mutex /\ round' = round
            /\ at[t] \in Server /\ ~looked[t]
        BY <1>2, <2>1 DEF Look
      <3>2. Exclusive'
        BY <3>1
      <3>3. at' \in [Collector -> 0 .. N + 1]
        BY <3>1
      <3> QED BY <1>2, <3>2, <3>3 DEF Look
    <2>2. CASE ~gather_stop[at[t]]
      <3>1. ThreadsOK'
        BY <1>2, <2>2 DEF Look
      <3>2. \A u \in Collector : looked'[u] => u = t \/ looked[u]
        BY <1>2, <2>2, Zenon DEF Look
      <3>3. at' = at /\ mutex' = mutex /\ round' = round /\ at[t] \in Server
        BY <1>2, <2>2 DEF Look
      <3> QED BY <3>1, <3>2, <3>3
    <2> QED BY <2>1, <2>2
  <1>3. ASSUME NEW t \in Collector, Put(t) PROVE ThreadsOK' /\ Exclusive'
    BY <1>3 DEF Put
  <1>4. ASSUME NEW t \in Collector, Unlock(t) PROVE ThreadsOK' /\ Exclusive'
    BY <1>4 DEF Unlock
  <1>5. CASE Poll
    BY <1>5 DEF Poll
  <1>6. CASE SendReply
    BY <1>6 DEF SendReply, mq_send
  <1>7. CASE WriteRegisters
    BY <1>7 DEF WriteRegisters
  <1>8. ASSUME NEW i \in Server, CheckError(i) PROVE ThreadsOK' /\ Exclusive'
    BY <1>8 DEF CheckError
  <1>9. ASSUME NEW i \in Server, Take(i) PROVE ThreadsOK' /\ Exclusive'
    BY <1>9 DEF Take
  <1>10. ASSUME NEW i \in Server, Forward(i) PROVE ThreadsOK' /\ Exclusive'
    BY <1>10 DEF Forward
  <1>11. ASSUME NEW i \in Server, Lose(i) PROVE ThreadsOK' /\ Exclusive'
    BY <1>11 DEF Lose
  <1>12. ASSUME NEW i \in Server, Regain(i) PROVE ThreadsOK' /\ Exclusive'
    BY <1>12 DEF Regain
  <1>13. ASSUME NEW i \in Server, Stop(i) PROVE ThreadsOK' /\ Exclusive'
    BY <1>13 DEF Stop
  <1>14. ASSUME NEW i \in Server, Start(i) PROVE ThreadsOK' /\ Exclusive'
    BY <1>14 DEF Start
  <1>15. CASE UNCHANGED vars
    BY <1>15 DEF vars
  <1> QED
    BY <1>1, <1>2, <1>3, <1>4, <1>5, <1>6, <1>7, <1>8, <1>9, <1>10,
       <1>11, <1>12, <1>13, <1>14, <1>15 DEF Next

(***************************************************************************)
(* Every step keeps the counts and the histories.                          *)
(***************************************************************************)
LEMMA CountsStep == TypeOK /\ Exclusive /\ [Next]_vars => CountsOK'
  <1> SUFFICES ASSUME ThreadsOK, CountsOK, Exclusive, [Next]_vars
               PROVE  CountsOK'
    BY DEF TypeOK
  <1> USE DEF CountsOK, clients, history
  <1>1. ASSUME NEW t \in Collector, Put(t) PROVE CountsOK'
    <2> DEFINE m == <<t, round[t]>>
               s == Append(sent[at[t]], m)
    <2>1. at[t] \in Server /\ round[t] \in 1 .. MaxRound
      <3>1. looked[t]
        BY <1>1 DEF Put
      <3>2. at[t] \in Server /\ round[t] # 0
        BY <3>1 DEF Exclusive, Server
      <3> QED BY <3>2 DEF ThreadsOK
    <2>2. s \in Seq(Packet)
      <3>1. m \in Packet
        BY <2>1 DEF Packet
      <3> QED BY <2>1, <3>1
    <2>3. sent' = [sent EXCEPT ![at[t]] = s]
      BY <1>1 DEF Put
    <2> HIDE DEF s
    <2>4. sent' \in [Server -> Seq(Packet)]
      BY <2>2, <2>3
    <2>5. extra' \in [Server -> Nat]
      <3>1. extra' = [extra EXCEPT ![at[t]] =
                        IF gather_stop[at[t]] THEN @ + 1 ELSE 0]
        BY <1>1, Zenon DEF Put
      <3>2. (IF gather_stop[at[t]] THEN extra[at[t]] + 1 ELSE 0) \in Nat
        BY <2>1
      <3> QED BY <3>1, <3>2
    <2>6. UNCHANGED <<back, forwards, drops>>
      BY <1>1, Zenon DEF Put
    <2> QED BY <2>4, <2>5, <2>6
  <1>2. ASSUME NEW t \in Collector, Lock(t) \/ Look(t) \/ Unlock(t)
       PROVE  CountsOK'
    BY <1>2 DEF Lock, Look, Unlock
  <1>3. CASE Poll
    <2>1. CASE back' = back
      BY <1>3, <2>1 DEF Poll
    <2>2. CASE back[poll] > 0 /\ back' = [back EXCEPT ![poll] = @ - 1]
      <3>1. poll \in Server
        BY DEF ThreadsOK
      <3>2. back[poll] - 1 \in 0 .. Cap
        BY <2>2, <3>1
      <3>3. back' \in [Server -> 0 .. Cap]
        BY <2>2, <3>1, <3>2
      <3> QED BY <1>3, <3>3 DEF Poll
    <2> QED BY <1>3, <2>1, <2>2 DEF Poll
  <1>4. CASE SendReply \/ WriteRegisters
    BY <1>4 DEF SendReply, WriteRegisters, mq_send
  <1>5. ASSUME NEW i \in Server, Forward(i) PROVE CountsOK'
    BY <1>5 DEF Forward
  <1>6. ASSUME NEW i \in Server, Lose(i) PROVE CountsOK'
    BY <1>6 DEF Lose
  <1>7. ASSUME NEW i \in Server, Stop(i) PROVE CountsOK'
    BY <1>7 DEF Stop
  <1>8. ASSUME NEW i \in Server,
              CheckError(i) \/ Take(i) \/ Regain(i) \/ Start(i)
       PROVE  CountsOK'
    BY <1>8 DEF CheckError, Take, Regain, Start
  <1>9. CASE UNCHANGED vars
    BY <1>9 DEF vars
  <1> QED
    BY <1>1, <1>2, <1>3, <1>4, <1>5, <1>6, <1>7, <1>8, <1>9
       DEF Next

(***************************************************************************)
(* Every step keeps the queues within their capacity.                      *)
(***************************************************************************)
LEMMA SendKeeps ==
  ASSUME QueueOK, NEW i \in Server, NEW m \in Packet \cup {Reply},
         mq_send(i, m)
  PROVE  QueueOK'
  <1> DEFINE q == Append(queue[i], m)
  <1>1. queue[i] \in Seq(Packet \cup {Reply})
    BY DEF QueueOK
  <1>2. q \in Seq(Packet \cup {Reply}) /\ Len(q) = Len(queue[i]) + 1
    BY <1>1
  <1>3. Len(q) <= Cap
    BY <1>1, <1>2 DEF mq_send
  <1>4. queue' = [queue EXCEPT ![i] = q]
    BY DEF mq_send
  <1> HIDE DEF q
  <1> QED BY <1>2, <1>3, <1>4 DEF QueueOK

LEMMA QueueStep == TypeOK /\ Exclusive /\ [Next]_vars => QueueOK'
  <1> SUFFICES ASSUME ThreadsOK, QueueOK, Exclusive, [Next]_vars
               PROVE  QueueOK'
    BY DEF TypeOK
  <1>1. ASSUME NEW t \in Collector, Put(t) PROVE QueueOK'
    <2>1. at[t] \in Server /\ <<t, round[t]>> \in Packet
      BY <1>1 DEF Put, Exclusive, ThreadsOK, Packet, Server
    <2>2. mq_send(at[t], <<t, round[t]>>)
      BY <1>1 DEF Put
    <2> QED BY <2>1, <2>2, SendKeeps
  <1>2. ASSUME NEW t \in Collector, Lock(t) \/ Look(t) \/ Unlock(t)
       PROVE  QueueOK'
    BY <1>2 DEF Lock, Look, Unlock, QueueOK
  <1>3. CASE SendReply
    <2>1. client \in Server /\ mq_send(client, Reply)
      BY <1>3 DEF SendReply, ThreadsOK, Server
    <2> QED BY <2>1, SendKeeps
  <1>4. CASE Poll \/ WriteRegisters
    BY <1>4 DEF Poll, WriteRegisters, QueueOK
  <1>5. ASSUME NEW i \in Server, Take(i) PROVE QueueOK'
    <2> DEFINE q == Tail(queue[i])
    <2>1. queue[i] \in Seq(Packet \cup {Reply}) /\ queue[i] # <<>>
      BY <1>5 DEF QueueOK, Take
    <2>2. q \in Seq(Packet \cup {Reply}) /\ Len(q) = Len(queue[i]) - 1
      BY <2>1, HeadTailProperties
    <2>3. Len(q) <= Cap
      BY <2>1, <2>2 DEF QueueOK
    <2>4. queue' = [queue EXCEPT ![i] = q]
      BY <1>5 DEF Take
    <2> HIDE DEF q
    <2> QED BY <2>2, <2>3, <2>4 DEF QueueOK
  <1>6. ASSUME NEW i \in Server,
              \/ CheckError(i) \/ Forward(i) \/ Lose(i)
              \/ Regain(i) \/ Stop(i) \/ Start(i)
       PROVE  QueueOK'
    BY <1>6 DEF CheckError, Forward, Lose, Regain, Stop, Start, QueueOK
  <1>7. CASE UNCHANGED vars
    BY <1>7 DEF vars, QueueOK
  <1> QED
    BY <1>1, <1>2, <1>3, <1>4, <1>5, <1>6, <1>7
       DEF Next

LEMMA TypeInit == Init => TypeOK /\ Exclusive
  <1> SUFFICES ASSUME Init PROVE TypeOK /\ Exclusive
    OBVIOUS
  <1> USE DEF Init
  <1>1. FlagsOK BY Zenon DEF FlagsOK
  <1>2. QueueOK BY DEF QueueOK
  <1>3. ThreadsOK BY DEF ThreadsOK, Server
  <1>4. CountsOK BY DEF CountsOK
  <1>5. Exclusive BY DEF Exclusive
  <1> QED BY <1>1, <1>2, <1>3, <1>4, <1>5 DEF TypeOK

LEMMA TypeStep ==
  TypeOK /\ Exclusive /\ [Next]_vars => TypeOK' /\ Exclusive'
  BY FlagsStep, ThreadsStep, CountsStep, QueueStep DEF TypeOK

(***************************************************************************)
(* Every variable has its type, and no queue exceeds its capacity.         *)
(***************************************************************************)
THEOREM TypeCorrect == Spec => []TypeOK
  <1>1. Spec => [](TypeOK /\ Exclusive)
    BY TypeInit, TypeStep, PTL DEF Spec
  <1> QED BY <1>1, PTL

-----------------------------------------------------------------------------
(***************************************************************************)
(* The clients, and gather's receiver, leave the collectors' variables     *)
(* alone; a stop or a start changes gather_stop, and restarts a count.     *)
(***************************************************************************)
LEMMA ReceiverAside ==
  Poll \/ SendReply \/ WriteRegisters \/ UNCHANGED vars
    => UNCHANGED <<mutex, at, looked, round, sent, extra, gather_stop>>
  <1> USE DEF clients, collecting, receiving, history
  <1>1. Poll => UNCHANGED <<mutex, at, looked, round, sent, extra, gather_stop>>
    BY Zenon DEF Poll
  <1>2. SendReply
          => UNCHANGED <<mutex, at, looked, round, sent, extra, gather_stop>>
    BY Zenon DEF SendReply
  <1>3. WriteRegisters
          => UNCHANGED <<mutex, at, looked, round, sent, extra, gather_stop>>
    BY Zenon DEF WriteRegisters
  <1>4. UNCHANGED vars
          => UNCHANGED <<mutex, at, looked, round, sent, extra, gather_stop>>
    BY Zenon DEF vars
  <1> QED BY <1>1, <1>2, <1>3, <1>4, Zenon

LEMMA ClientAside ==
  ASSUME NEW i \in Server
  PROVE  /\ CheckError(i) \/ Take(i) \/ Forward(i) \/ Lose(i) \/ Regain(i)
              => UNCHANGED <<mutex, at, looked, round, sent, extra, gather_stop>>
         /\ Stop(i) \/ Start(i)
              => UNCHANGED <<mutex, at, looked, round, sent>>
  <1> USE DEF clients, collecting, receiving, history
  <1>1. CheckError(i) \/ Take(i)
          => UNCHANGED <<mutex, at, looked, round, sent, extra, gather_stop>>
    BY Zenon DEF CheckError, Take
  <1>2. Forward(i) \/ Lose(i) \/ Regain(i)
          => UNCHANGED <<mutex, at, looked, round, sent, extra, gather_stop>>
    BY Zenon DEF Forward, Lose, Regain
  <1>3. Stop(i) \/ Start(i) => UNCHANGED <<mutex, at, looked, round, sent>>
    BY Zenon DEF Stop, Start
  <1> QED BY <1>1, <1>2, <1>3, Zenon

(***************************************************************************)
(* A stop takes effect.                                                    *)
(***************************************************************************)
LEMMA StopStep ==
  TypeOK /\ Exclusive /\ FirstSinceStop /\ StopTakesEffect /\ [Next]_vars
    => FirstSinceStop' /\ StopTakesEffect'
  <1> DEFINE Goal == FirstSinceStop' /\ StopTakesEffect'
  <1> SUFFICES ASSUME FlagsOK, ThreadsOK, CountsOK, Exclusive, FirstSinceStop,
                      StopTakesEffect, [Next]_vars
               PROVE  Goal
    BY DEF TypeOK
  <1> USE DEF FlagsOK, ThreadsOK, CountsOK, Exclusive, FirstSinceStop,
              StopTakesEffect, Server, clients, collecting, receiving,
              history
  <1>1. ASSUME NEW t \in Collector, Lock(t) PROVE Goal
    <2>1. /\ at[t] = 0 /\ at' = [at EXCEPT ![t] = 1]
          /\ UNCHANGED <<looked, extra, gather_stop>>
      BY <1>1, Zenon DEF Lock
    <2>2. ~looked[t]
      BY <2>1
    <2>3. \A u \in Collector : looked[u] => at'[u] = at[u]
      BY <2>1, <2>2
    <2> QED BY <2>1, <2>3
  <1>2. ASSUME NEW t \in Collector, Look(t) PROVE Goal
    <2>1. UNCHANGED <<extra, gather_stop>> /\ ~looked[t]
      BY <1>2, Zenon DEF Look
    <2>2. \A u \in Collector : u # t =>
            looked'[u] = looked[u] /\ at'[u] = at[u]
      BY <1>2, Zenon DEF Look
    <2>3. ASSUME NEW u \in Collector, looked'[u], gather_stop[at'[u]]
          PROVE  looked[u] /\ at'[u] = at[u]
      <3>1. CASE gather_stop[at[t]]
        <4>1. looked' = looked
          BY <1>2, <3>1, Zenon DEF Look
        <4> QED BY <2>1, <2>2, <2>3, <4>1, Zenon
      <3>2. CASE ~gather_stop[at[t]]
        <4>1. at' = at
          BY <1>2, <3>2, Zenon DEF Look
        <4>2. u # t
          BY <2>3, <3>2, <4>1, Zenon
        <4> QED BY <2>2, <2>3, <4>2, Zenon
      <3> QED BY <3>1, <3>2, Zenon
    <2>4. StopTakesEffect'
      BY <2>1, Zenon
    <2>5. ASSUME NEW u \in Collector, NEW i \in Server,
                 looked'[u], at'[u] = i, gather_stop'[i]
          PROVE  extra'[i] = 0
      BY <2>1, <2>3, <2>5, Zenon
    <2> QED BY <2>4, <2>5, Zenon
  <1>3. ASSUME NEW t \in Collector, Put(t) PROVE Goal
    <2>1. at[t] \in Server /\ looked[t] /\ gather_stop' = gather_stop
      BY <1>3 DEF Put
    <2>2. gather_stop[at[t]] => extra'[at[t]] = 1
      <3>1. extra' = [extra EXCEPT ![at[t]] =
                        IF gather_stop[at[t]] THEN @ + 1 ELSE 0]
        BY <1>3, Zenon DEF Put
      <3>2. gather_stop[at[t]] => extra[at[t]] = 0
        BY <2>1
      <3> QED BY <2>1, <3>1, <3>2
    <2>3. \A j \in Server : j # at[t] => extra'[j] = extra[j]
      BY <1>3, <2>1 DEF Put
    <2>4. \A u \in Collector : ~looked'[u]
      <3>1. ~looked'[t]
        BY <1>3, Zenon DEF Put
      <3>2. \A u \in Collector : u # t => (looked'[u] => looked[u])
        BY <1>3, Zenon DEF Put
      <3>3. mutex = t
        BY <2>1
      <3>4. \A u \in Collector : u # t => ~looked[u]
        BY <3>3
      <3> QED BY <3>1, <3>2, <3>4
    <2>5. StopTakesEffect'
      <3>1. \A j \in Server : gather_stop'[j] => gather_stop[j]
        BY <2>1
      <3>2. \A j \in Server : gather_stop[j] => extra'[j] <= 1
        <4> SUFFICES ASSUME NEW j \in Server, gather_stop[j]
                     PROVE  extra'[j] <= 1
          OBVIOUS
        <4>1. extra[j] <= 1
          BY Zenon
        <4>2. ASSUME j = at[t] PROVE extra'[j] <= 1
          <5>1. gather_stop[at[t]]
            BY <4>2
          <5>2. extra'[at[t]] = 1
            BY <2>2, <5>1, Zenon
          <5> QED BY <4>2, <5>2
        <4>3. ASSUME j # at[t] PROVE extra'[j] <= 1
          BY <2>3, <4>1, <4>3
        <4> QED BY <4>2, <4>3, Zenon
      <3> QED BY <3>1, <3>2
    <2> QED BY <2>4, <2>5
  <1>4. ASSUME NEW t \in Collector, Unlock(t) PROVE Goal
    BY <1>4 DEF Unlock
  <1>5. UNCHANGED <<mutex, at, looked, round, sent, extra, gather_stop>>
          => Goal
    OBVIOUS
  <1>6. CASE Poll \/ SendReply \/ WriteRegisters \/ UNCHANGED vars
    BY <1>5, <1>6, ReceiverAside, Zenon
  <1>7. ASSUME NEW i \in Server,
               CheckError(i) \/ Take(i) \/ Forward(i) \/ Lose(i) \/ Regain(i)
        PROVE  Goal
    BY <1>5, <1>7, ClientAside, Zenon
  <1>8. ASSUME NEW i \in Server, Stop(i) PROVE Goal
    <2>1. extra'[i] = 0 /\ at' = at /\ looked' = looked
      BY <1>8 DEF Stop
    <2>2. \A j \in Server : j # i =>
            (gather_stop'[j] => gather_stop[j]) /\ extra'[j] = extra[j]
      BY <1>8, Zenon DEF Stop
    <2>3. FirstSinceStop'
      BY <2>1, <2>2
    <2>4. StopTakesEffect'
      <3> SUFFICES ASSUME NEW j \in Server, gather_stop'[j]
                   PROVE  extra'[j] <= 1
        OBVIOUS
      <3>1. j # i => extra[j] <= 1 /\ extra'[j] = extra[j]
        BY <2>2, Zenon
      <3> HIDE DEF FirstSinceStop, StopTakesEffect
      <3> QED BY <2>1, <3>1
    <2> QED BY <2>3, <2>4
  <1>9. ASSUME NEW i \in Server, Start(i) PROVE Goal
    BY <1>9 DEF Start
  <1> HIDE DEF Goal
  <1> QED
    BY <1>1, <1>2, <1>3, <1>4, <1>6, <1>7, <1>8, <1>9, Zenon DEF Next

(***************************************************************************)
(* After gather has handled a stop, at most one more collected packet goes *)
(* onto that queue, for any number of servers and collectors.              *)
(***************************************************************************)
THEOREM StopsInTime == Spec => []StopTakesEffect
  <1>1. Init => FirstSinceStop /\ StopTakesEffect
    BY DEF Init, FirstSinceStop, StopTakesEffect
  <1>2. Spec => [](TypeOK /\ Exclusive /\ FirstSinceStop /\ StopTakesEffect)
    BY <1>1, TypeInit, TypeStep, StopStep, PTL DEF Spec
  <1> QED BY <1>2, PTL

-----------------------------------------------------------------------------
(***************************************************************************)
(* The packets reach all queues in one order.                              *)
(***************************************************************************)
LEMMA RoundsStep ==
  TypeOK /\ Exclusive /\ RoundsBegun /\ [Next]_vars => RoundsBegun'
  <1> SUFFICES ASSUME ThreadsOK, CountsOK, Exclusive, RoundsBegun, [Next]_vars
               PROVE  RoundsBegun'
    BY DEF TypeOK
  <1> USE DEF RoundsBegun, ThreadsOK, clients, collecting, receiving, history
  <1>1. ASSUME NEW t \in Collector, Lock(t) PROVE RoundsBegun'
    BY <1>1 DEF Lock
  <1>2. ASSUME NEW t \in Collector, Look(t) PROVE RoundsBegun'
    BY <1>2 DEF Look
  <1>3. ASSUME NEW t \in Collector, Put(t) PROVE RoundsBegun'
    <2> DEFINE m == <<t, round[t]>>
               s == Append(sent[at[t]], m)
    <2>1. at[t] \in Server /\ sent[at[t]] \in Seq(Packet)
      BY <1>3 DEF Put, Exclusive, CountsOK
    <2>2. /\ DOMAIN s = 1 .. Len(sent[at[t]]) + 1
          /\ s[Len(sent[at[t]]) + 1] = m
          /\ \A a \in DOMAIN sent[at[t]] : s[a] = sent[at[t]][a]
      BY <2>1
    <2>3. sent' = [sent EXCEPT ![at[t]] = s] /\ round' = round
      BY <1>3 DEF Put
    <2> HIDE DEF s
    <2> SUFFICES ASSUME NEW i \in Server, NEW a \in DOMAIN sent'[i],
                        NEW u \in Collector, NEW r \in Nat,
                        sent'[i][a] = <<u, r>>
                 PROVE  r <= round'[u]
      OBVIOUS
    <2>4. CASE i # at[t]
      BY <2>3, <2>4 DEF CountsOK
    <2>5. CASE i = at[t]
      <3>1. sent'[i] = s
        BY <2>1, <2>3, <2>5 DEF CountsOK
      <3>2. a \in DOMAIN sent[i] \/ a = Len(sent[i]) + 1
        BY <2>1, <2>2, <2>5, <3>1
      <3>3. CASE a \in DOMAIN sent[i]
        BY <2>2, <2>3, <2>5, <3>1, <3>3
      <3>4. CASE a = Len(sent[i]) + 1
        BY <2>2, <2>3, <2>5, <3>1, <3>4
      <3> QED BY <3>2, <3>3, <3>4
    <2> QED BY <2>4, <2>5
  <1>4. ASSUME NEW t \in Collector, Unlock(t) PROVE RoundsBegun'
    BY <1>4 DEF Unlock
  <1>5. UNCHANGED <<mutex, at, looked, round, sent>> => RoundsBegun'
    OBVIOUS
  <1>6. CASE Poll \/ SendReply \/ WriteRegisters \/ UNCHANGED vars
    BY <1>5, <1>6, ReceiverAside, Zenon
  <1>7. ASSUME NEW i \in Server,
              \/ CheckError(i) \/ Take(i) \/ Forward(i) \/ Lose(i)
              \/ Regain(i) \/ Stop(i) \/ Start(i)
       PROVE  RoundsBegun'
    BY <1>5, <1>7, ClientAside, Zenon
  <1> QED
    BY <1>1, <1>2, <1>3, <1>4, <1>6, <1>7, Zenon DEF Next

LEMMA CurrentStep ==
  TypeOK /\ Exclusive /\ RoundsBegun /\ CurrentIsLast /\ [Next]_vars
    => CurrentIsLast'
  <1> SUFFICES ASSUME ThreadsOK, CountsOK, Exclusive, RoundsBegun,
                      CurrentIsLast, [Next]_vars
               PROVE  CurrentIsLast'
    BY DEF TypeOK
  <1> USE DEF CurrentIsLast, Current, Exclusive, clients, collecting,
              receiving, history
  <1>1. ASSUME NEW t \in Collector, Lock(t) PROVE CurrentIsLast'
    <2>1. /\ sent' = sent /\ at[t] = 0
          /\ at' = [at EXCEPT ![t] = 1] /\ round' = [round EXCEPT ![t] = @ + 1]
          /\ \A u \in Collector : at[u] = 0
      BY <1>1 DEF Lock
    <2>2. \A i \in Server : \A a \in DOMAIN sent[i] :
            sent[i][a] # <<t, round[t] + 1>>
      BY DEF RoundsBegun, ThreadsOK
    <2>3. \A u \in Collector : at'[u] # 0 => u = t
      BY <2>1 DEF ThreadsOK
    <2>4. round'[t] = round[t] + 1
      BY <2>1 DEF ThreadsOK
    <2> QED BY <2>1, <2>2, <2>3, <2>4
  <1>2. ASSUME NEW t \in Collector, Look(t) PROVE CurrentIsLast'
    <2>1. /\ sent' = sent /\ round' = round /\ at[t] \in Server
          /\ at' = at \/ at' = [at EXCEPT ![t] = @ + 1]
      BY <1>2 DEF Look
    <2>2. \A u \in Collector : at'[u] # 0 => at[u] # 0 /\ at[u] <= at'[u]
      BY <2>1 DEF ThreadsOK, Server
    <2>3. \A u \in Collector : at[u] \in Int /\ at'[u] \in Int
      BY <2>1 DEF ThreadsOK
    <2> QED BY <2>1, <2>2, <2>3 DEF Server
  <1>3. ASSUME NEW t \in Collector, Put(t) PROVE CurrentIsLast'
    <2> DEFINE m == <<t, round[t]>>
               s == Append(sent[at[t]], m)
    <2>1. at[t] \in Server /\ sent[at[t]] \in Seq(Packet)
      BY <1>3 DEF Put, CountsOK
    <2>2. /\ DOMAIN s = 1 .. Len(sent[at[t]]) + 1
          /\ Len(s) = Len(sent[at[t]]) + 1
          /\ \A a \in DOMAIN sent[at[t]] : s[a] = sent[at[t]][a]
          /\ DOMAIN sent[at[t]] = 1 .. Len(sent[at[t]])
      BY <2>1
    <2>3. /\ sent' = [sent EXCEPT ![at[t]] = s] /\ round' = round
          /\ at' = [at EXCEPT ![t] = @ + 1]
      BY <1>3 DEF Put
    <2> HIDE DEF s
    <2>4. \A u \in Collector : at'[u] # 0 => u = t
      BY <2>1, <2>3 DEF ThreadsOK, Server
    <2>5. at'[t] = at[t] + 1 /\ at[t] \in Nat /\ at[t] # 0
      BY <2>1, <2>3 DEF ThreadsOK, Server
    <2> SUFFICES ASSUME NEW i \in Server, NEW a \in DOMAIN sent'[i],
                        sent'[i][a] = m
                 PROVE  a = Len(sent'[i]) /\ i < at[t] + 1
      BY <2>3, <2>4, <2>5
    <2>6. CASE i # at[t]
      <3>1. sent'[i] = sent[i]
        BY <2>3, <2>6 DEF CountsOK
      <3>2. a = Len(sent[i]) /\ i < at[t]
        BY <2>5, <3>1
      <3> QED BY <2>5, <3>1, <3>2 DEF Server
    <2>7. CASE i = at[t]
      <3>1. sent'[i] = s
        BY <2>1, <2>3, <2>7 DEF CountsOK
      <3>2. a \notin DOMAIN sent[i]
        BY <2>2, <2>5, <2>7, <3>1
      <3> QED BY <2>1, <2>2, <2>5, <2>7, <3>1, <3>2
    <2> QED BY <2>6, <2>7
  <1>4. ASSUME NEW t \in Collector, Unlock(t) PROVE CurrentIsLast'
    BY <1>4 DEF Unlock
  <1>5. UNCHANGED <<mutex, at, looked, round, sent>> => CurrentIsLast'
    OBVIOUS
  <1>6. CASE Poll \/ SendReply \/ WriteRegisters \/ UNCHANGED vars
    BY <1>5, <1>6, ReceiverAside, Zenon
  <1>7. ASSUME NEW i \in Server,
              \/ CheckError(i) \/ Take(i) \/ Forward(i) \/ Lose(i)
              \/ Regain(i) \/ Stop(i) \/ Start(i)
       PROVE  CurrentIsLast'
    BY <1>5, <1>7, ClientAside, Zenon
  <1> QED
    BY <1>1, <1>2, <1>3, <1>4, <1>6, <1>7, Zenon DEF Next

LEMMA OrderStep ==
  TypeOK /\ Exclusive /\ CurrentIsLast /\ SameOrder /\ [Next]_vars
    => SameOrder'
  <1> SUFFICES ASSUME ThreadsOK, CountsOK, Exclusive, CurrentIsLast, SameOrder,
                      [Next]_vars
               PROVE  SameOrder'
    BY DEF TypeOK
  <1>0. ASSUME sent' = sent PROVE SameOrder'
    BY <1>0 DEF SameOrder
  <1> USE DEF history
  <1>1. ASSUME NEW t \in Collector, Put(t) PROVE SameOrder'
    <2> DEFINE m == <<t, round[t]>>
               s == Append(sent[at[t]], m)
               p == at[t]
    <2>1. p \in Server /\ p # 0 /\ sent[p] \in Seq(Packet)
      <3>1. looked[t]
        BY <1>1, Zenon DEF Put
      <3>2. p \in Server
        BY <3>1 DEF Exclusive
      <3> QED BY <3>2 DEF CountsOK, Server
    <2>2. /\ DOMAIN s = 1 .. Len(sent[p]) + 1
          /\ s[Len(sent[p]) + 1] = m
          /\ \A x \in DOMAIN sent[p] : s[x] = sent[p][x]
      BY <2>1
    <2>3. \A i \in Server : sent[i] \in Seq(Packet)
      BY DEF CountsOK
    <2>4. \A i \in Server : sent'[i] = IF i = p THEN s ELSE sent[i]
      BY <1>1 DEF Put, CountsOK
    <2>5. \A i \in Server : \A x \in DOMAIN sent[i] :
            sent[i][x] = m => x = Len(sent[i]) /\ i # p
      BY <2>1 DEF CurrentIsLast, Current, Server
    <2> HIDE DEF s, m, p
    <2>6. \A i \in Server : \A x \in DOMAIN sent'[i] :
            \/ x \in DOMAIN sent[i] /\ sent'[i][x] = sent[i][x]
            \/ i = p /\ x = Len(sent[i]) + 1 /\ sent'[i][x] = m
      BY <2>1, <2>2, <2>4
    <2> SUFFICES ASSUME NEW i \in Server, NEW j \in Server,
                        NEW a \in DOMAIN sent'[i], NEW b \in DOMAIN sent'[i],
                        NEW c \in DOMAIN sent'[j], NEW d \in DOMAIN sent'[j],
                        a < b, sent'[i][a] = sent'[j][c],
                        sent'[i][b] = sent'[j][d]
                 PROVE  c < d
      BY DEF SameOrder
    <2>7. /\ DOMAIN sent[i] = 1 .. Len(sent[i]) /\ Len(sent[i]) \in Nat
          /\ DOMAIN sent[j] = 1 .. Len(sent[j]) /\ Len(sent[j]) \in Nat
      BY <2>3
    <2>8. a \in DOMAIN sent[i] /\ sent'[i][a] = sent[i][a] /\ sent[i][a] # m
      <3>1. b <= Len(sent[i]) + 1
        BY <2>6, <2>7
      <3>2. a \in DOMAIN sent[i] /\ sent'[i][a] = sent[i][a]
        BY <2>6, <2>7, <3>1
      <3>3. CASE i = p
        BY <2>5, <3>2, <3>3
      <3>4. CASE i # p
        <4>1. b \in DOMAIN sent[i]
          BY <2>6, <3>4
        <4> QED BY <2>5, <2>7, <3>2, <4>1
      <3> QED BY <3>2, <3>3, <3>4
    <2>9. c \in DOMAIN sent[j] /\ sent'[j][c] = sent[j][c]
      BY <2>6, <2>8
    <2>10. CASE d \in DOMAIN sent[j] /\ sent'[j][d] = sent[j][d]
      <3>1. CASE b \in DOMAIN sent[i] /\ sent'[i][b] = sent[i][b]
        <4>1. sent[i][a] = sent[j][c] /\ sent[i][b] = sent[j][d]
          BY <2>8, <2>9, <2>10, <3>1
        <4>2. /\ a \in DOMAIN sent[i] /\ b \in DOMAIN sent[i]
              /\ c \in DOMAIN sent[j] /\ d \in DOMAIN sent[j]
          BY <2>8, <2>9, <2>10, <3>1
        <4>3. (a < b /\ sent[i][a] = sent[j][c] /\ sent[i][b] = sent[j][d])
                => c < d
          BY <4>2, Zenon DEF SameOrder
        <4> QED BY <4>1, <4>3
      <3>2. CASE i = p /\ sent'[i][b] = m     \* m is last in sent[j]
        <4>1. d = Len(sent[j])
          BY <2>5, <2>10, <3>2
        <4>2. c # d
          BY <2>8, <2>9, <2>10, <3>2
        <4> QED BY <2>7, <2>9, <4>1, <4>2
      <3> QED BY <2>6, <3>1, <3>2
    <2>11. CASE d = Len(sent[j]) + 1
      BY <2>7, <2>9, <2>11
    <2> QED BY <2>6, <2>10, <2>11
  <1>2. ASSUME NEW t \in Collector, Lock(t) \/ Look(t) \/ Unlock(t)
       PROVE  SameOrder'
    BY <1>0, <1>2 DEF Lock, Look, Unlock
  <1>3. CASE Poll \/ SendReply \/ WriteRegisters
    BY <1>0, <1>3 DEF Poll, SendReply, WriteRegisters
  <1>4. ASSUME NEW i \in Server,
              \/ CheckError(i) \/ Take(i) \/ Forward(i) \/ Lose(i)
              \/ Regain(i) \/ Stop(i) \/ Start(i)
       PROVE  SameOrder'
    BY <1>0, <1>4 DEF CheckError, Take, Forward, Lose, Regain, Stop, Start
  <1>5. CASE UNCHANGED vars
    BY <1>0, <1>5 DEF vars
  <1> QED
    BY <1>1, <1>2, <1>3, <1>4, <1>5
       DEF Next

(***************************************************************************)
(* All servers are offered the collected packets in one order, for any     *)
(* number of servers, collectors and packets.                              *)
(***************************************************************************)
THEOREM Ordered == Spec => []SameOrder
  <1>1. Init => RoundsBegun /\ CurrentIsLast /\ SameOrder
    BY DEF Init, RoundsBegun, CurrentIsLast, SameOrder
  <1>2. Spec => [](TypeOK /\ Exclusive /\ RoundsBegun /\ CurrentIsLast
                     /\ SameOrder)
    BY <1>1, TypeInit, TypeStep, RoundsStep, CurrentStep, OrderStep, PTL
       DEF Spec
  <1> QED BY <1>2, PTL
-----------------------------------------------------------------------------
(***************************************************************************)
(* Every step is one of FanoutPromise, or changes nothing that it          *)
(* mentions.  Begin with what does not belong to a round.                  *)
(***************************************************************************)
LEMMA QuietPromise ==
  ASSUME UNCHANGED <<mutex, at, round, sent, extra, gather_stop>>
  PROVE  UNCHANGED Promise!vars
  BY Zenon DEF Promise!vars, Promise!round, Promise!stops

LEMMA SignalPromise ==
  ASSUME FlagsOK, CountsOK, NEW i \in Server, Stop(i) \/ Start(i)
  PROVE  Promise!Next
  <1> DEFINE stopped == {j \in Server : gather_stop[j]}
             spare   == {j \in Server : gather_stop[j] /\ extra[j] = 0}
  <1>1. UNCHANGED <<mutex, at, round, sent>>
    BY Zenon DEF Stop, Start, collecting, history
  <1>2. CASE Stop(i)
    <2>1. /\ \A j \in Server : gather_stop'[j] <=> (gather_stop[j] \/ j = i)
          /\ extra'[i] = 0
          /\ \A j \in Server : j # i => extra'[j] = extra[j]
      BY <1>2 DEF Stop, FlagsOK, CountsOK
    <2>2. stopped' = stopped \cup {i} /\ spare' = spare \cup {i}
      BY <2>1
    <2>3. Promise!Stop(i)
      BY <1>1, <2>2, Zenon DEF Promise!Stop, Promise!round
    <2> QED BY <2>3, Zenon DEF Promise!Next
  <1>3. CASE Start(i)
    <2>1. /\ \A j \in Server : gather_stop'[j] <=> (gather_stop[j] /\ j # i)
          /\ extra' = extra
      BY <1>3 DEF Start, FlagsOK, history
    <2>2. stopped' = stopped \ {i} /\ spare' = spare \ {i}
      BY <2>1
    <2>3. Promise!Start(i)
      BY <1>1, <2>2, Zenon DEF Promise!Start, Promise!round
    <2> QED BY <2>3, Zenon DEF Promise!Next
  <1> QED BY <1>2, <1>3

(***************************************************************************)
(* A collector with `mutex' begins the round of its packet, comes to one   *)
(* server at a time, and ends the round when it has come to all.           *)
(***************************************************************************)
LEMMA RoundPromise ==
  ASSUME TypeOK, Exclusive, FirstSinceStop, RoundsBegun, NEW t \in Collector,
         Lock(t) \/ Look(t) \/ Put(t) \/ Unlock(t)
  PROVE  [Promise!Next]_Promise!vars
  <1> DEFINE current == IF mutex = None THEN {} ELSE {<<mutex, round[mutex]>>}
             due     == IF mutex = None THEN {} ELSE at[mutex] .. N
             stopped == {i \in Server : gather_stop[i]}
             spare   == {i \in Server : gather_stop[i] /\ extra[i] = 0}
             p       == <<t, round[t]>>
             i       == at[t]
  <1>0. FlagsOK /\ ThreadsOK /\ CountsOK
    BY DEF TypeOK
  <1>t. t # None
    OBVIOUS
  <1>1. CASE Lock(t)
    <2>1. /\ mutex = None /\ mutex' = t
          /\ round' = [round EXCEPT ![t] = @ + 1] /\ at' = [at EXCEPT ![t] = 1]
          /\ UNCHANGED <<sent, extra, gather_stop>>
          /\ round[t] < MaxRound
      BY <1>1, Zenon DEF Lock, history
    <2> DEFINE q == <<t, round[t] + 1>>
    <2>2. round'[t] = round[t] + 1 /\ at'[t] = 1 /\ q \in Packet
      BY <2>1, <1>0 DEF ThreadsOK, Packet
    <2>3. current = {} /\ current' = {q} /\ due' = Server
      BY <2>1, <2>2, <1>t DEF Server
    <2>4. \A j \in Server : \A a \in DOMAIN sent[j] : sent[j][a] # q
      <3>1. ~(round[t] + 1 <= round[t]) /\ round[t] + 1 \in Nat
        BY <1>0 DEF ThreadsOK
      <3> QED BY <3>1, Zenon DEF RoundsBegun
    <2>5. UNCHANGED <<stopped, spare>>
      BY <2>1, Zenon
    <2> HIDE DEF q
    <2>6. Promise!Begin(q)
      BY <2>1, <2>3, <2>4, <2>5, Zenon DEF Promise!Begin, Promise!stops
    <2> QED BY <2>2, <2>6, Zenon DEF Promise!Next
  <1>2. CASE Look(t) /\ ~gather_stop[i]
    <2>1. UNCHANGED <<mutex, at, round, sent, extra, gather_stop>>
      BY <1>2, Zenon DEF Look, history
    <2> QED BY <2>1, QuietPromise, Zenon
  <1>3. CASE Look(t) /\ gather_stop[i]
    <2>1. /\ at' = [at EXCEPT ![t] = @ + 1] /\ i \in Server
          /\ UNCHANGED <<mutex, round, sent, extra, gather_stop>>
      BY <1>3, Zenon DEF Look, history
    <2>2. mutex = t /\ i \in Nat /\ i # 0 /\ i <= N /\ at'[t] = i + 1
      BY <2>1, <1>0 DEF Exclusive, Server, ThreadsOK
    <2>3. i \in due /\ due' = due \ {i} /\ i \in stopped
      BY <2>1, <2>2, <1>t, <1>3
    <2>4. UNCHANGED <<current, stopped, spare>>
      BY <2>1, Zenon
    <2>5. Promise!PassOver(i)
      BY <2>1, <2>3, <2>4, Zenon DEF Promise!PassOver, Promise!stops
    <2> QED BY <2>1, <2>5, Zenon DEF Promise!Next
  <1>4. CASE Put(t)
    <2>1. /\ sent' = [sent EXCEPT ![i] = Append(@, p)]
          /\ extra' = [extra EXCEPT ![i] = IF gather_stop[i] THEN @ + 1 ELSE 0]
          /\ at' = [at EXCEPT ![t] = @ + 1] /\ looked[t]
          /\ UNCHANGED <<mutex, round, gather_stop>>
      BY <1>4, Zenon DEF Put
    <2>2. /\ mutex = t /\ i \in Server /\ i \in Nat /\ i # 0 /\ i <= N
          /\ at'[t] = i + 1 /\ round[t] \in 1 .. MaxRound
      BY <2>1, <1>0 DEF Exclusive, Server, ThreadsOK
    <2>3. p \in current /\ UNCHANGED current /\ p \in Packet
      BY <2>1, <2>2, <1>t DEF Packet
    <2>4. i \in due /\ due' = due \ {i}
      BY <2>1, <2>2, <1>t
    <2>5. i \in stopped => i \in spare
      BY <2>1, <2>2 DEF FirstSinceStop
    <2>6. stopped' = stopped
      BY <2>1, Zenon
    <2>7. spare' = spare \ {i}
      <3>1. gather_stop[i] => extra'[i] # 0
        BY <2>1, <2>2, <1>0 DEF CountsOK
      <3>2. \A j \in Server : j # i => extra'[j] = extra[j]
        BY <2>1, <2>2, <1>0 DEF CountsOK
      <3> QED BY <3>1, <3>2, <2>1
    <2>8. \A q \in Packet : q = p => Promise!Offer(i, q)
      BY <2>1, <2>3, <2>4, <2>5, <2>6, <2>7, Zenon DEF Promise!Offer
    <2>9. \E q \in Packet : Promise!Offer(i, q)
      BY <2>3, <2>8, Zenon
    <2> QED BY <2>2, <2>9, Zenon DEF Promise!Next
  <1>5. CASE Unlock(t)
    <2>1. /\ at[t] = N + 1 /\ mutex' = None
          /\ UNCHANGED <<round, sent, extra, gather_stop>>
      BY <1>5, Zenon DEF Unlock, history
    <2>2. mutex = t
      BY <2>1 DEF Exclusive
    <2>3. due = {} /\ due' = {} /\ current' = {}
      BY <2>1, <2>2
    <2>4. UNCHANGED <<stopped, spare>>
      BY <2>1, Zenon
    <2>5. Promise!End
      BY <2>1, <2>3, <2>4, Zenon DEF Promise!End, Promise!stops
    <2> QED BY <2>5, Zenon DEF Promise!Next
  <1> QED BY <1>1, <1>2, <1>3, <1>4, <1>5, Zenon

LEMMA PromiseStep ==
  ASSUME TypeOK, Exclusive, FirstSinceStop, RoundsBegun, [Next]_vars
  PROVE  [Promise!Next]_Promise!vars
  <1>0. FlagsOK /\ CountsOK
    BY DEF TypeOK
  <1>1. ASSUME NEW t \in Collector, Lock(t) \/ Look(t) \/ Put(t) \/ Unlock(t)
        PROVE  [Promise!Next]_Promise!vars
    BY <1>1, RoundPromise, Zenon
  <1>2. CASE Poll \/ SendReply \/ WriteRegisters \/ UNCHANGED vars
    BY <1>2, ReceiverAside, QuietPromise, Zenon
  <1>3. ASSUME NEW i \in Server,
               CheckError(i) \/ Take(i) \/ Forward(i) \/ Lose(i) \/ Regain(i)
        PROVE  [Promise!Next]_Promise!vars
    BY <1>3, ClientAside, QuietPromise, Zenon
  <1>4. ASSUME NEW i \in Server, Stop(i) \/ Start(i)
        PROVE  [Promise!Next]_Promise!vars
    BY <1>0, <1>4, SignalPromise, Zenon
  <1> QED BY <1>1, <1>2, <1>3, <1>4, Zenon DEF Next

(***************************************************************************)
(* GatherFanout implements FanoutPromise.                                  *)
(***************************************************************************)
THEOREM Implements == Spec => KeepsPromise
  <1>1. Init => Promise!Init
    <2> SUFFICES ASSUME Init PROVE Promise!Init
      OBVIOUS
    <2>1. /\ mutex = None /\ sent = [i \in Server |-> <<>>]
          /\ \A i \in Server : ~gather_stop[i]
      BY DEF Init
    <2>2. {i \in Server : gather_stop[i]} = {}
          /\ {i \in Server : gather_stop[i] /\ extra[i] = 0} = {}
      BY <2>1, Zenon
    <2> QED BY <2>1, <2>2, Zenon DEF Promise!Init
  <1>2. Init => FirstSinceStop /\ StopTakesEffect /\ RoundsBegun
    BY DEF Init, FirstSinceStop, StopTakesEffect, RoundsBegun
  <1>3. Spec => [](TypeOK /\ Exclusive /\ FirstSinceStop /\ RoundsBegun)
    BY <1>2, TypeInit, TypeStep, StopStep, RoundsStep, PTL DEF Spec
  <1>4. TypeOK /\ Exclusive /\ FirstSinceStop /\ RoundsBegun /\ [Next]_vars
          => [Promise!Next]_Promise!vars
    BY PromiseStep, Zenon
  <1> QED BY <1>1, <1>3, <1>4, PTL DEF Spec, KeepsPromise, Promise!Spec
=============================================================================
