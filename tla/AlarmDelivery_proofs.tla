------------------------ MODULE AlarmDelivery_proofs ------------------------
(***************************************************************************)
(* Proofs about AlarmDelivery, for any number of servers and quantities,   *)
(* any capacity of the queues and any bounds.                              *)
(***************************************************************************)
EXTENDS AlarmDelivery, TLAPS

USE SizeAssumption, BoundAssumption

(***************************************************************************)
(* The initial state has its types.                                        *)
(***************************************************************************)
LEMMA TypeInit == Init => TypeOK
  <1> SUFFICES ASSUME Init PROVE TypeOK
    OBVIOUS
  <1> USE DEF Init, FreshGather, FreshClients
  <1>1. FlagsOK BY Zenon DEF FlagsOK
  <1>2. CountersOK BY DEF CountersOK, Server
  <1>3. TableOK BY DEF TableOK
  <1>4. RowsOK BY DEF RowsOK
  <1>5. QueueOK BY DEF QueueOK
  <1> QED BY <1>1, <1>2, <1>3, <1>4, <1>5 DEF TypeOK

(***************************************************************************)
(* Every step keeps the truth values.                                      *)
(***************************************************************************)
LEMMA FlagsStep == FlagsOK /\ [Next]_vars => FlagsOK'
  <1> SUFFICES ASSUME FlagsOK, [Next]_vars PROVE FlagsOK'
    OBVIOUS
  <1> USE DEF FlagsOK, recvalarm, sendalarm, clients
  <1>1. ASSUME NEW p \in Polid, Toggle(p) PROVE FlagsOK'
    <2>1. (~bit[p]) \in BOOLEAN BY Zenon
    <2> QED BY <1>1, <2>1, Zenon DEF Toggle
  <1>2. ASSUME NEW p \in Polid, Raise(p) PROVE FlagsOK'
    BY <1>2, Zenon DEF Raise
  <1>3. ASSUME NEW p \in Polid, Cancel(p) PROVE FlagsOK'
    BY <1>3, Zenon DEF Cancel
  <1>4. ASSUME NEW p \in Polid, SendCancel(p) PROVE FlagsOK'
    BY <1>4, Zenon DEF SendCancel
  <1>5. ASSUME NEW r \in batch, SendRow(r) PROVE FlagsOK'
    BY <1>5, Zenon DEF SendRow
  <1>6. CASE NextServer
    <2>1. (started \/ at = N) \in BOOLEAN BY Zenon
    <2> QED BY <1>6, <2>1, Zenon DEF NextServer
  <1>7. ASSUME NEW i \in Server, Deliver(i) PROVE FlagsOK'
    BY <1>7, Zenon DEF Deliver
  <1>8. ASSUME NEW i \in Server, Lose(i) PROVE FlagsOK'
    BY <1>8, Zenon DEF Lose
  <1>9. ASSUME NEW i \in Server, Forget(i) PROVE FlagsOK'
    BY <1>9, Zenon DEF Forget
  <1>10. ASSUME NEW i \in Server, Connect(i) PROVE FlagsOK'
    BY <1>10, Zenon DEF Connect
  <1>11. ASSUME NEW i \in Server, Stop(i) PROVE FlagsOK'
    BY <1>11, Zenon DEF Stop
  <1>12. ASSUME NEW i \in Server, Start(i) PROVE FlagsOK'
    BY <1>12, Zenon DEF Start
  <1>13. ASSUME NEW i \in Server, NEW r \in answers[i], OnAnswer(i, r) PROVE FlagsOK'
    BY <1>13, Zenon DEF OnAnswer
  <1>14. CASE Reboot
    BY <1>14, Zenon DEF Reboot, FreshGather, FreshClients
  <1>15. CASE UNCHANGED vars
    BY <1>15, Zenon DEF vars
  <1> QED
    BY <1>1, <1>2, <1>3, <1>4, <1>5, <1>6, <1>7, <1>8, <1>9, <1>10, <1>11,
       <1>12, <1>13, <1>14, <1>15, Zenon DEF Next
(***************************************************************************)
(* Every step keeps the counters and what the threads point at.            *)
(***************************************************************************)
LEMMA CountersStep == CountersOK /\ [Next]_vars => CountersOK'
  <1> SUFFICES ASSUME CountersOK, [Next]_vars PROVE CountersOK'
    OBVIOUS
  <1> USE DEF CountersOK, recvalarm, sendalarm, clients, servers, boot
  <1>1. ASSUME NEW p \in Polid, Toggle(p) PROVE CountersOK'
    BY <1>1 DEF Toggle
  <1>2. ASSUME NEW p \in Polid, Raise(p) PROVE CountersOK'
    BY <1>2 DEF Raise, insert, dbFails
  <1>3. ASSUME NEW p \in Polid, Cancel(p) PROVE CountersOK'
    BY <1>3 DEF Cancel, insert, dbFails
  <1>4. ASSUME NEW p \in Polid, SendCancel(p) PROVE CountersOK'
    BY <1>4 DEF SendCancel
  <1>5. ASSUME NEW r \in batch, SendRow(r) PROVE CountersOK'
    BY <1>5 DEF SendRow
  <1>6. CASE NextServer
    BY <1>6 DEF NextServer, Server
  <1>7. ASSUME NEW i \in Server, Deliver(i) PROVE CountersOK'
    <2> DEFINE m == Head(queue[i])
               word == IF m.raised THEN "raised" ELSE "cancelled"
    <2>1. word \in {"nothing", "raised", "cancelled"}
      OBVIOUS
    <2>2. told' = [told EXCEPT ![i] = [told[i] EXCEPT ![m.polid] = word]]
      BY <1>7 DEF Deliver
    <2> HIDE DEF word
    <2>3. told' \in [Server -> [Polid -> {"nothing", "raised", "cancelled"}]]
      BY <2>1, <2>2
    <2> QED BY <1>7, <2>3 DEF Deliver
  <1>8. ASSUME NEW i \in Server, Lose(i) PROVE CountersOK'
    BY <1>8 DEF Lose
  <1>9. ASSUME NEW i \in Server, Forget(i) \/ Connect(i) \/ Stop(i) \/ Start(i)
        PROVE CountersOK'
    BY <1>9 DEF Forget, Connect, Stop, Start
  <1>10. ASSUME NEW i \in Server, NEW r \in answers[i], OnAnswer(i, r)
         PROVE CountersOK'
    BY <1>10 DEF OnAnswer, dbFails
  <1>11. CASE Reboot
    BY <1>11 DEF Reboot, FreshGather, FreshClients, Server
  <1>12. CASE UNCHANGED vars
    BY <1>12 DEF vars
  <1> QED
    BY <1>1, <1>2, <1>3, <1>4, <1>5, <1>6, <1>7, <1>8, <1>9, <1>10, <1>11, <1>12
       DEF Next

(***************************************************************************)
(* A step leaves the table alone, or adds one row to it.                   *)
(***************************************************************************)
LEMMA TableStep ==
  ASSUME TableOK, [Next]_vars
  PROVE  /\ TableOK'
         /\ \/ alarm' = alarm
            \/ \E p \in Polid, b \in BOOLEAN :
                 /\ alarm' = Append(alarm, [polid |-> p, raised |-> b])
                 /\ UNCHANGED <<centre, batch, answers, received, queue>>
         /\ DOMAIN alarm \subseteq DOMAIN alarm'
  <1> USE DEF TableOK, table, boot, sendalarm, servers
  <1> DEFINE Grown ==
        \E p \in Polid, b \in BOOLEAN :
          /\ alarm' = Append(alarm, [polid |-> p, raised |-> b])
          /\ UNCHANGED <<centre, batch, answers, received, queue, past>>
          /\ Len(alarm) < MaxRow
  <1>1. \/ alarm' = alarm /\ past' = past
        \/ alarm' = alarm /\ past' = Len(alarm)
        \/ Grown
    <2>1. ASSUME NEW p \in Polid, Raise(p) \/ Cancel(p)
          PROVE  (alarm' = alarm /\ past' = past) \/ Grown
      BY <2>1, Zenon DEF Raise, Cancel, insert, dbFails
    <2>2. ASSUME NEW p \in Polid, Toggle(p) \/ SendCancel(p)
          PROVE  alarm' = alarm /\ past' = past
      BY <2>2, Zenon DEF Toggle, SendCancel
    <2>3. ASSUME NEW r \in batch, SendRow(r)
          PROVE  alarm' = alarm /\ past' = past
      BY <2>3, Zenon DEF SendRow
    <2>4. ASSUME NEW i \in Server,
                 Deliver(i) \/ Lose(i) \/ Forget(i) \/ Connect(i) \/ Stop(i) \/ Start(i)
          PROVE  alarm' = alarm /\ past' = past
      BY <2>4, Zenon DEF Deliver, Lose, Forget, Connect, Stop, Start
    <2>5. ASSUME NEW i \in Server, NEW r \in answers[i], OnAnswer(i, r)
          PROVE  alarm' = alarm /\ past' = past
      BY <2>5, Zenon DEF OnAnswer, dbFails
    <2>6. ASSUME NextServer \/ UNCHANGED vars
          PROVE  alarm' = alarm /\ past' = past
      BY <2>6, Zenon DEF NextServer, vars
    <2>7. ASSUME Reboot
          PROVE  alarm' = alarm /\ past' = Len(alarm)
      BY <2>7, Zenon DEF Reboot
    <2> QED BY <2>1, <2>2, <2>3, <2>4, <2>5, <2>6, <2>7, Zenon DEF Next
  <1>2. CASE Grown
    BY <1>2 DEF Alarm
  <1> HIDE DEF Grown
  <1>3. CASE alarm' = alarm
    BY <1>1, <1>2, <1>3
  <1>4. Grown => \E p \in Polid, b \in BOOLEAN :
                   /\ alarm' = Append(alarm, [polid |-> p, raised |-> b])
                   /\ UNCHANGED <<centre, batch, answers, received, queue>>
    BY Zenon DEF Grown
  <1> QED BY <1>1, <1>2, <1>3, <1>4
(***************************************************************************)
(* Whatever names a row keeps naming a row of the table.                   *)
(***************************************************************************)
LEMMA RowsStep == TypeOK /\ [Next]_vars => RowsOK'
  <1> SUFFICES ASSUME TypeOK, [Next]_vars PROVE RowsOK'
    OBVIOUS
  <1> USE DEF table, sendalarm, servers
  <1>0. RowsOK /\ QueueOK /\ TableOK /\ CountersOK
    BY DEF TypeOK
  <1>t. /\ \/ alarm' = alarm
           \/ \E p \in Polid, b \in BOOLEAN :
                /\ alarm' = Append(alarm, [polid |-> p, raised |-> b])
                /\ UNCHANGED <<centre, batch, answers, received, queue>>
        /\ DOMAIN alarm \subseteq DOMAIN alarm'
    BY <1>0, TableStep
  <1>u. CASE UNCHANGED <<centre, batch, answers, received>>
    BY <1>u, <1>0, <1>t DEF RowsOK
  <1>1. ASSUME NEW p \in Polid, Toggle(p) \/ Raise(p) \/ Cancel(p) \/ SendCancel(p)
        PROVE UNCHANGED <<centre, batch, answers, received>>
    BY <1>1, Zenon DEF Toggle, Raise, Cancel, SendCancel
  <1>2. ASSUME NEW r \in batch, SendRow(r) PROVE RowsOK'
    BY <1>2, <1>0 DEF SendRow, RowsOK
  <1>3. CASE NextServer
    BY <1>3, <1>0 DEF NextServer, Select, RowsOK
  <1>4. ASSUME NEW i \in Server, Deliver(i) PROVE RowsOK'
    <2> DEFINE m == Head(queue[i])
               rows == {m.row} \ {0}
    <2>1. m = queue[i][1] /\ 1 \in DOMAIN queue[i]
      BY <1>4, <1>0 DEF Deliver, QueueOK
    <2>2. rows \subseteq DOMAIN alarm
      BY <2>1, <1>0 DEF QueueOK
    <2>3. /\ received' = [received EXCEPT ![i] = @ \cup rows]
          /\ answers' = [answers EXCEPT ![i] = @ \cup rows]
          /\ UNCHANGED <<alarm, centre, batch>>
      BY <1>4, Zenon DEF Deliver
    <2> HIDE DEF rows
    <2> QED BY <2>2, <2>3, <1>0 DEF RowsOK
  <1>5. ASSUME NEW i \in Server, Lose(i) PROVE RowsOK'
    BY <1>5, <1>0 DEF Lose, RowsOK
  <1>6. ASSUME NEW i \in Server, Forget(i) \/ Connect(i) \/ Stop(i) \/ Start(i)
        PROVE UNCHANGED <<centre, batch, answers, received>>
    BY <1>6, Zenon DEF Forget, Connect, Stop, Start
  <1>7. ASSUME NEW i \in Server, NEW r \in answers[i], OnAnswer(i, r) PROVE RowsOK'
    <2>1. r \in DOMAIN alarm
      BY <1>0 DEF RowsOK
    <2> QED BY <1>7, <2>1, <1>0 DEF OnAnswer, dbFails, RowsOK
  <1>8. CASE Reboot
    BY <1>8, <1>0 DEF Reboot, FreshGather, FreshClients, RowsOK
  <1>9. CASE UNCHANGED vars
    BY <1>9, <1>u, Zenon DEF vars
  <1> QED
    BY <1>u, <1>1, <1>2, <1>3, <1>4, <1>5, <1>6, <1>7, <1>8, <1>9, Zenon DEF Next

(***************************************************************************)
(* A packet put on a queue with room, or taken from one.                   *)
(***************************************************************************)
LEMMA PutOK ==
  ASSUME QueueOK, NEW i \in Server, NEW m \in Packet, mq_send(i, m),
         m.row \in DOMAIN alarm \cup {0}, alarm' = alarm
  PROVE  QueueOK'
  <1> DEFINE q == Append(queue[i], m)
  <1>0. queue[i] \in Seq(Packet)
    BY DEF QueueOK
  <1>1. q \in Seq(Packet) /\ Len(q) = Len(queue[i]) + 1
    BY <1>0
  <1>2. Len(q) <= Cap
    BY <1>0, <1>1 DEF mq_send, QueueOK
  <1>3. \A k \in DOMAIN q : q[k].row \in DOMAIN alarm \cup {0}
    BY <1>0 DEF QueueOK
  <1>4. queue' = [queue EXCEPT ![i] = q]
    BY DEF mq_send
  <1> HIDE DEF q
  <1> QED BY <1>1, <1>2, <1>3, <1>4 DEF QueueOK

LEMMA TakeOK ==
  ASSUME QueueOK, NEW i \in Server, queue[i] # <<>>,
         queue' = [queue EXCEPT ![i] = Tail(@)], alarm' = alarm
  PROVE  QueueOK'
  <1> DEFINE q == Tail(queue[i])
  <1>0. queue[i] \in Seq(Packet)
    BY DEF QueueOK
  <1>1. q \in Seq(Packet) /\ Len(q) = Len(queue[i]) - 1
    BY <1>0
  <1>2. Len(q) <= Cap
    BY <1>0, <1>1 DEF QueueOK
  <1>3. \A k \in DOMAIN q : q[k].row \in DOMAIN alarm \cup {0}
    <2> TAKE k \in DOMAIN q
    <2>1. k + 1 \in DOMAIN queue[i] /\ q[k] = queue[i][k + 1]
      BY <1>0
    <2> QED BY <2>1 DEF QueueOK
  <1>4. queue' = [queue EXCEPT ![i] = q]
    OBVIOUS
  <1> HIDE DEF q
  <1> QED BY <1>1, <1>2, <1>3, <1>4 DEF QueueOK

LEMMA QueueStep == TypeOK /\ [Next]_vars => QueueOK'
  <1> SUFFICES ASSUME TypeOK, [Next]_vars PROVE QueueOK'
    OBVIOUS
  <1> USE DEF recvalarm, table, sendalarm, clients, servers
  <1>0. RowsOK /\ QueueOK /\ TableOK /\ CountersOK
    BY DEF TypeOK
  <1>t. DOMAIN alarm \subseteq DOMAIN alarm'
    BY <1>0, TableStep
  <1>u. CASE queue' = queue
    BY <1>u, <1>0, <1>t DEF QueueOK
  <1>1. ASSUME NEW p \in Polid, Toggle(p) \/ Raise(p) \/ Cancel(p) PROVE queue' = queue
    BY <1>1, Zenon DEF Toggle, Raise, Cancel
  <1>2. ASSUME NEW p \in Polid, SendCancel(p) PROVE QueueOK'
    <2> DEFINE m == [row |-> 0, polid |-> p, raised |-> FALSE]
    <2>1. m \in Packet /\ m.row \in DOMAIN alarm \cup {0}
      BY DEF Packet
    <2>2. alarm' = alarm /\ (queue' = queue \/ mq_send(at, m))
      BY <1>2, Zenon DEF SendCancel
    <2>3. at \in Server
      BY <1>0 DEF CountersOK
    <2> HIDE DEF m
    <2> QED BY <2>1, <2>2, <2>3, <1>u, <1>0, PutOK
  <1>3. ASSUME NEW r \in batch, SendRow(r) PROVE QueueOK'
    <2> DEFINE m == [row |-> r, polid |-> alarm[r].polid, raised |-> alarm[r].raised]
    <2>1. r \in DOMAIN alarm /\ alarm[r] \in Alarm /\ r \in 0 .. MaxRow
      BY <1>0 DEF RowsOK, TableOK
    <2>2. m \in Packet /\ m.row \in DOMAIN alarm \cup {0}
      BY <2>1, SMT DEF Packet, Alarm
    <2>3. alarm' = alarm /\ mq_send(at, m)
      BY <1>3, Zenon DEF SendRow
    <2>4. at \in Server
      BY <1>0 DEF CountersOK
    <2> HIDE DEF m
    <2> QED BY <2>2, <2>3, <2>4, <1>0, PutOK
  <1>4. CASE NextServer
    BY <1>4, <1>u, Zenon DEF NextServer
  <1>5. ASSUME NEW i \in Server, Deliver(i) PROVE QueueOK'
    <2>1. queue[i] # <<>> /\ queue' = [queue EXCEPT ![i] = Tail(@)] /\ alarm' = alarm
      BY <1>5, Zenon DEF Deliver
    <2> QED BY <2>1, <1>0, TakeOK
  <1>6. ASSUME NEW i \in Server, Lose(i) PROVE QueueOK'
    <2>1. /\ alarm' = alarm
          /\ \/ queue' = queue
             \/ queue[i] # <<>> /\ queue' = [queue EXCEPT ![i] = Tail(@)]
      BY <1>6, Zenon DEF Lose
    <2> QED BY <2>1, <1>u, <1>0, TakeOK
  <1>7. ASSUME NEW i \in Server, Forget(i) PROVE QueueOK'
    <2>1. queue[i] # <<>> /\ queue' = [queue EXCEPT ![i] = Tail(@)] /\ alarm' = alarm
      BY <1>7, Zenon DEF Forget
    <2> QED BY <2>1, <1>0, TakeOK
  <1>8. ASSUME NEW i \in Server, Connect(i) \/ Stop(i) \/ Start(i) PROVE queue' = queue
    BY <1>8, Zenon DEF Connect, Stop, Start
  <1>9. ASSUME NEW i \in Server, NEW r \in answers[i], OnAnswer(i, r)
        PROVE queue' = queue
    BY <1>9, Zenon DEF OnAnswer
  <1>10. CASE Reboot
    <2>1. queue' = [i \in Server |-> <<>>]
      BY <1>10, Zenon DEF Reboot, FreshClients
    <2> QED BY <2>1 DEF QueueOK
  <1>11. CASE UNCHANGED vars
    BY <1>11, <1>u, Zenon DEF vars
  <1> QED
    BY <1>u, <1>1, <1>2, <1>3, <1>4, <1>5, <1>6, <1>7, <1>8, <1>9, <1>10, <1>11,
       Zenon DEF Next

(***************************************************************************)
(* Every variable has its type, every queue respects its capacity, and     *)
(* every packet, answer and mark belongs to a row of the table.            *)
(***************************************************************************)
THEOREM TypeCorrect == Spec => []TypeOK
  <1>1. TypeOK /\ [Next]_vars => TypeOK'
    <2> SUFFICES ASSUME TypeOK, [Next]_vars PROVE TypeOK'
      OBVIOUS
    <2>1. FlagsOK /\ CountersOK /\ TableOK
      BY Zenon DEF TypeOK
    <2>2. FlagsOK' /\ CountersOK'
      BY <2>1, FlagsStep, CountersStep, Zenon
    <2>3. TableOK'
      BY <2>1, TableStep, Zenon
    <2>4. RowsOK' /\ QueueOK'
      BY RowsStep, QueueStep, Zenon
    <2> QED BY <2>2, <2>3, <2>4, Zenon DEF TypeOK
  <1> QED BY TypeInit, <1>1, PTL DEF Spec

-----------------------------------------------------------------------------
(***************************************************************************)
(* A row is marked as confirmed by a server only if that server received   *)
(* it, whatever sessions are lost and however often the terminal reboots.  *)
(***************************************************************************)
LEMMA ReceivedStep ==
  ASSUME TypeOK, ConfirmedWasReceived, [Next]_vars
  PROVE  ConfirmedWasReceived'
  <1> USE DEF table, servers, ConfirmedWasReceived
  <1>0. RowsOK
    BY DEF TypeOK
  <1>u. CASE UNCHANGED <<centre, answers, received>>
    BY <1>u, Zenon
  <1>1. ASSUME NEW p \in Polid, Toggle(p) \/ Raise(p) \/ Cancel(p) \/ SendCancel(p)
        PROVE UNCHANGED <<centre, answers, received>>
    BY <1>1, Zenon DEF Toggle, Raise, Cancel, SendCancel
  <1>2. ASSUME NEW r \in batch, SendRow(r)
        PROVE UNCHANGED <<centre, answers, received>>
    BY <1>2, Zenon DEF SendRow
  <1>3. ASSUME NEW i \in Server, Deliver(i) PROVE ConfirmedWasReceived'
    <2> DEFINE rows == {Head(queue[i]).row} \ {0}
    <2>1. /\ received' = [received EXCEPT ![i] = @ \cup rows]
          /\ answers' = [answers EXCEPT ![i] = @ \cup rows]
          /\ UNCHANGED centre
      BY <1>3, Zenon DEF Deliver
    <2> HIDE DEF rows
    <2> QED BY <2>1, <1>0 DEF RowsOK
  <1>4. ASSUME NEW i \in Server, Lose(i) PROVE ConfirmedWasReceived'
    BY <1>4, <1>0 DEF Lose, RowsOK
  <1>5. ASSUME NEW i \in Server, Forget(i) \/ Connect(i) \/ Stop(i) \/ Start(i)
        PROVE UNCHANGED <<centre, answers, received>>
    BY <1>5, Zenon DEF Forget, Connect, Stop, Start
  <1>6. ASSUME NEW i \in Server, NEW r \in answers[i], OnAnswer(i, r)
        PROVE ConfirmedWasReceived'
    BY <1>6, <1>0 DEF OnAnswer, dbFails, RowsOK
  <1>7. CASE Reboot
    BY <1>7, <1>0 DEF Reboot, FreshClients, RowsOK
  <1>8. ASSUME NextServer \/ UNCHANGED vars
        PROVE UNCHANGED <<centre, answers, received>>
    BY <1>8, Zenon DEF NextServer, vars
  <1> QED
    BY <1>u, <1>1, <1>2, <1>3, <1>4, <1>5, <1>6, <1>7, <1>8, Zenon DEF Next

THEOREM Received == Spec => []ConfirmedWasReceived
  <1>1. Init => ConfirmedWasReceived
    BY DEF Init, FreshClients, ConfirmedWasReceived
  <1> QED BY TypeCorrect, <1>1, ReceivedStep, PTL DEF Spec

-----------------------------------------------------------------------------
(***************************************************************************)
(* Why no alarm is raised twice in a run: a raised row of this run is      *)
(* either followed by its cancellation, or its quantity's flag is still    *)
(* set, and Raise does nothing while the flag is set.                      *)
(***************************************************************************)
Raised(p)    == [polid |-> p, raised |-> TRUE]
Cancelled(p) == [polid |-> p, raised |-> FALSE]

RaisedIsFlagged ==
  \A p \in Polid : \A r \in DOMAIN alarm :
    past < r /\ alarm[r] = Raised(p)
      => flag[p] = 1 \/ \E t \in DOMAIN alarm : r < t /\ alarm[t] = Cancelled(p)

(***************************************************************************)
(* The steps that leave the table, the flags and `past' alone.             *)
(***************************************************************************)
LEMMA QuietStep ==
  ASSUME [Next]_vars,
         ~(\E p \in Polid : Raise(p) \/ Cancel(p)), ~Reboot
  PROVE  UNCHANGED <<alarm, flag, past>>
  <1> USE DEF recvalarm, table, boot
  <1>1. ASSUME NEW p \in Polid, Toggle(p) \/ SendCancel(p)
        PROVE  UNCHANGED <<alarm, flag, past>>
    BY <1>1, Zenon DEF Toggle, SendCancel
  <1>2. ASSUME NEW r \in batch, SendRow(r)
        PROVE  UNCHANGED <<alarm, flag, past>>
    BY <1>2, Zenon DEF SendRow
  <1>3. ASSUME NEW i \in Server,
               Deliver(i) \/ Lose(i) \/ Forget(i) \/ Connect(i) \/ Stop(i) \/ Start(i)
        PROVE  UNCHANGED <<alarm, flag, past>>
    BY <1>3, Zenon DEF Deliver, Lose, Forget, Connect, Stop, Start
  <1>4. ASSUME NEW i \in Server, NEW r \in answers[i], OnAnswer(i, r)
        PROVE  UNCHANGED <<alarm, flag, past>>
    BY <1>4, Zenon DEF OnAnswer, dbFails
  <1>5. ASSUME NextServer \/ UNCHANGED vars
        PROVE  UNCHANGED <<alarm, flag, past>>
    BY <1>5, Zenon DEF NextServer, vars
  <1> QED BY <1>1, <1>2, <1>3, <1>4, <1>5, Zenon DEF Next

(***************************************************************************)
(* A row added at the end leaves the others as they were.                  *)
(***************************************************************************)
LEMMA AddedRow ==
  ASSUME TableOK, NEW x, alarm' = Append(alarm, x)
  PROVE  /\ DOMAIN alarm' = DOMAIN alarm \cup {Len(alarm) + 1}
         /\ \A r \in DOMAIN alarm : alarm'[r] = alarm[r] /\ r < Len(alarm) + 1
         /\ alarm'[Len(alarm) + 1] = x
         /\ DOMAIN alarm = 1 .. Len(alarm) /\ Len(alarm) \in Nat
  BY DEF TableOK

LEMMA SameTable ==
  ASSUME NoDoubleRaise, alarm' = alarm, past' = past
  PROVE  NoDoubleRaise'
  <1> SUFFICES ASSUME NEW r \in DOMAIN alarm, NEW s \in DOMAIN alarm,
                      past < r, r < s, alarm[r] = alarm[s], alarm[r].raised
               PROVE  \E t \in r .. s :
                        alarm[t] = [polid |-> alarm[r].polid, raised |-> FALSE]
    BY DEF NoDoubleRaise
  <1> QED BY Zenon DEF NoDoubleRaise

LEMMA RaiseFlagged ==
  ASSUME TableOK, CountersOK, RaisedIsFlagged, NoDoubleRaise,
         NEW p \in Polid, Raise(p)
  PROVE  RaisedIsFlagged' /\ NoDoubleRaise'
  <1>1. flag[p] # 1 /\ flag' = [flag EXCEPT ![p] = 1] /\ past' = past
    BY Zenon DEF Raise, boot
  <1>2. alarm' = alarm \/ alarm' = Append(alarm, Raised(p))
    BY Zenon DEF Raise, insert, dbFails, Raised
  <1>3. \A q \in Polid : flag'[q] = 1 \/ flag'[q] = flag[q]
    BY <1>1 DEF CountersOK
  <1>4. flag'[p] = 1
    BY <1>1 DEF CountersOK
  <1>5. CASE alarm' = alarm
    <2>1. RaisedIsFlagged'
      BY <1>1, <1>3, <1>5 DEF RaisedIsFlagged
    <2>2. NoDoubleRaise'
      BY <1>1, <1>5, SameTable
    <2> QED BY <2>1, <2>2
  <1>6. CASE alarm' = Append(alarm, Raised(p))
    <2> DEFINE L == Len(alarm) + 1
    <2>1. /\ DOMAIN alarm' = DOMAIN alarm \cup {L}
          /\ \A r \in DOMAIN alarm : alarm'[r] = alarm[r] /\ r < L
          /\ alarm'[L] = Raised(p)
          /\ DOMAIN alarm = 1 .. L - 1 /\ L \in Nat
      BY <1>6, AddedRow
    <2> HIDE DEF L
    <2>2. RaisedIsFlagged'
      <3> SUFFICES ASSUME NEW q \in Polid, NEW r \in DOMAIN alarm',
                          past' < r, alarm'[r] = Raised(q), flag'[q] # 1
                   PROVE  \E t \in DOMAIN alarm' : r < t /\ alarm'[t] = Cancelled(q)
        BY DEF RaisedIsFlagged
      <3>1. q # p /\ flag[q] # 1
        BY <1>3, <1>4
      <3>2. Raised(q) # Raised(p)
        BY <3>1 DEF Raised
      <3>3. r \in DOMAIN alarm /\ alarm[r] = Raised(q)
        BY <2>1, <3>2
      <3>4. PICK t \in DOMAIN alarm : r < t /\ alarm[t] = Cancelled(q)
        BY <1>1, <3>1, <3>3 DEF RaisedIsFlagged
      <3> QED BY <2>1, <3>4
    <2>3. NoDoubleRaise'
      <3> SUFFICES ASSUME NEW r \in DOMAIN alarm', NEW s \in DOMAIN alarm',
                          past' < r, r < s, alarm'[r] = alarm'[s],
                          alarm'[r].raised
                   PROVE  \E t \in r .. s :
                            alarm'[t] = [polid |-> alarm'[r].polid, raised |-> FALSE]
        BY DEF NoDoubleRaise
      <3>1. r \in DOMAIN alarm /\ alarm'[r] = alarm[r]
        BY <2>1
      <3>2. CASE s \in DOMAIN alarm
        <4>1. alarm'[s] = alarm[s]
          BY <2>1, <3>2
        <4>2. PICK t \in r .. s :
                alarm[t] = [polid |-> alarm[r].polid, raised |-> FALSE]
          BY <1>1, <3>1, <3>2, <4>1, Zenon DEF NoDoubleRaise
        <4>3. t \in DOMAIN alarm
          BY <2>1, <3>1, <3>2
        <4> QED BY <2>1, <3>1, <4>2, <4>3
      <3>3. CASE s = L
        <4>1. alarm[r] = Raised(p)
          BY <2>1, <3>1, <3>3
        <4>2. PICK t \in DOMAIN alarm : r < t /\ alarm[t] = Cancelled(p)
          BY <1>1, <3>1, <4>1, Zenon DEF RaisedIsFlagged
        <4>3. alarm'[r].polid = p
          BY <3>1, <4>1 DEF Raised
        <4>4. alarm'[t] = alarm[t] /\ t \in r .. s
          BY <2>1, <3>1, <3>3, <4>2
        <4> QED BY <4>2, <4>3, <4>4, Zenon DEF Cancelled
      <3> QED BY <2>1, <3>2, <3>3
    <2> QED BY <2>2, <2>3
  <1> QED BY <1>2, <1>5, <1>6

LEMMA CancelFlagged ==
  ASSUME TableOK, CountersOK, RaisedIsFlagged, NoDoubleRaise,
         NEW p \in Polid, Cancel(p)
  PROVE  RaisedIsFlagged' /\ NoDoubleRaise'
  <1>1. /\ past' = past
        /\ \/ alarm' = Append(alarm, Cancelled(p)) /\ flag' = [flag EXCEPT ![p] = 2]
           \/ UNCHANGED <<alarm, flag>>
    BY Zenon DEF Cancel, insert, dbFails, Cancelled, boot
  <1>2. CASE UNCHANGED <<alarm, flag>>
    <2>1. RaisedIsFlagged'
      BY <1>1, <1>2 DEF RaisedIsFlagged
    <2> QED BY <1>1, <1>2, <2>1, SameTable
  <1>3. CASE /\ alarm' = Append(alarm, Cancelled(p))
             /\ flag' = [flag EXCEPT ![p] = 2]
    <2> DEFINE L == Len(alarm) + 1
    <2>1. /\ DOMAIN alarm' = DOMAIN alarm \cup {L}
          /\ \A r \in DOMAIN alarm : alarm'[r] = alarm[r] /\ r < L
          /\ alarm'[L] = Cancelled(p)
          /\ DOMAIN alarm = 1 .. L - 1 /\ L \in Nat
      BY <1>3, AddedRow
    <2>2. \A q \in Polid : q # p => flag'[q] = flag[q]
      BY <1>3 DEF CountersOK
    <2>3. \A q \in Polid : Raised(q) # Cancelled(p)
      BY DEF Raised, Cancelled
    <2> HIDE DEF L
    <2>4. RaisedIsFlagged'
      <3> SUFFICES ASSUME NEW q \in Polid, NEW r \in DOMAIN alarm',
                          past' < r, alarm'[r] = Raised(q), flag'[q] # 1
                   PROVE  \E t \in DOMAIN alarm' : r < t /\ alarm'[t] = Cancelled(q)
        BY DEF RaisedIsFlagged
      <3>1. r \in DOMAIN alarm /\ alarm[r] = Raised(q) /\ r < L
        BY <2>1, <2>3
      <3>2. CASE q = p
        BY <2>1, <3>1, <3>2
      <3>3. CASE q # p
        <4>1. PICK t \in DOMAIN alarm : r < t /\ alarm[t] = Cancelled(q)
          BY <1>1, <2>2, <3>1, <3>3 DEF RaisedIsFlagged
        <4> QED BY <2>1, <4>1
      <3> QED BY <3>2, <3>3
    <2>5. NoDoubleRaise'
      <3> SUFFICES ASSUME NEW r \in DOMAIN alarm', NEW s \in DOMAIN alarm',
                          past' < r, r < s, alarm'[r] = alarm'[s],
                          alarm'[r].raised
                   PROVE  \E t \in r .. s :
                            alarm'[t] = [polid |-> alarm'[r].polid, raised |-> FALSE]
        BY DEF NoDoubleRaise
      <3>1. ~alarm'[L].raised
        BY <2>1 DEF Cancelled
      <3>2. r # L /\ s # L
        BY <3>1, Zenon
      <3>3. /\ r \in DOMAIN alarm /\ alarm'[r] = alarm[r]
            /\ s \in DOMAIN alarm /\ alarm'[s] = alarm[s]
        BY <2>1, <3>2
      <3>4. PICK t \in r .. s :
              alarm[t] = [polid |-> alarm[r].polid, raised |-> FALSE]
        BY <1>1, <3>3, Zenon DEF NoDoubleRaise
      <3>5. t \in DOMAIN alarm
        BY <2>1, <3>3
      <3> QED BY <2>1, <3>3, <3>4, <3>5
    <2> QED BY <2>4, <2>5
  <1> QED BY <1>1, <1>2, <1>3

LEMMA OnceStep ==
  TypeOK /\ RaisedIsFlagged /\ NoDoubleRaise /\ [Next]_vars
    => RaisedIsFlagged' /\ NoDoubleRaise'
  <1> SUFFICES ASSUME TypeOK, RaisedIsFlagged, NoDoubleRaise, [Next]_vars
               PROVE  RaisedIsFlagged' /\ NoDoubleRaise'
    OBVIOUS
  <1>0. TableOK /\ CountersOK
    BY DEF TypeOK
  <1>1. ASSUME NEW p \in Polid, Raise(p) \/ Cancel(p)
        PROVE  RaisedIsFlagged' /\ NoDoubleRaise'
    BY <1>0, <1>1, RaiseFlagged, CancelFlagged, Zenon
  <1>2. CASE Reboot
    <2>1. alarm' = alarm /\ past' = Len(alarm)
      BY <1>2, Zenon DEF Reboot, table
    <2>2. \A r \in DOMAIN alarm' : ~(past' < r)
      BY <2>1, <1>0 DEF TableOK
    <2> QED BY <2>2, Zenon DEF RaisedIsFlagged, NoDoubleRaise
  <1>3. CASE UNCHANGED <<alarm, flag, past>>
    <2>1. RaisedIsFlagged'
      BY <1>3 DEF RaisedIsFlagged
    <2> QED BY <1>3, <2>1, SameTable
  <1> QED BY <1>1, <1>2, <1>3, QuietStep, Zenon

(***************************************************************************)
(* In one run of gather no alarm is raised a second time without having    *)
(* been cancelled between, for any quantities, bounds and failed inserts.  *)
(***************************************************************************)
THEOREM RaisedOnce == Spec => []NoDoubleRaise
  <1>1. Init => RaisedIsFlagged /\ NoDoubleRaise
    BY DEF Init, RaisedIsFlagged, NoDoubleRaise
  <1>2. Spec => [](RaisedIsFlagged /\ NoDoubleRaise)
    BY TypeCorrect, <1>1, OnceStep, PTL DEF Spec
  <1> QED BY <1>2, PTL

-----------------------------------------------------------------------------
(***************************************************************************)
(* Every step is one of AlarmPromise, or changes nothing that it mentions. *)
(***************************************************************************)
LEMMA PromiseStep ==
  ASSUME TypeOK, ConfirmedWasReceived, [Next]_vars
  PROVE  [Promise!Next]_Promise!vars
  <1> USE DEF table, servers, Promise!vars
  <1>0. RowsOK /\ QueueOK /\ TableOK
    BY DEF TypeOK
  <1>1. CASE \E p \in Polid, b \in BOOLEAN :
               /\ alarm' = Append(alarm, [polid |-> p, raised |-> b])
               /\ UNCHANGED <<centre, batch, answers, received, queue>>
    <2> PICK p \in Polid, b \in BOOLEAN :
          /\ alarm' = Append(alarm, [polid |-> p, raised |-> b])
          /\ UNCHANGED <<centre, batch, answers, received, queue>>
      BY <1>1
    <2>1. [polid |-> p, raised |-> b] \in Promise!Alarm
      BY DEF Promise!Alarm
    <2>2. Promise!Record([polid |-> p, raised |-> b])
      BY Zenon DEF Promise!Record
    <2> QED BY <2>1, <2>2, Zenon DEF Promise!Next
  <1>2. CASE alarm' = alarm
    <2>u. CASE UNCHANGED <<centre, received>>
      BY <2>u, <1>2, Zenon
    <2>1. ASSUME NEW i \in Server, Deliver(i) PROVE [Promise!Next]_Promise!vars
      <3> DEFINE r == Head(queue[i]).row
      <3>1. /\ received' = [received EXCEPT ![i] = @ \cup ({r} \ {0})]
            /\ UNCHANGED centre
        BY <2>1, Zenon DEF Deliver
      <3>2. r \in DOMAIN alarm \cup {0}
        <4>1. r = queue[i][1].row /\ 1 \in DOMAIN queue[i]
          BY <2>1, <1>0 DEF Deliver, QueueOK
        <4> QED BY <4>1, <1>0 DEF QueueOK
      <3> HIDE DEF r
      <3>3. CASE r = 0
        <4>1. received' = received
          BY <3>1, <3>3, <1>0 DEF RowsOK
        <4> QED BY <4>1, <3>1, <2>u
      <3>4. CASE r # 0
        <4>1. r \in DOMAIN alarm /\ {r} \ {0} = {r}
          BY <3>2, <3>4
        <4>2. Promise!Receive(i, r)
          BY <3>1, <4>1, <1>2, Zenon DEF Promise!Receive
        <4> QED BY <4>1, <4>2, Zenon DEF Promise!Next
      <3> QED BY <3>3, <3>4
    <2>2. ASSUME NEW i \in Server, NEW r \in answers[i], OnAnswer(i, r)
          PROVE [Promise!Next]_Promise!vars
      <3>1. r \in DOMAIN alarm /\ r \in received[i]
        BY <1>0 DEF RowsOK, ConfirmedWasReceived
      <3>2. \/ UNCHANGED <<centre, received>>
            \/ centre' = [centre EXCEPT ![i] = @ \cup {r}] /\ UNCHANGED received
        BY <2>2, Zenon DEF OnAnswer
      <3>3. ASSUME centre' = [centre EXCEPT ![i] = @ \cup {r}], UNCHANGED received
            PROVE Promise!Next
        <4>1. Promise!Confirm(i, r)
          BY <3>1, <3>3, <1>2, Zenon DEF Promise!Confirm
        <4> QED BY <3>1, <4>1, Zenon DEF Promise!Next
      <3> QED BY <2>u, <3>2, <3>3, Zenon
    <2>3. ASSUME NEW p \in Polid, Toggle(p) \/ Raise(p) \/ Cancel(p) \/ SendCancel(p)
          PROVE UNCHANGED <<centre, received>>
      BY <2>3, Zenon DEF Toggle, Raise, Cancel, SendCancel
    <2>4. ASSUME NEW r \in batch, SendRow(r) PROVE UNCHANGED <<centre, received>>
      BY <2>4, Zenon DEF SendRow
    <2>5. ASSUME NEW i \in Server,
                 Lose(i) \/ Forget(i) \/ Connect(i) \/ Stop(i) \/ Start(i)
          PROVE UNCHANGED <<centre, received>>
      BY <2>5, Zenon DEF Lose, Forget, Connect, Stop, Start
    <2>6. ASSUME NextServer \/ Reboot \/ UNCHANGED vars
          PROVE UNCHANGED <<centre, received>>
      BY <2>6, Zenon DEF NextServer, Reboot, vars
    <2> QED BY <2>u, <2>1, <2>2, <2>3, <2>4, <2>5, <2>6, Zenon DEF Next
  <1> QED BY <1>0, <1>1, <1>2, TableStep, Zenon

(***************************************************************************)
(* AlarmDelivery implements AlarmPromise.                                  *)
(***************************************************************************)
THEOREM Implements == Spec => KeepsPromise
  <1>1. Init => Promise!Init
    BY Zenon DEF Init, Promise!Init
  <1>2. TypeOK /\ ConfirmedWasReceived /\ [Next]_vars => [Promise!Next]_Promise!vars
    BY PromiseStep, Zenon
  <1> QED BY TypeCorrect, Received, <1>1, <1>2, PTL DEF Spec, KeepsPromise, Promise!Spec
=============================================================================
