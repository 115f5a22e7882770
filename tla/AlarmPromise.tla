---------------------------- MODULE AlarmPromise ----------------------------
(***************************************************************************)
(* What the alarm part of gather promises, without queues or packets:      *)
(* alarms are recorded, a recorded alarm may reach a server any number of  *)
(* times, and it is marked confirmed by a server only after it reached     *)
(* that server.  In the end every server has every recorded alarm.         *)
(***************************************************************************)
EXTENDS Naturals, Sequences

CONSTANTS
  Server,
  Polid,        \* the measured quantities
  MaxRow        \* bound: rows of the alarm table

VARIABLES
  log,          \* the recorded alarms
  received,     \* which of them a server has received
  confirmed     \* which of them gather has marked as confirmed by it

vars == <<log, received, confirmed>>

Alarm == [polid : Polid, raised : BOOLEAN]

Init ==
  /\ log = <<>>
  /\ received = [i \in Server |-> {}]
  /\ confirmed = [i \in Server |-> {}]

Record(a) ==
  /\ log' = Append(log, a)
  /\ UNCHANGED <<received, confirmed>>

Receive(i, r) ==
  /\ received' = [received EXCEPT ![i] = @ \cup {r}]
  /\ UNCHANGED <<log, confirmed>>

Confirm(i, r) ==
  /\ r \in received[i]
  /\ confirmed' = [confirmed EXCEPT ![i] = @ \cup {r}]
  /\ UNCHANGED <<log, received>>

Next ==
  \/ \E a \in Alarm : Record(a)
  \/ \E i \in Server : \E r \in DOMAIN log : Receive(i, r) \/ Confirm(i, r)

Spec == Init /\ [][Next]_vars

(***************************************************************************)
(* Every recorded alarm is confirmed by every server.                      *)
(***************************************************************************)
Delivered ==
  \A i \in Server, r \in 1 .. MaxRow : (r \in DOMAIN log) ~> (r \in confirmed[i])

FairSpec == Spec /\ Delivered
=============================================================================
