---------------------------- MODULE AlarmDelivery ----------------------------
(***************************************************************************)
(* Alarms, from a register's bit to the confirmation of every server.      *)
(*                                                                         *)
(* recvalarm_routine reads the bits, keeps a flag per quantity, and        *)
(* inserts a row into the table `alarm' when an alarm begins or ends.      *)
(* sendalarm_routine first sends a cancellation of every alarm to every    *)
(* server; then, round after round, it sends each server the rows that     *)
(* server has not confirmed, with an mq_send that waits while the queue is *)
(* full.  A server's answer names the row by its time, and gather's        *)
(* receiver marks that row.  The terminal may reboot: the table survives,  *)
(* the queues, the flags and the answers on their way do not.              *)
(*                                                                         *)
(* Rows are numbered in the order of insertion; the number stands for      *)
(* alarmtime, in milliseconds, which is taken to differ between rows.      *)
(***************************************************************************)
EXTENDS Naturals, Sequences, FiniteSets

CONSTANTS
  N,            \* number of servers
  Polid,        \* the quantities of table polsalarm
  Cap,          \* mq_maxmsg
  MaxRow,       \* bound: rows of table alarm
  MaxDrop,      \* bound: sessions lost
  MaxFail,      \* bound: failed inserts
  MaxBoot       \* bound: reboots

ASSUME SizeAssumption == N \in Nat \ {0} /\ Cap \in Nat \ {0}
ASSUME BoundAssumption == {MaxRow, MaxDrop, MaxFail, MaxBoot} \subseteq Nat

VARIABLES
  bit,          \* the alarm bit of each quantity, in the instrument
  flag,         \* 0 none, 1 raised, 2 cancelled
  alarm,        \* the table
  centre,       \* the rows each server has confirmed
  started,      \* have all servers been sent their cancellations?
  at,           \* the server sendalarm_routine is busy with
  cancels,      \* at the start: cancellations still to send to it
  batch,        \* later: rows selected and still to send to it
  queue,        \* mq[i]
  gather_stop,
  session,      \* has client i a session without error?
  waiting,      \* did the loss find client i's sender in mq_receive?
  answers,      \* rows whose answer is on its way to gather
  drops, fails, boots,  \* counted for the bounds
  received,     \* history: the rows each server has received
  told,         \* history: what it was told last in this run of gather
  seen,         \* history: was the bit seen set in this run?
  past          \* history: rows inserted before this run

Server == 1 .. N
Row    == 1 .. MaxRow
Alarm  == [polid : Polid, raised : BOOLEAN]
Packet == [row : 0 .. MaxRow, polid : Polid, raised : BOOLEAN]  \* row 0: none

recvalarm == <<bit, flag, fails, seen>>
table     == <<alarm, centre>>
sendalarm == <<started, at, cancels, batch>>
clients   == <<session, waiting, gather_stop, drops>>
servers   == <<received, told>>
boot      == <<boots, past>>
vars == <<recvalarm, table, sendalarm, queue, clients, answers, servers, boot>>

(***************************************************************************)
(* Type correctness; a queue holds at most its capacity, and no packet,    *)
(* answer, mark or selected row is without its row in the table.           *)
(***************************************************************************)
FlagsOK ==
  /\ bit \in [Polid -> BOOLEAN]
  /\ seen \in [Polid -> BOOLEAN]
  /\ gather_stop \in [Server -> BOOLEAN]
  /\ session \in [Server -> BOOLEAN]
  /\ waiting \in [Server -> BOOLEAN]
  /\ started \in BOOLEAN

CountersOK ==
  /\ flag \in [Polid -> 0 .. 2]
  /\ drops \in 0 .. MaxDrop /\ fails \in 0 .. MaxFail /\ boots \in 0 .. MaxBoot
  /\ at \in Server
  /\ cancels \subseteq Polid
  /\ told \in [Server -> [Polid -> {"nothing", "raised", "cancelled"}]]

TableOK ==
  /\ alarm \in Seq(Alarm)
  /\ Len(alarm) <= MaxRow
  /\ past \in 0 .. Len(alarm)

RowsOK ==
  /\ batch \subseteq DOMAIN alarm
  /\ centre \in [Server -> SUBSET DOMAIN alarm]
  /\ answers \in [Server -> SUBSET DOMAIN alarm]
  /\ received \in [Server -> SUBSET DOMAIN alarm]

QueueOK ==
  /\ queue \in [Server -> Seq(Packet)]
  /\ \A i \in Server :
       /\ Len(queue[i]) <= Cap
       /\ \A k \in DOMAIN queue[i] : queue[i][k].row \in DOMAIN alarm \cup {0}

TypeOK == FlagsOK /\ CountersOK /\ TableOK /\ RowsOK /\ QueueOK

(***************************************************************************)
(* The programs as they start: gather's variables, then the others'.       *)
(***************************************************************************)
FreshGather(flags, done, server, clear, rows, stops, watched) ==
  /\ flags = [p \in Polid |-> 0]
  /\ done = FALSE /\ server = 1 /\ clear = Polid /\ rows = {}
  /\ stops = [i \in Server |-> FALSE]
  /\ watched = [p \in Polid |-> FALSE]

FreshClients(packets, linked, blocked, coming, last) ==
  /\ packets = [i \in Server |-> <<>>]
  /\ linked = [i \in Server |-> FALSE]
  /\ blocked = [i \in Server |-> FALSE]
  /\ coming = [i \in Server |-> {}]
  /\ last = [i \in Server |-> [p \in Polid |-> "nothing"]]

Init ==
  /\ FreshGather(flag, started, at, cancels, batch, gather_stop, seen)
  /\ FreshClients(queue, session, waiting, answers, told)
  /\ bit = [p \in Polid |-> FALSE]
  /\ alarm = <<>>
  /\ centre = [i \in Server |-> {}]
  /\ drops = 0 /\ fails = 0 /\ boots = 0 /\ past = 0
  /\ received = [i \in Server |-> {}]

-----------------------------------------------------------------------------
(***************************************************************************)
(* The instrument.  The bound on the rows leaves room for the row of every *)
(* quantity whose flag does not agree with its bit.                        *)
(***************************************************************************)
Room(b, f) ==
  Len(alarm) + Cardinality({p \in Polid : b[p] # (f[p] = 1)}) <= MaxRow

Toggle(p) ==
  /\ bit' = [bit EXCEPT ![p] = ~@]
  /\ Room(bit', flag)
  /\ UNCHANGED <<flag, fails, seen, table, sendalarm, queue, clients, answers,
                 servers, boot>>

(***************************************************************************)
(* recvalarm_routine reads one quantity.  The flag of an alarm that begins *)
(* is set before the insert, that of an alarm that ends after it, if it    *)
(* succeeded.                                                              *)
(***************************************************************************)
insert(p, raised) ==
  /\ Len(alarm) < MaxRow
  /\ alarm' = Append(alarm, [polid |-> p, raised |-> raised])
  /\ UNCHANGED fails

dbFails ==
  /\ fails < MaxFail
  /\ fails' = fails + 1
  /\ UNCHANGED alarm

Raise(p) ==
  /\ bit[p]
  /\ flag[p] # 1
  /\ flag' = [flag EXCEPT ![p] = 1]
  /\ seen' = [seen EXCEPT ![p] = TRUE]
  /\ insert(p, TRUE) \/ dbFails
  /\ UNCHANGED <<bit, centre, sendalarm, queue, clients, answers, servers, boot>>

Cancel_bug(p) ==
  /\ ~bit[p]
  /\ flag[p] = 1
  /\ insert(p, FALSE) \/ dbFails
  /\ flag' = [flag EXCEPT ![p] = 2]
  /\ UNCHANGED <<bit, seen, centre, sendalarm, queue, clients, answers, servers,
                 boot>>

Cancel(p) ==
  /\ ~bit[p]
  /\ flag[p] = 1
  /\ \/ insert(p, FALSE) /\ flag' = [flag EXCEPT ![p] = 2]
     \/ dbFails /\ UNCHANGED flag
  /\ UNCHANGED <<bit, seen, centre, sendalarm, queue, clients, answers, servers,
                 boot>>

-----------------------------------------------------------------------------
(***************************************************************************)
(* sendalarm_routine.  mq_send waits while the queue is full.  At the      *)
(* start gather_stop is looked at before every packet, later only before   *)
(* the rows are selected.                                                  *)
(***************************************************************************)
mq_send(i, m) ==
  /\ Len(queue[i]) < Cap
  /\ queue' = [queue EXCEPT ![i] = Append(@, m)]

SendCancel(p) ==
  /\ p \in cancels
  /\ \/ gather_stop[at] /\ UNCHANGED queue
     \/ ~gather_stop[at] /\ mq_send(at, [row |-> 0, polid |-> p, raised |-> FALSE])
  /\ cancels' = cancels \ {p}
  /\ UNCHANGED <<recvalarm, table, started, at, batch, clients, answers, servers, boot>>

SendRow_bug(r) ==
  /\ r \in batch
  /\ \A s \in batch : r <= s
  /\ mq_send(at, [row |-> r, polid |-> alarm[r].polid, raised |-> alarm[r].raised])
  /\ batch' = batch \ {r}
  /\ centre' = [centre EXCEPT ![at] = @ \cup {r}]
  /\ UNCHANGED <<recvalarm, alarm, started, at, cancels, clients, answers,
                 servers, boot>>

SendRow(r) ==
  /\ r \in batch
  /\ \A s \in batch : r <= s
  /\ mq_send(at, [row |-> r, polid |-> alarm[r].polid, raised |-> alarm[r].raised])
  /\ batch' = batch \ {r}
  /\ UNCHANGED <<recvalarm, table, started, at, cancels, clients, answers, servers, boot>>

(***************************************************************************)
(* On to the next server: to its cancellations, if this is the start, and  *)
(* else to the rows it has not confirmed.                                  *)
(***************************************************************************)
Select_bug(i) ==
  IF gather_stop[i] THEN {} ELSE {r \in DOMAIN alarm \ centre[i] : past < r}

Select(i) == IF gather_stop[i] THEN {} ELSE DOMAIN alarm \ centre[i]

NextServer ==
  /\ cancels = {} /\ batch = {}
  /\ at' = (at % N) + 1
  /\ started' = (started \/ at = N)
  /\ cancels' = IF started' THEN {} ELSE Polid
  /\ batch' = IF started' THEN Select(at') ELSE {}
  /\ UNCHANGED <<recvalarm, table, queue, clients, answers, servers, boot>>

-----------------------------------------------------------------------------
(***************************************************************************)
(* Client i sends the next packet, the server receives and answers it.     *)
(* The time in the answer to a cancellation is that of no row.             *)
(***************************************************************************)
Deliver(i) ==
  LET m == Head(queue[i])
      rows == {m.row} \ {0}
  IN /\ session[i]
     /\ queue[i] # <<>>
     /\ queue' = [queue EXCEPT ![i] = Tail(@)]
     /\ received' = [received EXCEPT ![i] = @ \cup rows]
     /\ told' = [told EXCEPT ![i][m.polid] =
                   IF m.raised THEN "raised" ELSE "cancelled"]
     /\ answers' = [answers EXCEPT ![i] = @ \cup rows]
     /\ UNCHANGED <<recvalarm, table, sendalarm, clients, boot>>

(***************************************************************************)
(* The answer has come through client i's receiver to gather's, and        *)
(* respond_alarm_handler updates the row, or fails to.                     *)
(***************************************************************************)
OnAnswer_bug(i, r) ==
  /\ r \in answers[i]
  /\ answers' = [answers EXCEPT ![i] = @ \ {r}]
  /\ \/ /\ centre' = [j \in Server |-> centre[j] \cup {r}]
        /\ UNCHANGED <<fails, alarm>>
     \/ dbFails /\ UNCHANGED centre
  /\ UNCHANGED <<bit, flag, seen, sendalarm, queue, clients, servers, boot>>

OnAnswer(i, r) ==
  /\ r \in answers[i]
  /\ answers' = [answers EXCEPT ![i] = @ \ {r}]
  /\ \/ /\ centre' = [centre EXCEPT ![i] = @ \cup {r}]
        /\ UNCHANGED <<fails, alarm>>
     \/ dbFails /\ UNCHANGED centre
  /\ UNCHANGED <<bit, flag, seen, sendalarm, queue, clients, servers, boot>>

-----------------------------------------------------------------------------
(***************************************************************************)
(* A session ends: a packet may have been written to the dead connection,  *)
(* answers are lost, and a sender that sits in mq_receive will take one    *)
(* packet more, fail to send it, and forget it.                            *)
(***************************************************************************)
Lose(i) ==
  /\ session[i]
  /\ drops < MaxDrop
  /\ drops' = drops + 1
  /\ session' = [session EXCEPT ![i] = FALSE]
  /\ \E w \in BOOLEAN : waiting' = [waiting EXCEPT ![i] = w]
  /\ \E kept \in SUBSET answers[i] : answers' = [answers EXCEPT ![i] = kept]
  /\ \/ UNCHANGED queue
     \/ queue[i] # <<>> /\ queue' = [queue EXCEPT ![i] = Tail(@)]
  /\ UNCHANGED <<recvalarm, table, sendalarm, gather_stop, servers, boot>>

Forget(i) ==
  /\ ~session[i] /\ waiting[i]
  /\ queue[i] # <<>>
  /\ queue' = [queue EXCEPT ![i] = Tail(@)]
  /\ waiting' = [waiting EXCEPT ![i] = FALSE]
  /\ UNCHANGED <<recvalarm, table, sendalarm, session, gather_stop, drops,
                 answers, servers, boot>>

Connect(i) ==
  /\ ~session[i]
  /\ session' = [session EXCEPT ![i] = TRUE]
  /\ waiting' = [waiting EXCEPT ![i] = FALSE]
  /\ UNCHANGED <<recvalarm, table, sendalarm, queue, gather_stop, drops, answers,
                 servers, boot>>

Stop(i) ==
  /\ ~session[i] /\ ~gather_stop[i]
  /\ gather_stop' = [gather_stop EXCEPT ![i] = TRUE]
  /\ UNCHANGED <<recvalarm, table, sendalarm, queue, session, waiting, drops,
                 answers, servers, boot>>

Start(i) ==
  /\ session[i] /\ gather_stop[i]
  /\ gather_stop' = [gather_stop EXCEPT ![i] = FALSE]
  /\ UNCHANGED <<recvalarm, table, sendalarm, queue, session, waiting, drops,
                 answers, servers, boot>>

(***************************************************************************)
(* The terminal reboots.                                                   *)
(***************************************************************************)
Reboot ==
  /\ boots < MaxBoot
  /\ boots' = boots + 1
  /\ FreshGather(flag', started', at', cancels', batch', gather_stop', seen')
  /\ FreshClients(queue', session', waiting', answers', told')
  /\ past' = Len(alarm)
  /\ Room(bit, flag')
  /\ UNCHANGED <<bit, fails, table, drops, received>>

-----------------------------------------------------------------------------
Next ==
  \/ \E p \in Polid : Toggle(p) \/ Raise(p) \/ Cancel(p) \/ SendCancel(p)
  \/ \E r \in batch : SendRow(r)
  \/ NextServer
  \/ \E i \in Server :
       \/ Deliver(i) \/ Lose(i) \/ Forget(i) \/ Connect(i) \/ Stop(i) \/ Start(i)
       \/ \E r \in answers[i] : OnAnswer(i, r)
  \/ Reboot

(***************************************************************************)
(* The threads run; a link that was lost comes back and gather is told; an *)
(* answer that is not lost is handled.                                     *)
(***************************************************************************)
Fairness ==
  /\ \A p \in Polid : WF_vars(Raise(p)) /\ WF_vars(Cancel(p)) /\ WF_vars(SendCancel(p))
  /\ WF_vars(\E r \in batch : SendRow(r))
  /\ WF_vars(NextServer)
  /\ \A i \in Server :
       /\ WF_vars(Deliver(i)) /\ WF_vars(Connect(i)) /\ WF_vars(Start(i))
       /\ \A r \in Row : WF_vars(OnAnswer(i, r))

Spec == Init /\ [][Next]_vars
FairSpec == Spec /\ Fairness

-----------------------------------------------------------------------------
(***************************************************************************)
(* A row is marked as confirmed by a server, or an answer to it is on its  *)
(* way, only if that server received it -- also across reboots and lost    *)
(* sessions.                                                               *)
(***************************************************************************)
ConfirmedWasReceived ==
  \A i \in Server : centre[i] \cup answers[i] \subseteq received[i]

(***************************************************************************)
(* Within a run of gather, between two rows that raise an alarm of the     *)
(* same quantity there is one that cancels it, though inserts may fail.    *)
(***************************************************************************)
NoDoubleRaise ==
  \A r, s \in DOMAIN alarm :
    (/\ past < r /\ r < s /\ alarm[r] = alarm[s] /\ alarm[r].raised)
      => \E t \in r .. s : alarm[t] = [polid |-> alarm[r].polid, raised |-> FALSE]

(***************************************************************************)
(* An alarm that was recorded in this run and has ended for good is        *)
(* recorded as cancelled, though inserts may fail.                         *)
(***************************************************************************)
RaisedLast(p) ==
  \E r \in DOMAIN alarm :
    /\ past < r /\ alarm[r] = [polid |-> p, raised |-> TRUE]
    /\ \A s \in DOMAIN alarm : s > r => alarm[s].polid # p

CancelRecorded ==
  \A p \in Polid : <>[](~bit[p]) => <>[](~RaisedLast(p))

(***************************************************************************)
(* What gather does is what AlarmPromise promises: only a received row is  *)
(* marked, and every row is marked for every server in the end.            *)
(***************************************************************************)
Promise == INSTANCE AlarmPromise WITH
  log <- alarm, received <- received, confirmed <- centre, Server <- Server

KeepsPromise == Promise!Spec
AllDelivered == Promise!Delivered

(***************************************************************************)
(* The "first cancel alarm info" of the source: a server is not left with  *)
(* an alarm whose bit has been clear throughout this run of gather.        *)
(***************************************************************************)
CancelStands ==
  \A i \in Server, p \in Polid :
    (~seen[p] /\ ~bit[p]) => told[i][p] # "raised"
=============================================================================
