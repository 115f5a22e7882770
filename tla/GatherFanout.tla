---------------------------- MODULE GatherFanout ----------------------------
(***************************************************************************)
(* How the packets gather collects reach the clients' queues.              *)
(*                                                                         *)
(* Each timer thread of gather (seconds, minutes, hours, days), when it    *)
(* has built a packet, takes `mutex' and offers the packet to every server *)
(* in turn: it looks at gather_stop[i] and then calls mq_send, which waits *)
(* while that queue is full -- with `mutex' held.  gather's receiver polls *)
(* the queues in the other direction and answers commands with the same    *)
(* blocking mq_send, without `mutex' and without looking at gather_stop.   *)
(* A client empties its queue only while its session has no error, but a   *)
(* sender already waiting in mq_receive takes one packet more.             *)
(***************************************************************************)
EXTENDS Naturals, Sequences

CONSTANTS
  N,            \* number of servers
  Collector,    \* the timer threads of gather
  Cap,          \* mq_maxmsg
  MaxRound,     \* bound: packets each collector builds
  MaxForward,   \* bound: commands each server sends
  MaxDrop,      \* bound: sessions lost
  None          \* no thread: `mutex' is free

ASSUME SizeAssumption == N \in Nat \ {0} /\ Cap \in Nat \ {0}
ASSUME NoneAssumption == None \notin Collector
ASSUME BoundAssumption ==
  MaxRound \in Nat /\ MaxForward \in Nat /\ MaxDrop \in Nat

VARIABLES
  queue,        \* mq[i]: from gather to client i
  back,         \* mqtest[i]: commands client i has forwarded, a number
  gather_stop,
  session,      \* has client i a session without error?
  sender,       \* client i's sender: looking at `error', or in mq_receive
  mutex,        \* who holds gather's mutex
  at,           \* the server a collector is busy with, 0 if none
  looked,       \* has it seen gather_stop of that server clear?
  round,        \* packets the collector has built
  poll,         \* the server whose mqtest the receiver polls next
  client,       \* the server whose command it executes, 0 if none
  job,          \* what it does next for it: a reply, a Modbus write, the last reply
  forwards, drops,  \* counted for the bounds
  sent,         \* history: collected packets put on each queue, in order
  extra         \* history: how many of them since gather_stop was set

Server == 1 .. N
Packet == Collector \X (1 .. MaxRound)
Reply  == <<None, 0>>

collecting == <<mutex, at, looked, round>>
receiving  == <<poll, client, job>>
history    == <<sent, extra>>
clients    == <<session, sender, forwards, drops>>
vars == <<queue, back, gather_stop, clients, collecting, receiving, history>>

(***************************************************************************)
(* Type correctness; no queue ever holds more than its capacity.           *)
(***************************************************************************)
FlagsOK ==
  /\ gather_stop \in [Server -> BOOLEAN]
  /\ session \in [Server -> BOOLEAN]
  /\ looked \in [Collector -> BOOLEAN]

QueueOK ==
  /\ queue \in [Server -> Seq(Packet \cup {Reply})]
  /\ \A i \in Server : Len(queue[i]) <= Cap

ThreadsOK ==
  /\ sender \in [Server -> {"check", "wait"}]
  /\ mutex \in Collector \cup {None}
  /\ at \in [Collector -> 0 .. N + 1]
  /\ round \in [Collector -> 0 .. MaxRound]
  /\ poll \in Server
  /\ client \in 0 .. N
  /\ job \in {"none", "reply", "write", "last"}
  /\ job # "none" => client # 0

CountsOK ==
  /\ back \in [Server -> 0 .. Cap]
  /\ forwards \in [Server -> 0 .. MaxForward]
  /\ drops \in 0 .. MaxDrop
  /\ sent \in [Server -> Seq(Packet)]
  /\ extra \in [Server -> Nat]

TypeOK == FlagsOK /\ QueueOK /\ ThreadsOK /\ CountsOK

Init ==
  /\ queue = [i \in Server |-> <<>>]
  /\ back = [i \in Server |-> 0]
  /\ gather_stop = [i \in Server |-> FALSE]
  /\ session = [i \in Server |-> TRUE]
  /\ sender = [i \in Server |-> "check"]
  /\ mutex = None
  /\ at = [t \in Collector |-> 0]
  /\ looked = [t \in Collector |-> FALSE]
  /\ round = [t \in Collector |-> 0]
  /\ poll = 1 /\ client = 0 /\ job = "none"
  /\ forwards = [i \in Server |-> 0] /\ drops = 0
  /\ sent = [i \in Server |-> <<>>]
  /\ extra = [i \in Server |-> 0]

-----------------------------------------------------------------------------
(***************************************************************************)
(* mq_send waits while the queue is full.                                  *)
(***************************************************************************)
mq_send(i, m) ==
  /\ Len(queue[i]) < Cap
  /\ queue' = [queue EXCEPT ![i] = Append(@, m)]

(***************************************************************************)
(* A collector's loop over the servers, under `mutex'.                     *)
(***************************************************************************)
Lock_bug(t) ==
  /\ at[t] = 0
  /\ round[t] < MaxRound
  /\ mutex' = t
  /\ round' = [round EXCEPT ![t] = @ + 1]
  /\ at' = [at EXCEPT ![t] = 1]
  /\ UNCHANGED <<queue, back, gather_stop, clients, looked, receiving, history>>

Lock(t) ==
  /\ at[t] = 0
  /\ round[t] < MaxRound
  /\ mutex = None
  /\ mutex' = t
  /\ round' = [round EXCEPT ![t] = @ + 1]
  /\ at' = [at EXCEPT ![t] = 1]
  /\ UNCHANGED <<queue, back, gather_stop, clients, looked, receiving, history>>

Look_bug(t) ==
  /\ at[t] \in Server
  /\ ~looked[t]
  /\ looked' = [looked EXCEPT ![t] = TRUE]
  /\ UNCHANGED <<queue, back, gather_stop, clients, mutex, at, round,
                 receiving, history>>

Look_bug2(t) ==             \* a stopped server ends the round
  /\ at[t] \in Server
  /\ ~looked[t]
  /\ IF gather_stop[at[t]]
       THEN at' = [at EXCEPT ![t] = N + 1] /\ UNCHANGED looked
       ELSE looked' = [looked EXCEPT ![t] = TRUE] /\ UNCHANGED at
  /\ UNCHANGED <<queue, back, gather_stop, clients, mutex, round, receiving,
                 history>>

Look(t) ==
  /\ at[t] \in Server
  /\ ~looked[t]
  /\ IF gather_stop[at[t]]
       THEN at' = [at EXCEPT ![t] = @ + 1] /\ UNCHANGED looked
       ELSE looked' = [looked EXCEPT ![t] = TRUE] /\ UNCHANGED at
  /\ UNCHANGED <<queue, back, gather_stop, clients, mutex, round, receiving,
                 history>>

Put(t) ==
  LET i == at[t]
      m == <<t, round[t]>>
  IN /\ looked[t]
     /\ mq_send(i, m)
     /\ sent' = [sent EXCEPT ![i] = Append(@, m)]
     /\ extra' = [extra EXCEPT ![i] = IF gather_stop[i] THEN @ + 1 ELSE 0]
     /\ at' = [at EXCEPT ![t] = @ + 1]
     /\ looked' = [looked EXCEPT ![t] = FALSE]
     /\ UNCHANGED <<back, gather_stop, clients, mutex, round, receiving>>

Unlock_bug(t) ==
  /\ at[t] = N + 1
  /\ at' = [at EXCEPT ![t] = 0]
  /\ UNCHANGED <<queue, back, gather_stop, clients, mutex, looked, round,
                 receiving, history>>

Unlock(t) ==
  /\ at[t] = N + 1
  /\ mutex' = None
  /\ at' = [at EXCEPT ![t] = 0]
  /\ UNCHANGED <<queue, back, gather_stop, clients, looked, round, receiving,
                 history>>

-----------------------------------------------------------------------------
(***************************************************************************)
(* gather's receiver: one non-blocking look at each mqtest in turn.  An    *)
(* answer needs no reply; a command is replied to, and one that sets       *)
(* values then writes the registers under `mutex' and replies once more.   *)
(***************************************************************************)
Poll ==
  /\ job = "none"
  /\ \/ /\ back[poll] = 0
        /\ UNCHANGED <<back, client, job>>
     \/ /\ back[poll] > 0
        /\ back' = [back EXCEPT ![poll] = @ - 1]
        /\ \/ UNCHANGED <<client, job>>
           \/ client' = poll /\ job' = "reply"
  /\ poll' = (poll % N) + 1
  /\ UNCHANGED <<queue, gather_stop, clients, collecting, history>>

SendReply ==
  /\ job \in {"reply", "last"}
  /\ mq_send(client, Reply)
  /\ \/ client' = 0 /\ job' = "none"
     \/ job = "reply" /\ job' = "write" /\ UNCHANGED client
  /\ UNCHANGED <<back, gather_stop, clients, collecting, poll, history>>

WriteRegisters ==
  /\ job = "write"
  /\ mutex = None
  /\ job' = "last"
  /\ UNCHANGED <<queue, back, gather_stop, clients, collecting, poll, client,
                 history>>

-----------------------------------------------------------------------------
(***************************************************************************)
(* A client: its sender, its receiver, its session, and the two signals    *)
(* by which gather learns of the session, late.                            *)
(***************************************************************************)
CheckError(i) ==
  /\ sender[i] = "check"
  /\ session[i]
  /\ sender' = [sender EXCEPT ![i] = "wait"]
  /\ UNCHANGED <<queue, back, gather_stop, session, forwards, drops,
                 collecting, receiving, history>>

Take(i) ==
  /\ sender[i] = "wait"
  /\ queue[i] # <<>>
  /\ queue' = [queue EXCEPT ![i] = Tail(@)]
  /\ sender' = [sender EXCEPT ![i] = "check"]
  /\ UNCHANGED <<back, gather_stop, session, forwards, drops, collecting,
                 receiving, history>>

Forward(i) ==
  /\ session[i]
  /\ forwards[i] < MaxForward
  /\ back[i] < Cap
  /\ back' = [back EXCEPT ![i] = @ + 1]
  /\ forwards' = [forwards EXCEPT ![i] = @ + 1]
  /\ UNCHANGED <<queue, gather_stop, session, sender, drops, collecting,
                 receiving, history>>

Lose(i) ==
  /\ session[i]
  /\ drops < MaxDrop
  /\ session' = [session EXCEPT ![i] = FALSE]
  /\ drops' = drops + 1
  /\ UNCHANGED <<queue, back, gather_stop, sender, forwards, collecting,
                 receiving, history>>

Regain(i) ==
  /\ ~session[i]
  /\ session' = [session EXCEPT ![i] = TRUE]
  /\ UNCHANGED <<queue, back, gather_stop, sender, forwards, drops,
                 collecting, receiving, history>>

Stop(i) ==
  /\ ~session[i] /\ ~gather_stop[i]
  /\ gather_stop' = [gather_stop EXCEPT ![i] = TRUE]
  /\ extra' = [extra EXCEPT ![i] = 0]
  /\ UNCHANGED <<queue, back, clients, collecting, receiving, sent>>

Start(i) ==
  /\ session[i] /\ gather_stop[i]
  /\ gather_stop' = [gather_stop EXCEPT ![i] = FALSE]
  /\ UNCHANGED <<queue, back, clients, collecting, receiving, history>>

-----------------------------------------------------------------------------
Next ==
  \/ \E t \in Collector : Lock(t) \/ Look(t) \/ Put(t) \/ Unlock(t)
  \/ Poll \/ SendReply \/ WriteRegisters
  \/ \E i \in Server :
       \/ CheckError(i) \/ Take(i) \/ Forward(i)
       \/ Lose(i) \/ Regain(i) \/ Stop(i) \/ Start(i)

(***************************************************************************)
(* The threads run; a thread that waits for `mutex' or for room goes on    *)
(* when it is there for good.  A lost session is regained in the end.      *)
(***************************************************************************)
Fairness ==
  /\ \A t \in Collector : WF_vars(Look(t)) /\ WF_vars(Put(t)) /\ WF_vars(Unlock(t))
  /\ WF_vars(Poll) /\ WF_vars(SendReply) /\ WF_vars(WriteRegisters)
  /\ \A i \in Server :
       WF_vars(CheckError(i)) /\ WF_vars(Take(i)) /\ WF_vars(Regain(i))

Spec == Init /\ [][Next]_vars /\ Fairness

-----------------------------------------------------------------------------
(***************************************************************************)
(* All servers are offered the collected packets in one order: of two      *)
(* packets that both reached two queues, the same one came first in each.  *)
(***************************************************************************)
SameOrder ==
  \A i, j \in Server :
    \A a, b \in DOMAIN sent[i] : \A c, d \in DOMAIN sent[j] :
      (a < b /\ sent[i][a] = sent[j][c] /\ sent[i][b] = sent[j][d]) => c < d

(***************************************************************************)
(* After gather has handled a stop, at most one more collected packet goes *)
(* onto that queue: the one whose collector had looked just before.        *)
(***************************************************************************)
StopTakesEffect ==
  \A i \in Server : gather_stop[i] => extra[i] <= 1

(***************************************************************************)
(* A round of packets ends, whatever the servers' commands put onto the    *)
(* queues meanwhile -- if every lost session is regained.  (If one is not, *)
(* a collector can wait for room for ever, with `mutex' held.)             *)
(***************************************************************************)
RoundEnds == \A t \in Collector : (at[t] # 0) ~> (at[t] = 0)

(***************************************************************************)
(* Every forwarded command is taken by gather's receiver, though it may    *)
(* first wait for room in the queue of another server.                     *)
(***************************************************************************)
CommandsTaken == \A i \in Server : (back[i] > 0) ~> (back[i] = 0)

Progress == RoundEnds /\ CommandsTaken

(***************************************************************************)
(* What FanoutPromise says: a round belongs to the collector that holds    *)
(* `mutex', no server that is not stopped is passed over or offered a      *)
(* packet twice, and a stopped one is offered at most one more (gather.c   *)
(* 941-949).                                                               *)
(***************************************************************************)
Promise == INSTANCE FanoutPromise WITH
  current <- IF mutex = None THEN {} ELSE {<<mutex, round[mutex]>>},
  due     <- IF mutex = None THEN {} ELSE at[mutex] .. N,
  offered <- sent,
  stopped <- {i \in Server : gather_stop[i]},
  spare   <- {i \in Server : gather_stop[i] /\ extra[i] = 0}

KeepsPromise == Promise!Spec
=============================================================================
