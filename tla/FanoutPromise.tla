---------------------------- MODULE FanoutPromise ----------------------------
(***************************************************************************)
(* What gather promises of the packets it collects, without threads or     *)
(* queues: they go out in rounds, one packet at a time.  In its round a    *)
(* packet is offered to every server once, except to those that are        *)
(* stopped; and of a stopped server no more than one packet is in store    *)
(* that was on its way when it was stopped.                                *)
(***************************************************************************)
EXTENDS Naturals, Sequences

CONSTANTS
  Server,
  Packet

VARIABLES
  current,      \* the packet of the round under way, in a set; {} between rounds
  due,          \* the servers that the round has still to come to
  offered,      \* the packets each server was offered, in order
  stopped,      \* the servers that have been stopped
  spare         \* those of them that may still be offered one packet

round == <<current, due>>
stops == <<stopped, spare>>
vars == <<round, offered, stops>>

Init ==
  /\ current = {} /\ due = {}
  /\ offered = [i \in Server |-> <<>>]
  /\ stopped = {} /\ spare = {}

Begin(p) ==         \* a packet that nobody was offered before
  /\ current = {}
  /\ \A i \in Server : \A a \in DOMAIN offered[i] : offered[i][a] # p
  /\ current' = {p} /\ due' = Server
  /\ UNCHANGED <<offered, stops>>

Offer(i, p) ==
  /\ p \in current /\ i \in due
  /\ i \in stopped => i \in spare
  /\ offered' = [offered EXCEPT ![i] = Append(@, p)]
  /\ due' = due \ {i} /\ spare' = spare \ {i}
  /\ UNCHANGED <<current, stopped>>

PassOver(i) ==
  /\ i \in due \cap stopped
  /\ due' = due \ {i}
  /\ UNCHANGED <<current, offered, stops>>

End ==
  /\ due = {}
  /\ current' = {}
  /\ UNCHANGED <<due, offered, stops>>

Stop(i) ==
  /\ stopped' = stopped \cup {i} /\ spare' = spare \cup {i}
  /\ UNCHANGED <<round, offered>>

Start(i) ==
  /\ stopped' = stopped \ {i} /\ spare' = spare \ {i}
  /\ UNCHANGED <<round, offered>>

Next ==
  \/ \E p \in Packet : Begin(p)
  \/ End
  \/ \E i \in Server :
       (\E p \in Packet : Offer(i, p)) \/ PassOver(i) \/ Stop(i) \/ Start(i)

Spec == Init /\ [][Next]_vars
=============================================================================
