---------------------------- MODULE ResendPromise ----------------------------
(***************************************************************************)
(* What a client promises of one kind of history data, without threads,    *)
(* triggers or timers.  Packets are saved in their order, and tries, each  *)
(* of which sends the packet saved last, begin only while that packet is   *)
(* not answered.  No packet is sent more than Limit times.  A packet that  *)
(* was answered in time is not declared failed, unless by a try that has   *)
(* waited while another began; and one that was declared failed is not     *)
(* taken for answered.                                                     *)
(***************************************************************************)
EXTENDS Naturals

CONSTANTS
  MaxPacket,    \* bound: packets there are
  MaxTry,       \* bound: tries under way at a time
  Limit         \* how often one packet may be resent

VARIABLES
  saved,        \* the packet saved last, 0 if none
  sent,         \* how often it was resent
  try,          \* of each try: "none", "begun", "sent"
  slow,         \* the tries that have waited while another began
  answered,     \* the packets answered in time
  failed        \* the packets declared failed

Packet == 1 .. MaxPacket
Try == 1 .. MaxTry

vars == <<saved, sent, try, slow, answered, failed>>

Init ==
  /\ saved = 0
  /\ sent = 0
  /\ try = [t \in Try |-> "none"] /\ slow = {}
  /\ answered = {} /\ failed = {}

Save(p) ==
  /\ p > saved
  /\ saved' = p /\ sent' = 0
  /\ UNCHANGED <<try, slow, answered, failed>>

Begin(t) ==
  /\ saved \in Packet \ answered
  /\ try[t] = "none"
  /\ try' = [try EXCEPT ![t] = "begun"]
  /\ slow' = {u \in Try : try[u] # "none"}
  /\ UNCHANGED <<saved, sent, answered, failed>>

Resend(t) ==
  /\ try[t] = "begun" /\ sent < Limit
  /\ try' = [try EXCEPT ![t] = "sent"]
  /\ sent' = sent + 1
  /\ UNCHANGED <<saved, slow, answered, failed>>

End(t) ==
  /\ try[t] # "none"
  /\ try' = [try EXCEPT ![t] = "none"]
  /\ slow' = slow \ {t}

GoOn(t) == End(t) /\ UNCHANGED <<saved, sent, answered, failed>>

Fail(t, p) ==
  /\ try[t] = "sent" /\ End(t)
  /\ p <= saved
  /\ p \in answered => t \in slow
  /\ failed' = failed \cup {p}
  /\ UNCHANGED <<saved, sent, answered>>

Answer(p) ==
  /\ p <= saved /\ p \notin failed
  /\ answered' = answered \cup {p}
  /\ UNCHANGED <<saved, sent, try, slow, failed>>

Next ==
  \/ \E p \in Packet : Save(p) \/ Answer(p)
  \/ \E t \in Try : Begin(t) \/ Resend(t) \/ GoOn(t)
  \/ \E t \in Try, p \in Packet : Fail(t, p)

Spec == Init /\ [][Next]_vars
=============================================================================
