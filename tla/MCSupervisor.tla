---------------------------- MODULE MCSupervisor ----------------------------
(***************************************************************************)
(* gather and two clients, from the start of the program; a period of five *)
(* units, so that two misses are nearly a period; queues of one message.   *)
(* The releases in the field (FieldStart) find all queues of a former run  *)
(* or those that carry data, and meet one failure less.  Forks are refused *)
(* long enough to lose a report unless a former run has left queues.       *)
(***************************************************************************)
EXTENDS FieldStart

AnyInit ==
  \/ StartInit
  \/ /\ FieldStartInit
     /\ \A i, j \in Client : name[i] = name[j]
     /\ \A i \in Client : name[i].back = "old" => name[i].data = "old"

AnyNext ==
  /\ \/ StartNext
     \/ FieldStartNext /\ deaths' < MaxDeath
  /\ leftover => refused' < MaxRefused

AnySpec == AnyInit /\ [][AnyNext]_svars
=============================================================================
