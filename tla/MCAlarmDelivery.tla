--------------------------- MODULE MCAlarmDelivery ---------------------------
(***************************************************************************)
(* Two servers, one quantity, queues of one packet, and the room for two   *)
(* rows; one lost session, one failed database call, one reboot.           *)
(***************************************************************************)
EXTENDS AlarmDelivery
=============================================================================
