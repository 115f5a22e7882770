--------------------------- MODULE MCGatherFanout ---------------------------
(***************************************************************************)
(* Two servers and two collectors; queues of one message, so that each     *)
(* sender soon waits for room; one packet per collector, or two, one       *)
(* command per server, one lost session.                                   *)
(***************************************************************************)
EXTENDS GatherFanout
=============================================================================
